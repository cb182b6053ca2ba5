----------------------------- MODULE Artifacts -----------------------------
(***************************************************************************)
(* core/artifacts.py: result documents whose metadata and bytes lie in two *)
(* stores.  An operation runs without an await but writes one store after  *)
(* the other; a failing second write, or a crash, leaves the first.  Such  *)
(* an operation is an action of its own.  Artifacts of one organization.   *)
(***************************************************************************)
EXTENDS Naturals

CONSTANTS
  Artifacts,   \* artifact ids, minted once and never again
  Creators,
  Contents,    \* results, each with the run or export it comes from
  Erased,      \* the content a tombstone names
  NoRow,       \* what the metadata store returns for an id it does not hold
  MaxTime,     \* bound on the clock
  MaxFaults    \* bound on operations that meet a failing store

ASSUME ArtifactsAssumption ==
  /\ Erased \notin Contents
  /\ MaxTime \in Nat \ {0} /\ MaxFaults \in Nat

VARIABLES
  clock,
  row,      \* the metadata store
  bytes,    \* the artifacts whose bytes are in the blob store
  faults,
  doubted   \* history: artifacts that could not be read when their result was
            \* stored again

vars == <<clock, row, bytes, faults, doubted>>

\* A date of 0 stands for the creator_managed policy, which knows none.
Rows ==
  [by : Creators, content : Contents \cup {Erased}, deleted : BOOLEAN,
   shared : BOOLEAN, until : 0 .. MaxTime, hold : BOOLEAN]

ASSUME RowAssumption == NoRow \notin Rows

Known(a) == row[a] # NoRow
Live(a) == Known(a) /\ ~row[a].deleted

\* A tombstone names no content.
TypeOK ==
  /\ clock \in 1 .. MaxTime
  /\ row \in [Artifacts -> Rows \cup {NoRow}]
  /\ \A a \in Artifacts : Known(a) => (row[a].deleted <=> row[a].content = Erased)
  /\ bytes \subseteq Artifacts
  /\ faults \in 0 .. MaxFaults
  /\ doubted \subseteq Artifacts

Init ==
  /\ clock = 1
  /\ row = [a \in Artifacts |-> NoRow]
  /\ bytes = {}
  /\ faults = 0
  /\ doubted = {}

-----------------------------------------------------------------------------
Fault == faults < MaxFaults /\ faults' = faults + 1

\* Mistake: nobody looks whether the result is stored already.
NeverReusable(who, content) == FALSE

Same(who, content) ==
  {a \in Artifacts : Live(a) /\ row[a].by = who /\ row[a].content = content}

\* A result is stored once as long as its bytes are there.
Reusable(who, content) == Same(who, content) \cap bytes # {}

Fresh(a) == ~Known(a) /\ a \notin bytes

NewRow(who, content, shared) ==
  [by |-> who, content |-> content, deleted |-> FALSE, shared |-> shared,
   until |-> 0, hold |-> FALSE]

StoreResult(a, who, content, shared) ==
  /\ Fresh(a) /\ ~Reusable(who, content)
  /\ bytes' = bytes \cup {a}
  /\ row' = [row EXCEPT ![a] = NewRow(who, content, shared)]
  /\ UNCHANGED <<clock, faults, doubted>>

\* The blob store fails while the bytes of every earlier record are looked at:
\* those stay, and the result gets a record of its own.
StoreAgain(a, who, content, shared) ==
  /\ Fresh(a) /\ Reusable(who, content) /\ Fault
  /\ bytes' = bytes \cup {a}
  /\ row' = [row EXCEPT ![a] = NewRow(who, content, shared)]
  /\ doubted' = doubted \cup Same(who, content)
  /\ UNCHANGED clock

\* Mistake: the metadata comes first.
RowWithoutBytes(a, who, content) ==
  /\ Fresh(a) /\ Fault
  /\ row' = [row EXCEPT ![a] = NewRow(who, content, FALSE)]
  /\ UNCHANGED <<clock, bytes, doubted>>

\* The bytes are stored, their metadata is not, and rolling the bytes back
\* fails as well; whether there was an earlier record to fail at first makes no
\* difference.
StoreHalfway(a, who, content) ==
  /\ Fresh(a) /\ Fault
  /\ bytes' = bytes \cup {a}
  /\ UNCHANGED <<clock, row, doubted>>

Set(a, new) ==
  /\ row' = [row EXCEPT ![a] = new]
  /\ UNCHANGED <<clock, bytes, faults, doubted>>

UpdateSharing(a, shared) ==
  /\ Known(a)
  /\ Set(a, [row[a] EXCEPT !.shared = shared])

SetRetention(a, date) ==
  /\ Known(a)
  /\ IF date = 0 THEN ~row[a].hold ELSE date > clock /\ date >= row[a].until
  /\ Set(a, [row[a] EXCEPT !.until = date])

SetLegalHold(a, enabled) ==
  /\ Known(a)
  /\ Set(a, [row[a] EXCEPT !.hold = enabled])

Tombstone(a) ==
  [row[a] EXCEPT !.deleted = TRUE, !.content = Erased, !.shared = FALSE]

\* Mistake: the retention date is not looked at.
DeletableUnheld(a) == Live(a) /\ ~row[a].hold

Deletable(a) == Live(a) /\ ~row[a].hold /\ row[a].until <= clock

DeleteResult(a) ==
  /\ Deletable(a)
  /\ row' = [row EXCEPT ![a] = Tombstone(a)]
  /\ bytes' = bytes \ {a}
  /\ UNCHANGED <<clock, faults, doubted>>

DeleteHalfway(a) ==
  /\ Deletable(a) /\ Fault
  /\ row' = [row EXCEPT ![a] = Tombstone(a)]
  /\ UNCHANGED <<clock, bytes, doubted>>

\* Whoever deleted the result asks again: the bytes go, nothing else is asked.
RetryDelete(a) ==
  /\ Known(a) /\ row[a].deleted
  /\ bytes' = bytes \ {a}
  /\ UNCHANGED <<clock, row, faults, doubted>>

Tick ==
  /\ clock < MaxTime
  /\ clock' = clock + 1
  /\ UNCHANGED <<row, bytes, faults, doubted>>

-----------------------------------------------------------------------------
Next ==
  \/ \E a \in Artifacts :
       \/ \E who \in Creators, content \in Contents :
            \/ \E shared \in BOOLEAN : \/ StoreResult(a, who, content, shared)
                                     \/ StoreAgain(a, who, content, shared)
            \/ StoreHalfway(a, who, content)
       \/ \E on \in BOOLEAN : UpdateSharing(a, on) \/ SetLegalHold(a, on)
       \/ \E date \in 0 .. MaxTime : SetRetention(a, date)
       \/ DeleteResult(a) \/ DeleteHalfway(a) \/ RetryDelete(a)
  \/ Tick

Spec == Init /\ [][Next]_vars

-----------------------------------------------------------------------------
\* Whatever stops halfway, metadata that promises a document has its bytes
\* (artifacts.py:321-343, 437-449).
LiveHasBytes == \A a \in Artifacts : Live(a) => a \in bytes

\* A creator's result is stored once, until it is deleted
\* (artifacts.py:289-317): of two records of it at most one was never doubted,
\* so a duplicate needs a store that failed in between.
StoredOnceOnly ==
  \A a, b \in Artifacts \ doubted :
    Live(a) /\ Live(b) /\ row[a].by = row[b].by /\ row[a].content = row[b].content => a = b

\* A document under hold, or before its date, is served until the hold is
\* lifted or the policy given up, and what is deleted never comes back, nor do
\* bytes that are gone (artifacts.py:405-450).
ErasureIsOrderly ==
  [][\A a \in Artifacts :
       /\ Live(a) /\ (row[a].hold \/ row[a].until > clock) => Live(a)' /\ a \in bytes'
       /\ Known(a) /\ row[a].deleted => Known(a)' /\ row'[a].deleted
       /\ Known(a) /\ a \notin bytes => a \notin bytes']_vars

\* README.md:259: "a legal hold blocks erasure".  It does not where a
\* deletion stopped halfway before the hold was set.
HeldBytesStay ==
  [][\A a \in Artifacts : Known(a) /\ row[a].hold /\ a \in bytes => a \in bytes']_vars
=============================================================================
