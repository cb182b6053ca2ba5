-------------------------- MODULE ArtifactsProofs --------------------------
(***************************************************************************)
(* Theorems about Artifacts for any artifacts, creators, contents, dates   *)
(* and faults.                                                             *)
(***************************************************************************)
EXTENDS Artifacts, TLAPS

\* A result is stored once because the bytes of a live row are there.
IInv == TypeOK /\ LiveHasBytes /\ StoredOnceOnly

Step(a) ==
  \/ \E who \in Creators, content \in Contents :
       \/ \E shared \in BOOLEAN : \/ StoreResult(a, who, content, shared)
                                \/ StoreAgain(a, who, content, shared)
       \/ StoreHalfway(a, who, content)
  \/ \E on \in BOOLEAN : UpdateSharing(a, on) \/ SetLegalHold(a, on)
  \/ \E date \in 0 .. MaxTime : SetRetention(a, date)
  \/ DeleteResult(a) \/ DeleteHalfway(a) \/ RetryDelete(a)

LEMMA NextSteps == Next <=> (\E a \in Artifacts : Step(a)) \/ Tick
BY DEF Next, Step

\* A row under sharing, retention or hold still is the same document.
Amended(a) ==
  \E new \in Rows :
    /\ Known(a) /\ row' = [row EXCEPT ![a] = new] /\ bytes' = bytes
    /\ new.by = row[a].by /\ new.content = row[a].content /\ new.deleted = row[a].deleted

LEMMA Amendments ==
  ASSUME TypeOK, NEW a \in Artifacts,
         \/ \E on \in BOOLEAN : UpdateSharing(a, on) \/ SetLegalHold(a, on)
         \/ \E date \in 0 .. MaxTime : SetRetention(a, date)
  PROVE  Amended(a)
<1>1. Known(a) /\ row[a] \in Rows
  BY DEF UpdateSharing, SetLegalHold, SetRetention, Known, TypeOK
<1>2. ASSUME NEW on \in BOOLEAN, UpdateSharing(a, on) PROVE Amended(a)
  <2> DEFINE new == [row[a] EXCEPT !.shared = on]
  <2>1. /\ new \in Rows /\ new.by = row[a].by /\ new.content = row[a].content
        /\ new.deleted = row[a].deleted
    BY <1>1 DEF Rows
  <2>2. row' = [row EXCEPT ![a] = new] /\ bytes' = bytes
    BY <1>2 DEF UpdateSharing, Set
  <2>. QED
    BY <1>1, <2>1, <2>2 DEF Amended
<1>3. ASSUME NEW on \in BOOLEAN, SetLegalHold(a, on) PROVE Amended(a)
  <2> DEFINE new == [row[a] EXCEPT !.hold = on]
  <2>1. /\ new \in Rows /\ new.by = row[a].by /\ new.content = row[a].content
        /\ new.deleted = row[a].deleted
    BY <1>1 DEF Rows
  <2>2. row' = [row EXCEPT ![a] = new] /\ bytes' = bytes
    BY <1>3 DEF SetLegalHold, Set
  <2>. QED
    BY <1>1, <2>1, <2>2 DEF Amended
<1>4. ASSUME NEW date \in 0 .. MaxTime, SetRetention(a, date) PROVE Amended(a)
  <2> DEFINE new == [row[a] EXCEPT !.until = date]
  <2>1. /\ new \in Rows /\ new.by = row[a].by /\ new.content = row[a].content
        /\ new.deleted = row[a].deleted
    BY <1>1 DEF Rows
  <2>2. row' = [row EXCEPT ![a] = new] /\ bytes' = bytes
    BY <1>4 DEF SetRetention, Set
  <2>. QED
    BY <1>1, <2>1, <2>2 DEF Amended
<1>. QED
  BY <1>2, <1>3, <1>4

LEMMA Tombstones ==
  ASSUME TypeOK, NEW a \in Artifacts, Live(a)
  PROVE  /\ Tombstone(a) \in Rows
         /\ Tombstone(a).deleted /\ Tombstone(a).content = Erased
<1>1. row[a] \in Rows
  BY DEF Live, Known, TypeOK
<1>. QED
  BY <1>1 DEF Tombstone, Rows

LEMMA RowSet ==
  ASSUME TypeOK, NEW a \in Artifacts, NEW new \in Rows, row' = [row EXCEPT ![a] = new]
  PROVE  /\ row' \in [Artifacts -> Rows \cup {NoRow}]
         /\ row'[a] = new /\ new # NoRow
         /\ \A b \in Artifacts \ {a} : row'[b] = row[b]
BY RowAssumption DEF TypeOK

-----------------------------------------------------------------------------
(* Every step keeps the invariant.                                          *)

\* A step that leaves row and bytes of all artifacts but one alone.
LEMMA OneRowKeeps ==
  ASSUME IInv, NEW a \in Artifacts, NEW new \in Rows,
         row' = [row EXCEPT ![a] = new], bytes' \subseteq Artifacts,
         \A b \in Artifacts \ {a} : b \in bytes => b \in bytes',
         clock' \in 1 .. MaxTime, faults' \in 0 .. MaxFaults,
         doubted \subseteq doubted', doubted' \subseteq Artifacts,
         new.deleted <=> new.content = Erased,
         ~new.deleted => a \in bytes',
         ~new.deleted /\ a \notin doubted' => \A b \in Artifacts \ ({a} \cup doubted') :
           ~(Live(b) /\ row[b].by = new.by /\ row[b].content = new.content)
  PROVE  IInv'
<1>1. TypeOK /\ LiveHasBytes /\ StoredOnceOnly
  BY DEF IInv
<1>2. /\ row' \in [Artifacts -> Rows \cup {NoRow}]
      /\ row'[a] = new /\ new # NoRow
      /\ \A b \in Artifacts \ {a} : row'[b] = row[b]
  BY <1>1, RowSet
<1>3. TypeOK'
  BY <1>1, <1>2 DEF TypeOK, Known
<1>4. LiveHasBytes'
  BY <1>1, <1>2 DEF LiveHasBytes, Live, Known
<1>5. StoredOnceOnly'
  <2> SUFFICES ASSUME NEW b \in Artifacts \ doubted', NEW c \in Artifacts \ doubted',
                      Live(b)', Live(c)', row'[b].by = row'[c].by,
                      row'[b].content = row'[c].content
               PROVE  b = c
    BY DEF StoredOnceOnly
  <2>1. CASE b # a /\ c # a
    BY <1>1, <1>2, <2>1 DEF StoredOnceOnly, Live, Known
  <2>2. CASE b = a /\ c # a
    BY <1>2, <2>2 DEF Live, Known
  <2>3. CASE b # a /\ c = a
    BY <1>2, <2>3 DEF Live, Known
  <2>. QED
    BY <2>1, <2>2, <2>3
<1>. QED
  BY <1>3, <1>4, <1>5 DEF IInv

\* A step that changes no row.
LEMMA RowsStay ==
  ASSUME IInv, row' = row, bytes' \subseteq Artifacts,
         \A b \in Artifacts : Live(b) /\ b \in bytes => b \in bytes',
         clock' \in 1 .. MaxTime, faults' \in 0 .. MaxFaults, doubted' = doubted
  PROVE  IInv'
BY DEF IInv, TypeOK, LiveHasBytes, StoredOnceOnly, Live, Known

LEMMA StepKeeps ==
  ASSUME IInv, NEW a \in Artifacts, Step(a)
  PROVE  IInv'
<1>1. TypeOK /\ LiveHasBytes /\ StoredOnceOnly
  BY DEF IInv
<1>2. /\ clock \in 1 .. MaxTime /\ faults \in 0 .. MaxFaults /\ bytes \subseteq Artifacts
      /\ doubted \subseteq Artifacts
  BY <1>1 DEF TypeOK
<1>3. ASSUME NEW who \in Creators, NEW content \in Contents, NEW shared \in BOOLEAN,
             StoreResult(a, who, content, shared) \/ StoreAgain(a, who, content, shared)
      PROVE  IInv'
  <2> DEFINE new == NewRow(who, content, shared)
  <2>1. /\ new \in Rows /\ new.by = who /\ new.content = content /\ ~new.deleted
    BY ArtifactsAssumption DEF NewRow, Rows
  <2>2. /\ row' = [row EXCEPT ![a] = new] /\ bytes' = bytes \cup {a}
        /\ clock' = clock
        /\ doubted \subseteq doubted' /\ doubted' \subseteq Artifacts
    BY <1>2, <1>3 DEF StoreResult, StoreAgain, Same
  <2>5. faults' \in 0 .. MaxFaults
    BY <1>2, <1>3, ArtifactsAssumption DEF StoreResult, StoreAgain, Fault
  <2>3. new.content # Erased
    BY <2>1, ArtifactsAssumption
  <2> HIDE DEF new
  \* A live row has its bytes, so a result stored before is found or doubted.
  <2>4. \A b \in Artifacts \ doubted' :
          ~(Live(b) /\ row[b].by = new.by /\ row[b].content = new.content)
    <3>1. CASE StoreResult(a, who, content, shared)
      BY <1>1, <2>1, <3>1 DEF StoreResult, Reusable, Same, LiveHasBytes
    <3>2. CASE StoreAgain(a, who, content, shared)
      BY <2>1, <3>2 DEF StoreAgain, Same
    <3>. QED
      BY <1>3, <3>1, <3>2
  <2>. QED
    BY <1>2, <2>1, <2>2, <2>3, <2>4, <2>5, OneRowKeeps
<1>4. ASSUME NEW who \in Creators, NEW content \in Contents, StoreHalfway(a, who, content)
      PROVE  IInv'
  <2>1. row' = row /\ bytes' = bytes \cup {a} /\ clock' = clock /\ doubted' = doubted
    BY <1>4 DEF StoreHalfway
  <2>2. faults' \in 0 .. MaxFaults
    BY <1>2, <1>4, ArtifactsAssumption DEF StoreHalfway, Fault
  <2>. QED
    BY <1>2, <2>1, <2>2, RowsStay
<1>5. CASE \/ \E on \in BOOLEAN : UpdateSharing(a, on) \/ SetLegalHold(a, on)
           \/ \E date \in 0 .. MaxTime : SetRetention(a, date)
  <2>1. Amended(a)
    BY <1>1, <1>5, Amendments
  <2>2. PICK new \in Rows :
          /\ Known(a) /\ row' = [row EXCEPT ![a] = new] /\ bytes' = bytes
          /\ new.by = row[a].by /\ new.content = row[a].content /\ new.deleted = row[a].deleted
    BY <2>1 DEF Amended
  <2>3. clock' = clock /\ faults' = faults /\ doubted' = doubted
    BY <1>5 DEF UpdateSharing, SetLegalHold, SetRetention, Set
  <2>4. new.deleted <=> new.content = Erased
    BY <1>1, <2>2 DEF TypeOK
  <2>5. ~new.deleted => Live(a)
    BY <2>2 DEF Live
  <2>6. ~new.deleted => a \in bytes'
    BY <1>1, <2>2, <2>5 DEF LiveHasBytes
  <2>7. ~new.deleted /\ a \notin doubted => \A b \in Artifacts \ ({a} \cup doubted) :
          ~(Live(b) /\ row[b].by = new.by /\ row[b].content = new.content)
    BY <1>1, <2>2, <2>5 DEF StoredOnceOnly
  <2>. QED
    BY <1>2, <2>2, <2>3, <2>4, <2>6, <2>7, OneRowKeeps
<1>6. CASE DeleteResult(a) \/ DeleteHalfway(a)
  <2> DEFINE new == Tombstone(a)
  <2>1. new \in Rows /\ new.deleted /\ new.content = Erased
    BY <1>1, <1>6, Tombstones DEF DeleteResult, DeleteHalfway, Deletable
  <2>2. /\ row' = [row EXCEPT ![a] = new] /\ clock' = clock /\ doubted' = doubted
        /\ bytes' = bytes \ {a} \/ bytes' = bytes
    BY <1>6 DEF DeleteResult, DeleteHalfway
  <2>3. faults' \in 0 .. MaxFaults
    BY <1>2, <1>6, ArtifactsAssumption DEF DeleteResult, DeleteHalfway, Fault
  <2> HIDE DEF new
  <2>. QED
    BY <1>2, <2>1, <2>2, <2>3, OneRowKeeps
<1>7. CASE RetryDelete(a)
  <2>1. /\ row' = row /\ bytes' = bytes \ {a} /\ clock' = clock /\ faults' = faults
        /\ doubted' = doubted /\ ~Live(a)
    BY <1>7 DEF RetryDelete, Live
  <2>. QED
    BY <1>2, <2>1, RowsStay
<1>. QED
  BY <1>3, <1>4, <1>5, <1>6, <1>7 DEF Step

LEMMA Inductive == Spec => []IInv
<1>1. Init => IInv
  <2> SUFFICES ASSUME Init PROVE IInv
    OBVIOUS
  <2>1. \A a \in Artifacts : ~Known(a)
    BY DEF Init, Known
  <2>2. clock \in 1 .. MaxTime /\ faults \in 0 .. MaxFaults
    BY ArtifactsAssumption DEF Init
  <2>. QED
    BY <2>1, <2>2 DEF Init, IInv, TypeOK, LiveHasBytes, StoredOnceOnly, Live
<1>2. IInv /\ [Next]_vars => IInv'
  <2> SUFFICES ASSUME IInv, [Next]_vars PROVE IInv'
    OBVIOUS
  <2>1. CASE UNCHANGED vars \/ Tick
    <3>1. /\ row' = row /\ bytes' = bytes /\ faults' = faults /\ doubted' = doubted
          /\ bytes \subseteq Artifacts /\ faults \in 0 .. MaxFaults
      BY <2>1 DEF vars, Tick, IInv, TypeOK
    <3>2. clock' \in 1 .. MaxTime
      BY <2>1, ArtifactsAssumption DEF vars, Tick, IInv, TypeOK
    <3>. QED
      BY <3>1, <3>2, RowsStay
  <2>. QED
    BY <2>1, NextSteps, StepKeeps
<1>. QED
  BY <1>1, <1>2, PTL DEF Spec

\* Every row is well typed, and a tombstone names no content
\* (artifacts.py:437-446).
THEOREM ArtifactsAreWellTyped == Spec => []TypeOK
<1>1. IInv => TypeOK
  BY DEF IInv
<1>. QED
  BY <1>1, Inductive, PTL

\* Whatever stops halfway, metadata that promises a document has its bytes
\* (artifacts.py:321-343, 437-449).
THEOREM LiveArtifactsHaveBytes == Spec => []LiveHasBytes
<1>1. IInv => LiveHasBytes
  BY DEF IInv
<1>. QED
  BY <1>1, Inductive, PTL

\* Of a creator's result there is never more than one record that no failing
\* store has put in doubt (artifacts.py:289-317).
THEOREM ResultsAreStoredOnce == Spec => []StoredOnceOnly
<1>1. IInv => StoredOnceOnly
  BY DEF IInv
<1>. QED
  BY <1>1, Inductive, PTL

-----------------------------------------------------------------------------
\* What is protected is served until it is released, and what is gone stays
\* gone, whichever operations stop halfway (artifacts.py:405-450).
THEOREM ErasureKeepsOrder == Spec => ErasureIsOrderly
<1> DEFINE Protected(b) == Live(b) /\ (row[b].hold \/ row[b].until > clock)
           Orderly(b) == /\ Protected(b) => Live(b)' /\ b \in bytes'
                         /\ Known(b) /\ row[b].deleted => Known(b)' /\ row'[b].deleted
                         /\ Known(b) /\ b \notin bytes => b \notin bytes'
           AllOrderly ==
             \A a \in Artifacts :
               /\ Live(a) /\ (row[a].hold \/ row[a].until > clock) => Live(a)' /\ a \in bytes'
               /\ Known(a) /\ row[a].deleted => Known(a)' /\ row'[a].deleted
               /\ Known(a) /\ a \notin bytes => a \notin bytes'
<1>1. ASSUME TypeOK, LiveHasBytes, NEW b \in Artifacts, row'[b] = row[b],
             b \in bytes' <=> b \in bytes
      PROVE  Orderly(b)
  BY <1>1 DEF LiveHasBytes, Live, Known
<1>2. ASSUME TypeOK, LiveHasBytes, NEW a \in Artifacts, Step(a) PROVE Orderly(a)
  <2>1. ASSUME NEW who \in Creators, NEW content \in Contents,
               \/ \E shared \in BOOLEAN : \/ StoreResult(a, who, content, shared)
                                        \/ StoreAgain(a, who, content, shared)
               \/ StoreHalfway(a, who, content)
        PROVE  Orderly(a)
    BY <2>1 DEF StoreResult, StoreAgain, StoreHalfway, Fresh, Live
  <2>2. CASE \/ \E on \in BOOLEAN : UpdateSharing(a, on) \/ SetLegalHold(a, on)
             \/ \E date \in 0 .. MaxTime : SetRetention(a, date)
    <3>1. PICK new \in Rows :
            /\ Known(a) /\ row' = [row EXCEPT ![a] = new] /\ bytes' = bytes
            /\ new.deleted = row[a].deleted
      BY <1>2, <2>2, Amendments DEF Amended
    <3>2. row'[a] = new /\ new # NoRow
      BY <1>2, <3>1, RowSet
    <3>. QED
      BY <1>2, <3>1, <3>2 DEF LiveHasBytes, Live, Known
  <2>3. CASE DeleteResult(a) \/ DeleteHalfway(a)
    <3>1. ~Protected(a) /\ Live(a)
      BY <1>2, <2>3 DEF DeleteResult, DeleteHalfway, Deletable, TypeOK, Rows, Live, Known
    <3>2. bytes' \subseteq bytes
      BY <2>3 DEF DeleteResult, DeleteHalfway
    <3>. QED
      BY <3>1, <3>2 DEF Live
  <2>4. CASE RetryDelete(a)
    BY <2>4 DEF RetryDelete, Live, Known
  <2>. QED
    BY <1>2, <2>1, <2>2, <2>3, <2>4 DEF Step
<1>3. ASSUME TypeOK, NEW a \in Artifacts, Step(a), NEW b \in Artifacts, b # a
      PROVE  row'[b] = row[b] /\ (b \in bytes' <=> b \in bytes)
  BY <1>3 DEF Step, StoreResult, StoreAgain, StoreHalfway, UpdateSharing, SetLegalHold, SetRetention, Set,
              DeleteResult, DeleteHalfway, RetryDelete, TypeOK
<1>4. IInv /\ [Next]_vars => [AllOrderly]_vars
  <2> SUFFICES ASSUME IInv, Next PROVE \A b \in Artifacts : Orderly(b)
    BY Zenon
  <2>1. TypeOK /\ LiveHasBytes
    BY DEF IInv
  <2>2. CASE Tick
    BY <1>1, <2>1, <2>2 DEF Tick
  <2>3. ASSUME NEW a \in Artifacts, Step(a) PROVE \A b \in Artifacts : Orderly(b)
    <3> SUFFICES ASSUME NEW b \in Artifacts PROVE Orderly(b)
      OBVIOUS
    <3>1. CASE b = a
      BY <1>2, <2>1, <2>3, <3>1
    <3>2. CASE b # a
      BY <1>1, <1>3, <2>1, <2>3, <3>2
    <3>. QED
      BY <3>1, <3>2
  <2>. QED
    BY <2>2, <2>3, NextSteps
<1>. QED
  BY <1>4, Inductive, PTL DEF Spec, ErasureIsOrderly
=============================================================================
