------------------------------ MODULE Retention ------------------------------
(***************************************************************************)
(* What the document stores promise about retention, whatever runs use     *)
(* them: a record is kept while it is under legal hold or its retention    *)
(* date is ahead, the date moves only forward, and protection ends only    *)
(* with the record (README.md:259, structured_documents.py:236-289).       *)
(* Documents is shown to implement this specification.                     *)
(***************************************************************************)
EXTENDS Naturals

CONSTANT Records      \* record ids

VARIABLES
  now,      \* the clock
  kept,     \* the records in the store
  until,    \* until[r]: the retention date, 0 for none
  held      \* the records under legal hold

vars == <<now, kept, until, held>>

Init ==
  /\ now \in Nat
  /\ kept = {}
  /\ until = [r \in Records |-> 0]
  /\ held = {}

Tick ==
  /\ now' \in Nat /\ now' > now
  /\ UNCHANGED <<kept, until, held>>

Add(r) ==
  /\ r \notin kept
  /\ kept' = kept \cup {r}
  /\ UNCHANGED <<now, until, held>>

\* A date may be set or moved on, and lies ahead when it is.
Extend(r) ==
  /\ r \in kept
  /\ until'[r] \in Nat /\ until'[r] >= until[r] /\ until'[r] > now
  /\ until' = [until EXCEPT ![r] = until'[r]]
  /\ UNCHANGED <<now, kept, held>>

Hold(r) ==
  /\ r \in kept
  /\ held' = held \cup {r}
  /\ UNCHANGED <<now, kept, until>>

LiftHold(r) ==
  /\ r \in kept
  /\ held' = held \ {r}
  /\ UNCHANGED <<now, kept, until>>

Remove(r) ==
  /\ r \in kept \ held
  /\ until[r] <= now
  /\ kept' = kept \ {r}
  /\ until' = [until EXCEPT ![r] = 0]
  /\ UNCHANGED <<now, held>>

Next ==
  \/ Tick
  \/ \E r \in Records :
       Add(r) \/ Extend(r) \/ Hold(r) \/ LiftHold(r) \/ Remove(r)

Spec == Init /\ [][Next]_vars
=============================================================================
