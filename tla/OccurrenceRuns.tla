--------------------------- MODULE OccurrenceRuns ---------------------------
(***************************************************************************)
(* What fire_due promises of the dates a binding falls due on              *)
(* (uas/routines.py:585-596), whatever calls, edits and failures meet: one *)
(* run at a time, no run before its date, none for a date that has had one *)
(* and none for a date behind one that has.  RoutineScheduler is shown to  *)
(* implement this specification.                                           *)
(***************************************************************************)
EXTENDS Integers

CONSTANTS
  Bindings,
  Dates         \* the times a binding may be due

VARIABLES
  now,
  run           \* run[i][t]: whether binding i has run for date t

vars == <<now, run>>

Init ==
  /\ now \in Dates
  /\ run = [i \in Bindings |-> [t \in Dates |-> "none"]]

NothingAwaited == \A i \in Bindings, t \in Dates : run[i][t] # "awaited"

Fire(i, t) ==
  /\ NothingAwaited
  /\ run[i][t] = "none" /\ t <= now
  /\ \A before \in Dates : run[i][before] = "done" => before < t
  /\ run' = [run EXCEPT ![i][t] = "awaited"]
  /\ UNCHANGED now

Return(i, t) ==
  /\ run[i][t] = "awaited"
  /\ run' = [run EXCEPT ![i][t] = "done"]
  /\ UNCHANGED now

\* The run was refused or died with the process: the date may be run again.
Lose(i, t) ==
  /\ run[i][t] = "awaited"
  /\ run' = [run EXCEPT ![i][t] = "none"]
  /\ UNCHANGED now

Tick ==
  /\ now' = now + 1 /\ now' \in Dates
  /\ UNCHANGED run

Next ==
  \/ \E i \in Bindings, t \in Dates : Fire(i, t) \/ Return(i, t) \/ Lose(i, t)
  \/ Tick

Spec == Init /\ [][Next]_vars
=============================================================================
