------------------------ MODULE MCRoutineScheduler ------------------------
(* A job on fixed occurrences, an interval that drains its backlog and one   *)
(* that is switched off, on a clock of a few ticks.                          *)
EXTENDS RoutineScheduler

Every(n) == [kind |-> "interval", every |-> n]
OnEvery(n) == [kind |-> "grid", every |-> n]

MCSettings ==
  { [spec |-> OnEvery(2), policy |-> "skip", enabled |-> TRUE],
    [spec |-> Every(1), policy |-> "catch_up", enabled |-> TRUE],
    [spec |-> Every(1), policy |-> "skip", enabled |-> FALSE] }

MCSlots == { [due |-> 1, policy |-> "skip"], [due |-> 2, policy |-> "catch_up"] }
===========================================================================
