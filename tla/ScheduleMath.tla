---------------------------- MODULE ScheduleMath ----------------------------
(***************************************************************************)
(* core/schedule_math.py: the next occurrence of a routine on the wall     *)
(* clock of a zone whose offset changes once, forward or back, and the     *)
(* routine that is bound and fired by it in uas/routines.py.               *)
(*                                                                         *)
(* Time is in minutes, as the searches of the code step.  An instant is    *)
(* UTC; a wall time is what the zone's clock shows, with the fold that     *)
(* tells the second pass of a repeated hour from the first.                *)
(***************************************************************************)
EXTENDS Integers, FiniteSetsExt

CONSTANTS
  MaxTime,  \* bound on the clock
  Change,   \* the instant at which the offset changes
  Zones,    \* [before, after]: the offsets from UTC around the change
  Specs,    \* [kind, at]: daily or cron, the minutes of a day it names
  Day,      \* minutes in a day
  Days,     \* bound on the days a cron expression looks ahead
  Never     \* no next occurrence

VARIABLES
  zone,
  spec,   \* the routine's spec; a daily one has one time
  clock,
  due,    \* the routine's next_due_at
  since   \* what its next occurrence was asked to come after

vars == <<zone, spec, clock, due, since>>

-----------------------------------------------------------------------------
(* Wall clocks (zoneinfo).                                                  *)

Wall(t) == t + IF t < Change THEN zone.before ELSE zone.after

Fold(t) ==
  IF t >= Change /\ t < Change + (zone.before - zone.after) THEN 1 ELSE 0

\* A repeated wall time is told by its fold; one that is skipped is read with
\* the offset from before the change.
Instant(w, fold) ==
  LET repeats == IF fold = 0 THEN Max({zone.before, zone.after})
                             ELSE Min({zone.before, zone.after})
  IN  w - IF w < Change + repeats THEN zone.before ELSE zone.after

\* What is added to a wall time leaves it without a fold.
Valid(w, fold) == Wall(Instant(w, fold)) = w

FirstValid(w, fold) ==
  IF Valid(w, fold) THEN Instant(w, fold)
  ELSE Instant(Min({v \in w + 1 .. w + 180 : Valid(v, 0)}), 0)

-----------------------------------------------------------------------------
(* next_after.                                                              *)

OnDay(w, time) == (w \div Day) * Day + time

\* The candidate is compared by what the wall clock shows.
NextDaily(time, t) ==
  LET today == FirstValid(OnDay(Wall(t), time), Fold(t))
  IN  IF Wall(today) > Wall(t) THEN today
      ELSE FirstValid(OnDay(Wall(t), time) + Day, 0)

NextCron(at, t) ==
  LET matches == {w \in Wall(t) + 1 .. Wall(t) + Days * Day : w % Day \in at}
  IN  IF matches = {} THEN Never ELSE Instant(Min(matches), 0)

NextAfter(t) ==
  IF spec.kind = "daily" THEN NextDaily(CHOOSE time \in spec.at : TRUE, t)
                         ELSE NextCron(spec.at, t)

-----------------------------------------------------------------------------
(* The routine.                                                             *)

\* set_binding asks from now, whenever an operator sets it.
SetBinding ==
  /\ due' = NextAfter(clock) /\ since' = clock
  /\ UNCHANGED <<zone, spec, clock>>

\* A sweep asks from the occurrence it ran (catch_up) or from its own time.
Fire ==
  /\ due # Never /\ due <= clock
  /\ \E from \in {due, clock} : due' = NextAfter(from) /\ since' = from
  /\ UNCHANGED <<zone, spec, clock>>

Tick ==
  /\ clock < MaxTime
  /\ clock' = clock + 1
  /\ UNCHANGED <<zone, spec, due, since>>

Init ==
  /\ zone \in Zones /\ spec \in Specs
  /\ clock = 0 /\ due = Never /\ since = 0

Next == SetBinding \/ Fire \/ Tick

Spec == Init /\ [][Next]_vars

-----------------------------------------------------------------------------
(* What the code says of itself and does not keep.                          *)

\* schedule_math.py:88: "the next timezone-aware fire time strictly after
\* `after`".  A cron routine asked in the second pass of a repeated hour is
\* answered with a time of the first, and every sweep until the hour is over
\* finds it due again.
NextIsStrictlyAfter == due # Never => due > since
=============================================================================
