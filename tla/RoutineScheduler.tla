-------------------------- MODULE RoutineScheduler --------------------------
(***************************************************************************)
(* uas/routines.py: routine and schedule bindings of task templates, and   *)
(* fire_due, the endpoint a scheduler calls as often as it likes.  A sweep *)
(* holds _FIRE_DUE_LOCK but suspends in every run it starts; operators     *)
(* edit bindings and templates meanwhile.                                  *)
(*                                                                         *)
(* list_all returns copies: a sweep works on the rows as it read them, and *)
(* saves the copy back when the run has returned.                          *)
(***************************************************************************)
EXTENDS Integers, FiniteSets

CONSTANTS
  Templates,
  RoutineIds,   \* binding ids, minted once and never again
  ScheduleIds,
  Settings,     \* what a routine may be set to: [spec, policy, enabled]
  Slots,        \* what a schedule may be set to: [due, policy]
  NoRow,        \* what a store returns for an id it does not hold
  Nobody,       \* no run in flight
  Grace,        \* SCHEDULE_GRACE_SECONDS, in ticks
  MaxTime,      \* bound: ticks of the clock
  MaxEdits      \* bound: operator requests

ASSUME BoundsAssumption ==
  /\ Grace \in Nat /\ MaxTime \in Nat \ {0} /\ MaxEdits \in Nat

ASSUME IdsAssumption ==
  /\ RoutineIds \cap ScheduleIds = {}
  /\ Nobody \notin RoutineIds \cup ScheduleIds

Ids == RoutineIds \cup ScheduleIds
Policies == {"skip", "catch_up"}
Specs == [kind : {"interval", "grid", "idle_window"}, every : Nat \ {0}]
Times == 1..MaxTime
Never == 0                 \* no due time: the clock starts at 1

ASSUME SettingsAssumption ==
  /\ Settings \subseteq [spec : Specs, policy : Policies, enabled : BOOLEAN]
  /\ Slots \subseteq [due : Times, policy : Policies]

VARIABLES
  clock,
  template,    \* the templates in the catalog
  routine,     \* routine_binding_registry: id -> row
  schedule,    \* schedule_binding_registry: id -> row
  minted,      \* ids handed out so far
  phase,       \* what the sweep reads: idle, routines, schedules
  sweepNow,    \* `now` as the sweep took it
  copy,        \* the due rows the sweep has read and not dealt with yet
  running,     \* the binding whose run the sweep awaits
  recorded,    \* the occurrences (scheduled_for) a binding has a task record of
  ran,         \* runs per occurrence that went through or are under way
  edits

stores == <<template, routine, schedule, minted, edits>>
sweep == <<phase, sweepNow, copy, running>>
ledger == <<recorded, ran>>
vars == <<clock, stores, sweep, ledger>>

RoutineRows ==
  [template : Templates, spec : Specs, enabled : BOOLEAN, policy : Policies,
   due : Nat, since : Nat]

ScheduleRows ==
  [template : Templates, due : Times, policy : Policies,
   status : {"pending", "fired", "skipped"}]

ASSUME RowAssumption == NoRow \notin RoutineRows \cup ScheduleRows

TypeOK ==
  /\ clock \in Times
  /\ template \subseteq Templates
  /\ routine \in [RoutineIds -> RoutineRows \cup {NoRow}]
  /\ schedule \in [ScheduleIds -> ScheduleRows \cup {NoRow}]
  /\ minted \subseteq Ids
  /\ \A i \in RoutineIds : routine[i] # NoRow => i \in minted
  /\ phase \in {"idle", "routines", "schedules"}
  /\ sweepNow \in 0..clock
  /\ copy \in [Ids -> RoutineRows \cup ScheduleRows \cup {NoRow}]
  /\ \A i \in Ids : copy[i] # NoRow => copy[i].due \in 1..sweepNow
  /\ running \in Ids \cup {Nobody}
  /\ running # Nobody => copy[running] # NoRow
  /\ recorded \in [Ids -> SUBSET Times]
  /\ ran \in [Ids -> [Times -> Nat]]
  /\ edits \in 0..MaxEdits

NoCopies == [i \in Ids |-> NoRow]

Init ==
  /\ clock = 1
  /\ template = Templates
  /\ routine = [i \in RoutineIds |-> NoRow]
  /\ schedule = [i \in ScheduleIds |-> NoRow]
  /\ minted = {}
  /\ phase = "idle" /\ sweepNow = 0
  /\ copy = NoCopies
  /\ running = Nobody
  /\ recorded = [i \in Ids |-> {}]
  /\ ran = [i \in Ids |-> [t \in Times |-> 0]]
  /\ edits = 0

-----------------------------------------------------------------------------
\* core/schedule_math.next_after: strictly after t.  A daily or cron spec has
\* fixed occurrences, an interval counts from wherever it is asked.
NextAfter(spec, t) ==
  CASE spec.kind = "interval" -> t + spec.every
    [] spec.kind = "grid" -> spec.every * (t \div spec.every + 1)
    [] OTHER -> Never

RoutinesOf(t) == {i \in RoutineIds : routine[i] # NoRow /\ routine[i].template = t}

PendingOf(t) ==
  {i \in ScheduleIds : schedule[i] # NoRow /\ schedule[i].template = t
                                           /\ schedule[i].status = "pending"}

RoutineDue(i, now) ==
  /\ routine[i] # NoRow
  /\ routine[i].enabled
  /\ routine[i].due # Never
  /\ routine[i].due <= now

ScheduleDue(i, now) ==
  /\ schedule[i] # NoRow
  /\ schedule[i].status = "pending"
  /\ schedule[i].due <= now

\* The sweep gives up the event loop nowhere but in a run it awaits.
Suspended == phase = "idle" \/ running # Nobody

-----------------------------------------------------------------------------
(* The operator's requests.                                                 *)

Edit ==
  /\ Suspended
  /\ edits < MaxEdits /\ edits' = edits + 1
  /\ UNCHANGED <<clock, sweep, ledger>>

SetRoutine(t, set) ==
  /\ Edit /\ t \in template
  /\ LET due == NextAfter(set.spec, clock)
         row == [template |-> t, spec |-> set.spec, enabled |-> set.enabled,
                 policy |-> set.policy, due |-> due, since |-> due]
     IN  \E i \in IF RoutinesOf(t) # {} THEN RoutinesOf(t) ELSE RoutineIds \ minted :
           /\ routine' = [routine EXCEPT ![i] = row]
           /\ minted' = minted \cup {i}
  /\ UNCHANGED <<template, schedule>>

RemoveRoutine(t) ==
  /\ Edit /\ t \in template
  /\ \E i \in RoutinesOf(t) : routine' = [routine EXCEPT ![i] = NoRow]
  /\ UNCHANGED <<template, schedule, minted>>

\* Mistake: the pending row is left beside the new one.
AddSchedule(t, slot) ==
  /\ Edit /\ t \in template
  /\ \E i \in ScheduleIds \ minted :
       /\ schedule' = [schedule EXCEPT ![i] =
                         [template |-> t, due |-> slot.due, policy |-> slot.policy,
                          status |-> "pending"]]
       /\ minted' = minted \cup {i}
  /\ UNCHANGED <<template, routine>>

\* A pending row is deleted, then a row with an id of its own is put.
SetSchedule(t, slot) ==
  /\ Edit /\ t \in template
  /\ \E i \in ScheduleIds \ minted :
     \E replaced \in IF PendingOf(t) = {} THEN {{}} ELSE {{j} : j \in PendingOf(t)} :
       /\ schedule' = [j \in ScheduleIds |->
                         CASE j = i -> [template |-> t, due |-> slot.due,
                                        policy |-> slot.policy, status |-> "pending"]
                           [] j \in replaced -> NoRow
                           [] OTHER -> schedule[j]]
       /\ minted' = minted \cup {i}
  /\ UNCHANGED <<template, routine>>

RemoveSchedule(t) ==
  /\ Edit /\ t \in template
  /\ \E i \in PendingOf(t) : schedule' = [schedule EXCEPT ![i] = NoRow]
  /\ UNCHANGED <<template, routine, minted>>

DeleteTemplate(t) ==
  /\ Edit /\ t \in template
  /\ RoutinesOf(t) = {} /\ PendingOf(t) = {}
  /\ template' = template \ {t}
  /\ UNCHANGED <<routine, schedule, minted>>

-----------------------------------------------------------------------------
(* fire_due.  Calls that wait for the lock are as good as calls made later. *)

StartSweep ==
  /\ phase = "idle"
  /\ phase' = "routines"
  /\ sweepNow' = clock
  /\ copy' = [i \in Ids |-> IF i \in RoutineIds /\ RoutineDue(i, clock)
                            THEN routine[i] ELSE NoRow]
  /\ UNCHANGED <<clock, stores, running, ledger>>

ToSchedules ==
  /\ phase = "routines" /\ copy = NoCopies
  /\ phase' = "schedules"
  /\ copy' = [i \in Ids |-> IF i \in ScheduleIds /\ ScheduleDue(i, sweepNow)
                            THEN schedule[i] ELSE NoRow]
  /\ UNCHANGED <<clock, stores, sweepNow, running, ledger>>

\* Leaving the lock ends the call.
StopSweep == phase' = "idle" /\ sweepNow' = 0 /\ copy' = NoCopies /\ running' = Nobody

EndSweep ==
  /\ phase = "schedules" /\ copy = NoCopies
  /\ StopSweep
  /\ UNCHANGED <<clock, stores, ledger>>

\* Mistake: the runs are started together and not awaited one by one.
AtAnyRow(i) == copy[i] # NoRow /\ running # i

\* The loop reaches row i of its list, the run before it having returned.
AtRow(i) == running = Nobody /\ copy[i] # NoRow

Done(i) == copy' = [copy EXCEPT ![i] = NoRow]

\* The row's template is gone: the row is reported and left as it is.
OrphanedRoutine(i) ==
  /\ i \in RoutineIds /\ AtRow(i)
  /\ copy[i].template \notin template
  /\ Done(i)
  /\ UNCHANGED <<clock, stores, phase, sweepNow, running, ledger>>

Missed(i) == sweepNow - copy[i].due > Grace /\ copy[i].policy = "skip"

SkipSchedule(i) ==
  /\ i \in ScheduleIds /\ AtRow(i)
  /\ Missed(i)
  /\ schedule' = [schedule EXCEPT ![i] = [copy[i] EXCEPT !.status = "skipped"]]
  /\ Done(i)
  /\ UNCHANGED <<clock, template, routine, minted, edits, phase, sweepNow, running, ledger>>

\* enqueue_template creates the task record and suspends in the run.
StartRun(i) ==
  /\ AtRow(i)
  /\ i \in ScheduleIds => ~Missed(i)
  /\ copy[i].template \in template
  /\ running' = i
  /\ recorded' = [recorded EXCEPT ![i] = @ \cup {copy[i].due}]
  /\ ran' = [ran EXCEPT ![i][copy[i].due] = @ + 1]
  /\ UNCHANGED <<clock, stores, phase, sweepNow, copy>>

\* A schedule is not checked for its template: enqueue_template raises and
\* the call ends there.
ScheduleWithoutTemplate(i) ==
  /\ i \in ScheduleIds /\ AtRow(i)
  /\ ~Missed(i)
  /\ copy[i].template \notin template
  /\ StopSweep
  /\ UNCHANGED <<clock, stores, ledger>>

\* Mistake: the next occurrence is counted from now whatever the policy says.
AlwaysFromNow(row) == NextAfter(row.spec, sweepNow)

\* catch_up steps from the occurrence just run, skip from the sweep's now.
Following(row) ==
  NextAfter(row.spec, IF row.policy = "catch_up" THEN row.due ELSE sweepNow)

\* Mistake: the row is saved as it was read.
RoutineNotAdvanced(i) ==
  /\ i \in RoutineIds /\ running = i
  /\ running' = Nobody
  /\ routine' = [routine EXCEPT ![i] = copy[i]]
  /\ Done(i)
  /\ UNCHANGED <<clock, template, schedule, minted, edits, phase, sweepNow, ledger>>

RoutineRunReturns(i) ==
  /\ i \in RoutineIds /\ running = i
  /\ running' = Nobody
  /\ routine' = [routine EXCEPT ![i] = [copy[i] EXCEPT !.due = Following(copy[i])]]
  /\ Done(i)
  /\ UNCHANGED <<clock, template, schedule, minted, edits, phase, sweepNow, ledger>>

\* Mistake: the row keeps waiting for its run.
ScheduleNotMarked(i) ==
  /\ i \in ScheduleIds /\ running = i
  /\ running' = Nobody
  /\ schedule' = [schedule EXCEPT ![i] = copy[i]]
  /\ Done(i)
  /\ UNCHANGED <<clock, template, routine, minted, edits, phase, sweepNow, ledger>>

ScheduleRunReturns(i) ==
  /\ i \in ScheduleIds /\ running = i
  /\ running' = Nobody
  /\ schedule' = [schedule EXCEPT ![i] = [copy[i] EXCEPT !.status = "fired"]]
  /\ Done(i)
  /\ UNCHANGED <<clock, template, routine, minted, edits, phase, sweepNow, ledger>>

AbortRun(i) == ran' = [ran EXCEPT ![i][copy[i].due] = @ - 1]

\* Mistake: the lock is not given back when the run raises.
LostHoldingLock ==
  /\ running # Nobody
  /\ phase' = "stuck" /\ sweepNow' = 0 /\ copy' = NoCopies /\ running' = Nobody
  /\ AbortRun(running)
  /\ UNCHANGED <<clock, stores, recorded>>

\* The gateway refuses the run and the refusal leaves through fire_due, or
\* the process dies under the run: either way nothing is saved, the row stays
\* due and the next sweep meets it again.
RunLost ==
  /\ running # Nobody
  /\ AbortRun(running)
  /\ StopSweep
  /\ UNCHANGED <<clock, stores, recorded>>

Tick ==
  /\ Suspended
  /\ clock < MaxTime
  /\ clock' = clock + 1
  /\ UNCHANGED <<stores, sweep, ledger>>

-----------------------------------------------------------------------------
Operator ==
  \E t \in Templates :
    \/ \E set \in Settings : SetRoutine(t, set)
    \/ RemoveRoutine(t)
    \/ \E slot \in Slots : SetSchedule(t, slot)
    \/ RemoveSchedule(t)
    \/ DeleteTemplate(t)

Sweep ==
  \/ StartSweep \/ ToSchedules \/ EndSweep
  \/ \E i \in Ids :
       \/ OrphanedRoutine(i) \/ SkipSchedule(i)
       \/ StartRun(i) \/ ScheduleWithoutTemplate(i)
       \/ RoutineRunReturns(i) \/ ScheduleRunReturns(i)

Next == Operator \/ Sweep \/ RunLost \/ Tick

Spec == Init /\ [][Next]_vars

\* The scheduler keeps calling and every run ends, in an answer or a refusal;
\* time, operators and refusals promise nothing.
FairSpec == Spec /\ WF_vars(Sweep)

-----------------------------------------------------------------------------
\* However the sweep's late saves meet the operator's edits, a template never
\* has two pending schedules (ScheduleBindingRegistry, routines.py:129-130).
AtMostOnePending == \A t \in Templates : Cardinality(PendingOf(t)) <= 1

\* An occurrence is run again only after a run for it was refused or lost:
\* overlapping calls, late ticks and edits are no cause.
RefiresOnlyAfterTrouble == \A i \in Ids, t \in Times : ran[i][t] \in {0, 1}

\* The stored status of a schedule says whether its run went through.
ScheduleStatusTellsTruth ==
  \A i \in ScheduleIds :
    schedule[i] # NoRow /\ running # i =>
      ran[i][schedule[i].due] = IF schedule[i].status = "fired" THEN 1 ELSE 0

\* The occurrences of a routine from its setting up to its next due time.
Occurrences(row) ==
  {t \in row.since..(row.due - 1) :
     IF row.spec.kind = "grid" THEN t % row.spec.every = 0
     ELSE (t - row.since) % row.spec.every = 0}

\* A catch_up routine drains its backlog without a gap: whatever was down or
\* late, each occurrence before the next due one has its task record.
CatchUpMissesNothing ==
  \A i \in RoutineIds :
    routine[i] # NoRow /\ routine[i].policy = "catch_up" =>
      \A t \in Occurrences(routine[i]) : t \in recorded[i]

\* What is left of a date's runs when the lost ones are taken away, the last
\* of them perhaps still awaited.
RunOf(i, t) ==
  IF ran[i][t] = 0 THEN "none"
  ELSE IF running = i /\ copy[i].due = t THEN "awaited" ELSE "done"

Promise == INSTANCE OccurrenceRuns WITH
  Bindings <- Ids,
  Dates <- Times,
  now <- clock,
  run <- [i \in Ids |-> [t \in Times |-> RunOf(i, t)]]

\* Runs go out one at a time, none early, none twice and, for each binding,
\* in the order of its dates (routines.py:585-596).
RunsKeepThePromise == Promise!Spec

\* A due binding is dealt with: run, skipped, edited or taken away, unless
\* runs are refused or lost for ever.  One routine whose agent stays
\* quarantined is enough for that: its refusal ends every call before the rows
\* behind it are reached (routines.py:480-482, 541).
DueIsDealtWith ==
  \/ []<><<RunLost>>_vars
  \/ /\ \A i \in RoutineIds :
          (RoutineDue(i, clock) /\ routine[i].template \in template)
            ~> ~(RoutineDue(i, clock) /\ routine[i].template \in template)
     /\ \A i \in ScheduleIds : ScheduleDue(i, clock) ~> ~ScheduleDue(i, clock)
=============================================================================
