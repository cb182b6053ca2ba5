----------------------- MODULE RoutineSchedulerProofs -----------------------
(***************************************************************************)
(* Theorems about RoutineScheduler for any templates, bindings, settings,  *)
(* grace and clock, and however often runs are refused.                    *)
(***************************************************************************)
EXTENDS RoutineScheduler, FiniteSetTheorems, TLAPS

(* Occurrences.  The prover knows of division what DivMod states.            *)

LEMMA DivMod ==
  ASSUME NEW a \in Nat, NEW e \in Nat \ {0}
  PROVE  a \div e \in Nat /\ a % e \in 0..(e - 1) /\ a = e * (a \div e) + (a % e)
BY SMTT(30)

LEMMA Multiple ==
  ASSUME NEW a \in Nat, NEW e \in Nat \ {0}, a % e = 0
  PROVE  \E q \in Nat : a = e * q
<1>1. a \div e \in Nat /\ a = e * (a \div e)
  BY DivMod
<1>. QED
  BY <1>1, Zenon

LEMMA MultipleHasNoRest ==
  ASSUME NEW e \in Nat \ {0}, NEW q \in Nat
  PROVE  (e * q) % e = 0
BY SMTT(30)

LEMMA NoneBetweenMultiples ==
  ASSUME NEW e \in Nat \ {0}, NEW a \in Nat, a % e = 0, NEW d \in 0..(e - 1), (a + d) % e = 0
  PROVE  d = 0
<1>1. ASSUME NEW q \in Int, NEW p \in Int, e * p = e * q + d PROVE d = 0
  BY <1>1, SMTT(30)
<1>2. PICK q \in Nat : a = e * q
  BY Multiple
<1>3. a + d \in Nat
  OBVIOUS
<1>4. PICK p \in Nat : a + d = e * p
  BY <1>3, Multiple
<1>5. e * p = e * q + d
  BY <1>2, <1>4
<1>. QED
  BY <1>1, <1>5

LEMMA NextMultiple ==
  ASSUME NEW e \in Nat \ {0}, NEW a \in Nat, a % e = 0
  PROVE  (a + e) % e = 0
<1>1. PICK q \in Nat : a = e * q
  BY Multiple
<1>2. a + e = e * (q + 1) /\ q + 1 \in Nat
  BY <1>1
<1>3. (e * (q + 1)) % e = 0
  BY <1>2, MultipleHasNoRest
<1>. QED
  BY <1>2, <1>3

LEMMA NextOnGrid ==
  ASSUME NEW e \in Nat \ {0}, NEW a \in Nat
  PROVE  /\ e * (a \div e + 1) \in Nat
         /\ e * (a \div e + 1) > a
         /\ (e * (a \div e + 1)) % e = 0
         /\ a % e = 0 => e * (a \div e + 1) = a + e
<1>1. a \div e \in Nat /\ a % e \in 0..(e - 1) /\ a = e * (a \div e) + (a % e)
  BY DivMod
<1>2. a \div e + 1 \in Nat
  BY <1>1
<1>3. e * (a \div e + 1) = e * (a \div e) + e /\ e * (a \div e) \in Nat
  BY <1>1
<1>4. (e * (a \div e + 1)) % e = 0
  BY <1>2, MultipleHasNoRest
<1>. QED
  BY <1>1, <1>3, <1>4

\* Whatever it is asked, the schedule arithmetic answers with a later time,
\* and with none for an idle window.
LEMMA NextAfterIsLater ==
  ASSUME NEW spec \in Specs, NEW t \in Nat
  PROVE  /\ NextAfter(spec, t) \in Nat
         /\ spec.kind = "idle_window" => NextAfter(spec, t) = Never
         /\ NextAfter(spec, t) # Never => NextAfter(spec, t) > t
<1>1. spec.every \in Nat \ {0} /\ spec.kind \in {"interval", "grid", "idle_window"}
  BY DEF Specs
<1>2. CASE spec.kind = "interval"
  BY <1>1, <1>2 DEF NextAfter, Never
<1>3. CASE spec.kind = "grid"
  <2>1. NextAfter(spec, t) = spec.every * (t \div spec.every + 1)
    BY <1>3 DEF NextAfter
  <2>. QED
    BY <1>1, <1>3, <2>1, NextOnGrid
<1>4. CASE spec.kind = "idle_window"
  BY <1>4 DEF NextAfter, Never
<1>. QED
  BY <1>1, <1>2, <1>3, <1>4

-----------------------------------------------------------------------------
(* The invariant.                                                           *)

\* The sweep's copies are rows of the right registry, under ids handed out,
\* and there are none without a sweep.
CopiesFit ==
  /\ \A i \in RoutineIds : copy[i] \in RoutineRows \cup {NoRow}
  /\ \A i \in ScheduleIds : copy[i] \in ScheduleRows \cup {NoRow}
  /\ \A i \in Ids : copy[i] # NoRow => i \in minted
  /\ phase = "idle" => copy = NoCopies
  /\ \A i \in ScheduleIds : schedule[i] # NoRow => i \in minted

LedgerFits ==
  /\ \A i \in Ids, t \in Times : ran[i][t] \in {0, 1}
  /\ \A i \in Ids, t \in Times : t \in recorded[i] \/ ran[i][t] > 0 => i \in minted /\ t <= clock
  /\ \A i \in Ids, t \in Times : ran[i][t] > 0 => t \in recorded[i]
  /\ running # Nobody => ran[running][copy[running].due] = 1

OnePending == \A t \in Templates : \A i, j \in PendingOf(t) : i = j

\* What i has run lies before the date, but for the run under way.
RanBefore(i, due) ==
  \A t \in Times : ran[i][t] = 1 => t < due \/ (running = i /\ t = copy[i].due)

RoutinesAhead ==
  \A i \in RoutineIds :
    /\ routine[i] # NoRow /\ routine[i].due # Never => RanBefore(i, routine[i].due)
    /\ copy[i] # NoRow => RanBefore(i, copy[i].due)

\* A pending schedule is as the sweep has read it, unless it was taken away.
SchedulesTrue ==
  /\ ScheduleStatusTellsTruth
  /\ \A i \in ScheduleIds :
       copy[i] # NoRow =>
         /\ copy[i].status = "pending"
         /\ schedule[i] \in {NoRow, copy[i]}
         /\ running # i => ran[i][copy[i].due] = 0

\* The next due time of a routine is one of its occurrences.
OnTheBeat(row) ==
  CASE row.spec.kind = "interval" -> /\ row.since <= row.due
                                     /\ (row.due - row.since) % row.spec.every = 0
    [] row.spec.kind = "grid" -> row.due % row.spec.every = 0
    [] OTHER -> row.due = Never

Drained(i, row) ==
  /\ row.spec.kind = "idle_window" => row.due = Never
  /\ row.policy = "catch_up" =>
       /\ OnTheBeat(row)
       /\ \A t \in Occurrences(row) : t \in Times /\ t \in recorded[i]

RoutinesDrained ==
  \A i \in RoutineIds :
    /\ routine[i] # NoRow => Drained(i, routine[i])
    /\ copy[i] # NoRow => Drained(i, copy[i])

IInv ==
  /\ TypeOK /\ CopiesFit /\ LedgerFits /\ OnePending
  /\ RoutinesAhead /\ SchedulesTrue /\ RoutinesDrained

LEMMA RowFacts ==
  /\ \A row \in RoutineRows :
       /\ row # NoRow /\ row.spec \in Specs /\ row.spec.every \in Nat \ {0}
       /\ row.spec.kind \in {"interval", "grid", "idle_window"}
       /\ row.due \in Nat /\ row.since \in Nat /\ row.policy \in Policies
  /\ \A row \in ScheduleRows : row # NoRow /\ row.due \in Times
BY RowAssumption DEF RoutineRows, ScheduleRows, Specs

-----------------------------------------------------------------------------
(* The beat of a routine.                                                   *)

\* A routine that was just set has no occurrence before its due time.
LEMMA SetOnTheBeat ==
  ASSUME NEW i, NEW row \in RoutineRows, NEW t \in Nat,
         row.since = row.due, row.due = NextAfter(row.spec, t)
  PROVE  Drained(i, row)
<1> DEFINE e == row.spec.every
<1>1. /\ e \in Nat \ {0} /\ row.due \in Nat
      /\ row.spec.kind \in {"interval", "grid", "idle_window"} /\ row.spec \in Specs
  BY RowFacts
<1>2. row.spec.kind = "idle_window" => row.due = Never
  BY <1>1, NextAfterIsLater
<1>3. Occurrences(row) = {}
  BY <1>1 DEF Occurrences
<1>4. CASE row.spec.kind = "interval"
  <2>1. row.due - row.since = 0 /\ 0 % e = 0
    BY <1>1, MultipleHasNoRest, SMTT(30)
  <2>. QED
    BY <1>1, <1>3, <1>4, <2>1 DEF Drained, OnTheBeat
<1>5. CASE row.spec.kind = "grid"
  <2>1. row.due = e * (t \div e + 1)
    BY <1>5 DEF NextAfter
  <2>2. row.due % e = 0
    <3> HIDE DEF e
    <3>1. (e * (t \div e + 1)) % e = 0
      BY <1>1, NextOnGrid
    <3>. QED
      BY <2>1, <3>1
  <2>. QED
    BY <1>3, <1>5, <2>2 DEF Drained, OnTheBeat
<1>6. CASE row.spec.kind = "idle_window"
  BY <1>2, <1>3, <1>6 DEF Drained, OnTheBeat
<1>. QED
  BY <1>1, <1>4, <1>5, <1>6

\* Catching up adds the occurrence just run to those behind, and no other.
LEMMA CatchUpKeepsTheBeat ==
  ASSUME NEW row \in RoutineRows, OnTheBeat(row), row.due # Never,
         NEW new \in RoutineRows, new = [row EXCEPT !.due = NextAfter(row.spec, row.due)]
  PROVE  /\ OnTheBeat(new)
         /\ \A t \in Occurrences(new) : t \in Occurrences(row) \/ t = row.due
<1> DEFINE e == row.spec.every
<1>1. /\ e \in Nat \ {0} /\ row.due \in Nat /\ row.since \in Nat
      /\ row.spec.kind \in {"interval", "grid", "idle_window"}
  BY RowFacts
<1>2. /\ new.spec = row.spec /\ new.since = row.since /\ new.due = NextAfter(row.spec, row.due)
  BY DEF RoutineRows
<1>3. CASE row.spec.kind = "interval"
  <2> DEFINE a == row.due - row.since
  <2>1. a \in Nat /\ a % e = 0 /\ new.due = row.due + e
    BY <1>1, <1>2, <1>3 DEF OnTheBeat, NextAfter
  <2>2. (a + e) % e = 0 /\ new.due - row.since = a + e /\ row.since <= new.due
    BY <1>1, <2>1, NextMultiple
  <2>3. OnTheBeat(new)
    BY <1>2, <1>3, <2>2 DEF OnTheBeat
  <2>4. ASSUME NEW t \in Occurrences(new), t >= row.due PROVE t = row.due
    <3>0. t \in new.since..(new.due - 1) /\ (t - new.since) % new.spec.every = 0
      BY <1>2, <1>3, <2>4 DEF Occurrences
    <3>1. t \in row.since..(row.due + e - 1) /\ (t - row.since) % e = 0
      <4>1. new.spec.every = e /\ new.since = row.since /\ new.due = row.due + e
        BY <1>2, <2>1
      <4> HIDE DEF e
      <4>. QED
        BY <1>1, <3>0, <4>1
    <3> DEFINE d == t - row.due
    <3>2. d \in 0..(e - 1) /\ a + d = t - row.since
      BY <1>1, <2>1, <2>4, <3>1
    <3>3. d = 0
      BY <1>1, <2>1, <3>1, <3>2, NoneBetweenMultiples
    <3>. QED
      BY <1>1, <3>1, <3>3
  <2>5. ASSUME NEW t \in Occurrences(new), ~(t >= row.due) PROVE t \in Occurrences(row)
    BY <1>1, <1>2, <1>3, <2>1, <2>5 DEF Occurrences
  <2>. QED
    BY <2>3, <2>4, <2>5
<1>4. CASE row.spec.kind = "grid"
  <2>1. row.due % e = 0 /\ new.due = e * (row.due \div e + 1)
    BY <1>1, <1>2, <1>4 DEF OnTheBeat, NextAfter
  <2>2. new.due = row.due + e /\ new.due % e = 0
    BY <1>1, <2>1, NextOnGrid
  <2>3. OnTheBeat(new)
    BY <1>2, <1>4, <2>2 DEF OnTheBeat
  <2>4. ASSUME NEW t \in Occurrences(new), t >= row.due PROVE t = row.due
    <3>0. t \in new.since..(new.due - 1) /\ t % new.spec.every = 0
      BY <1>2, <1>4, <2>4 DEF Occurrences
    <3>1. t \in row.since..(row.due + e - 1) /\ t % e = 0
      <4>1. new.spec.every = e /\ new.since = row.since /\ new.due = row.due + e
        BY <1>2, <2>2
      <4> HIDE DEF e
      <4>. QED
        BY <1>1, <3>0, <4>1
    <3> DEFINE d == t - row.due
    <3>2. d \in 0..(e - 1) /\ row.due + d = t
      BY <1>1, <2>4, <3>1
    <3>3. d = 0
      BY <1>1, <2>1, <3>1, <3>2, NoneBetweenMultiples
    <3>. QED
      BY <1>1, <3>1, <3>3
  <2>5. ASSUME NEW t \in Occurrences(new), ~(t >= row.due) PROVE t \in Occurrences(row)
    BY <1>1, <1>2, <1>4, <2>2, <2>5 DEF Occurrences
  <2>. QED
    BY <2>3, <2>4, <2>5
<1>5. CASE row.spec.kind = "idle_window"
  BY <1>5 DEF OnTheBeat
<1>. QED
  BY <1>1, <1>3, <1>4, <1>5

-----------------------------------------------------------------------------
(* What is left of the invariant by a step that leaves most alone.          *)

LEMMA CopyFacts ==
  ASSUME IInv, NEW i \in Ids, copy[i] # NoRow
  PROVE  /\ copy[i].due \in Times /\ copy[i].due <= sweepNow /\ sweepNow \in Nat
         /\ copy[i].due <= clock /\ i \in minted
         /\ i \in RoutineIds => copy[i] \in RoutineRows /\ i \notin ScheduleIds
         /\ i \in ScheduleIds => copy[i] \in ScheduleRows /\ i \notin RoutineIds
<1>1. copy[i].due \in 1..sweepNow /\ sweepNow \in 0..clock /\ clock \in Times
  BY DEF IInv, TypeOK
<1>. QED
  BY <1>1, BoundsAssumption, IdsAssumption DEF IInv, CopiesFit, Times

\* What is unminted or not yet due never ran.
LEMMA LedgerFacts ==
  ASSUME IInv, NEW i \in Ids, NEW t \in Times
  PROVE  /\ ran[i][t] \in {0, 1}
         /\ i \notin minted => ran[i][t] = 0
         /\ ran[i][t] = 1 => t <= clock /\ t \in recorded[i]
BY DEF IInv, TypeOK, LedgerFits

\* A sweep that awaits no run, and its copies are gone: nothing is awaited.
LEMMA NothingAwaited ==
  ASSUME TypeOK, copy = NoCopies
  PROVE  running = Nobody
BY DEF TypeOK, NoCopies

SameLedger == recorded' = recorded /\ ran' = ran

-----------------------------------------------------------------------------
(* The operator's requests.                                                 *)

\* A routine's row is set ahead of the clock, or taken away.
LEMMA SetRoutineStep ==
  ASSUME IInv, NEW t \in Templates, NEW set \in Settings, SetRoutine(t, set)
  PROVE  IInv'
<1> DEFINE due == NextAfter(set.spec, clock)
           row == [template |-> t, spec |-> set.spec, enabled |-> set.enabled,
                   policy |-> set.policy, due |-> due, since |-> due]
<1>1. PICK i \in RoutineIds : /\ routine' = [routine EXCEPT ![i] = row]
                              /\ minted' = minted \cup {i}
  <2>1. RoutinesOf(t) \subseteq RoutineIds
    BY DEF RoutinesOf
  <2>. QED
    BY <2>1 DEF SetRoutine
<1>2. /\ UNCHANGED <<clock, template, schedule, phase, sweepNow, copy, running>>
      /\ SameLedger /\ edits' \in 0..MaxEdits
  BY BoundsAssumption DEF SetRoutine, Edit, sweep, ledger, SameLedger, IInv, TypeOK
<1>3. set.spec \in Specs /\ set.enabled \in BOOLEAN /\ set.policy \in Policies /\ clock \in Nat
  BY SettingsAssumption, BoundsAssumption DEF IInv, TypeOK, Times
<1>4. due \in Nat /\ (due # Never => due > clock)
  BY <1>3, NextAfterIsLater
<1>5. /\ row \in RoutineRows /\ row.since = row.due /\ row.due = due
      /\ row.due = NextAfter(row.spec, clock)
  BY <1>3, <1>4 DEF RoutineRows
<1> HIDE DEF row, due
<1>6. /\ routine' \in [RoutineIds -> RoutineRows \cup {NoRow}]
      /\ \A k \in RoutineIds : routine'[k] = IF k = i THEN row ELSE routine[k]
  BY <1>1, <1>5 DEF IInv, TypeOK
<1>7. minted \subseteq minted' /\ minted' \subseteq Ids /\ i \in minted'
  BY <1>1 DEF IInv, TypeOK, Ids
<1>8. TypeOK'
  BY <1>2, <1>6, <1>7 DEF IInv, TypeOK, SameLedger
<1>9. CopiesFit'
  BY <1>2, <1>7 DEF IInv, CopiesFit
<1>10. LedgerFits' /\ OnePending' /\ SchedulesTrue'
  <2>1. LedgerFits'
    BY <1>2, <1>7 DEF IInv, LedgerFits, SameLedger
  <2>2. OnePending'
    BY <1>2 DEF IInv, OnePending, PendingOf
  <2>3. SchedulesTrue'
    BY <1>2 DEF IInv, SchedulesTrue, ScheduleStatusTellsTruth, SameLedger
  <2>. QED
    BY <2>1, <2>2, <2>3
<1>11. RoutinesAhead'
  <2>1. \A k, d : RanBefore(k, d)' <=> RanBefore(k, d)
    BY <1>2 DEF RanBefore, SameLedger
  <2>2. due # Never => RanBefore(i, due)
    <3> SUFFICES ASSUME due # Never, NEW x \in Times, ran[i][x] = 1 PROVE x < due
      BY DEF RanBefore
    <3>1. x <= clock /\ x \in Nat
      BY LedgerFacts DEF Ids, Times
    <3>. QED
      BY <1>3, <1>4, <3>1
  <2>. QED
    BY <1>2, <1>5, <1>6, <2>1, <2>2 DEF IInv, RoutinesAhead
<1>12. RoutinesDrained'
  <2>1. \A k, r : Drained(k, r)' <=> Drained(k, r)
    BY <1>2 DEF Drained, SameLedger
  <2>2. Drained(i, row)
    BY <1>3, <1>5, SetOnTheBeat
  <2>. QED
    BY <1>2, <1>6, <2>1, <2>2 DEF IInv, RoutinesDrained
<1>. QED
  BY <1>8, <1>9, <1>10, <1>11, <1>12 DEF IInv

\* Steps that touch neither sweep nor ledger, and take rows away at most.
LEMMA RowsTakenAway ==
  ASSUME IInv,
         UNCHANGED <<phase, sweepNow, copy, running>>, SameLedger, minted' = minted,
         clock' \in Times, clock <= clock', template' \subseteq template,
         edits' \in 0..MaxEdits,
         routine' \in [RoutineIds -> RoutineRows \cup {NoRow}],
         schedule' \in [ScheduleIds -> ScheduleRows \cup {NoRow}],
         \A i \in RoutineIds : routine'[i] \in {routine[i], NoRow},
         \A i \in ScheduleIds : schedule'[i] \in {schedule[i], NoRow}
  PROVE  IInv'
<1>1. TypeOK'
  <2>1. sweepNow' \in 0..clock'
    BY BoundsAssumption DEF IInv, TypeOK, Times
  <2>. QED
    BY <2>1 DEF IInv, TypeOK, SameLedger
<1>2. CopiesFit'
  BY DEF IInv, CopiesFit
<1>3. LedgerFits'
  BY BoundsAssumption DEF IInv, TypeOK, LedgerFits, SameLedger, Times
<1>4. OnePending'
  BY DEF IInv, OnePending, PendingOf
<1>5. SchedulesTrue'
  BY DEF IInv, SchedulesTrue, ScheduleStatusTellsTruth, SameLedger
<1>6. RoutinesAhead'
  <2>1. \A k, d : RanBefore(k, d)' <=> RanBefore(k, d)
    BY DEF RanBefore, SameLedger
  <2>. QED
    BY <2>1 DEF IInv, RoutinesAhead
<1>7. RoutinesDrained'
  <2>1. \A k, r : Drained(k, r)' <=> Drained(k, r)
    BY DEF Drained, SameLedger
  <2>. QED
    BY <2>1 DEF IInv, RoutinesDrained
<1>. QED
  BY <1>1, <1>2, <1>3, <1>4, <1>5, <1>6, <1>7 DEF IInv

LEMMA TakingAway ==
  ASSUME IInv,
         \/ \E t \in Templates : RemoveRoutine(t) \/ RemoveSchedule(t) \/ DeleteTemplate(t)
         \/ Tick \/ UNCHANGED vars
  PROVE  IInv'
<1>0. /\ clock \in Times /\ clock <= clock /\ template \subseteq template
      /\ edits \in 0..MaxEdits
      /\ routine \in [RoutineIds -> RoutineRows \cup {NoRow}]
      /\ schedule \in [ScheduleIds -> ScheduleRows \cup {NoRow}]
  BY DEF IInv, TypeOK, Times
<1>1. ASSUME NEW t \in Templates, RemoveRoutine(t) PROVE IInv'
  <2>1. PICK i \in RoutineIds : routine' = [routine EXCEPT ![i] = NoRow]
    BY <1>1 DEF RemoveRoutine, RoutinesOf
  <2>2. /\ routine' \in [RoutineIds -> RoutineRows \cup {NoRow}]
        /\ \A k \in RoutineIds : routine'[k] \in {routine[k], NoRow}
    BY <1>0, <2>1
  <2>3. /\ UNCHANGED <<phase, sweepNow, copy, running, minted, clock, template, schedule>>
        /\ SameLedger /\ edits' \in 0..MaxEdits
    BY <1>0, <1>1, BoundsAssumption DEF RemoveRoutine, Edit, sweep, ledger, SameLedger
  <2>. QED
    BY <1>0, <2>2, <2>3, RowsTakenAway
<1>2. ASSUME NEW t \in Templates, RemoveSchedule(t) PROVE IInv'
  <2>1. PICK i \in ScheduleIds : schedule' = [schedule EXCEPT ![i] = NoRow]
    BY <1>2 DEF RemoveSchedule, PendingOf
  <2>2. /\ schedule' \in [ScheduleIds -> ScheduleRows \cup {NoRow}]
        /\ \A k \in ScheduleIds : schedule'[k] \in {schedule[k], NoRow}
    BY <1>0, <2>1
  <2>3. /\ UNCHANGED <<phase, sweepNow, copy, running, minted, clock, template, routine>>
        /\ SameLedger /\ edits' \in 0..MaxEdits
    BY <1>0, <1>2, BoundsAssumption DEF RemoveSchedule, Edit, sweep, ledger, SameLedger
  <2>. QED
    BY <1>0, <2>2, <2>3, RowsTakenAway
<1>3. ASSUME NEW t \in Templates, DeleteTemplate(t) PROVE IInv'
  <2>1. /\ UNCHANGED <<phase, sweepNow, copy, running, minted, clock, routine, schedule>>
        /\ SameLedger /\ edits' \in 0..MaxEdits /\ template' \subseteq template
    BY <1>0, <1>3, BoundsAssumption DEF DeleteTemplate, Edit, sweep, ledger, SameLedger
  <2>. QED
    BY <1>0, <2>1, RowsTakenAway
<1>4. CASE Tick \/ UNCHANGED vars
  <2>1. /\ UNCHANGED <<phase, sweepNow, copy, running, minted, edits, template,
                       routine, schedule>>
        /\ SameLedger /\ clock' \in Times /\ clock <= clock'
    BY <1>0, <1>4, BoundsAssumption DEF Tick, vars, stores, sweep, ledger, SameLedger, Times
  <2>. QED
    BY <1>0, <2>1, RowsTakenAway
<1>. QED
  BY <1>1, <1>2, <1>3, <1>4

\* The new row has an id that never ran, and is the template's only pending
\* one: of those there were, OnePending leaves none beside the replaced.
LEMMA SetScheduleStep ==
  ASSUME IInv, NEW t \in Templates, NEW slot \in Slots, SetSchedule(t, slot)
  PROVE  IInv'
<1> DEFINE row == [template |-> t, due |-> slot.due, policy |-> slot.policy,
                   status |-> "pending"]
<1>1. PICK i \in ScheduleIds \ minted,
           replaced \in IF PendingOf(t) = {} THEN {{}} ELSE {{j} : j \in PendingOf(t)} :
        /\ schedule' = [j \in ScheduleIds |-> CASE j = i -> row
                                                [] j \in replaced -> NoRow
                                                [] OTHER -> schedule[j]]
        /\ minted' = minted \cup {i}
  BY DEF SetSchedule
<1>2. /\ UNCHANGED <<clock, template, routine, phase, sweepNow, copy, running>>
      /\ SameLedger /\ edits' \in 0..MaxEdits
  BY BoundsAssumption DEF SetSchedule, Edit, sweep, ledger, SameLedger, IInv, TypeOK
<1>3. row \in ScheduleRows
  BY SettingsAssumption DEF ScheduleRows
<1>4. row # NoRow /\ row.status = "pending" /\ row.template = t /\ row.due \in Times
  BY <1>3, RowFacts
<1> HIDE DEF row
<1>5. replaced = PendingOf(t)
  <2>1. CASE PendingOf(t) = {}
    BY <2>1
  <2>2. CASE PendingOf(t) # {}
    BY <2>2 DEF IInv, OnePending
  <2>. QED
    BY <2>1, <2>2
<1>6. /\ schedule' \in [ScheduleIds -> ScheduleRows \cup {NoRow}]
      /\ schedule'[i] = row
      /\ \A j \in ScheduleIds \ {i} :
           schedule'[j] = IF j \in PendingOf(t) THEN NoRow ELSE schedule[j]
  <2>0. i \notin PendingOf(t)
    BY DEF PendingOf, IInv, CopiesFit
  <2>1. schedule'[i] = row
    BY <1>1, <1>5, <2>0
  <2>2. ASSUME NEW j \in ScheduleIds, j # i
        PROVE  schedule'[j] = IF j \in PendingOf(t) THEN NoRow ELSE schedule[j]
    BY <1>1, <1>5, <2>2
  <2>3. \A j \in ScheduleIds : schedule'[j] \in ScheduleRows \cup {NoRow}
    BY <1>3, <2>1, <2>2 DEF IInv, TypeOK
  <2>4. schedule' \in [ScheduleIds -> ScheduleRows \cup {NoRow}]
    BY <1>1, <2>3
  <2>. QED
    BY <2>1, <2>2, <2>4
<1>7. minted \subseteq minted' /\ minted' \subseteq Ids /\ i \in minted' /\ i \in Ids
  BY <1>1 DEF IInv, TypeOK, Ids
<1>8. TypeOK'
  BY <1>2, <1>6, <1>7 DEF IInv, TypeOK, SameLedger
<1>9. CopiesFit'
  BY <1>2, <1>6, <1>7 DEF IInv, CopiesFit
<1>10. LedgerFits'
  BY <1>2, <1>7 DEF IInv, LedgerFits, SameLedger
<1>11. OnePending'
  BY <1>4, <1>6 DEF IInv, OnePending, PendingOf
<1>12. SchedulesTrue'
  <2>1. copy[i] = NoRow /\ ran[i][row.due] = 0
    BY <1>1, <1>4, <1>7, LedgerFacts DEF IInv, CopiesFit
  <2>. QED
    BY <1>2, <1>4, <1>6, <2>1
       DEF IInv, SchedulesTrue, ScheduleStatusTellsTruth, SameLedger
<1>13. RoutinesAhead'
  <2>1. \A k, d : RanBefore(k, d)' <=> RanBefore(k, d)
    BY <1>2 DEF RanBefore, SameLedger
  <2>. QED
    BY <1>2, <2>1 DEF IInv, RoutinesAhead
<1>14. RoutinesDrained'
  <2>1. \A k, r : Drained(k, r)' <=> Drained(k, r)
    BY <1>2 DEF Drained, SameLedger
  <2>. QED
    BY <1>2, <2>1 DEF IInv, RoutinesDrained
<1>. QED
  BY <1>8, <1>9, <1>10, <1>11, <1>12, <1>13, <1>14 DEF IInv

-----------------------------------------------------------------------------
(* The sweep reads rows and drops them.                                     *)

\* What the sweep holds after the step it held before or has just read, and
\* nothing is awaited on either side.
LEMMA ReadStep ==
  ASSUME IInv, UNCHANGED <<clock, stores>>, SameLedger,
         running = Nobody, running' = Nobody,
         phase' \in {"idle", "routines", "schedules"}, sweepNow' \in 0..clock,
         copy' \in [Ids -> RoutineRows \cup ScheduleRows \cup {NoRow}],
         phase' = "idle" => copy' = NoCopies,
         \A i \in Ids : copy'[i] # NoRow => copy'[i].due \in 1..sweepNow',
         \A i \in RoutineIds : copy'[i] \in {copy[i], NoRow, routine[i]},
         \A i \in ScheduleIds :
           \/ copy'[i] \in {copy[i], NoRow}
           \/ copy'[i] = schedule[i] /\ schedule[i].status = "pending"
  PROVE  IInv'
<1> USE DEF stores
<1>1. TypeOK'
  BY DEF IInv, TypeOK, SameLedger
<1>2. CopiesFit'
  BY DEF IInv, TypeOK, CopiesFit, Ids, NoCopies
<1>3. LedgerFits'
  BY DEF IInv, LedgerFits, SameLedger
<1>4. OnePending'
  BY DEF IInv, OnePending, PendingOf
<1>5. SchedulesTrue'
  <2>1. ScheduleStatusTellsTruth'
    BY DEF IInv, SchedulesTrue, ScheduleStatusTellsTruth, SameLedger
  <2>2. ASSUME NEW i \in ScheduleIds, copy'[i] # NoRow
        PROVE  /\ copy'[i].status = "pending" /\ schedule'[i] \in {NoRow, copy'[i]}
               /\ ran[i][copy'[i].due] = 0
    <3>1. CASE copy'[i] = copy[i]
      BY <2>2, <3>1, IdsAssumption DEF IInv, SchedulesTrue
    <3>2. CASE copy'[i] = schedule[i] /\ schedule[i].status = "pending"
      BY <2>2, <3>2, IdsAssumption DEF IInv, SchedulesTrue, ScheduleStatusTellsTruth
    <3>. QED
      BY <2>2, <3>1, <3>2
  <2>. QED
    BY <2>1, <2>2 DEF SchedulesTrue, SameLedger
<1>6. RoutinesAhead'
  <2>1. \A k \in Ids : \A d : RanBefore(k, d) <=> \A x \in Times : ran[k][x] = 1 => x < d
    BY IdsAssumption DEF RanBefore, Ids
  <2>2. \A k \in Ids : \A d : RanBefore(k, d)' <=> \A x \in Times : ran[k][x] = 1 => x < d
    BY IdsAssumption DEF RanBefore, Ids, SameLedger
  <2>3. \A k \in RoutineIds : copy'[k] # NoRow => copy'[k].due # Never /\ k \in Ids
    BY DEF Never, Ids, IInv, TypeOK
  <2>4. ASSUME NEW k \in RoutineIds, copy'[k] # NoRow PROVE RanBefore(k, copy'[k].due)
    BY <2>3, <2>4 DEF IInv, RoutinesAhead
  <2>5. ASSUME NEW k \in RoutineIds, routine[k] # NoRow, routine[k].due # Never
        PROVE  RanBefore(k, routine[k].due)
    BY <2>5 DEF IInv, RoutinesAhead
  <2>6. \A k \in RoutineIds : k \in Ids
    BY DEF Ids
  <2>. QED
    BY <2>1, <2>2, <2>4, <2>5, <2>6 DEF RoutinesAhead
<1>7. RoutinesDrained'
  <2>1. \A k, r : Drained(k, r)' <=> Drained(k, r)
    BY DEF Drained, SameLedger
  <2>. QED
    BY <2>1 DEF IInv, RoutinesDrained
<1>. QED
  BY <1>1, <1>2, <1>3, <1>4, <1>5, <1>6, <1>7 DEF IInv

LEMMA Reading ==
  ASSUME IInv, StartSweep \/ ToSchedules
  PROVE  IInv'
<1>1. /\ clock \in Nat /\ clock <= MaxTime /\ 0 < clock /\ sweepNow \in 0..clock
      /\ \A i \in RoutineIds : i \in Ids /\ i \notin ScheduleIds
      /\ \A i \in ScheduleIds : i \in Ids /\ i \notin RoutineIds
  BY BoundsAssumption, IdsAssumption DEF IInv, TypeOK, Times, Ids
<1>2. running = Nobody
  BY NothingAwaited DEF StartSweep, ToSchedules, IInv, CopiesFit
<1>3. CASE StartSweep
  <2>1. /\ UNCHANGED <<clock, stores>> /\ SameLedger /\ running' = running
        /\ phase' = "routines" /\ sweepNow' = clock
        /\ copy' = [i \in Ids |-> IF i \in RoutineIds /\ RoutineDue(i, clock)
                                  THEN routine[i] ELSE NoRow]
    BY <1>3 DEF StartSweep, ledger, SameLedger
  <2>2. ASSUME NEW i \in Ids, copy'[i] # NoRow
        PROVE  i \in RoutineIds /\ copy'[i] = routine[i] /\ copy'[i].due \in 1..sweepNow'
    <3>1. i \in RoutineIds /\ RoutineDue(i, clock) /\ copy'[i] = routine[i]
      BY <2>1, <2>2
    <3>2. routine[i] \in RoutineRows
      BY <3>1 DEF IInv, TypeOK, RoutineDue
    <3>. QED
      BY <1>1, <2>1, <3>1, <3>2, RowFacts DEF RoutineDue, Never
  <2>3. copy' \in [Ids -> RoutineRows \cup ScheduleRows \cup {NoRow}]
    BY <2>1 DEF IInv, TypeOK
  <2>4. \A i \in RoutineIds : copy'[i] \in {copy[i], NoRow, routine[i]}
    BY <1>1, <2>2
  <2>5. \A i \in ScheduleIds : copy'[i] = NoRow
    BY <1>1, <2>2
  <2>6. sweepNow' \in 0..clock
    BY <1>1, <2>1
  <2>. QED
    BY <1>2, <2>1, <2>2, <2>3, <2>4, <2>5, <2>6, ReadStep
<1>4. CASE ToSchedules
  <2>1. /\ UNCHANGED <<clock, stores>> /\ SameLedger /\ running' = running
        /\ phase' = "schedules" /\ sweepNow' = sweepNow
        /\ copy' = [i \in Ids |-> IF i \in ScheduleIds /\ ScheduleDue(i, sweepNow)
                                  THEN schedule[i] ELSE NoRow]
    BY <1>4 DEF ToSchedules, ledger, SameLedger
  <2>2. ASSUME NEW i \in Ids, copy'[i] # NoRow
        PROVE  /\ i \in ScheduleIds /\ copy'[i] = schedule[i] /\ copy'[i].due \in 1..sweepNow'
               /\ schedule[i].status = "pending"
    <3>1. i \in ScheduleIds /\ ScheduleDue(i, sweepNow) /\ copy'[i] = schedule[i]
      BY <2>1, <2>2
    <3>2. schedule[i] \in ScheduleRows
      BY <3>1 DEF IInv, TypeOK, ScheduleDue
    <3>. QED
      BY <1>1, <2>1, <3>1, <3>2, RowFacts, BoundsAssumption DEF ScheduleDue, Times
  <2>3. copy' \in [Ids -> RoutineRows \cup ScheduleRows \cup {NoRow}]
    BY <2>1 DEF IInv, TypeOK
  <2>4. \A i \in RoutineIds : copy'[i] = NoRow
    BY <1>1, <2>2
  <2>5. \A i \in ScheduleIds : \/ copy'[i] \in {copy[i], NoRow}
                               \/ copy'[i] = schedule[i] /\ schedule[i].status = "pending"
    BY <1>1, <2>2
  <2>. QED
    BY <1>1, <1>2, <2>1, <2>2, <2>3, <2>4, <2>5, ReadStep
<1>. QED
  BY <1>3, <1>4

\* A row is passed over, or the call ends, with nothing under way.
LEMMA Dropping ==
  ASSUME IInv,
         \/ EndSweep \/ \E i \in Ids : OrphanedRoutine(i) \/ ScheduleWithoutTemplate(i)
  PROVE  IInv'
<1>1. /\ UNCHANGED <<clock, stores>> /\ SameLedger
  BY DEF EndSweep, OrphanedRoutine, ScheduleWithoutTemplate, ledger, SameLedger
<1>2. running = Nobody
  BY NothingAwaited DEF EndSweep, OrphanedRoutine, ScheduleWithoutTemplate, AtRow, IInv
<1>3. /\ phase \in {"idle", "routines", "schedules"} /\ sweepNow \in 0..clock /\ clock \in Nat
      /\ copy \in [Ids -> RoutineRows \cup ScheduleRows \cup {NoRow}]
      /\ \A i \in Ids : copy[i] # NoRow => copy[i].due \in 1..sweepNow
      /\ \A i \in RoutineIds \cup ScheduleIds : i \in Ids
  BY BoundsAssumption DEF IInv, TypeOK, Times, Ids
<1>4. CASE StopSweep
  <2>1. /\ phase' = "idle" /\ sweepNow' = 0 /\ running' = Nobody /\ copy' = NoCopies
    BY <1>4 DEF StopSweep
  <2>2. /\ copy' \in [Ids -> RoutineRows \cup ScheduleRows \cup {NoRow}]
        /\ \A i \in Ids : copy'[i] = NoRow
    BY <2>1 DEF NoCopies
  <2>3. sweepNow' \in 0..clock
    BY <1>3, <2>1
  <2>. QED
    BY <1>1, <1>2, <1>3, <2>1, <2>2, <2>3, ReadStep
<1>5. CASE \E i \in Ids : OrphanedRoutine(i)
  <2>1. PICK i \in Ids : /\ AtRow(i) /\ copy' = [copy EXCEPT ![i] = NoRow]
                         /\ UNCHANGED <<phase, sweepNow, running>>
    BY <1>5 DEF OrphanedRoutine, Done
  <2>2. phase # "idle"
    BY <2>1 DEF AtRow, IInv, CopiesFit, NoCopies
  <2>3. /\ copy' \in [Ids -> RoutineRows \cup ScheduleRows \cup {NoRow}]
        /\ \A k \in Ids : copy'[k] \in {copy[k], NoRow}
    BY <1>3, <2>1
  <2>. QED
    BY <1>1, <1>2, <1>3, <2>1, <2>2, <2>3, ReadStep
<1>. QED
  BY <1>4, <1>5 DEF EndSweep, ScheduleWithoutTemplate

-----------------------------------------------------------------------------
(* Runs start, return or are lost.                                          *)

\* A step of the ledger in one place of it.
LEMMA LedgerStep ==
  ASSUME IInv, NEW i \in Ids, NEW d \in Times, copy[i] # NoRow, d = copy[i].due,
         ran'[i][d] \in {0, 1}, d \in recorded'[i],
         \A k \in Ids, t \in Times :
           k # i \/ t # d => /\ ran'[k][t] = ran[k][t]
                             /\ t \in recorded'[k] <=> t \in recorded[k]
  PROVE  /\ \A k \in Ids, t \in Times : ran'[k][t] \in {0, 1}
         /\ \A k \in Ids, t \in Times :
              t \in recorded'[k] \/ ran'[k][t] > 0 => k \in minted /\ t <= clock
         /\ \A k \in Ids, t \in Times : ran'[k][t] > 0 => t \in recorded'[k]
<1>1. d <= clock /\ i \in minted
  BY CopyFacts
<1>2. ASSUME NEW k \in Ids, NEW t \in Times
      PROVE  /\ ran'[k][t] \in {0, 1}
             /\ t \in recorded'[k] \/ ran'[k][t] > 0 => k \in minted /\ t <= clock
             /\ ran'[k][t] > 0 => t \in recorded'[k]
  <2>1. CASE k = i /\ t = d
    BY <1>1, <2>1
  <2>2. CASE k # i \/ t # d
    BY <2>2 DEF IInv, LedgerFits
  <2>. QED
    BY <2>1, <2>2
<1>. QED
  BY <1>2

\* More task records never take an occurrence back.
LEMMA DrainedStays ==
  ASSUME NEW k \in Ids, NEW row, Drained(k, row),
         \A t \in Times : t \in recorded[k] => t \in recorded'[k]
  PROVE  Drained(k, row)'
BY DEF Drained

LEMMA StartRunStep ==
  ASSUME IInv, NEW i \in Ids, StartRun(i)
  PROVE  IInv'
<1>0. PICK d : d = copy[i].due
  OBVIOUS
<1>1. /\ running = Nobody /\ copy[i] # NoRow /\ running' = i
      /\ ran' = [ran EXCEPT ![i][d] = @ + 1]
      /\ recorded' = [recorded EXCEPT ![i] = @ \cup {d}]
      /\ UNCHANGED <<clock, template, routine, schedule, minted, edits, phase, sweepNow,
                     copy>>
  BY <1>0 DEF StartRun, AtRow, stores
<1>2. /\ d \in Times /\ d <= clock /\ i # Nobody
      /\ i \in RoutineIds => i \notin ScheduleIds
  BY <1>0, <1>1, CopyFacts, IdsAssumption DEF Ids
<1>3. ran[i][d] = 0
  <2>1. CASE i \in RoutineIds
    BY <1>0, <1>1, <1>2, <2>1, LedgerFacts, BoundsAssumption
       DEF IInv, RoutinesAhead, RanBefore, Times
  <2>2. CASE i \in ScheduleIds
    BY <1>0, <1>1, <1>2, <2>2 DEF IInv, SchedulesTrue
  <2>. QED
    BY <2>1, <2>2 DEF Ids
<1>4. /\ recorded' \in [Ids -> SUBSET Times] /\ d \in recorded'[i]
      /\ \A k \in Ids, t \in Times : t \in recorded[k] => t \in recorded'[k]
  BY <1>1, <1>2 DEF IInv, TypeOK
<1>7. /\ ran' \in [Ids -> [Times -> Nat]] /\ ran'[i][d] = 1
      /\ \A k \in Ids, t \in Times :
           k # i \/ t # d => /\ ran'[k][t] = ran[k][t]
                             /\ t \in recorded'[k] <=> t \in recorded[k]
  BY <1>1, <1>2, <1>3 DEF IInv, TypeOK
<1>8. /\ \A k \in Ids, t \in Times : ran'[k][t] \in {0, 1}
      /\ \A k \in Ids, t \in Times :
           t \in recorded'[k] \/ ran'[k][t] > 0 => k \in minted /\ t <= clock
      /\ \A k \in Ids, t \in Times : ran'[k][t] > 0 => t \in recorded'[k]
  BY <1>0, <1>1, <1>2, <1>4, <1>7, LedgerStep
<1>9. TypeOK'
  BY <1>1, <1>4, <1>7 DEF IInv, TypeOK
<1>10. CopiesFit' /\ OnePending'
  BY <1>1 DEF IInv, CopiesFit, OnePending, PendingOf
<1>11. LedgerFits'
  BY <1>0, <1>1, <1>7, <1>8 DEF IInv, LedgerFits
<1>12. SchedulesTrue'
  <2>1. ASSUME NEW k \in ScheduleIds, schedule[k] # NoRow, k # i
        PROVE  ran'[k][schedule'[k].due] = IF schedule[k].status = "fired" THEN 1 ELSE 0
    <3>1. schedule[k].due \in Times /\ k \in Ids
      BY <2>1, RowFacts DEF IInv, TypeOK, Ids
    <3>. QED
      BY <1>1, <1>7, <2>1, <3>1, IdsAssumption
         DEF IInv, SchedulesTrue, ScheduleStatusTellsTruth
  <2>2. ASSUME NEW k \in ScheduleIds, copy[k] # NoRow
        PROVE  /\ copy[k].status = "pending" /\ schedule[k] \in {NoRow, copy[k]}
               /\ i # k => ran'[k][copy'[k].due] = 0
    <3>1. copy[k].due \in Times /\ k \in Ids
      BY <2>2, CopyFacts DEF Ids
    <3>. QED
      BY <1>1, <1>7, <2>2, <3>1, IdsAssumption DEF IInv, SchedulesTrue, Ids
  <2>. QED
    BY <1>1, <2>1, <2>2 DEF SchedulesTrue, ScheduleStatusTellsTruth
<1>13. RoutinesAhead'
  <2>1. ASSUME NEW k \in RoutineIds, NEW due, RanBefore(k, due) PROVE RanBefore(k, due)'
    <3> SUFFICES ASSUME NEW t \in Times, ran'[k][t] = 1
                 PROVE  t < due \/ (i = k /\ t = copy[k].due)
      BY <1>1 DEF RanBefore
    <3>1. CASE k = i /\ t = d
      BY <1>0, <3>1
    <3>2. CASE k # i \/ t # d
      BY <1>1, <1>7, <2>1, <3>2, IdsAssumption DEF RanBefore, Ids
    <3>. QED
      BY <3>1, <3>2
  <2>. QED
    BY <1>1, <2>1 DEF IInv, RoutinesAhead
<1>14. RoutinesDrained'
  <2>1. ASSUME NEW k \in RoutineIds, NEW row, Drained(k, row) PROVE Drained(k, row)'
    BY <1>4, <2>1, DrainedStays DEF Ids
  <2>. QED
    BY <1>1, <2>1 DEF IInv, RoutinesDrained
<1>. QED
  BY <1>9, <1>10, <1>11, <1>12, <1>13, <1>14 DEF IInv

\* A run that is refused or lost leaves the rows as they were.
LEMMA RunLostStep ==
  ASSUME IInv, RunLost
  PROVE  IInv'
<1>1. PICK i \in Ids : i = running /\ copy[i] # NoRow
  BY DEF RunLost, IInv, TypeOK
<1>2. PICK d \in Times : d = copy[i].due
  BY <1>1, CopyFacts
<1>3. /\ phase' = "idle" /\ sweepNow' = 0 /\ copy' = NoCopies /\ running' = Nobody
      /\ ran' = [ran EXCEPT ![i][d] = @ - 1] /\ recorded' = recorded
      /\ UNCHANGED <<clock, template, routine, schedule, minted, edits>>
  BY <1>1, <1>2 DEF RunLost, AbortRun, StopSweep, stores, IInv, TypeOK
<1>4. ran[i][d] = 1 /\ d \in recorded[i] /\ i # Nobody
  BY <1>1, <1>2, IdsAssumption DEF IInv, LedgerFits, Ids
<1>5. /\ ran' \in [Ids -> [Times -> Nat]] /\ ran'[i][d] = 0
      /\ \A k \in Ids, t \in Times :
           k # i \/ t # d => /\ ran'[k][t] = ran[k][t]
                             /\ t \in recorded'[k] <=> t \in recorded[k]
  BY <1>1, <1>2, <1>3, <1>4 DEF IInv, TypeOK
<1>6. /\ \A k \in Ids, t \in Times : ran'[k][t] \in {0, 1}
      /\ \A k \in Ids, t \in Times :
           t \in recorded'[k] \/ ran'[k][t] > 0 => k \in minted /\ t <= clock
      /\ \A k \in Ids, t \in Times : ran'[k][t] > 0 => t \in recorded'[k]
  BY <1>1, <1>2, <1>3, <1>4, <1>5, LedgerStep
<1>8. \A k \in Ids : copy'[k] = NoRow
  BY <1>3 DEF NoCopies
<1>9. TypeOK'
  <2>1. /\ clock \in Times /\ 0 \in 0..clock /\ \A k \in RoutineIds : k \in Ids
        /\ copy' \in [Ids -> RoutineRows \cup ScheduleRows \cup {NoRow}]
    BY <1>3, BoundsAssumption DEF IInv, TypeOK, Times, NoCopies, Ids
  <2>. QED
    BY <1>3, <1>5, <1>6, <1>8, <2>1 DEF IInv, TypeOK
<1>10. CopiesFit' /\ OnePending' /\ LedgerFits'
  <2>1. CopiesFit'
    BY <1>3, <1>8 DEF IInv, CopiesFit, Ids, NoCopies
  <2>2. OnePending'
    BY <1>3 DEF IInv, OnePending, PendingOf
  <2>3. LedgerFits'
    BY <1>3, <1>5, <1>6 DEF LedgerFits
  <2>. QED
    BY <2>1, <2>2, <2>3
<1>11. SchedulesTrue'
  <2>1. ASSUME NEW k \in ScheduleIds, schedule[k] # NoRow
        PROVE  ran'[k][schedule'[k].due] = IF schedule[k].status = "fired" THEN 1 ELSE 0
    <3>1. schedule[k].due \in Times /\ k \in Ids
      BY <2>1, RowFacts DEF IInv, TypeOK, Ids
    <3>2. CASE k = i
      BY <1>1, <1>2, <1>5, <1>6, <2>1, <3>2, <1>3 DEF IInv, SchedulesTrue
    <3>3. CASE k # i
      BY <1>1, <1>3, <1>5, <1>6, <2>1, <3>1, <3>3 DEF IInv, SchedulesTrue, ScheduleStatusTellsTruth
    <3>. QED
      BY <3>2, <3>3
  <2>. QED
    BY <1>3, <1>8, <2>1 DEF SchedulesTrue, ScheduleStatusTellsTruth, Ids
<1>12. RoutinesAhead'
  <2>1. ASSUME NEW k \in RoutineIds, NEW due, RanBefore(k, due) PROVE RanBefore(k, due)'
    <3> SUFFICES ASSUME NEW t \in Times, ran'[k][t] = 1 PROVE t < due
      BY DEF RanBefore
    <3>1. k # i \/ t # d
      BY <1>5
    <3>. QED
      BY <1>1, <1>2, <1>5, <1>6, <2>1, <3>1 DEF RanBefore, Ids
  <2>. QED
    BY <1>3, <1>8, <2>1 DEF IInv, RoutinesAhead, Ids
<1>13. RoutinesDrained'
  <2>1. ASSUME NEW k \in RoutineIds, NEW row, Drained(k, row) PROVE Drained(k, row)'
    BY <1>3, <2>1, DrainedStays DEF Ids
  <2>. QED
    BY <1>3, <1>8, <2>1 DEF IInv, RoutinesDrained, Ids
<1>. QED
  BY <1>9, <1>10, <1>11, <1>12, <1>13 DEF IInv

\* What every save of a copy shares: the row leaves the sweep's list and
\* nothing is awaited.
LEMMA CopySaved ==
  ASSUME IInv, NEW i \in Ids, copy[i] # NoRow, running \in {Nobody, i}, running' = Nobody,
         copy' = [copy EXCEPT ![i] = NoRow], SameLedger,
         UNCHANGED <<clock, template, minted, edits, phase, sweepNow>>
  PROVE  /\ copy'[i] = NoRow /\ \A k \in Ids : k # i => copy'[k] = copy[k]
         /\ copy' \in [Ids -> RoutineRows \cup ScheduleRows \cup {NoRow}]
         /\ \A k \in Ids : copy'[k] # NoRow => copy'[k].due \in 1..sweepNow'
         /\ \A k \in RoutineIds : copy'[k] \in RoutineRows \cup {NoRow}
         /\ \A k \in ScheduleIds : copy'[k] \in ScheduleRows \cup {NoRow}
         /\ phase # "idle"
         /\ LedgerFits'
         /\ \A k \in Ids : \A due : k # i /\ RanBefore(k, due) => RanBefore(k, due)'
         /\ \A k, row : Drained(k, row)' <=> Drained(k, row)
<1>1. /\ copy'[i] = NoRow /\ \A k \in Ids : k # i => copy'[k] = copy[k]
      /\ copy' \in [Ids -> RoutineRows \cup ScheduleRows \cup {NoRow}]
  BY DEF IInv, TypeOK
<1>2. \A k \in Ids : copy'[k] # NoRow => copy'[k].due \in 1..sweepNow'
  BY <1>1 DEF IInv, TypeOK
<1>3. /\ \A k \in RoutineIds : copy'[k] \in RoutineRows \cup {NoRow}
      /\ \A k \in ScheduleIds : copy'[k] \in ScheduleRows \cup {NoRow}
      /\ phase # "idle"
  BY <1>1 DEF IInv, CopiesFit, Ids, NoCopies
<1>4. LedgerFits'
  BY DEF IInv, LedgerFits, SameLedger
<1>5. \A k \in Ids : \A due : k # i /\ RanBefore(k, due) => RanBefore(k, due)'
  BY IdsAssumption DEF RanBefore, Ids, SameLedger
<1>6. \A k, row : Drained(k, row)' <=> Drained(k, row)
  BY DEF Drained, SameLedger
<1>. QED
  BY <1>1, <1>2, <1>3, <1>4, <1>5, <1>6

\* The row saved after a run is due strictly later, and its backlog has run.
LEMMA RoutineRunReturnsStep ==
  ASSUME IInv, NEW i \in RoutineIds, RoutineRunReturns(i)
  PROVE  IInv'
<1>0. PICK row : row = [copy[i] EXCEPT !.due = Following(copy[i])]
  OBVIOUS
<1>1. /\ i \in Ids /\ running = i /\ running' = Nobody /\ copy[i] # NoRow /\ i # Nobody
      /\ routine' = [routine EXCEPT ![i] = row] /\ copy' = [copy EXCEPT ![i] = NoRow]
      /\ UNCHANGED <<clock, template, schedule, minted, edits, phase, sweepNow>>
      /\ SameLedger
  BY <1>0, IdsAssumption DEF RoutineRunReturns, Done, ledger, SameLedger, IInv, TypeOK, Ids
<1>2. /\ copy[i] \in RoutineRows /\ copy[i].due \in Times /\ copy[i].due <= sweepNow
      /\ sweepNow \in Nat /\ copy[i].due \in Nat \ {0} /\ i \in minted
  BY <1>1, CopyFacts, BoundsAssumption DEF Times
<1>3. /\ copy[i].spec \in Specs /\ copy[i].policy \in Policies
      /\ Drained(i, copy[i]) /\ RanBefore(i, copy[i].due)
  BY <1>1, <1>2, RowFacts DEF IInv, RoutinesDrained, RoutinesAhead
<1>4. Following(copy[i]) \in Nat /\ (Following(copy[i]) # Never => Following(copy[i]) > copy[i].due)
  <2>1. CASE copy[i].policy = "catch_up"
    BY <1>2, <1>3, <2>1, NextAfterIsLater DEF Following
  <2>2. CASE copy[i].policy # "catch_up"
    <3>1. Following(copy[i]) = NextAfter(copy[i].spec, sweepNow)
      BY <2>2 DEF Following
    <3>. QED
      BY <1>2, <1>3, <3>1, NextAfterIsLater
  <2>. QED
    BY <2>1, <2>2
<1>5. /\ row \in RoutineRows /\ row # NoRow /\ row.due = Following(copy[i])
      /\ row.spec = copy[i].spec /\ row.policy = copy[i].policy
  BY <1>0, <1>2, <1>4, RowAssumption DEF RoutineRows
<1>6. RanBefore(i, row.due)' \/ row.due = Never
  <2> SUFFICES ASSUME row.due # Never, NEW t \in Times, ran[i][t] = 1 PROVE t < row.due
    BY <1>1, <1>5 DEF RanBefore, SameLedger
  <2>1. t <= copy[i].due /\ t \in Nat
    BY <1>2, <1>3, BoundsAssumption DEF RanBefore, Times
  <2>. QED
    BY <1>2, <1>4, <1>5, <2>1
<1>7. Drained(i, row)
  <2>1. copy[i].spec.kind # "idle_window" /\ copy[i].due # Never
    BY <1>2, <1>3 DEF Drained, Never
  <2>2. ASSUME row.policy = "catch_up"
        PROVE  OnTheBeat(row) /\ \A t \in Occurrences(row) : t \in Times /\ t \in recorded[i]
    <3>1. OnTheBeat(copy[i]) /\ \A t \in Occurrences(copy[i]) : t \in Times /\ t \in recorded[i]
      BY <1>3, <1>5, <2>2 DEF Drained
    <3>2. row = [copy[i] EXCEPT !.due = NextAfter(copy[i].spec, copy[i].due)]
      BY <1>0, <1>5, <2>2 DEF Following
    <3>3. /\ OnTheBeat(row)
          /\ \A t \in Occurrences(row) : t \in Occurrences(copy[i]) \/ t = copy[i].due
      BY <1>2, <1>5, <2>1, <3>1, <3>2, CatchUpKeepsTheBeat
    <3>4. copy[i].due \in recorded[i]
      BY <1>1, <1>2, LedgerFacts DEF IInv, LedgerFits
    <3>. QED
      BY <1>2, <3>1, <3>3, <3>4
  <2>. QED
    BY <1>5, <2>1, <2>2 DEF Drained
<1>8. /\ copy'[i] = NoRow /\ \A k \in Ids : k # i => copy'[k] = copy[k]
      /\ copy' \in [Ids -> RoutineRows \cup ScheduleRows \cup {NoRow}]
      /\ \A k \in Ids : copy'[k] # NoRow => copy'[k].due \in 1..sweepNow'
      /\ \A k \in RoutineIds : copy'[k] \in RoutineRows \cup {NoRow}
      /\ \A k \in ScheduleIds : copy'[k] \in ScheduleRows \cup {NoRow}
      /\ phase # "idle"
      /\ LedgerFits'
  BY <1>1, CopySaved
<1>9. /\ \A k \in Ids : \A due : k # i /\ RanBefore(k, due) => RanBefore(k, due)'
      /\ \A k, r : Drained(k, r)' <=> Drained(k, r)
  BY <1>1, CopySaved
<1>10. /\ routine' \in [RoutineIds -> RoutineRows \cup {NoRow}]
       /\ \A k \in RoutineIds : routine'[k] = IF k = i THEN row ELSE routine[k]
  BY <1>1, <1>5 DEF IInv, TypeOK
<1>11. TypeOK'
  BY <1>1, <1>2, <1>8, <1>10 DEF IInv, TypeOK, SameLedger
<1>12. CopiesFit'
  BY <1>1, <1>8 DEF IInv, CopiesFit
<1>13. OnePending'
  BY <1>1 DEF IInv, OnePending, PendingOf
<1>14. SchedulesTrue'
  <2>1. \A k \in ScheduleIds : k # i /\ k \in Ids
    BY IdsAssumption DEF Ids
  <2>2. ScheduleStatusTellsTruth'
    BY <1>1, <2>1 DEF IInv, SchedulesTrue, ScheduleStatusTellsTruth, SameLedger
  <2>3. \A k \in ScheduleIds : copy'[k] # NoRow => ran'[k][copy'[k].due] = 0
    BY <1>1, <1>8, <2>1 DEF IInv, SchedulesTrue, SameLedger
  <2>4. \A k \in ScheduleIds :
          copy'[k] # NoRow => copy'[k].status = "pending" /\ schedule'[k] \in {NoRow, copy'[k]}
    BY <1>1, <1>8, <2>1 DEF IInv, SchedulesTrue
  <2>. QED
    BY <2>2, <2>3, <2>4 DEF SchedulesTrue
<1>15. RoutinesAhead'
  BY <1>6, <1>8, <1>9, <1>10 DEF IInv, RoutinesAhead, Ids
<1>16. RoutinesDrained'
  BY <1>7, <1>8, <1>9, <1>10 DEF IInv, RoutinesDrained, Ids
<1>. QED
  BY <1>8, <1>11, <1>12, <1>13, <1>14, <1>15, <1>16 DEF IInv

\* A schedule is saved as it was read, with the verdict its ledger supports.
LEMMA ScheduleSavedStep ==
  ASSUME IInv, NEW i \in ScheduleIds, SkipSchedule(i) \/ ScheduleRunReturns(i)
  PROVE  IInv'
<1>1. PICK verdict \in {"skipped", "fired"} :
        /\ schedule' = [schedule EXCEPT ![i] = [copy[i] EXCEPT !.status = verdict]]
        /\ verdict = "skipped" => SkipSchedule(i)
        /\ verdict = "fired" => ScheduleRunReturns(i)
  BY DEF SkipSchedule, ScheduleRunReturns
<1>0. PICK row : row = [copy[i] EXCEPT !.status = verdict]
  OBVIOUS
<1>2. /\ i \in Ids /\ copy[i] # NoRow /\ running \in {Nobody, i} /\ running' = Nobody
      /\ i # Nobody /\ copy' = [copy EXCEPT ![i] = NoRow] /\ SameLedger
      /\ UNCHANGED <<clock, template, routine, minted, edits, phase, sweepNow>>
      /\ running = IF verdict = "fired" THEN i ELSE Nobody
  BY <1>1, IdsAssumption
     DEF SkipSchedule, ScheduleRunReturns, AtRow, Done, ledger, SameLedger, IInv, TypeOK, Ids
<1>3. copy[i] \in ScheduleRows /\ i \in minted /\ copy[i].due \in Times
  BY <1>2, CopyFacts
<1>4. /\ row \in ScheduleRows /\ row # NoRow /\ row.due = copy[i].due
      /\ row.status = verdict /\ row.template = copy[i].template
  BY <1>0, <1>3, RowAssumption DEF ScheduleRows
<1>5. ran[i][row.due] = IF verdict = "fired" THEN 1 ELSE 0
  BY <1>2, <1>4 DEF IInv, LedgerFits, SchedulesTrue
<1>6. /\ copy'[i] = NoRow /\ \A k \in Ids : k # i => copy'[k] = copy[k]
      /\ copy' \in [Ids -> RoutineRows \cup ScheduleRows \cup {NoRow}]
      /\ \A k \in Ids : copy'[k] # NoRow => copy'[k].due \in 1..sweepNow'
      /\ \A k \in RoutineIds : copy'[k] \in RoutineRows \cup {NoRow}
      /\ \A k \in ScheduleIds : copy'[k] \in ScheduleRows \cup {NoRow}
      /\ phase # "idle"
      /\ LedgerFits'
  BY <1>2, CopySaved
<1>7. /\ \A k \in Ids : \A due : k # i /\ RanBefore(k, due) => RanBefore(k, due)'
      /\ \A k, r : Drained(k, r)' <=> Drained(k, r)
  BY <1>2, CopySaved
<1>8. /\ schedule' \in [ScheduleIds -> ScheduleRows \cup {NoRow}]
      /\ \A k \in ScheduleIds : schedule'[k] = IF k = i THEN row ELSE schedule[k]
  BY <1>0, <1>1, <1>4 DEF IInv, TypeOK
<1>9. TypeOK'
  BY <1>2, <1>6, <1>8 DEF IInv, TypeOK, SameLedger
<1>10. CopiesFit'
  BY <1>2, <1>3, <1>6, <1>8 DEF IInv, CopiesFit
<1>11. OnePending'
  <2>1. \A t \in Templates : PendingOf(t)' \subseteq PendingOf(t)
    BY <1>4, <1>8 DEF PendingOf
  <2>. QED
    BY <2>1 DEF IInv, OnePending
<1>12. SchedulesTrue'
  <2>1. ASSUME NEW k \in ScheduleIds, schedule'[k] # NoRow
        PROVE  ran'[k][schedule'[k].due] = IF schedule'[k].status = "fired" THEN 1 ELSE 0
    <3>1. CASE k = i
      BY <1>4, <1>5, <1>8, <1>2, <3>1 DEF SameLedger
    <3>2. CASE k # i
      BY <1>2, <1>8, <2>1, <3>2, IdsAssumption
         DEF IInv, SchedulesTrue, ScheduleStatusTellsTruth, SameLedger, Ids
    <3>. QED
      BY <3>1, <3>2
  <2>2. ASSUME NEW k \in ScheduleIds, copy'[k] # NoRow
        PROVE  /\ copy'[k].status = "pending" /\ schedule'[k] \in {NoRow, copy'[k]}
               /\ ran'[k][copy'[k].due] = 0
    <3>1. k # i /\ copy'[k] = copy[k] /\ running # k /\ schedule'[k] = schedule[k]
      BY <1>2, <1>6, <1>8, <2>2, IdsAssumption DEF Ids
    <3>. QED
      BY <1>2, <2>2, <3>1 DEF IInv, SchedulesTrue, SameLedger
  <2>. QED
    BY <2>1, <2>2 DEF SchedulesTrue, ScheduleStatusTellsTruth
<1>13. \A k \in RoutineIds : k # i /\ k \in Ids
  BY IdsAssumption DEF Ids
<1>14. RoutinesAhead'
  BY <1>2, <1>6, <1>7, <1>13 DEF IInv, RoutinesAhead
<1>15. RoutinesDrained'
  BY <1>2, <1>6, <1>7, <1>13 DEF IInv, RoutinesDrained
<1>. QED
  BY <1>6, <1>9, <1>10, <1>11, <1>12, <1>14, <1>15 DEF IInv

-----------------------------------------------------------------------------
(* The theorems.                                                            *)

LEMMA InitIInv == Init => IInv
<1> SUFFICES ASSUME Init PROVE IInv
  OBVIOUS
<1> USE DEF Init
<1>1. /\ \A i \in Ids : copy[i] = NoRow
      /\ \A i \in RoutineIds : routine[i] = NoRow /\ i \in Ids
      /\ \A i \in ScheduleIds : schedule[i] = NoRow /\ i \in Ids
      /\ \A i \in Ids, t \in Times : ran[i][t] = 0 /\ t \notin recorded[i]
  BY DEF NoCopies, Ids
<1>2. TypeOK
  BY <1>1, BoundsAssumption DEF TypeOK, Times, NoCopies
<1>3. CopiesFit /\ SchedulesTrue /\ RoutinesAhead /\ RoutinesDrained
  BY <1>1 DEF CopiesFit, SchedulesTrue, ScheduleStatusTellsTruth, RoutinesAhead, RoutinesDrained
<1>4. LedgerFits /\ OnePending
  BY <1>1 DEF LedgerFits, OnePending, PendingOf
<1>. QED
  BY <1>2, <1>3, <1>4 DEF IInv

LEMMA NextIInv == IInv /\ [Next]_vars => IInv'
<1> SUFFICES ASSUME IInv, [Next]_vars PROVE IInv'
  OBVIOUS
<1>1. CASE Operator
  BY <1>1, SetRoutineStep, SetScheduleStep, TakingAway DEF Operator
<1>2. CASE Sweep
  <2>1. CASE StartSweep \/ ToSchedules
    BY <2>1, Reading
  <2>2. CASE EndSweep \/ \E i \in Ids : OrphanedRoutine(i) \/ ScheduleWithoutTemplate(i)
    BY <2>2, Dropping
  <2>3. CASE \E i \in Ids : StartRun(i)
    BY <2>3, StartRunStep
  <2>4. CASE \E i \in Ids : RoutineRunReturns(i)
    BY <2>4, RoutineRunReturnsStep DEF RoutineRunReturns
  <2>5. CASE \E i \in Ids : SkipSchedule(i) \/ ScheduleRunReturns(i)
    BY <2>5, ScheduleSavedStep DEF SkipSchedule, ScheduleRunReturns
  <2>. QED
    BY <1>2, <2>1, <2>2, <2>3, <2>4, <2>5 DEF Sweep
<1>3. CASE RunLost
  BY <1>3, RunLostStep
<1>4. CASE Tick \/ UNCHANGED vars
  BY <1>4, TakingAway
<1>. QED
  BY <1>1, <1>2, <1>3, <1>4 DEF Next

LEMMA Inductive == Spec => []IInv
BY InitIInv, NextIInv, PTL DEF Spec

\* Bindings, copies and the ledger of runs keep their types, and the sweep
\* holds no row that was not due when it began (routines.py:585-621).
THEOREM Types == Spec => []TypeOK
<1>1. IInv => TypeOK
  BY DEF IInv
<1>. QED
  BY Inductive, <1>1, PTL

\* However a sweep's late saves meet the operator's edits, a template never
\* has two pending schedules.
THEOREM PendingIsUnique == Spec => []AtMostOnePending
<1>1. ASSUME IInv PROVE AtMostOnePending
  <2> SUFFICES ASSUME NEW t \in Templates PROVE Cardinality(PendingOf(t)) <= 1
    BY DEF AtMostOnePending
  <2>1. CASE PendingOf(t) = {}
    BY <2>1, FS_EmptySet
  <2>2. CASE PendingOf(t) # {}
    <3>1. PICK i : i \in PendingOf(t)
      BY <2>2
    <3>2. PendingOf(t) = {i}
      BY <1>1, <3>1 DEF IInv, OnePending
    <3>. QED
      BY <3>2, FS_Singleton
  <2>. QED
    BY <2>1, <2>2
<1>. QED
  BY Inductive, <1>1, PTL

\* No occurrence is run twice without a refused or lost run between: not for
\* overlapping calls, late ticks, catching up, or edits during a run.
THEOREM NoSecondRecord == Spec => []RefiresOnlyAfterTrouble
<1>1. IInv => RefiresOnlyAfterTrouble
  BY DEF IInv, LedgerFits, RefiresOnlyAfterTrouble
<1>. QED
  BY Inductive, <1>1, PTL

\* A schedule whose row says fired has a run that went through, and one that
\* says pending or skipped has none, but while its run is under way.
THEOREM StatusIsTrue == Spec => []ScheduleStatusTellsTruth
<1>1. IInv => ScheduleStatusTellsTruth
  BY DEF IInv, SchedulesTrue
<1>. QED
  BY Inductive, <1>1, PTL

\* A routine that catches up leaves no occurrence out, for any interval or
\* grid, however long the service was away (routines.py:546-554).
THEOREM BacklogIsComplete == Spec => []CatchUpMissesNothing
<1>1. IInv => CatchUpMissesNothing
  BY DEF IInv, RoutinesDrained, Drained, CatchUpMissesNothing
<1>. QED
  BY Inductive, <1>1, PTL
-----------------------------------------------------------------------------
(* The promise.                                                             *)

\* A schedule's id is set to one date and runs for no other.
KeepsItsDate(i, due) == \A t \in Times : t \in recorded[i] => t = due

OneDate ==
  \A i \in ScheduleIds :
    /\ schedule[i] # NoRow => KeepsItsDate(i, schedule[i].due)
    /\ copy[i] # NoRow => KeepsItsDate(i, copy[i].due)

LEMMA OneDateStays ==
  ASSUME IInv, OneDate, SameLedger,
         \A i \in ScheduleIds :
           \/ schedule'[i] \in {schedule[i], NoRow}
           \/ copy[i] # NoRow /\ schedule'[i].due = copy[i].due,
         \A i \in ScheduleIds : copy'[i] \in {schedule[i], copy[i], NoRow}
  PROVE  OneDate'
<1>1. \A i, due : KeepsItsDate(i, due)' <=> KeepsItsDate(i, due)
  BY DEF KeepsItsDate, SameLedger
<1>2. ASSUME NEW i \in ScheduleIds, schedule'[i] # NoRow PROVE KeepsItsDate(i, schedule'[i].due)
  BY <1>2 DEF OneDate
<1>3. ASSUME NEW i \in ScheduleIds, copy'[i] # NoRow PROVE KeepsItsDate(i, copy'[i].due)
  BY <1>3 DEF OneDate
<1>. QED
  BY <1>1, <1>2, <1>3 DEF OneDate

LEMMA OneDateStep == IInv /\ OneDate /\ [Next]_vars => OneDate'
<1> SUFFICES ASSUME IInv, OneDate, [Next]_vars PROVE OneDate'
  OBVIOUS
<1>1. /\ \A i \in RoutineIds : i \in Ids /\ i \notin ScheduleIds
      /\ \A i \in ScheduleIds : i \in Ids /\ i \notin RoutineIds
  BY IdsAssumption DEF Ids
<1>2. ASSUME NEW t \in Templates, NEW slot \in Slots, SetSchedule(t, slot) PROVE OneDate'
  <2>1. PICK i \in ScheduleIds \ minted,
             replaced \in IF PendingOf(t) = {} THEN {{}} ELSE {{j} : j \in PendingOf(t)} :
          schedule' = [j \in ScheduleIds |->
                         CASE j = i -> [template |-> t, due |-> slot.due,
                                        policy |-> slot.policy, status |-> "pending"]
                           [] j \in replaced -> NoRow
                           [] OTHER -> schedule[j]]
    BY <1>2 DEF SetSchedule
  <2>2. \A j \in ScheduleIds \ {i} : schedule'[j] \in {schedule[j], NoRow}
    BY <2>1
  <2>3. \A x \in Times : x \notin recorded[i]
    BY <1>1 DEF IInv, LedgerFits, TypeOK
  <2>4. SameLedger /\ copy' = copy
    BY <1>2 DEF SetSchedule, Edit, sweep, ledger, SameLedger
  <2>5. \A j, due : KeepsItsDate(j, due)' <=> KeepsItsDate(j, due)
    BY <2>4 DEF KeepsItsDate, SameLedger
  <2>6. \A due : KeepsItsDate(i, due)
    BY <2>3 DEF KeepsItsDate
  <2>. QED
    BY <2>2, <2>4, <2>5, <2>6 DEF OneDate
<1>3. ASSUME NEW i \in Ids, StartRun(i) PROVE OneDate'
  <2>1. /\ copy[i] # NoRow /\ UNCHANGED <<schedule, copy>>
        /\ recorded' = [recorded EXCEPT ![i] = @ \cup {copy[i].due}]
    BY <1>3 DEF StartRun, AtRow, stores
  <2>2. copy[i].due \in Times
    BY <2>1, CopyFacts
  <2>3. \A k \in Ids, x \in Times : x \in recorded'[k] => x \in recorded[k] \/ (k = i /\ x = copy[i].due)
    BY <2>1, <2>2 DEF IInv, TypeOK
  <2>4. \A k \in ScheduleIds, due \in Times :
          KeepsItsDate(k, due) /\ (k = i => due = copy[i].due) => KeepsItsDate(k, due)'
    BY <1>1, <2>3 DEF KeepsItsDate
  <2>5. ASSUME NEW k \in ScheduleIds, schedule[k] # NoRow
        PROVE  schedule[k].due \in Times /\ (k = i => schedule[k].due = copy[i].due)
    BY <2>1, <2>5, RowFacts DEF IInv, TypeOK, SchedulesTrue
  <2>6. ASSUME NEW k \in ScheduleIds, copy[k] # NoRow PROVE copy[k].due \in Times
    BY <1>1, <2>6, CopyFacts
  <2>. QED
    BY <2>1, <2>4, <2>5, <2>6 DEF OneDate
<1>4. CASE RunLost
  <2>1. recorded' = recorded /\ schedule' = schedule /\ copy' = NoCopies
    BY <1>4 DEF RunLost, StopSweep, stores
  <2>. QED
    BY <1>1, <2>1 DEF OneDate, KeepsItsDate, NoCopies
<1>5. ASSUME NEW i \in ScheduleIds, SkipSchedule(i) \/ ScheduleRunReturns(i) PROVE OneDate'
  <2>1. /\ SameLedger /\ copy[i] # NoRow /\ copy' = [copy EXCEPT ![i] = NoRow]
        /\ \E verdict \in {"skipped", "fired"} :
             schedule' = [schedule EXCEPT ![i] = [copy[i] EXCEPT !.status = verdict]]
    BY <1>1, <1>5, IdsAssumption
       DEF SkipSchedule, ScheduleRunReturns, AtRow, Done, ledger, SameLedger, IInv, TypeOK
  <2>2. copy[i] \in ScheduleRows
    BY <1>1, <2>1, CopyFacts
  <2>3. schedule'[i].due = copy[i].due /\ \A k \in ScheduleIds \ {i} : schedule'[k] = schedule[k]
    BY <2>1, <2>2 DEF IInv, TypeOK, ScheduleRows
  <2>4. \A k \in ScheduleIds : copy'[k] \in {copy[k], NoRow}
    BY <1>1, <2>1 DEF IInv, TypeOK
  <2>. QED
    BY <2>1, <2>3, <2>4, OneDateStays
<1>6. CASE StartSweep \/ ToSchedules
  <2>1. SameLedger /\ schedule' = schedule
    BY <1>6 DEF StartSweep, ToSchedules, stores, ledger, SameLedger
  <2>2. \A k \in ScheduleIds : copy'[k] \in {schedule[k], NoRow}
    BY <1>1, <1>6 DEF StartSweep, ToSchedules
  <2>. QED
    BY <2>1, <2>2, OneDateStays
<1>7. CASE EndSweep \/ \E i \in Ids : ScheduleWithoutTemplate(i)
  <2>1. SameLedger /\ schedule' = schedule /\ copy' = NoCopies
    BY <1>7 DEF EndSweep, ScheduleWithoutTemplate, StopSweep, stores, ledger, SameLedger
  <2>2. \A k \in ScheduleIds : copy'[k] = NoRow
    BY <1>1, <2>1 DEF NoCopies
  <2>. QED
    BY <2>1, <2>2, OneDateStays
<1>8. ASSUME NEW i \in RoutineIds, OrphanedRoutine(i) \/ RoutineRunReturns(i) PROVE OneDate'
  <2>1. SameLedger /\ schedule' = schedule /\ copy' = [copy EXCEPT ![i] = NoRow]
    BY <1>8 DEF OrphanedRoutine, RoutineRunReturns, Done, stores, ledger, SameLedger
  <2>2. \A k \in ScheduleIds : copy'[k] = copy[k]
    BY <1>1, <2>1 DEF IInv, TypeOK
  <2>. QED
    BY <2>1, <2>2, OneDateStays
<1>9. ASSUME NEW t \in Templates,
             RemoveRoutine(t) \/ RemoveSchedule(t) \/ DeleteTemplate(t)
               \/ \E set \in Settings : SetRoutine(t, set)
      PROVE  OneDate'
  <2>1. SameLedger /\ copy' = copy
    BY <1>9 DEF RemoveRoutine, RemoveSchedule, DeleteTemplate, SetRoutine, Edit, sweep, ledger,
                SameLedger
  <2>2. \A k \in ScheduleIds : schedule'[k] \in {schedule[k], NoRow}
    BY <1>9 DEF RemoveRoutine, RemoveSchedule, DeleteTemplate, SetRoutine, IInv, TypeOK
  <2>. QED
    BY <2>1, <2>2, OneDateStays
<1>10. CASE Tick \/ UNCHANGED vars
  <2>1. SameLedger /\ UNCHANGED <<schedule, copy>>
    BY <1>10 DEF Tick, vars, stores, sweep, ledger, SameLedger
  <2>. QED
    BY <2>1, OneDateStays
<1>11. CASE \E i \in Ids : OrphanedRoutine(i) \/ RoutineRunReturns(i)
  BY <1>8, <1>11 DEF OrphanedRoutine, RoutineRunReturns
<1>12. CASE \E i \in Ids : SkipSchedule(i) \/ ScheduleRunReturns(i)
  BY <1>5, <1>12 DEF SkipSchedule, ScheduleRunReturns
<1>13. CASE Operator
  BY <1>2, <1>9, <1>13 DEF Operator
<1>14. CASE Sweep
  BY <1>3, <1>6, <1>7, <1>11, <1>12, <1>14 DEF Sweep
<1>. QED
  BY <1>4, <1>10, <1>13, <1>14 DEF Next

\* The mapped state: what a step does to it, place by place.
Runs == [i \in Ids |-> [t \in Times |-> RunOf(i, t)]]

LEMMA RunFacts ==
  ASSUME IInv, NEW i \in Ids, NEW t \in Times
  PROVE  /\ RunOf(i, t) = "none" <=> ran[i][t] = 0
         /\ RunOf(i, t) = "awaited" <=> running = i /\ copy[i].due = t
         /\ RunOf(i, t) = "done" => ran[i][t] = 1 /\ ~(running = i /\ copy[i].due = t)
<1>1. running = i /\ copy[i].due = t => ran[i][t] = 1
  BY IdsAssumption DEF IInv, LedgerFits, Ids
<1>2. ran[i][t] \in {0, 1}
  BY LedgerFacts
<1>. QED
  BY <1>1, <1>2 DEF RunOf

LEMMA RunsStay ==
  ASSUME SameLedger, running' = running,
         running # Nobody => copy'[running] = copy[running],
         Nobody \notin Ids
  PROVE  Runs' = Runs
BY DEF Runs, RunOf, SameLedger

LEMMA OnePlaceChanges ==
  ASSUME NEW i \in Ids, NEW d \in Times, NEW v,
         \A k \in Ids, t \in Times :
           RunOf(k, t)' = IF k = i /\ t = d THEN v ELSE RunOf(k, t)
  PROVE  Runs' = [Runs EXCEPT ![i][d] = v]
BY DEF Runs

\* The three moves of a run, with what they need of the promise.
LEMMA StartIsFire ==
  ASSUME IInv, OneDate, NEW i \in Ids, StartRun(i)
  PROVE  Promise!Next
<1> DEFINE d == copy[i].due
<1>1. /\ copy[i] # NoRow /\ running = Nobody /\ running' = i /\ UNCHANGED <<clock, copy>>
      /\ ran' = [ran EXCEPT ![i][d] = @ + 1]
  BY DEF StartRun, AtRow
<1>2. /\ d \in Times /\ d <= clock /\ i # Nobody
      /\ \A k \in RoutineIds : k \notin ScheduleIds
  BY <1>1, CopyFacts, IdsAssumption DEF Ids
<1>3. \A k \in Ids, t \in Times : RunOf(k, t) # "awaited"
  BY <1>1, RunFacts, IdsAssumption DEF Ids
<1>4. ASSUME NEW t \in Times, ran[i][t] = 1 PROVE t < d
  <2>1. CASE i \in RoutineIds
    BY <1>1, <1>2, <1>4, <2>1 DEF IInv, RoutinesAhead, RanBefore
  <2>2. CASE i \in ScheduleIds
    <3>1. ran[i][d] = 0
      BY <1>1, <1>2, <2>2 DEF IInv, SchedulesTrue
    <3>2. t \in recorded[i]
      BY <1>4, LedgerFacts
    <3>. QED
      BY <1>1, <1>4, <2>2, <3>1, <3>2 DEF OneDate, KeepsItsDate
  <2>. QED
    BY <2>1, <2>2 DEF Ids
<1>5. RunOf(i, d) = "none" /\ ran[i][d] = 0 /\ d \in Int
  <2>1. ran[i][d] # 1
    BY <1>2, <1>4, BoundsAssumption DEF Times
  <2>. QED
    BY <1>2, <2>1, LedgerFacts, RunFacts, BoundsAssumption DEF Times
<1>6. \A k \in Ids, t \in Times : RunOf(k, t)' = IF k = i /\ t = d THEN "awaited" ELSE RunOf(k, t)
  <2>1. \A k \in Ids, t \in Times :
          ran'[k][t] = IF k = i /\ t = d THEN 1 ELSE ran[k][t]
    BY <1>1, <1>2, <1>5 DEF IInv, TypeOK
  <2> SUFFICES ASSUME NEW k \in Ids, NEW t \in Times
               PROVE  RunOf(k, t)' = IF k = i /\ t = d THEN "awaited" ELSE RunOf(k, t)
    OBVIOUS
  <2>3. CASE k = i /\ t = d
    BY <1>1, <1>2, <2>1, <2>3 DEF RunOf
  <2>4. CASE ~(k = i /\ t = d)
    BY <1>1, <1>2, <2>1, <2>4, IdsAssumption DEF RunOf, Ids
  <2>. QED
    BY <2>3, <2>4
<1>7. Runs' = [Runs EXCEPT ![i][d] = "awaited"]
  BY <1>2, <1>6, OnePlaceChanges
<1>8. \A before \in Times : RunOf(i, before) = "done" => before < d
  BY <1>4, RunFacts
<1>9. Promise!Fire(i, d)
  BY <1>1, <1>2, <1>3, <1>5, <1>7, <1>8 DEF Promise!Fire, Promise!NothingAwaited, Runs
<1>. QED
  BY <1>2, <1>9 DEF Promise!Next

LEMMA ReturnIsReturn ==
  ASSUME IInv, NEW i \in Ids, RoutineRunReturns(i) \/ ScheduleRunReturns(i)
  PROVE  Promise!Next
<1> DEFINE d == copy[i].due
<1>1. /\ running = i /\ running' = Nobody /\ SameLedger /\ UNCHANGED clock /\ copy[i] # NoRow
  BY IdsAssumption
     DEF RoutineRunReturns, ScheduleRunReturns, ledger, SameLedger, IInv, TypeOK, Ids
<1>2. d \in Times
  BY <1>1, CopyFacts
<1>3. RunOf(i, d) = "awaited" /\ ran[i][d] # 0
  BY <1>1, <1>2, RunFacts DEF RunOf
<1>4. \A k \in Ids, t \in Times : RunOf(k, t)' = IF k = i /\ t = d THEN "done" ELSE RunOf(k, t)
  BY <1>1, <1>3, IdsAssumption DEF RunOf, SameLedger, Ids
<1>5. Runs' = [Runs EXCEPT ![i][d] = "done"]
  BY <1>2, <1>4, OnePlaceChanges
<1>6. Promise!Return(i, d)
  BY <1>1, <1>2, <1>3, <1>5 DEF Promise!Return, Runs
<1>. QED
  BY <1>2, <1>6 DEF Promise!Next

LEMMA LostIsLose ==
  ASSUME IInv, RunLost
  PROVE  Promise!Next
<1> DEFINE i == running  d == copy[running].due
<1>1. /\ i \in Ids /\ running' = Nobody /\ UNCHANGED clock /\ copy[i] # NoRow
      /\ ran' = [ran EXCEPT ![i][d] = @ - 1]
  BY DEF RunLost, StopSweep, AbortRun, IInv, TypeOK
<1>2. d \in Times
  BY <1>1, CopyFacts
<1>3. RunOf(i, d) = "awaited" /\ ran[i][d] = 1
  BY <1>1, <1>2, RunFacts DEF RunOf, IInv, LedgerFits
<1>4. \A k \in Ids, t \in Times : RunOf(k, t)' = IF k = i /\ t = d THEN "none" ELSE RunOf(k, t)
  <2>1. \A k \in Ids, t \in Times :
          ran'[k][t] = IF k = i /\ t = d THEN 0 ELSE ran[k][t]
    BY <1>1, <1>2, <1>3 DEF IInv, TypeOK
  <2>. QED
    BY <1>1, <1>3, <2>1, IdsAssumption DEF RunOf, Ids
<1>5. Runs' = [Runs EXCEPT ![i][d] = "none"]
  BY <1>1, <1>2, <1>4, OnePlaceChanges
<1>6. Promise!Lose(i, d)
  BY <1>1, <1>2, <1>3, <1>5 DEF Promise!Lose, Runs
<1>. QED
  BY <1>1, <1>2, <1>6 DEF Promise!Next

LEMMA StepSimulation ==
  ASSUME IInv, IInv', OneDate, [Next]_vars
  PROVE  [Promise!Next]_(Promise!vars)
<1>0. Nobody \notin Ids
  BY IdsAssumption DEF Ids
<1>1. ASSUME clock' = clock, Runs' = Runs PROVE UNCHANGED Promise!vars
  BY <1>1 DEF Promise!vars, Runs
<1>2. ASSUME SameLedger, UNCHANGED <<running, copy>> PROVE Runs' = Runs
  BY <1>0, <1>2, RunsStay
<1>3. ASSUME SameLedger, running = Nobody, running' = Nobody PROVE Runs' = Runs
  BY <1>0, <1>3, RunsStay
<1>4. CASE Operator
  <2>1. SameLedger /\ UNCHANGED <<running, copy, clock>>
    BY <1>4 DEF Operator, RemoveRoutine, RemoveSchedule, DeleteTemplate, SetRoutine, SetSchedule,
                Edit, sweep, ledger, SameLedger
  <2>. QED
    BY <1>1, <1>2, <2>1
<1>5. CASE Tick
  <2>1. SameLedger /\ UNCHANGED <<running, copy>> /\ clock' = clock + 1 /\ clock' \in Times
    BY <1>5 DEF Tick, sweep, ledger, SameLedger, IInv, TypeOK
  <2>2. Promise!Tick
    BY <1>2, <2>1 DEF Promise!Tick, Runs
  <2>. QED
    BY <2>2 DEF Promise!Next
<1>6. CASE StartSweep \/ ToSchedules \/ EndSweep
           \/ \E i \in Ids : OrphanedRoutine(i) \/ SkipSchedule(i) \/ ScheduleWithoutTemplate(i)
  <2>1. SameLedger /\ clock' = clock
    BY <1>6 DEF StartSweep, ToSchedules, EndSweep, OrphanedRoutine, SkipSchedule,
                ScheduleWithoutTemplate, ledger, SameLedger
  <2>2. running = Nobody
    BY <1>6, NothingAwaited
       DEF StartSweep, ToSchedules, EndSweep, OrphanedRoutine, SkipSchedule,
           ScheduleWithoutTemplate, AtRow, IInv, CopiesFit
  <2>3. running' = Nobody
    BY <1>6, <2>2 DEF StartSweep, ToSchedules, EndSweep, OrphanedRoutine, SkipSchedule,
                      ScheduleWithoutTemplate, StopSweep
  <2>. QED
    BY <1>1, <1>3, <2>1, <2>2, <2>3
<1>7. CASE \E i \in Ids : StartRun(i)
  BY <1>7, StartIsFire
<1>8. CASE \E i \in Ids : RoutineRunReturns(i) \/ ScheduleRunReturns(i)
  BY <1>8, ReturnIsReturn
<1>9. CASE RunLost
  BY <1>9, LostIsLose
<1>10. CASE UNCHANGED vars
  <2>1. SameLedger /\ UNCHANGED <<running, copy, clock>>
    BY <1>10 DEF vars, sweep, ledger, SameLedger
  <2>. QED
    BY <1>1, <1>2, <2>1
<1>. QED
  BY <1>4, <1>5, <1>6, <1>7, <1>8, <1>9, <1>10 DEF Next, Sweep

\* fire_due implements OccurrenceRuns: runs go out one at a time, never early,
\* never twice for a date unless a run was lost, and for each binding in the
\* order of its dates, for any bindings, edits and grace, and any number of refusals.
THEOREM KeepsThePromise == Spec => RunsKeepThePromise
<1>1. Init => Promise!Init
  <2> SUFFICES ASSUME Init PROVE Promise!Init
    OBVIOUS
  <2>1. clock \in Times
    BY BoundsAssumption DEF Init, Times
  <2>2. \A i \in Ids, t \in Times : RunOf(i, t) = "none"
    BY DEF Init, RunOf
  <2>. QED
    BY <2>1, <2>2 DEF Promise!Init
<1>2. Init => OneDate
  <2> SUFFICES ASSUME Init PROVE OneDate
    OBVIOUS
  <2>1. \A i \in ScheduleIds : i \in Ids
    BY DEF Ids
  <2>. QED
    BY <2>1 DEF Init, OneDate, NoCopies
<1>3. Spec => []OneDate
  BY Inductive, OneDateStep, <1>2, PTL DEF Spec
<1>4. IInv /\ IInv' /\ OneDate /\ [Next]_vars => [Promise!Next]_(Promise!vars)
  BY StepSimulation
<1>. QED
  BY Inductive, <1>1, <1>3, <1>4, PTL DEF Spec, RunsKeepThePromise, Promise!Spec
=============================================================================
