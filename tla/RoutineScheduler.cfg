CONSTANTS
  t1 = t1  t2 = t2
  b1 = b1
  s1 = s1  s2 = s2
  NoRow = NoRow
  Nobody = Nobody
  Templates = {t1, t2}
  RoutineIds = {b1}
  ScheduleIds = {s1, s2}
  Settings <- MCSettings
  Slots <- MCSlots
  Grace = 1
  MaxTime = 3
  MaxEdits = 4
SPECIFICATION FairSpec
INVARIANTS AtMostOnePending RefiresOnlyAfterTrouble ScheduleStatusTellsTruth CatchUpMissesNothing
PROPERTY RunsKeepThePromise DueIsDealtWith
CHECK_DEADLOCK FALSE
