CONSTANTS
  v1 = v1  v2 = v2
  Viewers = {v1, v2}
  Closed = Closed
  Retained = 2
  MaxBurst = 2
  MaxLines = 5
SPECIFICATION FairConsoleSpec
INVARIANTS SeenIsGapless NothingMissedWhileOpen LetGoWithWholeLog
PROPERTY ConsolesAreLetGo
CHECK_DEADLOCK FALSE
