CONSTANTS
  MaxTime = 40
  Change = 8
  Zones <- MCZones
  Specs <- MCSpecs
  Day = 24
  Days = 2
  Never = Never
SPECIFICATION Spec
INVARIANTS NextIsStrictlyAfter
CHECK_DEADLOCK FALSE
