CONSTANTS
  w1 = w1  w2 = w2  w3 = w3
  a1 = a1
  Workspaces = {w1, w2, w3}
  Agents = {a1}
  MaxWorkspaces = 2
  Window = 3
  GlobalLimit <- MCGlobalLimit
  ShareLimit <- MCShareLimit
  MaxGap = 2
  MaxTime = 5
SYMMETRY MCSymmetry
SPECIFICATION Spec
INVARIANTS ServiceCeiling ShareUnlessForgotten RowsAreCharges
CHECK_DEADLOCK FALSE
