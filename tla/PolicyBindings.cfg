CONSTANTS
  administrator = administrator  operator = operator  member = member
  organization = organization  b1 = b1  b2 = b2
  Actors <- MCActors
  Policies <- MCPolicies
  Bindings = {b1, b2}
  Nobody = Nobody
  Targets = {"agent"}
  MaxTickets = 3
  MaxInterruptions = 1
SYMMETRY BindingSymmetry
SPECIFICATION Spec
INVARIANTS DecisionIsCarriedOut ForceNeedsApproval
PROPERTIES EndedIsFinal
CHECK_DEADLOCK FALSE
