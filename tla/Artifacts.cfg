CONSTANTS
  a1 = a1  a2 = a2  a3 = a3
  Artifacts = {a1, a2, a3}
  alice = alice  bob = bob
  Creators = {alice, bob}
  report = report  letter = letter
  Contents = {report, letter}
  Erased = Erased
  NoRow = NoRow
  MaxTime = 3
  MaxFaults = 2
SYMMETRY Interchangeable
SPECIFICATION Spec
INVARIANTS LiveHasBytes StoredOnceOnly
PROPERTY ErasureIsOrderly
CHECK_DEADLOCK FALSE
