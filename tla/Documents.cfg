CONSTANTS
  alice = alice  bob = bob
  tenant = tenant
  r1 = r1  r2 = r2
  d1 = d1  d2 = d2
  Owners = {alice, bob}
  Organization <- MCOrganization
  Managers = {bob}
  Legacy = Legacy
  Runs = {r1, r2}
  Docs = {d1, d2}
  NoDoc = NoDoc
  Nobody = Nobody
  MaxTime = 3
SPECIFICATION Spec
INVARIANTS ContentStaysWithOwner BookedIsInLedger
PROPERTY ImplementsRetention
CHECK_DEADLOCK FALSE
