CONSTANTS
  clerk = clerk  manager = manager  guest = guest
  demo = demo  elsewhere = elsewhere  legacy = legacy
  finance = finance
  vendor = vendor
  plain = plain  upper = upper  other = other
  l1 = l1
  Users = {clerk, manager, guest}
  Organizations = {demo, elsewhere, legacy}
  Default = demo
  LegacyOrganization = legacy
  Organization <- MCOrganization
  NoDepartment = NoDepartment
  Departments = {finance, NoDepartment}
  Department <- MCDepartment
  DepartmentManagers = {manager}
  OrganizationManagers = {manager, guest}
  Nobody = Nobody
  Spellings = {plain, upper, other}
  Address <- MCAddress
  SeedIds = {vendor}
  NoSeed = NoSeed
  SeedSpelling <- MCSeedSpelling
  Letters = {l1}
  MaxContacts = 3
SPECIFICATION Spec
INVARIANTS ObjectionIsPermanent LetterOnlyIfClear
