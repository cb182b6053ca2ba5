CONSTANTS
  u1 = u1  u2 = u2  u3 = u3
  o1 = o1  unassigned = unassigned
  administrator = administrator  viewer = viewer  custom = custom
  Users = {u1, u2, u3}
  Seeded = {u1}
  Organizations = {o1, unassigned}
  Profiles = {administrator, viewer, custom}
  Administrator = administrator
  Viewer = viewer
  FirstAdmin = u1
  Home = o1
  Unassigned = unassigned
  Global = Global
  Absent = Absent
SYMMETRY Newcomers
SPECIFICATION UsersSpec
INVARIANTS UserProfileFits
PROPERTIES KeepsAnAdministrator TombstonesAreFinal
CHECK_DEADLOCK FALSE
