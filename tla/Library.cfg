CONSTANTS
  writer = writer  editor = editor
  tenant = tenant  elsewhere = elsewhere  team = team
  lib = lib  held = held  audit = audit
  n1 = n1  n2 = n2  t1 = t1  t2 = t2
  Principals = {writer, editor}
  System = System  Legacy = Legacy
  Organization <- MCOrganization
  NoDepartment = NoDepartment
  Departments = {team, NoDepartment}
  Department <- MCDepartment
  Editors = {editor}
  Publishers = {}
  Named = {}
  Visibilities = {"private"}
  Prompts = {lib, held}
  Skills = {audit}
  SeedText <- MCSeedText
  Held <- MCHeld
  Bundled = {audit}
  Fallback = {}
  Numbers = {n1, n2}
  FirstNumber = n1
  Texts = {t1, t2}
  NoRow = NoRow
  MaxClock = 2
  s1 = s1  c1 = c1  c2 = c2  tp = tp
  Sessions = {s1}
  Calls = {c1, c2}
  NoPrompt = NoPrompt  Latest = Latest
  Selections <- MCSelections
  NoSession = NoSession  NoText = NoText
  Templates = {tp}
  StepLists <- MCStepLists
  guest = guest
  Sharings <- MCSharings
  Names = {writer, editor, guest}
  LongNames = {guest}
  MaxReaders = 1
SYMMETRY MCSymmetry
SPECIFICATION Spec
INVARIANTS TemplateRefsResolve PinnedTextStands ActiveIsNewest LostOnlyToOverlap SharingStands
PROPERTY StartKeepsTexts
