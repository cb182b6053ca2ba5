CONSTANTS
  solver = solver  extractor = extractor  auditor = auditor
  reconciler = reconciler  dispute = dispute
  r1 = r1  r2 = r2
  Runs = {r1, r2}
  Agents <- MCAgents
  Tools <- MCTools
  Scope <- MCScope
  Asking = {"send_external_email"}
  Denied = {}
  TemplatePlans <- MCTemplatePlans
  InvoicePlans <- MCInvoicePlans
  ScreenedAgent = extractor
  MaxCrashes = 1
  StoreMayFail = FALSE
SPECIFICATION FairSpec
INVARIANTS ActiveRunOwnsTask NoOrphanedRun OpenLogIsLive TicketMatchesTask
PROPERTIES ScopeQuarantineIsExclusive ImplementsLifecycle RunsSettle
CHECK_DEADLOCK FALSE
