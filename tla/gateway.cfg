\* Two client tasks, which can meet in the start of the session and in stop.
CONSTANTS
  Client = {c1, c2}
  Ctrl = ctrl
  NULL = NULL
SPECIFICATION FairSpec
INVARIANTS
  TypeOK
  TokensAfterTime
  OrderlyTeardown
PROPERTIES
  RestartCompletes
  TelemetryReturns
