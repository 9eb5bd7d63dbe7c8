CONSTANTS
  Client = {c1, c2}
  Ctrl = ctrl
  NULL = NULL
SPECIFICATION FairSpec
INVARIANTS
  TypeOK
  PayloadIsOneRead
  NullOnlyAfterRefusal
PROPERTIES
  TelemetryGoesOn
  ImplementsControl
