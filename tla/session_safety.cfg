\* Two clients and ctrl_tsk: three threads that can meet in mqtt_app_start.
CONSTANTS
  Client = {c1, c2}
  Ctrl = ctrl
  Block = {b1, b2, b3}
  NULL = NULL
SYMMETRY Symmetry
SPECIFICATION Spec
INVARIANTS
  TypeOK
  SerialHeapSafe
  SerialNoLeak
  SerialToken
  SerialNoOrphan
  ConnectedIsReal
  SoleClientAgreement
PROPERTY ImplementsSession
