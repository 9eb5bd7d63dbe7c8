\* One client and ctrl_tsk, without symmetry (unsound for liveness).
CONSTANTS
  Client = {c1}
  Ctrl = ctrl
  Block = {b1, b2, b3}
  NULL = NULL
SPECIFICATION FairSpec
PROPERTY WifiLossReboots
