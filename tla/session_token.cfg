CONSTANTS
  Client = {c1, c2}
  Ctrl = ctrl
  Block = {b1, b2, b3}
  NULL = NULL
SYMMETRY Symmetry
SPECIFICATION Spec
INVARIANT SuccessMeansToken
