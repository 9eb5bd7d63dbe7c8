CONSTANTS
  Bytes = {0, 90, 165, 255}
  MaxLen = 5
SPECIFICATION Spec
INVARIANT EncodedDecodes
CHECK_DEADLOCK FALSE
