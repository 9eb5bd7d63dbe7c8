\* Lengths that leave 0, 1 and 2 bytes over, twice; bytes with all bits clear, all
\* set, and alternating.
CONSTANTS
  Bytes = {0, 90, 165, 255}
  MaxLen = 5
SPECIFICATION Spec
INVARIANTS
  TypeOK
  EncodesBits
  OnlyNulExceeds
  DecodesBytes
CHECK_DEADLOCK FALSE
