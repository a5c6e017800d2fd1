SPECIFICATION Spec
CONSTANTS
  Clients = {c1, c2}
  Size = 32
  Align = 2
  Hdr = 4
  Block = 4
  Word = 64
  Requests = {0, 3, 6, 61, 63}
SYMMETRY ClientSymmetry
CHECK_DEADLOCK FALSE
INVARIANTS Tiled NoFalseShortage HeldBlocks OverheadEnough
