CONSTANTS
  Cores = {c0, c1}
  MasterCore = c1
  Capacity = 3
  UsePChar = TRUE
  Chars = {x, y}
  NoChar = nul
  MaxSent = 5
SPECIFICATION InputSpec
CHECK_DEADLOCK FALSE
SYMMETRY CharSymmetry
INVARIANT WindowSound
PROPERTY ImplementsByteStream
