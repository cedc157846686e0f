\* Pages 0..7: a whole block of order 3, so Split and Unite go three deep.
CONSTANTS
  Offset = 0
  Pages = 8
  MaxOrder = 3
  Size <- MCSize
SPECIFICATION Spec
INVARIANTS
  ZoneInv
