\* Pages 3..9: one page below a block of order 2, half a block above it.
CONSTANTS
  Offset = 3
  Pages = 7
  MaxOrder = 2
  Size <- MCSize
SPECIFICATION Spec
INVARIANTS
  Disjoint
  UnlinkSafe
  NoFreeBuddies
  Coalesced
PROPERTIES
  ImplementsPages
  CallsReturn
