\* Pages 3..9: one page below a block of level 2, and half a block above it.
CONSTANTS
  Offset = 3
  Pages = 7
  MaxOrder = 2
  Size <- MCSize
  null = null
SPECIFICATION Spec
INVARIANTS
  RemoveSafe
  BlocksSound
  AllocationComplete
PROPERTIES
  ImplementsPages
  ImplementsLists
  CallsReturn
