\* Five addresses, three ranges, pages of two addresses.
CONSTANTS
  Limit = 5
  Capacity = 3
  PageSize = 2
SPECIFICATION Spec
INVARIANTS
  Ordered
  CoverKept
  AllocatedReserved
  AllocationComplete
PROPERTIES
  StatusFrame
  LeavesCanonical
