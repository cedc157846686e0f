\* Pages of four units; a page array of n pages takes n units.
CONSTANTS
  Word = 64
  PageSize = 4
  PageBytes = 1
  ZoneBytes = 1
  MaxOrder = 1
  MaxHeld = 2
  Size <- MCSize
  ReservedPoints = {0, 7, 12, 20, 41, 42, 49}
  BootPoints = {0, 6, 8, 24, 36, 52}
  Inputs <- MCInputs
SPECIFICATION Spec
INVARIANTS
  HandsOutOwnMemory
  ReleasedOnce
  NothingLost
PROPERTIES
  EnoughMemoryBoots
