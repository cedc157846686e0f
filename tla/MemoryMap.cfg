\* Four addresses; sums of five bits' worth wrap around at eight.
CONSTANTS
  Limit = 4
  Word = 8
  Aligns = {1, 2}
  MaxSize = 5
  NoMemory = NoMemory
SPECIFICATION MapSpec
INVARIANTS
  MapsCanonical
  ZonesCoverMemory
  AllocationComplete
PROPERTIES
  ImplementsBook
