\* A reg of up to eight cells; more than two cells are not supported.
CONSTANTS
  Magic = 1
  SpecVersion = 1
  Totals = {18, 40}
  Blobs <- MCBlobs
  CellBytes = 1
  MaxBytes = 8
  MaxCells = 3
  Trees <- MCTrees
  NotParsed = NotParsed
  Refused = Refused
SPECIFICATION SetupSpec
INVARIANTS
  DescribedWhole
  PanicsOnBadInput
PROPERTIES
  EndsUnlessEndless
