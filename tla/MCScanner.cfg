\* Numbers of two and four bytes.
CONSTANTS
  Cell = 2
  MaxLength = 5
  Datas <- MCDatas
  Sizes = {0, 1, 3, 7}
  Alignments = {0, 1, 2, 3, 4}
  MaxReads = 4
SPECIFICATION ScanSpec
INVARIANTS
  ReadsWhole
