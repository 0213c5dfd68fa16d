SPECIFICATION Spec
CONSTANTS
  BLOCK_BITS = 4
  NrBlocks = 3
  StartBits = 1
  EndBits = 3
  UnitSize = 48
  Requests = {1, 2, 3, 6, 12}
  Aligns = {1, 2, 4}
INVARIANTS AreasExact BlocksExact FitMeansArea HintCoversBlocks SpinsWithoutRoom
CHECK_DEADLOCK FALSE
