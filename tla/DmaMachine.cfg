SPECIFICATION FairSpec
CONSTANTS
  M = 5
  DMA_BASE = 1
  DMA_SIZE = 3
  Data = {s}
  Empty = s
  FW = s
  MSI = FALSE
CHECK_DEADLOCK FALSE
INVARIANT LineFollowsStatus
PROPERTY DescriptorFrozen
PROPERTY TransferEnds
PROPERTY UninitReturns
