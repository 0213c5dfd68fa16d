SPECIFICATION Spec
CONSTANTS
  M = 7
  DMA_BASE = 1
  DMA_SIZE = 3
  Data = {empty, hello}
  Empty = empty
  FW = empty
  Hello = hello
  MSI = TRUE
  Procs = {p}
  Requests <- AnyRequest
  dma_addr = 3
  buffer_size = 2
  Waits = TRUE
CHECK_DEADLOCK FALSE
INVARIANT RestUntouched
INVARIANT AbortsOnlyAtEdge
PROPERTY ImplementsDmaTransfer
