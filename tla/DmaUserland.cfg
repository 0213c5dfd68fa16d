SPECIFICATION MainSpec
CONSTANTS
  M = 7
  DMA_BASE = 1
  DMA_SIZE = 3
  Data = {empty, fw, hello, bye}
  Empty = empty
  FW = fw
  Messages = {hello, bye}
  MSI = TRUE
  Main = main
  Procs = {main}
  Requests = {}
  dma_addr = 3
  buffer_size = 2
  Waits = TRUE
INVARIANT StringArrives
INVARIANT FinishMeansOver
INVARIANT PrintsFirmware
