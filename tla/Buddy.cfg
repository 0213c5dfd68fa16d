SPECIFICATION FairSpec
CONSTANTS
  MAX_ORDER = 4
  Pow2 <- MCPow2
  NrPages = 8
  BATCH_SIZE = 2
  HIGH_FACTOR = 2
  StalePage <- ZeroPage
  FellOff = "zero"
INVARIANT Partition
INVARIANT Marks
INVARIANT Coalesced
INVARIANT CountsAgree
INVARIANT PcpBelowHigh
INVARIANT Restored
PROPERTY NullMeansFull
PROPERTY ImplementsPageAllocator
PROPERTY CallReturns
