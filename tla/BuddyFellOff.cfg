SPECIFICATION Spec
CONSTANTS
  MAX_ORDER = 4
  Pow2 <- MCPow2
  NrPages = 8
  BATCH_SIZE = 2
  HIGH_FACTOR = 2
  StalePage <- ZeroPage
  FellOff = "register"
INVARIANT NoOverlap
