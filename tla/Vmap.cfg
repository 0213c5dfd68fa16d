SPECIFICATION Spec
CONSTANTS
  VMALLOC_END = 9
  Requests = {1, 2, 3}
  Frames = {f1, f2, f3, f4}
  NoFrame = NoFrame
  PTRS_PER_PTE = 4
INVARIANTS Disjoint CacheSound NoSpaceMissed Owned Settled
PROPERTY CallReturns
