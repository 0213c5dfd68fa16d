SPECIFICATION Spec
CONSTANTS
  MemBase = 8
  MemSize = 24
  PHYS_ADDR_MAX = 47
  PAGE_SIZE = 8
  RegionSize = 2
  INIT_MEMBLOCK_REGIONS = 2
  Bases = {0, 8, 12, 16, 24}
  Sizes = {5, 8}
  Aligns = {1, 8}
  MaxRegions = 5
INVARIANTS Minimal ReservedExact CountsFit FindsRoom
