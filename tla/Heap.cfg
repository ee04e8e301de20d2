SPECIFICATION Spec
CONSTANTS
  MEM_SIZE_ALIGNED = 32
  MEM_ALIGNMENT = 2
  SIZEOF_STRUCT_MEM = 2
  MIN_SIZE_ALIGNED = 4
  MEM_SIZE_T = 64
  Sizes = {0, 1, 6, 9, 62, 63}
  MaxOwned = 5
INVARIANTS Linked LfreeLowest
PROPERTY AllocatorSpec
