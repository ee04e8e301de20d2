CONSTANTS
  PoolPbufs = {1, 2}
  RefPbufs = {3}
  CustomPbufs = {4}
  HeapPbufs = {5}
  BUFSIZE = 2
  MEM_ALIGNMENT = 1
  SIZEOF_STRUCT_PBUF = 1
  U16 = 5
  Layers = {1}
  Lengths = {2, 4}
  Headers = {1}
  MaxHandles = 2
  MaxUsed = 2
  NULL = NULL
  BASE = 5
  ByteValues = {0, 4}
SPECIFICATION PbufSpec
INVARIANT ReferencesExact
INVARIANT ChainLengths
INVARIANT ReadsTrue
INVARIANT CopiesTrue
INVARIANT ChecksumTrue
