SPECIFICATION SpecC
CONSTANTS
  t1 = t1
  t2 = t2
  h0 = h0
  Unused = Unused
  Nobody = Nobody
  Threads = {t1, t2}
  Headers = {h0}
  Root = h0
  NoHeader = NoHeader
  Wild = Wild
  HeaderAddress <- MCHeaderAddress
  MaxItemCount = 2
  HeaderLength = 1
  ChunkLength = 3
  Granularity = 4
  Requests <- MCRequests
  HeapContents = {}
  PointerSize = 1
  MaxPosition = 4
  AllocateMayPanic = TRUE
  StoresInOrder = TRUE
  UsizeMax = 31
  U32 = 32
SYMMETRY Symmetry
INVARIANTS
  TakenIffOwned
  GrantInRange
  PromisedSpace
  AlignedGrant
  NeverOverwritten
  CheckedUnderLock
PROPERTIES
  ItemsNeverMove
  ImplementsSharedBuffers
CHECK_DEADLOCK FALSE
