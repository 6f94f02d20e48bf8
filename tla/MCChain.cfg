SPECIFICATION FairSpec
CONSTANTS
  t1 = t1
  t2 = t2
  h0 = h0
  h1 = h1
  h2 = h2
  Threads = {t1, t2}
  Headers = {h0, h1, h2}
  Root = h0
  NoHeader = NoHeader
  Wild = Wild
  HeaderAddress <- MCHeaderAddress
  MaxItemCount = 2
  HeaderLength = 1
  ChunkLength = 1
  Granularity = 2
  Requests <- MCRequests
  HeapContents <- MCHeapContents
  PointerSize = 1
  MaxPosition = 2
  AllocateMayPanic = TRUE
  StoresInOrder = TRUE
  UsizeMax = 15
  U32 = 16
INVARIANTS
  TypeOK
  ExclusiveUse
  HeaderLockExcludes
  NoMemoryError
  ChainComplete
PROPERTIES
  LockReleased
  NoLivelock
