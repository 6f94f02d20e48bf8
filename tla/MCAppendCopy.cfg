SPECIFICATION Spec
CONSTANTS
  t1 = t1
  h0 = h0
  Threads = {t1}
  Headers = {h0}
  Root = h0
  NoHeader = NoHeader
  Wild = Wild
  HeaderAddress <- MCHeaderAddress
  MaxItemCount = 2
  HeaderLength = 2
  ChunkLength = 6
  Granularity = 8
  Requests <- MCRequests
  HeapContents = {}
  PointerSize = 2
  MaxPosition = 20
  AllocateMayPanic = FALSE
  StoresInOrder = FALSE
  UsizeMax = 63
  U32 = 64
INVARIANT PromisedSpaceAlways
