SPECIFICATION Spec
CONSTANTS
  t1 = t1
  t2 = t2
  h0 = h0
  h1 = h1
  h2 = h2
  Threads = {t1, t2}
  Headers = {h0, h1}
  Root = h0
  NoHeader = NoHeader
  Wild = Wild
  HeaderAddress <- MCHeaderAddress
  MaxItemCount = 1
  HeaderLength = 2
  ChunkLength = 2
  Granularity = 2
  Requests <- MCTwoRequests
  HeapContents <- MCZeroedHeap
  PointerSize = 1
  MaxPosition = 1
  AllocateMayPanic = FALSE
  StoresInOrder = TRUE
  UsizeMax = 15
  U32 = 16
SYMMETRY Symmetry
INVARIANT EnteredWhenReady
