--------------------------- MODULE BufferAllocatorWindows ------------------------
(***************************************************************************)
(* allocate_windows (internal/buffer_allocator_windows.rs): the address    *)
(* space is walked region by region with VirtualQuery, and in the end once *)
(* more in steps of the allocation granularity.                            *)
(***************************************************************************)
EXTENDS BufferAllocator

\* ProcessHandle::open_process, which fails or not.
OpenProcess ==
  /\ os = "windows"
  /\ call.at = "open"
  /\ \/ /\ call' = [call EXCEPT !.at = "pass"]
        /\ UNCHANGED quiet
     \/ /\ call' = [call EXCEPT !.at = "error"]
        /\ quiet' = FALSE
  /\ UNCHANGED <<os, memory, env>>

StartWalk == os = "windows" /\ BeginPass({})

\* VirtualQuery answers for the page that holds the address and the pages behind
\* it that are in the same state.
SameState(p, q) == \A n \in p .. q : n \in Mapped <=> p \in Mapped

RegionEnd(p) ==
  1 + CHOOSE q \in p .. NumPages - 1 :
        SameState(p, q) /\ (q = NumPages - 1 \/ ~SameState(p, q + 1))

\* [Mutant] one page short.
RegionSizeShort(p) == (RegionEnd(p) - p - 1) * PageSize

RegionSize(p) == (RegionEnd(p) - p) * PageSize

\* One VirtualQuery.  The last pass is the one by brute force.
WindowsRegion ==
  /\ os = "windows"
  /\ call.at = "region"
  /\ LET p == call.current \div PageSize
     IN  call' = IF call.current > Limit \/ p \notin Pages
                   THEN [call EXCEPT !.at = "pass"]
                   ELSE [call EXCEPT !.at = "map",
                           !.candidates = IF p \in Mapped THEN <<>>
                              ELSE PlacesIn(p * PageSize, p * PageSize + RegionSize(p)),
                           !.current = @ + (IF call.tries <= RetryCount
                                              THEN RegionSize(p)
                                              ELSE AllocationGranularity)]
  /\ UNCHANGED <<os, memory, history>>

WindowsStep == OpenProcess \/ StartWalk \/ WindowsRegion
=============================================================================
