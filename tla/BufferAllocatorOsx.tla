----------------------------- MODULE BufferAllocatorOsx --------------------------
(***************************************************************************)
(* allocate_osx (internal/buffer_allocator_osx.rs): mach_vm_region finds   *)
(* the next mapped region, and the gap in front of it is tried.            *)
(***************************************************************************)
EXTENDS BufferAllocator

StartRegions == os = "macos" /\ BeginPass({})

\* Pages mapped at or behind an address.
MappedFrom(address) == {p \in Mapped : (p + 1) * PageSize > address}

\* The region mach_vm_region returns: the first of these pages and the mapped
\* pages behind it.
FirstOf(pages) == CHOOSE p \in pages : \A q \in pages : p <= q

EndOf(pages) ==
  1 + CHOOSE q \in pages :
        /\ FirstOf(pages) .. q \subseteq pages
        /\ q + 1 \notin pages

\* One mach_vm_region.  With no region left (KERN_INVALID_ADDRESS) the rest up
\* to the limit is the last gap, and the pass is over after it.
OsxRegion ==
  /\ os = "macos"
  /\ call.at = "region"
  /\ LET rest == MappedFrom(call.current)
         gapEnd == IF rest = {} THEN Limit ELSE FirstOf(rest) * PageSize
     IN  call' = IF call.current > Limit
                   THEN [call EXCEPT !.at = "pass"]
                   ELSE [call EXCEPT !.at = "map",
                           !.candidates = IF gapEnd > call.current
                                            THEN PlacesIn(call.current, gapEnd)
                                            ELSE <<>>,
                           !.current = IF rest = {} THEN Limit + 1
                                                    ELSE EndOf(rest) * PageSize]
  /\ UNCHANGED <<os, memory, history>>

\* mach_vm_region fails in another way: the rest of the pass is given up.
OsxRegionFails ==
  /\ os = "macos"
  /\ call.at = "region"
  /\ call.current <= Limit
  /\ call' = [call EXCEPT !.at = "pass"]
  /\ quiet' = FALSE
  /\ UNCHANGED <<os, memory, env>>

\* mach_vm_protect succeeds, or fails and the block is given back.
Protect ==
  /\ os = "macos"
  /\ call.at = "protect"
  /\ \/ /\ call' = [call EXCEPT !.at = "ok", !.result = Head(call.candidates),
                                !.stray = {}]
        /\ UNCHANGED quiet
     \/ /\ call' = [call EXCEPT !.at = "unmap", !.candidates = Tail(@)]
        /\ quiet' = FALSE
  /\ UNCHANGED <<os, memory, env>>

\* mach_vm_allocate and mach_vm_protect of nothing succeed, at address 0.
MapNothing ==
  /\ os = "macos"
  /\ Trying
  /\ call.size = 0
  /\ call' = [call EXCEPT !.at = "ok", !.result = 0]
  /\ UNCHANGED <<os, memory, history>>

OsxStep == StartRegions \/ OsxRegion \/ OsxRegionFails \/ Protect \/ MapNothing
=============================================================================
