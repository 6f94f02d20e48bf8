---------------------------- MODULE BufferAllocatorLinux -------------------------
(***************************************************************************)
(* allocate_linux (internal/buffer_allocator_linux.rs): every pass reads   *)
(* /proc/self/maps (utilities/linux_map_parser.rs) and tries its gaps.     *)
(***************************************************************************)
EXTENDS BufferAllocator

\* get_free_regions_from_process_id: /proc/self/maps lists the mapped regions in
\* order of address.  Adjacent regions leave no gap, so one per page will do.
FreeRegionsOf(mapped) ==
  FreeRegions({AddressRange(p * PageSize, (p + 1) * PageSize) : p \in mapped}, MaxAddress)

ReadMap == os = "linux" /\ BeginPass(FreeRegionsOf(Mapped))

\* read_to_string panics if the file cannot be opened or read.
ReadMapPanics ==
  /\ os = "linux"
  /\ call.at = "pass"
  /\ call.tries < Passes
  /\ call' = NoCall
  /\ UNCHANGED <<os, memory, history>>

\* The next region in order of address, unless there is none or it starts behind the
\* request.
LinuxRegion ==
  /\ os = "linux"
  /\ call.at = "region"
  /\ \/ /\ \A r \in call.regions : r.start > call.max
        /\ call' = [call EXCEPT !.at = "pass", !.regions = {}]
     \/ \E r \in call.regions :
          /\ r.start <= call.max
          /\ \A s \in call.regions : r.start <= s.start
          /\ call' = [call EXCEPT !.at = "map", !.regions = @ \ {r},
                                  !.candidates = PlacesIn(r.start, r.end)]
  /\ UNCHANGED <<os, memory, history>>

\* A kernel that ignores MAP_FIXED_NOREPLACE takes the address as a hint.
MapElsewhere(base) ==
  /\ os = "linux"
  /\ ~FixedNoReplace
  /\ Trying
  /\ ~IsFree(Wanted)
  /\ base % PageSize = 0
  /\ IsFree(PagesOf(base, call.size))
  /\ ours' = ours \cup PagesOf(base, call.size)
  /\ call' = [call EXCEPT !.at = "unmap", !.candidates = Tail(@),
                          !.stray = PagesOf(base, call.size)]
  /\ UNCHANGED <<os, others, history>>

LinuxStep ==
  \/ ReadMap
  \/ ReadMapPanics
  \/ LinuxRegion
  \/ \E base \in 0 .. MaxAddress : MapElsewhere(base)
=============================================================================
