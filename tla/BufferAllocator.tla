------------------------------ MODULE BufferAllocator ----------------------------
(***************************************************************************)
(* Allocating a buffer between two addresses: internal/buffer_allocator.rs *)
(* (allocate) and what the allocators of the three systems have in common. *)
(* BufferAllocatorLinux, BufferAllocatorWindows and BufferAllocatorOsx add *)
(* how each of them walks the memory of the process and asks for a place;  *)
(* PrivateAllocation puts them together.                                   *)
(*                                                                         *)
(* Memory is a set of pages; addresses are bytes.  By the time a gap is    *)
(* tried other threads may have mapped something there.                    *)
(***************************************************************************)
EXTENDS AddressMath, FiniteSets

CONSTANTS PageSize,           \* the page size
          WindowsGranularity, \* Windows places allocations at multiples of this
          NumPages,           \* pages of user memory
          MaxAddress,         \* Cached.max_address
          AllocRequests,      \* [size, min, max, brute_force] of the calls made
          RetryCount,         \* BufferAllocatorSettings.retry_count
          EnvSteps,           \* bound on what other threads map and unmap
          FixedNoReplace,     \* Linux knows MAP_FIXED_NOREPLACE (4.17)
          Systems             \* operating systems looked at

ASSUME AllocatorAssumption ==
  /\ PageSize \in Nat \ {0}
  /\ WindowsGranularity \in Nat \ {0} /\ WindowsGranularity % PageSize = 0
  /\ NumPages \in Nat /\ NumPages * PageSize <= UsizeMax
  /\ MaxAddress \in Nat
  /\ \A g \in {PageSize, WindowsGranularity} : U32 % g = 0 /\ (UsizeMax + 1) % g = 0
  /\ AllocRequests \subseteq [size : 0 .. U32 - 1, min : 0 .. UsizeMax, max : 0 .. UsizeMax,
                              brute_force : BOOLEAN]
  /\ RetryCount \in Nat
  /\ EnvSteps \in Nat
  /\ FixedNoReplace \in BOOLEAN
  /\ Systems \subseteq {"linux", "windows", "macos"}

VARIABLES os,      \* the operating system
          others,  \* pages mapped by the rest of the process
          ours,    \* pages mapped by the library
          call,    \* the call of allocate under way, see NoCall
          env,     \* steps taken by others
          quiet    \* history: nobody interfered and the system refused nothing
                   \* since the call began

memory == <<others, ours>>
history == <<env, quiet>>

-----------------------------------------------------------------------------
Pages == 0 .. NumPages - 1

PagesOf(base, size) ==
  (base \div PageSize) .. ((base + size - 1) \div PageSize)

Mapped == others \cup ours

\* The system maps only what is free, never page 0 and never nothing.
IsFree(pages) == pages # {} /\ pages \subseteq Pages \ (Mapped \cup {0})

\* Cached.allocation_granularity
AllocationGranularity == IF os = "windows" THEN WindowsGranularity ELSE PageSize

\* at: where allocate is; wanted, size, min, max, brute_force: the settings, size
\* as asked for and as sanitized; tries: passes begun; regions: free regions of
\* the map Linux read, yet to be tried; current: current_address on the others;
\* candidates: addresses of this region yet to be tried; stray: pages to be given
\* back; result: base address of the buffer.
NoCall == [at |-> "idle", wanted |-> 0, size |-> 0, min |-> 0, max |-> 0,
           brute_force |-> FALSE, tries |-> 0, regions |-> {}, current |-> 0,
           candidates |-> <<>>, stray |-> {}, result |-> 0]

AllocInit ==
  /\ os \in Systems
  /\ others \in SUBSET (Pages \ {0})
  /\ ours = {}
  /\ call = NoCall
  /\ env = 0
  /\ quiet = TRUE

\* allocate: sanitize, then the system's allocator.
Allocate(r) ==
  /\ call.at = "idle"
  /\ call' = [NoCall EXCEPT
       !.at = IF os = "windows" THEN "open" ELSE "pass",
       !.wanted = r.size,
       !.size = SanitizedSize(r.size, AllocationGranularity),
       !.min = SanitizedMin(r.min, AllocationGranularity, os = "windows"),
       !.max = r.max,
       !.brute_force = r.brute_force]
  /\ quiet' = TRUE
  /\ UNCHANGED <<os, memory, env>>

\* What the walk may not pass: min(sys_info.max_address, settings.max_address).
Limit == Smaller(MaxAddress, call.max)

\* Where a buffer can go inside a free region.
PlacesIn(first, last) ==
  GetPossibleBufferAddresses(call.min, call.max, AddressRange(first, last),
                             call.size, AllocationGranularity)

\* The retry loop, and on Windows one more pass by brute force.
Passes == RetryCount + (IF os = "windows" /\ call.brute_force THEN 1 ELSE 0)

\* A pass begins; Linux reads the memory map, the others start at min_address.
BeginPass(regions) ==
  /\ call.at = "pass"
  /\ call.tries < Passes
  /\ call' = [call EXCEPT !.at = "region", !.tries = @ + 1,
                          !.regions = regions, !.current = call.min]
  /\ UNCHANGED <<os, memory, history>>

GiveUp ==
  /\ call.at = "pass"
  /\ call.tries = Passes
  /\ call' = [call EXCEPT !.at = "error"]
  /\ UNCHANGED <<os, memory, history>>

\* [Mutant] the error ends the pass.
NoCandidateEndsPass ==
  /\ call.at = "map"
  /\ call.candidates = <<>>
  /\ call' = [call EXCEPT !.at = "pass"]
  /\ UNCHANGED <<os, memory, history>>

\* try_allocate_buffer fails for this region; the next one is tried.
NoCandidateLeft ==
  /\ call.at = "map"
  /\ call.candidates = <<>>
  /\ call' = [call EXCEPT !.at = "region"]
  /\ UNCHANGED <<os, memory, history>>

Trying == call.at = "map" /\ call.candidates # <<>>

Wanted == PagesOf(Head(call.candidates), call.size)

\* mmap, VirtualAlloc or mach_vm_allocate at the address asked for.
MapThere ==
  /\ Trying
  /\ IsFree(Wanted)
  /\ ours' = ours \cup Wanted
  /\ call' = IF os = "macos"
               THEN [call EXCEPT !.at = "protect", !.stray = Wanted]
               ELSE [call EXCEPT !.at = "ok", !.result = Head(call.candidates)]
  /\ UNCHANGED <<os, others, history>>

\* The system refuses, because the place is taken or for want of memory:
\* VirtualAlloc returns null, mach_vm_allocate an error.  mmap returns MAP_FAILED,
\* which is not null and not the address, so it is passed to munmap, which
\* rejects it.
MapRefused ==
  /\ Trying
  /\ ~(os = "macos" /\ call.size = 0)
  /\ call' = [call EXCEPT !.candidates = Tail(@)]
  /\ quiet' = (quiet /\ ~IsFree(Wanted))
  /\ UNCHANGED <<os, memory, env>>

\* munmap, VirtualFree or mach_vm_deallocate: whatever is mapped there is gone.
Unmap(pages) ==
  /\ ours' = ours \ pages
  /\ others' = others \ pages

\* [Mutant] what was mapped is forgotten.
ForgetStray ==
  /\ call.at = "unmap"
  /\ call' = [call EXCEPT !.at = "map", !.stray = {}]
  /\ UNCHANGED <<os, memory, history>>

\* A mapping that will not do is given back and the next candidate tried.
UnmapStray ==
  /\ call.at = "unmap"
  /\ Unmap(call.stray)
  /\ call' = [call EXCEPT !.at = "map", !.stray = {}]
  /\ UNCHANGED <<os, history>>

\* Other threads map a free page or unmap one of theirs.
OtherMaps(p) ==
  /\ env < EnvSteps
  /\ IsFree({p})
  /\ others' = others \cup {p}
  /\ env' = env + 1
  /\ quiet' = FALSE
  /\ UNCHANGED <<os, ours, call>>

OtherUnmaps(p) ==
  /\ env < EnvSteps
  /\ p \in others
  /\ others' = others \ {p}
  /\ env' = env + 1
  /\ quiet' = FALSE
  /\ UNCHANGED <<os, ours, call>>
=============================================================================
