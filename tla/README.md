# A TLA+ model of Reloaded.Memory.Buffers

Reloaded.Memory.Buffers hands out small pieces of memory near a given address to
several independent users of one process (mods, hooks, code generators). All users
share the same buffers: they find one *locator header* through a memory mapped file
named after the process, look for a buffer with enough room, lock it, append to it and
drop it. This directory models the Rust implementation (`src-rust/src`; paths below are
relative to it), checks the models with TLC and proves their safety properties with TLAPS.

## The system

| Part | State | Operations | Interaction | What makes it correct |
|---|---|---|---|---|
| `buffers.rs` | none of its own | `get_buffer`, `get_buffer_aligned`, `get_buffer_recursive`, `overwrite_allocated_code`, `allocate_private_memory` | calls the finder, then walks the chain of headers | the returned item is exclusive, in the limits, aligned and has the room asked for |
| `structs/internal/locator_header.rs` | `num_items`, `is_locked`, `next_locator_ptr`, the item array, `this_address` | `initialize`, `try_lock`/`lock`/`unlock`, `get_first_available_item_locked`, `try_allocate_item`, `get_next_locator` | readers take no lock; writers take a spin lock; calls the allocator and the global heap | items never move, no slot is given twice, chain complete, lock always released |
| `structs/internal/locator_item.rs`, `structs/safe_locator_item.rs` | base, size, position, `is_taken` | `can_use`, `try_lock`, `unlock`, `append_*`, `Drop` | called by the owner; `can_use` by anybody | data is never overwritten, an item is taken exactly while owned |
| `internal/locator_header_finder.rs` | `LOCATOR_HEADER_ADDRESS`, `MMF`, `GLOBAL_LOCK` (per copy of the library) | `find`, `cleanup` | all copies in a process share one file | one header per process, mapped, initialised once |
| `internal/memory_mapped_file_*.rs` | a file and a mapping | `new`, `Drop` | used by the finder | mappings do not pile up, files go away |
| `internal/buffer_allocator*.rs` | none (the memory map of the process) | `allocate`, `get_possible_buffer_addresses` | races with every other `mmap` of the process | result in the limits and exclusive, nothing leaked, room found if there is any |
| `utilities/*.rs`, `structs/params/*.rs` | `CACHED` | rounding, saturating arithmetic, ranges, free regions, request parameters | pure, except `get_sys_info` | exact at the ends of the address space |
| `structs/private_allocation.rs`, `c/*.rs` | owned blocks; results that own a lock or a string | get, allocate, append, lock again, free | called by users | every block and lock given back once, nobody else's |
| `utilities/disable_write_xor_execute.rs`, `utilities/icache_clear.rs` | page permissions, instruction cache | switch, restore, flush | around every write of code | no write faults, the processor runs what was written |

The hard behaviours are the unlocked readers of the header chain (everything a thread
read may have changed before it locks), the order in which a new item or header becomes
visible, error paths under a spin lock, several copies of the library and several
processes around one file, a memory map that is out of date when it is used, and code
whose page or cache line is in the wrong state when it is written or run.
`PROJECT.json` lists them as hazards, at their lines.

## Modules

| Module | Models |
|---|---|
| `AddressMath` | `mathematics.rs`, `address_range.rs`, `sanitize`, `from_proximity`, `get_free_regions`, `get_possible_buffer_addresses` as operators |
| `LocatorItem` | one item as a record, and what `can_use`, alignment and appends do to it |
| `LocatorHeader` | the header chain of a process and the threads in `get_buffer`, appending and dropping |
| `SharedBuffers` | abstract specification: disjoint buffers that never move, one owner each, positions that only grow |
| `BuffersC` | the C API of the shared buffers: results and who frees them, items locked again through kept pointers |
| `LocatorHeaderFinder` | `find`, the files behind it, copies of the library, processes and process ids, on unix and Windows |
| `BufferAllocator` | `allocate` and what the allocators have in common, with other threads mapping and unmapping pages |
| `BufferAllocatorLinux`, `BufferAllocatorWindows`, `BufferAllocatorOsx` | each system's walk through the memory of the process and its answers |
| `PrivateAllocation` | the three allocators put together under `allocate_private_memory` and its C counterpart: blocks held, dropped, errors freed |
| `CodeMemory` | `append_code`, `append_bytes`, `append_copy`, `overwrite_allocated_code` of Rust and C, on page permissions and an instruction cache |
| `SharedBuffersC` | the refinement mapping: the headers and items as the buffers of `SharedBuffers` |
| `AddressMathProofs`, `LocatorHeaderProofs`, `LocatorChainProofs`, `BuffersCProofs`, `SharedBuffersProofs`, `LocatorHeaderFinderProofs`, `PrivateAllocationProofs`, `CodeMemoryProofs` | theorems, each about the module in its name (`LocatorChainProofs`: more about `LocatorHeader`; `SharedBuffersProofs`: the refinement) |
| `MCChain`, `MCBuffersC`, `MCSequential`, `MCFinder`, `MCPrivateAllocation`, `MCCodeMemory` | instances for TLC |

`BuffersC` extends `LocatorHeader`, which extends `LocatorItem` and `AddressMath`;
`PrivateAllocation` extends the three allocators, which extend `BufferAllocator`;
`CodeMemory` extends `LocatorItem`. `SharedBuffersC` extends `BuffersC` and instantiates
`SharedBuffers`; `MCBuffersC` extends it.

Definitions marked `[Mutant]` are plausible bugs of the definition that follows them.
They are not part of any specification: substituting one for its definition must make
TLC report the property named with it in `PROJECT.json`.

### LocatorHeader

`num_items`, `is_locked`, `next_locator_ptr`, `item` and `is_taken` are the fields of the
headers. `live` holds the header blocks handed out by the heap, `mapped` the addresses in
use. Each thread has a location `pc` and the locals of its call: the request `req`, the
header `cur`, the index `idx` (first `current_item`, then the slot it was given), `final`
(`final_item`), `mem` (`allocated_memory`). Every access to shared memory is a step:

* `ScanBegin` reads `num_items` once; `ScanSkip`/`ScanCandidate` evaluate `can_use` on
  the item as it is at that moment; `TryLockItem` is the swap of `try_lock`.
* `TryAllocateItem`, `LockForAllocation`, `AllocationRecheck`, `AllocateItem` or
  `AllocationFails`, then three `PublishItem` steps (item fields, item lock, `num_items`)
  and `Unlock` are `try_allocate_item`.
* `NextCheck`, `LockForNext`, `NextRecheck`, `AllocateNext` or `NextAllocationFails`,
  `SetDefaultValues`, `InitializeRemainingSpaceAsBuffers`, `Unlock`, `Follow` are
  `get_next_locator` and the recursive call. `AllocateNext` stores the pointer before the
  block is initialised, as the code does, and the block holds whatever `HeapContents`
  allows.
* `Spin` is a round of the spin lock that finds it taken; it changes nothing.
* `Align` is the end of `get_buffer_aligned`; `AppendBytes` an append by a client that
  keeps to the size it asked for; `Drop` the drop of `SafeLocatorItem`. `AppendCopy` is
  `SafeLocatorItem::append_copy`, which stores a reference (`PointerSize` bytes) whatever
  the length of the value; both appends are `Store`.
* `AllocationPanics`: on Linux, `allocate` panics if `/proc/self/maps` cannot be read.
  Where a panic unwinds, the header stays locked. (The crate's own release profile
  aborts instead; a Rust program that depends on the crate usually unwinds.)
* `Crash`: a null or wild pointer is followed or an index leaves the item array. This is
  reachable only through a header that was used before it was initialised.

The allocator is a contract here (`FreeBases`: any free, aligned place in the limits, or
an error); the allocator modules model the code behind it and `ResultFits` is that contract.
Arithmetic on `u32` and `u8` fields wraps (`U32`, `U8`).

History variables: `ready` (headers whose initialisation is complete), `premature`
(headers entered before that, or made while working on such a header), `checked` and
`stale` (an item was given out although it changed after `can_use`), `written`,
`overwritten` and `abandoned` (headers a panic left locked). Two known defects of the
code, `early_next` and `stale_grant` below, would make nearly every property fail for the same
reason. They have violation runs of their own; the other properties are stated for *sound* headers (never entered early) or for
*undisturbed* histories (no stale grant), and show what holds apart from the defects.

`StoresInOrder` says whether the plain stores of `try_allocate_item` become visible in
program order. Rust promises nothing of the kind for a data race; x86 and a compiler that
does not reorder them do. `TRUE` is assumed in the runs with several
threads (they fail without it, see below); the runs with one thread use `FALSE`, since a
thread always sees its own stores by the time it returns.

### BuffersC

`result` says what a client holds: nothing, an ok result (which owns the item's lock,
because the code forgets the `SafeLocatorItem`), an error result (which owns a string), or
an item it locked again. `kept` is the item pointer of its last ok result: it stays valid
for ever, so `locatoritem_try_lock` and `locatoritem_lock` can take the item again without
a search, and `locatoritem_can_use` asks under that lock whether it still suits a request.
`GetBufferOk` and `GetBufferErr` are the ends of a call (a panic has neither result);
`FreeGetBufferResult`, `FreeLocatorItem` and `LocatorItemUnlock` give things back. Clients
free what they hold once, as the header comments require. A Rust client is one that
never keeps a pointer, so the properties of this module hold for it too as long as it
appends with `append_bytes` or `append_code`: `SafeLocatorItem::append_copy` is not part of
`SpecC` and breaks them (run `append_copy`).

### LocatorHeaderFinder

One action per system call and per access to the statics. A copy of the library has its
own statics; the file is shared. `name` maps each process id to a file or to none, `file`
holds for each file whether it is empty, sized or initialised and the `this_address` in
it, and `fd` the file a thread has open: unlinking a name leaves the file to those who
mapped it, and a second creator gets another file. `view` says what each address maps: a
file, private memory, or nothing. `os` is unix or Windows, and `private_copies` the copies
that were built with `all_private` and allocate their header instead.

`EndProcess` can happen at any moment; on unix the name stays behind for the next process
with that id, on Windows it goes with the last handle. Failures of system calls are
bounded by `MaxFailures`: `OpenFileFails` is an open that fails although the file is there
(the code then takes itself for the creator), `Panic` a failed create or map that
the unix code turns into a panic, `AccessViolation` the Windows code going on with a null
mapping it did not check. `BusError` is the SIGBUS of
reading or initialising a header in a file that has no length yet, or never gets one
because `ftruncate` failed unnoticed. `DropMmf`
is the drop of a replaced memory mapped file: it unlinks by a name that lacks its NUL
terminator, so it may or may not hit the file, and both are allowed. `Cleanup` removes
nothing, because the code unlinks the bare file name, not its path.

`disturbed` is a history variable: something happened after which two headers, or a header
at a dead address, are known to be possible (two creators, a failed or repeated open, a
private copy with two first callers, a file left by a dead process). The run
`finder_two_headers` shows the first of these as a finding, the others are listed below;
the remaining properties say what holds without them.

`LocatorHeader` starts where this module ends: its `Root` is the header `find` returns,
initialised. `UnreadyOnlyBriefly` bounds the gap between the two: a header that is cached
and not initialised is one a thread is just initialising.

### The allocators and PrivateAllocation

Memory is a set of pages; `others` are mapped by the rest of the process, `ours` by the
library. `call` is the call of `allocate` under way, with its settings as `sanitize`
leaves them. `BeginPass`, `NoCandidateLeft` and `GiveUp` are the retry loop. Linux reads
the memory map once per pass and tries the gaps of that snapshot; Windows asks
`VirtualQuery` and macOS `mach_vm_region` for one region at a time, so their view is fresh
for each gap and yet out of date by the time it is used. `MapThere` and `MapRefused` are
the answers of `mmap`, `VirtualAlloc` and `mach_vm_allocate`; `MapElsewhere` comes from
Linux kernels that ignore `MAP_FIXED_NOREPLACE`, and `UnmapStray` gives that mapping back.
`MAP_FAILED` is neither null nor the requested address, so the code passes it to `munmap`,
which rejects it: `MapRefused` changes nothing but the candidate. macOS protects the block
afterwards (`Protect`), and gives it back if that fails; a size that `sanitize` truncated
to 0 is refused by Linux and Windows, while macOS answers it with address 0
(`MapNothing`), which `NonNull::unwrap` turns into a panic (`ReturnNull`). Windows first
opens the process, may fail there, and adds one pass by brute force. `ReadMapPanics` is
the panic of a Linux call that cannot read the memory map, `OsxRegionFails` a failing
`mach_vm_region`, which costs the rest of the pass. Between any two steps `OtherMaps` and
`OtherUnmaps` change the map.

The system never maps page 0 (`IsFree`): ordinary processes may not. `NothingLeaked` rests on
this: a privileged Linux process that asks from `min_address` 0 can get a block there, which
the code takes for a failure and never gives back.

The regions of a memory map and the gaps between them are sets (`FreeRegions`); the code
keeps lists in order of address, and `LinuxRegion` takes the lowest gap left, which is the
next in that order.

`held` are the client's `PrivateAllocation`s and `errors` the C results that hold an error
string. `DropAllocation` unmaps whatever lies in the block, ours or not: `NothingLeaked`
and `OthersKept` show that this only ever is what the library mapped.

### CodeMemory

One buffer. `prot` holds the permissions of each page, `icache` what the instruction cache
holds for each address (nothing, the current byte, an old one), `op` the call each thread
is in: switch permissions, copy, restore, flush. `platform` is x86 (coherent cache), arm
(flushes needed) or m1 (flushes, and pages never writable and executable at once). The
processor may prefetch at any time. Only one thread appends (the item's lock, see
`LocatorHeader`); overwriting takes no lock. `clash` is a history variable: two calls
were under way at the same time, after which a restore of one can take the permissions
away under the other.

## Runs

Passing runs:

| Run | Instance | Shows |
|---|---|---|
| `chain` | 2 threads, a header of 2 items, 2 heap blocks (fresh or recycled) to append, room for 1 more buffer, failing and panicking allocations | types; one user per item; header lock excludes and is released; a panic costs no header but its own; no access outside the array or through null; of two threads that both find no next header one appends, no header is lost, and only a full one gets a successor; calls do not block one another for ever |
| `c_api` | 2 clients, 1 header of 2 items with a preallocated chunk at an odd address, aligned and unaligned requests, panics, items locked again | an item is taken exactly while owned; grants in range, aligned, with room; what `can_use` says under the lock stays true; data never overwritten; items never move; `BuffersC` implements `SharedBuffers` |
| `finder` | 3 threads of 2 copies, one of them shared or private, unix and Windows, 2 processes, one failing call | one mapped header, initialised once; a header not ready is being made; mappings do not pile up; cache stable; `find` returns |
| `allocator` | 7 pages of 2 bytes, every initial map, 2 passes, 1 foreign step, 3 systems, requests at both ends of the address space and with a size truncated to 0 | result exclusive and in the limits, nothing leaked, nothing taken from others, room found, termination |
| `code_memory` | 2 threads, a 4-byte buffer on one page, 3 platforms, sources behind the buffer | what was flushed is what the processor runs; a write faults only if two calls change permissions at once |

Violation runs, each a disagreement between the code and what its documentation says
(quoted in `PROJECT.json`, `findings`):

| Run | What happens |
|---|---|
| `overlap` | preallocated chunks of one header share an address (`buffer_address` is not advanced) |
| `stale_grant` | an item is filled between `can_use` and `try_lock` and handed out without the room |
| `early_next` | a thread follows `next_locator_ptr` into a header that is not initialised |
| `append_copy` | `SafeLocatorItem::append_copy` stores a pointer instead of the value and runs past the room asked for |
| `finder_two_headers` | two copies both create the file and keep two headers |
| `wx_append` | on m1 the permissions are changed at the start of the buffer and the data goes to a later page, which is read-execute |
| `c_icache` | the C `overwrite_allocated_code` ends its flush at the source: the processor runs old code |

More weaknesses show when a constant of a passing run is changed or the exemption of a
history variable is dropped, or can be read off an action:

* `StoresInOrder = FALSE` in `MCChain.cfg`: `ExclusiveUse` fails: a scanning thread sees
  `num_items` before the item's lock and locks an item its creator owns.
* Without `disturbed`, `CacheStable` fails: two first callers of a private copy make two
  headers, because the private path does not look at the cache again under `GLOBAL_LOCK`.
  `FoundIsMapped` fails too: a process with a reused id takes the address left by a dead
  one (the specification calls the files non-persistent); and a file whose creator
  panicked has a null address in it.
* A panic in `allocate` that unwinds leaves the header locked, and every later call that
  needs that lock spins for ever (`AllocationPanics`; `LockReleased` and `NoLivelock`
  leave such headers out).
* `Cleanup` has no effect: `unlink` is called with the bare file name.

### Bounds

Two threads suffice for every race of one owner against one reader or writer; items and
headers are few so that filling a header, racing for its last slot and growing the chain
all happen. In `chain` the first header has a preallocated chunk and the one buffer there is
room for; `MaxPosition` lets both fill up, so that both threads come to `get_next_locator`
together, and there are two blocks to append, so that a second append is possible and only
the check under the lock prevents it (without `NextRecheck` one header is lost). The appended
header serves from its chunk and then finds no room; a chain that grows behind it takes a
second buffer and 3 million states, and is left to the proofs. The finder needs three threads, two in one
copy for its lock and one in another copy for the file, and two processes for what one
leaves to the next. `MaxPosition` bounds appends to an item, `UsizeMax` and `U32` are small
so that the ends of the ranges are reached, `MaxStarts` bounds processes, `MaxFailures`
failing calls, `EnvSteps` foreign mappings, `RetryCount` (8 in the code) passes, `MaxHeld`
allocations not freed, `MaxWrite` the bytes of one write. Thread permutations are a
symmetry in `c_api` and `code_memory`; no liveness property is checked with symmetry.
Distinct states: `chain` 85 thousand, `c_api` 790 thousand, `finder` 430 thousand,
`allocator` 410 thousand, `code_memory` 710 thousand.

Deadlock checking stays on in `chain` but says little there: `Spin` and `Crashed` are steps
that change nothing, so threads that wait for one another would not count as a deadlock;
`NoLivelock` is the property about that. It is off in `c_api` (a panic leaves the header locked), in the finder and allocator (processes, foreign
steps and failures are bounded) and in `code_memory` (a fault ends the process, and the
buffer fills up).

### Fairness

`FairSpec` of `LocatorHeader` asks that a thread inside a call keeps taking steps
(`WF(CallStep)`): the scheduler runs every thread, and the spin loops yield. Nothing is
asked of clients, so an item may be held for ever, and nothing of the spin lock, so one
thread can be overtaken for ever; `NoLivelock` therefore says that a call that never
returns is overtaken by calls that do. The finder (`WF(FindStep)`) and the allocator
(`WF(AllocatorStep \/ ReturnStep)`) ask the same of a thread inside `find` and `allocate`.

## Proofs

The theorems hold for every number of threads, headers, items, copies, processes, pages
and requests, and every layout the named `ASSUME`s of the modules allow. These say that
the constants have machine types, that header blocks lie apart and inside the address
space, that the page size and the allocation granularity divide 2^32 and the size of the
address space, that user memory ends before it, and that the markers (`Null`, `NoHeader`,
`Unused`, ...) are not ordinary values; TLC evaluates them in the runs. Every proof is of
the same kind: an inductive invariant, which TLC checked on the instances first, shown for
`Init` and for one action after the other.

| Theorem | States | Besides the `ASSUME`s |
|---|---|---|
| `TypeCorrect` | `TypeOK` of `LocatorHeader` | |
| `OnlyOneUser` | `ExclusiveUse` | `StoresInOrder` |
| `LockExcludes`, `MemorySafe`, `ChainIsComplete`, `TakenWhileOwned` | `HeaderLockExcludes`, `NoMemoryError`, `ChainComplete`, `TakenIffOwned` | `StoresInOrder` |
| `CheckedStaysTrue`, `OneUserOfC` | `CheckedUnderLock`; `ExclusiveUse` and `TakenIffOwned` with the C API | `StoresInOrder` |
| `SpaceAsPromised`, `GrantsInRange`, `GrantsAligned`, `NothingMoves` | `PromisedSpace`, `GrantInRange`, `AlignedGrant`, `ItemsNeverMove` | `StoresInOrder`, `PaddedFits`; the last three for undisturbed histories |
| `DataNeverOverwritten`, `ImplementsThem` | `NeverOverwritten`, the refinement of `SharedBuffers` | the same, and `NumPreallocated <= 1` |
| `FinderTypes`, `MappingsDoNotLeak`, `InitializedOnce`, `OneHeader`, `FoundStaysMapped`, `SoonReady`, `AddressKept` | `TypeOK` of the finder, `NoMappingLeaked`, `NeverReinitialized`, `OneHeaderUndisturbed`, `FoundIsMapped`, `UnreadyOnlyBriefly`, `CacheStable` | |
| `NoPageLost`, `BufferAsAskedFor`, `RestOfProcessKept` | `NothingLeaked`, `ResultFits`, `OthersKept` | |
| `RoomIsFound` | `FindsRoom` | `MayFind` |
| `WritesDoNotFault`, `WrittenCodeRuns` | `WriteIsSafe`, `CodeRuns` | `SinglePage`; the second one `SourcesBehind` too |

Each hypothesis has a counterexample when it is dropped:

* `StoresInOrder` (see `LocatorHeader` above): without it `ExclusiveUse` fails.
* `PaddedFits`: size and padding of a request stay below 2^32. A longer request wraps
  around and is searched with a small size.
* Undisturbed: no item was given out on an out-of-date `can_use` and no header was entered
  early (`stale_grant`, `early_next`). `PromisedSpace` and `NeverOverwritten` say so
  themselves. `GrantInRange`, `AlignedGrant` and `ItemsNeverMove` hold without it in the run
  `c_api`, whose `MaxPosition` keeps positions from wrapping around 2^32; after a stale grant
  they can, so the theorems need it.
* `NumPreallocated <= 1`: with two chunks they overlap (`overlap`). Headers of 4096 bytes and
  chunks of 16384 leave room for none where the granularity is 4 KiB, for one where it is
  16 KiB, and for four on Windows (64 KiB).
* `MayFind`: `retry_count` is not 0, and user memory reaches up to `Cached.max_address`. Without
  the first there is no pass. Without the second the last gap reaches behind what can be
  mapped; if it begins at address 0, its first candidate is page 0, its last one is out of
  reach, and the room between them is not found.
* `SinglePage`: on m1 the buffer lies on one page (`wx_append`). `SourcesBehind`: C callers
  copy from behind the buffer (`c_icache`).

### The invariants

*Header chain* (`Inv` in `LocatorHeaderProofs`). `TypeOK` is inductive; besides machine
types it says that the slot of a thread that owns or locks an item exists. `Inv` adds: a
header neither ready nor entered has no threads and no successor (`FreshHeaders`);
successors are allocated, unique, and unsoundness spreads along the chain (`Links`); the
header being initialised is the successor of the locked one and not ready
(`Initializing`); the spin lock excludes (`Locking`); an owned item is published and its
lock is up, and an item being published lies exactly at `num_items` (`Owning`).
`ExclusiveUse` alone is not inductive: a thread could be about to lock an item another one
owns with its lock down, or two threads could publish into one slot. `Links` is needed
because initialising a header must not reset the lock of one in use.

*Locks and links* (`ChainInv` in `LocatorChainProofs`) adds the converse directions: a lock
flag that is up has a thread inside or was left by a panic (`LockFlag`), a taken item has
an owner (`Taken`), a successor implies a full header (`WellFormed`), every header but the
first is linked (`Linked`), and what a thread checked under the lock - not full, no
successor yet - is still so when it acts on it (`Rechecked`). The double checks are exactly
what `Rechecked` rests on.

*C clients* (`InvC`, `GrantInv` in `BuffersCProofs`). `Held`: a result agrees with the state
of the call, and a kept pointer leads to a published item. `Promises` follows the space,
range and alignment of a request from `can_use` or `allocate` (at `trylock` with the
position that was read, at `publish` with the memory that was allocated) through the
alignment to every append; that an item's owner is the only one to change its position
comes from `InvC`.

*Memory* (`PlaceInv` in `SharedBuffersProofs`). `Placement`: header blocks, preallocated
items, items from `allocate` and memory about to be published share no byte, and there is
no data behind the position of any item. The refinement maps a slot to a buffer once
`num_items` covers it: `PublishItem` is `Create`, the swap of `try_lock` is `Acquire`, and so
on; scanning, locking headers and appending headers without a chunk are stutters, and the
initialisation of a header with a chunk is `Provide`.

*Finder* (`FinderInv` in `LocatorHeaderFinderProofs`). `Basics` holds whatever happens: the
locals of `find` at each point, and that every mapping has one user (`Mappings`,
`MappingsUsed`). `Phases` is about an undisturbed process and has three parts, according
to the file: `Before` there is none, one thread at most is about to make it; `During` its
making, one thread is on the way to the header and no other copy has got past `open`;
`Since` then, the header lies at the address it says and every copy knows that address or
is about to read it.

*Allocators* (`AllocInv` in `PrivateAllocationProofs`). `CallFits`: every candidate is
aligned and in the limits (lemma `Candidates`, which follows `RoundUp` and `RoundDown`
through a wrap around the end of the address space), and a block that is mapped covers
pages that were free. `PagesApart`: the rest of the process, the blocks of the client and
what the call has mapped are disjoint, which makes every unmapping harmless. The
lemmas `SmallestOf`, `OsxPages` and `WindowsPages` show that the region each system's query
returns exists.

*Search* (`SearchInv` in `PrivateAllocationProofs`). As long as nobody interferes, every
place that would do (`Room`) is `Untried`: the first pass has yet to begin, or the walk
has yet to come to it (`Ahead`, which means something else on each system), or a candidate
that is free is in the list (`Coming`). On Linux the regions still to be tried are gaps,
that is, hold no mapped page. Each walk is shown to step over nothing: `LinuxCovers` and
`LinuxGaps` for the gaps of the map, `SearchWindows` for the region of `VirtualQuery` and
`SearchOsx` for the gap in front of the region of `mach_vm_region`. `LastPlace` shows that of the
four candidate addresses one is at or behind any place in the gap, which makes it
free, and never page 0. `Background`, what is mapped without the stray mapping, does not change
when Linux maps elsewhere and gives that back.

*Code* (`SafeInv`, `RunsInv` in `CodeMemoryProofs`). `CallsFit`: what a call writes lies in
the buffer, and an append behind everything else. `Permissions`: without a clash there is
one call, and between its switch and its restore no page is read-execute. `Restored`,
`Flushing` and `StaleIsBusy`: a page stays without execute permission, and an address
stale in the cache, only as long as some call has yet to restore or flush it.

### Only model-checked

`LockReleased`, `NoLivelock`, `FindReturns` and `AllocateReturns`: liveness under fairness is
outside the proof system's reach. Every other property of the passing runs has a theorem.

## Not modelled

* `buffer_allocator_mmap_rs.rs`: line 71 calls `get_allocation_granularity()`, which
  `Cached` does not have, so the file does not compile on the systems it is for and there
  is no behaviour to model.
* The parts for other processes: they are behind the feature `external_process`, and
  `Cargo.toml` defines `external_processes`.
* The split of a block into a chain of headers on macOS aarch64, and `set_version`, which
  nothing calls.
* The text of `/proc/self/maps` (a set of pages here; failing to read it is modelled),
  error texts, and the unsynchronised first call of `get_sys_info`.
* The getters of the C API, which read what the actions read, and the test-only reset of
  the finder.
* The C# port, an older implementation of the same design.

## Plan

1. A module composing `LocatorHeaderFinder` and `LocatorHeader`, so that a header found
   early and reset by `initialize` is seen by its users; `get_sys_info`.
2. macOS aarch64: a block split into a chain of headers.
