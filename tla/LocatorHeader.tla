------------------------------ MODULE LocatorHeader ------------------------------
(***************************************************************************)
(* The chain of locator headers of one process and the threads that take   *)
(* buffers from it: Buffers::get_buffer / get_buffer_aligned and           *)
(* get_buffer_recursive (buffers.rs), every operation of LocatorHeader     *)
(* (structs/internal/locator_header.rs), the item lock and the appends of  *)
(* LocatorItem and the release of SafeLocatorItem.                         *)
(*                                                                         *)
(* A header is a fixed array of items, a count of the items in use, a spin *)
(* lock and a pointer to the next header.  Readers never take the lock, so *)
(* each shared access of a thread is a step of its own.                    *)
(*                                                                         *)
(* The operating system's allocator appears as a contract (AllocateItem):  *)
(* any free, aligned place inside the request, or an error.                *)
(***************************************************************************)
EXTENDS LocatorItem, FiniteSets

CONSTANTS Threads,        \* users of the library
          Headers,        \* header-sized blocks: the root and heap blocks
          Root,           \* the header LocatorHeaderFinder::find returns
          NoHeader,       \* the null pointer
          Wild,           \* a non-null pointer to no header
          HeaderAddress,  \* where each header lies
          MaxItemCount,   \* MAX_ITEM_COUNT
          HeaderLength,   \* LENGTH
          ChunkLength,    \* LENGTH_OF_PREALLOCATED_CHUNKS
          Granularity,    \* Cached.allocation_granularity
          Requests,       \* [size, align, min, max] of the calls made
          HeapContents,   \* what a block from the global allocator may hold
          PointerSize,    \* size_of::<&T>()
          MaxPosition,    \* bound on an item's position
          StoresInOrder,  \* plain stores become visible in program order
          AllocateMayPanic \* allocate may unwind (see AllocationPanics)

U8 == 256

Slots == 0 .. MaxItemCount - 1

ItemType == [base : 0 .. UsizeMax, size : 0 .. U32 - 1, position : 0 .. U32 - 1]

RequestType == [size : 0 .. U32 - 1, align : 0 .. U32 - 1,
                min : 0 .. UsizeMax, max : 0 .. UsizeMax]

HeapType == [num_items : 0 .. MaxItemCount, is_locked : 0..1,
             next_locator_ptr : {NoHeader, Wild},
             item : [Slots -> ItemType], is_taken : [Slots -> 0..1]]

\* initialize_remaining_space_as_buffers: how many chunks the rest of a
\* header's block is cut into.
NumPreallocated == (Granularity - HeaderLength + ChunkLength - 1) \div ChunkLength

ASSUME HeaderAssumption ==
  /\ Root \in Headers
  /\ NoHeader \notin Headers
  /\ Wild \notin Headers
  /\ NoHeader # Wild
  /\ HeaderAddress \in [Headers -> Nat]

\* Headers are blocks of their own: they lie in the address space and apart.
ASSUME PlacementAssumption ==
  /\ \A h \in Headers : HeaderAddress[h] > 0 /\ HeaderAddress[h] + Granularity <= UsizeMax
  /\ \A h, k \in Headers : h # k =>
       \/ HeaderAddress[h] + Granularity <= HeaderAddress[k]
       \/ HeaderAddress[k] + Granularity <= HeaderAddress[h]

ASSUME LayoutAssumption ==
  /\ MaxItemCount \in 1 .. U8 - 1
  /\ HeaderLength \in Nat \ {0}
  /\ ChunkLength \in Nat \ {0}
  /\ Granularity \in Nat \ {0}
  /\ Granularity >= HeaderLength
  /\ U32 % Granularity = 0
  /\ NumPreallocated \in 0 .. MaxItemCount

ASSUME InputAssumption ==
  /\ Requests \subseteq RequestType
  /\ HeapContents \subseteq HeapType
  /\ PointerSize \in Nat
  /\ MaxPosition \in 0 .. U32 - 1
  /\ StoresInOrder \in BOOLEAN
  /\ AllocateMayPanic \in BOOLEAN

VARIABLES
  \* the headers
  num_items,          \* items in use
  is_locked,          \* the header's spin lock, 0 or 1
  next_locator_ptr,   \* the next header, NoHeader or Wild
  item,               \* the items, by slot
  is_taken,           \* the items' locks, 0 or 1
  \* memory
  live,               \* headers handed out by the global allocator, and Root
  mapped,             \* addresses in use by headers and buffers
  \* the threads
  pc,                 \* where the thread is in get_buffer
  req,                \* the request being served
  cur,                \* locator: the header the thread works on
  idx,                \* current_item, and later the slot it was given
  final,              \* final_item
  mem,                \* allocated_memory
  todo,               \* stores of try_allocate_item not yet visible
  after,              \* where the thread goes once it has unlocked the header
  left,               \* bytes it asked for and has not appended yet
  \* history
  ready,              \* headers whose initialisation is complete
  premature,          \* headers entered before that, or made from such a one
  checked,            \* the item as can_use saw it
  stale,              \* some item was given out after it had changed since can_use
  written,            \* addresses holding appended data
  overwritten,        \* data was appended over data
  abandoned           \* headers a panic left locked

headerVars  == <<num_items, is_locked, next_locator_ptr, item, is_taken>>
memoryVars  == <<live, mapped>>
threadVars  == <<pc, req, cur, idx, final, mem, todo, after, left>>
historyVars == <<ready, premature, checked, stale, written, overwritten, abandoned>>
vars == <<headerVars, memoryVars, threadVars, historyVars>>

-----------------------------------------------------------------------------
\* Operators on one header

Zero == NewItem(0, 0)

NoRequest == [size |-> 0, align |-> 0, min |-> 0, max |-> 0]

\* initialize_remaining_space_as_buffers: chunk i of header h.  buffer_address
\* is computed once, in front of the loop, so every chunk starts at the same
\* address.
PreallocatedItem(h, i) ==
  NewItem(HeaderAddress[h] + HeaderLength,
          Smaller(ChunkLength, Granularity - HeaderLength - i * ChunkLength))

\* The items of header h once initialised; the other slots keep what the
\* memory held.
InitializedItems(h, contents) ==
  [i \in Slots |-> IF i < NumPreallocated THEN PreallocatedItem(h, i)
                                          ELSE contents[i]]

InitializedLocks(contents) ==
  [i \in Slots |-> IF i < NumPreallocated THEN 0 ELSE contents[i]]

HeaderExtent(h) == HeaderAddress[h] .. (HeaderAddress[h] + Granularity - 1)

IsFull(h) == num_items[h] >= MaxItemCount

\* What BufferAllocator promises for a request of a given (sanitized) size; a size
\* truncated to 0 is refused.
FreeBases(size, r) ==
  {b \in 1 .. UsizeMax :
     /\ size > 0
     /\ b % Granularity = 0
     /\ b >= r.min
     /\ b + size <= r.max
     /\ (b .. (b + size - 1)) \cap mapped = {}}

\* The size get_buffer searches for.
SizeOf(t) == SearchSize(req[t].size, req[t].align)

-----------------------------------------------------------------------------
\* Program locations

Locations == {"idle", "enter", "scan", "trylock", "full", "lockAlloc",
              "recheckAlloc", "allocate", "publish", "unlock", "next",
              "lockNext", "recheckNext", "allocNext", "init", "fill",
              "follow", "align", "owned", "crashed"}

\* Inside get_buffer or get_buffer_aligned.
InCall(t) == pc[t] \notin {"idle", "owned", "crashed"}

\* Between lock() and unlock() of header cur[t].
InLock(t) == pc[t] \in {"recheckAlloc", "allocate", "publish", "unlock",
                        "recheckNext", "allocNext", "init", "fill"}

\* Slot idx[t] of header cur[t] has been given to the thread.
Owns(t) == \/ pc[t] \in {"align", "owned", "publish"}
           \/ pc[t] = "unlock" /\ after[t] = "align"

Goto(t, location) == pc' = [pc EXCEPT ![t] = location]

\* End of a call: its locals are gone.
Return(t) ==
  /\ Goto(t, "idle")
  /\ idx' = [idx EXCEPT ![t] = 0]
  /\ final' = [final EXCEPT ![t] = 0]

-----------------------------------------------------------------------------
Init ==
  /\ num_items = [h \in Headers |-> IF h = Root THEN NumPreallocated ELSE 0]
  /\ is_locked = [h \in Headers |-> 0]
  /\ next_locator_ptr = [h \in Headers |-> NoHeader]
  /\ item = [h \in Headers |->
               IF h = Root THEN InitializedItems(Root, [i \in Slots |-> Zero])
                           ELSE [i \in Slots |-> Zero]]
  /\ is_taken = [h \in Headers |-> [i \in Slots |-> 0]]
  /\ live = {Root}
  /\ mapped = UNION {HeaderExtent(h) : h \in Headers}
  /\ pc = [t \in Threads |-> "idle"]
  /\ req = [t \in Threads |-> NoRequest]
  /\ cur = [t \in Threads |-> Root]
  /\ idx = [t \in Threads |-> 0]
  /\ final = [t \in Threads |-> 0]
  /\ mem = [t \in Threads |-> Zero]
  /\ todo = [t \in Threads |-> {}]
  /\ after = [t \in Threads |-> "idle"]
  /\ left = [t \in Threads |-> 0]
  /\ ready = {Root}
  /\ premature = {}
  /\ checked = [t \in Threads |-> 0]
  /\ stale = FALSE
  /\ written = {}
  /\ overwritten = FALSE
  /\ abandoned = {}

-----------------------------------------------------------------------------
\* buffers.rs

\* get_buffer_aligned(settings, alignment); get_buffer(settings) is the case
\* align = 0, for which SearchSize adds nothing and Align moves nothing.
GetBuffer(t, r) ==
  /\ pc[t] = "idle"
  /\ req' = [req EXCEPT ![t] = r]
  /\ cur' = [cur EXCEPT ![t] = Root]
  /\ Goto(t, "enter")
  /\ UNCHANGED <<headerVars, memoryVars, historyVars,
                 idx, final, mem, todo, after, left>>

\* The rest of get_buffer_aligned, on the item the thread was given.
Align(t) ==
  /\ pc[t] = "align"
  /\ item' = [item EXCEPT ![cur[t]][idx[t]] = AlignedItem(@, req[t].align)]
  /\ left' = [left EXCEPT ![t] = req[t].size]
  /\ Goto(t, "owned")
  /\ UNCHANGED <<num_items, is_locked, next_locator_ptr, is_taken, memoryVars,
                 historyVars, req, cur, idx, final, mem, todo, after>>

\* A client appends data of some length, staying within what it asked for, and
\* this many bytes are stored.
Store(t, length, stored) ==
  /\ pc[t] = "owned"
  /\ length \in 1 .. left[t]
  /\ item[cur[t]][idx[t]].position + stored <= MaxPosition
  /\ LET i    == item[cur[t]][idx[t]]
         data == WriteAddress(i) .. (WriteAddress(i) + stored - 1)
     IN  /\ item' = [item EXCEPT ![cur[t]][idx[t]] = AppendedItem(@, stored)]
         /\ written' = written \cup data
         /\ overwritten' = (overwritten \/ data \cap written # {})
  /\ left' = [left EXCEPT ![t] = @ - length]
  /\ UNCHANGED <<num_items, is_locked, next_locator_ptr, is_taken, memoryVars,
                 pc, req, cur, idx, final, mem, todo, after,
                 ready, premature, checked, stale, abandoned>>

\* append_bytes and append_code.
AppendBytes(t, length) == Store(t, length, length)

\* append_copy of SafeLocatorItem passes its reference on instead of the value:
\* a pointer is stored.
AppendCopy(t, length) == Store(t, length, PointerSize)

\* [Mutant] the item is not unlocked.
DropWithoutUnlock(t) ==
  /\ pc[t] = "owned"
  /\ left' = [left EXCEPT ![t] = 0]
  /\ Return(t)
  /\ UNCHANGED <<headerVars, memoryVars, historyVars, req, cur, mem, todo, after>>

\* [Mutant] the dropped item is taken to be empty again.
DropRewinding(t) ==
  /\ pc[t] = "owned"
  /\ is_taken' = [is_taken EXCEPT ![cur[t]][idx[t]] = 0]
  /\ item' = [item EXCEPT ![cur[t]][idx[t]].position = 0]
  /\ left' = [left EXCEPT ![t] = 0]
  /\ Return(t)
  /\ UNCHANGED <<num_items, is_locked, next_locator_ptr, memoryVars,
                 historyVars, req, cur, mem, todo, after>>

\* Drop of SafeLocatorItem: LocatorItem::unlock.
Drop(t) ==
  /\ pc[t] = "owned"
  /\ is_taken' = [is_taken EXCEPT ![cur[t]][idx[t]] = 0]
  /\ left' = [left EXCEPT ![t] = 0]
  /\ Return(t)
  /\ UNCHANGED <<num_items, is_locked, next_locator_ptr, item, memoryVars,
                 historyVars, req, cur, mem, todo, after>>

-----------------------------------------------------------------------------
\* LocatorHeader::get_first_available_item_locked

\* num_items is read once; items added later are not looked at.
ScanBegin(t) ==
  /\ pc[t] = "enter"
  /\ idx' = [idx EXCEPT ![t] = 0]
  /\ final' = [final EXCEPT ![t] = num_items[cur[t]]]
  /\ Goto(t, "scan")
  /\ UNCHANGED <<headerVars, memoryVars, historyVars,
                 req, cur, mem, todo, after, left>>

\* can_use, read without a lock, refuses the item.
ScanSkip(t) ==
  /\ pc[t] = "scan"
  /\ idx[t] < final[t]
  /\ idx[t] \in Slots
  /\ ~CanUse(item[cur[t]][idx[t]], SizeOf(t), req[t].min, req[t].max)
  /\ idx' = [idx EXCEPT ![t] = @ + 1]
  /\ UNCHANGED <<headerVars, memoryVars, historyVars,
                 pc, req, cur, final, mem, todo, after, left>>

\* can_use accepts it; the lock is tried in a later step.
ScanCandidate(t) ==
  /\ pc[t] = "scan"
  /\ idx[t] < final[t]
  /\ idx[t] \in Slots
  /\ CanUse(item[cur[t]][idx[t]], SizeOf(t), req[t].min, req[t].max)
  /\ checked' = [checked EXCEPT ![t] = item[cur[t]][idx[t]].position]
  /\ Goto(t, "trylock")
  /\ UNCHANGED <<headerVars, memoryVars,
                 req, cur, idx, final, mem, todo, after, left,
                 ready, premature, stale, written, overwritten, abandoned>>

\* No item left to look at.
ScanEnd(t) ==
  /\ pc[t] = "scan"
  /\ idx[t] >= final[t]
  /\ Goto(t, "full")
  /\ UNCHANGED <<headerVars, memoryVars, historyVars,
                 req, cur, idx, final, mem, todo, after, left>>

\* [Mutant] the lock counts the attempts instead of being set.
TryLockItemCounting(t) ==
  /\ pc[t] = "trylock"
  /\ is_taken' = [is_taken EXCEPT ![cur[t]][idx[t]] = @ + 1]
  /\ IF is_taken[cur[t]][idx[t]] = 0
       THEN Goto(t, "align") /\ UNCHANGED idx
       ELSE Goto(t, "scan") /\ idx' = [idx EXCEPT ![t] = @ + 1]
  /\ checked' = [checked EXCEPT ![t] = 0]
  /\ UNCHANGED <<num_items, is_locked, next_locator_ptr, item, memoryVars,
                 req, cur, final, mem, todo, after, left,
                 ready, premature, stale, written, overwritten, abandoned>>

\* LocatorItem::try_lock: an atomic swap.
TryLockItem(t) ==
  /\ pc[t] = "trylock"
  /\ is_taken' = [is_taken EXCEPT ![cur[t]][idx[t]] = 1]
  /\ IF is_taken[cur[t]][idx[t]] = 0
       THEN /\ Goto(t, "align")
            /\ stale' = (stale \/ item[cur[t]][idx[t]].position # checked[t])
            /\ UNCHANGED idx
       ELSE /\ Goto(t, "scan")
            /\ idx' = [idx EXCEPT ![t] = @ + 1]
            /\ UNCHANGED stale
  /\ checked' = [checked EXCEPT ![t] = 0]
  /\ UNCHANGED <<num_items, is_locked, next_locator_ptr, item, memoryVars,
                 req, cur, final, mem, todo, after, left,
                 ready, premature, written, overwritten, abandoned>>

-----------------------------------------------------------------------------
\* LocatorHeader::lock and unlock

\* [Mutant] the flag is set without being compared.
LockBlindly(t, from, to) ==
  /\ pc[t] = from
  /\ is_locked' = [is_locked EXCEPT ![cur[t]] = 1]
  /\ Goto(t, to)
  /\ UNCHANGED <<num_items, next_locator_ptr, item, is_taken, memoryVars,
                 historyVars, req, cur, idx, final, mem, todo, after, left>>

\* One successful compare_exchange of lock().
Lock(t, from, to) ==
  /\ pc[t] = from
  /\ is_locked[cur[t]] = 0
  /\ is_locked' = [is_locked EXCEPT ![cur[t]] = 1]
  /\ Goto(t, to)
  /\ UNCHANGED <<num_items, next_locator_ptr, item, is_taken, memoryVars,
                 historyVars, req, cur, idx, final, mem, todo, after, left>>

LockForAllocation(t) == Lock(t, "lockAlloc", "recheckAlloc")

LockForNext(t) == Lock(t, "lockNext", "recheckNext")

\* A failed one: the thread goes round the loop.
Spin(t) ==
  /\ pc[t] \in {"lockAlloc", "lockNext"}
  /\ is_locked[cur[t]] = 1
  /\ UNCHANGED vars

Unlock(t) ==
  /\ pc[t] = "unlock"
  /\ is_locked' = [is_locked EXCEPT ![cur[t]] = 0]
  /\ Goto(t, after[t])
  /\ after' = [after EXCEPT ![t] = "idle"]
  /\ UNCHANGED <<num_items, next_locator_ptr, item, is_taken, memoryVars,
                 historyVars, req, cur, idx, final, mem, todo, left>>

\* self.unlock(); then continue at a location.
UnlockThen(t, location) ==
  /\ Goto(t, "unlock")
  /\ after' = [after EXCEPT ![t] = location]

-----------------------------------------------------------------------------
\* LocatorHeader::try_allocate_item

\* The first is_full(), without the lock.
TryAllocateItem(t) ==
  /\ pc[t] = "full"
  /\ Goto(t, IF IsFull(cur[t]) THEN "next" ELSE "lockAlloc")
  /\ UNCHANGED <<headerVars, memoryVars, historyVars,
                 req, cur, idx, final, mem, todo, after, left>>

\* [Mutant] no second is_full().
AllocationWithoutRecheck(t) ==
  /\ pc[t] = "recheckAlloc"
  /\ Goto(t, "allocate")
  /\ UNCHANGED <<headerVars, memoryVars, historyVars,
                 req, cur, idx, final, mem, todo, after, left>>

\* [Mutant] the early return keeps the lock.
AllocationRecheckKeepsLock(t) ==
  /\ pc[t] = "recheckAlloc"
  /\ Goto(t, IF IsFull(cur[t]) THEN "next" ELSE "allocate")
  /\ UNCHANGED <<headerVars, memoryVars, historyVars,
                 req, cur, idx, final, mem, todo, after, left>>

\* The second is_full(), with the lock held.
AllocationRecheck(t) ==
  /\ pc[t] = "recheckAlloc"
  /\ IF IsFull(cur[t]) THEN UnlockThen(t, "next")
                       ELSE Goto(t, "allocate") /\ UNCHANGED after
  /\ UNCHANGED <<headerVars, memoryVars, historyVars,
                 req, cur, idx, final, mem, todo, left>>

\* allocate(&mut settings) succeeds; target is computed from num_items.
AllocateItem(t, base) ==
  /\ pc[t] = "allocate"
  /\ num_items[cur[t]] \in Slots
  /\ LET size == SanitizedSize(SizeOf(t), Granularity)
     IN  /\ base \in FreeBases(size, req[t])
         /\ mem' = [mem EXCEPT ![t] = NewItem(base, size)]
         /\ mapped' = mapped \cup (base .. (base + size - 1))
  /\ idx' = [idx EXCEPT ![t] = num_items[cur[t]]]
  /\ todo' = [todo EXCEPT ![t] = {"fields", "is_taken", "num_items"}]
  /\ Goto(t, "publish")
  /\ UNCHANGED <<headerVars, live, historyVars, req, cur, final, after, left>>

\* allocate(&mut settings) fails: get_buffer returns an error.
AllocationFails(t) ==
  /\ pc[t] = "allocate"
  /\ UnlockThen(t, "idle")
  /\ idx' = [idx EXCEPT ![t] = 0]
  /\ final' = [final EXCEPT ![t] = 0]
  /\ UNCHANGED <<headerVars, memoryVars, historyVars, req, cur, mem, todo, left>>

\* On Linux allocate panics if /proc/self/maps cannot be opened or read (no file
\* descriptor left, say).  Where a panic unwinds, the caller gets back control
\* and the header stays locked: is_locked has no guard.
AllocationPanics(t) ==
  /\ pc[t] = "allocate"
  /\ AllocateMayPanic
  /\ abandoned' = abandoned \cup {cur[t]}
  /\ Return(t)
  /\ UNCHANGED <<headerVars, memoryVars, req, cur, mem, todo, after, left,
                 ready, premature, checked, stale, written, overwritten>>

\* [Mutant] num_items is counted up before the item is marked as taken.
CountedBeforeTaken(t, store) ==
  /\ store \in todo[t]
  /\ CASE store = "fields"    -> TRUE
       [] store = "num_items" -> "fields" \notin todo[t]
       [] store = "is_taken"  -> todo[t] = {"is_taken"}

\* The stores that publish the new, locked item.  They are plain stores: only
\* on a machine (and with a compiler) that keeps program order do the fields
\* of *target become visible before its num_items += 1.
MayBecomeVisible(t, store) ==
  /\ store \in todo[t]
  /\ StoresInOrder =>
       CASE store = "fields"    -> TRUE
         [] store = "is_taken"  -> "fields" \notin todo[t]
         [] store = "num_items" -> todo[t] = {"num_items"}

PublishItem(t, store) ==
  /\ pc[t] = "publish"
  /\ MayBecomeVisible(t, store)
  /\ todo' = [todo EXCEPT ![t] = @ \ {store}]
  /\ item' = IF store = "fields"
               THEN [item EXCEPT ![cur[t]][idx[t]] = mem[t]] ELSE item
  /\ is_taken' = IF store = "is_taken"
                   THEN [is_taken EXCEPT ![cur[t]][idx[t]] = 1] ELSE is_taken
  /\ num_items' = IF store = "num_items"
                    THEN [num_items EXCEPT ![cur[t]] = (@ + 1) % U8] ELSE num_items
  /\ IF todo[t] = {store}
       THEN UnlockThen(t, "align") /\ mem' = [mem EXCEPT ![t] = Zero]
       ELSE UNCHANGED <<pc, after, mem>>
  /\ UNCHANGED <<is_locked, next_locator_ptr, memoryVars, historyVars,
                 req, cur, idx, final, left>>

-----------------------------------------------------------------------------
\* LocatorHeader::get_next_locator

\* The first has_next_locator(), without the lock.
NextCheck(t) ==
  /\ pc[t] = "next"
  /\ Goto(t, IF next_locator_ptr[cur[t]] # NoHeader THEN "follow" ELSE "lockNext")
  /\ UNCHANGED <<headerVars, memoryVars, historyVars,
                 req, cur, idx, final, mem, todo, after, left>>

\* [Mutant] no second has_next_locator().
NextWithoutRecheck(t) ==
  /\ pc[t] = "recheckNext"
  /\ Goto(t, "allocNext")
  /\ UNCHANGED <<headerVars, memoryVars, historyVars,
                 req, cur, idx, final, mem, todo, after, left>>

\* The second has_next_locator(), with the lock held.
NextRecheck(t) ==
  /\ pc[t] = "recheckNext"
  /\ IF next_locator_ptr[cur[t]] # NoHeader
       THEN UnlockThen(t, "follow")
       ELSE Goto(t, "allocNext") /\ UNCHANGED after
  /\ UNCHANGED <<headerVars, memoryVars, historyVars,
                 req, cur, idx, final, mem, todo, left>>

\* [Mutant] the early return keeps the lock.
NextFailureKeepsLock(t) ==
  /\ pc[t] = "allocNext"
  /\ Return(t)
  /\ UNCHANGED <<headerVars, memoryVars, historyVars, req, cur, mem, todo, after, left>>

\* alloc::alloc::alloc returns null: get_buffer returns an error.
NextAllocationFails(t) ==
  /\ pc[t] = "allocNext"
  /\ UnlockThen(t, "idle")
  /\ idx' = [idx EXCEPT ![t] = 0]
  /\ final' = [final EXCEPT ![t] = 0]
  /\ UNCHANGED <<headerVars, memoryVars, historyVars, req, cur, mem, todo, left>>

\* alloc::alloc::alloc returns block n, holding whatever it held; the pointer
\* to it is stored, visible to every thread, before the block is initialised.
AllocateNext(t, n, contents) ==
  /\ pc[t] = "allocNext"
  /\ n \notin live
  /\ live' = live \cup {n}
  /\ num_items' = [num_items EXCEPT ![n] = contents.num_items]
  /\ is_locked' = [is_locked EXCEPT ![n] = contents.is_locked]
  /\ next_locator_ptr' = [next_locator_ptr EXCEPT ![n] = contents.next_locator_ptr,
                                                  ![cur[t]] = n]
  /\ item' = [item EXCEPT ![n] = contents.item]
  /\ is_taken' = [is_taken EXCEPT ![n] = contents.is_taken]
  /\ premature' = IF cur[t] \in premature THEN premature \cup {n} ELSE premature
  /\ Goto(t, "init")
  /\ UNCHANGED <<mapped, req, cur, idx, final, mem, todo, after, left,
                 ready, checked, stale, written, overwritten, abandoned>>

\* (*self.next_locator_ptr.value).initialize, first half: set_default_values.
SetDefaultValues(t) ==
  /\ pc[t] = "init"
  /\ LET n == next_locator_ptr[cur[t]]
     IN  /\ n \in Headers
         /\ next_locator_ptr' = [next_locator_ptr EXCEPT ![n] = NoHeader]
         /\ is_locked' = [is_locked EXCEPT ![n] = 0]
         /\ num_items' = [num_items EXCEPT ![n] = 0]
  /\ Goto(t, "fill")
  /\ UNCHANGED <<item, is_taken, memoryVars, historyVars,
                 req, cur, idx, final, mem, todo, after, left>>

\* Second half: initialize_remaining_space_as_buffers, then unlock.
InitializeRemainingSpaceAsBuffers(t) ==
  /\ pc[t] = "fill"
  /\ LET n == next_locator_ptr[cur[t]]
     IN  /\ n \in Headers
         /\ item' = [item EXCEPT ![n] = InitializedItems(n, @)]
         /\ is_taken' = [is_taken EXCEPT ![n] = InitializedLocks(@)]
         /\ num_items' = [num_items EXCEPT ![n] = NumPreallocated]
         /\ ready' = ready \cup {n}
  /\ UnlockThen(t, "follow")
  /\ UNCHANGED <<is_locked, next_locator_ptr, memoryVars,
                 req, cur, idx, final, mem, todo, left,
                 premature, checked, stale, written, overwritten, abandoned>>

\* get_buffer_recursive on the header get_next_locator returned.
Follow(t) ==
  /\ pc[t] = "follow"
  /\ LET n == next_locator_ptr[cur[t]]
     IN  /\ n \in Headers
         /\ cur' = [cur EXCEPT ![t] = n]
         /\ premature' = IF n \in ready THEN premature ELSE premature \cup {n}
  /\ Goto(t, "enter")
  /\ UNCHANGED <<headerVars, memoryVars, req, idx, final, mem, todo, after, left,
                 ready, checked, stale, written, overwritten, abandoned>>

-----------------------------------------------------------------------------
\* Memory errors, reachable through a header used before it is initialised: a
\* null or wild pointer is followed, or an item past the array is touched.
MemoryError(t) ==
  \/ pc[t] \in {"init", "fill", "follow"} /\ next_locator_ptr[cur[t]] \notin Headers
  \/ pc[t] = "scan" /\ idx[t] < final[t] /\ idx[t] \notin Slots
  \/ pc[t] = "allocate" /\ num_items[cur[t]] \notin Slots

Crash(t) ==
  /\ MemoryError(t)
  /\ Goto(t, "crashed")
  /\ UNCHANGED <<headerVars, memoryVars, historyVars,
                 req, cur, idx, final, mem, todo, after, left>>

\* What is left of the process after that is not modelled further.
Crashed == (\E t \in Threads : pc[t] = "crashed") /\ UNCHANGED vars

-----------------------------------------------------------------------------
\* The steps of a call under way.
CallStep(t) ==
  \/ Align(t)
  \/ ScanBegin(t)
  \/ ScanSkip(t)
  \/ ScanCandidate(t)
  \/ ScanEnd(t)
  \/ TryLockItem(t)
  \/ LockForAllocation(t)
  \/ LockForNext(t)
  \/ Unlock(t)
  \/ TryAllocateItem(t)
  \/ AllocationRecheck(t)
  \/ \E base \in 1 .. UsizeMax : AllocateItem(t, base)
  \/ AllocationFails(t)
  \/ AllocationPanics(t)
  \/ \E store \in {"fields", "is_taken", "num_items"} : PublishItem(t, store)
  \/ NextCheck(t)
  \/ NextRecheck(t)
  \/ NextAllocationFails(t)
  \/ \E n \in Headers, contents \in HeapContents : AllocateNext(t, n, contents)
  \/ SetDefaultValues(t)
  \/ InitializeRemainingSpaceAsBuffers(t)
  \/ Follow(t)
  \/ Crash(t)

\* What a client does between calls.
ClientStep(t) ==
  \/ \E r \in Requests : GetBuffer(t, r)
  \/ \E length \in 1 .. left[t] : AppendBytes(t, length) \/ AppendCopy(t, length)
  \/ Drop(t)

Next == (\E t \in Threads : CallStep(t) \/ ClientStep(t) \/ Spin(t)) \/ Crashed

Spec == Init /\ [][Next]_vars

\* A thread that is inside a call keeps running: the scheduler is fair to it,
\* and no more than that.  The spin lock is not fair, so no strong fairness.
FairSpec == Spec /\ \A t \in Threads : WF_vars(CallStep(t))

-----------------------------------------------------------------------------
\* Types

\* Every variable holds a value of its machine type (buffers.rs,
\* locator_header.rs, locator_item.rs); slots named by a thread exist.
TypeOK ==
  /\ num_items \in [Headers -> 0 .. U8 - 1]
  /\ is_locked \in [Headers -> 0..1]
  /\ next_locator_ptr \in [Headers -> Headers \cup {NoHeader, Wild}]
  /\ item \in [Headers -> [Slots -> ItemType]]
  /\ is_taken \in [Headers -> [Slots -> 0..1]]
  /\ live \subseteq Headers
  /\ mapped \subseteq Nat
  /\ pc \in [Threads -> Locations]
  /\ req \in [Threads -> RequestType]
  /\ cur \in [Threads -> Headers]
  /\ idx \in [Threads -> Nat]
  /\ \A t \in Threads : Owns(t) \/ pc[t] = "trylock" => idx[t] \in Slots
  /\ final \in [Threads -> Nat]
  /\ mem \in [Threads -> ItemType]
  /\ todo \in [Threads -> SUBSET {"fields", "is_taken", "num_items"}]
  /\ after \in [Threads -> {"idle", "next", "follow", "align"}]
  /\ left \in [Threads -> Nat]
  /\ ready \subseteq Headers
  /\ premature \subseteq Headers
  /\ checked \in [Threads -> Nat]
  /\ stale \in BOOLEAN
  /\ written \subseteq Nat
  /\ overwritten \in BOOLEAN
  /\ abandoned \subseteq Headers

-----------------------------------------------------------------------------
\* Properties
\*
\* Most are about sound headers: a header that some thread entered before its
\* initialisation was complete can end in any state.  EnteredWhenReady, the
\* claim that there is no such header, is stated apart.

Sound(h) == h \notin premature

Published(h) == {i \in Slots : i < num_items[h]}

\* No item was given out on an out-of-date can_use, and no header is unsound.
Undisturbed == ~stale /\ premature = {}

\* "Only one user may use a buffer at any time": the swap of try_lock and the
\* locked publication of try_allocate_item never give one slot to two threads.
ExclusiveUse ==
  \A t, u \in Threads :
    t # u /\ Owns(t) /\ Owns(u) /\ cur[t] = cur[u] /\ Sound(cur[t])
      => idx[t] # idx[u]

\* An item in use has an owner that will drop it, and only then: a failed
\* try_lock, whose swap has written 1 as well, never leaves an item locked for
\* good, and dropping never frees somebody else's item.
TakenIffOwned ==
  \A h \in ready : Sound(h) =>
    \A i \in Published(h) :
      is_taken[h][i] = 1 <=> \E t \in Threads : Owns(t) /\ cur[t] = h /\ idx[t] = i

\* The spin lock of a header excludes: between lock and unlock a thread is
\* alone, and the flag is up, which is the assertion in unlock; nobody inside
\* means the flag is down, unless a panic left it up, and then nobody gets in again.
HeaderLockExcludes ==
  \A h \in ready : Sound(h) =>
    LET inside == {t \in Threads : InLock(t) /\ cur[t] = h}
    IN  /\ Cardinality(inside) <= 1
        /\ is_locked[h] = 1 <=> inside # {} \/ h \in abandoned
        /\ h \in abandoned => inside = {}

\* Both is_full checks of try_allocate_item and both has_next_locator checks of
\* get_next_locator are needed to keep a thread inside the item array and off
\* null pointers; together they suffice.
NoMemoryError ==
  \A t \in Threads : Sound(cur[t]) => ~MemoryError(t)

\* get_next_locator links every header it allocates, once, and only behind a
\* full header: racing callers never lose one or append two.
ChainComplete ==
  premature = {} =>
    /\ \A n \in live \ {Root} : \E h \in live : next_locator_ptr[h] = n
    /\ \A h \in ready : next_locator_ptr[h] # NoHeader => IsFull(h)

\* The item a thread holds obeys its address limits, although can_use looked at
\* it before the lock: what changed since then can only be the position.
GrantInRange ==
  \A t \in Threads : pc[t] = "owned" /\ Sound(cur[t]) =>
    LET i == item[cur[t]][idx[t]]
    IN  WriteAddress(i) >= req[t].min /\ i.base + i.size <= req[t].max

\* "The library will ensure there's at least the requested amount of space":
\* as long as can_use was not out of date, what the thread has still to append
\* fits behind the position, alignment included.
PromisedSpace ==
  Undisturbed =>
    \A t \in Threads : pc[t] = "owned" =>
      item[cur[t]][idx[t]].position + left[t] <= item[cur[t]][idx[t]].size

\* The same with nothing set aside.
PromisedSpaceAlways ==
  \A t \in Threads : pc[t] = "owned" =>
    item[cur[t]][idx[t]].position + left[t] <= item[cur[t]][idx[t]].size

\* The first byte a client appends after get_buffer_aligned is aligned.
AlignedGrant ==
  \A t \in Threads :
    pc[t] = "owned" /\ Sound(cur[t]) /\ req[t].align # 0 /\ left[t] = req[t].size
      => WriteAddress(item[cur[t]][idx[t]]) % req[t].align = 0

\* "Allocated data never moves, or is overwritten": no append touches a byte an
\* earlier append wrote, through whichever item and header.
NeverOverwritten == Undisturbed => ~overwritten

\* A published item stays where it is and as long as it is, its position never
\* goes back, and it is never unpublished: other threads read all three without
\* any lock.
ItemsNeverMove ==
  [][\A h \in ready : Sound(h) =>
       \A i \in Published(h) :
         /\ i < num_items'[h]
         /\ item'[h][i].base = item[h][i].base
         /\ item'[h][i].size = item[h][i].size
         /\ item'[h][i].position >= item[h][i].position]_vars

\* "If this value is non-null, it is assumed that the next locator structure is
\* valid": no thread works on a header that is not initialised.
EnteredWhenReady == \A t \in Threads : InCall(t) => cur[t] \in ready

-----------------------------------------------------------------------------
\* Liveness

\* Whoever takes the lock of a header gives it back, on every path but a panic of
\* allocate, and a panic costs no header but the one it happened in.
LockReleased ==
  \A h \in Headers :
    is_locked[h] = 1 ~> (is_locked[h] = 0 \/ h \in abandoned \/ premature # {})

\* A call that never returns is starved by others that do return: the spin lock
\* is not fair, but the threads never all wait for one another.
NoLivelock ==
  \A t \in Threads :
    \/ []<>~InCall(t)
    \/ <>(premature # {} \/ abandoned # {})
    \/ \E u \in Threads \ {t} : []<>InCall(u) /\ []<>~InCall(u)
=============================================================================
