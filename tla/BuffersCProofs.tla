------------------------------ MODULE BuffersCProofs -----------------------------
(***************************************************************************)
(* Theorems about BuffersC: what LocatorHeaderProofs and LocatorChainProofs *)
(* show of the library still holds with the calls of the C API, and a      *)
(* client gets the space, the range and the alignment it asked for.        *)
(***************************************************************************)
EXTENDS BuffersC, LocatorChainProofs

-----------------------------------------------------------------------------
\* The inductive invariant

\* What a client holds: a result that agrees with the state of its call, and a pointer
\* to an item that is still there.
Held ==
  /\ result \in [Threads -> {"none", "ok", "err", "relocked"}]
  /\ kept \in [Threads -> (Headers \X Slots) \cup {NoItem}]
  /\ \A t \in Threads :
       /\ result[t] \in {"ok", "relocked"} <=> pc[t] = "owned"
       /\ pc[t] # "owned" => left[t] = 0
       /\ kept[t] # NoItem /\ Sound(kept[t][1]) =>
            kept[t][1] \in ready /\ kept[t][2] < num_items[kept[t][1]]

\* The size a request is searched with does not wrap around u32.
PaddedFits(r) == r.size + Larger(r.align - 1, 0) < U32

Padded == \A t \in Threads : PaddedFits(req[t])

\* An item ends inside the address space and its data inside the item.
InBounds(i) == i.base + i.size <= UsizeMax /\ i.position <= i.size

ItemsInBounds == \A h \in ready : \A i \in Published(h) : InBounds(item[h][i])

Suits(i, t) == CanUse(i, SizeOf(t), req[t].min, req[t].max)

\* What a thread has been promised, from the moment can_use accepts an item or allocate
\* returns one until the item is dropped.
PromiseTo(t) ==
  LET i == item[cur[t]][idx[t]]
  IN  /\ pc[t] = "trylock" => Suits([i EXCEPT !.position = checked[t]], t)
      /\ pc[t] = "publish" =>
           /\ InBounds(mem[t]) /\ Suits(mem[t], t)
           /\ "fields" \notin todo[t] => i = mem[t]
      /\ Owns(t) /\ pc[t] \notin {"owned", "publish"} => Suits(i, t)
      /\ pc[t] = "owned" =>
           /\ i.position + left[t] <= i.size
           /\ WriteAddress(i) >= req[t].min
           /\ i.base + i.size <= req[t].max
           /\ left[t] <= req[t].size
           /\ req[t].align # 0 /\ left[t] = req[t].size => WriteAddress(i) % req[t].align = 0

Promises == Undisturbed => ItemsInBounds /\ \A t \in Threads : PromiseTo(t)

InvC == ChainInv /\ Held

GrantInv == InvC /\ Padded /\ Promises

-----------------------------------------------------------------------------
\* The C API keeps the invariant of the chain

\* A step of the C API is a step of LocatorHeader, or one of the two operations that
\* only the C API has.
LEMMA StepsOfC ==
  ASSUME [NextC]_<<vars, cVars>>
  PROVE  \/ [Next]_vars
         \/ \E t \in Threads : LocatorItemTryLock(t)
         \/ \E t \in Threads, r \in Requests : LocatorItemCanUse(t, r)
  <1>1. CASE UNCHANGED <<vars, cVars>>
    BY <1>1
  <1>2. ASSUME NEW t \in Threads,
               BuffersGetBufferStep(t) \/ GetBufferOk(t) \/ GetBufferErr(t)
        PROVE  Next
    BY <1>2 DEF BuffersGetBufferStep, GetBufferOk, GetBufferErr, CallStep, Next
  <1>3. ASSUME NEW t \in Threads, ClientStepC(t)
        PROVE  \/ [Next]_vars
               \/ LocatorItemTryLock(t)
               \/ \E r \in Requests : LocatorItemCanUse(t, r)
    <2>1. CASE \E r \in Requests : BuffersGetBuffer(t, r)
      BY <2>1 DEF BuffersGetBuffer, ClientStep, Next
    <2>2. CASE \E length \in 1 .. left[t] : LocatorItemAppendBytes(t, length)
      BY <2>2 DEF LocatorItemAppendBytes, ClientStep, Next
    <2>3. CASE FreeGetBufferResult(t) \/ LocatorItemUnlock(t)
      BY <2>3 DEF FreeGetBufferResult, LocatorItemUnlock, FreeLocatorItem, FreeString,
         ClientStep, Next
    <2>. QED  BY <1>3, <2>1, <2>2, <2>3 DEF ClientStepC
  <1>. QED  BY <1>1, <1>2, <1>3 DEF NextC

\* Locking an item again through its pointer.
LEMMA RelockChain ==
  ASSUME InvC, NEW t \in Threads, LocatorItemTryLock(t)
  PROVE  ChainInv'
  <1> DEFINE h == kept[t][1]
             k == kept[t][2]
  <1> USE DEF headerVars, memoryVars, historyVars, Goto
  <1>0. /\ h \in Headers /\ k \in Slots
        /\ Sound(h) => h \in ready /\ k < num_items[h]
    BY DEF LocatorItemTryLock, InvC, Held, NoItem
  <1>1. /\ pc \in [Threads -> Locations]
        /\ cur \in [Threads -> Headers]
        /\ idx \in [Threads -> Nat]
        /\ after \in [Threads -> {"idle", "next", "follow", "align"}]
        /\ num_items \in [Headers -> Nat]
        /\ is_taken \in [Headers -> [Slots -> 0..1]]
        /\ ready \subseteq Headers
        /\ \A u \in Threads : Owns(u) => idx[u] \in Slots
    <2>1. 0 .. U8 - 1 \subseteq Nat
      BY DEF U8
    <2>. QED  BY <2>1 DEF InvC, ChainInv, Inv, TypeOK
  <1>2. /\ pc[t] = "idle" /\ is_taken[h][k] = 0
        /\ is_taken' = [is_taken EXCEPT ![h][k] = 1]
        /\ cur' = [cur EXCEPT ![t] = h]
        /\ idx' = [idx EXCEPT ![t] = k]
        /\ pc' = [pc EXCEPT ![t] = "owned"]
        /\ req' = [req EXCEPT ![t] = AnyRequest]
        /\ UNCHANGED <<num_items, is_locked, next_locator_ptr, item, live, mapped, ready,
                       premature, checked, stale, written, overwritten, abandoned,
                       final, mem, todo, after, left>>
    BY DEF LocatorItemTryLock
  <1> HIDE DEF h, k
  <1>3. TypeOK'
    <2>1. AnyRequest \in RequestType
      BY WordAssumption DEF AnyRequest, RequestType
    <2>2. is_taken' \in [Headers -> [Slots -> 0..1]]
      BY <1>0, <1>1, <1>2
    <2>3. \A u \in Threads : Owns(u)' \/ pc'[u] = "trylock" => idx'[u] \in Slots
      BY <1>0, <1>1, <1>2 DEF InvC, ChainInv, Inv, TypeOK, Owns
    <2>4. pc' \in [Threads -> Locations] /\ idx' \in [Threads -> Nat]
      BY <1>0, <1>1, <1>2 DEF Locations, Slots
    <2>. QED  BY <1>0, <1>1, <1>2, <2>1, <2>2, <2>3, <2>4 DEF InvC, ChainInv, Inv, TypeOK
  <1>4. FreshHeaders' /\ Links' /\ Initializing' /\ Locking'
    BY <1>0, <1>1, <1>2 DEF InvC, ChainInv, Inv, FreshHeaders, Links, Initializing, Locking,
       InLock, Sound
  <1>5. /\ \A u \in Threads \ {t} :
             /\ Owns(u)' <=> Owns(u)
             /\ pc'[u] = pc[u] /\ cur'[u] = cur[u] /\ idx'[u] = idx[u]
        /\ Owns(t)' /\ ~Owns(t)
        /\ pc'[t] = "owned" /\ cur'[t] = h /\ idx'[t] = k
    BY <1>1, <1>2 DEF Owns
  <1>6. /\ is_taken'[h][k] = 1
        /\ \A g \in Headers, i \in Slots : is_taken[g][i] = 1 => is_taken'[g][i] = 1
        /\ \A g \in Headers, i \in Slots :
             is_taken'[g][i] = 1 /\ ~(g = h /\ i = k) => is_taken[g][i] = 1
    BY <1>0, <1>1, <1>2
  <1>7. Owning'
    <2>1. Sound(h) => SlotOf(t)'
      BY <1>0, <1>2, <1>5, <1>6 DEF SlotOf
    <2>2. ASSUME NEW u \in Threads \ {t}, Sound(cur[u]) PROVE SlotOf(u)'
      <3>1. SlotOf(u) /\ idx[u] \in Nat /\ cur[u] \in Headers /\ (Owns(u) => idx[u] \in Slots)
        BY <1>1, <2>2 DEF InvC, ChainInv, Inv, Owning
      <3>2. Owns(u) /\ is_taken[cur[u]][idx[u]] = 1 => is_taken'[cur[u]][idx[u]] = 1
        BY <1>6, <3>1
      <3>. QED  BY <1>2, <1>5, <3>1, <3>2 DEF SlotOf, Owns
    <2>. QED  BY <1>2, <1>5, <2>1, <2>2 DEF Owning, Sound
  <1>8. ExclusiveUse'
    <2>1. ASSUME NEW u \in Threads \ {t}, Owns(u), cur[u] = h, Sound(h) PROVE idx[u] # k
      <3>1. CASE pc[u] = "publish"
        BY <1>0, <1>1, <2>1, <3>1 DEF InvC, ChainInv, Inv, Owning, SlotOf
      <3>2. CASE pc[u] # "publish"
        BY <1>0, <1>2, <2>1, <3>2 DEF InvC, ChainInv, Inv, Owning, SlotOf
      <3>. QED  BY <3>1, <3>2
    <2>. QED  BY <1>2, <1>5, <2>1 DEF InvC, ChainInv, Inv, ExclusiveUse, Sound
  <1>9. LockFlag'
    <2>1. LocksKept
      BY <1>1, <1>2 DEF LocksKept, InLock
    <2>. QED  BY <2>1, LocksKeptKeeps DEF InvC, ChainInv
  <1>10. HalfInitialized' /\ WellFormed' /\ Linked'
    BY <1>1, <1>2 DEF InvC, ChainInv, HalfInitialized, WellFormed, Linked, Sound, IsFull
  <1>11. Rechecked'
    BY <1>1, <1>2 DEF InvC, ChainInv, Rechecked, StillTrue, Sound, IsFull
  <1>12. Taken'
    BY <1>1, <1>2, <1>5, <1>6 DEF InvC, ChainInv, Taken, Published, Sound
  <1>. QED
    BY <1>3, <1>4, <1>7, <1>8, <1>9, <1>10, <1>11, <1>12 DEF ChainInv, Inv

\* Asking can_use about an item one holds changes nothing that is shared.
LEMMA CanUseChain ==
  ASSUME InvC, NEW t \in Threads, NEW r \in Requests, LocatorItemCanUse(t, r)
  PROVE  ChainInv'
  <1> USE DEF headerVars, memoryVars, historyVars, cVars
  <1>1. TypeOK'
    <2>1. [r EXCEPT !.align = 0] \in RequestType /\ r.size \in Nat
      BY InputAssumption, WordAssumption DEF RequestType
    <2>. QED  BY <2>1 DEF LocatorItemCanUse, InvC, ChainInv, Inv, TypeOK, Owns
  <1>2. QuietStep
    BY DEF LocatorItemCanUse, QuietStep, LocksKept, ItemsKept, InLock, Owns
  <1>3. LockFlag' /\ HalfInitialized' /\ WellFormed' /\ Linked' /\ Taken'
    BY <1>2, QuietStepKeeps DEF InvC
  <1>4. Rechecked'
    BY DEF LocatorItemCanUse, InvC, ChainInv, Rechecked, StillTrue, Sound, IsFull
  <1>5. FreshHeaders' /\ Links' /\ Initializing' /\ Locking' /\ Owning' /\ ExclusiveUse'
    BY DEF LocatorItemCanUse, InvC, ChainInv, Inv, FreshHeaders, Links, Initializing, Locking,
       Owning, SlotOf, ExclusiveUse, InLock, Owns, Sound
  <1>. QED  BY <1>1, <1>3, <1>4, <1>5 DEF ChainInv, Inv

-----------------------------------------------------------------------------
\* What one thread can do to the others

\* The steps of BuffersC that change what LocatorHeader describes.
StepOf(t) ==
  \/ CallStep(t)
  \/ \E r \in Requests : GetBuffer(t, r)
  \/ \E length \in 1 .. left[t] : AppendBytes(t, length)
  \/ Drop(t)
  \/ LocatorItemTryLock(t)
  \/ \E r \in Requests : LocatorItemCanUse(t, r)

\* Every step that changes the headers or the locals is a step of one thread.
LEMMA ThreadOfStep ==
  ASSUME [NextC]_<<vars, cVars>>
  PROVE  UNCHANGED vars \/ \E t \in Threads : StepOf(t)
  <1>1. CASE UNCHANGED <<vars, cVars>>
    BY <1>1
  <1>2. ASSUME NEW t \in Threads,
               BuffersGetBufferStep(t) \/ GetBufferOk(t) \/ GetBufferErr(t)
        PROVE  StepOf(t)
    BY <1>2 DEF BuffersGetBufferStep, GetBufferOk, GetBufferErr, CallStep, StepOf
  <1>3. ASSUME NEW t \in Threads, ClientStepC(t)
        PROVE  UNCHANGED vars \/ StepOf(t)
    BY <1>3 DEF ClientStepC, BuffersGetBuffer, LocatorItemAppendBytes, FreeGetBufferResult,
       LocatorItemUnlock, FreeLocatorItem, FreeString, StepOf
  <1>. QED  BY <1>1, <1>2, <1>3 DEF NextC

\* A thread changes its own locals only.
LEMMA OthersKeepTheirs ==
  ASSUME TypeOK, NEW t \in Threads, StepOf(t), NEW u \in Threads \ {t}
  PROVE  /\ pc'[u] = pc[u] /\ req'[u] = req[u] /\ cur'[u] = cur[u] /\ idx'[u] = idx[u]
         /\ mem'[u] = mem[u] /\ todo'[u] = todo[u] /\ after'[u] = after[u]
         /\ left'[u] = left[u] /\ checked'[u] = checked[u]
  <1> USE DEF TypeOK, headerVars, memoryVars, historyVars, Goto
  <1>1. CASE CallStep(t)
    <2>1. CASE Align(t) \/ ScanBegin(t) \/ ScanSkip(t) \/ ScanCandidate(t) \/ ScanEnd(t)
      BY <2>1 DEF Align, ScanBegin, ScanSkip, ScanCandidate, ScanEnd
    <2>2. CASE TryLockItem(t)
      BY <2>2 DEF TryLockItem
    <2>3. CASE LockForAllocation(t) \/ LockForNext(t) \/ Unlock(t)
      BY <2>3 DEF LockForAllocation, LockForNext, Lock, Unlock
    <2>4. CASE TryAllocateItem(t) \/ AllocationRecheck(t)
      BY <2>4 DEF TryAllocateItem, AllocationRecheck, UnlockThen
    <2>5. CASE AllocationFails(t) \/ AllocationPanics(t)
      BY <2>5 DEF AllocationFails, AllocationPanics, UnlockThen, Return
    <2>6. ASSUME NEW base, AllocateItem(t, base)
          PROVE  /\ pc'[u] = pc[u] /\ idx'[u] = idx[u] /\ mem'[u] = mem[u] /\ todo'[u] = todo[u]
                 /\ UNCHANGED <<req, cur, after, left, checked>>
      BY <2>6 DEF AllocateItem
    <2>7. ASSUME NEW store, PublishItem(t, store)
          PROVE  /\ pc'[u] = pc[u] /\ after'[u] = after[u] /\ mem'[u] = mem[u]
                 /\ todo'[u] = todo[u] /\ UNCHANGED <<req, cur, idx, left, checked>>
      BY <2>7 DEF PublishItem, UnlockThen
    <2>8. CASE NextCheck(t) \/ NextRecheck(t) \/ NextAllocationFails(t)
      BY <2>8 DEF NextCheck, NextRecheck, NextAllocationFails, UnlockThen
    <2>9. ASSUME NEW n, NEW contents, AllocateNext(t, n, contents)
          PROVE  /\ pc'[u] = pc[u]
                 /\ UNCHANGED <<req, cur, idx, mem, todo, after, left, checked>>
      BY <2>9 DEF AllocateNext
    <2>10. CASE SetDefaultValues(t) \/ InitializeRemainingSpaceAsBuffers(t) \/ Follow(t) \/ Crash(t)
      BY <2>10
      DEF SetDefaultValues, InitializeRemainingSpaceAsBuffers, Follow, Crash, UnlockThen
    <2>. QED
      BY <1>1, <2>1, <2>2, <2>3, <2>4, <2>5, <2>6, <2>7, <2>8, <2>9, <2>10 DEF CallStep
  <1>2. CASE \/ \E r \in Requests : GetBuffer(t, r)
             \/ \E length \in 1 .. left[t] : AppendBytes(t, length)
             \/ Drop(t)
    BY <1>2 DEF GetBuffer, AppendBytes, Store, Drop, Return
  <1>3. CASE LocatorItemTryLock(t) \/ \E r \in Requests : LocatorItemCanUse(t, r)
    BY <1>3 DEF LocatorItemTryLock, LocatorItemCanUse
  <1>. QED  BY <1>1, <1>2, <1>3 DEF StepOf

\* Only the owner of a slot writes to it, whoever else looks at it, and once an item is
\* published even the owner moves its position only.
LEMMA OnlyOwnersWrite ==
  ASSUME StoresInOrder, ChainInv, NEW t \in Threads, StepOf(t), NEW h \in ready, Sound(h)
  PROVE  /\ num_items'[h] >= num_items[h]
         /\ \A i \in Slots : ~(Owns(t) /\ cur[t] = h /\ idx[t] = i) => item'[h][i] = item[h][i]
         /\ \A i \in Published(h) : /\ item'[h][i].base = item[h][i].base
                                    /\ item'[h][i].size = item[h][i].size
  <1> USE DEF headerVars, memoryVars, historyVars
  <1>0. /\ h \in Headers /\ h \in live
        /\ num_items \in [Headers -> Nat]
        /\ item \in [Headers -> [Slots -> ItemType]]
        /\ cur[t] \in Headers
        /\ Owns(t) => idx[t] \in Slots
    <2>1. 0 .. U8 - 1 \subseteq Nat
      BY DEF U8
    <2>. QED  BY <2>1 DEF ChainInv, Inv, TypeOK, FreshHeaders
  <1>1. CASE UNCHANGED <<num_items, item>>
    BY <1>0, <1>1 DEF Published
  <1>2. CASE CallStep(t)
    <2>1. CASE Align(t)
      <3>1. item' = [item EXCEPT ![cur[t]][idx[t]] = AlignedItem(@, req[t].align)]
            /\ num_items' = num_items /\ Owns(t)
        BY <2>1 DEF Align, Owns
      <3>2. \A i \in Slots : item[h][i] \in ItemType
        BY <1>0
      <3>. QED  BY <1>0, <3>1, <3>2 DEF Published, AlignedItem, ItemType
    <2>2. ASSUME NEW store \in {"fields", "is_taken", "num_items"}, PublishItem(t, store)
          PROVE  /\ num_items'[h] >= num_items[h]
                 /\ \A i \in Slots :
                      ~(Owns(t) /\ cur[t] = h /\ idx[t] = i) => item'[h][i] = item[h][i]
                 /\ \A i \in Published(h) : item'[h][i] = item[h][i]
      <3>1. pc[t] = "publish" /\ Owns(t)
        BY <2>2 DEF PublishItem, Owns
      <3>2. num_items'[h] >= num_items[h]
        <4>1. CASE store = "num_items" /\ h = cur[t]
          <5>1. num_items'[h] = num_items[h] + 1
            BY <2>2, <4>1, PublishCounts DEF ChainInv
          <5>. QED  BY <1>0, <5>1
        <4>2. CASE ~(store = "num_items" /\ h = cur[t])
          BY <1>0, <2>2, <4>2 DEF PublishItem
        <4>. QED  BY <4>1, <4>2
      <3>3. ASSUME NEW i \in Slots, ~(cur[t] = h /\ idx[t] = i) PROVE item'[h][i] = item[h][i]
        <4>1. CASE store = "fields"
          <5>1. item' = [item EXCEPT ![cur[t]][idx[t]] = mem[t]]
            BY <2>2, <4>1 DEF PublishItem
          <5>. QED  BY <1>0, <3>1, <3>3, <5>1
        <4>2. CASE store # "fields"
          BY <2>2, <4>2 DEF PublishItem
        <4>. QED  BY <4>1, <4>2
      <3>4. ASSUME NEW i \in Published(h) PROVE ~(cur[t] = h /\ idx[t] = i)
        BY <1>0, <3>1 DEF Published, ChainInv, Inv, Owning, SlotOf
      <3>. QED  BY <3>1, <3>2, <3>3, <3>4 DEF Published
    <2>3. ASSUME NEW n \in Headers, NEW contents \in HeapContents, AllocateNext(t, n, contents)
          PROVE  num_items'[h] = num_items[h] /\ item'[h] = item[h]
      BY <1>0, <2>3 DEF AllocateNext
    <2>4. CASE SetDefaultValues(t)
      <3>1. num_items'[h] = num_items[h] /\ item'[h] = item[h]
        <4>1. next_locator_ptr[cur[t]] \notin ready \/ ~Sound(cur[t])
          BY <2>4 DEF SetDefaultValues, ChainInv, Inv, Initializing
        <4>2. next_locator_ptr[cur[t]] = h => Sound(cur[t])
          BY <1>0 DEF ChainInv, Inv, Links
        <4>. QED  BY <1>0, <2>4, <4>1, <4>2 DEF SetDefaultValues
      <3>. QED  BY <1>0, <3>1
    <2>5. CASE InitializeRemainingSpaceAsBuffers(t)
      <3>1. num_items'[h] = num_items[h] /\ item'[h] = item[h]
        <4>1. next_locator_ptr[cur[t]] \notin ready \/ ~Sound(cur[t])
          BY <2>5 DEF InitializeRemainingSpaceAsBuffers, ChainInv, Inv, Initializing
        <4>2. next_locator_ptr[cur[t]] = h => Sound(cur[t])
          BY <1>0 DEF ChainInv, Inv, Links
        <4>. QED  BY <1>0, <2>5, <4>1, <4>2 DEF InitializeRemainingSpaceAsBuffers
      <3>. QED  BY <1>0, <3>1
    <2>6. CASE \/ ScanBegin(t) \/ ScanSkip(t) \/ ScanCandidate(t) \/ ScanEnd(t)
               \/ TryLockItem(t) \/ LockForAllocation(t) \/ LockForNext(t) \/ Unlock(t)
               \/ TryAllocateItem(t) \/ AllocationRecheck(t)
               \/ \E base \in 1 .. UsizeMax : AllocateItem(t, base)
               \/ AllocationFails(t) \/ AllocationPanics(t)
               \/ NextCheck(t) \/ NextRecheck(t) \/ NextAllocationFails(t)
               \/ Follow(t) \/ Crash(t)
      BY <1>1, <2>6 DEF ScanBegin, ScanSkip, ScanCandidate, ScanEnd, TryLockItem,
         LockForAllocation, LockForNext, Lock, Unlock, TryAllocateItem, AllocationRecheck,
         AllocateItem, AllocationFails, AllocationPanics, NextCheck, NextRecheck,
         NextAllocationFails, Follow, Crash
    <2>. QED  BY <1>0, <1>2, <2>1, <2>2, <2>3, <2>4, <2>5, <2>6, SMTT(60) DEF CallStep, Published
  <1>3. ASSUME NEW length \in 1 .. left[t], AppendBytes(t, length)
        PROVE  /\ num_items' = num_items
               /\ \A i \in Slots :
                    ~(Owns(t) /\ cur[t] = h /\ idx[t] = i) => item'[h][i] = item[h][i]
               /\ \A i \in Published(h) : /\ item'[h][i].base = item[h][i].base
                                          /\ item'[h][i].size = item[h][i].size
    <2>1. /\ num_items' = num_items
          /\ item' = [item EXCEPT ![cur[t]][idx[t]] = AppendedItem(@, length)]
          /\ Owns(t)
      BY <1>3 DEF AppendBytes, Store, Owns
    <2>2. \A i \in Slots : item[h][i] \in ItemType
      BY <1>0
    <2>. QED  BY <1>0, <2>1, <2>2 DEF Published, AppendedItem, ItemType
  <1>5. CASE Drop(t) \/ \E r \in Requests : GetBuffer(t, r)
    BY <1>1, <1>5 DEF Drop, GetBuffer
  <1>4. CASE LocatorItemTryLock(t) \/ \E r \in Requests : LocatorItemCanUse(t, r)
    BY <1>1, <1>4 DEF LocatorItemTryLock, LocatorItemCanUse
  <1>. QED  BY <1>0, <1>2, <1>3, <1>4, <1>5 DEF StepOf

\* Headers stay initialised, and what has gone wrong stays on record.
LEMMA HistoryGrows ==
  ASSUME NEW t \in Threads, StepOf(t)
  PROVE  /\ ready \subseteq ready' /\ premature \subseteq premature'
         /\ stale => stale'
         /\ abandoned \subseteq abandoned'
  <1> USE DEF headerVars, memoryVars, historyVars
  <1>1. CASE CallStep(t)
    <2>1. CASE \/ Align(t) \/ ScanBegin(t) \/ ScanSkip(t) \/ ScanCandidate(t) \/ ScanEnd(t)
               \/ LockForAllocation(t) \/ LockForNext(t) \/ Unlock(t)
               \/ TryAllocateItem(t) \/ AllocationRecheck(t)
               \/ \E base \in 1 .. UsizeMax : AllocateItem(t, base)
               \/ AllocationFails(t) \/ AllocationPanics(t)
               \/ \E store \in {"fields", "is_taken", "num_items"} : PublishItem(t, store)
               \/ NextCheck(t) \/ NextRecheck(t) \/ NextAllocationFails(t)
               \/ SetDefaultValues(t) \/ InitializeRemainingSpaceAsBuffers(t) \/ Crash(t)
      BY <2>1 DEF Align, ScanBegin, ScanSkip, ScanCandidate, ScanEnd,
         LockForAllocation, LockForNext, Lock, Unlock, TryAllocateItem, AllocationRecheck,
         AllocateItem, AllocationFails, AllocationPanics, PublishItem, NextCheck, NextRecheck,
         NextAllocationFails, SetDefaultValues, InitializeRemainingSpaceAsBuffers, Crash
    <2>2. CASE TryLockItem(t)
      <3>1. UNCHANGED <<ready, premature, abandoned>>
        BY <2>2 DEF TryLockItem
      <3>2. stale => stale'
        BY <2>2, Zenon DEF TryLockItem
      <3>. QED  BY <3>1, <3>2
    <2>3. ASSUME NEW n, NEW contents, AllocateNext(t, n, contents)
          PROVE  UNCHANGED <<ready, stale, abandoned>> /\ premature \subseteq premature'
      BY <2>3 DEF AllocateNext
    <2>4. CASE Follow(t)
      BY <2>4 DEF Follow
    <2>. QED  BY <1>1, <2>1, <2>2, <2>3, <2>4 DEF CallStep
  <1>2. CASE \/ \E r \in Requests : GetBuffer(t, r)
             \/ \E length \in 1 .. left[t] : AppendBytes(t, length)
             \/ Drop(t)
    <2>1. UNCHANGED <<ready, premature, stale, abandoned>>
      BY <1>2 DEF GetBuffer, AppendBytes, Store, Drop
    <2>. QED  BY <2>1
  <1>3. CASE LocatorItemTryLock(t) \/ \E r \in Requests : LocatorItemCanUse(t, r)
    BY <1>3 DEF LocatorItemTryLock, LocatorItemCanUse
  <1>. QED  BY <1>1, <1>2, <1>3 DEF StepOf

\* A client's pointer stays a pointer to a published item.
LEMMA KeptStays ==
  ASSUME StoresInOrder, ChainInv, NEW t \in Threads, StepOf(t),
         NEW h \in Headers, NEW i \in Slots,
         Sound(h) => h \in ready /\ i < num_items[h],
         ChainInv', Sound(h)'
  PROVE  h \in ready' /\ i < num_items'[h]
  <1>1. Sound(h)
    BY HistoryGrows DEF Sound
  <1>2. num_items'[h] >= num_items[h]
    BY <1>1, OnlyOwnersWrite
  <1>3. num_items[h] \in Nat /\ num_items'[h] \in Nat
    <2>1. 0 .. U8 - 1 \subseteq Nat
      BY DEF U8
    <2>. QED  BY <2>1 DEF ChainInv, Inv, TypeOK
  <1>. QED  BY <1>1, <1>2, <1>3, HistoryGrows DEF Slots

\* A call under way is inside get_buffer, and only its last step, Align, gives the
\* client an item.
LEMMA InsideCall ==
  ASSUME TypeOK, NEW t \in Threads, CallStep(t)
  PROVE  /\ pc[t] \notin {"idle", "owned", "crashed"}
         /\ ~Align(t) => pc'[t] # "owned" /\ left' = left
  <1> USE DEF headerVars, memoryVars, historyVars, Goto, Locations
  <1>0. /\ pc \in [Threads -> Locations] /\ left \in [Threads -> Nat]
        /\ after \in [Threads -> {"idle", "next", "follow", "align"}]
    BY DEF TypeOK
  <1>1. CASE Align(t)
    BY <1>1 DEF Align
  <1>2. CASE \/ ScanBegin(t) \/ ScanSkip(t) \/ ScanCandidate(t) \/ ScanEnd(t)
             \/ LockForAllocation(t) \/ LockForNext(t)
    BY <1>0, <1>2 DEF ScanBegin, ScanSkip, ScanCandidate, ScanEnd, LockForAllocation,
       LockForNext, Lock
  <1>3. CASE TryLockItem(t) \/ TryAllocateItem(t) \/ AllocationRecheck(t)
    BY <1>0, <1>3 DEF TryLockItem, TryAllocateItem, AllocationRecheck, UnlockThen
  <1>4. CASE Unlock(t)
    BY <1>0, <1>4 DEF Unlock
  <1>5. CASE AllocationFails(t) \/ AllocationPanics(t) \/ NextCheck(t) \/ NextRecheck(t)
             \/ NextAllocationFails(t)
    BY <1>0, <1>5 DEF AllocationFails, AllocationPanics, NextCheck, NextRecheck,
       NextAllocationFails, UnlockThen, Return
  <1>6. CASE SetDefaultValues(t) \/ InitializeRemainingSpaceAsBuffers(t) \/ Follow(t)
             \/ Crash(t)
    BY <1>0, <1>6 DEF SetDefaultValues, InitializeRemainingSpaceAsBuffers, Follow, Crash,
       MemoryError, UnlockThen
  <1>7. CASE \E base \in 1 .. UsizeMax : AllocateItem(t, base)
    BY <1>0, <1>7 DEF AllocateItem
  <1>8. CASE \E store \in {"fields", "is_taken", "num_items"} : PublishItem(t, store)
    BY <1>0, <1>8 DEF PublishItem, UnlockThen
  <1>9. CASE \E n \in Headers, contents \in HeapContents : AllocateNext(t, n, contents)
    BY <1>0, <1>9 DEF AllocateNext
  <1>. QED
    BY <1>1, <1>2, <1>3, <1>4, <1>5, <1>6, <1>7, <1>8, <1>9 DEF CallStep

\* What a step of the C API does to the results and pointers of its clients.
LEMMA NextHeld ==
  ASSUME StoresInOrder, InvC, ChainInv', [NextC]_<<vars, cVars>>
  PROVE  Held'
  <1>0. /\ pc \in [Threads -> Locations] /\ left \in [Threads -> Nat]
        /\ cur \in [Threads -> Headers] /\ num_items \in [Headers -> Nat]
        /\ after \in [Threads -> {"idle", "next", "follow", "align"}]
        /\ TypeOK
    <2>1. 0 .. U8 - 1 \subseteq Nat
      BY DEF U8
    <2>. QED  BY <2>1 DEF InvC, ChainInv, Inv, TypeOK
  <1>h. Held
    BY DEF InvC
  <1>1. CASE UNCHANGED <<vars, cVars>>
    BY <1>h, <1>1 DEF Held, Sound, vars, cVars, headerVars, memoryVars, threadVars, historyVars
  \* Any step that gives no new pointer.
  <1>2. ASSUME NEW t \in Threads, StepOf(t), UNCHANGED kept,
               result' \in [Threads -> {"none", "ok", "err", "relocked"}],
               result'[t] \in {"ok", "relocked"} <=> pc'[t] = "owned",
               pc'[t] # "owned" => left'[t] = 0,
               \A u \in Threads \ {t} : result'[u] = result[u]
        PROVE  Held'
    <2>1. ASSUME NEW u \in Threads, kept[u] # NoItem, Sound(kept[u][1])'
          PROVE  kept[u][1] \in ready' /\ kept[u][2] < num_items'[kept[u][1]]
      <3>1. /\ kept[u][1] \in Headers /\ kept[u][2] \in Slots
            /\ Sound(kept[u][1]) => /\ kept[u][1] \in ready
                                    /\ kept[u][2] < num_items[kept[u][1]]
        BY <1>h, <2>1 DEF Held
      <3>. QED  BY <1>2, <2>1, <3>1, KeptStays DEF InvC
    <2>2. ASSUME NEW u \in Threads \ {t}
          PROVE  /\ result'[u] \in {"ok", "relocked"} <=> pc'[u] = "owned"
                 /\ pc'[u] # "owned" => left'[u] = 0
      BY <1>h, <1>0, <1>2, OthersKeepTheirs DEF Held
    <2>. QED  BY <1>h, <1>2, <2>1, <2>2 DEF Held
  <1> USE DEF headerVars, memoryVars, historyVars, Goto, cVars, Becomes
  <1>3. ASSUME NEW t \in Threads, BuffersGetBufferStep(t) PROVE Held'
    <2>1. CallStep(t) /\ UNCHANGED cVars /\ StepOf(t)
      BY <1>3 DEF BuffersGetBufferStep, StepOf
    <2>2. pc[t] # "owned" /\ pc'[t] # "owned" /\ left'[t] = left[t]
      BY <1>0, <2>1, <1>3, InsideCall DEF BuffersGetBufferStep, Returning, Align
    <2>3. result'[t] \notin {"ok", "relocked"} /\ left'[t] = 0
      BY <1>h, <2>1, <2>2 DEF Held
    <2>. QED  BY <1>h, <1>2, <2>1, <2>2, <2>3 DEF Held
  <1>4. ASSUME NEW t \in Threads, GetBufferOk(t) PROVE Held'
    <2>1. /\ Align(t) /\ StepOf(t) /\ pc[t] = "align" /\ pc'[t] = "owned"
          /\ result' = [result EXCEPT ![t] = "ok"]
          /\ kept' = [kept EXCEPT ![t] = <<cur[t], idx[t]>>]
          /\ UNCHANGED <<ready, premature, num_items>>
      BY <1>0, <1>4 DEF GetBufferOk, Align, StepOf, CallStep
    <2>2. /\ cur[t] \in Headers /\ idx[t] \in Slots
          /\ Sound(cur[t]) => cur[t] \in ready /\ idx[t] < num_items[cur[t]]
      BY <2>1 DEF InvC, ChainInv, Inv, TypeOK, FreshHeaders, Owning, SlotOf, Owns
    <2>3. ASSUME NEW u \in Threads \ {t}
          PROVE  pc'[u] = pc[u] /\ left'[u] = left[u] /\ kept'[u] = kept[u]
                 /\ result'[u] = result[u]
      BY <1>h, <1>0, <2>1, OthersKeepTheirs DEF Held
    <2>4. kept' \in [Threads -> (Headers \X Slots) \cup {NoItem}] /\ kept'[t] = <<cur[t], idx[t]>>
      BY <1>h, <2>1, <2>2 DEF Held
    <2>5. result' \in [Threads -> {"none", "ok", "err", "relocked"}] /\ result'[t] = "ok"
      BY <1>h, <2>1 DEF Held
    <2>6. ASSUME NEW u \in Threads, kept'[u] # NoItem, kept'[u][1] \notin premature'
          PROVE  kept'[u][1] \in ready' /\ kept'[u][2] < num_items'[kept'[u][1]]
      <3>1. CASE u = t
        BY <2>1, <2>2, <2>4, <2>6, <3>1 DEF Sound
      <3>2. CASE u # t
        BY <1>h, <2>1, <2>3, <2>6, <3>2 DEF Held, Sound
      <3>. QED  BY <3>1, <3>2
    <2>. QED  BY <1>h, <2>1, <2>3, <2>4, <2>5, <2>6 DEF Held, Sound
  <1>5. ASSUME NEW t \in Threads, GetBufferErr(t) PROVE Held'
    <2>1. /\ StepOf(t) /\ UNCHANGED <<kept, left>> /\ pc[t] = "unlock" /\ pc'[t] = "idle"
          /\ result' = [result EXCEPT ![t] = "err"]
      BY <1>0, <1>5 DEF GetBufferErr, Unlock, StepOf, CallStep
    <2>2. left'[t] = 0 /\ result'[t] = "err" /\ \A u \in Threads \ {t} : result'[u] = result[u]
      BY <1>h, <2>1 DEF Held
    <2>3. result' \in [Threads -> {"none", "ok", "err", "relocked"}]
      BY <1>h, <2>1 DEF Held
    <2>. QED  BY <1>2, <2>1, <2>2, <2>3
  <1>6. ASSUME NEW t \in Threads, ClientStepC(t) PROVE Held'
    <2>1. ASSUME NEW r \in Requests, BuffersGetBuffer(t, r) PROVE Held'
      <3>1. /\ StepOf(t) /\ UNCHANGED <<kept, result, left>>
            /\ pc[t] = "idle" /\ pc'[t] = "enter"
        BY <1>0, <2>1 DEF BuffersGetBuffer, GetBuffer, StepOf
      <3>. QED  BY <1>h, <1>2, <3>1 DEF Held
    <2>2. ASSUME NEW r \in Requests, LocatorItemCanUse(t, r) PROVE Held'
      <3>1. StepOf(t) /\ UNCHANGED <<kept, result, pc>> /\ result[t] = "relocked"
        BY <2>2 DEF LocatorItemCanUse, StepOf
      <3>. QED  BY <1>h, <1>2, <3>1 DEF Held
    <2>3. ASSUME NEW length \in 1 .. left[t], LocatorItemAppendBytes(t, length) PROVE Held'
      <3>1. StepOf(t) /\ UNCHANGED <<kept, result, pc>> /\ pc[t] = "owned"
        BY <2>3 DEF LocatorItemAppendBytes, AppendBytes, Store, StepOf
      <3>. QED  BY <1>h, <1>2, <3>1 DEF Held
    <2>4. CASE FreeLocatorItem(t)
      <3>1. /\ StepOf(t) /\ UNCHANGED kept /\ pc'[t] = "idle" /\ left'[t] = 0
            /\ result' = [result EXCEPT ![t] = "none"]
        BY <1>0, <2>4 DEF FreeLocatorItem, Drop, Return, StepOf
      <3>2. result'[t] = "none" /\ \A u \in Threads \ {t} : result'[u] = result[u]
        BY <1>h, <3>1 DEF Held
      <3>3. result' \in [Threads -> {"none", "ok", "err", "relocked"}]
        BY <1>h, <3>1 DEF Held
      <3>. QED  BY <1>2, <3>1, <3>2, <3>3
    <2>5. CASE result[t] = "err" /\ FreeString(t)
      <3>1. UNCHANGED <<vars, kept>> /\ result' = [result EXCEPT ![t] = "none"]
        BY <2>5 DEF FreeString
      <3>2. UNCHANGED <<pc, left, ready, premature, num_items, kept>>
        BY <3>1 DEF vars, threadVars
      <3>. QED  BY <1>h, <2>5, <3>1, <3>2 DEF Held, Sound
    <2>6. CASE LocatorItemTryLock(t)
      <3>1. /\ StepOf(t) /\ UNCHANGED kept /\ pc'[t] = "owned"
            /\ result' = [result EXCEPT ![t] = "relocked"]
        BY <1>0, <2>6 DEF LocatorItemTryLock, StepOf
      <3>2. result'[t] = "relocked" /\ \A u \in Threads \ {t} : result'[u] = result[u]
        BY <1>h, <3>1 DEF Held
      <3>3. result' \in [Threads -> {"none", "ok", "err", "relocked"}]
        BY <1>h, <3>1 DEF Held
      <3>. QED  BY <1>2, <3>1, <3>2, <3>3
    <2>7. CASE FreeGetBufferResult(t) \/ LocatorItemUnlock(t)
      BY <2>4, <2>5, <2>7 DEF FreeGetBufferResult, LocatorItemUnlock
    <2>. QED  BY <1>6, <2>1, <2>2, <2>3, <2>6, <2>7 DEF ClientStepC
  <1>. QED  BY <1>1, <1>3, <1>4, <1>5, <1>6 DEF NextC

\* The invariant of the C API is inductive.
LEMMA InitInvC == InitC => InvC
  <1> SUFFICES ASSUME InitC PROVE InvC
    OBVIOUS
  <1>1. ChainInv
    BY InitChain DEF InitC
  <1>2. Held
    BY DEF InitC, Init, Held
  <1>. QED  BY <1>1, <1>2 DEF InvC

\* Every step of the C API keeps the invariant of the chain and of what clients hold.
LEMMA NextInvC ==
  ASSUME StoresInOrder, InvC, [NextC]_<<vars, cVars>>
  PROVE  InvC'
  <1>1. ChainInv'
    BY StepsOfC, NextChain, RelockChain, CanUseChain DEF InvC
  <1>. QED  BY <1>1, NextHeld DEF InvC

-----------------------------------------------------------------------------
\* What can_use, alignment and appending do to an item

\* can_use of an item that is not overfull: the size fits behind the position.
LEMMA CanUseMeans ==
  ASSUME NEW i \in ItemType, i.position <= i.size,
         NEW size \in 0 .. U32 - 1, NEW min \in Nat, NEW max \in Nat,
         CanUse(i, size, min, max)
  PROVE  /\ i.position + size <= i.size
         /\ WriteAddress(i) >= min
         /\ i.base + i.size <= UsizeMax => i.base + i.size <= max
  <1>0. i.base \in Nat /\ i.size \in 0 .. U32 - 1 /\ i.position \in 0 .. U32 - 1
        /\ U32 \in Nat /\ UsizeMax \in Nat
    BY WordAssumption DEF ItemType
  <1>1. i.size - i.position \in 0 .. U32 - 1
    BY <1>0
  <1>2. \A n \in 0 .. U32 - 1 : n % U32 = n
    BY WordAssumption
  <1>3. BytesLeft(i) = i.size - i.position
    BY <1>1, <1>2 DEF BytesLeft
  <1>4. i.position + size <= i.size
    BY <1>0, <1>3 DEF CanUse
  <1>5. WriteAddress(i) >= min
    BY DEF CanUse, WriteAddress
  <1>6. i.base + i.size <= UsizeMax => i.base + i.size <= max
    BY <1>0 DEF CanUse, AddWithOverflowCap, Smaller
  <1>. QED  BY <1>4, <1>5, <1>6

\* get_buffer_aligned: in an item that was found with room for the worst
\* misalignment the request still fits behind the aligned position.
LEMMA AlignFits ==
  ASSUME NEW i \in ItemType, InBounds(i), NEW r \in RequestType, PaddedFits(r),
         CanUse(i, SearchSize(r.size, r.align), r.min, r.max)
  PROVE  LET a == AlignedItem(i, r.align)
         IN  /\ a.base = i.base /\ a.size = i.size
             /\ a.position >= i.position
             /\ a.position + r.size <= a.size
             /\ WriteAddress(a) >= r.min
             /\ a.base + a.size <= r.max
             /\ r.align # 0 => WriteAddress(a) % r.align = 0
  <1> DEFINE a == AlignedItem(i, r.align)
             pad == Larger(r.align - 1, 0)
             w == WriteAddress(i)
             d == RoundUp(w, r.align) - w
  <1>0. /\ i.base \in Nat /\ i.size \in 0 .. U32 - 1 /\ i.position \in 0 .. U32 - 1
        /\ U32 \in Nat /\ UsizeMax \in Nat
        /\ r.size \in 0 .. U32 - 1 /\ r.align \in Nat /\ r.min \in Nat /\ r.max \in Nat
    BY WordAssumption DEF ItemType, RequestType
  <1>1. pad \in Nat /\ (r.align # 0 => pad = r.align - 1)
    BY <1>0 DEF Larger
  <1>2. SearchSize(r.size, r.align) = r.size + pad
    <2>1. r.size + pad \in 0 .. U32 - 1
      BY <1>0, <1>1 DEF PaddedFits
    <2>2. \A n \in 0 .. U32 - 1 : n % U32 = n
      BY WordAssumption
    <2>. QED  BY <2>1, <2>2 DEF SearchSize
  <1>3. /\ i.position + (r.size + pad) <= i.size
        /\ w >= r.min
        /\ i.base + i.size <= r.max
    <2>1. r.size + pad \in 0 .. U32 - 1
      BY <1>0, <1>1 DEF PaddedFits
    <2>. QED  BY <1>0, <1>2, <2>1, CanUseMeans DEF InBounds
  <1>4. w \in Nat /\ w = i.base + i.position
    BY <1>0 DEF WriteAddress
  <1>5. d \in 0 .. pad /\ (r.align # 0 => RoundUp(w, r.align) % r.align = 0)
    <2>1. CASE r.align = 0
      BY <1>1, <1>4, <2>1 DEF RoundUp
    <2>2. CASE r.align # 0
      <3>1. w + r.align - 1 <= UsizeMax
        BY <1>0, <1>1, <1>3, <1>4, <2>2 DEF InBounds
      <3>2. /\ RoundUp(w, r.align) \in w .. (w + r.align - 1)
            /\ RoundUp(w, r.align) % r.align = 0
        BY <1>0, <1>4, <2>2, <3>1, RoundUpIsNextMultiple
      <3>. QED  BY <1>0, <1>1, <1>4, <2>2, <3>2
    <2>. QED  BY <2>1, <2>2
  <1>6. RoundUp(w, r.align) \in Nat
    BY <1>0, <1>4, RoundUpType
  <1> HIDE DEF w, pad
  <1>7. a.base = i.base /\ a.size = i.size /\ a.position = (i.position + RoundUp(w, r.align) - w) % U32
    BY DEF AlignedItem, ItemType, w
  <1>8. a.position = i.position + d
    <2>1. i.position + RoundUp(w, r.align) - w \in 0 .. U32 - 1
      BY <1>0, <1>1, <1>3, <1>4, <1>5, <1>6
    <2>2. \A n \in 0 .. U32 - 1 : n % U32 = n
      BY WordAssumption
    <2>3. i.position + RoundUp(w, r.align) - w = i.position + d
      BY <1>0, <1>4, <1>6
    <2>. QED  BY <1>7, <2>1, <2>2, <2>3
  <1>9. WriteAddress(a) = RoundUp(w, r.align)
    BY <1>0, <1>4, <1>6, <1>7, <1>8 DEF WriteAddress
  <1> HIDE DEF a, d
  <1>10. a.position >= i.position /\ a.position + r.size <= a.size
    BY <1>0, <1>1, <1>3, <1>5, <1>7, <1>8
  <1>11. WriteAddress(a) >= r.min
    BY <1>0, <1>3, <1>4, <1>5, <1>6, <1>9 DEF d
  <1>. QED  BY <1>3, <1>5, <1>7, <1>9, <1>10, <1>11 DEF a

\* An append within the bound on positions does not wrap.
LEMMA AppendFits ==
  ASSUME NEW i \in ItemType, NEW n \in Nat, i.position + n <= MaxPosition
  PROVE  /\ AppendedItem(i, n).base = i.base
         /\ AppendedItem(i, n).size = i.size
         /\ AppendedItem(i, n).position = i.position + n
  <1>1. i.position + n \in 0 .. U32 - 1
    BY InputAssumption, WordAssumption DEF ItemType
  <1>2. \A k \in 0 .. U32 - 1 : k % U32 = k
    BY WordAssumption
  <1>. QED  BY <1>1, <1>2 DEF AppendedItem, ItemType

\* What allocate returns suits the request it was called for.
LEMMA AllocatedSuits ==
  ASSUME TypeOK, NEW t \in Threads, NEW base \in 1 .. UsizeMax,
         base \in FreeBases(SanitizedSize(SizeOf(t), Granularity), req[t])
  PROVE  /\ Suits(NewItem(base, SanitizedSize(SizeOf(t), Granularity)), t)
         /\ InBounds(NewItem(base, SanitizedSize(SizeOf(t), Granularity)))
  <1> DEFINE size == SanitizedSize(SizeOf(t), Granularity)
  <1>1. SizeOf(t) \in 0 .. U32 - 1 /\ req[t].min \in 0 .. UsizeMax /\ req[t].max \in 0 .. UsizeMax
    BY SearchSizeType DEF TypeOK, SizeOf, RequestType
  <1>2. size \in 0 .. U32 - 1 /\ (size # 0 => size >= SizeOf(t))
    BY <1>1, SanitizedSizes, LayoutAssumption
  <1> HIDE DEF size
  <1>3. /\ size > 0 /\ base >= req[t].min /\ base + size <= req[t].max
    BY DEF FreeBases, size
  <1>4. NewItem(base, size) = [base |-> base, size |-> size, position |-> 0]
    BY DEF NewItem
  <1>5. (size - 0) % U32 = size
    <2>1. \A k \in 0 .. U32 - 1 : k % U32 = k
      BY WordAssumption
    <2>. QED  BY <1>2, <2>1
  <1>6. BytesLeft(NewItem(base, size)) >= SizeOf(t)
    BY <1>2, <1>3, <1>4, <1>5 DEF BytesLeft
  <1>7. CanUse(NewItem(base, size), SizeOf(t), req[t].min, req[t].max)
    BY <1>1, <1>2, <1>3, <1>4, <1>6, WordAssumption
       DEF CanUse, IsAllocated, AddWithOverflowCap, Smaller
  <1>8. InBounds(NewItem(base, size))
    BY <1>1, <1>2, <1>3, <1>4, WordAssumption DEF InBounds
  <1>. QED  BY <1>7, <1>8 DEF Suits, size

-----------------------------------------------------------------------------
\* Asking under the lock

\* Nobody else touches the item a thread owns.
LEMMA OwnedItemKept ==
  ASSUME StoresInOrder, InvC, NEW t \in Threads, StepOf(t),
         NEW u \in Threads \ {t}, Owns(u), Sound(cur[u])
  PROVE  /\ item'[cur[u]][idx[u]] = item[cur[u]][idx[u]]
         /\ cur'[u] = cur[u] /\ idx'[u] = idx[u]
  <1>1. cur[u] \in ready /\ idx[u] \in Slots
    BY DEF InvC, ChainInv, Inv, TypeOK, FreshHeaders
  <1>2. ~(Owns(t) /\ cur[t] = cur[u] /\ idx[t] = idx[u])
    BY DEF InvC, ChainInv, Inv, ExclusiveUse
  <1>3. item'[cur[u]][idx[u]] = item[cur[u]][idx[u]]
    BY <1>1, <1>2, OnlyOwnersWrite DEF InvC
  <1>. QED  BY <1>3, OthersKeepTheirs DEF InvC, ChainInv, Inv

\* Every step keeps what can_use said under the lock.
LEMMA NextChecked ==
  ASSUME StoresInOrder, InvC, CheckedUnderLock, [NextC]_<<vars, cVars>>
  PROVE  CheckedUnderLock'
  <1> DEFINE Holds(i, n) == i.position <= i.size => i.position + n <= i.size
  <1>0. /\ TypeOK /\ Held
        /\ \A t \in Threads : Owns(t) => item[cur[t]][idx[t]] \in ItemType
    BY DEF InvC, ChainInv, Inv, TypeOK
  <1>1. CASE UNCHANGED <<vars, cVars>>
    BY <1>1 DEF CheckedUnderLock, Sound, vars, cVars, headerVars, memoryVars, threadVars,
       historyVars
  <1>2. CASE \E t \in Threads : result[t] = "err" /\ FreeString(t)
    BY <1>0, <1>2 DEF CheckedUnderLock, Sound, FreeString, Becomes, Held, vars, headerVars,
       memoryVars, threadVars, historyVars
  <1>3. ASSUME NEW t \in Threads, StepOf(t), \A u \in Threads \ {t} : result'[u] = result[u],
               result'[t] = "relocked" /\ cur'[t] \notin premature' =>
                 Holds(item'[cur'[t]][idx'[t]], left'[t])
        PROVE  CheckedUnderLock'
    <2>1. ASSUME NEW u \in Threads \ {t}, result'[u] = "relocked", cur'[u] \notin premature'
          PROVE  Holds(item'[cur'[u]][idx'[u]], left'[u])
      <3>1. result[u] = "relocked" /\ cur'[u] = cur[u] /\ left'[u] = left[u] /\ Sound(cur[u])
        BY <1>0, <1>3, <2>1, OthersKeepTheirs, HistoryGrows DEF Sound
      <3>2. Owns(u)
        BY <1>0, <3>1 DEF Held, Owns
      <3>. QED  BY <1>3, <3>1, <3>2, OwnedItemKept DEF CheckedUnderLock
    <2>. QED  BY <1>3, <2>1 DEF CheckedUnderLock, Sound
  <1> HIDE DEF Holds
  <1> USE DEF headerVars, memoryVars, historyVars, Goto, cVars, Becomes
  <1>4. ASSUME NEW t \in Threads, BuffersGetBufferStep(t) \/ GetBufferOk(t) \/ GetBufferErr(t)
        PROVE  CheckedUnderLock'
    <2>1. StepOf(t) /\ CallStep(t)
      BY <1>4 DEF BuffersGetBufferStep, GetBufferOk, GetBufferErr, StepOf, CallStep
    <2>2. result[t] # "relocked"
      BY <1>0, <2>1, InsideCall DEF Held
    <2>3. result'[t] # "relocked" /\ \A u \in Threads \ {t} : result'[u] = result[u]
      BY <1>0, <1>4, <2>2 DEF Held, BuffersGetBufferStep, GetBufferOk, GetBufferErr
    <2>. QED  BY <1>3, <2>1, <2>3
  <1>5. ASSUME NEW t \in Threads, ClientStepC(t) PROVE CheckedUnderLock'
    <2>1. ASSUME NEW r \in Requests, BuffersGetBuffer(t, r) PROVE CheckedUnderLock'
      <3>1. StepOf(t) /\ result' = result /\ result[t] = "none"
        BY <2>1 DEF BuffersGetBuffer, StepOf
      <3>. QED  BY <1>3, <3>1
    <2>2. ASSUME NEW r \in Requests, LocatorItemCanUse(t, r) PROVE CheckedUnderLock'
      <3> DEFINE i == item[cur[t]][idx[t]]
      <3>1. /\ StepOf(t) /\ result[t] = "relocked" /\ CanUse(i, r.size, r.min, r.max)
            /\ left' = [left EXCEPT ![t] = r.size]
            /\ UNCHANGED <<item, cur, idx, result>>
        BY <2>2 DEF LocatorItemCanUse, StepOf
      <3>2. i \in ItemType /\ left'[t] = r.size
        BY <1>0, <3>1 DEF Held, Owns, TypeOK
      <3>3. r.size \in 0 .. U32 - 1 /\ r.min \in Nat /\ r.max \in Nat
        BY InputAssumption, WordAssumption DEF RequestType
      <3>4. Holds(i, r.size)
        BY <3>1, <3>2, <3>3, CanUseMeans DEF Holds
      <3>. QED  BY <1>3, <3>1, <3>2, <3>4
    <2>3. ASSUME NEW length \in 1 .. left[t], LocatorItemAppendBytes(t, length)
          PROVE  CheckedUnderLock'
      <3> DEFINE i == item[cur[t]][idx[t]]
      <3>1. /\ StepOf(t) /\ pc[t] = "owned" /\ i.position + length <= MaxPosition
            /\ item' = [item EXCEPT ![cur[t]][idx[t]] = AppendedItem(@, length)]
            /\ left' = [left EXCEPT ![t] = @ - length]
            /\ UNCHANGED <<cur, idx, premature, result>>
        BY <2>3 DEF LocatorItemAppendBytes, AppendBytes, Store, StepOf
      <3>2. /\ i \in ItemType /\ cur[t] \in Headers /\ idx[t] \in Slots /\ left[t] \in Nat
            /\ left'[t] = left[t] - length
            /\ item'[cur[t]][idx[t]] = AppendedItem(i, length)
        BY <1>0, <3>1 DEF Owns, TypeOK
      <3>3. /\ item'[cur[t]][idx[t]].position = i.position + length
            /\ item'[cur[t]][idx[t]].size = i.size
        BY <3>1, <3>2, AppendFits
      <3>4. i.position \in Nat /\ i.size \in Nat
        BY <3>2, WordAssumption DEF ItemType
      <3>5. result[t] = "relocked" /\ Sound(cur[t]) => Holds(i, left[t])
        BY DEF CheckedUnderLock, Holds
      <3>6. result[t] = "relocked" /\ Sound(cur[t]) =>
              Holds(item'[cur[t]][idx[t]], left'[t])
        BY <3>2, <3>3, <3>4, <3>5 DEF Holds
      <3>. QED  BY <1>3, <3>1, <3>6, SMTT(60) DEF Sound
    <2>4. CASE FreeLocatorItem(t)
      <3>1. StepOf(t) /\ result' = [result EXCEPT ![t] = "none"]
        BY <2>4 DEF FreeLocatorItem, StepOf
      <3>. QED  BY <1>0, <1>3, <3>1 DEF Held
    <2>5. CASE LocatorItemTryLock(t)
      <3> DEFINE i == item'[cur'[t]][idx'[t]]
      <3>1. /\ StepOf(t) /\ pc[t] = "idle" /\ left' = left
            /\ result' = [result EXCEPT ![t] = "relocked"]
        BY <2>5 DEF LocatorItemTryLock, StepOf
      <3>2. left'[t] = 0
        BY <1>0, <3>1 DEF Held
      <3>3. i.position \in Nat /\ i.size \in Nat
        <4>1. ChainInv'
          BY <2>5, RelockChain
        <4>2. pc'[t] = "owned"
          BY <1>0, <2>5 DEF LocatorItemTryLock, TypeOK
        <4>3. i \in ItemType
          BY <4>1, <4>2 DEF ChainInv, Inv, TypeOK, Owns
        <4>. QED  BY <4>3, WordAssumption DEF ItemType
      <3>4. Holds(i, left'[t])
        BY <3>2, <3>3 DEF Holds
      <3>. QED  BY <1>0, <1>3, <3>1, <3>4 DEF Held
    <2>6. CASE FreeGetBufferResult(t) \/ LocatorItemUnlock(t)
      BY <1>2, <2>4, <2>6 DEF FreeGetBufferResult, LocatorItemUnlock
    <2>. QED  BY <1>5, <2>1, <2>2, <2>3, <2>5, <2>6 DEF ClientStepC
  <1>. QED  BY <1>1, <1>4, <1>5 DEF NextC

\* What locatoritem_can_use says under the item's lock stays true until the item is
\* unlocked, for any number of threads and however many scans of get_buffer look at the
\* same item meanwhile.
THEOREM CheckedStaysTrue ==
  ASSUME StoresInOrder
  PROVE  SpecC => []CheckedUnderLock
  <1>1. InitC => InvC /\ CheckedUnderLock
    <2>1. InitC => CheckedUnderLock
      BY DEF InitC, CheckedUnderLock
    <2>. QED  BY <2>1, InitInvC
  <1>2. InvC /\ CheckedUnderLock /\ [NextC]_<<vars, cVars>> => (InvC /\ CheckedUnderLock)'
    BY NextInvC, NextChecked
  <1>. QED  BY <1>1, <1>2, PTL DEF SpecC

\* The C API gives no item to two threads, and leaves none locked that nobody holds:
\* an item locked again through an old pointer is one the scans will not give out.
THEOREM OneUserOfC ==
  ASSUME StoresInOrder
  PROVE  SpecC => [](ExclusiveUse /\ TakenIffOwned)
  <1>1. InvC => ExclusiveUse
    BY DEF InvC, ChainInv, Inv
  <1>2. InvC => TakenIffOwned
    BY ChainTaken DEF InvC
  <1>. QED  BY <1>1, <1>2, InitInvC, NextInvC, PTL DEF SpecC

-----------------------------------------------------------------------------
\* The space, range and alignment a client gets

\* What the other threads have been promised survives a step of one thread.
LEMMA OthersPromised ==
  ASSUME StoresInOrder, InvC, InvC', Undisturbed, NEW t \in Threads, StepOf(t),
         NEW u \in Threads \ {t}, PromiseTo(u)
  PROVE  PromiseTo(u)'
  <1>1. /\ pc'[u] = pc[u] /\ req'[u] = req[u] /\ cur'[u] = cur[u] /\ idx'[u] = idx[u]
        /\ mem'[u] = mem[u] /\ todo'[u] = todo[u] /\ after'[u] = after[u]
        /\ left'[u] = left[u] /\ checked'[u] = checked[u]
    BY OthersKeepTheirs DEF InvC, ChainInv, Inv
  <1>2. Sound(cur[u])
    BY DEF Undisturbed, Sound
  <1>3. Owns(u) => item'[cur[u]][idx[u]] = item[cur[u]][idx[u]]
    BY <1>2, OwnedItemKept
  <1>4. pc[u] = "trylock" =>
          /\ item'[cur[u]][idx[u]].base = item[cur[u]][idx[u]].base
          /\ item'[cur[u]][idx[u]].size = item[cur[u]][idx[u]].size
    <2> SUFFICES ASSUME pc[u] = "trylock"
                 PROVE  /\ item'[cur[u]][idx[u]].base = item[cur[u]][idx[u]].base
                        /\ item'[cur[u]][idx[u]].size = item[cur[u]][idx[u]].size
      OBVIOUS
    <2>1. cur[u] \in ready
      BY <1>2 DEF InvC, ChainInv, Inv, TypeOK, FreshHeaders
    <2>2. idx[u] \in Slots /\ idx[u] < final[u] /\ final[u] <= num_items[cur[u]]
      BY <1>2 DEF InvC, ChainInv, Inv, TypeOK, Owning, SlotOf
    <2>3. idx[u] \in Published(cur[u])
      <3>1. final[u] \in Nat /\ num_items[cur[u]] \in 0 .. U8 - 1
        BY DEF InvC, ChainInv, Inv, TypeOK
      <3>. QED  BY <2>2, <3>1 DEF Published, Slots, U8
    <2>. QED  BY <1>2, <2>1, <2>3, OnlyOwnersWrite DEF InvC
  <1>5. SizeOf(u)' = SizeOf(u) /\ (Owns(u)' <=> Owns(u))
    BY <1>1 DEF SizeOf, Owns
  <1>6. pc[u] = "trylock" =>
          Suits([item'[cur[u]][idx[u]] EXCEPT !.position = checked[u]], u)
    <2> SUFFICES ASSUME pc[u] = "trylock"
                 PROVE  Suits([item'[cur[u]][idx[u]] EXCEPT !.position = checked[u]], u)
      OBVIOUS
    <2>1. item[cur[u]][idx[u]] \in ItemType /\ item'[cur[u]][idx[u]] \in ItemType
      BY <1>1 DEF InvC, ChainInv, Inv, TypeOK
    <2>. QED  BY <1>4, <2>1 DEF PromiseTo, Suits, CanUse, IsAllocated, BytesLeft, ItemType
  <1>. QED  BY <1>1, <1>3, <1>5, <1>6 DEF PromiseTo, Suits, Owns

\* A thread at one of these places has been promised nothing.
Unpromised(t) ==
  /\ pc[t] \notin {"trylock", "publish", "align", "owned"}
  /\ pc[t] = "unlock" => after[t] # "align"

\* These steps leave the thread without a promise and the items as they are.
LEMMA UnpromisedSteps ==
  ASSUME TypeOK, NEW t \in Threads,
         \/ ScanBegin(t) \/ ScanSkip(t) \/ ScanEnd(t) \/ LockForAllocation(t) \/ LockForNext(t)
         \/ TryAllocateItem(t) \/ AllocationRecheck(t) \/ AllocationFails(t)
         \/ AllocationPanics(t) \/ NextCheck(t) \/ NextRecheck(t) \/ NextAllocationFails(t)
         \/ Follow(t) \/ Crash(t) \/ Drop(t)
         \/ \E r \in Requests : GetBuffer(t, r)
  PROVE  Unpromised(t)' /\ UNCHANGED <<num_items, item, ready>>
  <1> USE DEF TypeOK, Unpromised, headerVars, memoryVars, historyVars, Goto
  <1>1. CASE \/ ScanBegin(t) \/ ScanSkip(t) \/ ScanEnd(t) \/ LockForAllocation(t)
             \/ LockForNext(t) \/ Crash(t)
    BY <1>1 DEF ScanBegin, ScanSkip, ScanEnd, LockForAllocation, LockForNext, Lock, Crash
  <1>2. CASE TryAllocateItem(t) \/ AllocationRecheck(t) \/ AllocationFails(t)
    BY <1>2 DEF TryAllocateItem, AllocationRecheck, AllocationFails, UnlockThen
  <1>3. CASE AllocationPanics(t) \/ Drop(t) \/ Follow(t) \/ \E r \in Requests : GetBuffer(t, r)
    BY <1>3 DEF AllocationPanics, Drop, Return, Follow, GetBuffer
  <1>4. CASE NextCheck(t) \/ NextRecheck(t) \/ NextAllocationFails(t)
    BY <1>4 DEF NextCheck, NextRecheck, NextAllocationFails, UnlockThen
  <1>. QED  BY <1>1, <1>2, <1>3, <1>4

\* The chunks of an initialised block lie inside the block.
LEMMA PreallocatedInBounds ==
  ASSUME NEW h \in Headers, NEW i \in Slots, i < NumPreallocated
  PROVE  InBounds(PreallocatedItem(h, i))
  <1>1. /\ PreallocatedItem(h, i) \in ItemType
        /\ PreallocatedItem(h, i).size <= Granularity - HeaderLength
    BY PreallocatedType
  <1>2. /\ PreallocatedItem(h, i).base = HeaderAddress[h] + HeaderLength
        /\ PreallocatedItem(h, i).position = 0
    BY DEF PreallocatedItem, NewItem
  <1>. QED
    BY <1>1, <1>2, HeaderAssumption, PlacementAssumption, LayoutAssumption, WordAssumption
       DEF InBounds, ItemType

\* Every step keeps the promises, as long as nothing has gone wrong.
LEMMA NextPromises ==
  ASSUME StoresInOrder, \A r \in Requests : PaddedFits(r),
         GrantInv, InvC', [NextC]_<<vars, cVars>>
  PROVE  Promises'
  <1>1. CASE UNCHANGED vars
    BY <1>1 DEF GrantInv, Promises, Undisturbed, ItemsInBounds, PromiseTo, Published, Suits,
       SizeOf, Owns, vars, headerVars, memoryVars, threadVars, historyVars
  <1>2. ASSUME NEW t \in Threads, StepOf(t) PROVE Promises'
    <2> SUFFICES ASSUME Undisturbed' PROVE ItemsInBounds' /\ \A u \in Threads : PromiseTo(u)'
      BY DEF Promises
    <2>0. /\ Undisturbed /\ InvC /\ TypeOK /\ TypeOK'
          /\ ready \subseteq Headers
          /\ num_items \in [Headers -> Nat]
          /\ item \in [Headers -> [Slots -> ItemType]]
          /\ cur[t] \in Headers /\ cur[t] \in ready
          /\ Owns(t) \/ pc[t] = "trylock" => idx[t] \in Slots
          /\ pc \in [Threads -> Locations]
          /\ \A h \in Headers : Sound(h)
      <3>1. 0 .. U8 - 1 \subseteq Nat
        BY DEF U8
      <3>2. Undisturbed
        BY <1>2, HistoryGrows DEF Undisturbed
      <3>. QED
        BY <3>1, <3>2
        DEF GrantInv, InvC, ChainInv, Inv, TypeOK, FreshHeaders, Undisturbed, Sound
    <2>p. ItemsInBounds /\ \A u \in Threads : PromiseTo(u)
      BY <2>0 DEF GrantInv, Promises
    <2>q. \A u \in Threads \ {t} : PromiseTo(u)'
      BY <1>2, <2>0, <2>p, OthersPromised
    <2>r. SizeOf(t) \in 0 .. U32 - 1 /\ req[t] \in RequestType /\ PaddedFits(req[t])
      <3>1. req[t] \in RequestType /\ PaddedFits(req[t])
        BY <2>0 DEF TypeOK, GrantInv, Padded
      <3>. QED  BY <3>1, SearchSizeType DEF SizeOf
    <2>u. ASSUME UNCHANGED <<num_items, item, ready>> PROVE ItemsInBounds'
      BY <2>p, <2>u DEF ItemsInBounds, Published
    <2>v. ASSUME ItemsInBounds', PromiseTo(t)' PROVE ItemsInBounds' /\ \A u \in Threads : PromiseTo(u)'
      BY <2>q, <2>v
    <2> DEFINE i == item[cur[t]][idx[t]]
    <2> USE DEF headerVars, memoryVars, historyVars, Goto
    <2>1. CASE \/ ScanBegin(t) \/ ScanSkip(t) \/ ScanEnd(t) \/ LockForAllocation(t)
               \/ LockForNext(t) \/ TryAllocateItem(t) \/ AllocationRecheck(t)
               \/ AllocationFails(t) \/ AllocationPanics(t) \/ NextCheck(t) \/ NextRecheck(t)
               \/ NextAllocationFails(t) \/ Follow(t) \/ Crash(t) \/ Drop(t)
               \/ \E r \in Requests : GetBuffer(t, r)
      <3>1. Unpromised(t)' /\ UNCHANGED <<num_items, item, ready>>
        BY <2>0, <2>1, UnpromisedSteps
      <3>2. PromiseTo(t)'
        BY <3>1 DEF Unpromised, PromiseTo, Owns
      <3>. QED  BY <2>u, <2>v, <3>1, <3>2
    <2>2. CASE ScanCandidate(t)
      <3>1. /\ Suits(i, t) /\ pc'[t] = "trylock" /\ checked'[t] = i.position
            /\ UNCHANGED <<num_items, item, ready, cur, idx, req, after>>
        BY <2>0, <2>2 DEF ScanCandidate, Suits, TypeOK
      <3>2. idx[t] \in Slots
        BY <2>2 DEF ScanCandidate
      <3>3. i \in ItemType
        BY <2>0, <3>2
      <3>4. [i EXCEPT !.position = checked'[t]] = i
        BY <3>1, <3>3 DEF ItemType
      <3>5. PromiseTo(t)'
        BY <3>1, <3>4 DEF PromiseTo, Suits, SizeOf, Owns
      <3>. QED  BY <2>u, <2>v, <3>1, <3>5
    <2>3. CASE TryLockItem(t)
      <3>1. /\ pc[t] = "trylock"
            /\ UNCHANGED <<num_items, item, ready, cur, req, after>>
        BY <2>3 DEF TryLockItem
      <3>2. CASE is_taken[cur[t]][idx[t]] = 0
        <4>1. /\ pc' = [pc EXCEPT ![t] = "align"] /\ idx' = idx
              /\ stale' = (stale \/ item[cur[t]][idx[t]].position # checked[t])
          BY <2>3, <3>2, Zenon DEF TryLockItem
        <4>2. i.position = checked[t]
          BY <4>1 DEF Undisturbed
        <4>3. i \in ItemType
          BY <2>0, <3>1
        <4>4. [i EXCEPT !.position = checked[t]] = i
          BY <4>2, <4>3 DEF ItemType
        <4>5. Suits(i, t)
          BY <2>p, <3>1, <4>4 DEF PromiseTo
        <4>6. pc'[t] = "align"
          BY <2>0, <4>1
        <4>7. PromiseTo(t)'
          BY <3>1, <4>1, <4>5, <4>6 DEF PromiseTo, Suits, SizeOf, Owns
        <4>. QED  BY <2>u, <2>v, <3>1, <4>7
      <3>3. CASE is_taken[cur[t]][idx[t]] # 0
        <4>1. pc' = [pc EXCEPT ![t] = "scan"]
          BY <2>3, <3>3, Zenon DEF TryLockItem
        <4>2. Unpromised(t)'
          BY <2>0, <4>1 DEF Unpromised
        <4>3. PromiseTo(t)'
          BY <4>2 DEF Unpromised, PromiseTo, Owns
        <4>. QED  BY <2>u, <2>v, <3>1, <4>3
      <3>. QED  BY <3>2, <3>3
    <2>4. CASE Unlock(t)
      <3>1. /\ pc[t] = "unlock" /\ pc'[t] = after[t]
            /\ after[t] \in {"idle", "next", "follow", "align"}
            /\ UNCHANGED <<num_items, item, ready, cur, idx, req>>
        BY <2>0, <2>4 DEF Unlock, TypeOK
      <3>2. after[t] = "align" => Suits(i, t)
        BY <2>p, <3>1 DEF PromiseTo, Owns
      <3>3. PromiseTo(t)'
        BY <3>1, <3>2 DEF PromiseTo, Suits, SizeOf, Owns
      <3>. QED  BY <2>u, <2>v, <3>1, <3>3
    <2>5. ASSUME NEW base \in 1 .. UsizeMax, AllocateItem(t, base)
          PROVE  ItemsInBounds' /\ \A u \in Threads : PromiseTo(u)'
      <3> DEFINE new == NewItem(base, SanitizedSize(SizeOf(t), Granularity))
      <3>1. /\ base \in FreeBases(SanitizedSize(SizeOf(t), Granularity), req[t])
            /\ mem' = [mem EXCEPT ![t] = new]
            /\ todo' = [todo EXCEPT ![t] = {"fields", "is_taken", "num_items"}]
            /\ pc' = [pc EXCEPT ![t] = "publish"]
            /\ UNCHANGED <<num_items, item, ready, cur, req, after>>
        BY <2>5 DEF AllocateItem
      <3>2. Suits(new, t) /\ InBounds(new)
        BY <2>0, <3>1, AllocatedSuits
      <3> HIDE DEF new
      <3>3. mem'[t] = new /\ "fields" \in todo'[t] /\ pc'[t] = "publish"
        BY <2>0, <3>1 DEF TypeOK
      <3>4. PromiseTo(t)'
        BY <3>1, <3>2, <3>3 DEF PromiseTo, Suits, SizeOf, Owns
      <3>. QED  BY <2>u, <2>v, <3>1, <3>4
    <2>6. ASSUME NEW store \in {"fields", "is_taken", "num_items"}, PublishItem(t, store)
          PROVE  ItemsInBounds' /\ \A u \in Threads : PromiseTo(u)'
      <3>1. /\ pc[t] = "publish" /\ Owns(t) /\ store \in todo[t]
            /\ todo' = [todo EXCEPT ![t] = @ \ {store}]
            /\ UNCHANGED <<ready, cur, idx, req>>
        BY <2>6 DEF PublishItem, MayBecomeVisible, Owns
      <3>2. idx[t] = num_items[cur[t]] /\ "num_items" \in todo[t]
        BY <2>0, <3>1 DEF InvC, ChainInv, Inv, Owning, SlotOf
      <3>3. /\ InBounds(mem[t]) /\ Suits(mem[t], t)
            /\ "fields" \notin todo[t] => i = mem[t]
        BY <2>p, <3>1 DEF PromiseTo
      <3>4. \A h \in ready : \A j \in Slots : ~(h = cur[t] /\ j = idx[t]) => item'[h][j] = item[h][j]
        BY <1>2, <2>0, OnlyOwnersWrite DEF InvC
      <3>5. CASE store # "num_items"
        <4>1. UNCHANGED <<num_items, pc, after, mem>>
          BY <2>6, <3>2, <3>5 DEF PublishItem
        <4>2. store = "fields" => item'[cur[t]][idx[t]] = mem[t]
          BY <2>0, <2>6, <3>1 DEF PublishItem
        <4>3. store # "fields" => item' = item
          BY <2>6 DEF PublishItem
        <4>4. ItemsInBounds'
          BY <2>0, <2>p, <3>1, <3>2, <3>4, <4>1 DEF ItemsInBounds, Published
        <4>5. "fields" \notin todo'[t] => item'[cur[t]][idx[t]] = mem[t]
          BY <2>0, <3>1, <3>3, <4>2, <4>3 DEF TypeOK
        <4>6. PromiseTo(t)'
          BY <3>1, <3>3, <4>1, <4>5 DEF PromiseTo, Suits, SizeOf, Owns
        <4>. QED  BY <2>v, <4>4, <4>6
      <3>6. CASE store = "num_items"
        <4>1. todo[t] = {"num_items"}
          BY <2>6, <3>6 DEF PublishItem, MayBecomeVisible
        <4>2. /\ pc' = [pc EXCEPT ![t] = "unlock"] /\ after' = [after EXCEPT ![t] = "align"]
              /\ item' = item
              /\ \A h \in Headers : h # cur[t] => num_items'[h] = num_items[h]
          BY <2>0, <2>6, <3>6, <4>1 DEF PublishItem, UnlockThen
        <4>3. num_items'[cur[t]] = num_items[cur[t]] + 1
          BY <2>0, <2>6, <3>6, PublishCounts DEF InvC, ChainInv
        <4>4. i = mem[t] /\ InBounds(i) /\ Suits(i, t)
          BY <3>3, <4>1
        <4>5. ASSUME NEW h \in ready, NEW j \in Slots, j < num_items'[h] PROVE InBounds(item[h][j])
          <5>1. CASE h = cur[t] /\ j = idx[t]
            BY <4>4, <5>1
          <5>2. CASE h = cur[t] /\ j # idx[t]
            <6>1. j < num_items[h]
              BY <2>0, <3>2, <4>3, <4>5, <5>2 DEF Slots
            <6>. QED  BY <2>p, <6>1 DEF ItemsInBounds, Published
          <5>3. CASE h # cur[t]
            BY <2>0, <2>p, <4>2, <4>5, <5>3 DEF ItemsInBounds, Published
          <5>. QED  BY <5>1, <5>2, <5>3
        <4>6. ItemsInBounds'
          BY <3>1, <4>2, <4>5 DEF ItemsInBounds, Published
        <4>7. pc'[t] = "unlock"
          BY <2>0, <4>2
        <4>8. PromiseTo(t)'
          BY <3>1, <4>2, <4>4, <4>7 DEF PromiseTo, Suits, SizeOf, Owns
        <4>. QED  BY <2>v, <4>6, <4>8
      <3>. QED  BY <3>5, <3>6
    <2>7. ASSUME NEW n \in Headers, NEW contents \in HeapContents, AllocateNext(t, n, contents)
          PROVE  ItemsInBounds' /\ \A u \in Threads : PromiseTo(u)'
      <3>1. n \notin ready
        BY <2>0, <2>7 DEF AllocateNext, InvC, ChainInv, Inv, FreshHeaders
      <3>2. /\ \A h \in ready : num_items'[h] = num_items[h] /\ item'[h] = item[h]
            /\ UNCHANGED ready /\ pc'[t] = "init"
        BY <2>0, <2>7, <3>1 DEF AllocateNext
      <3>3. ItemsInBounds'
        BY <2>p, <3>2 DEF ItemsInBounds, Published
      <3>4. PromiseTo(t)'
        BY <3>2 DEF PromiseTo, Owns
      <3>. QED  BY <2>v, <3>3, <3>4
    <2>8. CASE SetDefaultValues(t)
      <3>1. next_locator_ptr[cur[t]] \notin ready
        BY <2>0, <2>8 DEF SetDefaultValues, InvC, ChainInv, Inv, Initializing
      <3>2. /\ \A h \in ready : num_items'[h] = num_items[h] /\ item'[h] = item[h]
            /\ UNCHANGED ready /\ pc'[t] = "fill"
        BY <2>0, <2>8, <3>1 DEF SetDefaultValues
      <3>3. ItemsInBounds'
        BY <2>p, <3>2 DEF ItemsInBounds, Published
      <3>4. PromiseTo(t)'
        BY <3>2 DEF PromiseTo, Owns
      <3>. QED  BY <2>v, <3>3, <3>4
    <2>9. CASE InitializeRemainingSpaceAsBuffers(t)
      <3> DEFINE n == next_locator_ptr[cur[t]]
      <3>1. n \in Headers \ ready
        BY <2>0, <2>9 DEF InitializeRemainingSpaceAsBuffers, InvC, ChainInv, Inv, Initializing
      <3>2. /\ \A h \in ready : num_items'[h] = num_items[h] /\ item'[h] = item[h]
            /\ ready' = ready \cup {n}
            /\ num_items'[n] = NumPreallocated
            /\ item'[n] = InitializedItems(n, item[n])
        BY <2>0, <2>9, <3>1 DEF InitializeRemainingSpaceAsBuffers
      <3>3. pc'[t] = "unlock" /\ after'[t] = "follow"
        BY <2>0, <2>9 DEF InitializeRemainingSpaceAsBuffers, UnlockThen, TypeOK
      <3>4. \A j \in Slots : j < NumPreallocated => InBounds(item'[n][j])
        BY <3>1, <3>2, PreallocatedInBounds DEF InitializedItems
      <3>5. ItemsInBounds'
        BY <2>p, <3>2, <3>4 DEF ItemsInBounds, Published
      <3>6. PromiseTo(t)'
        BY <3>3 DEF PromiseTo, Owns
      <3>. QED  BY <2>v, <3>5, <3>6
    <2>10. CASE Align(t)
      <3> DEFINE a == AlignedItem(i, req[t].align)
      <3>1. /\ pc[t] = "align" /\ Owns(t) /\ idx[t] \in Slots
            /\ item' = [item EXCEPT ![cur[t]][idx[t]] = a]
            /\ left' = [left EXCEPT ![t] = req[t].size]
            /\ pc' = [pc EXCEPT ![t] = "owned"]
            /\ UNCHANGED <<num_items, ready, cur, idx, req>>
        BY <2>0, <2>10 DEF Align, Owns
      <3>2. i \in ItemType /\ InBounds(i) /\ Suits(i, t)
        <4>1. idx[t] \in Published(cur[t])
          BY <2>0, <3>1 DEF InvC, ChainInv, Inv, Owning, SlotOf, Published
        <4>. QED  BY <2>0, <2>p, <3>1, <4>1 DEF PromiseTo, ItemsInBounds
      <3>3. /\ a.base = i.base /\ a.size = i.size
            /\ a.position + req[t].size <= a.size
            /\ WriteAddress(a) >= req[t].min
            /\ a.base + a.size <= req[t].max
            /\ req[t].align # 0 => WriteAddress(a) % req[t].align = 0
        BY <2>r, <3>2, AlignFits DEF Suits, SizeOf
      <3>4. a.position \in Nat /\ a.size \in Nat /\ req[t].size \in Nat
        <4>1. req[t].align \in Nat /\ req[t].size \in Nat
          BY <2>r, WordAssumption DEF RequestType
        <4>2. a \in ItemType
          BY <3>2, <4>1, ItemTypes
        <4>. QED  BY <4>1, <4>2, WordAssumption DEF ItemType
      <3> HIDE DEF a
      <3>5. InBounds(a)
        BY <3>2, <3>3, <3>4 DEF InBounds
      <3>6. item'[cur[t]][idx[t]] = a /\ left'[t] = req[t].size /\ pc'[t] = "owned"
        BY <2>0, <3>1 DEF TypeOK
      <3>7. \A h \in ready : \A j \in Slots : ~(h = cur[t] /\ j = idx[t]) => item'[h][j] = item[h][j]
        BY <1>2, <2>0, OnlyOwnersWrite DEF InvC
      <3>8. ItemsInBounds'
        BY <2>p, <3>1, <3>5, <3>6, <3>7 DEF ItemsInBounds, Published
      <3>9. PromiseTo(t)'
        BY <3>1, <3>3, <3>4, <3>6 DEF PromiseTo, Owns
      <3>. QED  BY <2>v, <3>8, <3>9
    <2>11. ASSUME NEW length \in 1 .. left[t], AppendBytes(t, length)
           PROVE  ItemsInBounds' /\ \A u \in Threads : PromiseTo(u)'
      <3> DEFINE a == AppendedItem(i, length)
      <3>1. /\ pc[t] = "owned" /\ Owns(t) /\ idx[t] \in Slots
            /\ i.position + length <= MaxPosition
            /\ item' = [item EXCEPT ![cur[t]][idx[t]] = a]
            /\ left' = [left EXCEPT ![t] = @ - length]
            /\ UNCHANGED <<num_items, ready, pc, cur, idx, req>>
        BY <2>0, <2>11 DEF AppendBytes, Store, Owns
      <3>2. i \in ItemType /\ InBounds(i)
        <4>1. idx[t] \in Published(cur[t])
          BY <2>0, <3>1 DEF InvC, ChainInv, Inv, Owning, SlotOf, Published
        <4>. QED  BY <2>0, <2>p, <3>1, <4>1 DEF ItemsInBounds
      <3>3. a.base = i.base /\ a.size = i.size /\ a.position = i.position + length
        BY <3>1, <3>2, AppendFits
      <3>4. /\ i.base \in Nat /\ i.position \in Nat /\ i.size \in Nat
            /\ left[t] \in Nat /\ left'[t] = left[t] - length
            /\ req[t].min \in Nat /\ req[t].size \in Nat
        BY <2>0, <2>r, <3>1, <3>2, WordAssumption DEF ItemType, TypeOK, RequestType
      <3>5. /\ i.position + left[t] <= i.size
            /\ WriteAddress(i) >= req[t].min
            /\ i.base + i.size <= req[t].max
            /\ left[t] <= req[t].size
        BY <2>p, <3>1 DEF PromiseTo
      <3> HIDE DEF a
      <3>6. InBounds(a)
        BY <3>2, <3>3, <3>4, <3>5 DEF InBounds
      <3>7. item'[cur[t]][idx[t]] = a
        BY <2>0, <3>1
      <3>8. \A h \in ready : \A j \in Slots : ~(h = cur[t] /\ j = idx[t]) => item'[h][j] = item[h][j]
        BY <1>2, <2>0, OnlyOwnersWrite DEF InvC
      <3>9. ItemsInBounds'
        BY <2>p, <3>1, <3>6, <3>7, <3>8 DEF ItemsInBounds, Published
      <3>10. /\ a.position + left'[t] <= a.size
             /\ WriteAddress(a) >= req[t].min
             /\ a.base + a.size <= req[t].max
             /\ left'[t] < req[t].size
        BY <3>3, <3>4, <3>5 DEF WriteAddress
      <3>11. PromiseTo(t)'
        BY <3>1, <3>4, <3>7, <3>10 DEF PromiseTo, Owns
      <3>. QED  BY <2>v, <3>9, <3>11
    <2>12. CASE LocatorItemTryLock(t)
      <3> DEFINE h == kept[t][1]
                 k == kept[t][2]
                 j == item[h][k]
      <3>1. /\ pc[t] = "idle"
            /\ cur' = [cur EXCEPT ![t] = h] /\ idx' = [idx EXCEPT ![t] = k]
            /\ pc' = [pc EXCEPT ![t] = "owned"]
            /\ req' = [req EXCEPT ![t] = AnyRequest]
            /\ UNCHANGED <<num_items, item, ready, left>>
        BY <2>12 DEF LocatorItemTryLock
      <3>2. h \in ready /\ k \in Published(h) /\ left[t] = 0
        <4>1. h \in Headers /\ k \in Slots
          BY <2>0, <2>12 DEF LocatorItemTryLock, InvC, Held
        <4>. QED  BY <2>0, <2>12, <4>1 DEF LocatorItemTryLock, InvC, Held, Published
      <3>3. j \in ItemType /\ InBounds(j)
        BY <2>0, <2>p, <3>2 DEF ItemsInBounds, Published
      <3>4. /\ cur'[t] = h /\ idx'[t] = k /\ pc'[t] = "owned" /\ left'[t] = 0
            /\ req'[t] = AnyRequest
        BY <2>0, <3>1, <3>2 DEF TypeOK
      <3>5. j.position \in Nat /\ j.base \in Nat /\ j.size \in Nat
        BY <3>3, WordAssumption DEF ItemType
      <3> HIDE DEF h, k
      <3>6. PromiseTo(t)'
        BY <3>1, <3>3, <3>4, <3>5 DEF PromiseTo, Owns, AnyRequest, InBounds, WriteAddress
      <3>. QED  BY <2>u, <2>v, <3>1, <3>6
    <2>13. ASSUME NEW r \in Requests, LocatorItemCanUse(t, r)
           PROVE  ItemsInBounds' /\ \A u \in Threads : PromiseTo(u)'
      <3>1. /\ result[t] = "relocked" /\ CanUse(i, r.size, r.min, r.max)
            /\ req' = [req EXCEPT ![t] = [r EXCEPT !.align = 0]]
            /\ left' = [left EXCEPT ![t] = r.size]
            /\ UNCHANGED <<num_items, item, ready, pc, cur, idx>>
        BY <2>13 DEF LocatorItemCanUse
      <3>2. pc[t] = "owned" /\ Owns(t)
        BY <2>0, <3>1 DEF InvC, Held, Owns
      <3>3. i \in ItemType /\ InBounds(i)
        <4>1. idx[t] \in Published(cur[t])
          BY <2>0, <3>2 DEF InvC, ChainInv, Inv, Owning, SlotOf, Published
        <4>. QED  BY <2>0, <2>p, <3>2, <4>1 DEF ItemsInBounds
      <3>4. r \in RequestType /\ r.size \in 0 .. U32 - 1 /\ r.min \in Nat /\ r.max \in Nat
        BY InputAssumption, WordAssumption DEF RequestType
      <3>5. /\ i.position + r.size <= i.size /\ WriteAddress(i) >= r.min
            /\ i.base + i.size <= r.max
        BY <3>1, <3>3, <3>4, CanUseMeans DEF InBounds
      <3>6. /\ left'[t] = r.size /\ req'[t].size = r.size /\ req'[t].align = 0
            /\ req'[t].min = r.min /\ req'[t].max = r.max
        BY <2>0, <3>1, <3>4 DEF TypeOK, RequestType
      <3>7. PromiseTo(t)'
        BY <3>1, <3>2, <3>4, <3>5, <3>6 DEF PromiseTo, Owns
      <3>. QED  BY <2>u, <2>v, <3>1, <3>7
    <2>. QED
      BY <1>2, <2>1, <2>2, <2>3, <2>4, <2>5, <2>6, <2>7, <2>8, <2>9, <2>10, <2>11, <2>12,
         <2>13 DEF StepOf, CallStep
  <1>. QED  BY <1>1, <1>2, ThreadOfStep

\* A step of the library leaves every request alone; a client states a new one.
LEMMA NextPadded ==
  ASSUME \A r \in Requests : PaddedFits(r), InvC, Padded, [NextC]_<<vars, cVars>>
  PROVE  Padded'
  <1>1. CASE UNCHANGED vars
    BY <1>1 DEF Padded, vars, threadVars
  <1>2. ASSUME NEW t \in Threads, StepOf(t) PROVE Padded'
    <2>0. /\ TypeOK /\ req \in [Threads -> RequestType]
          /\ \A u \in Threads \ {t} : req'[u] = req[u]
      BY <1>2, OthersKeepTheirs DEF InvC, ChainInv, Inv, TypeOK
    <2>1. CASE CallStep(t)
      <3>1. req' = req
        <4>1. CASE \/ Align(t) \/ ScanBegin(t) \/ ScanSkip(t) \/ ScanCandidate(t) \/ ScanEnd(t)
                   \/ TryLockItem(t) \/ LockForAllocation(t) \/ LockForNext(t) \/ Unlock(t)
          BY <4>1 DEF Align, ScanBegin, ScanSkip, ScanCandidate, ScanEnd, TryLockItem,
             LockForAllocation, LockForNext, Lock, Unlock
        <4>2. CASE \/ TryAllocateItem(t) \/ AllocationRecheck(t)
                   \/ \E base \in 1 .. UsizeMax : AllocateItem(t, base)
                   \/ AllocationFails(t) \/ AllocationPanics(t)
                   \/ \E store \in {"fields", "is_taken", "num_items"} : PublishItem(t, store)
          BY <4>2 DEF TryAllocateItem, AllocationRecheck, AllocateItem, AllocationFails,
             AllocationPanics, PublishItem
        <4>3. CASE \/ NextCheck(t) \/ NextRecheck(t) \/ NextAllocationFails(t)
                   \/ \E n \in Headers, contents \in HeapContents : AllocateNext(t, n, contents)
                   \/ SetDefaultValues(t) \/ InitializeRemainingSpaceAsBuffers(t)
                   \/ Follow(t) \/ Crash(t)
          BY <4>3 DEF NextCheck, NextRecheck, NextAllocationFails, AllocateNext,
             SetDefaultValues, InitializeRemainingSpaceAsBuffers, Follow, Crash
        <4>. QED  BY <2>1, <4>1, <4>2, <4>3 DEF CallStep
      <3>. QED  BY <3>1 DEF Padded
    <2>2. CASE \E r \in Requests : GetBuffer(t, r)
      <3>1. req'[t] \in Requests
        BY <2>0, <2>2 DEF GetBuffer
      <3>. QED  BY <2>0, <3>1 DEF Padded
    <2>3. CASE (\E length \in 1 .. left[t] : AppendBytes(t, length)) \/ Drop(t)
      BY <2>3 DEF AppendBytes, Store, Drop, Padded
    <2>4. CASE LocatorItemTryLock(t)
      <3>1. req'[t] = AnyRequest
        BY <2>0, <2>4 DEF LocatorItemTryLock
      <3>2. PaddedFits(AnyRequest)
        BY WordAssumption DEF PaddedFits, AnyRequest, Larger
      <3>. QED  BY <2>0, <3>1, <3>2 DEF Padded
    <2>5. ASSUME NEW r \in Requests, LocatorItemCanUse(t, r) PROVE Padded'
      <3>1. r \in RequestType
        BY InputAssumption
      <3>2. req'[t].size = r.size /\ req'[t].align = 0
        BY <2>0, <2>5, <3>1 DEF LocatorItemCanUse, RequestType
      <3>3. PaddedFits(req'[t])
        BY <3>1, <3>2, WordAssumption DEF PaddedFits, Larger, RequestType
      <3>. QED  BY <2>0, <3>3 DEF Padded
    <2>. QED  BY <1>2, <2>1, <2>2, <2>3, <2>4, <2>5 DEF StepOf
  <1>. QED  BY <1>1, <1>2, ThreadOfStep

\* The invariant holds at the start and is inductive.
LEMMA InitGrant == InitC => GrantInv
  <1> SUFFICES ASSUME InitC PROVE GrantInv
    OBVIOUS
  <1>1. InvC
    BY InitInvC
  <1>2. Padded
    BY WordAssumption DEF InitC, Init, Padded, PaddedFits, NoRequest, Larger
  <1>3. ItemsInBounds
    <2>1. ready = {Root} /\ num_items[Root] = NumPreallocated
          /\ item[Root] = InitializedItems(Root, [i \in Slots |-> Zero])
      BY HeaderAssumption DEF InitC, Init
    <2>. QED  BY <2>1, PreallocatedInBounds, HeaderAssumption
              DEF ItemsInBounds, Published, InitializedItems
  <1>4. \A t \in Threads : PromiseTo(t)
    BY DEF InitC, Init, PromiseTo, Owns
  <1>. QED  BY <1>1, <1>2, <1>3, <1>4 DEF GrantInv, Promises

\* Every step keeps the promises.
LEMMA NextGrant ==
  ASSUME StoresInOrder, \A r \in Requests : PaddedFits(r), GrantInv, [NextC]_<<vars, cVars>>
  PROVE  GrantInv'
  <1>1. InvC'
    BY NextInvC DEF GrantInv
  <1>2. Padded'
    BY NextPadded DEF GrantInv
  <1>3. Promises'
    BY <1>1, NextPromises
  <1>. QED  BY <1>1, <1>2, <1>3 DEF GrantInv

\* "The library will ensure there's at least the requested amount of space": for any
\* number of threads, headers and requests, unless can_use was out of date or a header
\* was entered too early, the bytes a client has still to append fit into its item.
THEOREM SpaceAsPromised ==
  ASSUME StoresInOrder, \A r \in Requests : PaddedFits(r)
  PROVE  SpecC => []PromisedSpace
  <1>1. GrantInv => PromisedSpace
    BY DEF GrantInv, Promises, PromiseTo, PromisedSpace
  <1>. QED  BY <1>1, InitGrant, NextGrant, PTL DEF SpecC

\* The item a client gets lies inside the address limits it asked for, under the same
\* proviso: past a stale grant positions run over the end of their items and wrap around
\* u32.
THEOREM GrantsInRange ==
  ASSUME StoresInOrder, \A r \in Requests : PaddedFits(r)
  PROVE  SpecC => [](Undisturbed => GrantInRange)
  <1>1. GrantInv => (Undisturbed => GrantInRange)
    BY DEF GrantInv, Promises, PromiseTo, GrantInRange
  <1>. QED  BY <1>1, InitGrant, NextGrant, PTL DEF SpecC

\* The first free byte of the item get_buffer_aligned returns is aligned as the client
\* asked for: the padding covers any position and base address the item can have.
THEOREM GrantsAligned ==
  ASSUME StoresInOrder, \A r \in Requests : PaddedFits(r)
  PROVE  SpecC => [](Undisturbed => AlignedGrant)
  <1>1. GrantInv => (Undisturbed => AlignedGrant)
    BY DEF GrantInv, Promises, PromiseTo, AlignedGrant
  <1>. QED  BY <1>1, InitGrant, NextGrant, PTL DEF SpecC

-----------------------------------------------------------------------------
\* Items never move

\* What the holder of an item can do with it.
LEMMA OwnerSteps ==
  ASSUME NEW t \in Threads, StepOf(t), Owns(t), pc[t] # "publish"
  PROVE  \/ Align(t)
         \/ Unlock(t)
         \/ \E length \in 1 .. left[t] : AppendBytes(t, length)
         \/ Drop(t)
         \/ \E r \in Requests : LocatorItemCanUse(t, r)
  <1>1. pc[t] \in {"align", "owned", "unlock"}
    BY DEF Owns
  <1>2. ~(\E r \in Requests : GetBuffer(t, r)) /\ ~LocatorItemTryLock(t)
    BY <1>1 DEF GetBuffer, LocatorItemTryLock
  <1>3. ASSUME CallStep(t) PROVE Align(t) \/ Unlock(t)
    <2>1. ~ScanBegin(t) /\ ~ScanSkip(t) /\ ~ScanCandidate(t) /\ ~ScanEnd(t) /\ ~TryLockItem(t)
          /\ ~LockForAllocation(t) /\ ~LockForNext(t)
      BY <1>1 DEF ScanBegin, ScanSkip, ScanCandidate, ScanEnd, TryLockItem,
         LockForAllocation, LockForNext, Lock
    <2>2. /\ ~TryAllocateItem(t) /\ ~AllocationRecheck(t)
          /\ ~\E base \in 1 .. UsizeMax : AllocateItem(t, base)
          /\ ~AllocationFails(t) /\ ~AllocationPanics(t)
          /\ ~\E store \in {"fields", "is_taken", "num_items"} : PublishItem(t, store)
      BY <1>1 DEF TryAllocateItem, AllocationRecheck, AllocateItem, AllocationFails,
         AllocationPanics, PublishItem
    <2>3. /\ ~NextCheck(t) /\ ~NextRecheck(t) /\ ~NextAllocationFails(t)
          /\ ~\E n \in Headers, contents \in HeapContents : AllocateNext(t, n, contents)
          /\ ~SetDefaultValues(t) /\ ~InitializeRemainingSpaceAsBuffers(t) /\ ~Follow(t)
          /\ ~Crash(t)
      BY <1>1 DEF NextCheck, NextRecheck, NextAllocationFails, AllocateNext,
         SetDefaultValues, InitializeRemainingSpaceAsBuffers, Follow, Crash, MemoryError
    <2>. QED  BY <1>3, <2>1, <2>2, <2>3 DEF CallStep
  <1>. QED  BY <1>2, <1>3 DEF StepOf

\* Positions only grow: the owner of an item is the only one to move its position, and
\* neither Align nor an append wraps around u32.
LEMMA PositionsGrow ==
  ASSUME StoresInOrder, GrantInv, Undisturbed, NEW t \in Threads, StepOf(t),
         NEW h \in ready, NEW k \in Published(h)
  PROVE  item'[h][k].position >= item[h][k].position
  <1> DEFINE i == item[h][k]
  <1>0. /\ ChainInv /\ TypeOK /\ Sound(h) /\ h \in Headers /\ k \in Slots
        /\ i \in ItemType /\ InBounds(i) /\ PromiseTo(t)
        /\ req[t] \in RequestType /\ PaddedFits(req[t])
    BY DEF GrantInv, InvC, ChainInv, Inv, TypeOK, Published, Undisturbed, Sound, Promises,
       ItemsInBounds, Padded
  <1>1. i.position \in Nat
    BY <1>0, WordAssumption DEF ItemType
  <1>2. CASE ~(Owns(t) /\ cur[t] = h /\ idx[t] = k)
    BY <1>0, <1>1, <1>2, OnlyOwnersWrite
  <1>3. CASE Owns(t) /\ cur[t] = h /\ idx[t] = k
    <2>1. pc[t] # "publish"
      <3>1. pc[t] = "publish" => idx[t] = num_items[cur[t]]
        BY <1>0, <1>3 DEF ChainInv, Inv, Owning, SlotOf
      <3>2. k < num_items[h] /\ num_items[h] \in Nat
        <4>1. num_items \in [Headers -> 0 .. U8 - 1] /\ h \in Headers
          BY <1>0 DEF TypeOK
        <4>. QED  BY <4>1 DEF Published, U8
      <3>. QED  BY <1>3, <3>1, <3>2
    <2>3. CASE Align(t)
      <3>1. Suits(i, t)
        BY <1>0, <1>3, <2>3 DEF Align, PromiseTo, Owns
      <3>2. item'[h][k] = AlignedItem(i, req[t].align)
        BY <1>0, <1>3, <2>3 DEF Align, TypeOK
      <3>. QED  BY <1>0, <3>1, <3>2, AlignFits DEF Suits, SizeOf
    <2>4. ASSUME NEW length \in 1 .. left[t], AppendBytes(t, length)
          PROVE  item'[h][k].position >= i.position
      <3>1. /\ i.position + length <= MaxPosition
            /\ item'[h][k] = AppendedItem(i, length)
            /\ length \in Nat
        BY <1>0, <1>3, <2>4 DEF AppendBytes, Store, TypeOK
      <3>2. item'[h][k].position = i.position + length
        BY <1>0, <3>1, AppendFits
      <3>. QED  BY <1>1, <3>1, <3>2
    <2>5. CASE Unlock(t) \/ Drop(t) \/ \E r \in Requests : LocatorItemCanUse(t, r)
      BY <1>1, <2>5 DEF Unlock, Drop, LocatorItemCanUse, headerVars
    <2>. QED  BY <1>3, <2>1, <2>3, <2>4, <2>5, OwnerSteps
  <1>. QED  BY <1>2, <1>3

\* A published item keeps its address and its length for ever, is never unpublished, and
\* its position never goes back, whatever the threads do; as long as nothing was given
\* out on an out-of-date check, after which a position may wrap around u32.
THEOREM NothingMoves ==
  ASSUME StoresInOrder, \A r \in Requests : PaddedFits(r)
  PROVE  SpecC /\ []Undisturbed => ItemsNeverMove
  <1> DEFINE Stays == \A h \in ready : Sound(h) =>
                        \A i \in Published(h) :
                          /\ i < num_items'[h]
                          /\ item'[h][i].base = item[h][i].base
                          /\ item'[h][i].size = item[h][i].size
                          /\ item'[h][i].position >= item[h][i].position
  <1>1. GrantInv /\ Undisturbed /\ [NextC]_<<vars, cVars>> => [Stays]_vars
    <2> SUFFICES ASSUME GrantInv, Undisturbed, [NextC]_<<vars, cVars>>, ~UNCHANGED vars
                 PROVE  Stays
      BY DEF vars
    <2>1. PICK t \in Threads : StepOf(t)
      BY ThreadOfStep
    <2>2. ASSUME NEW h \in ready, Sound(h), NEW i \in Published(h)
          PROVE  /\ i < num_items'[h]
                 /\ item'[h][i].base = item[h][i].base
                 /\ item'[h][i].size = item[h][i].size
                 /\ item'[h][i].position >= item[h][i].position
      <3>1. /\ num_items'[h] >= num_items[h]
            /\ item'[h][i].base = item[h][i].base
            /\ item'[h][i].size = item[h][i].size
        BY <2>1, <2>2, OnlyOwnersWrite DEF GrantInv, InvC
      <3>2. i < num_items'[h]
        <4>1. i \in Nat /\ i < num_items[h] /\ num_items[h] \in Nat
          <5>1. i \in Slots /\ i < num_items[h]
            BY <2>2 DEF Published
          <5>2. num_items \in [Headers -> 0 .. U8 - 1] /\ h \in Headers
            BY <2>2 DEF GrantInv, InvC, ChainInv, Inv, TypeOK
          <5>. QED  BY <5>1, <5>2 DEF Slots, U8
        <4>2. num_items'[h] \in Nat
          <5>1. InvC'
            BY NextInvC DEF GrantInv
          <5>2. num_items' \in [Headers -> 0 .. U8 - 1] /\ h \in Headers
            BY <2>2, <5>1 DEF InvC, ChainInv, Inv, TypeOK, GrantInv
          <5>. QED  BY <5>2 DEF U8
        <4>. QED  BY <3>1, <4>1, <4>2
      <3>3. item'[h][i].position >= item[h][i].position
        BY <2>1, <2>2, PositionsGrow
      <3>. QED  BY <3>1, <3>2, <3>3
    <2>. QED  BY <2>2
  <1>2. ItemsNeverMove <=> [][Stays]_vars
    BY DEF ItemsNeverMove
  <1>. QED  BY <1>1, <1>2, InitGrant, NextGrant, PTL DEF SpecC
=============================================================================
