---------------------------- MODULE SharedBuffersProofs --------------------------
(***************************************************************************)
(* Theorems about where buffers lie: no two share a byte, appended data is *)
(* never overwritten, and the library implements SharedBuffers.            *)
(***************************************************************************)
EXTENDS SharedBuffersC, BuffersCProofs

-----------------------------------------------------------------------------
\* The inductive invariant

Extent(i) == i.base .. (i.base + i.size - 1)

\* The bytes of an item that hold no data yet.
Free(i) == WriteAddress(i) .. (i.base + i.size - 1)

\* Headers lie in mapped memory, data too, and a header not yet in use holds none.
HeadersPlaced ==
  /\ \A h \in Headers : HeaderExtent(h) \subseteq mapped
  /\ written \subseteq mapped
  /\ \A h \in Headers \ ready : written \cap HeaderExtent(h) = {}

\* A range of bytes that came from allocate.
FromAllocate(bytes) ==
  /\ bytes \subseteq mapped
  /\ \A h \in Headers : bytes \cap HeaderExtent(h) = {}

\* A preallocated item lies inside its header's block, any other one where allocate put
\* it; behind the position there is no data.
ItemPlaced(h, i) ==
  /\ IF i < NumPreallocated THEN Extent(item[h][i]) \subseteq HeaderExtent(h)
                            ELSE FromAllocate(Extent(item[h][i]))
  /\ written \cap Free(item[h][i]) = {}

ItemsPlaced ==
  \A h \in ready : num_items[h] >= NumPreallocated /\ \A i \in Published(h) : ItemPlaced(h, i)

\* Memory that is about to be published is nobody else's and holds no data.
MemPlaced ==
  \A t \in Threads : pc[t] = "publish" =>
    /\ mem[t].position = 0
    /\ FromAllocate(Extent(mem[t]))
    /\ written \cap Extent(mem[t]) = {}
    /\ \A h \in ready : \A i \in Published(h) : Extent(mem[t]) \cap Extent(item[h][i]) = {}
    /\ \A u \in Threads \ {t} : pc[u] = "publish" => Extent(mem[t]) \cap Extent(mem[u]) = {}

ItemsApart ==
  \A g, h \in ready : \A i \in Published(g), j \in Published(h) :
    g # h \/ i # j => Extent(item[g][i]) \cap Extent(item[h][j]) = {}

Placement == HeadersPlaced /\ ItemsPlaced /\ MemPlaced /\ ItemsApart

PlaceInv == GrantInv /\ (Undisturbed => Placement /\ ~overwritten)

-----------------------------------------------------------------------------
\* Bytes

\* Header blocks share no byte, and a preallocated item lies inside its header's.
LEMMA HeadersApart ==
  /\ \A g, h \in Headers : g # h => HeaderExtent(g) \cap HeaderExtent(h) = {}
  /\ \A h \in Headers, i \in Slots :
       i < NumPreallocated => Extent(PreallocatedItem(h, i)) \subseteq HeaderExtent(h)
  <1>0. Granularity \in Nat /\ HeaderLength \in Nat /\ HeaderAddress \in [Headers -> Nat]
    BY LayoutAssumption, HeaderAssumption
  <1>1. \A g, h \in Headers : g # h => HeaderExtent(g) \cap HeaderExtent(h) = {}
    BY <1>0, PlacementAssumption DEF HeaderExtent
  <1>2. ASSUME NEW h \in Headers, NEW i \in Slots, i < NumPreallocated
        PROVE  Extent(PreallocatedItem(h, i)) \subseteq HeaderExtent(h)
    <2>1. /\ PreallocatedItem(h, i) \in ItemType
          /\ PreallocatedItem(h, i).size <= Granularity - HeaderLength
      BY <1>2, PreallocatedType
    <2>2. PreallocatedItem(h, i).base = HeaderAddress[h] + HeaderLength
      BY DEF PreallocatedItem, NewItem
    <2>3. PreallocatedItem(h, i).size \in Nat
      BY <2>1, WordAssumption DEF ItemType
    <2>. QED  BY <1>0, <2>1, <2>2, <2>3 DEF Extent, HeaderExtent
  <1>. QED  BY <1>1, <1>2

\* A published item stays published, covers the same bytes, and gets no new free ones.
LEMMA PublishedKept ==
  ASSUME StoresInOrder, GrantInv, InvC', Undisturbed, NEW t \in Threads, StepOf(t),
         NEW h \in ready, NEW i \in Published(h)
  PROVE  /\ i < num_items'[h]
         /\ item[h][i] \in ItemType /\ item'[h][i] \in ItemType
         /\ Extent(item'[h][i]) = Extent(item[h][i])
         /\ Free(item'[h][i]) \subseteq Free(item[h][i])
         /\ Free(item[h][i]) \subseteq Extent(item[h][i])
  <1>1. /\ ChainInv /\ Sound(h) /\ h \in Headers /\ i \in Slots /\ i < num_items[h]
        /\ num_items[h] \in Nat /\ num_items'[h] \in Nat
    <2>1. num_items \in [Headers -> 0 .. U8 - 1] /\ ready \subseteq Headers
      BY DEF GrantInv, InvC, ChainInv, Inv, TypeOK
    <2>2. num_items' \in [Headers -> 0 .. U8 - 1]
      BY DEF InvC, ChainInv, Inv, TypeOK
    <2>3. h \in Headers /\ num_items[h] \in Nat /\ num_items'[h] \in Nat
      BY <2>1, <2>2 DEF U8
    <2>. QED  BY <2>3 DEF GrantInv, InvC, Published, Undisturbed, Sound
  <1>2. i \in Nat
    BY <1>1 DEF Slots
  <1>3. item[h][i] \in ItemType /\ item'[h][i] \in ItemType
    <2>1. item \in [Headers -> [Slots -> ItemType]] /\ item' \in [Headers -> [Slots -> ItemType]]
      BY DEF GrantInv, InvC, ChainInv, Inv, TypeOK
    <2>. QED  BY <1>1, <2>1
  <1>4. /\ num_items'[h] >= num_items[h]
        /\ item'[h][i].base = item[h][i].base
        /\ item'[h][i].size = item[h][i].size
    BY <1>1, OnlyOwnersWrite
  <1>5. item'[h][i].position >= item[h][i].position
    BY PositionsGrow
  <1>6. /\ item[h][i].base \in Nat /\ item[h][i].size \in Nat /\ item[h][i].position \in Nat
        /\ item'[h][i].position \in Nat
    BY <1>3, WordAssumption DEF ItemType
  <1>7. i < num_items'[h]
    BY <1>1, <1>2, <1>4
  <1>8. Extent(item'[h][i]) = Extent(item[h][i])
    BY <1>4 DEF Extent
  <1>9. Free(item'[h][i]) \subseteq Free(item[h][i])
    BY <1>4, <1>5, <1>6 DEF Free, WriteAddress
  <1>10. Free(item[h][i]) \subseteq Extent(item[h][i])
    BY <1>6 DEF Free, WriteAddress, Extent
  <1>. QED  BY <1>3, <1>7, <1>8, <1>9, <1>10

\* The four steps that map memory, publish items or store data.
MapsOrPublishes(t) ==
  \/ \E base \in 1 .. UsizeMax : AllocateItem(t, base)
  \/ PublishItem(t, "num_items")
  \/ InitializeRemainingSpaceAsBuffers(t)
  \/ \E length \in 1 .. left[t] : AppendBytes(t, length)

\* Every other step leaves alone what the placement of buffers depends on.
LEMMA OtherSteps ==
  ASSUME InvC, Undisturbed, NEW t \in Threads, StepOf(t), ~MapsOrPublishes(t)
  PROVE  /\ UNCHANGED <<ready, mapped, written, overwritten>>
         /\ \A h \in ready : num_items'[h] = num_items[h]
         /\ pc'[t] = "publish" => pc[t] = "publish" /\ mem'[t] = mem[t]
  <1>0. /\ TypeOK /\ ready \subseteq Headers /\ pc \in [Threads -> Locations]
        /\ num_items \in [Headers -> 0 .. U8 - 1] /\ cur[t] \in Headers
        /\ after \in [Threads -> {"idle", "next", "follow", "align"}]
    BY DEF InvC, ChainInv, Inv, TypeOK
  <1> USE DEF headerVars, memoryVars, historyVars, Goto
  <1>1. CASE CallStep(t)
    <2>1. CASE \/ Align(t) \/ ScanBegin(t) \/ ScanSkip(t) \/ ScanCandidate(t) \/ ScanEnd(t)
               \/ LockForAllocation(t) \/ LockForNext(t)
      BY <1>0, <2>1 DEF Align, ScanBegin, ScanSkip, ScanCandidate, ScanEnd,
         LockForAllocation, LockForNext, Lock
    <2>2. CASE TryLockItem(t)
      <3>1. pc' = [pc EXCEPT ![t] = "align"] \/ pc' = [pc EXCEPT ![t] = "scan"]
        BY <2>2, Zenon DEF TryLockItem
      <3>. QED  BY <1>0, <2>2, <3>1 DEF TryLockItem
    <2>3. CASE Unlock(t) \/ TryAllocateItem(t) \/ AllocationRecheck(t)
      BY <1>0, <2>3 DEF Unlock, TryAllocateItem, AllocationRecheck, UnlockThen
    <2>4. CASE AllocationFails(t) \/ AllocationPanics(t) \/ Crash(t)
      BY <1>0, <2>4 DEF AllocationFails, AllocationPanics, UnlockThen, Return, Crash
    <2>5. ASSUME NEW store \in {"fields", "is_taken"}, PublishItem(t, store)
          PROVE  /\ UNCHANGED <<ready, mapped, written, overwritten, num_items>>
                 /\ pc'[t] = "publish" => pc[t] = "publish" /\ mem'[t] = mem[t]
      BY <1>0, <2>5 DEF PublishItem, UnlockThen
    <2>6. CASE NextCheck(t) \/ NextRecheck(t) \/ NextAllocationFails(t)
      BY <1>0, <2>6 DEF NextCheck, NextRecheck, NextAllocationFails, UnlockThen
    <2>7. ASSUME NEW n \in Headers, NEW contents \in HeapContents, AllocateNext(t, n, contents)
          PROVE  /\ UNCHANGED <<ready, mapped, written, overwritten>>
                 /\ \A h \in ready : num_items'[h] = num_items[h]
                 /\ pc'[t] # "publish"
      <3>1. n \notin ready
        BY <2>7 DEF AllocateNext, InvC, ChainInv, Inv, FreshHeaders
      <3>. QED  BY <1>0, <2>7, <3>1 DEF AllocateNext
    <2>8. CASE SetDefaultValues(t)
      <3>1. next_locator_ptr[cur[t]] \notin ready
        BY <2>8 DEF SetDefaultValues, InvC, ChainInv, Inv, Initializing, Undisturbed, Sound
      <3>. QED  BY <1>0, <2>8, <3>1 DEF SetDefaultValues
    <2>9. CASE Follow(t)
      BY <1>0, <2>9 DEF Follow
    <2>. QED
      BY <1>1, <2>1, <2>2, <2>3, <2>4, <2>5, <2>6, <2>7, <2>8, <2>9
      DEF CallStep, MapsOrPublishes
  <1>2. CASE (\E r \in Requests : GetBuffer(t, r)) \/ Drop(t)
    BY <1>0, <1>2 DEF GetBuffer, Drop, Return
  <1>3. CASE LocatorItemTryLock(t) \/ \E r \in Requests : LocatorItemCanUse(t, r)
    BY <1>0, <1>3 DEF LocatorItemTryLock, LocatorItemCanUse, InvC, Held
  <1>. QED  BY <1>1, <1>2, <1>3 DEF StepOf, MapsOrPublishes

-----------------------------------------------------------------------------
\* The placement of buffers is invariant

\* What holds of every step of a thread, in terms of bytes.
LEMMA BytesKept ==
  ASSUME StoresInOrder, PlaceInv, Undisturbed, InvC', NEW t \in Threads, StepOf(t)
  PROVE  /\ Placement /\ ~overwritten /\ ready \subseteq Headers /\ ready \subseteq ready'
         /\ \A h \in ready : num_items[h] \in Nat /\ num_items'[h] \in Nat
         /\ \A h \in ready : \A i \in Published(h) :
              /\ i < num_items'[h]
              /\ Extent(item'[h][i]) = Extent(item[h][i])
              /\ Free(item'[h][i]) \subseteq Free(item[h][i])
              /\ Free(item[h][i]) \subseteq Extent(item[h][i])
         /\ \A u \in Threads \ {t} : pc'[u] = pc[u] /\ mem'[u] = mem[u]
  <1>1. GrantInv /\ Placement /\ ~overwritten
    BY DEF PlaceInv
  <1>2. TypeOK /\ ready \subseteq Headers
    BY <1>1 DEF GrantInv, InvC, ChainInv, Inv, TypeOK
  <1>3. \A h \in ready : num_items[h] \in Nat /\ num_items'[h] \in Nat
    <2>1. num_items \in [Headers -> 0 .. U8 - 1] /\ num_items' \in [Headers -> 0 .. U8 - 1]
      BY <1>1 DEF GrantInv, InvC, ChainInv, Inv, TypeOK
    <2>. QED  BY <1>2, <2>1 DEF U8
  <1>4. \A u \in Threads \ {t} : pc'[u] = pc[u] /\ mem'[u] = mem[u]
    BY <1>2, OthersKeepTheirs
  <1>5. ready \subseteq ready'
    BY HistoryGrows
  <1>. QED  BY <1>1, <1>2, <1>3, <1>4, <1>5, PublishedKept

\* A step that neither maps memory nor publishes an item nor stores data.
LEMMA PlainPlacement ==
  ASSUME StoresInOrder, PlaceInv, Undisturbed, InvC', NEW t \in Threads, StepOf(t),
         ~MapsOrPublishes(t)
  PROVE  Placement' /\ ~overwritten'
  <1>1. /\ UNCHANGED <<ready, mapped, written, overwritten>>
        /\ \A h \in ready : num_items'[h] = num_items[h]
        /\ pc'[t] = "publish" => pc[t] = "publish" /\ mem'[t] = mem[t]
    BY OtherSteps DEF PlaceInv, GrantInv
  <1>2. /\ Placement /\ ~overwritten
        /\ \A h \in ready : \A i \in Published(h) :
              /\ Extent(item'[h][i]) = Extent(item[h][i])
              /\ Free(item'[h][i]) \subseteq Free(item[h][i])
        /\ \A u \in Threads \ {t} : pc'[u] = pc[u] /\ mem'[u] = mem[u]
    BY BytesKept
  <1>3. \A h \in ready : Published(h)' = Published(h)
    BY <1>1 DEF Published
  <1>4. \A u \in Threads : pc'[u] = "publish" => pc[u] = "publish" /\ mem'[u] = mem[u]
    BY <1>1, <1>2
  <1>5. HeadersPlaced'
    BY <1>1, <1>2 DEF Placement, HeadersPlaced
  <1>6. ItemsPlaced'
    BY <1>1, <1>2, <1>3 DEF Placement, ItemsPlaced, ItemPlaced, FromAllocate
  <1>7. MemPlaced'
    <2> SUFFICES ASSUME NEW u \in Threads, pc'[u] = "publish"
                 PROVE  /\ mem'[u].position = 0 /\ FromAllocate(Extent(mem[u]))'
                        /\ written \cap Extent(mem[u]) = {}
                        /\ \A h \in ready : \A i \in Published(h) :
                             Extent(mem[u]) \cap Extent(item[h][i]) = {}
                        /\ \A v \in Threads \ {u} : pc[v] = "publish" =>
                             Extent(mem[u]) \cap Extent(mem[v]) = {}
      BY <1>1, <1>2, <1>3, <1>4, SMTT(60) DEF MemPlaced, FromAllocate
    <2>. QED  BY <1>1, <1>2, <1>4 DEF Placement, MemPlaced, FromAllocate
  <1>8. ItemsApart'
    BY <1>1, <1>2, <1>3 DEF Placement, ItemsApart
  <1>. QED  BY <1>1, <1>2, <1>5, <1>6, <1>7, <1>8 DEF Placement

\* allocate returns memory that was not mapped, so it shares no byte with anything.
LEMMA AllocatePlacement ==
  ASSUME StoresInOrder, PlaceInv, Undisturbed, InvC', NEW t \in Threads,
         NEW base \in 1 .. UsizeMax, AllocateItem(t, base)
  PROVE  Placement' /\ ~overwritten'
  <1> DEFINE size == SanitizedSize(SizeOf(t), Granularity)
             new  == base .. (base + size - 1)
             Still(bytes) == /\ bytes \subseteq mapped'
                             /\ \A h \in Headers : bytes \cap HeaderExtent(h) = {}
  <1>0. StepOf(t)
    BY DEF StepOf, CallStep
  <1>1. /\ mem' = [mem EXCEPT ![t] = NewItem(base, size)]
        /\ new \cap mapped = {} /\ mapped' = mapped \cup new
        /\ UNCHANGED <<ready, written, overwritten, num_items, item>>
    BY DEF AllocateItem, FreeBases, historyVars, headerVars
  <1>2. mem'[t] = NewItem(base, size)
    BY <1>1 DEF PlaceInv, GrantInv, InvC, ChainInv, Inv, TypeOK
  <1>3. Extent(mem'[t]) = new /\ mem'[t].position = 0
    BY <1>2 DEF Extent, NewItem
  <1> HIDE DEF new
  <1>4. /\ Placement /\ ~overwritten /\ ready \subseteq Headers
        /\ \A u \in Threads \ {t} : pc'[u] = pc[u] /\ mem'[u] = mem[u]
    BY <1>0, BytesKept
  <1>5. \A h \in ready : Published(h)' = Published(h)
    BY <1>1 DEF Published
  <1>6. \A bytes : FromAllocate(bytes) => bytes \cap new = {} /\ Still(bytes)
    BY <1>1 DEF FromAllocate
  <1>7. HeadersPlaced'
    BY <1>1, <1>4 DEF Placement, HeadersPlaced
  <1>8. ItemsPlaced'
    BY <1>1, <1>4, <1>5, <1>6 DEF Placement, ItemsPlaced, ItemPlaced, FromAllocate
  <1>9. \A h \in ready : \A i \in Published(h) : Extent(item[h][i]) \cap new = {}
    <2> TAKE h \in ready
    <2> TAKE i \in Published(h)
    <2>1. ItemPlaced(h, i) /\ HeaderExtent(h) \subseteq mapped
      BY <1>4 DEF Placement, ItemsPlaced, HeadersPlaced
    <2>2. Extent(item[h][i]) \subseteq mapped
      BY <2>1 DEF ItemPlaced, FromAllocate
    <2>. QED  BY <1>1, <2>2
  <1>10. Still(new) /\ written \cap new = {}
    BY <1>1, <1>4 DEF Placement, HeadersPlaced, FromAllocate
  <1>11. ASSUME NEW u \in Threads \ {t}, pc'[u] = "publish"
         PROVE  /\ mem[u].position = 0 /\ Still(Extent(mem[u])) /\ Extent(mem[u]) \cap new = {}
                /\ written \cap Extent(mem[u]) = {}
                /\ \A h \in ready : \A i \in Published(h) :
                     Extent(mem[u]) \cap Extent(item[h][i]) = {}
                /\ \A v \in Threads \ {u} : pc[v] = "publish" =>
                     Extent(mem[u]) \cap Extent(mem[v]) = {}
    <2>1. pc[u] = "publish"
      BY <1>4, <1>11
    <2>2. FromAllocate(Extent(mem[u]))
      BY <1>4, <2>1 DEF Placement, MemPlaced
    <2>3. Still(Extent(mem[u])) /\ Extent(mem[u]) \cap new = {}
      BY <1>1, <2>2 DEF FromAllocate
    <2>. QED  BY <1>4, <2>1, <2>3 DEF Placement, MemPlaced
  <1>12. MemPlaced'
    <2> SUFFICES ASSUME NEW u \in Threads, pc'[u] = "publish"
                 PROVE  /\ mem'[u].position = 0 /\ Still(Extent(mem'[u]))
                        /\ written \cap Extent(mem'[u]) = {}
                        /\ \A h \in ready : \A i \in Published(h) :
                             Extent(mem'[u]) \cap Extent(item[h][i]) = {}
                        /\ \A v \in Threads \ {u} : pc'[v] = "publish" =>
                             Extent(mem'[u]) \cap Extent(mem'[v]) = {}
      BY <1>1, <1>5 DEF MemPlaced, FromAllocate
    <2>1. CASE u = t
      BY <1>3, <1>4, <1>9, <1>10, <1>11, <2>1 DEF FromAllocate
    <2>2. CASE u # t
      BY <1>3, <1>4, <1>11, <2>2 DEF FromAllocate
    <2>. QED  BY <2>1, <2>2
  <1>13. ItemsApart'
    BY <1>1, <1>4, <1>5 DEF Placement, ItemsApart
  <1>. QED  BY <1>1, <1>4, <1>7, <1>8, <1>12, <1>13 DEF Placement

\* What num_items comes to cover is the memory allocate returned, no data in it.
LEMMA PublishPlacement ==
  ASSUME StoresInOrder, PlaceInv, Undisturbed, InvC', NEW t \in Threads,
         PublishItem(t, "num_items")
  PROVE  /\ Placement' /\ ~overwritten'
         /\ cur[t] \in ready /\ pc[t] = "publish" /\ idx[t] = num_items[cur[t]]
         /\ UNCHANGED <<ready, item, cur, idx>>
         /\ num_items'[cur[t]] = num_items[cur[t]] + 1
         /\ \A h \in ready \ {cur[t]} : num_items'[h] = num_items[h]
         /\ item[cur[t]][idx[t]] = mem[t]
         /\ pc' = [pc EXCEPT ![t] = "unlock"] /\ after' = [after EXCEPT ![t] = "align"]
         /\ \A h \in ready : \A i \in Published(h)' :
              i \in Published(h) \/ (h = cur[t] /\ i = idx[t])
  <1> DEFINE c == cur[t]
             k == idx[t]
             Still(bytes) == /\ bytes \subseteq mapped'
                             /\ \A h \in Headers : bytes \cap HeaderExtent(h) = {}
  <1>0. StepOf(t) /\ GrantInv /\ ChainInv
    BY DEF StepOf, CallStep, PlaceInv, GrantInv, InvC
  <1>1. /\ pc[t] = "publish" /\ todo[t] = {"num_items"} /\ c \in ready /\ k = num_items[c]
        /\ k \in Slots /\ item[c][k] = mem[t]
    <2>1. pc[t] = "publish" /\ todo[t] = {"num_items"}
      BY DEF PublishItem, MayBecomeVisible
    <2>2. Owns(t) /\ Sound(c)
      BY <2>1 DEF Owns, Undisturbed, Sound
    <2>3. c \in ready
      BY <1>0, <2>2 DEF ChainInv, Inv, FreshHeaders, TypeOK
    <2>4. k = num_items[c] /\ k \in Slots
      BY <1>0, <2>1, <2>2 DEF ChainInv, Inv, Owning, SlotOf, TypeOK
    <2>5. PromiseTo(t)
      BY <1>0 DEF GrantInv, Promises
    <2>. QED  BY <2>1, <2>3, <2>4, <2>5 DEF PromiseTo
  <1>2. /\ UNCHANGED <<ready, mapped, written, overwritten, item, cur, idx>>
        /\ num_items' = [num_items EXCEPT ![c] = (@ + 1) % U8]
        /\ pc' = [pc EXCEPT ![t] = "unlock"] /\ after' = [after EXCEPT ![t] = "align"]
    BY <1>1 DEF PublishItem, historyVars, memoryVars, UnlockThen, Goto
  <1>3. /\ num_items'[c] = num_items[c] + 1
        /\ \A h \in ready \ {c} : num_items'[h] = num_items[h]
    <2>1. num_items'[c] = num_items[c] + 1
      BY <1>0, PublishCounts DEF ChainInv, Undisturbed, Sound
    <2>. QED  BY <1>0, <1>2, <2>1 DEF ChainInv, Inv, TypeOK
  <1>4. /\ Placement /\ ~overwritten /\ ready \subseteq Headers
        /\ \A h \in ready : num_items[h] \in Nat
        /\ \A u \in Threads \ {t} : pc'[u] = pc[u] /\ mem'[u] = mem[u]
        /\ pc'[t] # "publish"
    <2>1. pc'[t] = "unlock"
      BY <1>0, <1>2 DEF ChainInv, Inv, TypeOK
    <2>. QED  BY <1>0, <2>1, BytesKept
  <1>5. \A h \in ready : \A i \in Published(h)' : i \in Published(h) \/ (h = c /\ i = k)
    <2> SUFFICES ASSUME NEW h \in ready, NEW i \in Slots, i < num_items'[h]
                 PROVE  i < num_items[h] \/ (h = c /\ i = k)
      BY DEF Published
    <2>1. i \in Nat
      BY DEF Slots
    <2>. QED  BY <1>1, <1>3, <1>4, <2>1
  <1>6. Free(mem[t]) \subseteq Extent(mem[t])
    <2>1. mem[t] \in ItemType
      BY <1>0 DEF ChainInv, Inv, TypeOK
    <2>2. mem[t].base \in Nat /\ mem[t].size \in Nat /\ mem[t].position \in Nat
      BY <2>1, WordAssumption DEF ItemType
    <2>. QED  BY <2>2 DEF Free, WriteAddress, Extent
  <1> HIDE DEF c, k
  <1>7. ~(k < NumPreallocated) /\ \A h \in ready : num_items'[h] >= NumPreallocated
    <2>1. \A h \in ready : num_items[h] >= NumPreallocated
      BY <1>4 DEF Placement, ItemsPlaced
    <2>2. NumPreallocated \in Nat
      BY LayoutAssumption
    <2>. QED  BY <1>1, <1>3, <1>4, <2>1, <2>2
  <1>8. HeadersPlaced'
    BY <1>2, <1>4 DEF Placement, HeadersPlaced
  <1>9. /\ FromAllocate(Extent(mem[t])) /\ written \cap Extent(mem[t]) = {}
        /\ \A h \in ready : \A i \in Published(h) : Extent(mem[t]) \cap Extent(item[h][i]) = {}
        /\ \A u \in Threads \ {t} : pc[u] = "publish" => Extent(mem[t]) \cap Extent(mem[u]) = {}
    BY <1>1, <1>4 DEF Placement, MemPlaced
  <1>10. ItemsPlaced'
    <2>1. ASSUME NEW h \in ready, NEW i \in Published(h)' PROVE ItemPlaced(h, i)'
      <3>1. CASE i \in Published(h)
        BY <1>2, <1>4, <3>1 DEF Placement, ItemsPlaced, ItemPlaced, FromAllocate
      <3>2. CASE h = c /\ i = k
        BY <1>1, <1>2, <1>6, <1>7, <1>9, <3>2 DEF ItemPlaced, FromAllocate
      <3>. QED  BY <1>5, <2>1, <3>1, <3>2
    <2>. QED  BY <1>2, <1>7, <2>1 DEF ItemsPlaced
  <1>11. MemPlaced'
    <2> SUFFICES ASSUME NEW u \in Threads \ {t}, pc[u] = "publish"
                 PROVE  /\ mem[u].position = 0 /\ Still(Extent(mem[u]))
                        /\ written \cap Extent(mem[u]) = {}
                        /\ \A h \in ready : \A i \in Published(h)' :
                             Extent(mem[u]) \cap Extent(item[h][i]) = {}
                        /\ \A v \in Threads \ {u, t} : pc[v] = "publish" =>
                             Extent(mem[u]) \cap Extent(mem[v]) = {}
      BY <1>2, <1>4, ZenonT(60) DEF MemPlaced, FromAllocate
    <2>1. /\ FromAllocate(Extent(mem[u])) /\ mem[u].position = 0 /\ written \cap Extent(mem[u]) = {}
          /\ \A h \in ready : \A i \in Published(h) : Extent(mem[u]) \cap Extent(item[h][i]) = {}
          /\ \A v \in Threads \ {u} : pc[v] = "publish" => Extent(mem[u]) \cap Extent(mem[v]) = {}
      BY <1>4 DEF Placement, MemPlaced
    <2>2. Still(Extent(mem[u]))
      BY <1>2, <2>1 DEF FromAllocate
    <2>3. Extent(mem[u]) \cap Extent(item[c][k]) = {}
      BY <1>1, <2>1
    <2>. QED  BY <1>5, <2>1, <2>2, <2>3
  <1>12. ItemsApart'
    <2> SUFFICES ASSUME NEW g \in ready, NEW h \in ready,
                        NEW i \in Published(g)', NEW j \in Published(h)', g # h \/ i # j
                 PROVE  Extent(item[g][i]) \cap Extent(item[h][j]) = {}
      BY <1>2 DEF ItemsApart
    <2>1. CASE i \in Published(g) /\ j \in Published(h)
      BY <1>4, <2>1 DEF Placement, ItemsApart
    <2>2. CASE g = c /\ i = k /\ j \in Published(h)
      BY <1>1, <1>9, <2>2
    <2>3. CASE h = c /\ j = k /\ i \in Published(g)
      BY <1>1, <1>9, <2>3
    <2>. QED  BY <1>5, <2>1, <2>2, <2>3
  <1>. QED
    BY <1>1, <1>2, <1>3, <1>4, <1>5, <1>8, <1>10, <1>11, <1>12 DEF Placement, c, k

\* The chunk of a new header lies in the header's block, where nothing else is.
LEMMA InitializePlacement ==
  ASSUME StoresInOrder, NumPreallocated <= 1, PlaceInv, Undisturbed, InvC', NEW t \in Threads,
         InitializeRemainingSpaceAsBuffers(t)
  PROVE  LET n == next_locator_ptr[cur[t]]
         IN  /\ Placement' /\ ~overwritten'
             /\ n \in Headers \ ready /\ ready' = ready \cup {n}
             /\ \A h \in ready : num_items'[h] = num_items[h] /\ item'[h] = item[h]
             /\ num_items'[n] = NumPreallocated
             /\ \A i \in Slots : i < NumPreallocated =>
                  i = 0 /\ item'[n][i] = PreallocatedItem(n, i)
             /\ pc' = [pc EXCEPT ![t] = "unlock"] /\ after' = [after EXCEPT ![t] = "follow"]
  <1> SUFFICES ASSUME NEW n, n = next_locator_ptr[cur[t]]
               PROVE  /\ Placement' /\ ~overwritten'
                      /\ n \in Headers \ ready /\ ready' = ready \cup {n}
                      /\ \A h \in ready : num_items'[h] = num_items[h] /\ item'[h] = item[h]
                      /\ num_items'[n] = NumPreallocated
                      /\ \A i \in Slots : i < NumPreallocated =>
                           i = 0 /\ item'[n][i] = PreallocatedItem(n, i)
                      /\ pc' = [pc EXCEPT ![t] = "unlock"]
                      /\ after' = [after EXCEPT ![t] = "follow"]
    OBVIOUS
  <1>0. StepOf(t) /\ GrantInv /\ ChainInv /\ TypeOK
    BY DEF StepOf, CallStep, PlaceInv, GrantInv, InvC, ChainInv, Inv
  <1>1. n \in Headers \ ready
    BY <1>0
    DEF InitializeRemainingSpaceAsBuffers, ChainInv, Inv, Initializing, Undisturbed, Sound
  <1>2. /\ UNCHANGED <<mapped, written, overwritten>>
        /\ ready' = ready \cup {n}
        /\ num_items' = [num_items EXCEPT ![n] = NumPreallocated]
        /\ item' = [item EXCEPT ![n] = InitializedItems(n, @)]
        /\ pc' = [pc EXCEPT ![t] = "unlock"] /\ after' = [after EXCEPT ![t] = "follow"]
    BY DEF InitializeRemainingSpaceAsBuffers, memoryVars, UnlockThen, Goto
  <1>3. /\ Placement /\ ~overwritten /\ ready \subseteq Headers
        /\ \A h \in ready : num_items[h] \in Nat
        /\ \A u \in Threads \ {t} : pc'[u] = pc[u] /\ mem'[u] = mem[u]
        /\ pc'[t] # "publish"
    <2>1. pc'[t] = "unlock"
      BY <1>0, <1>2 DEF TypeOK
    <2>. QED  BY <1>0, <2>1, BytesKept
  <1>4. /\ \A h \in ready : num_items'[h] = num_items[h] /\ item'[h] = item[h]
        /\ num_items'[n] = NumPreallocated
        /\ item'[n] = InitializedItems(n, item[n])
    <2>1. num_items \in [Headers -> 0 .. U8 - 1] /\ item \in [Headers -> [Slots -> ItemType]]
      BY <1>0 DEF TypeOK
    <2>. QED  BY <1>1, <1>2, <1>3, <2>1
  <1>5. \A h \in ready : Published(h)' = Published(h)
    BY <1>4 DEF Published
  <1>6. \A i \in Slots : i < NumPreallocated => i = 0 /\ item'[n][i] = PreallocatedItem(n, i)
    <2>1. \A i \in Slots : i < NumPreallocated => i = 0
      BY LayoutAssumption DEF Slots
    <2>. QED  BY <1>4, <2>1 DEF InitializedItems
  <1>7. ASSUME NEW i \in Published(n)'
        PROVE  /\ i < NumPreallocated /\ i = 0
               /\ Extent(item'[n][i]) \subseteq HeaderExtent(n)
               /\ Free(item'[n][i]) \subseteq HeaderExtent(n)
    <2>1. i \in Slots /\ i < NumPreallocated /\ i = 0 /\ item'[n][i] = PreallocatedItem(n, i)
      BY <1>4, <1>6, <1>7 DEF Published
    <2>2. Extent(item'[n][i]) \subseteq HeaderExtent(n)
      BY <1>1, <2>1, HeadersApart
    <2>3. Free(item'[n][i]) \subseteq Extent(item'[n][i])
      <3>1. item'[n][i].position = 0 /\ item'[n][i].base \in Nat
        <4>1. item'[n][i] \in ItemType
          BY <1>1, <2>1, PreallocatedType
        <4>. QED  BY <2>1, <4>1, WordAssumption DEF PreallocatedItem, NewItem, ItemType
      <3>. QED  BY <3>1 DEF Free, Extent, WriteAddress
    <2>. QED  BY <2>1, <2>2, <2>3
  <1>8. HeadersPlaced'
    BY <1>2, <1>3 DEF Placement, HeadersPlaced
  <1>9. ItemsPlaced'
    <2>1. ASSUME NEW h \in ready, NEW i \in Published(h)' PROVE ItemPlaced(h, i)'
      BY <1>2, <1>3, <1>4, <1>5, <2>1 DEF Placement, ItemsPlaced, ItemPlaced, FromAllocate
    <2>2. written \cap HeaderExtent(n) = {}
      BY <1>1, <1>3 DEF Placement, HeadersPlaced
    <2>3. ASSUME NEW i \in Published(n)'
          PROVE  /\ i < NumPreallocated
                 /\ Extent(item'[n][i]) \subseteq HeaderExtent(n)
                 /\ written' \cap Free(item'[n][i]) = {}
      BY <1>2, <1>7, <2>2, <2>3
    <2>4. \A h \in ready' : num_items'[h] >= NumPreallocated
      <3>1. NumPreallocated \in Nat
        BY LayoutAssumption
      <3>. QED  BY <1>2, <1>3, <1>4, <3>1 DEF Placement, ItemsPlaced
    <2>5. ASSUME NEW h \in ready', NEW i \in Published(h)' PROVE ItemPlaced(h, i)'
      <3>1. CASE h \in ready
        BY <2>1, <2>5, <3>1
      <3>2. CASE h = n
        BY <2>3, <2>5, <3>2 DEF ItemPlaced
      <3>. QED  BY <1>2, <3>1, <3>2
    <2>. QED  BY <2>4, <2>5 DEF ItemsPlaced
  <1>10. \A h \in ready : \A i \in Published(h) : Extent(item[h][i]) \cap HeaderExtent(n) = {}
    <2> TAKE h \in ready
    <2> TAKE i \in Published(h)
    <2>1. ItemPlaced(h, i) /\ h # n /\ HeaderExtent(h) \cap HeaderExtent(n) = {}
      BY <1>1, <1>3, HeadersApart DEF Placement, ItemsPlaced
    <2>. QED  BY <1>1, <2>1 DEF ItemPlaced, FromAllocate
  <1>11. MemPlaced'
    <2> SUFFICES ASSUME NEW u \in Threads, pc'[u] = "publish"
                 PROVE  /\ mem'[u].position = 0
                        /\ Extent(mem'[u]) \subseteq mapped'
                        /\ \A h \in Headers : Extent(mem'[u]) \cap HeaderExtent(h) = {}
                        /\ written' \cap Extent(mem'[u]) = {}
                        /\ \A h \in ready' : \A i \in Published(h)' :
                             Extent(mem'[u]) \cap Extent(item'[h][i]) = {}
                        /\ \A v \in Threads \ {u} : pc'[v] = "publish" =>
                             Extent(mem'[u]) \cap Extent(mem'[v]) = {}
      BY DEF MemPlaced, FromAllocate
    <2>0. u # t /\ pc[u] = "publish" /\ mem'[u] = mem[u]
      BY <1>3
    <2>1. /\ FromAllocate(Extent(mem[u])) /\ mem[u].position = 0 /\ written \cap Extent(mem[u]) = {}
          /\ \A h \in ready : \A i \in Published(h) : Extent(mem[u]) \cap Extent(item[h][i]) = {}
          /\ \A v \in Threads \ {u} : pc[v] = "publish" => Extent(mem[u]) \cap Extent(mem[v]) = {}
      BY <1>3, <2>0 DEF Placement, MemPlaced
    <2>2. ASSUME NEW h \in ready', NEW i \in Published(h)'
          PROVE  Extent(mem[u]) \cap Extent(item'[h][i]) = {}
      <3>1. CASE h \in ready
        BY <1>4, <1>5, <2>1, <2>2, <3>1
      <3>2. CASE h = n
        BY <1>1, <1>7, <2>1, <2>2, <3>2 DEF FromAllocate
      <3>. QED  BY <1>2, <3>1, <3>2
    <2>. QED  BY <1>2, <1>3, <2>0, <2>1, <2>2 DEF FromAllocate
  <1>12. ItemsApart'
    <2> SUFFICES ASSUME NEW g \in ready', NEW h \in ready',
                        NEW i \in Published(g)', NEW j \in Published(h)', g # h \/ i # j
                 PROVE  Extent(item'[g][i]) \cap Extent(item'[h][j]) = {}
      BY DEF ItemsApart
    <2>1. CASE g \in ready /\ h \in ready
      BY <1>3, <1>4, <1>5, <2>1 DEF Placement, ItemsApart
    <2>2. CASE g = n /\ h \in ready
      BY <1>4, <1>5, <1>7, <1>10, <2>2
    <2>3. CASE g \in ready /\ h = n
      BY <1>4, <1>5, <1>7, <1>10, <2>3
    <2>4. CASE g = n /\ h = n
      BY <1>7, <2>4
    <2>. QED  BY <1>2, <2>1, <2>2, <2>3, <2>4
  <1>. QED
    BY <1>1, <1>2, <1>3, <1>4, <1>6, <1>8, <1>9, <1>11, <1>12 DEF Placement

\* Data goes where the item of its writer has no data yet, and nowhere else.
LEMMA AppendPlacement ==
  ASSUME StoresInOrder, PlaceInv, Undisturbed, InvC', NEW t \in Threads,
         NEW length \in 1 .. left[t], AppendBytes(t, length)
  PROVE  Placement' /\ ~overwritten'
  <1> DEFINE c == cur[t]
             k == idx[t]
             i == item[c][k]
             data == WriteAddress(i) .. (WriteAddress(i) + length - 1)
  <1>0. StepOf(t) /\ GrantInv /\ ChainInv /\ TypeOK
    BY DEF StepOf, PlaceInv, GrantInv, InvC, ChainInv, Inv
  <1>1. c \in ready /\ k \in Published(c)
    <2>1. Owns(t) /\ pc[t] # "publish" /\ Sound(c)
      BY DEF AppendBytes, Store, Owns, Undisturbed, Sound
    <2>2. c \in ready /\ k \in Slots
      BY <1>0, <2>1 DEF ChainInv, Inv, FreshHeaders, TypeOK
    <2>3. k < num_items[c]
      BY <1>0, <2>1 DEF ChainInv, Inv, Owning, SlotOf
    <2>. QED  BY <2>2, <2>3 DEF Published
  <1>2. /\ UNCHANGED <<mapped, ready, num_items, pc, mem>>
        /\ item' = [item EXCEPT ![c][k] = AppendedItem(@, length)]
        /\ written' = written \cup data
        /\ overwritten' = (overwritten \/ data \cap written # {})
        /\ i.position + length <= MaxPosition
    BY DEF AppendBytes, Store, memoryVars
  <1>3. i.position + length <= i.size
    <2>1. PromiseTo(t) /\ pc[t] = "owned"
      BY <1>0 DEF GrantInv, Promises, AppendBytes, Store
    <2>2. i.position + left[t] <= i.size
      BY <2>1 DEF PromiseTo
    <2>3. left[t] \in Nat /\ i \in ItemType
      BY <1>0, <1>1 DEF TypeOK, Published
    <2>. QED  BY <2>2, <2>3, WordAssumption DEF ItemType
  <1>4. /\ i \in ItemType /\ item'[c][k] = AppendedItem(i, length)
        /\ \A h \in ready : \A j \in Published(h) : (h # c \/ j # k) => item'[h][j] = item[h][j]
    BY <1>0, <1>1, <1>2 DEF TypeOK, Published
  <1>5. /\ data \subseteq Free(i) /\ data \subseteq Extent(i)
        /\ data \cap Free(item'[c][k]) = {}
    <2>1. i.base \in Nat /\ i.size \in Nat /\ i.position \in Nat /\ length \in Nat
      BY <1>0, <1>4, WordAssumption DEF ItemType, TypeOK
    <2>2. /\ item'[c][k].base = i.base /\ item'[c][k].size = i.size
          /\ item'[c][k].position = i.position + length
      BY <1>2, <1>4, <2>1, AppendFits
    <2>3. data \subseteq Free(i)
      BY <1>3, <2>1 DEF Free, WriteAddress
    <2>4. data \subseteq Extent(i)
      BY <1>3, <2>1, SMTT(60) DEF Extent, WriteAddress
    <2>5. data \cap Free(item'[c][k]) = {}
      BY <2>1, <2>2 DEF Free, WriteAddress
    <2>. QED  BY <2>3, <2>4, <2>5
  <1> HIDE DEF i, data, c, k
  <1>6. /\ Placement /\ ~overwritten /\ ready \subseteq Headers
        /\ \A h \in ready : \A j \in Published(h) :
              /\ Extent(item'[h][j]) = Extent(item[h][j])
              /\ Free(item'[h][j]) \subseteq Free(item[h][j])
              /\ Free(item[h][j]) \subseteq Extent(item[h][j])
    BY <1>0, BytesKept
  <1>7. \A h \in ready : Published(h)' = Published(h)
    BY <1>2 DEF Published
  <1>8. ItemPlaced(c, k) /\ i = item[c][k]
    BY <1>1, <1>6 DEF Placement, ItemsPlaced, i
  <1>9. data \cap written = {}
    BY <1>5, <1>8 DEF ItemPlaced
  <1>10. /\ data \subseteq mapped
         /\ \A h \in Headers \ ready : data \cap HeaderExtent(h) = {}
    <2>1. c \in Headers /\ HeaderExtent(c) \subseteq mapped
      BY <1>1, <1>6 DEF Placement, HeadersPlaced
    <2>2. \A h \in Headers \ ready : HeaderExtent(c) \cap HeaderExtent(h) = {}
      BY <1>1, <2>1, HeadersApart
    <2>. QED  BY <1>5, <1>8, <2>1, <2>2 DEF ItemPlaced, FromAllocate
  <1>11. HeadersPlaced'
    BY <1>2, <1>6, <1>10 DEF Placement, HeadersPlaced
  <1>12. ItemsPlaced'
    <2>1. ASSUME NEW h \in ready, NEW j \in Published(h) PROVE data \cap Free(item'[h][j]) = {}
      <3>1. CASE h = c /\ j = k
        BY <1>5, <3>1
      <3>2. CASE h # c \/ j # k
        <4>1. Extent(i) \cap Extent(item[h][j]) = {}
          BY <1>1, <1>6, <1>8, <3>2 DEF Placement, ItemsApart
        <4>. QED  BY <1>5, <1>6, <4>1
      <3>. QED  BY <3>1, <3>2
    <2>2. ASSUME NEW h \in ready, NEW j \in Published(h)
          PROVE  /\ IF j < NumPreallocated THEN Extent(item'[h][j]) \subseteq HeaderExtent(h)
                      ELSE /\ Extent(item'[h][j]) \subseteq mapped
                           /\ \A g \in Headers : Extent(item'[h][j]) \cap HeaderExtent(g) = {}
                 /\ written' \cap Free(item'[h][j]) = {}
      <3>1. ItemPlaced(h, j)
        BY <1>6 DEF Placement, ItemsPlaced
      <3>. QED  BY <1>2, <1>6, <2>1, <3>1 DEF ItemPlaced, FromAllocate
    <2>3. \A h \in ready : num_items[h] >= NumPreallocated
      BY <1>6 DEF Placement, ItemsPlaced
    <2>. QED  BY <1>2, <1>7, <2>2, <2>3 DEF ItemsPlaced, ItemPlaced, FromAllocate
  <1>13. MemPlaced'
    <2>1. \A u \in Threads : pc[u] = "publish" => data \cap Extent(mem[u]) = {}
      BY <1>1, <1>5, <1>6, <1>8 DEF Placement, MemPlaced
    <2>2. \A u \in Threads : pc[u] = "publish" => written' \cap Extent(mem[u]) = {}
      BY <1>2, <1>6, <2>1 DEF Placement, MemPlaced
    <2>. QED  BY <1>2, <1>6, <1>7, <2>2, SMTT(60) DEF Placement, MemPlaced, FromAllocate
  <1>14. ItemsApart'
    BY <1>2, <1>6, <1>7 DEF Placement, ItemsApart
  <1>. QED  BY <1>2, <1>6, <1>9, <1>11, <1>12, <1>13, <1>14 DEF Placement

\* At the start there is the root's chunk and no data.
LEMMA InitPlace ==
  ASSUME NumPreallocated <= 1, InitC
  PROVE  PlaceInv
  <1>1. GrantInv
    BY InitGrant
  <1>2. /\ ready = {Root} /\ Root \in Headers /\ num_items[Root] = NumPreallocated
        /\ item[Root] = InitializedItems(Root, [i \in Slots |-> Zero])
        /\ mapped = UNION {HeaderExtent(h) : h \in Headers}
        /\ written = {} /\ ~overwritten
        /\ \A t \in Threads : pc[t] = "idle"
    BY HeaderAssumption DEF InitC, Init
  <1>3. \A i \in Published(Root) : i = 0 /\ i < NumPreallocated /\ item[Root][i] = PreallocatedItem(Root, i)
    <2>1. \A i \in Slots : i < NumPreallocated => i = 0
      BY LayoutAssumption DEF Slots
    <2>. QED  BY <1>2, <2>1 DEF Published, InitializedItems
  <1>4. HeadersPlaced
    BY <1>2 DEF HeadersPlaced
  <1>5. ItemsPlaced
    <2>1. NumPreallocated \in Nat
      BY LayoutAssumption
    <2>2. \A i \in Published(Root) : ItemPlaced(Root, i)
      BY <1>2, <1>3, HeadersApart DEF ItemPlaced, Published
    <2>. QED  BY <1>2, <2>1, <2>2 DEF ItemsPlaced
  <1>6. MemPlaced /\ ItemsApart
    BY <1>2, <1>3 DEF MemPlaced, ItemsApart
  <1>. QED  BY <1>1, <1>2, <1>4, <1>5, <1>6 DEF PlaceInv, Placement

\* The invariant is inductive.
LEMMA NextPlace ==
  ASSUME StoresInOrder, \A r \in Requests : PaddedFits(r), NumPreallocated <= 1,
         PlaceInv, [NextC]_<<vars, cVars>>
  PROVE  PlaceInv'
  <1>1. GrantInv' /\ InvC'
    BY NextGrant DEF PlaceInv, GrantInv
  <1>2. CASE UNCHANGED vars
    <2> USE DEF vars, headerVars, memoryVars, threadVars, historyVars
    <2>1. Undisturbed' => Undisturbed
      BY <1>2 DEF Undisturbed
    <2>2. Placement => Placement'
      <3>1. HeadersPlaced => HeadersPlaced'
        BY <1>2 DEF HeadersPlaced
      <3>2. ItemsPlaced => ItemsPlaced'
        BY <1>2 DEF ItemsPlaced, ItemPlaced, FromAllocate, Published
      <3>3. MemPlaced => MemPlaced'
        BY <1>2 DEF MemPlaced, FromAllocate, Published
      <3>4. ItemsApart => ItemsApart'
        BY <1>2 DEF ItemsApart, Published
      <3>. QED  BY <3>1, <3>2, <3>3, <3>4 DEF Placement
    <2>. QED  BY <1>1, <1>2, <2>1, <2>2 DEF PlaceInv
  <1>3. ASSUME NEW t \in Threads, StepOf(t), Undisturbed' PROVE Placement' /\ ~overwritten'
    <2>1. Undisturbed
      BY <1>3, HistoryGrows DEF Undisturbed
    <2>2. CASE ~MapsOrPublishes(t)
      BY <1>1, <1>3, <2>1, <2>2, PlainPlacement
    <2>3. CASE MapsOrPublishes(t)
      BY <1>1, <2>1, <2>3, AllocatePlacement, PublishPlacement, InitializePlacement,
         AppendPlacement DEF MapsOrPublishes
    <2>. QED  BY <2>2, <2>3
  <1>. QED  BY <1>1, <1>2, <1>3, ThreadOfStep DEF PlaceInv

\* "Allocated data never moves, or is overwritten": with one chunk or none in a header's
\* block, no append of any thread touches a byte that holds data, through whichever item
\* of whichever header; unless an item was given out on an out-of-date check.
THEOREM DataNeverOverwritten ==
  ASSUME StoresInOrder, \A r \in Requests : PaddedFits(r), NumPreallocated <= 1
  PROVE  SpecC => []NeverOverwritten
  <1>1. PlaceInv => NeverOverwritten
    BY DEF PlaceInv, NeverOverwritten
  <1>. QED  BY <1>1, InitPlace, NextPlace, PTL DEF SpecC

-----------------------------------------------------------------------------
\* Refinement: the buffers of SharedBuffers

\* A published slot is a buffer, any other name is unused.
LEMMA BufferOfSlot ==
  ASSUME InvC, NEW n \in Names
  PROVE  /\ n = <<n[1], n[2]>> /\ n[1] \in Headers /\ n[2] \in Slots
         /\ BufferOf(n) # Unused <=> n[1] \in ready /\ n[2] \in Published(n[1])
         /\ n[1] \in ready /\ n[2] \in Published(n[1]) =>
              /\ BufferOf(n).base = item[n[1]][n[2]].base
              /\ BufferOf(n).size = item[n[1]][n[2]].size
              /\ BufferOf(n).used = item[n[1]][n[2]].position
              /\ BufferOf(n) \in BufferType
  <1>1. n = <<n[1], n[2]>> /\ n[1] \in Headers /\ n[2] \in Slots
    BY DEF Names
  <1>2. item[n[1]][n[2]] \in ItemType
    BY <1>1 DEF InvC, ChainInv, Inv, TypeOK
  <1>3. n[2] \in Published(n[1]) <=> n[2] < num_items[n[1]]
    BY <1>1 DEF Published
  <1>. QED  BY <1>1, <1>2, <1>3, MarkAssumption DEF BufferOf, BufferType, ItemType

Holds(t, n) == Owns(t) /\ pc[t] # "publish" /\ <<cur[t], idx[t]>> = n

\* A slot has one holder at most, and that one is its owner.
LEMMA OwnerOfSlot ==
  ASSUME InvC, Undisturbed, NEW n \in Names
  PROVE  /\ \A t \in Threads : Holds(t, n) => OwnerOf(n) = t
         /\ (\A t \in Threads : ~Holds(t, n)) => OwnerOf(n) = Nobody
         /\ OwnerOf(n) \in Threads \cup {Nobody}
  <1> DEFINE holders == {t \in Threads : Owns(t) /\ pc[t] # "publish" /\ <<cur[t], idx[t]>> = n}
  <1>1. \A t, u \in Threads : Holds(t, n) /\ Holds(u, n) => t = u
    BY DEF Holds, InvC, ChainInv, Inv, ExclusiveUse, Undisturbed, Sound
  <1>2. \A t \in Threads : t \in holders <=> Holds(t, n)
    BY DEF Holds
  <1>3. OwnerOf(n) = IF holders = {} THEN Nobody ELSE CHOOSE t \in holders : TRUE
    BY DEF OwnerOf
  <1>4. holders # {} => (CHOOSE t \in holders : TRUE) \in holders
    OBVIOUS
  <1> HIDE DEF holders
  <1>5. holders \subseteq Threads
    BY DEF holders
  <1>. QED  BY <1>1, <1>2, <1>3, <1>4, <1>5

\* A step of one thread changes the owner of an item only if that thread gets or drops it.
LEMMA OwnersChange ==
  ASSUME InvC, InvC', Undisturbed, Undisturbed', NEW t \in Threads, StepOf(t), NEW n \in Names
  PROVE  /\ (Holds(t, n)' <=> Holds(t, n)) => OwnerOf(n)' = OwnerOf(n)
         /\ Holds(t, n)' /\ ~Holds(t, n) => OwnerOf(n) = Nobody /\ OwnerOf(n)' = t
         /\ Holds(t, n) /\ ~Holds(t, n)' => OwnerOf(n) = t /\ OwnerOf(n)' = Nobody
  <1>1. \A u \in Threads \ {t} : Holds(u, n)' <=> Holds(u, n)
    <2>1. TypeOK
      BY DEF InvC, ChainInv, Inv
    <2>. QED  BY <2>1, OthersKeepTheirs DEF Holds, Owns
  <1>2. \A u, v \in Threads : Holds(u, n)' /\ Holds(v, n)' => u = v
    BY DEF Holds, InvC, ChainInv, Inv, ExclusiveUse, Undisturbed, Sound
  <1>3. \A u, v \in Threads : Holds(u, n) /\ Holds(v, n) => u = v
    BY DEF Holds, InvC, ChainInv, Inv, ExclusiveUse, Undisturbed, Sound
  <1> DEFINE before == {u \in Threads : Holds(u, n)}
             after2 == {u \in Threads : Holds(u, n)'}
  <1>4. /\ OwnerOf(n) = IF before = {} THEN Nobody ELSE CHOOSE u \in before : TRUE
        /\ OwnerOf(n)' = IF after2 = {} THEN Nobody ELSE CHOOSE u \in after2 : TRUE
    BY DEF OwnerOf, Holds
  <1>5. (Holds(t, n)' <=> Holds(t, n)) => before = after2
    BY <1>1
  <1>6. Holds(t, n)' /\ ~Holds(t, n) => before = {} /\ after2 = {t}
    BY <1>1, <1>2
  <1>7. Holds(t, n) /\ ~Holds(t, n)' => after2 = {} /\ before = {t}
    BY <1>1, <1>3
  <1>8. (CHOOSE u \in {t} : TRUE) = t
    OBVIOUS
  <1> HIDE DEF before, after2
  <1>. QED  BY <1>4, <1>5, <1>6, <1>7, <1>8

\* A slot that stays published, or stays unpublished, and keeps its item.
LEMMA BufferKept ==
  ASSUME NEW n \in Names,
         n[1] \in ready' <=> n[1] \in ready,
         n[1] \in ready => num_items'[n[1]] = num_items[n[1]],
         n[1] \in ready /\ n[2] < num_items[n[1]] => item'[n[1]][n[2]] = item[n[1]][n[2]]
  PROVE  BufferOf(n)' = BufferOf(n)
  BY DEF BufferOf

-----------------------------------------------------------------------------
\* The steps of SharedBuffers

\* Nothing happens to any buffer.
LEMMA Stutters ==
  ASSUME \A n \in Names : BufferOf(n)' = BufferOf(n) /\ OwnerOf(n)' = OwnerOf(n)
  PROVE  UNCHANGED Shared!bufferVars
  BY DEF Shared!bufferVars

\* A thread gets a buffer that nobody holds.
LEMMA Acquires ==
  ASSUME NEW t \in Threads, NEW n \in Names, BufferOf(n) # Unused, OwnerOf(n) = Nobody,
         OwnerOf(n)' = t, \A m \in Names \ {n} : OwnerOf(m)' = OwnerOf(m),
         \A m \in Names : BufferOf(m)' = BufferOf(m)
  PROVE  Shared!BuffersNext
  <1>1. Shared!Acquire(t, n)
    BY DEF Shared!Acquire, Shared!Known
  <1>. QED  BY <1>1 DEF Shared!BuffersNext

\* A thread gives back a buffer.
LEMMA Releases ==
  ASSUME NEW t \in Threads, NEW n \in Names, OwnerOf(n) = t,
         OwnerOf(n)' = Nobody, \A m \in Names \ {n} : OwnerOf(m)' = OwnerOf(m),
         \A m \in Names : BufferOf(m)' = BufferOf(m)
  PROVE  Shared!BuffersNext
  <1>1. OwnerOf(n) # Nobody
    BY MarkAssumption
  <1>2. [m \in Names |-> OwnerOf(m)]' = [[m \in Names |-> OwnerOf(m)] EXCEPT ![n] = Nobody]
    OBVIOUS
  <1>3. UNCHANGED [m \in Names |-> BufferOf(m)]
    OBVIOUS
  <1>4. Shared!Release(n)
    BY <1>1, <1>2, <1>3 DEF Shared!Release
  <1>. QED  BY <1>4 DEF Shared!BuffersNext

\* The owner of a buffer uses more of it.
LEMMA Advances ==
  ASSUME NEW t \in Threads, NEW n \in Names, BufferOf(n) # Unused, OwnerOf(n) = t,
         \A m \in Names : OwnerOf(m)' = OwnerOf(m),
         \A m \in Names \ {n} : BufferOf(m)' = BufferOf(m),
         NEW more, BufferOf(n)' = [BufferOf(n) EXCEPT !.used = more],
         BufferOf(n) \in BufferType, more > BufferOf(n).used
  PROVE  Shared!BuffersNext
  <1>1. BufferOf(n)'.used = more
    BY DEF BufferType
  <1>2. Shared!Advance(n)
    BY <1>1, MarkAssumption DEF Shared!Advance, Shared!Known
  <1>. QED  BY <1>2 DEF Shared!BuffersNext

\* A buffer is made, for a thread or for whoever comes first.
LEMMA Appears ==
  ASSUME NEW n \in Names, BufferOf(n) = Unused, BufferOf(n)' # Unused, BufferOf(n)'.used = 0,
         \A m \in Names : BufferOf(m) # Unused =>
           Extent(BufferOf(n)') \cap Extent(BufferOf(m)) = {},
         \A m \in Names \ {n} : BufferOf(m)' = BufferOf(m),
         \/ \E t \in Threads : /\ OwnerOf(n)' = t
                               /\ \A m \in Names \ {n} : OwnerOf(m)' = OwnerOf(m)
         \/ \A m \in Names : OwnerOf(m)' = OwnerOf(m)
  PROVE  Shared!BuffersNext
  <1> DEFINE buf == [m \in Names |-> BufferOf(m)]
             own == [m \in Names |-> OwnerOf(m)]
  <1>1. buf' = [buf EXCEPT ![n] = buf'[n]] /\ buf'[n] = BufferOf(n)'
    <2>1. buf'[n] = BufferOf(n)'
      OBVIOUS
    <2>2. \A m \in Names : buf'[m] = IF m = n THEN buf'[n] ELSE buf[m]
      <3>1. \A m \in Names : buf'[m] = BufferOf(m)' /\ buf[m] = BufferOf(m)
        OBVIOUS
      <3>. QED  BY <3>1
    <2>3. DOMAIN buf = Names /\ DOMAIN buf' = Names
          /\ buf = [m \in Names |-> buf[m]] /\ buf' = [m \in Names |-> buf'[m]]
      OBVIOUS
    <2> HIDE DEF buf
    <2>4. buf' = [buf EXCEPT ![n] = buf'[n]]
      BY <2>2, <2>3
    <2>. QED  BY <2>1, <2>4
  <1>2. Shared!IsFresh(buf'[n])
    BY <1>1 DEF Shared!IsFresh, Shared!Known, Shared!Bytes, Extent
  <1>3. ASSUME NEW t \in Threads, OwnerOf(n)' = t, \A m \in Names \ {n} : OwnerOf(m)' = OwnerOf(m)
        PROVE  Shared!Create(t, n)
    <2>1. own' = [own EXCEPT ![n] = t]
      BY <1>3
    <2>. QED  BY <1>1, <1>2, <2>1 DEF Shared!Create
  <1>4. ASSUME \A m \in Names : OwnerOf(m)' = OwnerOf(m) PROVE Shared!Provide(n)
    <2>1. own' = own
      BY <1>4
    <2>. QED  BY <1>1, <1>2, <2>1 DEF Shared!Provide
  <1>. QED  BY <1>3, <1>4 DEF Shared!BuffersNext

-----------------------------------------------------------------------------
\* Every step is one of them

\* The holder of an item aligns it, appends to it, drops it or goes on with it.
LEMMA RefineOwner ==
  ASSUME StoresInOrder, GrantInv, InvC', Undisturbed, Undisturbed',
         NEW t \in Threads, StepOf(t), Owns(t), pc[t] # "publish"
  PROVE  Shared!BuffersNext \/ UNCHANGED Shared!bufferVars
  <1> SUFFICES ASSUME NEW c, NEW k, c = cur[t], k = idx[t]
               PROVE  Shared!BuffersNext \/ UNCHANGED Shared!bufferVars
    OBVIOUS
  <1> DEFINE slot == <<c, k>>
  <1>0. /\ InvC /\ ChainInv /\ TypeOK /\ pc \in [Threads -> Locations] /\ cur[t] \in Headers
        /\ after \in [Threads -> {"idle", "next", "follow", "align"}]
        /\ item \in [Headers -> [Slots -> ItemType]]
    BY DEF GrantInv, InvC, ChainInv, Inv, TypeOK
  <1>1. /\ c \in ready /\ c \in Headers /\ k \in Slots /\ k \in Published(c)
        /\ slot \in Names /\ slot[1] = c /\ slot[2] = k
    <2>1. Sound(c)
      BY DEF Undisturbed, Sound
    <2>2. c \in ready /\ k \in Slots
      BY <1>0, <2>1 DEF ChainInv, Inv, FreshHeaders, TypeOK
    <2>3. k < num_items[c]
      BY <1>0, <2>1 DEF ChainInv, Inv, Owning, SlotOf
    <2>. QED  BY <1>0, <2>2, <2>3 DEF Published, Names
  <1>2. \A n \in Names : Holds(t, n) <=> n = slot
    BY DEF Holds
  <1>3. BufferOf(slot) # Unused /\ OwnerOf(slot) = t /\ BufferOf(slot) \in BufferType
    BY <1>0, <1>1, <1>2, BufferOfSlot, OwnerOfSlot
  <1>4. UNCHANGED <<ready, num_items>>
    BY OwnerSteps DEF Align, Unlock, AppendBytes, Store, Drop, LocatorItemCanUse, headerVars,
       historyVars
  <1> HIDE DEF slot
  <1>5. ASSUME item' = item PROVE \A n \in Names : BufferOf(n)' = BufferOf(n)
    BY <1>4, <1>5, BufferKept
  <1>6. ASSUME NEW position \in Nat, position >= item[c][k].position,
               item' = [item EXCEPT ![c][k] = [item[c][k] EXCEPT !.position = position]],
               UNCHANGED <<cur, idx>>, Owns(t)', pc'[t] # "publish"
        PROVE  Shared!BuffersNext \/ UNCHANGED Shared!bufferVars
    <2>1. \A n \in Names : OwnerOf(n)' = OwnerOf(n)
      <3>1. \A n \in Names : Holds(t, n)' <=> Holds(t, n)
        BY <1>6 DEF Holds
      <3>. QED  BY <1>0, <3>1, OwnersChange
    <2>2. \A n \in Names \ {slot} : BufferOf(n)' = BufferOf(n)
      <3> TAKE n \in Names \ {slot}
      <3>1. n[1] \in Headers /\ n[2] \in Slots /\ (n[1] # c \/ n[2] # k)
        BY <1>0, <1>1, BufferOfSlot DEF slot
      <3>2. item'[n[1]][n[2]] = item[n[1]][n[2]]
        BY <1>0, <1>6, <3>1
      <3>. QED  BY <1>4, <3>2, BufferKept
    <2>3. BufferOf(slot)' = [BufferOf(slot) EXCEPT !.used = position]
      <3>1. item[c][k] \in ItemType /\ item'[c][k] = [item[c][k] EXCEPT !.position = position]
        BY <1>0, <1>1, <1>6
      <3>2. c \in ready' /\ k < num_items'[c] /\ k < num_items[c]
        BY <1>1, <1>4 DEF Published
      <3>. QED  BY <1>1, <3>1, <3>2 DEF BufferOf, ItemType
    <2>4. BufferOf(slot).used = item[c][k].position
      BY <1>0, <1>1, BufferOfSlot
    <2>5. item[c][k].position \in Nat
      BY <1>0, <1>1, WordAssumption DEF ItemType
    <2>6. CASE position = item[c][k].position
      <3>1. BufferOf(slot)' = BufferOf(slot)
        BY <1>3, <2>3, <2>4, <2>6 DEF BufferType
      <3>. QED  BY <2>1, <2>2, <3>1, Stutters
    <2>7. CASE position > item[c][k].position
      BY <1>1, <1>3, <2>1, <2>2, <2>3, <2>4, <2>7, Advances
    <2>. QED  BY <1>6, <2>5, <2>6, <2>7
  <1>7. CASE Align(t)
    <2>1. /\ item' = [item EXCEPT ![c][k] = AlignedItem(item[c][k], req[t].align)]
          /\ UNCHANGED <<cur, idx>> /\ pc'[t] = "owned"
      BY <1>0, <1>7 DEF Align, Goto
    <2>2. AlignedItem(item[c][k], req[t].align)
            = [item[c][k] EXCEPT !.position = AlignedItem(item[c][k], req[t].align).position]
      BY <1>0, <1>1 DEF AlignedItem, ItemType
    <2>3. item'[c][k].position >= item[c][k].position
      BY <1>1, PositionsGrow
    <2>4. item'[c][k] = AlignedItem(item[c][k], req[t].align)
      BY <1>0, <1>1, <2>1
    <2>5. item'[c][k].position \in Nat
      <3>1. item'[c][k] \in ItemType
        BY <1>1 DEF InvC, ChainInv, Inv, TypeOK
      <3>. QED  BY <3>1, WordAssumption DEF ItemType
    <2>. QED  BY <1>6, <2>1, <2>2, <2>3, <2>4, <2>5 DEF Owns
  <1>8. ASSUME NEW length \in 1 .. left[t], AppendBytes(t, length)
        PROVE  Shared!BuffersNext \/ UNCHANGED Shared!bufferVars
    <2>1. /\ item' = [item EXCEPT ![c][k] = AppendedItem(item[c][k], length)]
          /\ UNCHANGED <<cur, idx, pc>> /\ pc[t] = "owned"
      BY <1>8 DEF AppendBytes, Store
    <2>2. AppendedItem(item[c][k], length)
            = [item[c][k] EXCEPT !.position = AppendedItem(item[c][k], length).position]
      BY <1>0, <1>1 DEF AppendedItem, ItemType
    <2>3. item'[c][k].position >= item[c][k].position
      BY <1>1, PositionsGrow
    <2>4. item'[c][k] = AppendedItem(item[c][k], length)
      BY <1>0, <1>1, <2>1
    <2>5. item'[c][k].position \in Nat
      <3>1. item'[c][k] \in ItemType
        BY <1>1 DEF InvC, ChainInv, Inv, TypeOK
      <3>. QED  BY <3>1, WordAssumption DEF ItemType
    <2>. QED  BY <1>6, <2>1, <2>2, <2>3, <2>4, <2>5 DEF Owns
  <1>9. CASE Drop(t)
    <2>1. item' = item /\ pc'[t] = "idle"
      BY <1>0, <1>9 DEF Drop, Return, Goto
    <2>2. \A n \in Names : ~Holds(t, n)'
      BY <2>1 DEF Holds, Owns
    <2>3. OwnerOf(slot)' = Nobody /\ \A n \in Names \ {slot} : OwnerOf(n)' = OwnerOf(n)
      BY <1>0, <1>1, <1>2, <2>2, OwnersChange
    <2>. QED  BY <1>1, <1>3, <1>5, <2>1, <2>3, Releases
  <1>10. CASE Unlock(t) \/ \E r \in Requests : LocatorItemCanUse(t, r)
    <2>1. /\ item' = item /\ UNCHANGED <<cur, idx>>
          /\ Owns(t)' /\ pc'[t] # "publish"
      <3>1. CASE Unlock(t)
        BY <1>0, <3>1 DEF Unlock, Owns, Goto
      <3>2. CASE \E r \in Requests : LocatorItemCanUse(t, r)
        BY <3>2 DEF LocatorItemCanUse, Owns, headerVars
      <3>. QED  BY <1>10, <3>1, <3>2
    <2>2. \A n \in Names : Holds(t, n)' <=> Holds(t, n)
      BY <2>1 DEF Holds
    <2>3. \A n \in Names : OwnerOf(n)' = OwnerOf(n)
      BY <1>0, <2>2, OwnersChange
    <2>. QED  BY <1>5, <2>1, <2>3, Stutters
  <1>. QED  BY <1>7, <1>8, <1>9, <1>10, OwnerSteps

\* A thread that holds no item takes a free one, or goes on without one.
LEMMA RefineSearcher ==
  ASSUME StoresInOrder, GrantInv, InvC', Undisturbed, Undisturbed',
         NEW t \in Threads, StepOf(t), ~Owns(t) \/ pc[t] = "publish",
         ~PublishItem(t, "num_items"), ~InitializeRemainingSpaceAsBuffers(t)
  PROVE  Shared!BuffersNext \/ UNCHANGED Shared!bufferVars
  <1>0. /\ InvC /\ ChainInv /\ TypeOK /\ pc \in [Threads -> Locations]
        /\ after \in [Threads -> {"idle", "next", "follow", "align"}]
        /\ cur \in [Threads -> Headers] /\ idx \in [Threads -> Nat]
        /\ ready \subseteq Headers /\ num_items \in [Headers -> 0 .. U8 - 1]
        /\ \A h \in Headers : Sound(h)
    BY DEF GrantInv, InvC, ChainInv, Inv, TypeOK, Undisturbed, Sound
  <1>1. ~\E length \in 1 .. left[t] : AppendBytes(t, length)
    BY DEF AppendBytes, Store, Owns
  <1>2. ~Align(t) /\ ~Drop(t) /\ ~\E r \in Requests : LocatorItemCanUse(t, r)
    BY <1>0 DEF Align, Drop, LocatorItemCanUse, Owns, InvC, Held
  <1>3. UNCHANGED ready /\ \A h \in ready : num_items'[h] = num_items[h]
    <2>1. CASE \E base \in 1 .. UsizeMax : AllocateItem(t, base)
      BY <2>1 DEF AllocateItem, headerVars, historyVars
    <2>2. CASE ~\E base \in 1 .. UsizeMax : AllocateItem(t, base)
      <3>1. ~MapsOrPublishes(t)
        BY <1>1, <2>2 DEF MapsOrPublishes
      <3>. QED  BY <1>0, <3>1, OtherSteps
    <2>. QED  BY <2>1, <2>2
  <1>4. \A n \in Names : BufferOf(n)' = BufferOf(n)
    <2> TAKE n \in Names
    <2>1. ASSUME n[1] \in ready, n[2] < num_items[n[1]]
          PROVE  item'[n[1]][n[2]] = item[n[1]][n[2]]
      <3>1. n[2] \in Slots /\ n[1] \in Headers /\ num_items[n[1]] \in Nat
        BY <1>0, <2>1, BufferOfSlot, SMTT(60) DEF U8
      <3>2. ~(Owns(t) /\ cur[t] = n[1] /\ idx[t] = n[2])
        <4>1. pc[t] = "publish" => idx[t] = num_items[cur[t]]
          BY <1>0 DEF ChainInv, Inv, Owning, SlotOf
        <4>2. n[2] # num_items[n[1]]
          BY <2>1, <3>1
        <4>. QED  BY <4>1, <4>2
      <3>. QED  BY <1>0, <2>1, <3>1, <3>2, OnlyOwnersWrite
    <2>. QED  BY <1>3, <2>1, BufferKept
  <1>5. \A n \in Names : ~Holds(t, n)
    BY DEF Holds
  <1>6. ASSUME ~Owns(t)' \/ pc'[t] = "publish" PROVE UNCHANGED Shared!bufferVars
    <2>1. \A n \in Names : ~Holds(t, n)'
      BY <1>6 DEF Holds
    <2>2. \A n \in Names : OwnerOf(n)' = OwnerOf(n)
      BY <1>0, <1>5, <2>1, OwnersChange
    <2>. QED  BY <1>4, <2>2, Stutters
  <1>7. ASSUME NEW h \in ready, NEW i \in Published(h), Owns(t)', pc'[t] # "publish",
               cur'[t] = h, idx'[t] = i
        PROVE  Shared!BuffersNext
    <2>1. <<h, i>> \in Names /\ <<h, i>>[1] = h /\ <<h, i>>[2] = i
      BY <1>0 DEF Names, Published
    <2>2. \A n \in Names : Holds(t, n)' <=> n = <<h, i>>
      BY <1>7 DEF Holds
    <2>3. /\ OwnerOf(<<h, i>>) = Nobody /\ OwnerOf(<<h, i>>)' = t
          /\ \A n \in Names \ {<<h, i>>} : OwnerOf(n)' = OwnerOf(n)
      BY <1>0, <1>5, <2>1, <2>2, OwnersChange
    <2>4. BufferOf(<<h, i>>) # Unused
      BY <1>0, <2>1, BufferOfSlot
    <2>. QED  BY <1>4, <2>1, <2>3, <2>4, Acquires
  <1> USE DEF Goto
  <1>8. CASE LocatorItemTryLock(t)
    <2>1. /\ kept[t] # NoItem /\ pc'[t] = "owned"
          /\ cur'[t] = kept[t][1] /\ idx'[t] = kept[t][2]
      BY <1>0, <1>8 DEF LocatorItemTryLock
    <2>2. kept[t][1] \in Headers /\ kept[t][2] \in Slots
      BY <1>0, <2>1 DEF InvC, Held
    <2>3. kept[t][1] \in ready /\ kept[t][2] \in Published(kept[t][1])
      BY <1>0, <2>1, <2>2 DEF InvC, Held, Published
    <2>. QED  BY <1>7, <2>1, <2>3 DEF Owns
  <1>9. CASE TryLockItem(t)
    <2>1. pc[t] = "trylock" /\ cur' = cur
      BY <1>9 DEF TryLockItem
    <2>2. CASE is_taken[cur[t]][idx[t]] = 0
      <3>1. pc' = [pc EXCEPT ![t] = "align"] /\ idx' = idx
        BY <1>9, <2>2, Zenon DEF TryLockItem
      <3>2. cur[t] \in ready /\ idx[t] \in Published(cur[t])
        <4>1. cur[t] \in ready /\ idx[t] \in Slots
          BY <1>0, <2>1 DEF ChainInv, Inv, FreshHeaders, TypeOK
        <4>2. idx[t] < final[t] /\ final[t] <= num_items[cur[t]]
          BY <1>0, <2>1 DEF ChainInv, Inv, Owning, SlotOf
        <4>3. final[t] \in Nat /\ num_items[cur[t]] \in Nat /\ idx[t] \in Nat
          <5>1. final \in [Threads -> Nat]
            BY <1>0 DEF TypeOK
          <5>. QED  BY <1>0, <5>1 DEF U8
        <4>. QED  BY <4>1, <4>2, <4>3 DEF Published
      <3>3. pc'[t] = "align" /\ cur'[t] = cur[t] /\ idx'[t] = idx[t]
        BY <1>0, <2>1, <3>1
      <3>. QED  BY <1>7, <3>2, <3>3 DEF Owns
    <2>3. CASE is_taken[cur[t]][idx[t]] # 0
      <3>1. pc' = [pc EXCEPT ![t] = "scan"]
        BY <1>9, <2>3, Zenon DEF TryLockItem
      <3>. QED  BY <1>0, <1>6, <3>1 DEF Owns
    <2>. QED  BY <2>2, <2>3
  <1>10. CASE \/ ScanBegin(t) \/ ScanSkip(t) \/ ScanEnd(t) \/ LockForAllocation(t)
              \/ LockForNext(t) \/ TryAllocateItem(t) \/ AllocationRecheck(t)
              \/ AllocationFails(t) \/ AllocationPanics(t) \/ NextCheck(t) \/ NextRecheck(t)
              \/ NextAllocationFails(t) \/ Follow(t) \/ Crash(t) \/ Drop(t)
              \/ \E r \in Requests : GetBuffer(t, r)
    <2>1. Unpromised(t)'
      BY <1>0, <1>10, UnpromisedSteps
    <2>. QED  BY <1>6, <2>1 DEF Unpromised, Owns
  <1>11. CASE ScanCandidate(t) \/ SetDefaultValues(t)
    <2>1. pc'[t] = "trylock" \/ pc'[t] = "fill"
      BY <1>0, <1>11 DEF ScanCandidate, SetDefaultValues
    <2>. QED  BY <1>6, <2>1 DEF Owns
  <1>12. CASE Unlock(t)
    <2>1. pc'[t] = after[t] /\ after[t] # "align"
      BY <1>0, <1>12 DEF Unlock, Owns
    <2>. QED  BY <1>0, <1>6, <2>1 DEF Owns
  <1>13. ASSUME NEW base \in 1 .. UsizeMax, AllocateItem(t, base)
         PROVE  UNCHANGED Shared!bufferVars
    <2>1. pc'[t] = "publish"
      BY <1>0, <1>13 DEF AllocateItem
    <2>. QED  BY <1>6, <2>1
  <1>14. ASSUME NEW n \in Headers, NEW contents \in HeapContents, AllocateNext(t, n, contents)
         PROVE  UNCHANGED Shared!bufferVars
    <2>1. pc'[t] = "init"
      BY <1>0, <1>14 DEF AllocateNext
    <2>. QED  BY <1>6, <2>1 DEF Owns
  <1>15. ASSUME NEW store \in {"fields", "is_taken"}, PublishItem(t, store)
         PROVE  UNCHANGED Shared!bufferVars
    <2>1. pc[t] = "publish" /\ "num_items" \in todo[t]
      BY <1>0, <1>15 DEF PublishItem, ChainInv, Inv, Owning, SlotOf
    <2>2. pc' = pc
      BY <1>15, <2>1 DEF PublishItem
    <2>. QED  BY <1>6, <2>1, <2>2
  <1>. QED
    BY <1>1, <1>2, <1>8, <1>9, <1>10, <1>11, <1>12, <1>13, <1>14, <1>15 DEF StepOf, CallStep

\* A thread publishes the item it made, and becomes its owner.
LEMMA RefinePublish ==
  ASSUME StoresInOrder, PlaceInv, InvC', Undisturbed, Undisturbed', NEW t \in Threads,
         PublishItem(t, "num_items")
  PROVE  Shared!BuffersNext
  <1> SUFFICES ASSUME NEW c, NEW k, c = cur[t], k = idx[t]
               PROVE  Shared!BuffersNext
    OBVIOUS
  <1>0. /\ StepOf(t) /\ InvC /\ pc \in [Threads -> Locations] /\ ready \subseteq Headers
        /\ after \in [Threads -> {"idle", "next", "follow", "align"}] /\ idx[t] \in Slots
        /\ num_items \in [Headers -> 0 .. U8 - 1]
    <2>1. pc[t] = "publish"
      BY DEF PublishItem
    <2>. QED  BY <2>1 DEF StepOf, CallStep, PlaceInv, GrantInv, InvC, ChainInv, Inv, TypeOK, Owns
  <1>1. /\ c \in ready /\ pc[t] = "publish" /\ k = num_items[c]
        /\ UNCHANGED <<ready, item, cur, idx>>
        /\ num_items'[c] = num_items[c] + 1
        /\ \A h \in ready \ {c} : num_items'[h] = num_items[h]
        /\ item[c][k] = mem[t]
        /\ pc' = [pc EXCEPT ![t] = "unlock"] /\ after' = [after EXCEPT ![t] = "align"]
        /\ \A h \in ready : \A i \in Published(h)' : i \in Published(h) \/ (h = c /\ i = k)
    BY PublishPlacement
  <1>2. <<c, k>> \in Names /\ <<c, k>>[1] = c /\ <<c, k>>[2] = k /\ num_items[c] \in Nat
    BY <1>0, <1>1, SMTT(60) DEF Names, U8
  <1>3. /\ OwnerOf(<<c, k>>)' = t
        /\ \A n \in Names \ {<<c, k>>} : OwnerOf(n)' = OwnerOf(n)
    <2>1. pc'[t] = "unlock" /\ after'[t] = "align" /\ cur'[t] = c /\ idx'[t] = k
      BY <1>0, <1>1
    <2>2. \A n \in Names : ~Holds(t, n) /\ (Holds(t, n)' <=> n = <<c, k>>)
      BY <1>1, <2>1 DEF Holds, Owns
    <2>. QED  BY <1>0, <1>2, <2>2, OwnersChange
  <1>4. \A n \in Names \ {<<c, k>>} : BufferOf(n)' = BufferOf(n)
    <2> TAKE n \in Names \ {<<c, k>>}
    <2>1. n[1] \in Headers /\ n[2] \in Slots /\ (n[1] # c \/ n[2] # k)
      BY <1>0, BufferOfSlot
    <2>2. ASSUME n[1] \in ready PROVE n[2] < num_items'[n[1]] <=> n[2] < num_items[n[1]]
      BY <1>1, <1>2, <2>1, <2>2 DEF Slots
    <2>. QED  BY <1>1, <2>2 DEF BufferOf
  <1>5. BufferOf(<<c, k>>) = Unused
    BY <1>1, <1>2 DEF BufferOf
  <1>6. /\ BufferOf(<<c, k>>)' = [base |-> mem[t].base, size |-> mem[t].size,
                                  used |-> mem[t].position]
    <2>1. k < num_items'[c]
      BY <1>1, <1>2
    <2>. QED  BY <1>1, <1>2, <2>1 DEF BufferOf
  <1>7. mem[t] \in ItemType /\ mem[t].position = 0
    <2>1. mem[t] \in ItemType
      BY <1>0 DEF InvC, ChainInv, Inv, TypeOK
    <2>. QED  BY <1>1, <2>1 DEF PlaceInv, Placement, MemPlaced
  <1>8. BufferOf(<<c, k>>)' # Unused /\ BufferOf(<<c, k>>)'.used = 0
    BY <1>6, <1>7, MarkAssumption DEF BufferType, ItemType
  <1>9. ASSUME NEW m \in Names, BufferOf(m) # Unused
        PROVE  Extent(BufferOf(<<c, k>>)') \cap Extent(BufferOf(m)) = {}
    <2>1. /\ m[1] \in ready /\ m[2] \in Published(m[1])
          /\ Extent(BufferOf(m)) = Extent(item[m[1]][m[2]])
      BY <1>0, <1>9, BufferOfSlot DEF Extent
    <2>2. Extent(BufferOf(<<c, k>>)') = Extent(mem[t])
      BY <1>6 DEF Extent
    <2>3. \A h \in ready : \A i \in Published(h) : Extent(mem[t]) \cap Extent(item[h][i]) = {}
      BY <1>1 DEF PlaceInv, Placement, MemPlaced
    <2>. QED  BY <2>1, <2>2, <2>3
  <1>. QED  BY <1>2, <1>3, <1>4, <1>5, <1>8, <1>9, Appears

\* A header is initialised, and provides the chunk in its block, if there is one.
LEMMA RefineInitialize ==
  ASSUME StoresInOrder, NumPreallocated <= 1, PlaceInv, InvC', Undisturbed, Undisturbed',
         NEW t \in Threads, InitializeRemainingSpaceAsBuffers(t)
  PROVE  Shared!BuffersNext \/ UNCHANGED Shared!bufferVars
  <1> SUFFICES ASSUME NEW h, h = next_locator_ptr[cur[t]]
               PROVE  Shared!BuffersNext \/ UNCHANGED Shared!bufferVars
    OBVIOUS
  <1>0. /\ StepOf(t) /\ InvC /\ pc \in [Threads -> Locations]
        /\ after \in [Threads -> {"idle", "next", "follow", "align"}]
    BY DEF StepOf, CallStep, PlaceInv, GrantInv, InvC, ChainInv, Inv, TypeOK
  <1>1. /\ Placement'
        /\ h \in Headers \ ready /\ ready' = ready \cup {h}
        /\ \A g \in ready : num_items'[g] = num_items[g] /\ item'[g] = item[g]
        /\ num_items'[h] = NumPreallocated
        /\ \A i \in Slots : i < NumPreallocated => i = 0 /\ item'[h][i] = PreallocatedItem(h, i)
        /\ pc' = [pc EXCEPT ![t] = "unlock"] /\ after' = [after EXCEPT ![t] = "follow"]
    BY InitializePlacement
  <1>2. \A n \in Names : OwnerOf(n)' = OwnerOf(n)
    <2>1. pc[t] = "fill" /\ pc'[t] = "unlock" /\ after'[t] = "follow"
      BY <1>0, <1>1 DEF InitializeRemainingSpaceAsBuffers
    <2>2. \A n \in Names : ~Holds(t, n) /\ ~Holds(t, n)'
      BY <2>1 DEF Holds, Owns
    <2>. QED  BY <1>0, <2>2, OwnersChange
  <1>3. \A n \in Names : ~(n[1] = h /\ n[2] < NumPreallocated) => BufferOf(n)' = BufferOf(n)
    <2> SUFFICES ASSUME NEW n \in Names, ~(n[1] = h /\ n[2] < NumPreallocated)
                 PROVE  BufferOf(n)' = BufferOf(n)
      OBVIOUS
    <2>1. CASE n[1] # h
      BY <1>1, <2>1, BufferKept
    <2>2. CASE n[1] = h
      BY <1>1, <2>2 DEF BufferOf
    <2>. QED  BY <2>1, <2>2
  <1>4. CASE NumPreallocated = 0
    <2>1. \A n \in Names : ~(n[2] < NumPreallocated)
      BY <1>4, LayoutAssumption DEF Names, Slots
    <2>. QED  BY <1>2, <1>3, <2>1, Stutters
  <1>5. CASE NumPreallocated = 1
    <2> DEFINE slot == <<h, 0>>
    <2>1. slot \in Names /\ slot[1] = h /\ slot[2] = 0 /\ 0 \in Slots /\ 0 < NumPreallocated
      BY <1>1, <1>5, LayoutAssumption DEF Names, Slots
    <2>2. \A n \in Names \ {slot} : BufferOf(n)' = BufferOf(n)
      <3> TAKE n \in Names \ {slot}
      <3>1. n[1] \in Headers /\ n[2] \in Slots /\ (n[1] # h \/ n[2] # 0)
        BY <1>0, BufferOfSlot
      <3>2. n[2] < NumPreallocated => n[2] = 0
        BY <1>1, <3>1
      <3>. QED  BY <1>3, <3>1, <3>2
    <2>3. BufferOf(slot) = Unused
      BY <1>1, <2>1 DEF BufferOf
    <2>4. h \in ready' /\ 0 \in Published(h)' /\ item'[h][0] = PreallocatedItem(h, 0)
      BY <1>1, <2>1 DEF Published
    <2>5. /\ BufferOf(slot)'.base = item'[h][0].base
          /\ BufferOf(slot)'.size = item'[h][0].size
          /\ BufferOf(slot)'.used = item'[h][0].position
          /\ BufferOf(slot)' \in BufferType
      <3>1. BufferOf(slot)' = [base |-> item'[h][0].base, size |-> item'[h][0].size,
                               used |-> item'[h][0].position]
        BY <1>1, <2>1 DEF BufferOf
      <3>2. item'[h][0] \in ItemType
        BY <1>1, <2>1, <2>4, PreallocatedType
      <3>. QED  BY <3>1, <3>2 DEF BufferType, ItemType
    <2>6. BufferOf(slot)' # Unused /\ BufferOf(slot)'.used = 0
      BY <2>4, <2>5, MarkAssumption DEF PreallocatedItem, NewItem
    <2>7. ASSUME NEW m \in Names, BufferOf(m) # Unused
          PROVE  Extent(BufferOf(slot)') \cap Extent(BufferOf(m)) = {}
      <3>1. /\ m[1] \in ready /\ m[2] \in Published(m[1])
            /\ Extent(BufferOf(m)) = Extent(item[m[1]][m[2]])
        BY <1>0, <2>7, BufferOfSlot DEF Extent
      <3>2. m[1] \in ready' /\ m[2] \in Published(m[1])' /\ item'[m[1]] = item[m[1]] /\ m[1] # h
        BY <1>1, <3>1 DEF Published
      <3>3. Extent(item'[h][0]) \cap Extent(item'[m[1]][m[2]]) = {}
        BY <1>1, <2>4, <3>2, ZenonT(60) DEF Placement, ItemsApart
      <3>4. Extent(BufferOf(slot)') = Extent(item'[h][0])
        BY <2>5 DEF Extent
      <3>. QED  BY <3>1, <3>2, <3>3, <3>4
    <2> HIDE DEF slot
    <2>. QED  BY <1>2, <2>1, <2>2, <2>3, <2>6, <2>7, Appears
  <1>6. NumPreallocated \in 0 .. 1
    BY LayoutAssumption
  <1>. QED  BY <1>4, <1>5, <1>6

\* The first buffers are free, empty and apart.
LEMMA RefineInit ==
  ASSUME NumPreallocated <= 1, InitC
  PROVE  Shared!BuffersInit
  <1>1. PlaceInv /\ InvC /\ Undisturbed /\ Placement
    <2>1. PlaceInv
      BY InitPlace
    <2>2. Undisturbed
      BY DEF InitC, Init, Undisturbed
    <2>. QED  BY <2>1, <2>2 DEF PlaceInv, GrantInv
  <1>2. \A n \in Names : OwnerOf(n) = Nobody
    <2>1. \A t \in Threads, n \in Names : ~Holds(t, n)
      BY DEF InitC, Init, Holds, Owns
    <2>. QED  BY <1>1, <2>1, OwnerOfSlot
  <1>3. ASSUME NEW n \in Names, BufferOf(n) # Unused PROVE BufferOf(n).used = 0
    <2>1. n[1] \in ready /\ n[2] \in Published(n[1]) /\ BufferOf(n).used = item[n[1]][n[2]].position
      BY <1>1, <1>3, BufferOfSlot
    <2>2. ready = {Root} /\ num_items[Root] = NumPreallocated
          /\ item[Root] = InitializedItems(Root, [i \in Slots |-> Zero])
      BY HeaderAssumption DEF InitC, Init
    <2>. QED  BY <2>1, <2>2 DEF Published, InitializedItems, PreallocatedItem, NewItem
  <1>4. ASSUME NEW m \in Names, NEW n \in Names, m # n, BufferOf(m) # Unused, BufferOf(n) # Unused
        PROVE  Extent(BufferOf(m)) \cap Extent(BufferOf(n)) = {}
    <2>1. /\ m[1] \in ready /\ m[2] \in Published(m[1])
          /\ Extent(BufferOf(m)) = Extent(item[m[1]][m[2]])
          /\ n[1] \in ready /\ n[2] \in Published(n[1])
          /\ Extent(BufferOf(n)) = Extent(item[n[1]][n[2]])
          /\ m[1] # n[1] \/ m[2] # n[2]
      BY <1>1, <1>4, BufferOfSlot DEF Extent
    <2>. QED  BY <1>1, <2>1 DEF Placement, ItemsApart
  <1>. QED
    BY <1>2, <1>3, <1>4 DEF Shared!BuffersInit, Shared!Known, Shared!Bytes, Extent

\* Every step of the library does to the buffers what SharedBuffers allows, or nothing.
LEMMA RefineStep ==
  ASSUME StoresInOrder, \A r \in Requests : PaddedFits(r), NumPreallocated <= 1,
         PlaceInv, Undisturbed, Undisturbed', [NextC]_<<vars, cVars>>
  PROVE  [Shared!BuffersNext]_Shared!bufferVars
  <1>1. GrantInv /\ InvC'
    BY NextInvC DEF PlaceInv, GrantInv
  <1>2. CASE UNCHANGED vars
    <2> USE DEF vars, headerVars, memoryVars, threadVars, historyVars
    <2>1. \A n \in Names : BufferOf(n)' = BufferOf(n)
      BY <1>2 DEF BufferOf
    <2>2. \A n \in Names : OwnerOf(n)' = OwnerOf(n)
      BY <1>2 DEF OwnerOf, Owns
    <2>. QED  BY <2>1, <2>2, Stutters
  <1>3. ASSUME NEW t \in Threads, StepOf(t)
        PROVE  Shared!BuffersNext \/ UNCHANGED Shared!bufferVars
    <2>1. CASE Owns(t) /\ pc[t] # "publish"
      BY <1>1, <1>3, <2>1, RefineOwner
    <2>2. CASE PublishItem(t, "num_items")
      BY <1>1, <2>2, RefinePublish
    <2>3. CASE InitializeRemainingSpaceAsBuffers(t)
      BY <1>1, <2>3, RefineInitialize
    <2>. QED  BY <1>1, <1>3, <2>1, <2>2, <2>3, RefineSearcher
  <1>. QED  BY <1>2, <1>3, ThreadOfStep

\* The library, with any number of threads and headers and used through the C API, is an
\* implementation of SharedBuffers: a growing collection of buffers that share no byte,
\* never move, have one owner at most and only fill up, as long as can_use is not out of
\* date when an item is given out and no header is entered too early.
THEOREM ImplementsThem ==
  ASSUME StoresInOrder, \A r \in Requests : PaddedFits(r), NumPreallocated <= 1
  PROVE  SpecC /\ []Undisturbed => ImplementsSharedBuffers
  <1>1. InitC => PlaceInv /\ Shared!BuffersInit
    BY InitPlace, RefineInit
  <1>2. PlaceInv /\ [NextC]_<<vars, cVars>> => PlaceInv'
    BY NextPlace
  <1>3. PlaceInv /\ Undisturbed /\ Undisturbed' /\ [NextC]_<<vars, cVars>>
          => [Shared!BuffersNext]_Shared!bufferVars
    BY RefineStep
  <1>. QED  BY <1>1, <1>2, <1>3, PTL DEF SpecC, ImplementsSharedBuffers, Shared!BuffersSpec
=============================================================================
