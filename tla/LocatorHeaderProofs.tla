--------------------------- MODULE LocatorHeaderProofs ---------------------------
(***************************************************************************)
(* Theorems about LocatorHeader, for any number of threads, headers, items *)
(* and requests: the types, and ExclusiveUse on machines that make plain   *)
(* stores visible in program order.                                        *)
(***************************************************************************)
EXTENDS LocatorHeader, AddressMathProofs

-----------------------------------------------------------------------------
\* The inductive invariant

\* A header no thread has entered and no initialisation has completed holds
\* no link to another header; a block not yet allocated is such a header.
FreshHeaders ==
  /\ ready \subseteq live
  /\ premature \subseteq live
  /\ Root \in ready
  /\ \A h \in Headers : h \notin ready /\ Sound(h) =>
       /\ next_locator_ptr[h] \notin Headers
       /\ \A t \in Threads : cur[t] # h

\* The chain: links lead to allocated headers, no two headers have the same
\* successor, and unsoundness spreads along the chain.
Links ==
  /\ \A h \in Headers : next_locator_ptr[h] \in Headers =>
       /\ next_locator_ptr[h] \in live
       /\ Sound(next_locator_ptr[h]) => Sound(h)
  /\ \A h, k \in Headers :
       /\ next_locator_ptr[h] \in Headers
       /\ next_locator_ptr[h] = next_locator_ptr[k]
       => h = k

\* The header being initialised is the successor of the locked one.
Initializing ==
  \A t \in Threads : pc[t] \in {"init", "fill"} /\ Sound(cur[t]) =>
    next_locator_ptr[cur[t]] \in Headers \ ready

\* The spin lock excludes.
Locking ==
  /\ \A t \in Threads : InLock(t) /\ Sound(cur[t]) => is_locked[cur[t]] = 1
  /\ \A t, u \in Threads :
       InLock(t) /\ InLock(u) /\ cur[t] = cur[u] /\ Sound(cur[t]) => t = u

\* Where a thread's slot lies with respect to num_items, and its lock.
SlotOf(t) ==
  /\ Owns(t) /\ pc[t] # "publish" =>
       idx[t] < num_items[cur[t]] /\ is_taken[cur[t]][idx[t]] = 1
  /\ pc[t] = "publish" =>
       /\ idx[t] = num_items[cur[t]]
       /\ "num_items" \in todo[t]
       /\ "is_taken" \notin todo[t] => is_taken[cur[t]][idx[t]] = 1
  /\ pc[t] \in {"scan", "trylock"} => final[t] <= num_items[cur[t]]
  /\ pc[t] = "trylock" => idx[t] < final[t]

Owning == \A t \in Threads : Sound(cur[t]) => SlotOf(t)

\* The inductive invariant of OnlyOneUser.
Inv == TypeOK /\ FreshHeaders /\ Links /\ Initializing /\ Locking /\ Owning /\ ExclusiveUse

-----------------------------------------------------------------------------
\* What the operators return

\* A new item, and one that was aligned or appended to, is an item.
LEMMA ItemTypes ==
  /\ \A b \in 0 .. UsizeMax, s \in 0 .. U32 - 1 : NewItem(b, s) \in ItemType
  /\ \A i \in ItemType, n \in Nat : AlignedItem(i, n) \in ItemType
  /\ \A i \in ItemType, n \in Nat : AppendedItem(i, n) \in ItemType
  <1>1. ASSUME NEW b \in 0 .. UsizeMax, NEW s \in 0 .. U32 - 1 PROVE NewItem(b, s) \in ItemType
    BY WordAssumption DEF NewItem, ItemType
  <1>2. ASSUME NEW i \in ItemType, NEW n \in Nat PROVE AlignedItem(i, n) \in ItemType
    <2>1. WriteAddress(i) \in Nat
      BY WordAssumption DEF WriteAddress, ItemType
    <2>2. RoundUp(WriteAddress(i), n) \in Nat
      BY <2>1, RoundUpType
    <2>3. i.position + RoundUp(WriteAddress(i), n) - WriteAddress(i) \in Int
      BY <2>1, <2>2, WordAssumption DEF ItemType
    <2>4. (i.position + RoundUp(WriteAddress(i), n) - WriteAddress(i)) % U32 \in 0 .. U32 - 1
      BY <2>3, ModType
    <2>. QED  BY <2>4 DEF AlignedItem, ItemType
  <1>3. ASSUME NEW i \in ItemType, NEW n \in Nat PROVE AppendedItem(i, n) \in ItemType
    <2>1. (i.position + n) % U32 \in 0 .. U32 - 1
      BY ModType, WordAssumption DEF ItemType
    <2>. QED  BY <2>1 DEF AppendedItem, ItemType
  <1>. QED  BY <1>1, <1>2, <1>3

\* The chunks of a block are items.
LEMMA PreallocatedType ==
  ASSUME NEW h \in Headers, NEW i \in Slots, i < NumPreallocated
  PROVE  /\ PreallocatedItem(h, i) \in ItemType
         /\ PreallocatedItem(h, i).size <= Granularity - HeaderLength
  <1>1. HeaderAddress[h] + HeaderLength \in 0 .. UsizeMax
    BY HeaderAssumption, PlacementAssumption, LayoutAssumption, WordAssumption
  <1>2. Granularity - HeaderLength - i * ChunkLength \in Nat
    <2> DEFINE r == Granularity - HeaderLength
    <2>1. r \in Nat /\ ChunkLength \in Nat \ {0} /\ i \in Nat
      BY LayoutAssumption DEF Slots
    <2>2. i < (r + ChunkLength - 1) \div ChunkLength
      BY DEF NumPreallocated
    <2>3. (i + 1) * ChunkLength <= r + ChunkLength - 1
      BY <2>1, <2>2
    <2>4. i * ChunkLength + ChunkLength <= r + ChunkLength - 1
      BY <2>1, <2>3
    <2>5. i * ChunkLength \in Nat
      BY <2>1
    <2>. QED  BY <2>1, <2>4, <2>5
  <1> DEFINE size == Smaller(ChunkLength, Granularity - HeaderLength - i * ChunkLength)
  <1>3. size \in Nat /\ size <= Granularity - HeaderLength
    <2>1. i * ChunkLength \in Nat
      BY LayoutAssumption DEF Slots
    <2>. QED  BY <1>2, <2>1, LayoutAssumption DEF Smaller
  <1>4. size \in 0 .. U32 - 1
    <2>1. Granularity <= U32
      <3>1. CASE Granularity > U32
        <4>1. U32 % Granularity = U32
          BY <3>1, LayoutAssumption, WordAssumption
        <4>. QED  BY <4>1, LayoutAssumption, WordAssumption
      <3>. QED  BY <3>1, LayoutAssumption, WordAssumption
    <2>. QED  BY <1>3, <2>1, LayoutAssumption, WordAssumption
  <1>. QED  BY <1>1, <1>3, <1>4, ItemTypes DEF PreallocatedItem, NewItem

\* initialize fills a header with items and item locks.
LEMMA InitializedTypes ==
  ASSUME NEW h \in Headers, NEW items \in [Slots -> ItemType], NEW locks \in [Slots -> 0..1]
  PROVE  /\ InitializedItems(h, items) \in [Slots -> ItemType]
         /\ InitializedLocks(locks) \in [Slots -> 0..1]
  BY PreallocatedType DEF InitializedItems, InitializedLocks

\* The size searched for fits in u32.
LEMMA SearchSizeType ==
  ASSUME NEW r \in RequestType
  PROVE  SearchSize(r.size, r.align) \in 0 .. U32 - 1
  <1>1. r.size + Larger(r.align - 1, 0) \in Int
    BY WordAssumption DEF RequestType, Larger
  <1>. QED  BY <1>1, ModType DEF SearchSize

\* What sanitize makes of a size is a size.
LEMMA SanitizedType ==
  ASSUME NEW r \in RequestType
  PROVE  SanitizedSize(SearchSize(r.size, r.align), Granularity) \in 0 .. U32 - 1
  BY SearchSizeType, SanitizedSizes, LayoutAssumption

-----------------------------------------------------------------------------
\* Types

\* The root header as find leaves it, and threads that have not called yet.
LEMMA InitType == Init => TypeOK
  <1> SUFFICES ASSUME Init PROVE TypeOK
    OBVIOUS
  <1>1. Zero \in ItemType
    BY ItemTypes, WordAssumption DEF Zero
  <1>2. [i \in Slots |-> Zero] \in [Slots -> ItemType]
    BY <1>1
  <1>3. item \in [Headers -> [Slots -> ItemType]]
    <2>1. [i \in Slots |-> 0] \in [Slots -> 0..1]
      OBVIOUS
    <2>2. InitializedItems(Root, [i \in Slots |-> Zero]) \in [Slots -> ItemType]
      BY <1>2, <2>1, InitializedTypes, HeaderAssumption
    <2>. QED  BY <1>2, <2>2 DEF Init
  <1>4. mapped \subseteq Nat
    BY HeaderAssumption, LayoutAssumption DEF Init, HeaderExtent
  <1>5. num_items \in [Headers -> 0 .. U8 - 1]
    BY LayoutAssumption DEF Init, U8
  <1>6. \A t \in Threads : ~Owns(t) /\ pc[t] # "trylock"
    BY DEF Init, Owns
  <1>7. stale \in BOOLEAN /\ overwritten \in BOOLEAN
    BY DEF Init
  <1>8. /\ pc \in [Threads -> Locations]
        /\ after \in [Threads -> {"idle", "next", "follow", "align"}]
        /\ todo \in [Threads -> SUBSET {"fields", "is_taken", "num_items"}]
    BY DEF Init, Locations
  <1>9. is_taken \in [Headers -> [Slots -> 0..1]]
    BY DEF Init
  <1>10. /\ is_locked \in [Headers -> 0..1]
         /\ next_locator_ptr \in [Headers -> Headers \cup {NoHeader, Wild}]
         /\ live \subseteq Headers
         /\ ready \subseteq Headers
         /\ premature \subseteq Headers
         /\ written \subseteq Nat
         /\ abandoned \subseteq Headers
    BY HeaderAssumption DEF Init
  <1>11. /\ req \in [Threads -> RequestType]
         /\ cur \in [Threads -> Headers]
         /\ idx \in [Threads -> Nat]
         /\ final \in [Threads -> Nat]
         /\ left \in [Threads -> Nat]
         /\ checked \in [Threads -> Nat]
         /\ mem \in [Threads -> ItemType]
    <2>1. NoRequest \in RequestType
      BY WordAssumption DEF NoRequest, RequestType
    <2>. QED  BY <1>1, <2>1, HeaderAssumption DEF Init
  <1>. QED
    BY <1>3, <1>4, <1>5, <1>6, <1>7, <1>8, <1>9, <1>10, <1>11 DEF TypeOK

\* No step of get_buffer, of an append or of a drop leaves the types.
LEMMA NextType == TypeOK /\ [Next]_vars => TypeOK'
  <1> SUFFICES ASSUME TypeOK, [Next]_vars PROVE TypeOK'
    OBVIOUS
  <1> USE DEF TypeOK, Owns, Locations, Goto
  <1>0. CASE UNCHANGED vars
    BY <1>0 DEF vars, headerVars, memoryVars, threadVars, historyVars
  <1> USE DEF headerVars, memoryVars, historyVars
  <1>1. ASSUME NEW t \in Threads, CallStep(t) PROVE TypeOK'
    <2>1. CASE Align(t)
      <3>1. req[t].align \in Nat /\ req[t].size \in Nat
        BY InputAssumption DEF RequestType, NoRequest
      <3>2. AlignedItem(item[cur[t]][idx[t]], req[t].align) \in ItemType
        <4>1. item[cur[t]][idx[t]] \in ItemType
          BY <2>1 DEF Align
        <4>. QED  BY <3>1, <4>1, ItemTypes
      <3>3. item' \in [Headers -> [Slots -> ItemType]]
        BY <2>1, <3>2 DEF Align
      <3>. QED  BY <2>1, <3>1, <3>3 DEF Align
    <2>2. CASE ScanBegin(t)
      <3>1. num_items[cur[t]] \in Nat
        <4>1. num_items[cur[t]] \in 0 .. U8 - 1
          OBVIOUS
        <4>. QED  BY <4>1, SMTT(60) DEF U8
      <3>. QED  BY <2>2, <3>1 DEF ScanBegin
    <2>3. CASE ScanSkip(t)
      BY <2>3 DEF ScanSkip
    <2>4. CASE ScanCandidate(t)
      <3>1. item[cur[t]][idx[t]].position \in Nat
        BY <2>4, WordAssumption DEF ScanCandidate, ItemType
      <3>. QED  BY <2>4, <3>1 DEF ScanCandidate
    <2>5. CASE ScanEnd(t)
      BY <2>5 DEF ScanEnd
    <2>6. CASE TryLockItem(t)
      <3>1. is_taken' \in [Headers -> [Slots -> 0..1]]
        BY <2>6 DEF TryLockItem
      <3>2. stale' \in BOOLEAN
        BY <2>6 DEF TryLockItem
      <3>3. idx' \in [Threads -> Nat] /\ pc' \in [Threads -> Locations]
        <4>1. \/ pc' = [pc EXCEPT ![t] = "align"] /\ idx' = idx
              \/ pc' = [pc EXCEPT ![t] = "scan"] /\ idx' = [idx EXCEPT ![t] = @ + 1]
          BY <2>6, Zenon DEF TryLockItem
        <4>2. idx \in [Threads -> Nat] /\ idx[t] + 1 \in Nat
          OBVIOUS
        <4>3. idx' \in [Threads -> Nat]
          <5>1. CASE idx' = idx
            BY <4>2, <5>1
          <5>2. CASE idx' = [idx EXCEPT ![t] = @ + 1]
            BY <4>2, <5>2
          <5>. QED  BY <4>1, <5>1, <5>2
        <4>4. pc' \in [Threads -> Locations]
          BY <4>1
        <4>. QED  BY <4>3, <4>4
      <3>4. checked' \in [Threads -> Nat]
        BY <2>6 DEF TryLockItem
      <3>5. \A u \in Threads : Owns(u)' \/ pc'[u] = "trylock" => idx'[u] \in Slots
        <4> SUFFICES ASSUME NEW u \in Threads, Owns(u)' \/ pc'[u] = "trylock"
                     PROVE  idx'[u] \in Slots
          OBVIOUS
        <4>1. CASE u = t
          BY <2>6, <4>1 DEF TryLockItem
        <4>2. CASE u # t
          BY <2>6, <4>2 DEF TryLockItem
        <4>. QED  BY <4>1, <4>2
      <3>. QED  BY <2>6, <3>1, <3>2, <3>3, <3>4, <3>5 DEF TryLockItem
    <2>7. CASE LockForAllocation(t)
      BY <2>7 DEF LockForAllocation, Lock
    <2>8. CASE LockForNext(t)
      BY <2>8 DEF LockForNext, Lock
    <2>9. CASE Unlock(t)
      BY <2>9 DEF Unlock
    <2>10. CASE TryAllocateItem(t)
      BY <2>10 DEF TryAllocateItem
    <2>11. CASE AllocationRecheck(t)
      BY <2>11, ZenonT(60) DEF AllocationRecheck, UnlockThen
    <2>12. ASSUME NEW base \in 1 .. UsizeMax, AllocateItem(t, base) PROVE TypeOK'
      <3> DEFINE size == SanitizedSize(SizeOf(t), Granularity)
      <3>1. req[t] \in RequestType
        BY InputAssumption DEF RequestType, NoRequest
      <3>2. size \in 0 .. U32 - 1 /\ size \in Nat
        BY <3>1, SanitizedType, WordAssumption DEF SizeOf
      <3>3. base \in Nat /\ base \in 0 .. UsizeMax
        BY WordAssumption
      <3>4. NewItem(base, size) \in ItemType
        BY <3>2, <3>3, ItemTypes
      <3>5. base .. (base + size - 1) \subseteq Nat
        BY <3>2, <3>3
      <3> HIDE DEF size
      <3>6. mem' \in [Threads -> ItemType] /\ mapped' \subseteq Nat
        BY <2>12, <3>4, <3>5 DEF AllocateItem, size
      <3>7. num_items[cur[t]] \in Nat
        <4>1. num_items[cur[t]] \in 0 .. U8 - 1
          OBVIOUS
        <4>. QED  BY <4>1, SMTT(60) DEF U8
      <3>. QED  BY <2>12, <3>6, <3>7 DEF AllocateItem
    <2>13. CASE AllocationFails(t)
      BY <2>13 DEF AllocationFails, UnlockThen
    <2>13a. CASE AllocationPanics(t)
      BY <2>13a DEF AllocationPanics, Return
    <2>14. ASSUME NEW store \in {"fields", "is_taken", "num_items"}, PublishItem(t, store)
           PROVE  TypeOK'
      <3>1. Zero \in ItemType
        BY ItemTypes, WordAssumption DEF Zero
      <3>2. idx[t] \in Slots /\ cur[t] \in Headers
        BY <2>14 DEF PublishItem
      <3>3. item' \in [Headers -> [Slots -> ItemType]]
        BY <2>14, <3>2 DEF PublishItem
      <3>4. is_taken' \in [Headers -> [Slots -> 0..1]]
        BY <2>14, <3>2 DEF PublishItem
      <3>5. num_items' \in [Headers -> 0 .. U8 - 1]
        <4>1. \A k \in 0 .. 255 : (k + 1) % 256 \in 0 .. 255
          OBVIOUS
        <4>2. \A k \in 0 .. U8 - 1 : (k + 1) % U8 \in 0 .. U8 - 1
          BY <4>1 DEF U8
        <4>3. (num_items[cur[t]] + 1) % U8 \in 0 .. U8 - 1
          BY <4>2
        <4>. QED  BY <2>14, <4>3 DEF PublishItem
      <3>6. mem' \in [Threads -> ItemType]
        BY <2>14, <3>1 DEF PublishItem
      <3>. QED  BY <2>14, <3>3, <3>4, <3>5, <3>6, ZenonT(60) DEF PublishItem, UnlockThen
    <2>15. CASE NextCheck(t)
      BY <2>15 DEF NextCheck
    <2>16. CASE NextRecheck(t)
      BY <2>16, ZenonT(60) DEF NextRecheck, UnlockThen
    <2>17. CASE NextAllocationFails(t)
      BY <2>17 DEF NextAllocationFails, UnlockThen
    <2>18. ASSUME NEW n \in Headers, NEW contents \in HeapContents,
                  AllocateNext(t, n, contents)
           PROVE  TypeOK'
      <3>1. /\ contents.num_items \in 0 .. U8 - 1
            /\ contents.is_locked \in 0..1
            /\ contents.next_locator_ptr \in {NoHeader, Wild}
            /\ contents.item \in [Slots -> ItemType]
            /\ contents.is_taken \in [Slots -> 0..1]
        <4>1. contents \in HeapType
          BY InputAssumption
        <4>2. 0 .. MaxItemCount \subseteq 0 .. U8 - 1
          BY LayoutAssumption DEF U8
        <4>. QED  BY <4>1, <4>2 DEF HeapType
      <3>. QED  BY <2>18, <3>1 DEF AllocateNext
    <2>19. CASE SetDefaultValues(t)
      BY <2>19 DEF SetDefaultValues, U8
    <2>20. CASE InitializeRemainingSpaceAsBuffers(t)
      <3> DEFINE n == next_locator_ptr[cur[t]]
      <3>1. n \in Headers
        BY <2>20 DEF InitializeRemainingSpaceAsBuffers
      <3>2. /\ InitializedItems(n, item[n]) \in [Slots -> ItemType]
            /\ InitializedLocks(is_taken[n]) \in [Slots -> 0..1]
        BY <3>1, InitializedTypes
      <3>3. NumPreallocated \in 0 .. U8 - 1
        BY LayoutAssumption DEF U8
      <3>. QED
        BY <2>20, <3>1, <3>2, <3>3 DEF InitializeRemainingSpaceAsBuffers, UnlockThen
    <2>21. CASE Follow(t)
      BY <2>21 DEF Follow
    <2>22. CASE Crash(t)
      BY <2>22 DEF Crash
    <2>. QED
      BY <1>1, <2>1, <2>2, <2>3, <2>4, <2>5, <2>6, <2>7, <2>8, <2>9, <2>10, <2>11,
         <2>12, <2>13, <2>13a, <2>14, <2>15, <2>16, <2>17, <2>18, <2>19, <2>20, <2>21, <2>22
         DEF CallStep
  <1>2. ASSUME NEW t \in Threads, ClientStep(t) PROVE TypeOK'
    <2>1. ASSUME NEW r \in Requests, GetBuffer(t, r) PROVE TypeOK'
      BY <2>1, HeaderAssumption, InputAssumption DEF GetBuffer
    <2>2. ASSUME NEW length \in 1 .. left[t], NEW stored \in Nat, Store(t, length, stored)
          PROVE  TypeOK'
      <3> DEFINE i == item[cur[t]][idx[t]]
      <3>1. i \in ItemType /\ length \in Nat
        BY <2>2 DEF Store
      <3>2. AppendedItem(i, stored) \in ItemType
        BY <3>1, ItemTypes
      <3>3. item' \in [Headers -> [Slots -> ItemType]]
        BY <2>2, <3>2 DEF Store
      <3>4. WriteAddress(i) .. (WriteAddress(i) + stored - 1) \subseteq Nat
        BY <3>1 DEF ItemType, WriteAddress
      <3>5. written' \subseteq Nat /\ overwritten' \in BOOLEAN
        BY <2>2, <3>4 DEF Store
      <3>. QED  BY <2>2, <3>3, <3>5 DEF Store
    <2>2a. ASSUME NEW length \in 1 .. left[t], AppendBytes(t, length) \/ AppendCopy(t, length)
           PROVE  TypeOK'
      <3>1. length \in Nat /\ PointerSize \in Nat
        BY InputAssumption
      <3>. QED  BY <2>2, <2>2a, <3>1 DEF AppendBytes, AppendCopy
    <2>3. CASE Drop(t)
      BY <2>3 DEF Drop, Return
    <2>. QED  BY <1>2, <2>1, <2>2a, <2>3 DEF ClientStep
  <1>3. CASE Crashed \/ \E t \in Threads : Spin(t)
    BY <1>0, <1>3 DEF Crashed, Spin
  <1>. QED  BY <1>0, <1>1, <1>2, <1>3 DEF Next

\* Every reachable state of the header chain is well typed: whatever the
\* threads do, also in headers that are used before they are initialised, a
\* slot that was given out exists and the u8 and u32 counters keep their width.
THEOREM TypeCorrect == Spec => []TypeOK
  BY InitType, NextType, PTL DEF Spec

-----------------------------------------------------------------------------
\* Exclusive use

\* The invariant holds before the first call.
LEMMA InitInv == Init => Inv
  <1> SUFFICES ASSUME Init PROVE Inv
    OBVIOUS
  <1>1. TypeOK
    BY InitType
  <1>2. \A t \in Threads : pc[t] = "idle"
    BY DEF Init
  <1>3. FreshHeaders /\ Links
    BY HeaderAssumption DEF Init, FreshHeaders, Links, Sound
  <1>4. Initializing /\ Locking /\ Owning /\ ExclusiveUse
    BY <1>2 DEF Initializing, Locking, Owning, SlotOf, ExclusiveUse, InLock, Owns
  <1>. QED  BY <1>1, <1>3, <1>4 DEF Inv

\* Every step preserves the invariant, if plain stores become visible in program
\* order: the cases that matter are try_lock, which may take only a published
\* item nobody owns, the stores that publish a new item, and Follow, after which
\* a header entered too early is no longer sound.
LEMMA NextInv ==
  ASSUME StoresInOrder, Inv, [Next]_vars
  PROVE  Inv'
  <1>t. TypeOK'
    BY NextType DEF Inv
  <1>0. /\ pc \in [Threads -> Locations]
        /\ cur \in [Threads -> Headers]
        /\ idx \in [Threads -> Nat]
        /\ final \in [Threads -> Nat]
        /\ after \in [Threads -> {"idle", "next", "follow", "align"}]
        /\ todo \in [Threads -> SUBSET {"fields", "is_taken", "num_items"}]
        /\ num_items \in [Headers -> Nat]
        /\ is_locked \in [Headers -> 0..1]
        /\ next_locator_ptr \in [Headers -> Headers \cup {NoHeader, Wild}]
        /\ is_taken \in [Headers -> [Slots -> 0..1]]
        /\ \A t \in Threads : Owns(t) \/ pc[t] = "trylock" => idx[t] \in Slots
    <2>1. 0 .. U8 - 1 \subseteq Nat
      BY DEF U8
    <2>. QED  BY <2>1 DEF Inv, TypeOK
  <1>1. CASE UNCHANGED vars
    BY <1>t, <1>1, SMTT(60) DEF vars, headerVars, memoryVars, threadVars, historyVars, Inv,
       FreshHeaders, Links, Initializing, Locking, Owning, SlotOf, ExclusiveUse,
       Sound, Owns, InLock
  <1> USE DEF headerVars, memoryVars, historyVars, Goto
  <1>2. ASSUME NEW t \in Threads, CallStep(t) PROVE Inv'
    <2> USE DEF Inv, FreshHeaders, Links, Initializing, Locking, Owning, SlotOf,
            ExclusiveUse, Sound, Owns, InLock
    <2>1. CASE ScanBegin(t)
      BY <1>t, <1>0, <2>1 DEF ScanBegin
    <2>2. CASE ScanSkip(t)
      BY <1>t, <1>0, <2>2 DEF ScanSkip
    <2>3. CASE ScanCandidate(t)
      BY <1>t, <1>0, <2>3 DEF ScanCandidate
    <2>4. CASE ScanEnd(t)
      BY <1>t, <1>0, <2>4 DEF ScanEnd
    <2>5. CASE LockForAllocation(t)
      BY <1>t, <1>0, <2>5 DEF LockForAllocation, Lock
    <2>6. CASE LockForNext(t)
      BY <1>t, <1>0, <2>6 DEF LockForNext, Lock
    <2>7. CASE TryAllocateItem(t)
      BY <1>t, <1>0, <2>7 DEF TryAllocateItem
    <2>8. CASE AllocationRecheck(t)
      <3>1. CASE IsFull(cur[t])
        <4>1. /\ pc[t] = "recheckAlloc"
              /\ pc' = [pc EXCEPT ![t] = "unlock"]
              /\ after' = [after EXCEPT ![t] = "next"]
          BY <2>8, <3>1, Zenon DEF AllocationRecheck, UnlockThen
        <4>2. UNCHANGED <<headerVars, memoryVars, historyVars, cur, idx, final, todo>>
          BY <2>8 DEF AllocationRecheck
        <4>. QED  BY <1>t, <1>0, <4>1, <4>2
      <3>2. CASE ~IsFull(cur[t])
        <4>1. /\ pc[t] = "recheckAlloc"
              /\ pc' = [pc EXCEPT ![t] = "allocate"]
              /\ after' = after
          BY <2>8, <3>2, Zenon DEF AllocationRecheck
        <4>2. UNCHANGED <<headerVars, memoryVars, historyVars, cur, idx, final, todo>>
          BY <2>8 DEF AllocationRecheck
        <4>. QED  BY <1>t, <1>0, <4>1, <4>2
      <3>. QED  BY <3>1, <3>2
    <2>9. CASE AllocationFails(t)
      BY <1>t, <1>0, <2>9 DEF AllocationFails, UnlockThen
    <2>9a. CASE AllocationPanics(t)
      BY <1>t, <1>0, <2>9a DEF AllocationPanics, Return
    <2>10. CASE NextCheck(t)
      BY <1>t, <1>0, <2>10 DEF NextCheck
    <2>11. CASE NextRecheck(t)
      <3>1. CASE next_locator_ptr[cur[t]] # NoHeader
        <4>1. /\ pc[t] = "recheckNext"
              /\ pc' = [pc EXCEPT ![t] = "unlock"]
              /\ after' = [after EXCEPT ![t] = "follow"]
          BY <2>11, <3>1, Zenon DEF NextRecheck, UnlockThen
        <4>2. UNCHANGED <<headerVars, memoryVars, historyVars, cur, idx, final, todo>>
          BY <2>11 DEF NextRecheck
        <4>. QED  BY <1>t, <1>0, <4>1, <4>2
      <3>2. CASE next_locator_ptr[cur[t]] = NoHeader
        <4>1. /\ pc[t] = "recheckNext"
              /\ pc' = [pc EXCEPT ![t] = "allocNext"]
              /\ after' = after
          BY <2>11, <3>2, Zenon DEF NextRecheck
        <4>2. UNCHANGED <<headerVars, memoryVars, historyVars, cur, idx, final, todo>>
          BY <2>11 DEF NextRecheck
        <4>. QED  BY <1>t, <1>0, <4>1, <4>2
      <3>. QED  BY <3>1, <3>2
    <2>12. CASE NextAllocationFails(t)
      BY <1>t, <1>0, <2>12 DEF NextAllocationFails, UnlockThen
    <2>13. CASE Crash(t)
      BY <1>t, <1>0, <2>13 DEF Crash
    <2>14. CASE Align(t)
      BY <1>t, <1>0, <2>14 DEF Align
    <2>15. CASE Unlock(t)
      <3>1. /\ pc[t] = "unlock"
            /\ after[t] \in {"idle", "next", "follow", "align"}
            /\ pc'[t] = after[t]
            /\ \A u \in Threads \ {t} : pc'[u] = pc[u] /\ after'[u] = after[u]
        BY <1>0, <2>15 DEF Unlock
      <3>2. is_locked' = [is_locked EXCEPT ![cur[t]] = 0]
        BY <2>15 DEF Unlock
      <3>3. UNCHANGED <<num_items, next_locator_ptr, is_taken, live, ready, premature,
                        cur, idx, final, todo>>
        BY <2>15 DEF Unlock
      <3>4. FreshHeaders' /\ Links'
        BY <3>3
      <3>5. Initializing'
        BY <3>1, <3>3
      <3>6. Locking'
        <4>1. \A u \in Threads : InLock(u)' => u # t /\ InLock(u)
          BY <3>1
        <4>2. \A u \in Threads : InLock(u)' /\ cur[u] \notin premature => cur[u] # cur[t]
          BY <3>1, <4>1
        <4>3. \A u \in Threads : cur[u] # cur[t] => is_locked'[cur[u]] = is_locked[cur[u]]
          BY <1>0, <3>2
        <4>. QED  BY <3>3, <4>1, <4>2, <4>3
      <3>7. \A u \in Threads : Owns(u)' <=> Owns(u)
        <4>1. Owns(t)' <=> Owns(t)
          BY <3>1
        <4>. QED  BY <3>1, <4>1
      <3>8. Owning'
        BY <3>1, <3>3, <3>7
      <3>9. ExclusiveUse'
        BY <3>3, <3>7
      <3>. QED  BY <1>t, <3>4, <3>5, <3>6, <3>8, <3>9
    <2>16. CASE TryLockItem(t)
      <3>1. FreshHeaders'
        BY <1>0, <2>16 DEF TryLockItem
      <3>2. Links'
        BY <1>0, <2>16 DEF TryLockItem
      <3>3. Initializing'
        BY <1>0, <2>16 DEF TryLockItem
      <3>4. Locking'
        <4>1. pc' \in {[pc EXCEPT ![t] = "align"], [pc EXCEPT ![t] = "scan"]}
          BY <2>16, Zenon DEF TryLockItem
        <4>2. UNCHANGED <<is_locked, cur, premature, after>>
          BY <2>16 DEF TryLockItem
        <4>3. \A u \in Threads : InLock(u)' <=> InLock(u)
          <5>1. CASE pc' = [pc EXCEPT ![t] = "align"]
            BY <1>0, <2>16, <5>1 DEF TryLockItem
          <5>2. CASE pc' = [pc EXCEPT ![t] = "scan"]
            BY <1>0, <2>16, <5>2 DEF TryLockItem
          <5>. QED  BY <4>1, <5>1, <5>2
        <4>. QED  BY <4>2, <4>3
      <3>5. Owning'
        BY <1>0, <2>16 DEF TryLockItem
      <3>6. ExclusiveUse'
        BY <1>0, <2>16 DEF TryLockItem
      <3>. QED  BY <1>t, <3>1, <3>2, <3>3, <3>4, <3>5, <3>6
    <2>17. CASE SetDefaultValues(t)
      <3>1. FreshHeaders'
        BY <1>0, <2>17, HeaderAssumption DEF SetDefaultValues
      <3>2. Links'
        BY <1>0, <2>17, HeaderAssumption DEF SetDefaultValues
      <3>3. Initializing'
        BY <1>0, <2>17 DEF SetDefaultValues
      <3>4. Locking'
        BY <1>0, <2>17 DEF SetDefaultValues
      <3>5. Owning'
        BY <1>0, <2>17 DEF SetDefaultValues
      <3>6. ExclusiveUse'
        BY <1>0, <2>17 DEF SetDefaultValues
      <3>. QED  BY <1>t, <3>1, <3>2, <3>3, <3>4, <3>5, <3>6
    <2>18. CASE InitializeRemainingSpaceAsBuffers(t)
      <3>1. FreshHeaders'
        BY <1>0, <2>18 DEF InitializeRemainingSpaceAsBuffers, UnlockThen
      <3>2. Links'
        BY <1>0, <2>18 DEF InitializeRemainingSpaceAsBuffers, UnlockThen
      <3>3. Initializing'
        <4> SUFFICES ASSUME NEW u \in Threads, pc'[u] \in {"init", "fill"},
                            cur'[u] \notin premature'
                     PROVE  next_locator_ptr'[cur'[u]] \in Headers \ ready'
          OBVIOUS
        <4>1. u # t /\ pc[u] \in {"init", "fill"}
          BY <1>0, <2>18 DEF InitializeRemainingSpaceAsBuffers, UnlockThen
        <4>2. cur[u] \notin premature /\ next_locator_ptr[cur[u]] \in Headers \ ready
          BY <2>18, <4>1 DEF InitializeRemainingSpaceAsBuffers
        <4>3. next_locator_ptr[cur[u]] # next_locator_ptr[cur[t]]
          BY <1>0, <2>18, <4>1, <4>2 DEF InitializeRemainingSpaceAsBuffers
        <4>. QED  BY <2>18, <4>2, <4>3 DEF InitializeRemainingSpaceAsBuffers
      <3>4. Locking'
        BY <1>0, <2>18 DEF InitializeRemainingSpaceAsBuffers, UnlockThen
      <3>5. Owning'
        BY <1>0, <2>18 DEF InitializeRemainingSpaceAsBuffers, UnlockThen
      <3>6. ExclusiveUse'
        BY <1>0, <2>18 DEF InitializeRemainingSpaceAsBuffers, UnlockThen
      <3>. QED  BY <1>t, <3>1, <3>2, <3>3, <3>4, <3>5, <3>6
    <2>19. CASE Follow(t)
      <3>1. FreshHeaders'
        BY <1>0, <2>19 DEF Follow
      <3>2. Links'
        BY <1>0, <2>19 DEF Follow
      <3>3. Initializing'
        BY <1>0, <2>19 DEF Follow
      <3>4. Locking'
        BY <1>0, <2>19 DEF Follow
      <3>5. Owning'
        BY <1>0, <2>19 DEF Follow
      <3>6. ExclusiveUse'
        BY <1>0, <2>19 DEF Follow
      <3>. QED  BY <1>t, <3>1, <3>2, <3>3, <3>4, <3>5, <3>6
    <2>20. ASSUME NEW base \in 1 .. UsizeMax, AllocateItem(t, base)
           PROVE  Inv'
      <3>1. FreshHeaders'
        BY <1>0, <2>20 DEF AllocateItem
      <3>2. Links'
        BY <1>0, <2>20 DEF AllocateItem
      <3>3. Initializing'
        BY <1>0, <2>20 DEF AllocateItem
      <3>4. Locking'
        BY <1>0, <2>20 DEF AllocateItem
      <3>5. Owning'
        BY <1>0, <2>20 DEF AllocateItem
      <3>6. ExclusiveUse'
        BY <1>0, <2>20 DEF AllocateItem
      <3>. QED  BY <1>t, <3>1, <3>2, <3>3, <3>4, <3>5, <3>6
    <2>21. ASSUME NEW store \in {"fields", "is_taken", "num_items"}, PublishItem(t, store)
           PROVE  Inv'
      <3>1. FreshHeaders'
        BY <1>0, <2>21 DEF PublishItem, MayBecomeVisible, UnlockThen
      <3>2. Links'
        BY <1>0, <2>21 DEF PublishItem, MayBecomeVisible, UnlockThen
      <3>3. Initializing'
        BY <1>0, <2>21 DEF PublishItem, MayBecomeVisible, UnlockThen
      <3>4. Locking'
        BY <1>0, <2>21 DEF PublishItem, MayBecomeVisible, UnlockThen
      <3>5. Owning'
        <4>1. CASE store = "num_items"
          <5>1. todo[t] = {"num_items"} /\ pc[t] = "publish"
            BY <2>21, <4>1 DEF PublishItem, MayBecomeVisible
          <5>2. /\ pc' = [pc EXCEPT ![t] = "unlock"]
                /\ after' = [after EXCEPT ![t] = "align"]
            BY <2>21, <4>1, <5>1 DEF PublishItem, UnlockThen
          <5>3. /\ num_items' = [num_items EXCEPT ![cur[t]] = (@ + 1) % U8]
                /\ UNCHANGED <<is_taken, cur, idx, final, premature>>
            BY <2>21, <4>1 DEF PublishItem
          <5>4. Sound(cur[t]) => num_items'[cur[t]] = num_items[cur[t]] + 1
            <6> SUFFICES ASSUME Sound(cur[t])
                         PROVE  num_items'[cur[t]] = num_items[cur[t]] + 1
              OBVIOUS
            <6>1. idx[t] \in Slots /\ idx[t] = num_items[cur[t]]
              BY <1>0, <5>1
            <6>2. \A k \in Slots : (k + 1) % U8 = k + 1
              <7>1. \A k \in 0 .. 254 : (k + 1) % 256 = k + 1
                OBVIOUS
              <7>2. Slots \subseteq 0 .. 254
                BY LayoutAssumption DEF Slots, U8
              <7>. QED  BY <7>1, <7>2 DEF U8
            <6>3. num_items'[cur[t]] = (num_items[cur[t]] + 1) % U8
              BY <1>0, <5>3
            <6>. QED  BY <6>1, <6>2, <6>3
          <5>5. \A h \in Headers \ {cur[t]} : num_items'[h] = num_items[h]
            BY <1>0, <5>3
          <5>6. \A u \in Threads \ {t} : pc'[u] = pc[u] /\ after'[u] = after[u]
                                       /\ todo'[u] = todo[u]
            BY <1>0, <2>21, <5>2 DEF PublishItem
          <5>7. pc'[t] = "unlock" /\ after'[t] = "align"
            BY <1>0, <5>2
          <5>8. Sound(cur[t]) => SlotOf(t)'
            BY <1>0, <5>1, <5>3, <5>4, <5>7
          <5>9. ASSUME NEW u \in Threads \ {t}, Sound(cur[u]) PROVE SlotOf(u)'
            <6>1. CASE cur[u] = cur[t]
              <7>1. pc[u] # "publish"
                BY <5>1, <5>9, <6>1
              <7>. QED  BY <1>0, <5>3, <5>4, <5>6, <5>9, <6>1, <7>1
            <6>2. CASE cur[u] # cur[t]
              BY <1>0, <5>3, <5>5, <5>6, <5>9, <6>2
            <6>. QED  BY <6>1, <6>2
          <5>. QED  BY <5>3, <5>8, <5>9
        <4>2. CASE store # "num_items"
          BY <1>0, <2>21, <4>2 DEF PublishItem, MayBecomeVisible, UnlockThen
        <4>. QED  BY <4>1, <4>2
      <3>6. ExclusiveUse'
        BY <1>0, <2>21 DEF PublishItem, MayBecomeVisible, UnlockThen
      <3>. QED  BY <1>t, <3>1, <3>2, <3>3, <3>4, <3>5, <3>6
    <2>22. ASSUME NEW n \in Headers, NEW contents \in HeapContents, AllocateNext(t, n, contents)
           PROVE  Inv'
      <3>0. contents.next_locator_ptr \notin Headers /\ cur[t] # n
        BY <1>0, <2>22, HeaderAssumption, InputAssumption, SMTT(60) DEF AllocateNext, HeapType
      <3>1. FreshHeaders'
        BY <1>0, <2>22, <3>0, HeaderAssumption DEF AllocateNext
      <3>2. Links'
        <4>1. /\ next_locator_ptr'[n] \notin Headers
              /\ next_locator_ptr'[cur[t]] = n
              /\ \A h \in Headers \ {n, cur[t]} : next_locator_ptr'[h] = next_locator_ptr[h]
          BY <1>0, <2>22, <3>0 DEF AllocateNext
        <4>2. \A h \in Headers : next_locator_ptr[h] # n
          BY <2>22 DEF AllocateNext
        <4>3. n \in live' /\ live \subseteq live'
          BY <2>22 DEF AllocateNext
        <4>4. /\ cur[t] \in premature => n \in premature'
              /\ premature \subseteq premature' /\ premature' \subseteq premature \cup {n}
          BY <2>22 DEF AllocateNext
        <4>5. ASSUME NEW h \in Headers, next_locator_ptr'[h] \in Headers
              PROVE  /\ next_locator_ptr'[h] \in live'
                     /\ next_locator_ptr'[h] \notin premature' => h \notin premature'
          <5>1. CASE h = cur[t]
            BY <3>0, <4>1, <4>3, <4>4, <5>1
          <5>2. CASE h # cur[t]
            <6>1. h # n /\ next_locator_ptr'[h] = next_locator_ptr[h]
              BY <4>1, <4>5, <5>2
            <6>. QED  BY <4>3, <4>4, <4>5, <6>1
          <5>. QED  BY <5>1, <5>2
        <4>6. ASSUME NEW h \in Headers, NEW k \in Headers,
                     next_locator_ptr'[h] \in Headers,
                     next_locator_ptr'[h] = next_locator_ptr'[k]
              PROVE  h = k
          <5>1. h # n /\ k # n
            BY <4>1, <4>6
          <5>. QED  BY <4>1, <4>2, <4>6, <5>1
        <4>. QED  BY <4>5, <4>6
      <3>3. Initializing'
        BY <1>0, <2>22 DEF AllocateNext
      <3>4. Locking'
        BY <1>0, <2>22 DEF AllocateNext
      <3>5. Owning'
        BY <1>0, <2>22 DEF AllocateNext
      <3>6. ExclusiveUse'
        BY <1>0, <2>22 DEF AllocateNext
      <3>. QED  BY <1>t, <3>1, <3>2, <3>3, <3>4, <3>5, <3>6
    <2>. QED
      BY <1>2, <2>1, <2>2, <2>3, <2>4, <2>5, <2>6, <2>7, <2>8, <2>9, <2>9a, <2>10,
         <2>11, <2>12, <2>13, <2>14, <2>15, <2>16, <2>17, <2>18, <2>19, <2>20, <2>21,
         <2>22, ZenonT(60) DEF CallStep
  <1>3. ASSUME NEW t \in Threads, ClientStep(t) PROVE Inv'
    <2> USE DEF Inv, FreshHeaders, Links, Initializing, Locking, Owning, SlotOf,
            ExclusiveUse, Sound, Owns, InLock
    <2>1. ASSUME NEW r \in Requests, GetBuffer(t, r) PROVE Inv'
      BY <1>t, <1>0, <2>1 DEF GetBuffer
    <2>2. ASSUME NEW length \in 1 .. left[t], AppendBytes(t, length) \/ AppendCopy(t, length)
          PROVE  Inv'
      BY <1>t, <1>0, <2>2 DEF AppendBytes, AppendCopy, Store
    <2>3. CASE Drop(t)
      BY <1>t, <1>0, <2>3 DEF Drop, Return
    <2>. QED  BY <1>3, <2>1, <2>2, <2>3 DEF ClientStep
  <1>4. CASE Crashed \/ \E t \in Threads : Spin(t)
    BY <1>1, <1>4 DEF Crashed, Spin
  <1>. QED  BY <1>1, <1>2, <1>3, <1>4 DEF Next

\* Only one user may use a buffer at any time: with any number of threads, on a
\* machine that makes the plain stores of try_allocate_item visible in program
\* order, no item of a header that was initialised before it was entered is ever
\* given to two threads.
THEOREM OnlyOneUser ==
  ASSUME StoresInOrder
  PROVE  Spec => []ExclusiveUse
  <1>1. Init => Inv
    BY InitInv
  <1>2. Inv /\ [Next]_vars => Inv'
    BY NextInv
  <1>3. Inv => ExclusiveUse
    BY DEF Inv
  <1>. QED  BY <1>1, <1>2, <1>3, PTL DEF Spec
=============================================================================
