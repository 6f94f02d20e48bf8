---------------------------- MODULE LocatorChainProofs ---------------------------
(***************************************************************************)
(* More theorems about LocatorHeader: the spin lock of a header, the       *)
(* double checks of try_allocate_item and get_next_locator, the chain they *)
(* build, and the locks of the items.                                      *)
(***************************************************************************)
EXTENDS LocatorHeaderProofs, FiniteSetTheorems

-----------------------------------------------------------------------------
\* The inductive invariant

\* The flag of a header's lock is up only while a thread is inside, or for good
\* after a panic.
LockFlag ==
  /\ \A h \in ready : Sound(h) /\ is_locked[h] = 1 =>
       h \in abandoned \/ \E t \in Threads : InLock(t) /\ cur[t] = h
  /\ \A h \in abandoned : Sound(h) =>
       /\ h \in ready
       /\ is_locked[h] = 1
       /\ \A t \in Threads : InLock(t) => cur[t] # h

\* Half-way through its initialisation a header nobody has entered is unlocked
\* and the last of the chain.
HalfInitialized ==
  \A t \in Threads : pc[t] = "fill" =>
    LET n == next_locator_ptr[cur[t]]
    IN  n \in Headers /\ Sound(n) => is_locked[n] = 0 /\ next_locator_ptr[n] = NoHeader

\* An initialised header has a legal count and link, and a successor only if it is
\* full.
WellFormed ==
  \A h \in ready : Sound(h) =>
    /\ num_items[h] <= MaxItemCount
    /\ next_locator_ptr[h] # Wild
    /\ next_locator_ptr[h] # NoHeader => IsFull(h)

\* What a thread has checked and is about to rely on still holds.
StillTrue(t) ==
  /\ pc[t] = "allocate" => ~IsFull(cur[t])
  /\ \/ pc[t] \in {"next", "lockNext", "recheckNext", "allocNext"}
     \/ pc[t] = "unlock" /\ after[t] = "next"
     => IsFull(cur[t])
  /\ pc[t] = "allocNext" => next_locator_ptr[cur[t]] = NoHeader
  /\ \/ pc[t] = "follow"
     \/ pc[t] = "unlock" /\ after[t] = "follow"
     => next_locator_ptr[cur[t]] \in Headers

Rechecked == \A t \in Threads : Sound(cur[t]) => StillTrue(t)

\* Every header but the first is linked from one that was allocated before.
Linked ==
  premature = {} => \A n \in live \ {Root} : \E h \in live : next_locator_ptr[h] = n

\* A published item that is taken has an owner.
Taken ==
  \A h \in ready : Sound(h) =>
    \A i \in Published(h) : is_taken[h][i] = 1 =>
      \E t \in Threads : Owns(t) /\ cur[t] = h /\ idx[t] = i

ChainInv == Inv /\ LockFlag /\ HalfInitialized /\ WellFormed /\ Rechecked /\ Linked /\ Taken

-----------------------------------------------------------------------------
\* The invariant holds before the first call.
LEMMA InitChain == Init => ChainInv
  <1> SUFFICES ASSUME Init PROVE ChainInv
    OBVIOUS
  <1>1. Inv
    BY InitInv
  <1>2. \A t \in Threads : pc[t] = "idle"
    BY DEF Init
  <1>3. LockFlag /\ HalfInitialized /\ Rechecked /\ Linked
    BY <1>2, HeaderAssumption DEF Init, LockFlag, HalfInitialized, Rechecked, StillTrue, Linked
  <1>4. WellFormed
    BY HeaderAssumption, LayoutAssumption DEF Init, WellFormed
  <1>5. Taken
    <2>1. \A h \in Headers : \A i \in Slots : is_taken[h][i] = 0
      BY DEF Init
    <2>2. ready \subseteq Headers
      BY HeaderAssumption DEF Init
    <2>. QED  BY <2>1, <2>2 DEF Taken, Published
  <1>. QED  BY <1>1, <1>3, <1>4, <1>5 DEF ChainInv

\* A step that takes no thread in or out of the lock of a sound header keeps
\* LockFlag.
LocksKept ==
  /\ UNCHANGED <<is_locked, ready, abandoned>>
  /\ premature \subseteq premature'
  /\ \A u \in Threads :
       /\ Sound(cur[u]) => (InLock(u)' <=> InLock(u))
       /\ InLock(u) \/ InLock(u)' => cur'[u] = cur[u]

\* LockFlag is kept by steps of that kind.
LEMMA LocksKeptKeeps ==
  ASSUME LockFlag, LocksKept
  PROVE  LockFlag'
  <1> USE DEF LocksKept
  <1>1. ASSUME NEW h \in ready, Sound(h)', is_locked[h] = 1
        PROVE  h \in abandoned \/ \E t \in Threads : InLock(t)' /\ cur'[t] = h
    <2>1. Sound(h)
      BY <1>1 DEF Sound
    <2>2. CASE h \in abandoned
      BY <2>2
    <2>3. CASE h \notin abandoned
      <3>1. PICK t \in Threads : InLock(t) /\ cur[t] = h
        BY <1>1, <2>1, <2>3 DEF LockFlag
      <3>. QED  BY <2>1, <3>1
    <2>. QED  BY <2>2, <2>3
  <1>2. ASSUME NEW h \in abandoned, Sound(h)', NEW t \in Threads, InLock(t)'
        PROVE  cur'[t] # h
    <2>1. Sound(h) /\ cur'[t] = cur[t]
      BY <1>2 DEF Sound
    <2>. QED  BY <1>2, <2>1 DEF LockFlag
  <1>3. ASSUME NEW h \in abandoned, Sound(h)' PROVE h \in ready /\ is_locked[h] = 1
    BY <1>3 DEF LockFlag, Sound
  <1>. QED  BY <1>1, <1>2, <1>3 DEF LockFlag

\* A step that leaves counts and item locks alone and takes no item from its owner
\* keeps Taken.
ItemsKept ==
  /\ UNCHANGED <<num_items, is_taken, ready>>
  /\ premature \subseteq premature'
  /\ \A u \in Threads : Owns(u) => Owns(u)' /\ cur'[u] = cur[u] /\ idx'[u] = idx[u]

\* Taken is kept by steps that lock, unlock and publish no item.
LEMMA ItemsKeptKeeps ==
  ASSUME Taken, ItemsKept
  PROVE  Taken'
  BY DEF Taken, ItemsKept, Published, Sound

\* A step of one thread that does neither and leaves the chain alone.
QuietStep ==
  /\ UNCHANGED <<num_items, is_locked, next_locator_ptr, is_taken, live, ready,
                 premature, abandoned>>
  /\ LocksKept
  /\ ItemsKept
  /\ \A u \in Threads : pc'[u] = "fill" => pc[u] = "fill" /\ cur'[u] = cur[u]

\* A quiet step keeps all of the invariant that is not about its own thread.
LEMMA QuietStepKeeps ==
  ASSUME ChainInv, QuietStep
  PROVE  LockFlag' /\ HalfInitialized' /\ WellFormed' /\ Linked' /\ Taken'
  <1>1. LockFlag' /\ Taken'
    BY LocksKeptKeeps, ItemsKeptKeeps DEF ChainInv, QuietStep
  <1>2. HalfInitialized'
    BY DEF ChainInv, QuietStep, HalfInitialized, Sound
  <1>3. WellFormed' /\ Linked'
    BY DEF ChainInv, QuietStep, WellFormed, Linked, Sound, IsFull
  <1>. QED  BY <1>1, <1>2, <1>3

\* num_items += 1 does not wrap, and stays within the array.
LEMMA PublishCounts ==
  ASSUME StoresInOrder, Inv, NEW t \in Threads, NEW store, PublishItem(t, store),
         store = "num_items", Sound(cur[t])
  PROVE  /\ num_items'[cur[t]] = num_items[cur[t]] + 1
         /\ num_items'[cur[t]] <= MaxItemCount
  <1>1. idx[t] \in Slots /\ idx[t] = num_items[cur[t]]
    BY DEF Inv, TypeOK, Owning, SlotOf, Owns, PublishItem
  <1>2. \A k \in Slots : (k + 1) % U8 = k + 1
    <2>1. \A k \in 0 .. 254 : (k + 1) % 256 = k + 1
      OBVIOUS
    <2>2. Slots \subseteq 0 .. 254
      BY LayoutAssumption DEF Slots, U8
    <2>. QED  BY <2>1, <2>2 DEF U8
  <1>3. num_items'[cur[t]] = (num_items[cur[t]] + 1) % U8
    BY DEF PublishItem, Inv, TypeOK
  <1>. QED  BY <1>1, <1>2, <1>3, LayoutAssumption DEF Slots

\* Every step preserves it.
LEMMA NextChain ==
  ASSUME StoresInOrder, ChainInv, [Next]_vars
  PROVE  ChainInv'
  <1>i. Inv /\ Inv'
    BY NextInv DEF ChainInv
  <1>0. /\ pc \in [Threads -> Locations]
        /\ cur \in [Threads -> Headers]
        /\ idx \in [Threads -> Nat]
        /\ final \in [Threads -> Nat]
        /\ after \in [Threads -> {"idle", "next", "follow", "align"}]
        /\ todo \in [Threads -> SUBSET {"fields", "is_taken", "num_items"}]
        /\ num_items \in [Headers -> Nat] /\ num_items' \in [Headers -> Nat]
        /\ is_locked \in [Headers -> 0..1]
        /\ next_locator_ptr \in [Headers -> Headers \cup {NoHeader, Wild}]
        /\ is_taken \in [Headers -> [Slots -> 0..1]]
        /\ ready \subseteq Headers /\ live \subseteq Headers
        /\ MaxItemCount \in Nat
        /\ \A t \in Threads : Owns(t) \/ pc[t] = "trylock" => idx[t] \in Slots
    <2>1. 0 .. U8 - 1 \subseteq Nat
      BY DEF U8
    <2>. QED  BY <1>i, <2>1, LayoutAssumption DEF Inv, TypeOK
  <1>q. QuietStep /\ Rechecked' => ChainInv'
    BY <1>i, QuietStepKeeps DEF ChainInv
  <1>1. CASE UNCHANGED vars
    <2>1. QuietStep
      BY <1>1
      DEF vars, headerVars, memoryVars, threadVars, historyVars, QuietStep, LocksKept,
          ItemsKept, InLock, Owns
    <2>2. Rechecked'
      BY <1>1, SMTT(60) DEF vars, headerVars, memoryVars, threadVars, historyVars, ChainInv, Rechecked,
         StillTrue, Sound, IsFull
    <2>. QED  BY <1>q, <2>1, <2>2
  <1> USE DEF headerVars, memoryVars, historyVars, Goto
  <1>2. ASSUME NEW t \in Threads, CallStep(t) PROVE ChainInv'
    <2>1. CASE ScanBegin(t)
      <3>1. QuietStep
        BY <1>0, <2>1 DEF ScanBegin, QuietStep, LocksKept, ItemsKept, InLock, Owns
      <3>2. Rechecked'
        BY <1>i, <1>0, <2>1 DEF ScanBegin, ChainInv, Rechecked, StillTrue, Sound, IsFull,
           Inv, WellFormed, Initializing, FreshHeaders, Locking, InLock, Owning, SlotOf
      <3>. QED  BY <1>q, <3>1, <3>2
    <2>2. CASE ScanSkip(t)
      <3>1. QuietStep
        BY <1>0, <2>2 DEF ScanSkip, QuietStep, LocksKept, ItemsKept, InLock, Owns
      <3>2. Rechecked'
        BY <1>i, <1>0, <2>2 DEF ScanSkip, ChainInv, Rechecked, StillTrue, Sound, IsFull,
           Inv, WellFormed, Initializing, FreshHeaders, Locking, InLock, Owning, SlotOf
      <3>. QED  BY <1>q, <3>1, <3>2
    <2>3. CASE ScanCandidate(t)
      <3>1. QuietStep
        BY <1>0, <2>3 DEF ScanCandidate, QuietStep, LocksKept, ItemsKept, InLock, Owns
      <3>2. Rechecked'
        BY <1>i, <1>0, <2>3 DEF ScanCandidate, ChainInv, Rechecked, StillTrue, Sound, IsFull,
           Inv, WellFormed, Initializing, FreshHeaders, Locking, InLock, Owning, SlotOf
      <3>. QED  BY <1>q, <3>1, <3>2
    <2>4. CASE ScanEnd(t)
      <3>1. QuietStep
        BY <1>0, <2>4 DEF ScanEnd, QuietStep, LocksKept, ItemsKept, InLock, Owns
      <3>2. Rechecked'
        BY <1>i, <1>0, <2>4 DEF ScanEnd, ChainInv, Rechecked, StillTrue, Sound, IsFull,
           Inv, WellFormed, Initializing, FreshHeaders, Locking, InLock, Owning, SlotOf
      <3>. QED  BY <1>q, <3>1, <3>2
    <2>5. CASE TryAllocateItem(t)
      <3>1. QuietStep
        BY <1>0, <2>5 DEF TryAllocateItem, QuietStep, LocksKept, ItemsKept, InLock, Owns
      <3>2. Rechecked'
        BY <1>i, <1>0, <2>5 DEF TryAllocateItem, ChainInv, Rechecked, StillTrue, Sound, IsFull,
           Inv, WellFormed, Initializing, FreshHeaders, Locking, InLock, Owning, SlotOf
      <3>. QED  BY <1>q, <3>1, <3>2
    <2>6. CASE AllocationFails(t)
      <3>1. QuietStep
        BY <1>0, <2>6
        DEF AllocationFails, UnlockThen, QuietStep, LocksKept, ItemsKept, InLock, Owns
      <3>2. Rechecked'
        BY <1>i, <1>0, <2>6
        DEF AllocationFails, UnlockThen, ChainInv, Rechecked, StillTrue, Sound, IsFull,
           Inv, WellFormed, Initializing, FreshHeaders, Locking, InLock, Owning, SlotOf
      <3>. QED  BY <1>q, <3>1, <3>2
    <2>7. CASE NextAllocationFails(t)
      <3>1. QuietStep
        BY <1>0, <2>7
        DEF NextAllocationFails, UnlockThen, QuietStep, LocksKept, ItemsKept, InLock, Owns
      <3>2. Rechecked'
        BY <1>i, <1>0, <2>7
        DEF NextAllocationFails, UnlockThen, ChainInv, Rechecked, StillTrue, Sound, IsFull,
           Inv, WellFormed, Initializing, FreshHeaders, Locking, InLock, Owning, SlotOf
      <3>. QED  BY <1>q, <3>1, <3>2
    <2>8. CASE NextCheck(t)
      <3>1. QuietStep
        BY <1>0, <2>8 DEF NextCheck, QuietStep, LocksKept, ItemsKept, InLock, Owns
      <3>2. Rechecked'
        BY <1>i, <1>0, <2>8 DEF NextCheck, ChainInv, Rechecked, StillTrue, Sound, IsFull,
           Inv, WellFormed, Initializing, FreshHeaders, Locking, InLock, Owning, SlotOf
      <3>. QED  BY <1>q, <3>1, <3>2
    <2>9. CASE Align(t)
      <3>1. QuietStep
        BY <1>0, <2>9 DEF Align, QuietStep, LocksKept, ItemsKept, InLock, Owns
      <3>2. Rechecked'
        BY <1>i, <1>0, <2>9 DEF Align, ChainInv, Rechecked, StillTrue, Sound, IsFull,
           Inv, WellFormed, Initializing, FreshHeaders, Locking, InLock, Owning, SlotOf
      <3>. QED  BY <1>q, <3>1, <3>2
    <2>10. CASE AllocationRecheck(t)
      <3>0. UNCHANGED <<headerVars, memoryVars, historyVars, cur, idx>>
        BY <2>10 DEF AllocationRecheck
      <3>1. CASE IsFull(cur[t])
        <4>1. pc[t] = "recheckAlloc" /\ pc' = [pc EXCEPT ![t] = "unlock"] /\ after' = [after EXCEPT ![t] = "next"]
          BY <2>10, <3>1, Zenon DEF AllocationRecheck, UnlockThen
        <4>2. QuietStep
          BY <1>0, <3>0, <4>1 DEF QuietStep, LocksKept, ItemsKept, InLock, Owns
        <4>3. Rechecked'
          BY <1>i, <1>0, <3>0, <3>1, <4>1, HeaderAssumption DEF ChainInv, Rechecked, StillTrue,
             Sound, IsFull, Inv, WellFormed, FreshHeaders
        <4>. QED  BY <1>q, <4>2, <4>3
      <3>2. CASE ~IsFull(cur[t])
        <4>1. pc[t] = "recheckAlloc" /\ pc' = [pc EXCEPT ![t] = "allocate"] /\ after' = after
          BY <2>10, <3>2, Zenon DEF AllocationRecheck, UnlockThen
        <4>2. QuietStep
          BY <1>0, <3>0, <4>1 DEF QuietStep, LocksKept, ItemsKept, InLock, Owns
        <4>3. Rechecked'
          BY <1>i, <1>0, <3>0, <3>2, <4>1, HeaderAssumption DEF ChainInv, Rechecked, StillTrue,
             Sound, IsFull, Inv, WellFormed, FreshHeaders
        <4>. QED  BY <1>q, <4>2, <4>3
      <3>. QED  BY <3>1, <3>2
    <2>11. CASE NextRecheck(t)
      <3>0. UNCHANGED <<headerVars, memoryVars, historyVars, cur, idx>>
        BY <2>11 DEF NextRecheck
      <3>1. CASE next_locator_ptr[cur[t]] # NoHeader
        <4>1. pc[t] = "recheckNext" /\ pc' = [pc EXCEPT ![t] = "unlock"] /\ after' = [after EXCEPT ![t] = "follow"]
          BY <2>11, <3>1, Zenon DEF NextRecheck, UnlockThen
        <4>2. QuietStep
          BY <1>0, <3>0, <4>1 DEF QuietStep, LocksKept, ItemsKept, InLock, Owns
        <4>3. Rechecked'
          BY <1>i, <1>0, <3>0, <3>1, <4>1, HeaderAssumption DEF ChainInv, Rechecked, StillTrue,
             Sound, IsFull, Inv, WellFormed, FreshHeaders
        <4>. QED  BY <1>q, <4>2, <4>3
      <3>2. CASE next_locator_ptr[cur[t]] = NoHeader
        <4>1. pc[t] = "recheckNext" /\ pc' = [pc EXCEPT ![t] = "allocNext"] /\ after' = after
          BY <2>11, <3>2, Zenon DEF NextRecheck, UnlockThen
        <4>2. QuietStep
          BY <1>0, <3>0, <4>1 DEF QuietStep, LocksKept, ItemsKept, InLock, Owns
        <4>3. Rechecked'
          BY <1>i, <1>0, <3>0, <3>2, <4>1, HeaderAssumption DEF ChainInv, Rechecked, StillTrue,
             Sound, IsFull, Inv, WellFormed, FreshHeaders
        <4>. QED  BY <1>q, <4>2, <4>3
      <3>. QED  BY <3>1, <3>2
    <2>12. CASE Crash(t)
      <3>1. ~Sound(cur[t])
        <4>1. next_locator_ptr[cur[t]] \notin Headers /\ pc[t] \in {"init", "fill", "follow"}
              => ~Sound(cur[t])
          BY <1>i DEF ChainInv, Inv, Initializing, Rechecked, StillTrue
        <4>2. ASSUME pc[t] = "scan", idx[t] < final[t], Sound(cur[t])
              PROVE  idx[t] \in Slots
          <5>1. num_items[cur[t]] <= MaxItemCount
            BY <1>i, <1>0, <4>2 DEF ChainInv, Inv, FreshHeaders, WellFormed
          <5>2. final[t] <= num_items[cur[t]]
            BY <1>i, <4>2 DEF Inv, Owning, SlotOf
          <5>. QED  BY <1>0, <4>2, <5>1, <5>2 DEF Slots
        <4>3. pc[t] = "allocate" /\ num_items[cur[t]] \notin Slots => ~Sound(cur[t])
          BY <1>0 DEF ChainInv, Rechecked, StillTrue, IsFull, Slots
        <4>. QED  BY <2>12, <4>1, <4>2, <4>3 DEF Crash, MemoryError
      <3>2. QuietStep
        BY <1>0, <2>12, <3>1
        DEF Crash, MemoryError, QuietStep, LocksKept, ItemsKept, InLock, Owns
      <3>3. Rechecked'
        BY <1>0, <2>12 DEF Crash, ChainInv, Rechecked, StillTrue, Sound, IsFull
      <3>. QED  BY <1>q, <3>2, <3>3
    <2>13. ASSUME NEW base \in 1 .. UsizeMax, AllocateItem(t, base) PROVE ChainInv'
      <3>1. QuietStep
        BY <1>0, <2>13 DEF AllocateItem, QuietStep, LocksKept, ItemsKept, InLock, Owns
      <3>2. Rechecked'
        BY <1>0, <2>13 DEF AllocateItem, ChainInv, Rechecked, StillTrue, Sound, IsFull
      <3>. QED  BY <1>q, <3>1, <3>2
    <2> USE DEF ChainInv, Inv, LockFlag, HalfInitialized, WellFormed, Rechecked, StillTrue, Linked, Taken,
            FreshHeaders, Links, Initializing, Locking, Owning, SlotOf, ExclusiveUse,
            Sound, Owns, InLock, IsFull, Published
    <2>14. CASE LockForAllocation(t)
      <3>1. LockFlag'
        BY <1>i, <1>0, <2>14, HeaderAssumption DEF LockForAllocation, Lock
      <3>2. HalfInitialized'
        BY <1>i, <1>0, <2>14, HeaderAssumption DEF LockForAllocation, Lock
      <3>3. WellFormed'
        BY <1>i, <1>0, <2>14, HeaderAssumption DEF LockForAllocation, Lock
      <3>4. Rechecked'
        BY <1>i, <1>0, <2>14, HeaderAssumption DEF LockForAllocation, Lock
      <3>5. Linked'
        BY <1>i, <1>0, <2>14, HeaderAssumption DEF LockForAllocation, Lock
      <3>6. Taken'
        BY <1>i, <1>0, <2>14, HeaderAssumption DEF LockForAllocation, Lock
      <3>. QED  BY <1>i, <3>1, <3>2, <3>3, <3>4, <3>5, <3>6
    <2>15. CASE LockForNext(t)
      <3>1. LockFlag'
        BY <1>i, <1>0, <2>15, HeaderAssumption DEF LockForNext, Lock
      <3>2. HalfInitialized'
        BY <1>i, <1>0, <2>15, HeaderAssumption DEF LockForNext, Lock
      <3>3. WellFormed'
        BY <1>i, <1>0, <2>15, HeaderAssumption DEF LockForNext, Lock
      <3>4. Rechecked'
        BY <1>i, <1>0, <2>15, HeaderAssumption DEF LockForNext, Lock
      <3>5. Linked'
        BY <1>i, <1>0, <2>15, HeaderAssumption DEF LockForNext, Lock
      <3>6. Taken'
        BY <1>i, <1>0, <2>15, HeaderAssumption DEF LockForNext, Lock
      <3>. QED  BY <1>i, <3>1, <3>2, <3>3, <3>4, <3>5, <3>6
    <2>16. CASE Unlock(t)
      <3>1. LockFlag'
        BY <1>i, <1>0, <2>16, HeaderAssumption DEF Unlock
      <3>2. HalfInitialized'
        BY <1>i, <1>0, <2>16, HeaderAssumption DEF Unlock
      <3>3. WellFormed'
        BY <1>i, <1>0, <2>16, HeaderAssumption DEF Unlock
      <3>4. Rechecked'
        BY <1>i, <1>0, <2>16, HeaderAssumption DEF Unlock
      <3>5. Linked'
        BY <1>i, <1>0, <2>16, HeaderAssumption DEF Unlock
      <3>6. Taken'
        BY <1>i, <1>0, <2>16, HeaderAssumption, SMTT(60) DEF Unlock
      <3>. QED  BY <1>i, <3>1, <3>2, <3>3, <3>4, <3>5, <3>6
    <2>17. CASE AllocationPanics(t)
      <3>1. LockFlag'
        BY <1>i, <1>0, <2>17, HeaderAssumption DEF AllocationPanics, Return
      <3>2. HalfInitialized'
        BY <1>i, <1>0, <2>17, HeaderAssumption DEF AllocationPanics, Return
      <3>3. WellFormed'
        BY <1>i, <1>0, <2>17, HeaderAssumption DEF AllocationPanics, Return
      <3>4. Rechecked'
        BY <1>i, <1>0, <2>17, HeaderAssumption DEF AllocationPanics, Return
      <3>5. Linked'
        BY <1>i, <1>0, <2>17, HeaderAssumption DEF AllocationPanics, Return
      <3>6. Taken'
        <4>1. ItemsKept
          BY <1>0, <2>17 DEF AllocationPanics, Return, ItemsKept
        <4>. QED  BY <4>1, ItemsKeptKeeps
      <3>. QED  BY <1>i, <3>1, <3>2, <3>3, <3>4, <3>5, <3>6
    <2>18. CASE TryLockItem(t)
      <3>1. LockFlag'
        <4>1. pc' = [pc EXCEPT ![t] = "align"] \/ pc' = [pc EXCEPT ![t] = "scan"]
          BY <2>18, Zenon DEF TryLockItem
        <4>2. pc[t] = "trylock" /\ UNCHANGED <<is_locked, ready, premature, abandoned, cur>>
          BY <2>18 DEF TryLockItem
        <4>3. LocksKept
          BY <1>0, <4>1, <4>2 DEF LocksKept
        <4>. QED  BY <4>3, LocksKeptKeeps
      <3>2. HalfInitialized'
        BY <1>i, <1>0, <2>18, HeaderAssumption DEF TryLockItem
      <3>3. WellFormed'
        BY <1>i, <1>0, <2>18, HeaderAssumption DEF TryLockItem
      <3>4. Rechecked'
        BY <1>i, <1>0, <2>18, HeaderAssumption DEF TryLockItem
      <3>5. Linked'
        BY <1>i, <1>0, <2>18, HeaderAssumption DEF TryLockItem
      <3>6. Taken'
        <4>1. UNCHANGED <<num_items, ready, premature, cur, after>>
          BY <2>18 DEF TryLockItem
        <4>2. CASE is_taken[cur[t]][idx[t]] = 0
          <5>1. pc[t] = "trylock" /\ pc' = [pc EXCEPT ![t] = "align"] /\ idx' = idx
            BY <2>18, <4>2, Zenon DEF TryLockItem
          <5>2. is_taken' = [is_taken EXCEPT ![cur[t]][idx[t]] = 1]
            BY <2>18 DEF TryLockItem
          <5>3. ASSUME NEW h \in Headers, NEW i \in Slots, ~(h = cur[t] /\ i = idx[t])
                PROVE  is_taken'[h][i] = is_taken[h][i]
            <6>1. is_taken[h] \in [Slots -> 0..1]
              BY <1>0
            <6>2. CASE h = cur[t]
              BY <1>0, <5>2, <5>3, <6>1, <6>2
            <6>3. CASE h # cur[t]
              BY <1>0, <5>2, <6>3
            <6>. QED  BY <6>2, <6>3
          <5>4. Owns(t)' /\ \A u \in Threads : Owns(u) => Owns(u)'
            BY <1>0, <4>1, <5>1
          <5>. QED  BY <1>0, <4>1, <5>1, <5>3, <5>4, SMTT(60)
        <4>3. CASE is_taken[cur[t]][idx[t]] # 0
          <5>1. is_taken' = is_taken
            BY <1>0, <2>18, <4>3 DEF TryLockItem
          <5>2. pc[t] = "trylock" /\ pc' = [pc EXCEPT ![t] = "scan"]
                /\ idx' = [idx EXCEPT ![t] = @ + 1]
            BY <2>18, <4>3, Zenon DEF TryLockItem
          <5>3. ItemsKept
            BY <1>0, <4>1, <5>1, <5>2 DEF ItemsKept
          <5>. QED  BY <5>3, ItemsKeptKeeps
        <4>. QED  BY <4>2, <4>3
      <3>. QED  BY <1>i, <3>1, <3>2, <3>3, <3>4, <3>5, <3>6
    <2>19. ASSUME NEW store \in {"fields", "is_taken", "num_items"}, PublishItem(t, store)
           PROVE  ChainInv'
      <3>0. UNCHANGED <<is_locked, next_locator_ptr, live, ready, premature, abandoned, cur, idx>>
        BY <2>19 DEF PublishItem
      <3>c. \/ num_items' = num_items
            \/ /\ \A h \in Headers : h # cur[t] => num_items'[h] = num_items[h]
               /\ Sound(cur[t]) => /\ num_items'[cur[t]] = num_items[cur[t]] + 1
                                   /\ num_items'[cur[t]] <= MaxItemCount
        <4>1. CASE store = "num_items"
          <5>1. Sound(cur[t]) => /\ num_items'[cur[t]] = num_items[cur[t]] + 1
                                 /\ num_items'[cur[t]] <= MaxItemCount
            BY <1>i, <2>19, <4>1, PublishCounts, Zenon
          <5>2. \A h \in Headers : h # cur[t] => num_items'[h] = num_items[h]
            BY <1>0, <2>19, <4>1 DEF PublishItem
          <5>. QED  BY <5>1, <5>2
        <4>2. CASE store # "num_items"
          BY <2>19, <4>2 DEF PublishItem
        <4>. QED  BY <4>1, <4>2
      <3>1. LockFlag'
        <4>1. LocksKept
          BY <1>0, <2>19 DEF PublishItem, UnlockThen, LocksKept
        <4>. QED  BY <4>1, LocksKeptKeeps
      <3>2. HalfInitialized'
        BY <1>i, <1>0, <2>19, HeaderAssumption DEF PublishItem, MayBecomeVisible, UnlockThen
      <3>3. WellFormed'
        <4>1. \A h \in ready : Sound(h) =>
                num_items'[h] >= num_items[h] /\ num_items'[h] <= MaxItemCount
          BY <1>0, <3>0, <3>c
        <4>. QED  BY <1>0, <3>0, <4>1, LayoutAssumption
      <3>4. Rechecked'
        <4> SUFFICES ASSUME NEW u \in Threads, Sound(cur[u]) PROVE StillTrue(u)'
          BY <3>0
        <4>1. num_items'[cur[u]] >= num_items[cur[u]]
          <5>1. cur[u] \in Headers /\ num_items[cur[u]] \in Nat
            BY <1>0
          <5>2. CASE cur[u] = cur[t]
            BY <3>c, <5>1, <5>2
          <5>3. CASE cur[u] # cur[t]
            BY <3>c, <5>1, <5>3
          <5>. QED  BY <5>2, <5>3
        <4>2. CASE u = t
          BY <1>0, <2>19, <3>0, <4>2 DEF PublishItem, UnlockThen
        <4>3. CASE u # t
          <5>1. pc'[u] = pc[u] /\ after'[u] = after[u]
            BY <1>0, <2>19, <4>3 DEF PublishItem, UnlockThen
          <5>2. pc[u] = "allocate" => cur[u] # cur[t]
            BY <1>i, <2>19, <4>3 DEF PublishItem
          <5>3. cur[u] # cur[t] => num_items'[cur[u]] = num_items[cur[u]]
            BY <1>0, <3>c
          <5>. QED  BY <1>0, <3>0, <4>1, <5>1, <5>2, <5>3
        <4>. QED  BY <4>2, <4>3
      <3>5. Linked'
        BY <1>i, <1>0, <2>19, HeaderAssumption DEF PublishItem, MayBecomeVisible, UnlockThen
      <3>6. Taken'
        <4>1. Owns(t)' /\ \A u \in Threads : Owns(u) => Owns(u)'
          BY <1>0, <2>19 DEF PublishItem, UnlockThen
        <4>2. ASSUME NEW h \in ready, Sound(h), NEW i \in Slots, i < num_items'[h],
                     is_taken'[h][i] = 1
              PROVE  \E u \in Threads : Owns(u) /\ cur[u] = h /\ idx[u] = i
          <5>1. CASE h = cur[t] /\ i = idx[t]
            BY <2>19, <5>1 DEF PublishItem
          <5>2. CASE ~(h = cur[t] /\ i = idx[t])
            <6>1. is_taken[h][i] = 1
              BY <1>0, <2>19, <4>2, <5>2 DEF PublishItem
            <6>2. i < num_items[h]
              <7>1. CASE h = cur[t]
                <8>1. idx[t] = num_items[cur[t]]
                  BY <1>i, <2>19, <4>2, <7>1 DEF PublishItem
                <8>2. num_items'[h] \in {num_items[h], num_items[h] + 1}
                  BY <1>0, <3>c, <4>2, <7>1
                <8>. QED  BY <1>0, <4>2, <5>2, <7>1, <8>1, <8>2 DEF Slots
              <7>2. CASE h # cur[t]
                BY <1>0, <3>c, <4>2, <7>2
              <7>. QED  BY <7>1, <7>2
            <6>. QED  BY <4>2, <6>1, <6>2
          <5>. QED  BY <5>1, <5>2
        <4>. QED  BY <3>0, <4>1, <4>2
      <3>. QED  BY <1>i, <3>1, <3>2, <3>3, <3>4, <3>5, <3>6
    <2>20. ASSUME NEW n \in Headers, NEW contents \in HeapContents, AllocateNext(t, n, contents)
           PROVE  ChainInv'
      <3>1. LockFlag'
        BY <1>i, <1>0, <2>20, HeaderAssumption DEF AllocateNext
      <3>2. HalfInitialized'
        BY <1>i, <1>0, <2>20, HeaderAssumption DEF AllocateNext
      <3>3. WellFormed'
        BY <1>i, <1>0, <2>20, HeaderAssumption DEF AllocateNext
      <3>4. Rechecked'
        BY <1>i, <1>0, <2>20, HeaderAssumption DEF AllocateNext
      <3>5. Linked'
        BY <1>i, <1>0, <2>20, HeaderAssumption, SMTT(60) DEF AllocateNext
      <3>6. Taken'
        <4>1. \A h \in ready : num_items'[h] = num_items[h] /\ is_taken'[h] = is_taken[h]
          BY <1>i, <1>0, <2>20 DEF AllocateNext
        <4>2. premature \subseteq premature' /\ UNCHANGED <<ready, cur, idx>>
          BY <2>20 DEF AllocateNext
        <4>3. \A u \in Threads : Owns(u) => Owns(u)'
          BY <1>0, <2>20 DEF AllocateNext
        <4>. QED  BY <4>1, <4>2, <4>3
      <3>. QED  BY <1>i, <3>1, <3>2, <3>3, <3>4, <3>5, <3>6
    <2>21. CASE SetDefaultValues(t)
      <3>1. LockFlag'
        BY <1>i, <1>0, <2>21, HeaderAssumption DEF SetDefaultValues
      <3>2. HalfInitialized'
        BY <1>i, <1>0, <2>21, HeaderAssumption DEF SetDefaultValues
      <3>3. WellFormed'
        BY <1>i, <1>0, <2>21, HeaderAssumption DEF SetDefaultValues
      <3>4. Rechecked'
        BY <1>i, <1>0, <2>21, HeaderAssumption DEF SetDefaultValues
      <3>5. Linked'
        BY <1>i, <1>0, <2>21, HeaderAssumption DEF SetDefaultValues
      <3>6. Taken'
        BY <1>i, <1>0, <2>21, HeaderAssumption, SMTT(60) DEF SetDefaultValues
      <3>. QED  BY <1>i, <3>1, <3>2, <3>3, <3>4, <3>5, <3>6
    <2>22. CASE InitializeRemainingSpaceAsBuffers(t)
      <3> DEFINE n == next_locator_ptr[cur[t]]
      <3>0. /\ n \in Headers
            /\ is_taken' = [is_taken EXCEPT ![n] = InitializedLocks(@)]
            /\ num_items' = [num_items EXCEPT ![n] = NumPreallocated]
            /\ ready' = ready \cup {n}
            /\ UNCHANGED <<next_locator_ptr, premature, cur, idx>>
        BY <2>22 DEF InitializeRemainingSpaceAsBuffers
      <3>1. LockFlag'
        BY <1>i, <1>0, <2>22, HeaderAssumption DEF InitializeRemainingSpaceAsBuffers, UnlockThen
      <3>2. HalfInitialized'
        BY <1>i, <1>0, <2>22, HeaderAssumption DEF InitializeRemainingSpaceAsBuffers, UnlockThen
      <3>3. WellFormed'
        <4>1. Sound(n) => next_locator_ptr[n] = NoHeader
          BY <2>22 DEF InitializeRemainingSpaceAsBuffers
        <4>2. num_items'[n] <= MaxItemCount
          BY <1>0, <3>0, LayoutAssumption
        <4>. QED  BY <1>0, <3>0, <4>1, <4>2, HeaderAssumption
      <3>4. Rechecked'
        BY <1>i, <1>0, <2>22, HeaderAssumption DEF InitializeRemainingSpaceAsBuffers, UnlockThen
      <3>5. Linked'
        BY <1>i, <1>0, <2>22, HeaderAssumption DEF InitializeRemainingSpaceAsBuffers, UnlockThen
      <3>6. Taken'
        <4>1. \A i \in Slots : i < num_items'[n] => is_taken'[n][i] = 0
          BY <1>0, <3>0 DEF InitializedLocks
        <4>2. \A h \in Headers \ {n} : num_items'[h] = num_items[h] /\ is_taken'[h] = is_taken[h]
          BY <1>0, <3>0
        <4>3. \A u \in Threads : Owns(u) => Owns(u)'
          BY <1>0, <2>22 DEF InitializeRemainingSpaceAsBuffers, UnlockThen
        <4>4. ASSUME NEW h \in ready', Sound(h), NEW i \in Slots, i < num_items'[h],
                     is_taken'[h][i] = 1
              PROVE  \E u \in Threads : Owns(u) /\ cur[u] = h /\ idx[u] = i
          <5>1. h # n /\ h \in ready
            BY <3>0, <4>1, <4>4
          <5>. QED  BY <1>0, <4>2, <4>4, <5>1
        <4>. QED  BY <3>0, <4>3, <4>4
      <3>. QED  BY <1>i, <3>1, <3>2, <3>3, <3>4, <3>5, <3>6
    <2>23. CASE Follow(t)
      <3>1. LockFlag'
        <4>1. LocksKept
          BY <1>0, <2>23 DEF Follow, LocksKept
        <4>. QED  BY <4>1, LocksKeptKeeps
      <3>2. HalfInitialized'
        BY <1>i, <1>0, <2>23, HeaderAssumption DEF Follow
      <3>3. WellFormed'
        BY <1>i, <1>0, <2>23, HeaderAssumption DEF Follow
      <3>4. Rechecked'
        BY <1>i, <1>0, <2>23, HeaderAssumption DEF Follow
      <3>5. Linked'
        BY <1>i, <1>0, <2>23, HeaderAssumption DEF Follow
      <3>6. Taken'
        <4>1. ItemsKept
          BY <1>0, <2>23 DEF Follow, ItemsKept
        <4>. QED  BY <4>1, ItemsKeptKeeps
      <3>. QED  BY <1>i, <3>1, <3>2, <3>3, <3>4, <3>5, <3>6
    <2>. QED
      BY <1>2, <2>1, <2>2, <2>3, <2>4, <2>5, <2>6, <2>7, <2>8, <2>9, <2>10, <2>11, <2>12,
         <2>13, <2>14, <2>15, <2>16, <2>17, <2>18, <2>19, <2>20, <2>21, <2>22, <2>23, ZenonT(60) DEF CallStep
  <1>3. ASSUME NEW t \in Threads, ClientStep(t) PROVE ChainInv'
    <2>1. ASSUME NEW r \in Requests, GetBuffer(t, r) PROVE ChainInv'
      <3>1. QuietStep
        BY <1>0, <2>1 DEF GetBuffer, QuietStep, LocksKept, ItemsKept, InLock, Owns
      <3>2. Rechecked'
        BY <1>0, <2>1 DEF GetBuffer, ChainInv, Rechecked, StillTrue, Sound, IsFull
      <3>. QED  BY <1>q, <3>1, <3>2
    <2>2. ASSUME NEW length \in 1 .. left[t], AppendBytes(t, length) \/ AppendCopy(t, length)
          PROVE  ChainInv'
      <3>1. QuietStep
        BY <2>2
        DEF AppendBytes, AppendCopy, Store, QuietStep, LocksKept, ItemsKept, InLock, Owns
      <3>2. Rechecked'
        BY <2>2
        DEF AppendBytes, AppendCopy, Store, ChainInv, Rechecked, StillTrue, Sound, IsFull
      <3>. QED  BY <1>q, <3>1, <3>2
    <2>3. CASE Drop(t)
      <3> USE DEF ChainInv, Inv, LockFlag, HalfInitialized, WellFormed, Rechecked, StillTrue, Linked, Taken,
            FreshHeaders, Links, Initializing, Locking, Owning, SlotOf, ExclusiveUse,
            Sound, Owns, InLock, IsFull, Published
      <3>1. LockFlag'
        BY <1>i, <1>0, <2>3, HeaderAssumption, SMTT(60) DEF Drop, Return
      <3>2. HalfInitialized'
        BY <1>i, <1>0, <2>3, HeaderAssumption DEF Drop, Return
      <3>3. WellFormed'
        BY <1>i, <1>0, <2>3, HeaderAssumption DEF Drop, Return
      <3>4. Rechecked'
        BY <1>i, <1>0, <2>3, HeaderAssumption DEF Drop, Return
      <3>5. Linked'
        BY <1>i, <1>0, <2>3, HeaderAssumption DEF Drop, Return
      <3>6. Taken'
        BY <1>i, <1>0, <2>3, HeaderAssumption DEF Drop, Return
      <3>. QED  BY <1>i, <3>1, <3>2, <3>3, <3>4, <3>5, <3>6
    <2>. QED  BY <1>3, <2>1, <2>2, <2>3 DEF ClientStep
  <1>4. CASE Crashed \/ \E t \in Threads : Spin(t)
    BY <1>1, <1>4 DEF Crashed, Spin
  <1>. QED  BY <1>1, <1>2, <1>3, <1>4 DEF Next

-----------------------------------------------------------------------------
\* The theorems

\* The spin lock of a header excludes, for any number of threads: lock()'s
\* compare_exchange lets one thread in, unlock() finds the flag up, every path out of
\* try_allocate_item and get_next_locator takes the flag down again, and a panic of
\* allocate, which does not, locks out everybody.
THEOREM LockExcludes ==
  ASSUME StoresInOrder
  PROVE  Spec => []HeaderLockExcludes
  <1>1. ChainInv => HeaderLockExcludes
    <2> SUFFICES ASSUME ChainInv, NEW h \in ready, Sound(h)
                 PROVE  LET inside == {t \in Threads : InLock(t) /\ cur[t] = h}
                        IN  /\ Cardinality(inside) <= 1
                            /\ is_locked[h] = 1 <=> inside # {} \/ h \in abandoned
                            /\ h \in abandoned => inside = {}
      BY DEF HeaderLockExcludes
    <2> DEFINE inside == {t \in Threads : InLock(t) /\ cur[t] = h}
    <2>1. Cardinality(inside) <= 1
      <3>1. CASE inside = {}
        BY <3>1, FS_EmptySet
      <3>2. CASE inside # {}
        <4>1. PICK t \in inside : TRUE
          BY <3>2
        <4>2. inside = {t}
          BY <4>1 DEF ChainInv, Inv, Locking
        <4>3. Cardinality({t}) = 1
          BY FS_Singleton
        <4>. QED  BY <4>2, <4>3
      <3>. QED  BY <3>1, <3>2
    <2>2. is_locked[h] = 1 <=> inside # {} \/ h \in abandoned
      BY DEF ChainInv, Inv, Locking, LockFlag
    <2>3. h \in abandoned => inside = {}
      BY DEF ChainInv, LockFlag
    <2>. QED  BY <2>1, <2>2, <2>3
  <1>. QED  BY <1>1, InitChain, NextChain, PTL DEF Spec

\* No thread follows a null pointer or leaves the item array of a header that was
\* initialised before it was entered: the checks of try_allocate_item and
\* get_next_locator, repeated under the lock, suffice with any number of threads.
THEOREM MemorySafe ==
  ASSUME StoresInOrder
  PROVE  Spec => []NoMemoryError
  <1>1. ChainInv => NoMemoryError
    <2> SUFFICES ASSUME ChainInv, NEW t \in Threads, Sound(cur[t])
                 PROVE  ~MemoryError(t)
      BY DEF NoMemoryError
    <2>0. /\ num_items[cur[t]] \in Nat /\ idx[t] \in Nat /\ final[t] \in Nat
          /\ MaxItemCount \in Nat /\ cur[t] \in ready
      <3>1. 0 .. U8 - 1 \subseteq Nat
        BY DEF U8
      <3>. QED  BY <3>1, LayoutAssumption DEF ChainInv, Inv, TypeOK, FreshHeaders
    <2>1. pc[t] \in {"init", "fill", "follow"} => next_locator_ptr[cur[t]] \in Headers
      BY DEF ChainInv, Inv, Initializing, Rechecked, StillTrue
    <2>2. pc[t] = "scan" /\ idx[t] < final[t] => idx[t] \in Slots
      <3>1. num_items[cur[t]] <= MaxItemCount
        BY <2>0 DEF ChainInv, WellFormed
      <3>2. pc[t] = "scan" => final[t] <= num_items[cur[t]]
        BY DEF ChainInv, Inv, Owning, SlotOf
      <3>. QED  BY <2>0, <3>1, <3>2 DEF Slots
    <2>3. pc[t] = "allocate" => num_items[cur[t]] \in Slots
      BY <2>0 DEF ChainInv, Rechecked, StillTrue, IsFull, Slots
    <2>. QED  BY <2>1, <2>2, <2>3 DEF MemoryError
  <1>. QED  BY <1>1, InitChain, NextChain, PTL DEF Spec

\* get_next_locator loses no header and appends one only behind a full one, however
\* many callers race for the end of the chain.
THEOREM ChainIsComplete ==
  ASSUME StoresInOrder
  PROVE  Spec => []ChainComplete
  <1>1. ChainInv => ChainComplete
    BY DEF ChainInv, Linked, WellFormed, ChainComplete, Sound
  <1>. QED  BY <1>1, InitChain, NextChain, PTL DEF Spec

\* The invariant says so.
LEMMA ChainTaken == ChainInv => TakenIffOwned
  <1> SUFFICES ASSUME ChainInv, NEW h \in ready, Sound(h), NEW i \in Published(h)
               PROVE  is_taken[h][i] = 1
                        <=> \E t \in Threads : Owns(t) /\ cur[t] = h /\ idx[t] = i
    BY DEF TakenIffOwned
  <1>1. is_taken[h][i] = 1 => \E t \in Threads : Owns(t) /\ cur[t] = h /\ idx[t] = i
    BY DEF ChainInv, Taken
  <1>2. ASSUME NEW t \in Threads, Owns(t), cur[t] = h, idx[t] = i
        PROVE  is_taken[h][i] = 1
    <2>1. num_items[h] \in 0 .. U8 - 1
      BY DEF ChainInv, Inv, TypeOK
    <2>2. pc[t] # "publish"
      BY <1>2, <2>1 DEF ChainInv, Inv, Owning, SlotOf, Published, U8
    <2>. QED  BY <1>2, <2>2 DEF ChainInv, Inv, Owning, SlotOf
  <1>. QED  BY <1>1, <1>2

\* A published item is locked exactly while it has an owner: neither a failed
\* try_lock nor the drop of another item leaves one locked for good or frees one that
\* is in use.
THEOREM TakenWhileOwned ==
  ASSUME StoresInOrder
  PROVE  Spec => []TakenIffOwned
  BY ChainTaken, InitChain, NextChain, PTL DEF Spec
=============================================================================
