-------------------------------- MODULE BuffersC ---------------------------------
(***************************************************************************)
(* The C API of the shared buffers: c/buffers_c_buffers.rs (get, free) and *)
(* c/buffers_c_locatoritem.rs, on top of LocatorHeader.                    *)
(*                                                                         *)
(* A call hands out a result that owns either the item's lock or an error  *)
(* string.  The item pointer in it stays valid for ever, so a client may   *)
(* unlock the item and lock it again later through the same pointer,       *)
(* without a search.  A Rust client is a client that does not.             *)
(***************************************************************************)
EXTENDS LocatorHeader

VARIABLES
  result,     \* what a thread holds: "none", "ok", "err", "relocked"
  kept        \* the item pointer of its last ok result, or NoItem

cVars == <<result, kept>>

NoItem == <<NoHeader, 0>>

\* The requirements of a client that has stated none.
AnyRequest == [size |-> 0, align |-> 0, min |-> 0, max |-> UsizeMax]

InitC ==
  /\ Init
  /\ result = [t \in Threads |-> "none"]
  /\ kept = [t \in Threads |-> NoItem]

Becomes(t, what) == result' = [result EXCEPT ![t] = what]

-----------------------------------------------------------------------------
\* buffers_get_buffer and buffers_get_buffer_aligned

BuffersGetBuffer(t, r) ==
  /\ result[t] = "none"
  /\ GetBuffer(t, r)
  /\ UNCHANGED cVars

\* The thread is about to return an item or an error.
Returning(t) == pc[t] = "align" \/ (pc[t] = "unlock" /\ after[t] = "idle")

\* Any step on the way.  A panic of allocate gives no result: it reaches a Rust
\* client that unwinds; it may not leave an extern "C" function, and a process
\* aborted there takes no further step.
BuffersGetBufferStep(t) ==
  /\ CallStep(t)
  /\ ~Returning(t)
  /\ UNCHANGED cVars

\* Ok: the item escapes, and mem::forget keeps it from being dropped.
GetBufferOk(t) ==
  /\ Align(t)
  /\ Becomes(t, "ok")
  /\ kept' = [kept EXCEPT ![t] = <<cur[t], idx[t]>>]

\* Err: an error string is allocated.
GetBufferErr(t) ==
  /\ after[t] = "idle"
  /\ Unlock(t)
  /\ Becomes(t, "err")
  /\ UNCHANGED kept

-----------------------------------------------------------------------------
\* Using and freeing a result

LocatorItemAppendBytes(t, length) == AppendBytes(t, length) /\ UNCHANGED cVars

\* LocatorItem::unlock, all that the forgotten drop would have done.
FreeLocatorItem(t) ==
  /\ Drop(t)
  /\ Becomes(t, "none")
  /\ UNCHANGED kept

FreeString(t) ==
  /\ Becomes(t, "none")
  /\ UNCHANGED <<vars, kept>>

FreeGetBufferResult(t) ==
  /\ result[t] \in {"ok", "err"}
  /\ IF result[t] = "ok" THEN FreeLocatorItem(t) ELSE FreeString(t)

\* locatoritem_unlock, or free_locator_item on an item locked again.
LocatorItemUnlock(t) == result[t] = "relocked" /\ FreeLocatorItem(t)

\* [Mutant] takes the lock of an item that is in use.
TryLockAnyway(t) ==
  /\ pc[t] = "idle" /\ result[t] = "none" /\ kept[t] # NoItem
  /\ is_taken' = [is_taken EXCEPT ![kept[t][1]][kept[t][2]] = 1]
  /\ cur' = [cur EXCEPT ![t] = kept[t][1]]
  /\ idx' = [idx EXCEPT ![t] = kept[t][2]]
  /\ req' = [req EXCEPT ![t] = AnyRequest]
  /\ Goto(t, "owned")
  /\ Becomes(t, "relocked")
  /\ UNCHANGED <<num_items, is_locked, next_locator_ptr, item, memoryVars,
                 historyVars, final, mem, todo, after, left, kept>>

\* locatoritem_try_lock that succeeds, and the last round of locatoritem_lock; a
\* round that fails swaps 1 for 1.
LocatorItemTryLock(t) ==
  /\ pc[t] = "idle" /\ result[t] = "none" /\ kept[t] # NoItem
  /\ is_taken[kept[t][1]][kept[t][2]] = 0
  /\ is_taken' = [is_taken EXCEPT ![kept[t][1]][kept[t][2]] = 1]
  /\ cur' = [cur EXCEPT ![t] = kept[t][1]]
  /\ idx' = [idx EXCEPT ![t] = kept[t][2]]
  /\ req' = [req EXCEPT ![t] = AnyRequest]
  /\ Goto(t, "owned")
  /\ Becomes(t, "relocked")
  /\ UNCHANGED <<num_items, is_locked, next_locator_ptr, item, memoryVars,
                 historyVars, final, mem, todo, after, left, kept>>

\* The holder of a lock taken again asks locatoritem_can_use whether the item
\* still suits a request, which no scan has checked.
LocatorItemCanUse(t, r) ==
  /\ result[t] = "relocked" /\ left[t] = 0
  /\ CanUse(item[cur[t]][idx[t]], r.size, r.min, r.max)
  /\ req' = [req EXCEPT ![t] = [r EXCEPT !.align = 0]]
  /\ left' = [left EXCEPT ![t] = r.size]
  /\ UNCHANGED <<headerVars, memoryVars, historyVars,
                 pc, cur, idx, final, mem, todo, after, cVars>>

-----------------------------------------------------------------------------
ClientStepC(t) ==
  \/ \E r \in Requests : BuffersGetBuffer(t, r)
  \/ \E r \in Requests : LocatorItemCanUse(t, r)
  \/ \E length \in 1 .. left[t] : LocatorItemAppendBytes(t, length)
  \/ FreeGetBufferResult(t)
  \/ LocatorItemUnlock(t)
  \/ LocatorItemTryLock(t)

NextC ==
  \E t \in Threads :
    \/ BuffersGetBufferStep(t)
    \/ GetBufferOk(t)
    \/ GetBufferErr(t)
    \/ ClientStepC(t)

SpecC == InitC /\ [][NextC]_<<vars, cVars>>

-----------------------------------------------------------------------------
\* What locatoritem_can_use says under the item's lock holds until the item is
\* unlocked, whatever the scans of other threads do to it meanwhile: unlike the
\* unlocked can_use of get_buffer it cannot be out of date.  (An item that a scan
\* had filled past its end is beyond help.)
CheckedUnderLock ==
  \A t \in Threads : result[t] = "relocked" /\ Sound(cur[t]) =>
    LET i == item[cur[t]][idx[t]]
    IN  i.position <= i.size => i.position + left[t] <= i.size
=============================================================================
