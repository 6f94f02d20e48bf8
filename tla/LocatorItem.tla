------------------------------- MODULE LocatorItem -------------------------------
(***************************************************************************)
(* One buffer as a locator records it (structs/internal/locator_item.rs):  *)
(* where it is, how long it is and how much of it is used.  The item's     *)
(* lock, the atomic is_taken, is state of LocatorHeader.                   *)
(***************************************************************************)
EXTENDS AddressMath

NewItem(base, size) == [base |-> base, size |-> size, position |-> 0]

\* u32 subtraction, which wraps around in a release build.
BytesLeft(item) == (item.size - item.position) % U32

IsAllocated(item) == item.base # 0

\* [Mutant] tests the total size instead of what is left.
CanUseBySize(item, size, min, max) ==
  /\ IsAllocated(item)
  /\ item.size >= size
  /\ item.base + item.position >= min
  /\ AddWithOverflowCap(item.base, item.size) <= max

\* [Mutant] tests that the item starts, not that it ends, below max.
CanUseByBase(item, size, min, max) ==
  /\ IsAllocated(item)
  /\ BytesLeft(item) >= size
  /\ item.base + item.position >= min
  /\ item.base <= max

CanUse(item, size, min, max) ==
  /\ IsAllocated(item)
  /\ BytesLeft(item) >= size
  /\ item.base + item.position >= min
  /\ AddWithOverflowCap(item.base, item.size) <= max

\* Where the next byte of the item is written.
WriteAddress(item) == item.base + item.position

\* [Mutant] leaves no room for aligning.
SearchSizeUnpadded(size, alignment) == size % U32

\* buffers.rs, get_buffer_aligned: the size searched for leaves room for the
\* worst misalignment (u32 addition), and the position is then moved up.
SearchSize(size, alignment) == (size + Larger(alignment - 1, 0)) % U32

\* [Mutant] aligns the position instead of the address.
AlignedPosition(item, alignment) ==
  [item EXCEPT !.position = RoundUp(@, alignment)]

AlignedItem(item, alignment) ==
  [item EXCEPT !.position =
     (@ + RoundUp(WriteAddress(item), alignment) - WriteAddress(item)) % U32]

\* [Mutant] the position is not moved.
AppendedInPlace(item, length) == item

\* append_bytes, append_code, append_copy: the position moves past the data.
AppendedItem(item, length) == [item EXCEPT !.position = (@ + length) % U32]
=============================================================================
