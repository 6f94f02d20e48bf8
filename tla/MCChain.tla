-------------------------------- MODULE MCChain ----------------------------------
(***************************************************************************)
(* Two threads on a chain of up to three headers.                          *)
(***************************************************************************)
EXTENDS LocatorHeader, TLC

CONSTANTS t1, t2, h0, h1, h2

MCHeaderAddress ==
  [h \in Headers |-> CASE h = h0 -> 2 [] h = h1 -> 4 [] h = h2 -> 6]

\* With three headers there is room for one block below it.
MCTop == 10

MCRequests == {[size |-> 1, align |-> 0, min |-> 0, max |-> MCTop]}

MCTwoRequests == MCRequests \cup {[size |-> 2, align |-> 0, min |-> 0, max |-> MCTop]}

\* What the block of a new header may hold: zeros, or bytes left over from
\* other use that read as a full, locked header with a dangling link.
Zeroed == [num_items |-> 0, is_locked |-> 0, next_locator_ptr |-> NoHeader,
           item |-> [i \in Slots |-> Zero], is_taken |-> [i \in Slots |-> 0]]

Recycled == [num_items |-> MaxItemCount, is_locked |-> 1, next_locator_ptr |-> Wild,
             item |-> [i \in Slots |-> Zero], is_taken |-> [i \in Slots |-> 0]]

MCHeapContents == {Zeroed, Recycled}

MCZeroedHeap == {Zeroed}

Symmetry == Permutations({t1, t2})
=============================================================================
