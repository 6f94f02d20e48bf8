------------------------------ MODULE SharedBuffers ------------------------------
(***************************************************************************)
(* What the library promises its users, with no headers, locks or scans:   *)
(* a growing collection of disjoint buffers that never move, each used by  *)
(* at most one user at a time, who alone moves its write position, and     *)
(* only forward.                                                           *)
(***************************************************************************)
EXTENDS Integers

CONSTANTS Users,      \* the threads that call the library
          Names,      \* names buffers can have
          Unused,     \* marks a name that has no buffer yet
          Nobody      \* owner of a buffer that is free

VARIABLES buffer,     \* by name: [base, size, used], or Unused
          owner       \* by name: the user holding it, or Nobody

bufferVars == <<buffer, owner>>

Known == {n \in Names : buffer[n] # Unused}

Bytes(b) == b.base .. (b.base + b.size - 1)

\* A buffer overlapping none of the known ones.
IsFresh(b) == \A n \in Known : Bytes(b) \cap Bytes(buffer[n]) = {}

BuffersInit ==
  /\ owner = [n \in Names |-> Nobody]
  /\ \A n \in Known : buffer[n].used = 0
  /\ \A m, n \in Known : m # n => Bytes(buffer[m]) \cap Bytes(buffer[n]) = {}

\* A user gets a buffer made for it.
Create(u, n) ==
  /\ buffer[n] = Unused
  /\ buffer'[n] # Unused
  /\ IsFresh(buffer'[n])
  /\ buffer'[n].used = 0
  /\ buffer' = [buffer EXCEPT ![n] = buffer'[n]]
  /\ owner' = [owner EXCEPT ![n] = u]

\* A buffer comes with the block of a new header, for whoever takes it first.
Provide(n) ==
  /\ buffer[n] = Unused
  /\ buffer'[n] # Unused
  /\ IsFresh(buffer'[n])
  /\ buffer'[n].used = 0
  /\ buffer' = [buffer EXCEPT ![n] = buffer'[n]]
  /\ UNCHANGED owner

\* A user gets a buffer that is there and free.
Acquire(u, n) ==
  /\ n \in Known
  /\ owner[n] = Nobody
  /\ owner' = [owner EXCEPT ![n] = u]
  /\ UNCHANGED buffer

\* Its owner appends to it or aligns it.
Advance(n) ==
  /\ n \in Known
  /\ owner[n] # Nobody
  /\ buffer'[n].used > buffer[n].used
  /\ buffer' = [buffer EXCEPT ![n].used = buffer'[n].used]
  /\ UNCHANGED owner

Release(n) ==
  /\ owner[n] # Nobody
  /\ owner' = [owner EXCEPT ![n] = Nobody]
  /\ UNCHANGED buffer

BuffersNext ==
  \E n \in Names :
    \/ \E u \in Users : Create(u, n) \/ Acquire(u, n)
    \/ Provide(n)
    \/ Advance(n)
    \/ Release(n)

BuffersSpec == BuffersInit /\ [][BuffersNext]_bufferVars
=============================================================================
