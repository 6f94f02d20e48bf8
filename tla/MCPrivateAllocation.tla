---------------------------- MODULE MCPrivateAllocation --------------------------
(***************************************************************************)
(* A user memory of seven two-byte pages, any of them mapped at the start; *)
(* Windows allocates in units of two pages.                                *)
(***************************************************************************)
EXTENDS PrivateAllocation

\* BufferAllocatorSettings::from_proximity, which saturates at both ends of the
\* address space.
Near(size, proximity, target, brute) ==
  LET range == FromProximity(proximity, target)
  IN  [size |-> size, min |-> range.start, max |-> range.end, brute_force |-> brute]

\* The last one is so long that rounding it up truncates it to 0.
MCRequests == {Near(1, 9, 7, FALSE),
               Near(3, 5, 7, TRUE),
               [size |-> 2, min |-> 5, max |-> 9, brute_force |-> TRUE],
               [size |-> U32 - 1, min |-> 0, max |-> UsizeMax, brute_force |-> FALSE]}
=============================================================================
