------------------------------- MODULE MCCodeMemory ------------------------------
(***************************************************************************)
(* A buffer of four bytes on one page, or on two.                          *)
(***************************************************************************)
EXTENDS CodeMemory, TLC

CONSTANTS t1, t2

\* Addresses behind the buffer, and in front of it.
Behind == {Base + Length}
InFront == {1}

Symmetry == Permutations({t1, t2})
=============================================================================
