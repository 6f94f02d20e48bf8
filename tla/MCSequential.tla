------------------------------ MODULE MCSequential -------------------------------
(***************************************************************************)
(* One thread on one header with preallocated chunks: what a client is     *)
(* promised, with nobody to interfere.                                     *)
(***************************************************************************)
EXTENDS LocatorHeader

CONSTANTS t1, h0

MCHeaderAddress == [h \in Headers |-> 8]

MCRequests == {[size |-> 1, align |-> 0, min |-> 0, max |-> 40],
               [size |-> 2, align |-> 4, min |-> 0, max |-> 40]}
=============================================================================
