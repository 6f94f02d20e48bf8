------------------------------- MODULE MCBuffersC --------------------------------
(***************************************************************************)
(* Two clients of one header with a preallocated chunk at an odd address.  *)
(* Its buffers implement SharedBuffers (see SharedBuffersC).               *)
(***************************************************************************)
EXTENDS SharedBuffersC, TLC

CONSTANTS t1, t2, h0

MCHeaderAddress == [h \in Headers |-> 4]

MCRequests == {[size |-> 2, align |-> 0, min |-> 0, max |-> 16],
               [size |-> 1, align |-> 2, min |-> 5, max |-> 12]}

Symmetry == Permutations({t1, t2})
=============================================================================
