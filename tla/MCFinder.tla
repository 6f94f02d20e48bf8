------------------------------- MODULE MCFinder ----------------------------------
(***************************************************************************)
(* Instances of LocatorHeaderFinder with two copies of the library.        *)
(***************************************************************************)
EXTENDS LocatorHeaderFinder

CONSTANTS t1, t2, t3, a1, a2, a3, f1, f2, c1, c2

\* t1 and t2 call the same copy, t3 another.
TwoCopies == [t \in Threads |-> IF t = t3 THEN c2 ELSE c1]
=============================================================================
