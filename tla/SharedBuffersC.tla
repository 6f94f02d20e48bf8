----------------------------- MODULE SharedBuffersC ------------------------------
(***************************************************************************)
(* How the headers and items of LocatorHeader, used through the C API or   *)
(* not, are the shared buffers of SharedBuffers: the refinement mapping.   *)
(***************************************************************************)
EXTENDS BuffersC

CONSTANTS Unused, Nobody    \* of SharedBuffers

\* A record of a buffer as SharedBuffers knows it.
BufferType == [base : 0 .. UsizeMax, size : 0 .. U32 - 1, used : 0 .. U32 - 1]

ASSUME MarkAssumption == Unused \notin BufferType /\ Nobody \notin Threads

Names == Headers \X Slots

\* A slot is a buffer once its header is initialised and num_items covers it.
BufferOf(n) ==
  LET i == item[n[1]][n[2]]
  IN  IF n[1] \in ready /\ n[2] < num_items[n[1]]
        THEN [base |-> i.base, size |-> i.size, used |-> i.position]
        ELSE Unused

\* The owner of a slot is the thread whose get_buffer ends with it; the creator
\* of an item becomes its owner when it publishes it.
OwnerOf(n) ==
  LET holders == {t \in Threads : Owns(t) /\ pc[t] # "publish" /\ <<cur[t], idx[t]>> = n}
  IN  IF holders = {} THEN Nobody ELSE CHOOSE t \in holders : TRUE

Shared == INSTANCE SharedBuffers
            WITH Users  <- Threads,
                 buffer <- [n \in Names |-> BufferOf(n)],
                 owner  <- [n \in Names |-> OwnerOf(n)]

\* The concurrent implementation, C API included, does to the buffers only what
\* SharedBuffers allows, in the order it allows it.
ImplementsSharedBuffers == Shared!BuffersSpec
=============================================================================
