----------------------------- MODULE PrivateAllocation ---------------------------
(***************************************************************************)
(* Private memory: Buffers::allocate_private_memory (buffers.rs), the      *)
(* PrivateAllocation that owns the block until it is dropped               *)
(* (structs/private_allocation.rs), and the same through the C API, where  *)
(* the caller gets an AllocationResult and frees it                        *)
(* (c/buffers_c_buffers.rs), on top of the three systems' allocators.      *)
(***************************************************************************)
EXTENDS BufferAllocatorLinux, BufferAllocatorWindows, BufferAllocatorOsx

CONSTANTS ThisProcess,  \* sys_info.this_process_id, the target of every request
          MaxHeld       \* bound on allocations and error results not yet freed

ASSUME PrivateAssumption == ThisProcess \in Nat \ {0} /\ MaxHeld \in Nat

VARIABLES held,     \* PrivateAllocations of the client
          errors    \* AllocationResults with an error string, not yet freed

allocVars == <<os, memory, call, history, held, errors>>

NewAllocation(base, size, process_id) ==
  [base_address |-> base, size |-> size, process_id |-> process_id]

\* PrivateAllocation::null
NullAllocation == NewAllocation(0, 0, 0)

Init == AllocInit /\ held = {} /\ errors = 0

\* allocate_private_memory, buffers_allocate_private_memory
AllocatePrivateMemory(r) ==
  /\ Cardinality(held) + errors < MaxHeld
  /\ Allocate(r)
  /\ UNCHANGED <<held, errors>>

\* The result becomes a PrivateAllocation.  In C it is read out of its
\* ManuallyDrop, so returning does not free it.
ReturnAllocation ==
  /\ call.at = "ok"
  /\ call.result # 0
  /\ held' = held \cup {NewAllocation(call.result, call.size, ThisProcess)}
  /\ call' = NoCall
  /\ UNCHANGED <<os, memory, history, errors>>

\* NonNull::new(0).unwrap() panics.
ReturnNull ==
  /\ call.at = "ok"
  /\ call.result = 0
  /\ call' = NoCall
  /\ UNCHANGED <<os, memory, history, held, errors>>

\* The error is returned; C gets a result with a null allocation and a string.
ReturnError ==
  /\ call.at = "error"
  /\ call' = NoCall
  /\ errors' \in {errors, errors + 1}
  /\ UNCHANGED <<os, memory, history, held>>

\* [Mutant] one page too many is unmapped.
DropTooMuch(a) ==
  IF a.base_address # 0 /\ (os = "windows" \/ a.process_id = ThisProcess)
    THEN Unmap(PagesOf(a.base_address, a.size + PageSize))
    ELSE UNCHANGED memory

\* Drop for PrivateAllocation: VirtualFree of the whole reservation (null is
\* refused), and munmap or mach_vm_deallocate if the block is this process's.
DropAllocation(a) ==
  IF a.base_address # 0 /\ (os = "windows" \/ a.process_id = ThisProcess)
    THEN Unmap(PagesOf(a.base_address, a.size))
    ELSE UNCHANGED memory

\* A PrivateAllocation goes out of scope, or free_private_allocation or
\* free_allocation_result is called with it.
FreeAllocation(a) ==
  /\ a \in held
  /\ DropAllocation(a)
  /\ held' = held \ {a}
  /\ quiet' = FALSE
  /\ UNCHANGED <<os, call, env, errors>>

\* free_allocation_result of an error: its string is freed, and its null
\* allocation dropped.
FreeErrorResult ==
  /\ errors > 0
  /\ errors' = errors - 1
  /\ DropAllocation(NullAllocation)
  /\ UNCHANGED <<os, call, history, held>>

-----------------------------------------------------------------------------
AllocatorStep ==
  /\ \/ LinuxStep
     \/ WindowsStep
     \/ OsxStep
     \/ GiveUp
     \/ NoCandidateLeft
     \/ MapThere
     \/ MapRefused
     \/ UnmapStray
  /\ UNCHANGED <<held, errors>>

OtherStep == \E p \in Pages : (OtherMaps(p) \/ OtherUnmaps(p)) /\ UNCHANGED <<held, errors>>

ReturnStep == ReturnAllocation \/ ReturnNull \/ ReturnError

Next ==
  \/ \E r \in AllocRequests : AllocatePrivateMemory(r)
  \/ AllocatorStep
  \/ ReturnStep
  \/ \E a \in held : FreeAllocation(a)
  \/ FreeErrorResult
  \/ OtherStep

AllocSpec == Init /\ [][Next]_allocVars

\* The thread inside allocate keeps running.
FairAllocSpec == AllocSpec /\ WF_allocVars(AllocatorStep \/ ReturnStep)

-----------------------------------------------------------------------------
\* Properties

PagesHeld == UNION {PagesOf(a.base_address, a.size) : a \in held}

\* The contract LocatorHeader relies on: a buffer is aligned, as long as asked
\* for, inside the limits of the request, not at null, and made of pages nobody
\* else has, in or out of the library.  (A size that sanitize truncates to 0 is
\* refused by Linux and Windows; macOS returns null.)
ResultFits ==
  call.at = "ok" /\ ~(os = "macos" /\ call.size = 0) =>
    /\ call.result % AllocationGranularity = 0
    /\ call.result # 0
    /\ call.size >= call.wanted
    /\ call.min <= call.result /\ call.result + call.size <= call.max
    /\ PagesOf(call.result, call.size) \cap (others \cup PagesHeld) = {}

\* Whatever happened on the way - a mapping at the wrong address, a protection
\* that failed, an error - the library has mapped exactly the blocks the client
\* holds and the one it is about to hand out: nothing is lost, and no block is
\* given back while the client holds it.
NothingLeaked ==
  ours = PagesHeld \cup call.stray \cup
         (IF call.at = "ok" THEN PagesOf(call.result, call.size) ELSE {})

\* Giving back a block or a stray mapping never takes away memory of the rest of
\* the process.
OthersKept == [][others \ others' # {} => env' # env]_allocVars

\* With nobody interfering the search is complete: it fails only if no place
\* is free that is aligned and in the limits.  (Linux takes a gap to end one byte
\* early, so there an exact fit is not found.)
FindsRoom ==
  call.at = "error" /\ quiet /\ call.size > 0 =>
    ~\E base \in 1 .. MaxAddress :
       /\ base % AllocationGranularity = 0
       /\ call.min <= base /\ base + call.size <= Limit
       /\ IsFree(PagesOf(base, IF os = "linux" THEN call.size + 1 ELSE call.size))

\* allocate returns, however often a gap is taken away under it.
AllocateReturns == call.at # "idle" ~> call.at = "idle"
=============================================================================
