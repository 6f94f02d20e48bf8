-------------------------------- MODULE CodeMemory -------------------------------
(***************************************************************************)
(* Writing code into a buffer: append_code, append_bytes and append_copy   *)
(* (structs/internal/locator_item.rs), overwrite_allocated_code and        *)
(* overwrite_allocated_code_ex of Rust (buffers.rs) and C                  *)
(* (c/buffers_c_buffers.rs), with the page permissions                     *)
(* (utilities/disable_write_xor_execute.rs) and the instruction cache      *)
(* (utilities/icache_clear.rs) they have to handle.                        *)
(*                                                                         *)
(* One buffer is looked at.  Its lock lets one thread append at a time     *)
(* (LocatorHeader); overwriting takes no lock.  The processor may prefetch *)
(* instructions at any time.                                               *)
(***************************************************************************)
EXTENDS LocatorItem

CONSTANTS Threads,
          Base, Length,   \* the buffer
          PageSize,       \* unit of the permissions
          Platforms,      \* subset of {"x86", "arm", "m1"}
          Sources,        \* where C callers have the code they copy from
          MaxWrite        \* bound on the bytes of one write

ASSUME CodeAssumption ==
  /\ Base \in Nat \ {0} /\ Length \in 0 .. U32 - 1 /\ PageSize \in Nat \ {0}
  /\ Platforms \subseteq {"x86", "arm", "m1"}
  /\ Sources \subseteq Nat
  /\ MaxWrite \in Nat

VARIABLES platform,
          item,      \* the LocatorItem of the buffer
          prot,      \* by page: permissions
          icache,    \* by address: what the instruction cache holds
          code,      \* addresses with code the client may run
          op,        \* by thread: the call under way, see NoOp
          faulted,   \* a write hit a page that was not writable
          clash      \* history: two calls were under way at the same time

codeVars == <<platform, item, prot, icache, code, op, faulted, clash>>

Buffer == Base .. (Base + Length - 1)

Extent(address, size) == address .. (address + size - 1)

PagesOf(addresses) == {a \div PageSize : a \in addresses}

\* Only macOS on aarch64 has pages that are never writable and executable at
\* once; only x86 keeps its instruction cache coherent.
WriteXorExecute == platform = "m1"
Coherent == platform = "x86"

\* at: what the call does next; target, size: what it writes; guard: the address
\* it changes the permissions at; flushEnd: where its flush ends, or 0 if it flushes
\* nothing.
NoOp == [at |-> "idle", append |-> FALSE, target |-> 0, size |-> 0, guard |-> 0,
         flushEnd |-> 0]

Busy == {t \in Threads : op[t].at # "idle"}

CodeInit ==
  /\ platform \in Platforms
  /\ item = NewItem(Base, Length)
  /\ prot = [p \in PagesOf(Buffer) |-> IF WriteXorExecute THEN "rw" ELSE "rwx"]
  /\ icache = [a \in Buffer |-> "empty"]
  /\ code = {}
  /\ op = [t \in Threads |-> NoOp]
  /\ faulted = FALSE
  /\ clash = FALSE

-----------------------------------------------------------------------------
\* mach_vm_protect of the pages that hold [address, address + size).
SetProtection(address, size, permissions) ==
  prot' = [p \in DOMAIN prot |->
             IF WriteXorExecute /\ p \in PagesOf(Extent(address, size))
               THEN permissions ELSE prot[p]]

\* [Mutant] the pages stay as they are.
DisableNothing(address, size) == UNCHANGED prot

DisableWriteXorExecute(address, size) == SetProtection(address, size, "rw")

RestoreWriteXorExecute(address, size) == SetProtection(address, size, "rx")

\* Flushes [start, end); an end in front of the start flushes nothing.
ClearInstructionCache(start, end) ==
  icache' = [a \in Buffer |->
               IF ~Coherent /\ start <= a /\ a < end THEN "empty" ELSE icache[a]]

\* What every call begins with.
Begin(t, call) ==
  /\ op[t].at = "idle"
  /\ ~faulted
  /\ DisableWriteXorExecute(call.guard, call.size)
  /\ op' = [op EXCEPT ![t] = call]
  /\ clash' = (clash \/ Busy # {})
  /\ UNCHANGED <<platform, item, icache, code, faulted>>

\* append_code, or append_bytes and append_copy, which do not flush.  The
\* permissions are changed at the start of the buffer, whatever the position.
AppendData(t, size, flushed) ==
  /\ size <= BytesLeft(item)
  /\ \A u \in Busy : ~op[u].append
  /\ Begin(t, [at |-> "copy", append |-> TRUE, target |-> WriteAddress(item),
               size |-> size, guard |-> item.base,
               flushEnd |-> IF flushed THEN WriteAddress(item) + size ELSE 0])

\* [Mutant] the flush leaves out the last byte.
FlushEndShort(api, source, target, size) ==
  (IF api = "rust" THEN target ELSE source) + size - 1

\* Where the flush of overwrite_allocated_code ends: Rust computes it from the
\* target, C from the source.
FlushEnd(api, source, target, size) ==
  (IF api = "rust" THEN target ELSE source) + size

\* overwrite_allocated_code or _ex on code in the buffer.
Overwrite(t, api, source, target, size) ==
  /\ Extent(target, size) \subseteq code
  /\ Begin(t, [at |-> "copy", append |-> FALSE, target |-> target, size |-> size,
               guard |-> target, flushEnd |-> FlushEnd(api, source, target, size)])

Writable(addresses) == \A p \in PagesOf(addresses) : prot[p] # "rx"

\* copy_nonoverlapping, or the callback; an append then moves the position.
Copy(t) ==
  LET bytes == Extent(op[t].target, op[t].size)
  IN  /\ op[t].at = "copy"
      /\ ~faulted
      /\ IF Writable(bytes)
           THEN /\ icache' = [a \in Buffer |->
                     IF ~Coherent /\ a \in bytes /\ icache[a] # "empty"
                       THEN "stale" ELSE icache[a]]
                /\ item' = IF op[t].append THEN AppendedItem(item, op[t].size) ELSE item
                /\ op' = [op EXCEPT ![t].at = "restore"]
                /\ UNCHANGED faulted
           ELSE /\ faulted' = TRUE
                /\ UNCHANGED <<icache, item, op>>
  /\ UNCHANGED <<platform, prot, code, clash>>

Restore(t) ==
  /\ op[t].at = "restore"
  /\ ~faulted
  /\ RestoreWriteXorExecute(op[t].guard, op[t].size)
  /\ op' = [op EXCEPT ![t] = IF op[t].flushEnd = 0 THEN NoOp ELSE [@ EXCEPT !.at = "flush"]]
  /\ UNCHANGED <<platform, item, icache, code, faulted, clash>>

Flush(t) ==
  /\ op[t].at = "flush"
  /\ ~faulted
  /\ ClearInstructionCache(op[t].target, op[t].flushEnd)
  /\ code' = code \cup Extent(op[t].target, op[t].size)
  /\ op' = [op EXCEPT ![t] = NoOp]
  /\ UNCHANGED <<platform, item, prot, faulted, clash>>

\* utilities_clear_instruction_cache: C callers append code as bytes and flush it
\* themselves.
ClientFlush(t) ==
  /\ op[t].at = "idle"
  /\ ~faulted
  /\ \A u \in Busy : ~op[u].append
  /\ ClearInstructionCache(Base, WriteAddress(item))
  /\ code' = Extent(Base, item.position)
  /\ UNCHANGED <<platform, item, prot, op, faulted, clash>>

\* The processor caches what is at an address.
Prefetch(a) ==
  /\ ~faulted
  /\ ~Coherent
  /\ icache[a] = "empty"
  /\ icache' = [icache EXCEPT ![a] = "current"]
  /\ UNCHANGED <<platform, item, prot, code, op, faulted, clash>>

CodeNext ==
  \/ \E t \in Threads, size \in 1 .. MaxWrite :
       \/ \E flushed \in BOOLEAN : AppendData(t, size, flushed)
       \/ \E target \in code, source \in Sources, api \in {"rust", "c"} :
            Overwrite(t, api, source, target, size)
  \/ \E t \in Threads : Copy(t) \/ Restore(t) \/ Flush(t) \/ ClientFlush(t)
  \/ \E a \in Buffer : Prefetch(a)

CodeSpec == CodeInit /\ [][CodeNext]_codeVars

-----------------------------------------------------------------------------
\* Properties

\* Code can be run: unless a call is just writing it, the processor does not
\* fetch what was there before, and with no call under way its page is executable.
\* "This callback handles various edge cases, (such as flushing caches), and
\* flipping page permissions".
CodeRuns ==
  ~faulted => \A a \in code :
    /\ icache[a] = "stale" => \E t \in Busy : a \in Extent(op[t].target, op[t].size)
    /\ Busy = {} => prot[a \div PageSize] # "rw"

\* "This function is safe provided that the caller ensures that the buffer is large
\* enough to hold the data": a write faults only if two calls change the
\* permissions of the buffer at the same time, on a system where pages are not
\* writable and executable at once.
WriteIsSafe == faulted => clash /\ WriteXorExecute
=============================================================================
