----------------------------- MODULE CodeMemoryProofs ----------------------------
(***************************************************************************)
(* Theorems about CodeMemory: when writing code never faults, and when the *)
(* code that was written can be run.                                       *)
(***************************************************************************)
EXTENDS CodeMemory, TLAPS

-----------------------------------------------------------------------------
\* What the theorems take for granted

\* Where pages are not writable and executable at once, the buffer lies on one page:
\* the appends change the permissions at its start (MCAppendFault is the other case).
SinglePage ==
  "m1" \in Platforms => \A a, b \in Buffer : a \div PageSize = b \div PageSize

\* C callers have the code they copy from behind the buffer: the flush of C ends
\* where the source does (MCStaleCode is the other case).
SourcesBehind == \A s \in Sources : s >= Base + Length

-----------------------------------------------------------------------------
\* The inductive invariant

OpType == [at : {"idle", "copy", "restore", "flush"}, append : BOOLEAN, target : Nat, size : Nat,
           guard : Nat, flushEnd : Nat]

Bytes(t) == Extent(op[t].target, op[t].size)

CodeTypes ==
  /\ platform \in Platforms
  /\ item \in [base : {Base}, size : {Length}, position : 0 .. Length]
  /\ prot \in [PagesOf(Buffer) -> {"rw", "rx", "rwx"}]
  /\ icache \in [Buffer -> {"empty", "current", "stale"}]
  /\ code \subseteq Extent(Base, item.position)
  /\ op \in [Threads -> OpType]
  /\ faulted \in BOOLEAN
  /\ clash \in BOOLEAN

\* What a call under way writes lies in the buffer, and an append writes behind all
\* that was written before it.
Target(t) ==
  op[t].at # "idle" =>
    /\ op[t].size > 0
    /\ op[t].guard \in Buffer
    /\ IF op[t].append
         THEN op[t].at = "copy" => /\ op[t].target = Base + item.position
                                   /\ item.position + op[t].size <= Length
         ELSE Bytes(t) \subseteq code
    /\ op[t].append /\ op[t].at # "copy" =>
         Base <= op[t].target /\ op[t].target + op[t].size <= Base + item.position

\* One call appends at a time.
OneAppends == \A t, u \in Busy : op[t].append /\ op[u].append => t = u

CallsFit == CodeTypes /\ (\A t \in Threads : Target(t)) /\ OneAppends

\* Without a clash one call is under way, and it has made its pages writable; without
\* write-xor-execute all pages are writable.
Permissions ==
  /\ ~WriteXorExecute => \A p \in PagesOf(Buffer) : prot[p] = "rwx"
  /\ ~clash =>
       /\ \A t, u \in Busy : t = u
       /\ WriteXorExecute => \A t \in Busy : op[t].at = "copy" =>
            \A p \in PagesOf(Buffer) : prot[p] # "rx"

SafeInv == CallsFit /\ Permissions /\ WriteIsSafe

\* A page with code is executable unless some call has yet to restore it.
Restored ==
  \/ item.position = 0
  \/ \E t \in Threads : op[t].at \in {"copy", "restore"}
  \/ \A p \in PagesOf(Buffer) : prot[p] # "rw"

\* A call that flushes will flush all it wrote; one that does not writes no code.
Flushing ==
  \A t \in Busy :
    IF op[t].flushEnd = 0
      THEN op[t].append /\ op[t].at # "flush" /\ Bytes(t) \cap code = {}
      ELSE op[t].flushEnd >= op[t].target + op[t].size

\* An address with old instructions in the cache is being written, and there is none if
\* the cache is coherent.
StaleIsBusy ==
  /\ \A a \in code : icache[a] = "stale" => \E t \in Busy : a \in Bytes(t)
  /\ Coherent => \A a \in Buffer : icache[a] # "stale"

RunsInv == SafeInv /\ Restored /\ Flushing /\ StaleIsBusy

-----------------------------------------------------------------------------
\* Helpers

\* An item in the buffer has its usual amount left, and its position does not wrap.
LEMMA ItemArithmetic ==
  ASSUME CodeTypes
  PROVE  /\ BytesLeft(item) = Length - item.position
         /\ WriteAddress(item) = Base + item.position
         /\ \A n \in Nat : item.position + n <= Length =>
              AppendedItem(item, n) = [item EXCEPT !.position = item.position + n]
<1>1. \A n \in 0 .. U32 - 1 : n % U32 = n
      BY WordAssumption
<1> QED
    BY <1>1, CodeAssumption, WordAssumption DEF CodeTypes, BytesLeft, WriteAddress, AppendedItem

\* Code lies in the buffer.
LEMMA CodeInBuffer == ASSUME CodeTypes PROVE code \subseteq Buffer
<1>1. item.position \in 0 .. Length /\ code \subseteq Extent(Base, item.position)
      BY DEF CodeTypes
<1>2. Extent(Base, item.position) \subseteq Buffer
      BY <1>1, CodeAssumption, WordAssumption DEF Extent, Buffer
<1> QED
    BY <1>1, <1>2

\* What a call writes lies in the buffer.
LEMMA BytesInBuffer ==
  ASSUME CallsFit, NEW t \in Threads, op[t].at # "idle" PROVE Bytes(t) \subseteq Buffer
<1>1. CASE op[t].append
      BY <1>1, CodeAssumption, WordAssumption, SMTT(60)
      DEF CallsFit, Target, Bytes, Extent, Buffer, CodeTypes, OpType
<1>2. CASE ~op[t].append
  <2>1. Bytes(t) \subseteq code
        BY <1>2 DEF CallsFit, Target
  <2> QED
      BY <2>1, CodeInBuffer DEF CallsFit
<1> QED
    BY <1>1, <1>2

\* Changing the permissions at an address of a buffer on one page changes them for
\* all of the buffer.
LEMMA WholePage ==
  ASSUME SinglePage, platform \in Platforms, WriteXorExecute, DOMAIN prot = PagesOf(Buffer),
         NEW a \in Buffer, NEW n \in Nat, n > 0, NEW x, SetProtection(a, n, x)
  PROVE  \A p \in PagesOf(Buffer) : prot'[p] = x
<1>1. a \in Extent(a, n)
      BY CodeAssumption DEF Extent, Buffer
<1>2. \A p \in PagesOf(Buffer) : p = a \div PageSize
      BY DEF PagesOf, SinglePage, WriteXorExecute
<1> QED
    BY <1>1, <1>2 DEF SetProtection, PagesOf

\* The permissions of a page are always of one of the three kinds, and without
\* write-xor-execute they do not change.
LEMMA ProtectionType ==
  ASSUME CodeTypes, NEW a, NEW n, NEW x \in {"rw", "rx"}, SetProtection(a, n, x)
  PROVE  /\ prot' \in [PagesOf(Buffer) -> {"rw", "rx", "rwx"}]
         /\ ~WriteXorExecute => prot' = prot
<1> QED
    BY DEF CodeTypes, SetProtection

-----------------------------------------------------------------------------
\* Writes are safe

\* At the beginning nothing is written, and every page can be.
LEMMA InitSafe == CodeInit => SafeInv
<1> SUFFICES ASSUME CodeInit PROVE SafeInv
    OBVIOUS
<1>1. NoOp \in OpType
      BY DEF NoOp, OpType
<1>2. \A t \in Threads : op[t] = NoOp
      BY DEF CodeInit
<1>3. CodeTypes
  <2>1. item \in [base : {Base}, size : {Length}, position : 0 .. Length]
        BY CodeAssumption, WordAssumption DEF CodeInit, NewItem
  <2>2. prot \in [PagesOf(Buffer) -> {"rw", "rx", "rwx"}] /\ icache \in [Buffer -> {"empty"}]
        BY DEF CodeInit
  <2> QED
      BY <1>1, <2>1, <2>2 DEF CodeInit, CodeTypes
<1>4. Busy = {}
      BY <1>2 DEF Busy, NoOp
<1>5. CallsFit
      BY <1>2, <1>3, <1>4 DEF CallsFit, Target, OneAppends, NoOp
<1>6. Permissions /\ WriteIsSafe
      BY <1>4 DEF Permissions, WriteIsSafe, CodeInit, WriteXorExecute
<1> QED
    BY <1>5, <1>6 DEF SafeInv

\* A call begins that appends or writes to code.
LEMMA BeginSafe ==
  ASSUME SinglePage, SafeInv, NEW t \in Threads, NEW call \in OpType, Begin(t, call),
         call.at = "copy", call.size > 0, call.guard \in Buffer,
         IF call.append THEN /\ call.target = Base + item.position
                             /\ item.position + call.size <= Length
                             /\ \A u \in Busy : ~op[u].append
                        ELSE Extent(call.target, call.size) \subseteq code
  PROVE  SafeInv'
<1> USE DEF SafeInv, CallsFit
<1>1. /\ op' = [op EXCEPT ![t] = call] /\ op[t].at = "idle"
      /\ clash' = (clash \/ Busy # {})
      /\ SetProtection(call.guard, call.size, "rw")
      /\ UNCHANGED <<platform, item, icache, code, faulted>>
      BY DEF Begin, DisableWriteXorExecute
<1>2. op'[t] = call /\ \A u \in Threads \ {t} : op'[u] = op[u]
      BY <1>1 DEF CodeTypes
<1>3. CodeTypes'
  <2>1. prot' \in [PagesOf(Buffer) -> {"rw", "rx", "rwx"}]
        BY <1>1, ProtectionType
  <2>2. op' \in [Threads -> OpType]
        BY <1>1 DEF CodeTypes
  <2>3. clash' \in BOOLEAN
        BY <1>1
  <2> QED
      BY <1>1, <2>1, <2>2, <2>3 DEF CodeTypes
<1>4. Busy' = Busy \cup {t} /\ t \notin Busy
      BY <1>1, <1>2 DEF Busy
<1>5. \A u \in Threads : Target(u)'
  <2>1. Target(t)'
        BY <1>1, <1>2 DEF Target, Bytes
  <2>2. ASSUME NEW u \in Threads, u # t PROVE Target(u)'
        BY <1>1, <1>2, <2>2 DEF Target, Bytes
  <2> QED
      BY <2>1, <2>2
<1>6. OneAppends'
      BY <1>2, <1>4 DEF OneAppends, Busy
<1>7. WriteXorExecute' = WriteXorExecute
      BY <1>1 DEF WriteXorExecute
<1>8. Permissions'
  <2>1. ~WriteXorExecute' => \A p \in PagesOf(Buffer) : prot'[p] = "rwx"
        BY <1>1, <1>7, ProtectionType DEF Permissions
  <2>2. ASSUME ~clash' PROVE Busy' = {t}
        BY <1>1, <1>4, <2>2
  <2>3. ASSUME WriteXorExecute PROVE \A p \in PagesOf(Buffer) : prot'[p] = "rw"
        BY <1>1, <2>3, WholePage DEF CodeTypes, OpType
  <2> QED
      BY <2>1, <2>2, <2>3, <1>7 DEF Permissions
<1>9. WriteIsSafe'
      BY <1>1, <1>7 DEF WriteIsSafe
<1> QED
    BY <1>3, <1>5, <1>6, <1>8, <1>9

\* An append begins.
LEMMA AppendCall ==
  ASSUME CallsFit, NEW t \in Threads, NEW size \in 1 .. MaxWrite, NEW flushed \in BOOLEAN,
         AppendData(t, size, flushed),
         NEW call, call = [at |-> "copy", append |-> TRUE, target |-> WriteAddress(item),
                           size |-> size, guard |-> item.base,
                           flushEnd |-> IF flushed THEN WriteAddress(item) + size ELSE 0]
  PROVE  /\ Begin(t, call) /\ call \in OpType /\ call.guard \in Buffer
         /\ call.target = Base + item.position /\ item.position + call.size <= Length
         /\ \A u \in Busy : ~op[u].append
<1>1. /\ size <= BytesLeft(item) /\ \A u \in Busy : ~op[u].append
      /\ Begin(t, call)
      BY DEF AppendData
<1>2. /\ BytesLeft(item) = Length - item.position /\ WriteAddress(item) = Base + item.position
      /\ item.base = Base /\ item.position \in 0 .. Length
      BY ItemArithmetic DEF CallsFit, CodeTypes
<1>3. Length \in Nat /\ Base \in Nat /\ size \in Nat /\ size > 0
      BY CodeAssumption, WordAssumption
<1>4. item.position + size <= Length /\ Base \in Buffer
      BY <1>1, <1>2, <1>3 DEF Buffer
<1> QED
    BY <1>1, <1>2, <1>3, <1>4 DEF OpType

\* Code is overwritten.
LEMMA OverwriteCall ==
  ASSUME CallsFit, NEW t \in Threads, NEW size \in 1 .. MaxWrite, NEW target \in code,
         NEW source \in Sources, NEW api \in {"rust", "c"}, Overwrite(t, api, source, target, size),
         NEW call, call = [at |-> "copy", append |-> FALSE, target |-> target, size |-> size,
                           guard |-> target, flushEnd |-> FlushEnd(api, source, target, size)]
  PROVE  /\ Begin(t, call) /\ call \in OpType /\ call.guard \in Buffer
         /\ Extent(call.target, call.size) \subseteq code
<1>1. Begin(t, call) /\ Extent(target, size) \subseteq code
      BY DEF Overwrite
<1>2. item.position \in 0 .. Length /\ target \in Extent(Base, item.position)
      BY DEF CallsFit, CodeTypes
<1>3. target \in Buffer /\ target \in Nat
      BY <1>2, CodeAssumption DEF Extent, Buffer
<1>4. FlushEnd(api, source, target, size) \in Nat
      BY <1>3, CodeAssumption DEF FlushEnd
<1> QED
    BY <1>1, <1>3, <1>4, CodeAssumption DEF OpType

\* A write that hits pages it made writable succeeds; one that does not is a fault,
\* which takes write-xor-execute and another call.
LEMMA CopySafe ==
  ASSUME SafeInv, NEW t \in Threads, Copy(t) PROVE SafeInv'
<1> USE DEF SafeInv, CallsFit
<1>1. op[t].at = "copy" /\ ~faulted /\ UNCHANGED <<platform, prot, code, clash>>
      BY DEF Copy
<1>2. WriteXorExecute' = WriteXorExecute /\ t \in Busy
      BY <1>1 DEF WriteXorExecute, Busy
<1>3. Bytes(t) \subseteq Buffer
      BY <1>1, BytesInBuffer
<1>4. CASE Writable(Bytes(t))
  <2>1. /\ icache' = [a \in Buffer |-> IF ~Coherent /\ a \in Bytes(t) /\ icache[a] # "empty"
                                         THEN "stale" ELSE icache[a]]
        /\ item' = IF op[t].append THEN AppendedItem(item, op[t].size) ELSE item
        /\ op' = [op EXCEPT ![t].at = "restore"]
        /\ faulted' = faulted
        BY <1>4 DEF Copy, Bytes
  <2>2. op' \in [Threads -> OpType]
        BY <2>1 DEF CodeTypes, OpType
  <2>3. /\ op'[t].at = "restore" /\ op'[t].append = op[t].append /\ op'[t].target = op[t].target
        /\ op'[t].size = op[t].size /\ op'[t].guard = op[t].guard
        /\ op'[t].flushEnd = op[t].flushEnd
        /\ \A u \in Threads \ {t} : op'[u] = op[u]
        BY <2>1 DEF CodeTypes, OpType
  <2>4. /\ item' \in [base : {Base}, size : {Length}, position : 0 .. Length]
        /\ item'.position = IF op[t].append THEN item.position + op[t].size ELSE item.position
    <3>1. CASE op[t].append
      <4>1. /\ op[t].size \in Nat /\ item.position + op[t].size <= Length
            /\ item.position + op[t].size \in 0 .. Length
            BY <3>1, <1>1, CodeAssumption DEF Target, CodeTypes, OpType
      <4>2. item' = [item EXCEPT !.position = item.position + op[t].size]
            BY <4>1, <3>1, <2>1, ItemArithmetic
      <4> QED
          BY <4>1, <4>2, <3>1 DEF CodeTypes
    <3>2. CASE ~op[t].append
          BY <3>2, <2>1 DEF CodeTypes
    <3> QED
        BY <3>1, <3>2
  <2>5. item.position <= item'.position
        BY <2>4 DEF CodeTypes, OpType
  <2>6. icache' \in [Buffer -> {"empty", "current", "stale"}]
        BY <2>1 DEF CodeTypes
  <2>7. code' \subseteq Extent(Base, item'.position)
        BY <1>1, <2>4, <2>5, CodeAssumption DEF CodeTypes, Extent
  <2>8. CodeTypes'
        BY <1>1, <2>1, <2>2, <2>4, <2>6, <2>7 DEF CodeTypes
  <2>9. Busy' = Busy
        BY <1>1, <2>3 DEF Busy
  <2>10. Target(t)'
    <3>1. CASE op[t].append
          BY <3>1, <1>1, <2>3, <2>4, CodeAssumption DEF Target, CodeTypes, OpType
    <3>2. CASE ~op[t].append
          BY <3>2, <1>1, <2>3 DEF Target, Bytes
    <3> QED
        BY <3>1, <3>2
  <2>11. ASSUME NEW u \in Threads, u # t PROVE Target(u)'
    <3>1. op'[u] = op[u]
          BY <2>3, <2>11
    <3>2. CASE op[u].append /\ op[u].at # "idle"
      <4>1. ~op[t].append
            BY <3>2, <1>2, <2>11 DEF OneAppends, Busy
      <4> QED
          BY <4>1, <3>1, <3>2, <2>1, <1>1 DEF Target, Bytes
    <3>3. CASE ~op[u].append \/ op[u].at = "idle"
          BY <3>3, <3>1, <1>1 DEF Target, Bytes
    <3> QED
        BY <3>2, <3>3
  <2>12. OneAppends'
        BY <2>3, <2>9 DEF OneAppends, Busy
  <2>13. Permissions'
        BY <1>1, <1>2, <2>3, <2>9 DEF Permissions, Busy
  <2>14. WriteIsSafe'
        BY <1>1, <2>1 DEF WriteIsSafe
  <2> QED
      BY <2>8, <2>10, <2>11, <2>12, <2>13, <2>14
<1>5. CASE ~Writable(Bytes(t))
  <2>1. faulted' = TRUE /\ UNCHANGED <<icache, item, op>>
        BY <1>5 DEF Copy, Bytes
  <2>2. PICK p \in PagesOf(Buffer) : prot[p] = "rx"
        BY <1>3, <1>5 DEF Writable, PagesOf
  <2>3. WriteXorExecute /\ clash
        BY <1>1, <1>2, <2>2 DEF Permissions
  <2>4. CodeTypes' /\ (\A u \in Threads : Target(u)') /\ OneAppends'
        BY <1>1, <2>1 DEF CodeTypes, Target, Bytes, OneAppends, Busy
  <2>5. Permissions' /\ WriteIsSafe'
        BY <1>1, <1>2, <2>1, <2>3 DEF Permissions, WriteIsSafe, Busy
  <2> QED
      BY <2>4, <2>5
<1> QED
    BY <1>4, <1>5

\* The permissions are restored; no other call is writing, or there was a clash.
LEMMA RestoreSafe ==
  ASSUME SafeInv, NEW t \in Threads, Restore(t) PROVE SafeInv'
<1> USE DEF SafeInv, CallsFit
<1>1. /\ op[t].at = "restore" /\ ~faulted
      /\ UNCHANGED <<platform, item, icache, code, faulted, clash>>
      /\ SetProtection(op[t].guard, op[t].size, "rx")
      /\ op' = [op EXCEPT ![t] = IF op[t].flushEnd = 0 THEN NoOp ELSE [@ EXCEPT !.at = "flush"]]
      BY DEF Restore, RestoreWriteXorExecute
<1>2. op' \in [Threads -> OpType]
      BY <1>1 DEF CodeTypes, OpType, NoOp
<1>3. \A u \in Threads \ {t} : op'[u] = op[u]
      BY <1>1 DEF CodeTypes
<1>4. \/ op'[t].at = "idle"
      \/ op'[t] = [op[t] EXCEPT !.at = "flush"]
      BY <1>1 DEF CodeTypes, NoOp
<1>5. prot' \in [PagesOf(Buffer) -> {"rw", "rx", "rwx"}] /\ (~WriteXorExecute => prot' = prot)
      BY <1>1, ProtectionType
<1>6. CodeTypes'
      BY <1>1, <1>2, <1>5 DEF CodeTypes
<1>7. Busy' \subseteq Busy /\ t \in Busy
      BY <1>1, <1>3 DEF Busy
<1>8. \A u \in Threads : Target(u)'
      BY <1>1, <1>3, <1>4 DEF Target, Bytes, CodeTypes, OpType
<1>9. \A u \in Busy' : op'[u].append = op[u].append
      BY <1>3, <1>4 DEF Busy, CodeTypes, OpType
<1>10. OneAppends'
      BY <1>7, <1>9 DEF OneAppends
<1>11. WriteXorExecute' = WriteXorExecute
      BY <1>1 DEF WriteXorExecute
<1>12. op'[t].at # "copy"
      BY <1>4 DEF CodeTypes, OpType
<1>13. Permissions'
      BY <1>1, <1>5, <1>7, <1>11, <1>12 DEF Permissions
<1>14. WriteIsSafe'
      BY <1>1 DEF WriteIsSafe
<1> QED
    BY <1>6, <1>8, <1>10, <1>13, <1>14

\* The cache is flushed and the code can be run.
LEMMA FlushSafe ==
  ASSUME SafeInv, NEW t \in Threads, Flush(t) PROVE SafeInv'
<1> USE DEF SafeInv, CallsFit
<1>1. /\ op[t].at = "flush" /\ UNCHANGED <<platform, item, prot, faulted, clash>>
      /\ code' = code \cup Bytes(t)
      /\ op' = [op EXCEPT ![t] = NoOp]
      /\ icache' = [a \in Buffer |-> IF ~Coherent /\ op[t].target <= a /\ a < op[t].flushEnd
                                       THEN "empty" ELSE icache[a]]
      BY DEF Flush, ClearInstructionCache, Bytes
<1>2. op' \in [Threads -> OpType] /\ icache' \in [Buffer -> {"empty", "current", "stale"}]
      BY <1>1 DEF CodeTypes, OpType, NoOp
<1>3. op'[t].at = "idle" /\ \A u \in Threads \ {t} : op'[u] = op[u]
      BY <1>1 DEF CodeTypes, NoOp
<1>4. Bytes(t) \subseteq Extent(Base, item.position)
  <2>1. CASE op[t].append
        BY <2>1, <1>1, CodeAssumption DEF Target, Bytes, Extent, CodeTypes, OpType
  <2>2. CASE ~op[t].append
        BY <2>2, <1>1 DEF Target, CodeTypes
  <2> QED
      BY <2>1, <2>2
<1>5. CodeTypes'
      BY <1>1, <1>2, <1>4 DEF CodeTypes
<1>6. Busy' \subseteq Busy
      BY <1>3 DEF Busy
<1>7. \A u \in Threads : Target(u)'
      BY <1>1, <1>3 DEF Target, Bytes
<1>8. OneAppends'
      BY <1>3, <1>6 DEF OneAppends, Busy
<1>9. Permissions' /\ WriteIsSafe'
      BY <1>1, <1>3, <1>6 DEF Permissions, WriteIsSafe, WriteXorExecute, Busy
<1> QED
    BY <1>5, <1>7, <1>8, <1>9

\* The client flushes all that was appended.
LEMMA ClientFlushSafe ==
  ASSUME SafeInv, NEW t \in Threads, ClientFlush(t) PROVE SafeInv'
<1> USE DEF SafeInv, CallsFit
<1>1. /\ UNCHANGED <<platform, item, prot, op, faulted, clash>>
      /\ code' = Extent(Base, item.position)
      /\ icache' = [a \in Buffer |-> IF ~Coherent /\ Base <= a /\ a < WriteAddress(item)
                                       THEN "empty" ELSE icache[a]]
      BY DEF ClientFlush, ClearInstructionCache
<1>2. CodeTypes'
      BY <1>1 DEF CodeTypes
<1>3. (\A u \in Threads : Target(u)') /\ OneAppends'
      BY <1>1 DEF Target, Bytes, OneAppends, Busy, CodeTypes
<1>4. Permissions' /\ WriteIsSafe'
      BY <1>1 DEF Permissions, WriteIsSafe, WriteXorExecute, Busy
<1> QED
    BY <1>2, <1>3, <1>4

\* The processor fetches an instruction.
LEMMA PrefetchSafe ==
  ASSUME SafeInv, NEW b \in Buffer, Prefetch(b) PROVE SafeInv'
<1> USE DEF SafeInv, CallsFit
<1>1. /\ icache' = [icache EXCEPT ![b] = "current"]
      /\ UNCHANGED <<platform, item, prot, code, op, faulted, clash>>
      BY DEF Prefetch
<1>2. CodeTypes'
      BY <1>1 DEF CodeTypes
<1>3. (\A u \in Threads : Target(u)') /\ OneAppends' /\ Permissions' /\ WriteIsSafe'
      BY <1>1 DEF Target, Bytes, OneAppends, Permissions, WriteIsSafe, WriteXorExecute, Busy
<1> QED
    BY <1>2, <1>3

\* SafeInv is inductive.
LEMMA NextSafe == ASSUME SinglePage, SafeInv, [CodeNext]_codeVars PROVE SafeInv'
<1>1. ASSUME NEW t \in Threads, NEW size \in 1 .. MaxWrite, NEW flushed \in BOOLEAN,
             AppendData(t, size, flushed)
      PROVE  SafeInv'
  <2> DEFINE call == [at |-> "copy", append |-> TRUE, target |-> WriteAddress(item), size |-> size,
                      guard |-> item.base,
                      flushEnd |-> IF flushed THEN WriteAddress(item) + size ELSE 0]
  <2>1. /\ Begin(t, call) /\ call \in OpType /\ call.guard \in Buffer
        /\ call.target = Base + item.position /\ item.position + call.size <= Length
        /\ \A u \in Busy : ~op[u].append
        BY <1>1, AppendCall DEF SafeInv
  <2>2. call.at = "copy" /\ call.size > 0 /\ call.append
        OBVIOUS
  <2> HIDE DEF call
  <2> QED
      BY <2>1, <2>2, BeginSafe
<1>2. ASSUME NEW t \in Threads, NEW size \in 1 .. MaxWrite, NEW target \in code,
             NEW source \in Sources, NEW api \in {"rust", "c"},
             Overwrite(t, api, source, target, size)
      PROVE  SafeInv'
  <2> DEFINE call == [at |-> "copy", append |-> FALSE, target |-> target, size |-> size,
                      guard |-> target, flushEnd |-> FlushEnd(api, source, target, size)]
  <2>1. /\ Begin(t, call) /\ call \in OpType /\ call.guard \in Buffer
        /\ Extent(call.target, call.size) \subseteq code
        BY <1>2, OverwriteCall DEF SafeInv
  <2>2. call.at = "copy" /\ call.size > 0 /\ ~call.append
        OBVIOUS
  <2> HIDE DEF call
  <2> QED
      BY <2>1, <2>2, BeginSafe
<1>3. ASSUME NEW t \in Threads, Copy(t) \/ Restore(t) \/ Flush(t) \/ ClientFlush(t) PROVE SafeInv'
      BY <1>3, CopySafe, RestoreSafe, FlushSafe, ClientFlushSafe
<1>4. ASSUME NEW a \in Buffer, Prefetch(a) PROVE SafeInv'
      BY <1>4, PrefetchSafe
<1>5. CASE UNCHANGED codeVars
      BY <1>5
      DEF codeVars, SafeInv, CallsFit, CodeTypes, Target, Bytes, OneAppends, Permissions,
                  WriteIsSafe, WriteXorExecute, Busy
<1> QED
    BY <1>1, <1>2, <1>3, <1>4, <1>5 DEF CodeNext

\* A write faults only where pages are not writable and executable at once, and only if
\* two calls change the permissions at the same time: in a buffer on one page.
THEOREM WritesDoNotFault == ASSUME SinglePage PROVE CodeSpec => []WriteIsSafe
<1>1. SafeInv /\ [CodeNext]_codeVars => SafeInv'
      BY NextSafe
<1>2. SafeInv => WriteIsSafe
      BY DEF SafeInv
<1> QED
    BY <1>1, <1>2, InitSafe, PTL DEF CodeSpec

-----------------------------------------------------------------------------
\* Code can be run

\* At the beginning there is no code.
LEMMA InitRuns == CodeInit => RunsInv
<1> SUFFICES ASSUME CodeInit PROVE RunsInv
    OBVIOUS
<1>1. Busy = {}
      BY DEF CodeInit, Busy, NoOp
<1>2. Restored /\ Flushing /\ StaleIsBusy
      BY <1>1 DEF CodeInit, Restored, Flushing, StaleIsBusy, NewItem
<1> QED
    BY <1>2, InitSafe DEF RunsInv

\* A call begins that will flush what it writes, or appends bytes that are no code.
LEMMA BeginRuns ==
  ASSUME RunsInv, NEW t \in Threads, NEW call \in OpType, Begin(t, call), call.at = "copy",
         call.flushEnd = 0 => call.append /\ Extent(call.target, call.size) \cap code = {},
         call.flushEnd # 0 => call.flushEnd >= call.target + call.size
  PROVE  Restored' /\ Flushing' /\ StaleIsBusy'
<1>1. op' = [op EXCEPT ![t] = call] /\ op[t].at = "idle" /\ UNCHANGED <<item, icache, code>>
      BY DEF Begin
<1>2. op'[t] = call /\ \A u \in Threads \ {t} : op'[u] = op[u]
      BY <1>1 DEF RunsInv, SafeInv, CallsFit, CodeTypes
<1>3. Busy' = Busy \cup {t} /\ t \notin Busy /\ Busy \subseteq Threads
      BY <1>1, <1>2 DEF Busy
<1>4. Restored'
      BY <1>2 DEF Restored
<1>5. Flushing'
  <2> SUFFICES ASSUME NEW u \in Busy'
               PROVE  IF op'[u].flushEnd = 0
                        THEN op'[u].append /\ op'[u].at # "flush" /\ Bytes(u)' \cap code' = {}
                        ELSE op'[u].flushEnd >= op'[u].target + op'[u].size
      BY DEF Flushing
  <2>1. CASE u = t
        BY <2>1, <1>1, <1>2 DEF Bytes
  <2>2. CASE u # t
        BY <2>2, <1>1, <1>2, <1>3 DEF RunsInv, Flushing, Bytes
  <2> QED
      BY <2>1, <2>2
<1>6. StaleIsBusy'
  <2>1. Coherent' = Coherent
        BY DEF Begin, Coherent
  <2> QED
      BY <1>1, <1>2, <1>3, <2>1 DEF RunsInv, StaleIsBusy, Bytes
<1> QED
    BY <1>4, <1>5, <1>6

\* What a call writes may be stale, until the call has flushed it.
LEMMA CopyRuns ==
  ASSUME RunsInv, NEW t \in Threads, Copy(t) PROVE Restored' /\ Flushing' /\ StaleIsBusy'
<1> USE DEF RunsInv
<1>1. op[t].at = "copy" /\ UNCHANGED <<prot, code>> /\ t \in Busy
      BY DEF Copy, Busy
<1>2. CASE Writable(Bytes(t))
  <2>1. /\ icache' = [a \in Buffer |-> IF ~Coherent /\ a \in Bytes(t) /\ icache[a] # "empty"
                                         THEN "stale" ELSE icache[a]]
        /\ op' = [op EXCEPT ![t].at = "restore"]
        BY <1>2 DEF Copy, Bytes
  <2>2. /\ op'[t].at = "restore" /\ op'[t].append = op[t].append /\ op'[t].target = op[t].target
        /\ op'[t].size = op[t].size /\ op'[t].flushEnd = op[t].flushEnd
        /\ \A u \in Threads \ {t} : op'[u] = op[u]
        BY <2>1 DEF SafeInv, CallsFit, CodeTypes, OpType
  <2>3. Busy' = Busy /\ Busy \subseteq Threads
        BY <1>1, <2>2 DEF Busy
  <2>4. \A u \in Threads : Bytes(u)' = Bytes(u)
        BY <2>2 DEF Bytes
  <2>5. Restored'
        BY <2>2 DEF Restored
  <2>6. Flushing'
        BY <1>1, <2>2, <2>3, <2>4 DEF Flushing
  <2>7. StaleIsBusy'
    <3>1. code \subseteq Buffer
          BY CodeInBuffer DEF SafeInv, CallsFit
    <3>2. Coherent' = Coherent
          BY DEF Copy, Coherent
    <3> QED
        BY <3>1, <3>2, <1>1, <2>1, <2>3, <2>4 DEF StaleIsBusy
  <2> QED
      BY <2>5, <2>6, <2>7
<1>3. CASE ~Writable(Bytes(t))
  <2>1. UNCHANGED <<icache, item, op, platform>>
        BY <1>3 DEF Copy, Bytes
  <2>2. Restored' /\ Flushing'
        BY <1>1, <2>1 DEF Restored, Flushing, Busy, Bytes
  <2>3. StaleIsBusy'
        BY <1>1, <2>1 DEF StaleIsBusy, Coherent, Busy, Bytes
  <2> QED
      BY <2>2, <2>3
<1> QED
    BY <1>2, <1>3

\* The last call to restore the permissions makes the code executable; a call that does
\* not flush has written no code.
LEMMA RestoreRuns ==
  ASSUME SinglePage, RunsInv, NEW t \in Threads, Restore(t)
  PROVE  Restored' /\ Flushing' /\ StaleIsBusy'
<1> USE DEF RunsInv
<1>1. /\ op[t].at = "restore" /\ UNCHANGED <<platform, item, icache, code>>
      /\ SetProtection(op[t].guard, op[t].size, "rx")
      /\ op' = [op EXCEPT ![t] = IF op[t].flushEnd = 0 THEN NoOp ELSE [@ EXCEPT !.at = "flush"]]
      BY DEF Restore, RestoreWriteXorExecute
<1>2. \A u \in Threads \ {t} : op'[u] = op[u]
      BY <1>1 DEF SafeInv, CallsFit, CodeTypes
<1>3. \/ op[t].flushEnd = 0 /\ op'[t].at = "idle"
      \/ op[t].flushEnd # 0 /\ op'[t] = [op[t] EXCEPT !.at = "flush"]
      BY <1>1 DEF SafeInv, CallsFit, CodeTypes, NoOp
<1>4. \/ op[t].flushEnd = 0 /\ op'[t].at = "idle"
      \/ /\ op[t].flushEnd # 0 /\ op'[t].at = "flush" /\ op'[t].flushEnd = op[t].flushEnd
         /\ op'[t].target = op[t].target /\ op'[t].size = op[t].size
      BY <1>3 DEF SafeInv, CallsFit, CodeTypes, OpType
<1>5. t \in Busy /\ Busy' \subseteq Busy /\ Busy \subseteq Threads /\ Busy \ {t} \subseteq Busy'
      BY <1>1, <1>2 DEF Busy
<1>6. Restored'
  <2>1. CASE WriteXorExecute
    <3>1. \A p \in PagesOf(Buffer) : prot'[p] = "rx"
          BY <1>1, <2>1, WholePage DEF SafeInv, CallsFit, CodeTypes, Target, OpType
    <3> QED
        BY <3>1 DEF Restored
  <2>2. CASE ~WriteXorExecute
    <3>1. \A p \in PagesOf(Buffer) : prot'[p] = "rwx"
          BY <1>1, <2>2, ProtectionType DEF SafeInv, CallsFit, Permissions
    <3> QED
        BY <3>1 DEF Restored
  <2> QED
      BY <2>1, <2>2
<1>7. \A u \in Busy' : Bytes(u)' = Bytes(u)
      BY <1>2, <1>4, <1>5 DEF Bytes, Busy
<1>8. Flushing'
      BY <1>1, <1>2, <1>4, <1>5, <1>7 DEF Flushing, Busy
<1>9. StaleIsBusy'
  <2> SUFFICES ASSUME NEW a \in code, icache[a] = "stale" PROVE \E u \in Busy' : a \in Bytes(u)'
      BY <1>1 DEF StaleIsBusy, Coherent
  <2>1. PICK u \in Busy : a \in Bytes(u)
        BY DEF StaleIsBusy
  <2>2. u \in Busy'
    <3>1. CASE u = t
      <4>1. op[t].flushEnd # 0
            BY <3>1, <2>1, <1>5 DEF Flushing
      <4> QED
          BY <4>1, <3>1, <1>4 DEF Busy
    <3>2. CASE u # t
          BY <3>2, <1>5
    <3> QED
        BY <3>1, <3>2
  <2> QED
      BY <2>1, <2>2, <1>7
<1> QED
    BY <1>6, <1>8, <1>9

\* A call flushes all it wrote.
LEMMA FlushRuns ==
  ASSUME RunsInv, NEW t \in Threads, Flush(t) PROVE Restored' /\ Flushing' /\ StaleIsBusy'
<1> USE DEF RunsInv
<1>1. /\ op[t].at = "flush" /\ UNCHANGED <<platform, item, prot>>
      /\ code' = code \cup Bytes(t)
      /\ op' = [op EXCEPT ![t] = NoOp]
      /\ icache' = [a \in Buffer |-> IF ~Coherent /\ op[t].target <= a /\ a < op[t].flushEnd
                                       THEN "empty" ELSE icache[a]]
      BY DEF Flush, ClearInstructionCache, Bytes
<1>2. op'[t].at = "idle" /\ \A u \in Threads \ {t} : op'[u] = op[u]
      BY <1>1 DEF SafeInv, CallsFit, CodeTypes, NoOp
<1>3. Busy' = Busy \ {t} /\ t \in Busy /\ Busy \subseteq Threads
      BY <1>1, <1>2 DEF Busy
<1>4. \A u \in Busy' : Bytes(u)' = Bytes(u) /\ op'[u] = op[u]
      BY <1>2, <1>3 DEF Bytes
<1>5. Restored'
      BY <1>1, <1>2 DEF Restored
<1>6. op[t].flushEnd >= op[t].target + op[t].size
      BY <1>1, <1>3 DEF Flushing
<1>7. Flushing'
  <2>1. ASSUME NEW u \in Busy', op[u].flushEnd = 0 PROVE Bytes(u) \cap Bytes(t) = {}
    <3>1. op[u].append /\ Bytes(u) \cap code = {} /\ u \in Busy /\ u # t
          BY <2>1, <1>3 DEF Flushing
    <3>2. ~op[t].append
          BY <3>1, <1>3 DEF SafeInv, CallsFit, OneAppends
    <3>3. Bytes(t) \subseteq code
          BY <3>2, <1>1 DEF SafeInv, CallsFit, Target
    <3> QED
        BY <3>1, <3>3
  <2> SUFFICES ASSUME NEW u \in Busy'
               PROVE  IF op'[u].flushEnd = 0
                        THEN op'[u].append /\ op'[u].at # "flush" /\ Bytes(u)' \cap code' = {}
                        ELSE op'[u].flushEnd >= op'[u].target + op'[u].size
      BY DEF Flushing
  <2>2. u \in Busy /\ op'[u] = op[u] /\ Bytes(u)' = Bytes(u)
        BY <1>3, <1>4
  <2>3. CASE op[u].flushEnd = 0
        BY <2>1, <2>2, <2>3, <1>1 DEF Flushing
  <2>4. CASE op[u].flushEnd # 0
        BY <2>2, <2>4 DEF Flushing
  <2> QED
      BY <2>2, <2>3, <2>4
<1>8. StaleIsBusy'
  <2>1. code \cup Bytes(t) \subseteq Buffer
        BY <1>1, CodeInBuffer, BytesInBuffer DEF SafeInv, CallsFit
  <2>2. Coherent' = Coherent /\ (Coherent => icache' = icache)
        BY <1>1 DEF Coherent, SafeInv, CallsFit, CodeTypes
  <2>3. ASSUME NEW a \in code \cup Bytes(t), icache'[a] = "stale"
        PROVE  \E u \in Busy' : a \in Bytes(u)'
    <3>1. icache[a] = "stale" /\ ~Coherent /\ ~(op[t].target <= a /\ a < op[t].flushEnd)
          BY <2>1, <2>2, <2>3, <1>1 DEF StaleIsBusy
    <3>2. a \notin Bytes(t)
          BY <3>1, <1>6 DEF Bytes, Extent, SafeInv, CallsFit, CodeTypes, OpType
    <3>3. PICK u \in Busy : a \in Bytes(u)
          BY <2>3, <3>1, <3>2 DEF StaleIsBusy
    <3> QED
        BY <3>2, <3>3, <1>3, <1>4
  <2> QED
      BY <1>1, <2>2, <2>3 DEF StaleIsBusy
<1> QED
    BY <1>5, <1>7, <1>8

\* The client flushes all there is.
LEMMA ClientFlushRuns ==
  ASSUME RunsInv, NEW t \in Threads, ClientFlush(t) PROVE Restored' /\ Flushing' /\ StaleIsBusy'
<1> USE DEF RunsInv
<1>1. /\ UNCHANGED <<platform, item, prot, op>> /\ \A u \in Busy : ~op[u].append
      /\ code' = Extent(Base, item.position)
      /\ icache' = [a \in Buffer |-> IF ~Coherent /\ Base <= a /\ a < WriteAddress(item)
                                       THEN "empty" ELSE icache[a]]
      BY DEF ClientFlush, ClearInstructionCache
<1>2. Busy' = Busy
      BY <1>1 DEF Busy
<1>3. Restored'
      BY <1>1 DEF Restored
<1>4. Flushing'
      BY <1>1, <1>2 DEF Flushing
<1>5. StaleIsBusy'
  <2>1. item.position \in 0 .. Length /\ WriteAddress(item) = Base + item.position
        BY ItemArithmetic DEF SafeInv, CallsFit, CodeTypes
  <2>2. Extent(Base, item.position) \subseteq Buffer
        BY <2>1, CodeAssumption, WordAssumption DEF Extent, Buffer
  <2>3. Coherent' = Coherent /\ (Coherent => icache' = icache)
        BY <1>1 DEF Coherent, SafeInv, CallsFit, CodeTypes
  <2>4. ASSUME NEW a \in Extent(Base, item.position) PROVE icache'[a] # "stale"
    <3>1. Base <= a /\ a < WriteAddress(item)
          BY <2>1, CodeAssumption DEF Extent
    <3> QED
        BY <3>1, <2>2, <2>3, <1>1 DEF StaleIsBusy
  <2> QED
      BY <2>3, <2>4, <1>1 DEF StaleIsBusy
<1> QED
    BY <1>3, <1>4, <1>5

\* What the processor fetches is current.
LEMMA PrefetchRuns ==
  ASSUME RunsInv, NEW b \in Buffer, Prefetch(b) PROVE Restored' /\ Flushing' /\ StaleIsBusy'
<1>1. /\ icache' = [icache EXCEPT ![b] = "current"]
      /\ UNCHANGED <<platform, item, prot, code, op>>
      BY DEF Prefetch
<1>2. Busy' = Busy /\ Coherent' = Coherent /\ \A t \in Threads : Bytes(t)' = Bytes(t)
      BY <1>1 DEF Busy, Coherent, Bytes
<1>3. \A a \in Buffer : icache'[a] = "stale" => icache[a] = "stale"
      BY <1>1 DEF RunsInv, SafeInv, CallsFit, CodeTypes
<1>4. code \subseteq Buffer
      BY CodeInBuffer DEF RunsInv, SafeInv, CallsFit
<1>5. StaleIsBusy'
      BY <1>1, <1>2, <1>3, <1>4 DEF RunsInv, StaleIsBusy, Busy
<1>6. Restored' /\ Flushing'
      BY <1>1, <1>2 DEF RunsInv, Restored, Flushing, Busy
<1> QED
    BY <1>5, <1>6

\* RunsInv is inductive.
LEMMA NextRuns ==
  ASSUME SinglePage, SourcesBehind, RunsInv, [CodeNext]_codeVars PROVE RunsInv'
<1>1. SafeInv'
      BY NextSafe DEF RunsInv
<1>2. ASSUME NEW t \in Threads, NEW size \in 1 .. MaxWrite, NEW flushed \in BOOLEAN,
             AppendData(t, size, flushed)
      PROVE  Restored' /\ Flushing' /\ StaleIsBusy'
  <2> DEFINE call == [at |-> "copy", append |-> TRUE, target |-> WriteAddress(item), size |-> size,
                      guard |-> item.base,
                      flushEnd |-> IF flushed THEN WriteAddress(item) + size ELSE 0]
  <2>1. Begin(t, call) /\ call \in OpType /\ call.target = Base + item.position
        BY <1>2, AppendCall DEF RunsInv, SafeInv
  <2>2. call.at = "copy" /\ call.append /\ call.size = size
        OBVIOUS
  <2>3. call.flushEnd # 0 => call.flushEnd = call.target + call.size
        OBVIOUS
  <2>4. Extent(call.target, call.size) \cap code = {}
    <3>1. code \subseteq Extent(Base, item.position) /\ item.position \in Nat
          BY CodeAssumption, WordAssumption DEF RunsInv, SafeInv, CallsFit, CodeTypes
    <3> QED
        BY <3>1, <2>1, CodeAssumption DEF Extent
  <2>5. call.flushEnd # 0 => call.flushEnd >= call.target + call.size
        BY <2>1, <2>3 DEF OpType
  <2> HIDE DEF call
  <2> QED
      BY <2>1, <2>2, <2>4, <2>5, BeginRuns
<1>3. ASSUME NEW t \in Threads, NEW size \in 1 .. MaxWrite, NEW target \in code,
             NEW source \in Sources, NEW api \in {"rust", "c"},
             Overwrite(t, api, source, target, size)
      PROVE  Restored' /\ Flushing' /\ StaleIsBusy'
  <2> DEFINE call == [at |-> "copy", append |-> FALSE, target |-> target, size |-> size,
                      guard |-> target, flushEnd |-> FlushEnd(api, source, target, size)]
  <2>1. Begin(t, call) /\ call \in OpType /\ target \in Buffer
        BY <1>3, OverwriteCall DEF RunsInv, SafeInv
  <2>2. source \in Nat /\ source >= Base + Length
        BY CodeAssumption DEF SourcesBehind
  <2>3. call.flushEnd >= target + size /\ target + size > 0
        BY <2>1, <2>2, CodeAssumption, WordAssumption DEF FlushEnd, Buffer
  <2>4. call.at = "copy" /\ call.target = target /\ call.size = size
        OBVIOUS
  <2>5. call.flushEnd # 0
        BY <2>1, <2>3 DEF OpType, Buffer
  <2> HIDE DEF call
  <2> QED
      BY <2>1, <2>3, <2>4, <2>5, BeginRuns
<1>4. ASSUME NEW t \in Threads, Copy(t) \/ Restore(t) \/ Flush(t) \/ ClientFlush(t)
      PROVE  Restored' /\ Flushing' /\ StaleIsBusy'
      BY <1>4, CopyRuns, RestoreRuns, FlushRuns, ClientFlushRuns
<1>5. ASSUME NEW a \in Buffer, Prefetch(a) PROVE Restored' /\ Flushing' /\ StaleIsBusy'
      BY <1>5, PrefetchRuns
<1>6. CASE UNCHANGED codeVars
  <2> USE <1>6 DEF codeVars
  <2>1. Busy' = Busy /\ Coherent' = Coherent
        BY DEF Busy, Coherent
  <2>2. Restored' /\ Flushing'
        BY <2>1 DEF RunsInv, Restored, Flushing, Bytes
  <2>3. StaleIsBusy'
        BY <2>1 DEF RunsInv, StaleIsBusy, Bytes
  <2> QED
      BY <1>1, <2>2, <2>3 DEF RunsInv
<1> QED
    BY <1>1, <1>2, <1>3, <1>4, <1>5, <1>6 DEF CodeNext, RunsInv

\* Code in a buffer on one page, written from sources behind the buffer, can be run: the
\* processor does not fetch what was there before, and the page is executable once no
\* call is under way.
THEOREM WrittenCodeRuns ==
  ASSUME SinglePage, SourcesBehind PROVE CodeSpec => []CodeRuns
<1>1. RunsInv /\ [CodeNext]_codeVars => RunsInv'
      BY NextRuns
<1>2. RunsInv => CodeRuns
  <2> SUFFICES ASSUME RunsInv, NEW a \in code
               PROVE  /\ icache[a] = "stale" =>
                           \E t \in Busy : a \in Extent(op[t].target, op[t].size)
                      /\ Busy = {} => prot[a \div PageSize] # "rw"
      BY DEF CodeRuns
  <2>1. a \in Buffer /\ item.position # 0
        BY CodeInBuffer, CodeAssumption DEF RunsInv, SafeInv, CallsFit, CodeTypes, Extent
  <2>2. a \div PageSize \in PagesOf(Buffer)
        BY <2>1 DEF PagesOf
  <2>3. ASSUME Busy = {} PROVE prot[a \div PageSize] # "rw"
        BY <2>1, <2>2, <2>3 DEF RunsInv, Restored, Busy
  <2> QED
      BY <2>3 DEF RunsInv, StaleIsBusy, Bytes
<1> QED
    BY <1>1, <1>2, InitRuns, PTL DEF CodeSpec
=============================================================================
