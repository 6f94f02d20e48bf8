------------------------- MODULE LocatorHeaderFinderProofs -----------------------
(***************************************************************************)
(* Theorems about LocatorHeaderFinder: the threads and copies of a process *)
(* agree on one header, mapped and initialised once.                       *)
(***************************************************************************)
EXTENDS LocatorHeaderFinder, TLAPS

-----------------------------------------------------------------------------
\* The inductive invariant

Sharing(t) == copy(t) \notin private_copies

\* The thread has mapped a header and has not yet handed it on.
HasMapping(t) == pc[t] \in {"read", "cleanup", "publish", "initialize"}

\* Between processes there is nothing but files.
NoneRunning ==
  running = Null =>
    /\ resets = 0
    /\ \A c \in Copies : cached[c] = Null /\ mmf[c] = Null
    /\ \A t \in Threads : pc[t] = "idle" /\ found[t] = "none"

\* The locals of find.
Locals(t) ==
  /\ pc[t] \in {"open", "create", "truncate", "map", "read", "cleanup"} => Sharing(t)
  /\ pc[t] = "private" => ~Sharing(t)
  /\ pc[t] \in {"idle", "check", "lock", "open", "create", "truncate"} => ~existed[t]
  /\ pc[t] \in {"truncate", "map"} => fd[t] \in Files
  /\ HasMapping(t) => data[t] \in Addresses
  /\ pc[t] = "initialize" => cached[copy(t)] = data[t]

\* A mapping belongs to one thread, as long as find uses it, or to one copy.
Mappings ==
  /\ \A t \in Threads : HasMapping(t) => IF Sharing(t) THEN view[data[t]] \in Files
                                                       ELSE view[data[t]] = Private
  /\ \A t, u \in Threads : HasMapping(t) /\ HasMapping(u) /\ data[t] = data[u] => t = u
  /\ \A t \in Threads, c \in Copies : HasMapping(t) => mmf[c] # data[t]
  /\ \A c \in Copies : mmf[c] # Null => view[mmf[c]] \in Files
  /\ \A c, d \in Copies : mmf[c] # Null /\ mmf[c] = mmf[d] => c = d

\* A mapping of a file is kept alive by a copy or is in use by a thread.
MappingsUsed ==
  \A a \in Addresses : view[a] \in Files =>
    \/ \E c \in Copies : mmf[c] = a
    \/ \E t \in Threads : HasMapping(t) /\ data[t] = a

Basics ==
  TypeOK /\ NoneRunning /\ (\A t \in Threads : Locals(t)) /\ Mappings /\ MappingsUsed

\* What find returned is the address its copy still knows.
Known(t) ==
  /\ HasResult(t) => cached[copy(t)] # Null /\ found[t] = cached[copy(t)]
  /\ pc[t] = "return" => cached[copy(t)] # Null
  /\ pc[t] = "publish" => cached[copy(t)] = Null

\* A private copy has a block of its own.
PrivateBlocks ==
  \A c \in private_copies : cached[c] # Null =>
    /\ view[cached[c]] = Private
    /\ cached[c] \in prepared \/ \E u \in Threads : copy(u) = c /\ pc[u] = "initialize"

\* The thread makes the file, or fills it.
Creating(t) ==
  Sharing(t) /\ pc[t] \in {"truncate", "map", "cleanup", "publish", "initialize"}

\* There is no file yet, and one thread at most is about to make it.
Before ==
  /\ \A c \in Copies \ private_copies : cached[c] = Null /\ mmf[c] = Null
  /\ \A t \in Threads : Sharing(t) => pc[t] \in {"idle", "check", "lock", "open", "create"}
  /\ \A t, u \in Threads : pc[t] = "create" /\ pc[u] = "create" => t = u

\* There is a file without a header: the thread that made it is on its way to the
\* header, or has panicked; nobody else has seen the file.
During(f) ==
  /\ \A c \in Copies \ private_copies :
       /\ mmf[c] = Null
       /\ cached[c] # Null => \E t \in Threads : copy(t) = c /\ pc[t] = "initialize"
  /\ \A t \in Threads : Sharing(t) => pc[t] \notin {"create", "read", "return"}
  /\ \A t, u \in Threads : Creating(t) /\ Creating(u) => t = u
  /\ \A t \in Threads : Creating(t) =>
       /\ fd[t] = f /\ ~existed[t]
       /\ HasMapping(t) => view[data[t]] = f

\* The header is there: it lies where it says, and every copy knows it or will read it.
Since(f) ==
  LET here == file[f].this
  IN  /\ here \in Addresses /\ view[here] = f
      /\ \A c \in Copies \ private_copies : cached[c] \in {Null, here}
      /\ \A t \in Threads : Sharing(t) =>
           pc[t] \in {"idle", "check", "lock", "open", "map", "read", "return"}
      /\ \A t \in Threads : pc[t] = "map" => existed[t] /\ fd[t] = f
      /\ \A t \in Threads : pc[t] = "read" => view[data[t]] = f /\ data[t] # here

Phases ==
  running # Null /\ ~disturbed =>
    /\ resets = 0
    /\ \A t \in Threads : Known(t)
    /\ PrivateBlocks
    /\ LET f == name[running]
       IN  /\ f = Null => Before
           /\ f # Null /\ file[f].state # "initialized" => During(f)
           /\ f # Null /\ file[f].state = "initialized" => Since(f)

FinderInv == Basics /\ Phases

-----------------------------------------------------------------------------
\* The initial state, and the end of a process

\* Before the first process there is nothing.
LEMMA InitFinder == Init => FinderInv
<1> SUFFICES ASSUME Init PROVE FinderInv
    OBVIOUS
<1>1. TypeOK
  <2>1. existed \in [Threads -> BOOLEAN]
        BY DEF Init
  <2>2. file \in [Files -> [state : {"none", "empty", "sized", "initialized"},
                            this : Addresses \cup {Null}]]
        BY DEF Init, NoFile
  <2>3. resets \in Nat /\ failures \in 0 .. MaxFailures /\ starts \in 0 .. MaxStarts
        BY FinderAssumption DEF Init
  <2>4. name \in [Pids -> Files \cup {Null}] /\ pc \in [Threads -> Locations]
        BY DEF Init, Locations
  <2> QED
      BY <2>1, <2>2, <2>3, <2>4, FinderAssumption DEF Init, TypeOK
<1>2. Basics
      BY <1>1, FinderAssumption
      DEF Init, Basics, NoneRunning, Locals, Mappings, MappingsUsed, HasMapping
<1>3. Phases
      BY DEF Init, Phases
<1> QED
    BY <1>2, <1>3 DEF FinderInv

\* A process that ends, by itself or by an error, leaves nothing but files.
LEMMA DieFinder == ASSUME TypeOK, Die PROVE FinderInv'
<1>1. TypeOK'
  <2>1. existed' \in [Threads -> BOOLEAN]
        BY DEF Die, NoProcess
  <2>2. file' \in [Files -> [state : {"none", "empty", "sized", "initialized"},
                             this : Addresses \cup {Null}]]
        BY DEF Die, NoFile, TypeOK
  <2>3. resets' \in Nat /\ failures' \in 0 .. MaxFailures
        BY FinderAssumption DEF Die, NoProcess
  <2>4. name' \in [Pids -> Files \cup {Null}] /\ pc' \in [Threads -> Locations]
        BY DEF Die, NoProcess, Locations, TypeOK
  <2> QED
      BY <2>1, <2>2, <2>3, <2>4, FinderAssumption DEF Die, NoProcess, TypeOK, buildVars
<1>2. Basics'
      BY <1>1, FinderAssumption
      DEF Die, NoProcess, Basics, NoneRunning, Locals, Mappings, MappingsUsed, HasMapping
<1>3. Phases'
      BY DEF Die, Phases
<1> QED
    BY <1>2, <1>3 DEF FinderInv

-----------------------------------------------------------------------------
\* Steps of find, whatever disturbs them

\* A call of find begins: types, locals and mappings stay in order.
LEMMA CallFindBasics ==
  ASSUME Basics, NEW t \in Threads, CallFind(t) PROVE Basics'
<1> USE FinderAssumption DEF Basics
<1>1. TypeOK'
      BY DEF CallFind, Goto, processVars, buildVars, fileVars, localVars, historyVars, TypeOK,
             Locations, copy, Locals
<1>2. NoneRunning'
      BY DEF CallFind, Goto, processVars, fileVars, localVars, historyVars, NoneRunning, TypeOK
<1>3. \A u \in Threads : Locals(u)'
      BY DEF CallFind, Goto, processVars, buildVars, localVars, TypeOK, Locals, Sharing,
             HasMapping, copy
<1>4. Mappings'
      BY DEF CallFind, Goto, processVars, buildVars, localVars, TypeOK, Locals, Mappings,
             Sharing, HasMapping, copy
<1>5. MappingsUsed'
      BY DEF CallFind, Goto, localVars, TypeOK, Locals, Mappings, MappingsUsed, HasMapping, copy
<1> QED
    BY <1>1, <1>2, <1>3, <1>4, <1>5

\* The cached address is looked at: types, locals and mappings stay in order.
LEMMA CheckCachedBasics ==
  ASSUME Basics, NEW t \in Threads, CheckCached(t) PROVE Basics'
<1> USE FinderAssumption DEF Basics
<1>1. TypeOK'
  <2>1. pc' \in [Threads -> Locations]
       BY DEF CheckCached, Goto, Locations, TypeOK
  <2>2. found' \in [Threads -> Addresses \cup {Null, "none"}]
       BY DEF CheckCached, copy, TypeOK
  <2>3. \A u \in Threads : pc'[u] \notin {"idle", "check", "lock"} => global_lock'[copy(u)] = u
       BY DEF CheckCached, Goto, copy, TypeOK
  <2> QED
      BY <2>1, <2>2, <2>3
      DEF CheckCached, Goto, processVars, buildVars, fileVars, localVars, historyVars, TypeOK
<1>2. NoneRunning'
      BY DEF CheckCached, Goto, processVars, fileVars, localVars, historyVars, NoneRunning,
             TypeOK
<1>3. \A u \in Threads : Locals(u)'
      BY DEF CheckCached, Goto, processVars, buildVars, localVars, TypeOK, Locals, Sharing,
             HasMapping, copy
<1>4. Mappings'
      BY SMTT(60) DEF CheckCached, Goto, processVars, buildVars, localVars, TypeOK, Locals, Mappings,
             Sharing, HasMapping, copy
<1>5. MappingsUsed'
      BY SMTT(60) DEF CheckCached, Goto, localVars, TypeOK, Locals, Mappings, MappingsUsed, HasMapping,
             copy
<1> QED
    BY <1>1, <1>2, <1>3, <1>4, <1>5

\* GLOBAL_LOCK is taken: types, locals and mappings stay in order.
LEMMA LockGlobalBasics ==
  ASSUME Basics, NEW t \in Threads, LockGlobal(t) PROVE Basics'
<1> USE FinderAssumption DEF Basics
<1>1. TypeOK'
  <2>1. pc' \in [Threads -> Locations]
       BY DEF LockGlobal, Goto, Locations, TypeOK
  <2>2. global_lock' \in [Copies -> Threads \cup {Null}]
       BY DEF LockGlobal, copy, TypeOK
  <2>3. \A u \in Threads : pc'[u] \notin {"idle", "check", "lock"} => global_lock'[copy(u)] = u
    <3> TAKE u \in Threads
    <3>1. CASE u = t
          BY <3>1 DEF LockGlobal, copy, TypeOK
    <3>2. CASE u # t /\ copy(u) = copy(t)
          BY <3>2 DEF LockGlobal, Goto, copy, TypeOK
    <3>3. CASE copy(u) # copy(t)
          BY <3>3 DEF LockGlobal, Goto, copy, TypeOK
    <3> QED
        BY <3>1, <3>2, <3>3
  <2> QED
      BY <2>1, <2>2, <2>3
      DEF LockGlobal, Goto, processVars, buildVars, fileVars, localVars, historyVars, TypeOK
<1>2. NoneRunning'
      BY DEF LockGlobal, Goto, processVars, fileVars, localVars, historyVars, NoneRunning,
             TypeOK
<1>3. \A u \in Threads : Locals(u)'
      BY DEF LockGlobal, Goto, processVars, buildVars, localVars, TypeOK, Locals, Sharing,
             HasMapping, copy
<1>4. Mappings'
      BY DEF LockGlobal, Goto, processVars, buildVars, localVars, TypeOK, Locals, Mappings,
             Sharing, HasMapping, copy
<1>5. MappingsUsed'
      BY DEF LockGlobal, Goto, localVars, TypeOK, Locals, Mappings, MappingsUsed, HasMapping,
             copy
<1> QED
    BY <1>1, <1>2, <1>3, <1>4, <1>5

\* find returns: types, locals and mappings stay in order.
LEMMA ReturnAddressBasics ==
  ASSUME Basics, NEW t \in Threads, ReturnAddress(t) PROVE Basics'
<1> USE FinderAssumption DEF Basics
<1>1. TypeOK'
  <2>1. pc' \in [Threads -> Locations]
       BY DEF ReturnAddress, CloseLocals, Goto, Locations, TypeOK
  <2>2. global_lock' \in [Copies -> Threads \cup {Null}]
       BY DEF ReturnAddress, CloseLocals, copy, TypeOK
  <2>3. fd' \in [Threads -> Files \cup {Null}]
       BY DEF ReturnAddress, CloseLocals, TypeOK, NoneRunning
  <2>4. data' \in [Threads -> Addresses \cup {Null}]
       BY DEF ReturnAddress, CloseLocals, TypeOK
  <2>5. existed' \in [Threads -> BOOLEAN]
       BY DEF ReturnAddress, CloseLocals, TypeOK
  <2>6. found' \in [Threads -> Addresses \cup {Null, "none"}]
    <3>1. cached[copy(t)] \in Addresses \cup {Null}
          BY DEF TypeOK, copy
    <3> QED
        BY <3>1 DEF ReturnAddress, TypeOK
  <2>7. \A u \in Threads : pc'[u] \notin {"idle", "check", "lock"} => global_lock'[copy(u)] = u
       BY DEF ReturnAddress, CloseLocals, Goto, copy, TypeOK
  <2> QED
      BY <2>1, <2>2, <2>3, <2>4, <2>5, <2>6, <2>7
      DEF ReturnAddress, CloseLocals, Goto, processVars, buildVars, fileVars, historyVars,
          TypeOK
<1>2. NoneRunning'
      BY DEF ReturnAddress, CloseLocals, Goto, processVars, fileVars, historyVars, NoneRunning,
             TypeOK
<1>3. \A u \in Threads : Locals(u)'
      BY DEF ReturnAddress, CloseLocals, Goto, processVars, buildVars, TypeOK, Locals, Sharing,
             HasMapping, copy
<1>4. Mappings'
      BY DEF ReturnAddress, CloseLocals, Goto, processVars, buildVars, TypeOK, Locals, Mappings,
             Sharing, HasMapping, copy
<1>5. MappingsUsed'
      BY DEF ReturnAddress, CloseLocals, Goto, TypeOK, Locals, Mappings, MappingsUsed,
             HasMapping, copy
<1> QED
    BY <1>1, <1>2, <1>3, <1>4, <1>5

\* The first open: types, locals and mappings stay in order.
LEMMA OpenFileBasics ==
  ASSUME Basics, NEW t \in Threads, OpenFile(t) PROVE Basics'
<1> USE FinderAssumption DEF Basics
<1>1. TypeOK'
  <2>1. pc' \in [Threads -> Locations]
       BY DEF OpenFile, Goto, Locations, TypeOK
  <2>2. fd' \in [Threads -> Files \cup {Null}]
       BY DEF OpenFile, TypeOK, NoneRunning
  <2>3. existed' \in [Threads -> BOOLEAN]
       BY DEF OpenFile, TypeOK
  <2>4. disturbed' \in BOOLEAN
       BY DEF OpenFile, TypeOK
  <2>5. \A u \in Threads : pc'[u] \notin {"idle", "check", "lock"} => global_lock'[copy(u)] = u
       BY DEF OpenFile, Goto, copy, TypeOK
  <2> QED
      BY <2>1, <2>2, <2>3, <2>4, <2>5
      DEF OpenFile, Goto, processVars, buildVars, fileVars, TypeOK
<1>2. NoneRunning'
      BY DEF OpenFile, Goto, processVars, fileVars, NoneRunning, TypeOK
<1>3. \A u \in Threads : Locals(u)'
  <2>1. running \in Pids
        BY DEF NoneRunning, TypeOK, OpenFile
  <2>2. ASSUME NEW u \in Threads, u # t PROVE Locals(u)'
        BY <2>2
        DEF OpenFile, Goto, processVars, buildVars, TypeOK, Locals, Sharing, HasMapping, copy
  <2>3. CASE name[running] # Null
    <3>1. fd'[t] \in Files /\ pc'[t] = "map"
          BY <2>1, <2>3 DEF OpenFile, Goto, TypeOK
    <3> QED
        BY <3>1, <2>2
        DEF OpenFile, processVars, buildVars, TypeOK, Locals, Sharing, HasMapping, copy
  <2>4. CASE name[running] = Null
    <3>1. pc'[t] = "create"
          BY <2>4 DEF OpenFile, Goto, TypeOK
    <3>2. existed'[t] = (name[running] # Null)
          BY DEF OpenFile, TypeOK
    <3>3. ~existed'[t]
          BY <2>4, <3>2
    <3> QED
        BY <3>1, <3>3, <2>2
        DEF OpenFile, processVars, buildVars, TypeOK, Locals, Sharing, HasMapping, copy
  <2> QED
      BY <2>3, <2>4
<1>4. Mappings'
      BY DEF OpenFile, Goto, processVars, buildVars, TypeOK, Locals, Mappings, Sharing,
             HasMapping, copy
<1>5. MappingsUsed'
      BY DEF OpenFile, Goto, TypeOK, Locals, Mappings, MappingsUsed, HasMapping, copy
<1> QED
    BY <1>1, <1>2, <1>3, <1>4, <1>5

\* The first open fails: types, locals and mappings stay in order.
LEMMA OpenFileFailsBasics ==
  ASSUME Basics, NEW t \in Threads, OpenFileFails(t) PROVE Basics'
<1> USE FinderAssumption DEF Basics
<1>1. TypeOK'
      BY DEF OpenFileFails, Fails, Goto, processVars, buildVars, fileVars, localVars, TypeOK,
             Locations, copy, Locals
<1>2. NoneRunning'
      BY DEF OpenFileFails, Fails, Goto, processVars, fileVars, localVars, NoneRunning, TypeOK
<1>3. \A u \in Threads : Locals(u)'
      BY DEF OpenFileFails, Fails, Goto, processVars, buildVars, localVars, TypeOK, Locals,
             Sharing, HasMapping, copy
<1>4. Mappings'
      BY DEF OpenFileFails, Goto, processVars, buildVars, localVars, TypeOK, Locals, Mappings,
             Sharing, HasMapping, copy
<1>5. MappingsUsed'
      BY SMTT(60) DEF OpenFileFails, Goto, localVars, TypeOK, Locals, Mappings, MappingsUsed, HasMapping,
             copy
<1> QED
    BY <1>1, <1>2, <1>3, <1>4, <1>5

\* The second open: types, locals and mappings stay in order.
LEMMA CreateFileBasics ==
  ASSUME Basics, NEW t \in Threads, CreateFile(t) PROVE Basics'
<1> USE FinderAssumption DEF Basics
<1>1. TypeOK'
  <2>1. pc' \in [Threads -> Locations]
       BY DEF CreateFile, UnusedFiles, Goto, Locations, TypeOK
  <2>2. fd' \in [Threads -> Files \cup {Null}]
       BY DEF CreateFile, UnusedFiles, TypeOK, NoneRunning
  <2>3. name' \in [Pids -> Files \cup {Null}]
       BY DEF CreateFile, UnusedFiles, TypeOK, NoneRunning
  <2>4. file' \in [Files -> [state : {"none", "empty", "sized", "initialized"},
                             this : Addresses \cup {Null}]]
    <3>1. PICK f \in Files :
             file' = [file EXCEPT ![f].state =
                        IF @ # "none" THEN @ ELSE IF os = "unix" THEN "empty" ELSE "sized"]
          BY DEF CreateFile
    <3> QED
        BY <3>1 DEF TypeOK
  <2>5. \A u \in Threads : pc'[u] \notin {"idle", "check", "lock"} => global_lock'[copy(u)] = u
       BY DEF CreateFile, UnusedFiles, Goto, copy, TypeOK
  <2> QED
      BY <2>1, <2>2, <2>3, <2>4, <2>5
      DEF CreateFile, UnusedFiles, Goto, processVars, buildVars, historyVars, TypeOK
<1>2. NoneRunning'
      BY DEF CreateFile, Goto, processVars, historyVars, NoneRunning, TypeOK
<1>3. \A u \in Threads : Locals(u)'
      BY DEF CreateFile, UnusedFiles, Goto, processVars, buildVars, TypeOK, Locals, Sharing,
             HasMapping, copy
<1>4. Mappings'
      BY DEF CreateFile, Goto, processVars, buildVars, TypeOK, Locals, Mappings, Sharing,
             HasMapping, copy
<1>5. MappingsUsed'
      BY DEF CreateFile, Goto, TypeOK, Locals, Mappings, MappingsUsed, HasMapping, copy
<1> QED
    BY <1>1, <1>2, <1>3, <1>4, <1>5

\* ftruncate: types, locals and mappings stay in order.
LEMMA TruncateFileBasics ==
  ASSUME Basics, NEW t \in Threads, TruncateFile(t) PROVE Basics'
<1> USE FinderAssumption DEF Basics
<1>1. TypeOK'
      BY SMTT(60) DEF TruncateFile, Fails, Goto, processVars, buildVars, localVars, historyVars, TypeOK,
             Locations, copy, Locals
<1>2. NoneRunning'
      BY DEF TruncateFile, Fails, Goto, processVars, localVars, historyVars, NoneRunning, TypeOK
<1>3. \A u \in Threads : Locals(u)'
      BY DEF TruncateFile, Fails, Goto, processVars, buildVars, localVars, TypeOK, Locals,
             Sharing, HasMapping, copy
<1>4. Mappings'
      BY DEF TruncateFile, Goto, processVars, buildVars, localVars, TypeOK, Locals, Mappings,
             Sharing, HasMapping, copy
<1>5. MappingsUsed'
      BY DEF TruncateFile, Goto, localVars, TypeOK, Locals, Mappings, MappingsUsed, HasMapping,
             copy
<1> QED
    BY <1>1, <1>2, <1>3, <1>4, <1>5

\* mmap or MapViewOfFile: types, locals and mappings stay in order.
LEMMA MapFileBasics ==
  ASSUME Basics, NEW t \in Threads, NEW a \in Addresses, MapFile(t, a) PROVE Basics'
<1> USE FinderAssumption DEF Basics
<1>1. TypeOK'
      BY DEF MapFile, FreeAddresses, Goto, processVars, buildVars, fileVars, historyVars,
             TypeOK, Locations, copy, Locals
<1>2. NoneRunning'
      BY DEF MapFile, Goto, processVars, fileVars, historyVars, NoneRunning, TypeOK
<1>3. \A u \in Threads : Locals(u)'
      BY DEF MapFile, FreeAddresses, Goto, processVars, buildVars, TypeOK, Locals, Sharing,
             HasMapping, copy
<1>4. Mappings'
  <2>1. view'[a] = fd[t] /\ view[a] = Unmapped /\ \A b \in Addresses \ {a} : view'[b] = view[b]
        BY DEF MapFile, FreeAddresses, TypeOK
  <2>2. data'[t] = a /\ HasMapping(t)' /\ ~HasMapping(t) /\ Sharing(t)' = Sharing(t)
        BY DEF MapFile, Goto, TypeOK, HasMapping, Sharing, processVars, buildVars, copy
  <2>3. ASSUME NEW u \in Threads, u # t
        PROVE  data'[u] = data[u] /\ HasMapping(u)' = HasMapping(u) /\ Sharing(u)' = Sharing(u)
        BY <2>3 DEF MapFile, Goto, TypeOK, HasMapping, Sharing, processVars, buildVars, copy
  <2>4. ASSUME NEW u \in Threads, HasMapping(u) PROVE data[u] \in Addresses \ {a}
        BY <2>4, <2>1 DEF Locals, Mappings, Unmapped, Private
  <2>5. ASSUME NEW c \in Copies PROVE mmf'[c] = mmf[c] /\ mmf[c] # a
        BY <2>1 DEF MapFile, Mappings, Unmapped
  <2>6. \A c \in Copies : mmf[c] # Null => mmf[c] \in Addresses
        BY DEF TypeOK
  <2>7. \A u \in Threads : HasMapping(u)' => IF Sharing(u)' THEN view'[data'[u]] \in Files
                                                            ELSE view'[data'[u]] = Private
        BY <2>1, <2>2, <2>3, <2>4 DEF MapFile, Mappings, Locals
  <2>8. \A u, v \in Threads : HasMapping(u)' /\ HasMapping(v)' /\ data'[u] = data'[v] => u = v
        BY <2>2, <2>3, <2>4 DEF Mappings
  <2>9. \A u \in Threads, c \in Copies : HasMapping(u)' => mmf'[c] # data'[u]
        BY <2>2, <2>3, <2>5 DEF Mappings
  <2>10. \A c \in Copies : mmf'[c] # Null => view'[mmf'[c]] \in Files
        BY <2>1, <2>5, <2>6 DEF Mappings
  <2> QED
      BY <2>5, <2>7, <2>8, <2>9, <2>10 DEF Mappings
<1>5. MappingsUsed'
  <2>1. ASSUME NEW b \in Addresses, b # a PROVE view'[b] = view[b]
        BY <2>1 DEF MapFile, TypeOK
  <2>2. data'[t] = a /\ HasMapping(t)' /\ ~HasMapping(t)
        BY DEF MapFile, Goto, TypeOK, HasMapping
  <2>3. ASSUME NEW u \in Threads, u # t PROVE data'[u] = data[u] /\ HasMapping(u)' = HasMapping(u)
        BY <2>3 DEF MapFile, Goto, TypeOK, HasMapping
  <2> QED
      BY <2>1, <2>2, <2>3 DEF MapFile, MappingsUsed
<1> QED
    BY <1>1, <1>2, <1>3, <1>4, <1>5

\* A panic: types, locals and mappings stay in order.
LEMMA PanicBasics ==
  ASSUME Basics, NEW t \in Threads, Panic(t) PROVE Basics'
<1> USE FinderAssumption DEF Basics
<1>1. TypeOK'
  <2>1. pc' \in [Threads -> Locations]
       BY DEF Panic, Fails, CloseLocals, Goto, Locations, TypeOK
  <2>2. global_lock' \in [Copies -> Threads \cup {Null}]
       BY DEF Panic, Fails, CloseLocals, copy, TypeOK
  <2>3. fd' \in [Threads -> Files \cup {Null}]
       BY DEF Panic, Fails, CloseLocals, TypeOK, NoneRunning
  <2>4. data' \in [Threads -> Addresses \cup {Null}]
       BY DEF Panic, Fails, CloseLocals, TypeOK
  <2>5. existed' \in [Threads -> BOOLEAN]
       BY DEF Panic, Fails, CloseLocals, TypeOK
  <2>6. \A u \in Threads : pc'[u] \notin {"idle", "check", "lock"} => global_lock'[copy(u)] = u
       BY DEF Panic, Fails, CloseLocals, Goto, copy, TypeOK
  <2> QED
      BY <2>1, <2>2, <2>3, <2>4, <2>5, <2>6
      DEF Panic, Fails, CloseLocals, Goto, processVars, buildVars, fileVars, historyVars, TypeOK
<1>2. NoneRunning'
      BY DEF Panic, Fails, CloseLocals, Goto, processVars, fileVars, historyVars, NoneRunning,
             TypeOK
<1>3. \A u \in Threads : Locals(u)'
      BY DEF Panic, Fails, CloseLocals, Goto, processVars, buildVars, TypeOK, Locals, Sharing,
             HasMapping, copy
<1>4. Mappings'
      BY DEF Panic, CloseLocals, Goto, processVars, buildVars, TypeOK, Locals, Mappings,
             Sharing, HasMapping, copy
<1>5. MappingsUsed'
      BY DEF Panic, CloseLocals, Goto, TypeOK, Locals, Mappings, MappingsUsed, HasMapping, copy
<1> QED
    BY <1>1, <1>2, <1>3, <1>4, <1>5

\* this_address is read and the mapping dropped: types, locals and mappings stay in order.
LEMMA ReadThisAddressBasics ==
  ASSUME Basics, NEW t \in Threads, ReadThisAddress(t) PROVE Basics'
<1> USE FinderAssumption DEF Basics
<1>1. TypeOK'
  <2>1. pc' \in [Threads -> Locations]
       BY DEF ReadThisAddress, MappedFile, Mappings, Goto, Locations, TypeOK
  <2>2. cached' \in [Copies -> Addresses \cup {Null}]
       BY ZenonT(60) DEF ReadThisAddress, MappedFile, Mappings, Goto, processVars, buildVars, fileVars,
              localVars, historyVars, copy, Locals, HasMapping, TypeOK
  <2>3. view' \in [Addresses -> {Unmapped, Private} \cup Files]
       BY DEF ReadThisAddress, MappedFile, Mappings, TypeOK
  <2>4. \A u \in Threads : pc'[u] \notin {"idle", "check", "lock"} => global_lock'[copy(u)] = u
       BY DEF ReadThisAddress, MappedFile, Mappings, Goto, copy, TypeOK
  <2> QED
      BY <2>1, <2>2, <2>3, <2>4
      DEF ReadThisAddress, Mappings, Goto, processVars, buildVars, fileVars, localVars,
          historyVars, TypeOK
<1>2. NoneRunning'
      BY DEF ReadThisAddress, Goto, processVars, fileVars, localVars, historyVars, NoneRunning,
             TypeOK
<1>3. \A u \in Threads : Locals(u)'
      BY DEF ReadThisAddress, MappedFile, Goto, processVars, buildVars, localVars, TypeOK,
             Locals, Sharing, HasMapping, copy
<1>4. Mappings'
      BY DEF ReadThisAddress, MappedFile, Goto, processVars, buildVars, localVars, TypeOK,
             Locals, Mappings, Sharing, HasMapping, copy
<1>5. MappingsUsed'
      BY DEF ReadThisAddress, MappedFile, Goto, localVars, TypeOK, Locals, Mappings,
             MappingsUsed, HasMapping, copy
<1> QED
    BY <1>1, <1>2, <1>3, <1>4, <1>5

\* cleanup(): types, locals and mappings stay in order.
LEMMA CleanupBasics ==
  ASSUME Basics, NEW t \in Threads, Cleanup(t) PROVE Basics'
<1> USE FinderAssumption DEF Basics
<1>1. TypeOK'
      BY DEF Cleanup, Goto, processVars, buildVars, fileVars, localVars, historyVars, TypeOK,
             Locations, copy, Locals
<1>2. NoneRunning'
      BY DEF Cleanup, Goto, processVars, fileVars, localVars, historyVars, NoneRunning, TypeOK
<1>3. \A u \in Threads : Locals(u)'
      BY DEF Cleanup, Goto, processVars, buildVars, localVars, TypeOK, Locals, Sharing,
             HasMapping, copy
<1>4. Mappings'
      BY DEF Cleanup, Goto, processVars, buildVars, localVars, TypeOK, Locals, Mappings,
             Sharing, HasMapping, copy
<1>5. MappingsUsed'
      BY DEF Cleanup, Goto, localVars, TypeOK, Locals, Mappings, MappingsUsed, HasMapping, copy
<1> QED
    BY <1>1, <1>2, <1>3, <1>4, <1>5

\* LOCATOR_HEADER_ADDRESS is set: types, locals and mappings stay in order.
LEMMA PublishAddressBasics ==
  ASSUME Basics, NEW t \in Threads, PublishAddress(t) PROVE Basics'
<1> USE FinderAssumption DEF Basics
<1>1. TypeOK'
      BY ZenonT(60) DEF PublishAddress, Goto, processVars, buildVars, fileVars, localVars, historyVars,
             TypeOK, Locations, copy, Locals
<1>2. NoneRunning'
      BY DEF PublishAddress, Goto, processVars, fileVars, localVars, historyVars, NoneRunning,
             TypeOK
<1>3. \A u \in Threads : Locals(u)'
  <2>1. cached'[copy(t)] = data[t]
        BY DEF PublishAddress, TypeOK, copy
  <2>2. ASSUME NEW u \in Threads, u # t, pc[u] = "initialize"
        PROVE  cached'[copy(u)] = cached[copy(u)]
        BY <2>2, SMTT(60) DEF PublishAddress, TypeOK, copy
  <2> QED
      BY <2>1, <2>2
      DEF PublishAddress, Goto, processVars, buildVars, fileVars, localVars, historyVars,
          TypeOK, Locals, Sharing, HasMapping, copy
<1>4. Mappings'
      BY DEF PublishAddress, Goto, processVars, buildVars, localVars, TypeOK, Locals, Mappings,
             Sharing, HasMapping, copy
<1>5. MappingsUsed'
      BY DEF PublishAddress, Goto, localVars, TypeOK, Locals, Mappings, MappingsUsed,
             HasMapping, copy
<1> QED
    BY <1>1, <1>2, <1>3, <1>4, <1>5

\* The header is initialised: types, locals and mappings stay in order.
LEMMA InitializeHeaderBasics ==
  ASSUME Basics, NEW t \in Threads, InitializeHeader(t) PROVE Basics'
<1> USE FinderAssumption DEF Basics
<1> DEFINE a == cached[copy(t)]
<1>1. a = data[t] /\ a \in Addresses /\ HasMapping(t) /\ pc[t] = "initialize"
      BY DEF InitializeHeader, Locals, HasMapping
<1>2. pc' = [pc EXCEPT ![t] = "return"] /\ ~HasMapping(t)'
      BY DEF InitializeHeader, Goto, TypeOK, HasMapping
<1>3. ASSUME NEW u \in Threads, u # t PROVE HasMapping(u)' = HasMapping(u)
      BY <1>2, <1>3 DEF HasMapping, TypeOK
<1>4. UNCHANGED <<os, private_copies, running, starts, cached, global_lock, fd, data, existed,
                  found, failures, disturbed>>
      BY DEF InitializeHeader, processVars, buildVars, localVars
<1>5. \A u \in Threads : Sharing(u)' = Sharing(u)
      BY <1>4 DEF Sharing, copy
<1>6. NoneRunning'
      BY <1>1, <1>2, <1>4 DEF NoneRunning
<1>7. \A u \in Threads : Locals(u)'
      BY <1>2, <1>3, <1>4, <1>5 DEF Locals, TypeOK, copy, HasMapping
<1>8. pc' \in [Threads -> Locations]
      BY <1>2 DEF TypeOK, Locations
<1>9. \A u \in Threads : pc'[u] \notin {"idle", "check", "lock"} => global_lock'[copy(u)] = u
      BY <1>1, <1>2, <1>4 DEF TypeOK, copy
<1>10. CASE view[a] = Private
  <2>1. UNCHANGED <<name, file, view, mmf, resets>> /\ prepared' = prepared \cup {a}
        BY <1>10 DEF InitializeHeader, fileVars
  <2>2. prepared' \subseteq Addresses
        BY <2>1, <1>1 DEF TypeOK
  <2>3. TypeOK'
        BY <2>1, <2>2, <1>4, <1>8, <1>9 DEF TypeOK
  <2>4. Mappings'
        BY <2>1, <1>2, <1>3, <1>4, <1>5 DEF Mappings
  <2>5. MappingsUsed'
        BY <2>1, <1>1, <1>2, <1>3, <1>4, <1>10 DEF MappingsUsed, Private
  <2> QED
      BY <2>3, <2>4, <2>5, <1>6, <1>7
<1>11. CASE view[a] # Private
  <2>1. /\ file' = [file EXCEPT ![view[a]] = [state |-> "initialized", this |-> a]]
        /\ resets' = resets + (IF file[view[a]].state = "initialized" THEN 1 ELSE 0)
        /\ mmf' = [mmf EXCEPT ![copy(t)] = data[t]]
        /\ view' = [b \in Addresses |-> IF b = mmf[copy(t)] THEN Unmapped ELSE view[b]]
        /\ name' \in {name, [name EXCEPT ![running] = Null]}
        /\ prepared' = prepared
        BY <1>11 DEF InitializeHeader, DropMmf
  <2>2. file' \in [Files -> [state : {"none", "empty", "sized", "initialized"},
                             this : Addresses \cup {Null}]]
        BY <2>1, <1>1 DEF TypeOK
  <2>3. name' \in [Pids -> Files \cup {Null}] /\ resets' \in Nat
        BY <2>1 DEF TypeOK
  <2>4. mmf' \in [Copies -> Addresses \cup {Null}]
        BY <2>1, <1>1 DEF TypeOK
  <2>5. view' \in [Addresses -> {Unmapped, Private} \cup Files]
        BY <2>1 DEF TypeOK
  <2>6. TypeOK'
        BY <2>1, <2>2, <2>3, <2>4, <2>5, <1>4, <1>8, <1>9 DEF TypeOK
  <2>7. mmf'[copy(t)] = a /\ \A c \in Copies \ {copy(t)} : mmf'[c] = mmf[c]
        BY <2>1, <1>1 DEF TypeOK, copy
  <2>8. copy(t) \in Copies /\ mmf[copy(t)] # a
        BY <1>1 DEF copy, Mappings
  <2>9. view'[a] = view[a] /\ view[a] \in Files
        BY <2>1, <2>8, <1>1, <1>11 DEF Mappings
  <2>10. ASSUME NEW u \in Threads, u # t, HasMapping(u)
         PROVE  /\ data[u] # a /\ view'[data[u]] = view[data[u]]
                /\ \A c \in Copies : mmf[c] # data[u]
         BY <2>1, <2>8, <2>10, <1>1 DEF Mappings, Locals
  <2>11. ASSUME NEW c \in Copies, c # copy(t), mmf[c] # Null
         PROVE  mmf[c] # a /\ view'[mmf[c]] = view[mmf[c]]
         BY <2>1, <2>8, <2>11, <1>1 DEF Mappings, TypeOK
  <2>12. Mappings'
    <3>1. \A u \in Threads : HasMapping(u)' => IF Sharing(u)' THEN view'[data'[u]] \in Files
                                                              ELSE view'[data'[u]] = Private
          BY <2>10, <1>2, <1>3, <1>4, <1>5 DEF Mappings
    <3>2. \A u, v \in Threads : HasMapping(u)' /\ HasMapping(v)' /\ data'[u] = data'[v] => u = v
          BY <1>2, <1>3, <1>4 DEF Mappings
    <3>3. \A u \in Threads, c \in Copies : HasMapping(u)' => mmf'[c] # data'[u]
          BY <2>7, <2>10, <1>2, <1>3, <1>4
    <3>4. \A c \in Copies : mmf'[c] # Null => view'[mmf'[c]] \in Files
          BY <2>7, <2>9, <2>11 DEF Mappings
    <3>5. \A c, d \in Copies : mmf'[c] # Null /\ mmf'[c] = mmf'[d] => c = d
          BY <2>7, <2>11, <1>1 DEF Mappings
    <3> QED
        BY <3>1, <3>2, <3>3, <3>4, <3>5 DEF Mappings
  <2>13. MappingsUsed'
    <3> SUFFICES ASSUME NEW b \in Addresses, view'[b] \in Files
                 PROVE  \/ \E c \in Copies : mmf'[c] = b
                        \/ \E u \in Threads : HasMapping(u)' /\ data'[u] = b
        BY DEF MappingsUsed
    <3>1. b # mmf[copy(t)] /\ view[b] \in Files
          BY <2>1
    <3>2. CASE b = a
          BY <3>2, <2>7, <2>8
    <3>3. CASE b # a
          BY <3>1, <3>3, <2>7, <1>1, <1>3, <1>4 DEF MappingsUsed
    <3> QED
        BY <3>2, <3>3
  <2> QED
      BY <2>6, <2>12, <2>13, <1>6, <1>7
<1> QED
    BY <1>10, <1>11

\* A private block is allocated: types, locals and mappings stay in order.
LEMMA AllocatePrivateBasics ==
  ASSUME Basics, NEW t \in Threads, NEW a \in Addresses, AllocatePrivate(t, a) PROVE Basics'
<1> USE FinderAssumption DEF Basics
<1>1. TypeOK'
      BY DEF AllocatePrivate, FreeAddresses, Goto, processVars, buildVars, fileVars, TypeOK,
             Locations, copy, Locals
<1>2. NoneRunning'
      BY DEF AllocatePrivate, Goto, processVars, fileVars, NoneRunning, TypeOK
<1>3. \A u \in Threads : Locals(u)'
      BY DEF AllocatePrivate, FreeAddresses, Goto, processVars, buildVars, TypeOK, Locals,
             Sharing, HasMapping, copy
<1>4. Mappings'
  <2>1. view'[a] = Private /\ view[a] = Unmapped /\ \A b \in Addresses \ {a} : view'[b] = view[b]
        BY DEF AllocatePrivate, FreeAddresses, TypeOK
  <2>2. data'[t] = a /\ HasMapping(t)' /\ ~HasMapping(t) /\ Sharing(t)' = Sharing(t)
        BY DEF AllocatePrivate, Goto, TypeOK, HasMapping, Sharing, processVars, buildVars, copy
  <2>3. ASSUME NEW u \in Threads, u # t
        PROVE  data'[u] = data[u] /\ HasMapping(u)' = HasMapping(u) /\ Sharing(u)' = Sharing(u)
        BY <2>3
        DEF AllocatePrivate, Goto, TypeOK, HasMapping, Sharing, processVars, buildVars, copy
  <2>4. ASSUME NEW u \in Threads, HasMapping(u) PROVE data[u] \in Addresses \ {a}
        BY <2>4, <2>1 DEF Locals, Mappings, Unmapped, Private
  <2>5. ASSUME NEW c \in Copies PROVE mmf'[c] = mmf[c] /\ mmf[c] # a
        BY <2>1 DEF AllocatePrivate, Mappings, Unmapped
  <2>6. \A c \in Copies : mmf[c] # Null => mmf[c] \in Addresses
        BY DEF TypeOK
  <2>7. \A u \in Threads : HasMapping(u)' => IF Sharing(u)' THEN view'[data'[u]] \in Files
                                                            ELSE view'[data'[u]] = Private
        BY <2>1, <2>2, <2>3, <2>4 DEF AllocatePrivate, Mappings, Locals
  <2>8. \A u, v \in Threads : HasMapping(u)' /\ HasMapping(v)' /\ data'[u] = data'[v] => u = v
        BY <2>2, <2>3, <2>4 DEF Mappings
  <2>9. \A u \in Threads, c \in Copies : HasMapping(u)' => mmf'[c] # data'[u]
        BY <2>2, <2>3, <2>5 DEF Mappings
  <2>10. \A c \in Copies : mmf'[c] # Null => view'[mmf'[c]] \in Files
        BY <2>1, <2>5, <2>6 DEF Mappings
  <2> QED
      BY <2>5, <2>7, <2>8, <2>9, <2>10 DEF Mappings
<1>5. MappingsUsed'
  <2>1. ASSUME NEW b \in Addresses, b # a PROVE view'[b] = view[b]
        BY <2>1 DEF AllocatePrivate, TypeOK
  <2>2. data'[t] = a /\ HasMapping(t)' /\ ~HasMapping(t)
        BY DEF AllocatePrivate, Goto, TypeOK, HasMapping
  <2>3. ASSUME NEW u \in Threads, u # t PROVE data'[u] = data[u] /\ HasMapping(u)' = HasMapping(u)
        BY <2>3 DEF AllocatePrivate, Goto, TypeOK, HasMapping
  <2> QED
      BY <2>1, <2>2, <2>3 DEF AllocatePrivate, MappingsUsed
<1> QED
    BY <1>1, <1>2, <1>3, <1>4, <1>5

-----------------------------------------------------------------------------
\* Steps of undisturbed processes

\* The thread that makes the file is the first of its copy: the copy knows no address
\* until it publishes one.
LEMMA CreatorIsFirst ==
  ASSUME FinderInv, running # Null, ~disturbed, NEW t \in Threads, Creating(t),
         pc[t] # "initialize", pc[t] = "map" => ~existed[t]
  PROVE  cached[copy(t)] = Null
<1> DEFINE f == name[running]
<1>1. copy(t) \in Copies \ private_copies
      BY FinderAssumption DEF Creating, Sharing, copy
<1>2. f # Null /\ During(f)
      BY <1>1 DEF FinderInv, Phases, Before, Since, Creating, Sharing
<1>3. ASSUME cached[copy(t)] # Null PROVE FALSE
  <2>1. PICK u \in Threads : copy(u) = copy(t) /\ pc[u] = "initialize"
        BY <1>1, <1>2, <1>3 DEF During
  <2>2. Creating(u)
        BY <2>1, <1>1 DEF Creating, Sharing
  <2> QED
      BY <2>1, <2>2, <1>2 DEF During
<1> QED
    BY <1>3

\* A call of find begins: changes no header.
LEMMA CallFindPhases ==
  ASSUME FinderInv, NEW t \in Threads, CallFind(t) PROVE Phases'
<1> SUFFICES ASSUME running' # Null, ~disturbed' PROVE Phases'
    BY DEF Phases
<1> USE FinderAssumption DEF FinderInv
<1>1. running # Null /\ ~disturbed /\ running' = running
      BY DEF CallFind, processVars, buildVars, historyVars
<1> DEFINE f == name[running]
<1>2. resets' = 0
      BY <1>1 DEF CallFind, historyVars, Phases
<1>3. \A u \in Threads : Known(u)'
      BY <1>1 DEF CallFind, Goto, Phases, Known, HasResult, TypeOK, Basics, Locals, copy
<1>4. PrivateBlocks'
      BY <1>1
      DEF CallFind, Goto, processVars, buildVars, Phases, PrivateBlocks, TypeOK, Basics, Locals,
          Mappings, Sharing, copy
<1>5. ASSUME f = Null PROVE name'[running'] = Null /\ Before'
      BY <1>1, <1>5
      DEF CallFind, Goto, processVars, buildVars, fileVars, localVars, Phases, Before, TypeOK,
          Basics, Locals, Mappings, Sharing, HasMapping, copy
<1>6. ASSUME f # Null, file[f].state # "initialized"
      PROVE  name'[running'] = f /\ file'[f].state # "initialized" /\ During(f)'
      BY <1>1, <1>6
      DEF CallFind, Goto, processVars, buildVars, fileVars, localVars, Phases, During, Creating,
          TypeOK, Basics, Locals, Mappings, Sharing, HasMapping, copy
<1>7. ASSUME f # Null, file[f].state = "initialized"
      PROVE  name'[running'] = f /\ file'[f].state = "initialized" /\ Since(f)'
      BY <1>1, <1>7
      DEF CallFind, Goto, processVars, buildVars, fileVars, localVars, Phases, Since, TypeOK,
          Basics, Locals, Mappings, Sharing, HasMapping, copy
<1> QED
    BY <1>2, <1>3, <1>4, <1>5, <1>6, <1>7 DEF Phases

\* The cached address is looked at: the result is the address the copy knows.
LEMMA CheckCachedPhases ==
  ASSUME FinderInv, NEW t \in Threads, CheckCached(t) PROVE Phases'
<1> SUFFICES ASSUME running' # Null, ~disturbed' PROVE Phases'
    BY DEF Phases
<1> USE FinderAssumption DEF FinderInv
<1>1. running # Null /\ ~disturbed /\ running' = running
      BY DEF CheckCached, processVars, buildVars, historyVars
<1> DEFINE f == name[running]
<1>2. resets' = 0
      BY <1>1 DEF CheckCached, historyVars, Phases
<1>3. \A u \in Threads : Known(u)'
      BY <1>1 DEF CheckCached, Goto, Phases, Known, HasResult, TypeOK, Basics, Locals, copy
<1>4. PrivateBlocks'
      BY <1>1
      DEF CheckCached, Goto, processVars, buildVars, Phases, PrivateBlocks, TypeOK, Basics,
          Locals, Mappings, Sharing, copy
<1>5. ASSUME f = Null PROVE name'[running'] = Null /\ Before'
      BY <1>1, <1>5, SMTT(60)
      DEF CheckCached, Goto, processVars, buildVars, fileVars, localVars, historyVars, Phases,
          Before, TypeOK, Basics, Locals, Mappings, Sharing, HasMapping, copy
<1>6. ASSUME f # Null, file[f].state # "initialized"
      PROVE  name'[running'] = f /\ file'[f].state # "initialized" /\ During(f)'
      BY <1>1, <1>6, SMTT(60)
      DEF CheckCached, Goto, processVars, buildVars, fileVars, localVars, Phases, During,
          Creating, TypeOK, Basics, Locals, Mappings, Sharing, HasMapping, copy
<1>7. ASSUME f # Null, file[f].state = "initialized"
      PROVE  name'[running'] = f /\ file'[f].state = "initialized" /\ Since(f)'
  <2>1. Since(f)
        BY <1>1, <1>7 DEF Phases
  <2>2. pc'[t] \in {"idle", "lock"}
        BY <1>1, <1>7 DEF CheckCached, Goto, Basics, TypeOK
  <2>3. ASSUME NEW u \in Threads, u # t
        PROVE  pc'[u] = pc[u] /\ existed'[u] = existed[u] /\ fd'[u] = fd[u]
        BY <2>3 DEF CheckCached, Goto, localVars, Basics, TypeOK
  <2>4. UNCHANGED <<private_copies, name, running, file, view, cached, data>>
        BY DEF CheckCached, processVars, buildVars, fileVars, localVars, historyVars
  <2> QED
      BY <2>1, <2>2, <2>3, <2>4, <1>7 DEF Since, Sharing, copy
<1> QED
    BY <1>2, <1>3, <1>4, <1>5, <1>6, <1>7 DEF Phases

\* GLOBAL_LOCK is taken: no address of the copy changes.
LEMMA LockGlobalPhases ==
  ASSUME FinderInv, NEW t \in Threads, LockGlobal(t) PROVE Phases'
<1> SUFFICES ASSUME running' # Null, ~disturbed' PROVE Phases'
    BY DEF Phases
<1> USE FinderAssumption DEF FinderInv
<1>1. running # Null /\ ~disturbed /\ running' = running
      BY DEF LockGlobal, processVars, buildVars, historyVars
<1> DEFINE f == name[running]
<1>2. resets' = 0
      BY <1>1 DEF LockGlobal, historyVars, Phases
<1>3. \A u \in Threads : Known(u)'
      BY <1>1 DEF LockGlobal, Goto, Phases, Known, HasResult, TypeOK, Basics, Locals, copy
<1>4. PrivateBlocks'
      BY <1>1
      DEF LockGlobal, Goto, processVars, buildVars, Phases, PrivateBlocks, TypeOK, Basics,
          Locals, Mappings, Sharing, copy
<1>5. ASSUME f = Null PROVE name'[running'] = Null /\ Before'
      BY <1>1, <1>5
      DEF LockGlobal, Goto, processVars, buildVars, fileVars, localVars, Phases, Before, TypeOK,
          Basics, Locals, Mappings, Sharing, HasMapping, copy
<1>6. ASSUME f # Null, file[f].state # "initialized"
      PROVE  name'[running'] = f /\ file'[f].state # "initialized" /\ During(f)'
      BY <1>1, <1>6
      DEF LockGlobal, Goto, processVars, buildVars, fileVars, localVars, Phases, During,
          Creating, TypeOK, Basics, Locals, Mappings, Sharing, HasMapping, copy
<1>7. ASSUME f # Null, file[f].state = "initialized"
      PROVE  name'[running'] = f /\ file'[f].state = "initialized" /\ Since(f)'
      BY <1>1, <1>7
      DEF LockGlobal, Goto, processVars, buildVars, fileVars, localVars, Phases, Since, TypeOK,
          Basics, Locals, Mappings, Sharing, HasMapping, copy
<1> QED
    BY <1>2, <1>3, <1>4, <1>5, <1>6, <1>7 DEF Phases

\* find returns: the result is the address the copy knows.
LEMMA ReturnAddressPhases ==
  ASSUME FinderInv, NEW t \in Threads, ReturnAddress(t) PROVE Phases'
<1> SUFFICES ASSUME running' # Null, ~disturbed' PROVE Phases'
    BY DEF Phases
<1> USE FinderAssumption DEF FinderInv
<1>1. running # Null /\ ~disturbed /\ running' = running
      BY DEF ReturnAddress, processVars, buildVars, historyVars
<1> DEFINE f == name[running]
<1>2. resets' = 0
      BY <1>1 DEF ReturnAddress, historyVars, Phases
<1>3. \A u \in Threads : Known(u)'
      BY <1>1
      DEF ReturnAddress, CloseLocals, Goto, Phases, Known, HasResult, TypeOK, Basics, Locals,
          copy
<1>4. PrivateBlocks'
      BY <1>1
      DEF ReturnAddress, CloseLocals, Goto, processVars, buildVars, Phases, PrivateBlocks,
          TypeOK, Basics, Locals, Mappings, Sharing, copy
<1>5. ASSUME f = Null PROVE name'[running'] = Null /\ Before'
      BY <1>1, <1>5
      DEF ReturnAddress, CloseLocals, Goto, processVars, buildVars, fileVars, Phases, Before,
          TypeOK, Basics, Locals, Mappings, Sharing, HasMapping, copy
<1>6. ASSUME f # Null, file[f].state # "initialized"
      PROVE  name'[running'] = f /\ file'[f].state # "initialized" /\ During(f)'
      BY <1>1, <1>6
      DEF ReturnAddress, CloseLocals, Goto, processVars, buildVars, fileVars, Phases, During,
          Creating, TypeOK, Basics, Locals, Mappings, Sharing, HasMapping, copy
<1>7. ASSUME f # Null, file[f].state = "initialized"
      PROVE  name'[running'] = f /\ file'[f].state = "initialized" /\ Since(f)'
      BY <1>1, <1>7
      DEF ReturnAddress, CloseLocals, Goto, processVars, buildVars, fileVars, Phases, Since,
          TypeOK, Basics, Locals, Mappings, Sharing, HasMapping, copy
<1> QED
    BY <1>2, <1>3, <1>4, <1>5, <1>6, <1>7 DEF Phases

\* The first open: undisturbed, it finds the whole header, or no file and no other creator.
LEMMA OpenFilePhases ==
  ASSUME FinderInv, NEW t \in Threads, OpenFile(t) PROVE Phases'
<1> SUFFICES ASSUME running' # Null, ~disturbed' PROVE Phases'
    BY DEF Phases
<1> USE FinderAssumption DEF FinderInv
<1>1. running # Null /\ ~disturbed /\ running' = running
      BY DEF OpenFile, processVars, buildVars
<1> DEFINE f == name[running]
<1>2. resets' = 0
      BY <1>1 DEF OpenFile, Phases
<1>3. \A u \in Threads : Known(u)'
      BY <1>1 DEF OpenFile, Goto, Phases, Known, HasResult, TypeOK, Basics, Locals, copy
<1>4. PrivateBlocks'
      BY <1>1
      DEF OpenFile, Goto, processVars, buildVars, Phases, PrivateBlocks, TypeOK, Basics, Locals,
          Mappings, Sharing, copy
<1>5. ASSUME f = Null PROVE name'[running'] = Null /\ Before'
      BY <1>1, <1>5
      DEF OpenFile, Goto, processVars, buildVars, fileVars, Phases, Before, TypeOK, Basics,
          Locals, Mappings, Sharing, HasMapping, copy
<1>6. ASSUME f # Null, file[f].state # "initialized"
      PROVE  name'[running'] = f /\ file'[f].state # "initialized" /\ During(f)'
      BY <1>1, <1>6
      DEF OpenFile, Goto, processVars, buildVars, fileVars, Phases, During, Creating, TypeOK,
          Basics, Locals, Mappings, Sharing, HasMapping, copy
<1>7. ASSUME f # Null, file[f].state = "initialized"
      PROVE  name'[running'] = f /\ file'[f].state = "initialized" /\ Since(f)'
  <2>1. Since(f)
        BY <1>1, <1>7 DEF Phases
  <2>2. pc'[t] = "map" /\ existed'[t] /\ fd'[t] = f
        BY <1>1, <1>7 DEF OpenFile, Goto, Basics, TypeOK
  <2>3. ASSUME NEW u \in Threads, u # t
        PROVE  pc'[u] = pc[u] /\ existed'[u] = existed[u] /\ fd'[u] = fd[u]
        BY <2>3 DEF OpenFile, Goto, Basics, TypeOK
  <2>4. UNCHANGED <<private_copies, name, running, file, view, cached, data>>
        BY DEF OpenFile, processVars, buildVars, fileVars
  <2> QED
      BY <2>1, <2>2, <2>3, <2>4, <1>7 DEF Since, Sharing, copy
<1> QED
    BY <1>2, <1>3, <1>4, <1>5, <1>6, <1>7 DEF Phases

\* The first open fails: undisturbed, there is no file and no other creator.
LEMMA OpenFileFailsPhases ==
  ASSUME FinderInv, NEW t \in Threads, OpenFileFails(t) PROVE Phases'
<1> SUFFICES ASSUME running' # Null, ~disturbed' PROVE Phases'
    BY DEF Phases
<1> USE FinderAssumption DEF FinderInv
<1>1. running # Null /\ ~disturbed /\ running' = running
      BY DEF OpenFileFails, processVars, buildVars
<1> DEFINE f == name[running]
<1>2. resets' = 0
      BY <1>1 DEF OpenFileFails, Phases
<1>3. \A u \in Threads : Known(u)'
      BY <1>1 DEF OpenFileFails, Goto, Phases, Known, HasResult, TypeOK, Basics, Locals, copy
<1>4. PrivateBlocks'
      BY <1>1
      DEF OpenFileFails, Goto, processVars, buildVars, Phases, PrivateBlocks, TypeOK, Basics,
          Locals, Mappings, Sharing, copy
<1>5. ASSUME f = Null PROVE name'[running'] = Null /\ Before'
  <2>1. Before /\ \A u \in Threads : pc[u] # "create"
        BY <1>1, <1>5 DEF Phases, OpenFileFails
  <2>2. pc' = [pc EXCEPT ![t] = "create"]
        BY DEF OpenFileFails, Goto
  <2>3. UNCHANGED <<private_copies, name, running, cached, mmf>>
        BY DEF OpenFileFails, processVars, buildVars, fileVars, localVars
  <2> QED
      BY <2>1, <2>2, <2>3, <1>5 DEF Before, Sharing, copy, Basics, TypeOK
<1>6. ASSUME f # Null, file[f].state # "initialized"
      PROVE  name'[running'] = f /\ file'[f].state # "initialized" /\ During(f)'
      BY <1>1, <1>6
      DEF OpenFileFails, Goto, processVars, buildVars, fileVars, localVars, Phases, During,
          Creating, TypeOK, Basics, Locals, Mappings, Sharing, HasMapping, copy
<1>7. ASSUME f # Null, file[f].state = "initialized"
      PROVE  name'[running'] = f /\ file'[f].state = "initialized" /\ Since(f)'
      BY <1>1, <1>7
      DEF OpenFileFails, Goto, processVars, buildVars, fileVars, localVars, Phases, Since,
          TypeOK, Basics, Locals, Mappings, Sharing, HasMapping, copy
<1> QED
    BY <1>2, <1>3, <1>4, <1>5, <1>6, <1>7 DEF Phases

\* The second open: there was no file, and the thread becomes its one creator.
LEMMA CreateFilePhases ==
  ASSUME FinderInv, NEW t \in Threads, CreateFile(t) PROVE Phases'
<1> SUFFICES ASSUME running' # Null, ~disturbed' PROVE Phases'
    BY DEF Phases
<1> USE FinderAssumption DEF FinderInv
<1>1. running # Null /\ ~disturbed /\ running' = running
      BY DEF CreateFile, processVars, buildVars, historyVars
<1> DEFINE f == name[running]
<1>2. resets' = 0
      BY <1>1 DEF CreateFile, historyVars, Phases
<1>3. \A u \in Threads : Known(u)'
      BY <1>1 DEF CreateFile, Goto, Phases, Known, HasResult, TypeOK, Basics, Locals, copy
<1>4. PrivateBlocks'
      BY <1>1
      DEF CreateFile, Goto, processVars, buildVars, Phases, PrivateBlocks, TypeOK, Basics,
          Locals, Mappings, Sharing, copy
<1>5. f = Null /\ Before
      BY <1>1 DEF CreateFile, Phases, During, Since, Basics, Locals
<1>6. PICK g \in UnusedFiles : /\ name' = [name EXCEPT ![running] = g]
                               /\ file' = [file EXCEPT ![g].state =
                                    IF @ # "none" THEN @ ELSE IF os = "unix" THEN "empty" ELSE "sized"]
                               /\ fd' = [fd EXCEPT ![t] = g]
      BY <1>5 DEF CreateFile
<1>7. g \in Files /\ name'[running'] = g /\ g # Null
      BY <1>1, <1>6 DEF UnusedFiles, Basics, TypeOK
<1>8. file'[g].state # "initialized"
      BY <1>6 DEF UnusedFiles, NoFile, Basics, TypeOK
<1>9. pc' = [pc EXCEPT ![t] = IF os = "unix" THEN "truncate" ELSE "map"]
      BY DEF CreateFile, Goto
<1>10. UNCHANGED <<private_copies, cached, mmf, view, data, existed>>
      BY DEF CreateFile, processVars, buildVars, historyVars
<1>11. pc[t] = "create" /\ Sharing(t) /\ ~existed[t]
      BY DEF CreateFile, Basics, Locals
<1>12. During(g)'
  <2>1. pc'[t] \in {"truncate", "map"} /\ \A u \in Threads \ {t} : pc'[u] = pc[u]
        BY <1>9 DEF Basics, TypeOK
  <2>2. \A u \in Threads : Sharing(u)' = Sharing(u)
        BY <1>10 DEF Sharing, copy
  <2>3. \A u \in Threads : Sharing(u) /\ u # t => pc[u] \in {"idle", "check", "lock", "open"}
        BY <1>5, <1>11 DEF Before
  <2>4. \A u \in Threads : Creating(u)' => u = t
        BY <2>1, <2>2, <2>3 DEF Creating
  <2>5. fd'[t] = g /\ ~HasMapping(t)'
        BY <1>6, <2>1 DEF HasMapping, Basics, TypeOK
  <2> QED
      BY <1>5, <1>10, <1>11, <2>1, <2>2, <2>3, <2>4, <2>5 DEF During, Before
<1> QED
    BY <1>2, <1>3, <1>4, <1>7, <1>8, <1>12 DEF Phases

\* ftruncate: it is the creator's, and the file stays without a header.
LEMMA TruncateFilePhases ==
  ASSUME FinderInv, NEW t \in Threads, TruncateFile(t) PROVE Phases'
<1> SUFFICES ASSUME running' # Null, ~disturbed' PROVE Phases'
    BY DEF Phases
<1> USE FinderAssumption DEF FinderInv
<1>1. running # Null /\ ~disturbed /\ running' = running
      BY DEF TruncateFile, processVars, buildVars, historyVars
<1> DEFINE f == name[running]
<1>2. resets' = 0
      BY <1>1 DEF TruncateFile, historyVars, Phases
<1>3. \A u \in Threads : Known(u)'
      BY <1>1 DEF TruncateFile, Goto, Phases, Known, HasResult, TypeOK, Basics, Locals, copy
<1>4. PrivateBlocks'
      BY <1>1
      DEF TruncateFile, Goto, processVars, buildVars, Phases, PrivateBlocks, TypeOK, Basics,
          Locals, Mappings, Sharing, copy
<1>5. ASSUME f = Null PROVE name'[running'] = Null /\ Before'
      BY <1>1, <1>5
      DEF TruncateFile, Goto, processVars, buildVars, localVars, Phases, Before, TypeOK, Basics,
          Locals, Mappings, Sharing, HasMapping, copy
<1>6. ASSUME f # Null, file[f].state # "initialized"
      PROVE  name'[running'] = f /\ file'[f].state # "initialized" /\ During(f)'
      BY <1>1, <1>6
      DEF TruncateFile, Goto, processVars, buildVars, localVars, Phases, During, Creating,
          TypeOK, Basics, Locals, Mappings, Sharing, HasMapping, copy
<1>7. ASSUME f # Null, file[f].state = "initialized"
      PROVE  name'[running'] = f /\ file'[f].state = "initialized" /\ Since(f)'
      BY <1>1, <1>7
      DEF TruncateFile, Goto, processVars, buildVars, localVars, Phases, Since, TypeOK, Basics,
          Locals, Mappings, Sharing, HasMapping, copy
<1> QED
    BY <1>2, <1>3, <1>4, <1>5, <1>6, <1>7 DEF Phases

\* mmap or MapViewOfFile: the address was free, so no header is replaced.
LEMMA MapFilePhases ==
  ASSUME FinderInv, NEW t \in Threads, NEW a \in Addresses, MapFile(t, a) PROVE Phases'
<1> SUFFICES ASSUME running' # Null, ~disturbed' PROVE Phases'
    BY DEF Phases
<1> USE FinderAssumption DEF FinderInv
<1>1. running # Null /\ ~disturbed /\ running' = running
      BY DEF MapFile, processVars, buildVars, historyVars
<1> DEFINE f == name[running]
<1>2. resets' = 0
      BY <1>1 DEF MapFile, historyVars, Phases
<1>3. \A u \in Threads : Known(u)'
  <2>1. CASE pc'[t] = "publish"
    <3>1. Creating(t) /\ pc[t] # "initialize" /\ ~existed[t]
          BY <2>1 DEF MapFile, Goto, Creating, Basics, TypeOK, Locals
    <3>2. cached[copy(t)] = Null
          BY <3>1, <1>1, CreatorIsFirst
    <3> QED
        BY <3>2, <1>1
        DEF MapFile, Goto, processVars, buildVars, fileVars, historyVars, Phases, Known,
            HasResult, Basics, TypeOK, copy
  <2>2. CASE pc'[t] # "publish"
        BY <2>2, <1>1
        DEF MapFile, Goto, processVars, buildVars, fileVars, historyVars, Phases, Known,
            HasResult, Basics, TypeOK, copy
  <2> QED
      BY <2>1, <2>2
<1>4. PrivateBlocks'
  <2>1. \A b \in Addresses : view[b] = Private => view'[b] = Private
        BY DEF MapFile, FreeAddresses, Basics, TypeOK, Unmapped, Private
  <2>2. PrivateBlocks /\ UNCHANGED <<cached, prepared, private_copies>>
        BY <1>1 DEF MapFile, processVars, buildVars, fileVars, historyVars, Phases
  <2>3. \A u \in Threads : pc[u] = "initialize" => pc'[u] = "initialize"
        BY DEF MapFile, Goto, Basics, TypeOK
  <2>4. \A c \in private_copies : cached[c] # Null => cached[c] \in Addresses
        BY DEF Basics, TypeOK
  <2> QED
      BY <2>1, <2>2, <2>3, <2>4 DEF PrivateBlocks, copy
<1>5. ASSUME f = Null PROVE name'[running'] = Null /\ Before'
      BY <1>1, <1>5
      DEF MapFile, FreeAddresses, Goto, processVars, buildVars, fileVars, Phases, Before,
          TypeOK, Basics, Locals, Mappings, Sharing, HasMapping, copy
<1>6. ASSUME f # Null, file[f].state # "initialized"
      PROVE  name'[running'] = f /\ file'[f].state # "initialized" /\ During(f)'
      BY <1>1, <1>6
      DEF MapFile, FreeAddresses, Goto, processVars, buildVars, fileVars, Phases, During,
          Creating, TypeOK, Basics, Locals, Mappings, Sharing, HasMapping, copy
<1>7. ASSUME f # Null, file[f].state = "initialized"
      PROVE  name'[running'] = f /\ file'[f].state = "initialized" /\ Since(f)'
      BY <1>1, <1>7
      DEF MapFile, FreeAddresses, Goto, processVars, buildVars, fileVars, Phases, Since, TypeOK,
          Basics, Locals, Mappings, Sharing, HasMapping, copy
<1> QED
    BY <1>2, <1>3, <1>4, <1>5, <1>6, <1>7 DEF Phases

\* A panic: the creator may be gone, and then nobody follows.
LEMMA PanicPhases ==
  ASSUME FinderInv, NEW t \in Threads, Panic(t) PROVE Phases'
<1> SUFFICES ASSUME running' # Null, ~disturbed' PROVE Phases'
    BY DEF Phases
<1> USE FinderAssumption DEF FinderInv
<1>1. running # Null /\ ~disturbed /\ running' = running
      BY DEF Panic, processVars, buildVars, historyVars
<1> DEFINE f == name[running]
<1>2. resets' = 0
      BY <1>1 DEF Panic, historyVars, Phases
<1>3. \A u \in Threads : Known(u)'
      BY <1>1
      DEF Panic, CloseLocals, Goto, Phases, Known, HasResult, TypeOK, Basics, Locals, copy
<1>4. PrivateBlocks'
      BY <1>1
      DEF Panic, CloseLocals, Goto, processVars, buildVars, Phases, PrivateBlocks, TypeOK,
          Basics, Locals, Mappings, Sharing, copy
<1>5. ASSUME f = Null PROVE name'[running'] = Null /\ Before'
      BY <1>1, <1>5
      DEF Panic, CloseLocals, Goto, processVars, buildVars, fileVars, Phases, Before, TypeOK,
          Basics, Locals, Mappings, Sharing, HasMapping, copy
<1>6. ASSUME f # Null, file[f].state # "initialized"
      PROVE  name'[running'] = f /\ file'[f].state # "initialized" /\ During(f)'
      BY <1>1, <1>6
      DEF Panic, CloseLocals, Goto, processVars, buildVars, fileVars, Phases, During, Creating,
          TypeOK, Basics, Locals, Mappings, Sharing, HasMapping, copy
<1>7. ASSUME f # Null, file[f].state = "initialized"
      PROVE  name'[running'] = f /\ file'[f].state = "initialized" /\ Since(f)'
      BY <1>1, <1>7
      DEF Panic, CloseLocals, Goto, processVars, buildVars, fileVars, Phases, Since, TypeOK,
          Basics, Locals, Mappings, Sharing, HasMapping, copy
<1> QED
    BY <1>2, <1>3, <1>4, <1>5, <1>6, <1>7 DEF Phases

\* this_address is read and the mapping dropped: the header is there, and its own mapping is
\* another one.
LEMMA ReadThisAddressPhases ==
  ASSUME FinderInv, NEW t \in Threads, ReadThisAddress(t) PROVE Phases'
<1> SUFFICES ASSUME running' # Null, ~disturbed' PROVE Phases'
    BY DEF Phases
<1> USE FinderAssumption DEF FinderInv
<1>1. running # Null /\ ~disturbed /\ running' = running
      BY DEF ReadThisAddress, processVars, buildVars, historyVars
<1> DEFINE f == name[running]
<1>2. resets' = 0
      BY <1>1 DEF ReadThisAddress, MappedFile, historyVars, Phases
<1>3. \A u \in Threads : Known(u)'
  <2>1. f # Null /\ Since(f)
        BY <1>1 DEF ReadThisAddress, Phases, Before, During, Basics, Locals
  <2>2. cached'[copy(t)] = file[f].this /\ file[f].this # Null
        BY <2>1 DEF ReadThisAddress, MappedFile, Since, Basics, TypeOK, copy
  <2>3. cached[copy(t)] \in {Null, file[f].this}
        BY <2>1 DEF ReadThisAddress, Since, Basics, Locals, Sharing, copy
  <2>4. ASSUME NEW u \in Threads, u # t, copy(u) = copy(t) PROVE pc[u] # "publish"
        BY <2>4 DEF ReadThisAddress, Basics, TypeOK
  <2>5. \A c \in Copies \ {copy(t)} : cached'[c] = cached[c]
        BY DEF ReadThisAddress, Basics, TypeOK
  <2>6. \A u \in Threads : Known(u) /\ found'[u] = found[u] /\ copy(u) \in Copies
        BY <1>1 DEF ReadThisAddress, Phases, copy
  <2>7. pc' = [pc EXCEPT ![t] = "return"]
        BY DEF ReadThisAddress, Goto
  <2> QED
      BY <2>2, <2>3, <2>4, <2>5, <2>6, <2>7 DEF Known, HasResult, Basics, TypeOK
<1>4. PrivateBlocks'
      BY <1>1
      DEF ReadThisAddress, MappedFile, Goto, processVars, buildVars, fileVars, localVars,
          historyVars, Phases, PrivateBlocks, TypeOK, Basics, Locals, Mappings, Sharing,
          HasMapping, copy
<1>5. ASSUME f = Null PROVE name'[running'] = Null /\ Before'
      BY <1>1, <1>5
      DEF ReadThisAddress, MappedFile, Goto, processVars, buildVars, fileVars, localVars,
          Phases, Before, TypeOK, Basics, Locals, Mappings, Sharing, HasMapping, copy
<1>6. ASSUME f # Null, file[f].state # "initialized"
      PROVE  name'[running'] = f /\ file'[f].state # "initialized" /\ During(f)'
      BY <1>1, <1>6
      DEF ReadThisAddress, MappedFile, Goto, processVars, buildVars, fileVars, localVars,
          Phases, During, Creating, TypeOK, Basics, Locals, Mappings, Sharing, HasMapping, copy
<1>7. ASSUME f # Null, file[f].state = "initialized"
      PROVE  name'[running'] = f /\ file'[f].state = "initialized" /\ Since(f)'
      BY <1>1, <1>7
      DEF ReadThisAddress, MappedFile, Goto, processVars, buildVars, fileVars, localVars,
          Phases, Since, TypeOK, Basics, Locals, Mappings, Sharing, HasMapping, copy
<1> QED
    BY <1>2, <1>3, <1>4, <1>5, <1>6, <1>7 DEF Phases

\* cleanup(): the creator goes on.
LEMMA CleanupPhases ==
  ASSUME FinderInv, NEW t \in Threads, Cleanup(t) PROVE Phases'
<1> SUFFICES ASSUME running' # Null, ~disturbed' PROVE Phases'
    BY DEF Phases
<1> USE FinderAssumption DEF FinderInv
<1>1. running # Null /\ ~disturbed /\ running' = running
      BY DEF Cleanup, processVars, buildVars, historyVars
<1> DEFINE f == name[running]
<1>2. resets' = 0
      BY <1>1 DEF Cleanup, historyVars, Phases
<1>3. \A u \in Threads : Known(u)'
  <2>1. CASE pc'[t] = "publish"
    <3>1. Creating(t) /\ pc[t] = "cleanup"
          BY <2>1 DEF Cleanup, Goto, Creating, Basics, TypeOK, Locals
    <3>2. cached[copy(t)] = Null
          BY <3>1, <1>1, CreatorIsFirst
    <3> QED
        BY <3>2, <1>1
        DEF Cleanup, Goto, processVars, buildVars, fileVars, localVars, historyVars, Phases,
            Known, HasResult, Basics, TypeOK, copy
  <2>2. CASE pc'[t] # "publish"
        BY <2>2, <1>1
        DEF Cleanup, Goto, processVars, buildVars, fileVars, localVars, historyVars, Phases,
            Known, HasResult, Basics, TypeOK, copy
  <2> QED
      BY <2>1, <2>2
<1>4. PrivateBlocks'
      BY <1>1
      DEF Cleanup, Goto, processVars, buildVars, Phases, PrivateBlocks, TypeOK, Basics, Locals,
          Mappings, Sharing, copy
<1>5. ASSUME f = Null PROVE name'[running'] = Null /\ Before'
      BY <1>1, <1>5
      DEF Cleanup, Goto, processVars, buildVars, fileVars, localVars, Phases, Before, TypeOK,
          Basics, Locals, Mappings, Sharing, HasMapping, copy
<1>6. ASSUME f # Null, file[f].state # "initialized"
      PROVE  name'[running'] = f /\ file'[f].state # "initialized" /\ During(f)'
      BY <1>1, <1>6
      DEF Cleanup, Goto, processVars, buildVars, fileVars, localVars, Phases, During, Creating,
          TypeOK, Basics, Locals, Mappings, Sharing, HasMapping, copy
<1>7. ASSUME f # Null, file[f].state = "initialized"
      PROVE  name'[running'] = f /\ file'[f].state = "initialized" /\ Since(f)'
      BY <1>1, <1>7
      DEF Cleanup, Goto, processVars, buildVars, fileVars, localVars, Phases, Since, TypeOK,
          Basics, Locals, Mappings, Sharing, HasMapping, copy
<1> QED
    BY <1>2, <1>3, <1>4, <1>5, <1>6, <1>7 DEF Phases

\* LOCATOR_HEADER_ADDRESS is set: the copy knew no address before.
LEMMA PublishAddressPhases ==
  ASSUME FinderInv, NEW t \in Threads, PublishAddress(t) PROVE Phases'
<1> SUFFICES ASSUME running' # Null, ~disturbed' PROVE Phases'
    BY DEF Phases
<1> USE FinderAssumption DEF FinderInv
<1>1. running # Null /\ ~disturbed /\ running' = running
      BY DEF PublishAddress, processVars, buildVars, historyVars
<1> DEFINE f == name[running]
<1>2. resets' = 0
      BY <1>1 DEF PublishAddress, historyVars, Phases
<1>3. \A u \in Threads : Known(u)'
      BY <1>1 DEF PublishAddress, Goto, Phases, Known, HasResult, TypeOK, Basics, Locals, copy
<1>4. PrivateBlocks'
      BY <1>1
      DEF PublishAddress, Goto, processVars, buildVars, fileVars, localVars, historyVars,
          Phases, PrivateBlocks, TypeOK, Basics, Locals, Mappings, Sharing, HasMapping, copy
<1>5. ASSUME f = Null PROVE name'[running'] = Null /\ Before'
      BY <1>1, <1>5
      DEF PublishAddress, Goto, processVars, buildVars, fileVars, localVars, Phases, Before,
          TypeOK, Basics, Locals, Mappings, Sharing, HasMapping, copy
<1>6. ASSUME f # Null, file[f].state # "initialized"
      PROVE  name'[running'] = f /\ file'[f].state # "initialized" /\ During(f)'
      BY <1>1, <1>6
      DEF PublishAddress, Goto, processVars, buildVars, fileVars, localVars, Phases, During,
          Creating, TypeOK, Basics, Locals, Mappings, Sharing, HasMapping, copy
<1>7. ASSUME f # Null, file[f].state = "initialized"
      PROVE  name'[running'] = f /\ file'[f].state = "initialized" /\ Since(f)'
      BY <1>1, <1>7
      DEF PublishAddress, Goto, processVars, buildVars, fileVars, localVars, Phases, Since,
          TypeOK, Basics, Locals, Mappings, Sharing, HasMapping, copy
<1> QED
    BY <1>2, <1>3, <1>4, <1>5, <1>6, <1>7 DEF Phases

\* The header is initialised: a private block becomes ready, or the file's header comes to be,
\* where its only creator mapped it.
LEMMA InitializeHeaderPhases ==
  ASSUME FinderInv, NEW t \in Threads, InitializeHeader(t) PROVE Phases'
<1> SUFFICES ASSUME running' # Null, ~disturbed' PROVE Phases'
    BY DEF Phases
<1> USE FinderAssumption DEF FinderInv
<1>1. running # Null /\ ~disturbed /\ running' = running
      BY DEF InitializeHeader, processVars, buildVars
<1> DEFINE f == name[running]
           a == cached[copy(t)]
<1>2. a = data[t] /\ a \in Addresses /\ HasMapping(t) /\ pc[t] = "initialize" /\ copy(t) \in Copies
      BY DEF InitializeHeader, Basics, Locals, HasMapping, copy
<1>3. pc' = [pc EXCEPT ![t] = "return"]
      BY DEF InitializeHeader, Goto
<1>4. UNCHANGED <<private_copies, running, cached, fd, data, existed, found>>
      BY DEF InitializeHeader, processVars, buildVars, fileVars, localVars
<1>5. \A u \in Threads : Known(u)'
      BY <1>1, <1>2, <1>3, <1>4 DEF Phases, Known, HasResult, Basics, TypeOK, copy
<1>6. CASE ~Sharing(t)
  <2>1. view[a] = Private
        BY <1>2, <1>6 DEF Basics, Mappings
  <2>2. UNCHANGED <<name, file, view, mmf, resets>> /\ prepared' = prepared \cup {a}
        BY <2>1 DEF InitializeHeader, fileVars
  <2>3. PrivateBlocks'
        BY <1>1, <1>2, <1>3, <1>4, <2>1, <2>2 DEF Phases, PrivateBlocks, Basics, TypeOK, copy
  <2>4. ASSUME f = Null PROVE Before'
        BY <1>1, <1>3, <1>4, <1>6, <2>2, <2>4 DEF Phases, Before, Sharing, Basics, TypeOK, copy
  <2>5. ASSUME f # Null, file[f].state # "initialized" PROVE During(f)'
        BY <1>1, <1>3, <1>4, <1>6, <2>2, <2>5
        DEF Phases, During, Creating, HasMapping, Sharing, Basics, TypeOK, copy
  <2>6. ASSUME f # Null, file[f].state = "initialized" PROVE Since(f)'
        BY <1>1, <1>3, <1>4, <1>6, <2>2, <2>6 DEF Phases, Since, Sharing, Basics, TypeOK, copy
  <2> QED
      BY <1>1, <1>4, <1>5, <2>2, <2>3, <2>4, <2>5, <2>6 DEF Phases
<1>7. CASE Sharing(t)
  <2>1. f # Null /\ file[f].state # "initialized" /\ During(f)
        BY <1>1, <1>2, <1>7 DEF Phases, Before, Since
  <2>2. Creating(t) /\ view[a] = f /\ f \in Files
        BY <1>1, <1>2, <1>7, <2>1 DEF During, Creating, Basics, TypeOK
  <2>3. mmf[copy(t)] = Null
        BY <1>2, <1>7, <2>1 DEF During, Sharing
  <2>4. /\ file' = [file EXCEPT ![f] = [state |-> "initialized", this |-> a]]
        /\ resets' = resets
        /\ UNCHANGED <<view, name, prepared>>
    <3>1. view[a] # Private
          BY <2>2
    <3>2. /\ file' = [file EXCEPT ![view[a]] = [state |-> "initialized", this |-> a]]
          /\ resets' = resets + (IF file[view[a]].state = "initialized" THEN 1 ELSE 0)
          /\ view' = [b \in Addresses |-> IF b = mmf[copy(t)] THEN Unmapped ELSE view[b]]
          /\ name' = name /\ prepared' = prepared
          BY <3>1, <2>3 DEF InitializeHeader, DropMmf
    <3>3. view' = view
          BY <3>2, <2>3 DEF Basics, TypeOK
    <3> QED
        BY <3>2, <3>3, <2>1, <2>2 DEF Basics, TypeOK
  <2>5. PrivateBlocks'
        BY <1>1, <1>3, <1>4, <1>7, <2>4 DEF Phases, PrivateBlocks, Sharing, Basics, TypeOK, copy
  <2>6. file'[f].state = "initialized" /\ file'[f].this = a
        BY <2>2, <2>4 DEF Basics, TypeOK
  <2>7. ASSUME NEW c \in Copies \ private_copies, cached[c] # Null PROVE cached[c] = a
    <3>1. PICK u \in Threads : copy(u) = c /\ pc[u] = "initialize"
          BY <2>1, <2>7 DEF During
    <3>2. Creating(u)
          BY <3>1 DEF Creating, Sharing
    <3> QED
        BY <3>1, <3>2, <2>1, <2>2 DEF During
  <2>8. ASSUME NEW u \in Threads, u # t, Sharing(u)
        PROVE  pc[u] \in {"idle", "check", "lock", "open"}
        BY <2>1, <2>2, <2>8 DEF During, Creating, Basics, TypeOK, Locations, Locals
  <2>9. \A u \in Threads : pc[u] \in {"map", "read"} => Sharing(u)
        BY DEF Basics, Locals
  <2>10. Since(f)'
        BY <1>2, <1>3, <1>4, <2>2, <2>4, <2>6, <2>7, <2>8, <2>9, ZenonT(60)
        DEF Since, Sharing, Basics, TypeOK, copy
  <2> QED
      BY <1>1, <1>4, <1>5, <2>1, <2>4, <2>5, <2>6, <2>10 DEF Phases
<1> QED
    BY <1>6, <1>7

\* A private block is allocated: undisturbed, it is the copy's only block.
LEMMA AllocatePrivatePhases ==
  ASSUME FinderInv, NEW t \in Threads, NEW a \in Addresses, AllocatePrivate(t, a) PROVE Phases'
<1> SUFFICES ASSUME running' # Null, ~disturbed' PROVE Phases'
    BY DEF Phases
<1> USE FinderAssumption DEF FinderInv
<1>1. running # Null /\ ~disturbed /\ running' = running
      BY DEF AllocatePrivate, processVars, buildVars
<1> DEFINE f == name[running]
<1>2. resets' = 0
      BY <1>1 DEF AllocatePrivate, Phases
<1>3. \A u \in Threads : Known(u)'
  <2>1. cached[copy(t)] = Null /\ UNCHANGED <<cached, found>>
        BY DEF AllocatePrivate
  <2>2. \A u \in Threads : Known(u)
        BY <1>1 DEF Phases
  <2>3. pc' = [pc EXCEPT ![t] = "publish"]
        BY DEF AllocatePrivate, Goto
  <2> QED
      BY <2>1, <2>2, <2>3 DEF Known, HasResult, Basics, TypeOK, copy
<1>4. PrivateBlocks'
      BY <1>1
      DEF AllocatePrivate, FreeAddresses, Goto, processVars, buildVars, Phases, PrivateBlocks,
          TypeOK, Basics, Locals, Mappings, Sharing, copy
<1>5. ASSUME f = Null PROVE name'[running'] = Null /\ Before'
      BY <1>1, <1>5
      DEF AllocatePrivate, FreeAddresses, Goto, processVars, buildVars, fileVars, Phases,
          Before, TypeOK, Basics, Locals, Mappings, Sharing, HasMapping, copy
<1>6. ASSUME f # Null, file[f].state # "initialized"
      PROVE  name'[running'] = f /\ file'[f].state # "initialized" /\ During(f)'
      BY <1>1, <1>6
      DEF AllocatePrivate, FreeAddresses, Goto, processVars, buildVars, fileVars, Phases,
          During, Creating, TypeOK, Basics, Locals, Mappings, Sharing, HasMapping, copy
<1>7. ASSUME f # Null, file[f].state = "initialized"
      PROVE  name'[running'] = f /\ file'[f].state = "initialized" /\ Since(f)'
      BY <1>1, <1>7
      DEF AllocatePrivate, FreeAddresses, Goto, processVars, buildVars, fileVars, Phases, Since,
          TypeOK, Basics, Locals, Mappings, Sharing, HasMapping, copy
<1> QED
    BY <1>2, <1>3, <1>4, <1>5, <1>6, <1>7 DEF Phases

\* A process that starts finds no file of its name, or is disturbed.
LEMMA StartProcessFinder ==
  ASSUME FinderInv, NEW p \in Pids, StartProcess(p) PROVE FinderInv'
<1> USE FinderAssumption DEF FinderInv, Basics
<1>1. running' = p /\ starts' = starts + 1 /\ disturbed' = (name[p] # Null) /\ running = Null
      BY DEF StartProcess
<1>2. UNCHANGED <<os, private_copies, name, file, view, prepared, cached, mmf, global_lock, pc,
                  fd, data, existed, found, failures, resets>>
      BY DEF StartProcess, buildVars, fileVars, localVars
<1>3. starts' \in 0 .. MaxStarts
      BY DEF StartProcess, TypeOK
<1>4. disturbed' \in BOOLEAN
      BY <1>1
<1>5. TypeOK'
      BY <1>1, <1>2, <1>3, <1>4 DEF TypeOK
<1>6. NoneRunning'
      BY <1>1 DEF NoneRunning
<1>7. (\A t \in Threads : Locals(t)') /\ Mappings' /\ MappingsUsed'
      BY <1>2 DEF Locals, Mappings, MappingsUsed, Sharing, HasMapping, copy
<1>8. Phases'
  <2> SUFFICES ASSUME ~disturbed' PROVE Phases'
      BY DEF Phases
  <2>1. name'[running'] = Null
        BY <1>1, <1>2
  <2>2. \A t \in Threads : pc'[t] = "idle" /\ found'[t] = "none"
        BY <1>1, <1>2 DEF NoneRunning
  <2>3. resets' = 0 /\ \A c \in Copies : cached'[c] = Null /\ mmf'[c] = Null
        BY <1>1, <1>2 DEF NoneRunning
  <2>4. Before'
        BY <2>2, <2>3 DEF Before
  <2>5. PrivateBlocks' /\ \A t \in Threads : Known(t)'
    <3>1. private_copies' \subseteq Copies
          BY <1>5 DEF TypeOK
    <3> QED
        BY <3>1, <2>2, <2>3 DEF PrivateBlocks, Known, HasResult
  <2> QED
      BY <2>1, <2>3, <2>4, <2>5 DEF Phases
<1> QED
    BY <1>5, <1>6, <1>7, <1>8

\* A step of a thread in find.
LEMMA FindStepFinder ==
  ASSUME FinderInv, NEW t \in Threads, FindStep(t) PROVE FinderInv'
<1> USE DEF FinderInv
<1>1. CASE CheckCached(t)
      BY <1>1, CheckCachedBasics, CheckCachedPhases
<1>2. CASE LockGlobal(t)
      BY <1>2, LockGlobalBasics, LockGlobalPhases
<1>3. CASE OpenFile(t)
      BY <1>3, OpenFileBasics, OpenFilePhases
<1>4. CASE OpenFileFails(t)
      BY <1>4, OpenFileFailsBasics, OpenFileFailsPhases
<1>5. CASE CreateFile(t)
      BY <1>5, CreateFileBasics, CreateFilePhases
<1>6. CASE TruncateFile(t)
      BY <1>6, TruncateFileBasics, TruncateFilePhases
<1>7. ASSUME NEW a \in Addresses, MapFile(t, a) PROVE FinderInv'
      BY <1>7, MapFileBasics, MapFilePhases
<1>8. CASE Panic(t)
      BY <1>8, PanicBasics, PanicPhases
<1>9. CASE AccessViolation(t) \/ BusError(t)
      BY <1>9, DieFinder DEF AccessViolation, BusError, Basics
<1>10. CASE ReadThisAddress(t)
      BY <1>10, ReadThisAddressBasics, ReadThisAddressPhases
<1>11. CASE Cleanup(t)
      BY <1>11, CleanupBasics, CleanupPhases
<1>12. CASE PublishAddress(t)
      BY <1>12, PublishAddressBasics, PublishAddressPhases
<1>13. CASE InitializeHeader(t)
      BY <1>13, InitializeHeaderBasics, InitializeHeaderPhases
<1>14. ASSUME NEW a \in Addresses, AllocatePrivate(t, a) PROVE FinderInv'
      BY <1>14, AllocatePrivateBasics, AllocatePrivatePhases
<1>15. CASE ReturnAddress(t)
      BY <1>15, ReturnAddressBasics, ReturnAddressPhases
<1> QED
    BY <1>1, <1>2, <1>3, <1>4, <1>5, <1>6, <1>7, <1>8, <1>9, <1>10, <1>11, <1>12, <1>13, <1>14,
       <1>15 DEF FindStep

\* FinderInv is inductive.
LEMMA NextFinder == FinderInv /\ [Next]_vars => FinderInv'
<1> SUFFICES ASSUME FinderInv, [Next]_vars PROVE FinderInv'
    OBVIOUS
<1>1. ASSUME NEW p \in Pids, StartProcess(p) PROVE FinderInv'
      BY <1>1, StartProcessFinder
<1>2. CASE EndProcess
      BY <1>2, DieFinder DEF EndProcess, FinderInv, Basics
<1>3. ASSUME NEW t \in Threads, CallFind(t) PROVE FinderInv'
      BY <1>3, CallFindBasics, CallFindPhases DEF FinderInv
<1>4. ASSUME NEW t \in Threads, FindStep(t) PROVE FinderInv'
      BY <1>4, FindStepFinder
<1>5. CASE UNCHANGED vars
  <2> USE <1>5 DEF vars, processVars, buildVars, fileVars, historyVars
  <2>1. TypeOK' /\ NoneRunning' /\ (\A t \in Threads : Locals(t)')
        BY DEF FinderInv, Basics, TypeOK, NoneRunning, Locals, Sharing, HasMapping, copy
  <2>2. Mappings' /\ MappingsUsed'
        BY DEF FinderInv, Basics, Mappings, MappingsUsed, Sharing, HasMapping, copy
  <2>3. Phases'
        BY DEF FinderInv, Phases, Known, HasResult, PrivateBlocks, Before, During, Since,
               Creating,
               Sharing, HasMapping, copy
  <2> QED
      BY <2>1, <2>2, <2>3 DEF FinderInv, Basics
<1> QED
    BY <1>1, <1>2, <1>3, <1>4, <1>5 DEF Next

\* FinderInv holds in every state of every behaviour.
LEMMA FinderInvariant == Spec => []FinderInv
<1> QED
    BY InitFinder, NextFinder, PTL DEF Spec

-----------------------------------------------------------------------------
\* The theorems

\* Every variable has its type, and a thread behind GLOBAL_LOCK.lock() in find holds the lock
\* of its copy.
THEOREM FinderTypes == Spec => []TypeOK
<1>1. FinderInv => TypeOK
      BY DEF FinderInv, Basics
<1> QED
    BY <1>1, FinderInvariant, PTL

\* Racing copies, retries and failures leave no mapping of the file behind that nobody uses.
THEOREM MappingsDoNotLeak == Spec => []NoMappingLeaked
<1>1. FinderInv => NoMappingLeaked
      BY DEF FinderInv, Basics, MappingsUsed, NoMappingLeaked
<1> QED
    BY <1>1, FinderInvariant, PTL

\* In a process that is not disturbed a header is initialised once.
THEOREM InitializedOnce == Spec => []NeverReinitialized
<1>1. FinderInv => NeverReinitialized
      BY DEF FinderInv, Basics, NoneRunning, Phases, NeverReinitialized
<1> QED
    BY <1>1, FinderInvariant, PTL

\* A sharing copy that knows an address in an undisturbed process: it is the header's, which is
\* mapped there, or a thread of the copy is about to write the header.
LEMMA KnownAddress ==
  ASSUME FinderInv, running # Null, ~disturbed, NEW c \in Copies \ private_copies, cached[c] # Null
  PROVE  LET f == name[running]
         IN  /\ f \in Files /\ view[cached[c]] = f
             /\ \/ file[f].state = "initialized" /\ cached[c] = file[f].this
                \/ /\ file[f].state # "initialized"
                   /\ \E u \in Threads : /\ copy(u) = c /\ pc[u] = "initialize" /\ Creating(u)
                                         /\ data[u] = cached[c]
<1> USE FinderAssumption DEF FinderInv
<1> DEFINE f == name[running]
<1>1. f \in Files
      BY DEF Phases, Before, Basics, TypeOK
<1>2. CASE file[f].state = "initialized"
      BY <1>1, <1>2 DEF Phases, Since
<1>3. CASE file[f].state # "initialized"
  <2>1. During(f)
        BY <1>1, <1>3 DEF Phases
  <2>2. PICK u \in Threads : copy(u) = c /\ pc[u] = "initialize"
        BY <2>1 DEF During
  <2>3. Creating(u) /\ data[u] = cached[c] /\ HasMapping(u)
        BY <2>2 DEF Creating, Sharing, Basics, Locals, HasMapping
  <2> QED
      BY <1>1, <1>3, <2>1, <2>2, <2>3 DEF During
<1> QED
    BY <1>2, <1>3

\* All threads that share the file get the same address from find, whichever copy they call and
\* whenever they call it, in a process that is not disturbed.
THEOREM OneHeader == Spec => []OneHeaderUndisturbed
<1>1. FinderInv => OneHeaderUndisturbed
  <2> SUFFICES ASSUME FinderInv, ~disturbed, NEW t \in Threads, NEW u \in Threads,
                      HasResult(t), HasResult(u), Sharing(t), Sharing(u)
               PROVE  found[t] = found[u]
      BY DEF OneHeaderUndisturbed, OneHeaderAddress, Sharing
  <2>1. running # Null
        BY DEF FinderInv, Basics, NoneRunning, HasResult
  <2>2. /\ copy(t) \in Copies \ private_copies /\ copy(u) \in Copies \ private_copies
        /\ cached[copy(t)] # Null /\ cached[copy(u)] # Null
        /\ found[t] = cached[copy(t)] /\ found[u] = cached[copy(u)]
        BY <2>1, FinderAssumption DEF FinderInv, Phases, Known, Sharing, copy
  <2> DEFINE f == name[running]
  <2>3. CASE file[f].state = "initialized"
        BY <2>1, <2>2, <2>3, KnownAddress
  <2>4. CASE file[f].state # "initialized"
    <3>1. PICK v \in Threads : copy(v) = copy(t) /\ Creating(v)
          BY <2>1, <2>2, <2>4, KnownAddress
    <3>2. PICK w \in Threads : copy(w) = copy(u) /\ Creating(w)
          BY <2>1, <2>2, <2>4, KnownAddress
    <3>3. f \in Files
          BY <2>1, <2>2, KnownAddress
    <3>4. During(f)
          BY <2>1, <2>4, <3>3, FinderAssumption DEF FinderInv, Phases
    <3> QED
        BY <3>1, <3>2, <3>4, <2>2 DEF During
  <2> QED
      BY <2>3, <2>4
<1> QED
    BY <1>1, FinderInvariant, PTL

\* What find returned is mapped, as long as the process is not disturbed.
THEOREM FoundStaysMapped == Spec => []FoundIsMapped
<1>1. FinderInv => FoundIsMapped
  <2> SUFFICES ASSUME FinderInv, ~disturbed, NEW t \in Threads, HasResult(t)
               PROVE  found[t] # Null /\ view[found[t]] # Unmapped
      BY DEF FoundIsMapped
  <2>1. running # Null
        BY DEF FinderInv, Basics, NoneRunning, HasResult
  <2>2. cached[copy(t)] # Null /\ found[t] = cached[copy(t)] /\ copy(t) \in Copies
        BY <2>1, FinderAssumption DEF FinderInv, Phases, Known, copy
  <2>3. CASE copy(t) \in private_copies
        BY <2>1, <2>2, <2>3 DEF FinderInv, Phases, PrivateBlocks, Unmapped, Private
  <2>4. CASE copy(t) \notin private_copies
        BY <2>1, <2>2, <2>4, KnownAddress, FinderAssumption
  <2> QED
      BY <2>3, <2>4
<1> QED
    BY <1>1, FinderInvariant, PTL

\* find hands out a header that is not initialised only while a thread of the same copy is
\* about to initialise it.
THEOREM SoonReady == Spec => []UnreadyOnlyBriefly
<1>1. FinderInv => UnreadyOnlyBriefly
  <2> SUFFICES ASSUME FinderInv, ~disturbed, NEW t \in Threads, HasResult(t), ~Ready(found[t])
               PROVE  \E u \in Threads : copy(u) = copy(t) /\ pc[u] = "initialize"
      BY DEF UnreadyOnlyBriefly
  <2>1. running # Null
        BY DEF FinderInv, Basics, NoneRunning, HasResult
  <2>2. cached[copy(t)] # Null /\ found[t] = cached[copy(t)] /\ copy(t) \in Copies
        BY <2>1, FinderAssumption DEF FinderInv, Phases, Known, copy
  <2>3. CASE copy(t) \in private_copies
        BY <2>1, <2>2, <2>3 DEF FinderInv, Phases, PrivateBlocks, Ready
  <2>4. CASE copy(t) \notin private_copies
        BY <2>1, <2>2, <2>4, KnownAddress DEF Ready
  <2> QED
      BY <2>3, <2>4
<1> QED
    BY <1>1, FinderInvariant, PTL

\* The address a copy has found does not change while its process runs undisturbed.
THEOREM AddressKept == Spec => CacheStable
<1>1. ASSUME FinderInv, [Next]_vars, running' = running, ~disturbed',
             NEW c \in Copies, cached[c] # Null
      PROVE  cached'[c] = cached[c]
  <2>1. running # Null
        BY <1>1 DEF FinderInv, Basics, NoneRunning
  <2>2. ~disturbed \/ Die
        BY <1>1, <2>1, ZenonT(60)
        DEF Next, StartProcess, EndProcess, CallFind, FindStep, CheckCached, LockGlobal, OpenFile,
            OpenFileFails, CreateFile, TruncateFile, MapFile, Panic, AccessViolation, ReadThisAddress,
            BusError, Cleanup, PublishAddress, InitializeHeader, AllocatePrivate, ReturnAddress,
            vars, historyVars
  <2>3. ~disturbed
        BY <1>1, <2>1, <2>2 DEF Die
  <2>4. ASSUME NEW t \in Threads, PublishAddress(t) PROVE cached'[c] = cached[c]
    <3>1. cached[copy(t)] = Null
          BY <1>1, <2>1, <2>3, <2>4 DEF PublishAddress, FinderInv, Phases, Known
    <3> QED
        BY <3>1, <2>4, <1>1 DEF PublishAddress, FinderInv, Basics, TypeOK
  <2>5. ASSUME NEW t \in Threads, ReadThisAddress(t) PROVE cached'[c] = cached[c]
    <3> DEFINE f == name[running]
    <3>1. f # Null /\ Since(f) /\ Sharing(t)
          BY <1>1, <2>1, <2>3, <2>5
          DEF ReadThisAddress, FinderInv, Phases, Before, During, Basics, Locals
    <3>2. MappedFile(t).this = file[f].this
          BY <3>1, <2>5 DEF ReadThisAddress, MappedFile, Since
    <3>3. cached[copy(t)] \in {Null, file[f].this}
          BY <3>1, FinderAssumption DEF Since, Sharing, copy
    <3> QED
        BY <3>2, <3>3, <2>5, <1>1 DEF ReadThisAddress, FinderInv, Basics, TypeOK
  <2> QED
      BY <1>1, <2>1, <2>4, <2>5, ZenonT(60)
      DEF Next, Die, StartProcess, EndProcess, CallFind, FindStep, CheckCached, LockGlobal, OpenFile,
          OpenFileFails, CreateFile, TruncateFile, MapFile, Panic, AccessViolation,
          BusError, Cleanup, InitializeHeader, AllocatePrivate, ReturnAddress, vars
<1>2. FinderInv /\ [Next]_vars =>
        [\A c \in Copies :
           running' = running /\ ~disturbed' /\ cached[c] # Null => cached'[c] = cached[c]]_vars
      BY <1>1
<1> QED
    BY <1>2, FinderInvariant, PTL DEF Spec, CacheStable
=============================================================================
