--------------------------- MODULE LocatorHeaderFinder ---------------------------
(***************************************************************************)
(* How the threads of a process find its first locator header              *)
(* (internal/locator_header_finder.rs), through a memory mapped file named *)
(* after the process (internal/memory_mapped_file_unix.rs and _windows.rs).*)
(*                                                                         *)
(* A process may contain several copies of the library (two mods that link *)
(* it statically, say).  Each copy has its own LOCATOR_HEADER_ADDRESS and  *)
(* GLOBAL_LOCK; only the file is shared.  Processes run one after another; *)
(* the operating system may give a new one the id of a dead one.           *)
(***************************************************************************)
EXTENDS Naturals, FiniteSets

CONSTANTS Threads,
          Copies,         \* copies of the library in a process
          CopyOf,         \* the copy each thread calls
          PrivateCopies,  \* copies that may be built with feature all_private
          Pids,           \* process ids
          Addresses,      \* where a header can be mapped
          Files,          \* files there can be at a time, named or only open
          Null,           \* the null pointer
          Systems,        \* operating systems: "unix", "windows"
          MaxFailures,    \* bound on the failing system calls of a process
          MaxStarts       \* bound on the number of processes

\* What is mapped at an address: nothing, a private block or a file.
Unmapped == "unmapped"
Private  == "private"

ASSUME FinderAssumption ==
  /\ CopyOf \in [Threads -> Copies]
  /\ PrivateCopies \subseteq Copies
  /\ Null \notin Addresses \cup Pids \cup Files \cup Threads
  /\ {Unmapped, Private} \cap Files = {}
  /\ "none" \notin Addresses
  /\ Systems \subseteq {"unix", "windows"}
  /\ MaxFailures \in Nat
  /\ MaxStarts \in Nat

VARIABLES
  os,           \* the operating system
  private_copies, \* copies built with feature all_private (or for Android)
  running,      \* the process id, Null between processes
  starts,       \* processes started so far
  name,         \* by process id: the file of that name, or Null
  file,         \* what each file holds
  view,         \* by address: what the process has mapped there
  prepared,     \* addresses of private blocks that have been initialised
  cached,       \* LOCATOR_HEADER_ADDRESS, by copy
  mmf,          \* MMF, by copy: the mapping kept alive, or Null
  global_lock,  \* GLOBAL_LOCK, by copy: the holder or Null
  pc,           \* where each thread is in find
  fd,           \* the file the thread has opened
  data,         \* mmf.data() or the private allocation
  existed,      \* mmf.already_existed()
  found,        \* what find last returned to the thread in this process
  failures,     \* system calls of this process that failed
  resets,       \* history: initialisations of a header that was in use already
  disturbed     \* history: a file of a dead process, of a creation under way or
                \* hidden by a failing open was met, or a private copy raced itself

historyVars == <<resets, disturbed>>
buildVars == <<os, private_copies>>
processVars == <<buildVars, running, starts>>
fileVars == <<name, file>>
localVars == <<fd, data, existed>>
vars == <<processVars, fileVars, view, prepared, cached, mmf, global_lock,
          pc, fd, data, existed, found, failures, historyVars>>

\* A file does not exist, or is empty, or has the header's length; this is the
\* header's this_address, Null in a fresh file.
NoFile == [state |-> "none", this |-> Null]

Locations == {"idle", "check", "lock", "open", "create", "truncate", "map", "read",
              "private", "cleanup", "publish", "initialize", "return"}

copy(t) == CopyOf[t]

\* Every variable has its type, and a thread in the part of find behind
\* GLOBAL_LOCK.lock() holds the lock of its copy.
TypeOK ==
  /\ os \in Systems
  /\ private_copies \in SUBSET PrivateCopies
  /\ running \in Pids \cup {Null}
  /\ starts \in 0 .. MaxStarts
  /\ name \in [Pids -> Files \cup {Null}]
  /\ file \in [Files -> [state : {"none", "empty", "sized", "initialized"},
                         this : Addresses \cup {Null}]]
  /\ view \in [Addresses -> {Unmapped, Private} \cup Files]
  /\ prepared \subseteq Addresses
  /\ cached \in [Copies -> Addresses \cup {Null}]
  /\ mmf \in [Copies -> Addresses \cup {Null}]
  /\ global_lock \in [Copies -> Threads \cup {Null}]
  /\ pc \in [Threads -> Locations]
  /\ fd \in [Threads -> Files \cup {Null}]
  /\ data \in [Threads -> Addresses \cup {Null}]
  /\ existed \in [Threads -> BOOLEAN]
  /\ found \in [Threads -> Addresses \cup {Null, "none"}]
  /\ failures \in 0 .. MaxFailures
  /\ resets \in Nat
  /\ disturbed \in BOOLEAN
  /\ \A t \in Threads : pc[t] \notin {"idle", "check", "lock"} => global_lock[copy(t)] = t

\* Nothing of a process is left but its files.
NoProcess ==
  /\ view' = [a \in Addresses |-> Unmapped]
  /\ prepared' = {}
  /\ cached' = [c \in Copies |-> Null]
  /\ mmf' = [c \in Copies |-> Null]
  /\ global_lock' = [c \in Copies |-> Null]
  /\ pc' = [t \in Threads |-> "idle"]
  /\ fd' = [t \in Threads |-> Null]
  /\ data' = [t \in Threads |-> Null]
  /\ existed' = [t \in Threads |-> FALSE]
  /\ found' = [t \in Threads |-> "none"]
  /\ failures' = 0
  /\ resets' = 0
  /\ disturbed' = FALSE

Init ==
  /\ os \in Systems
  /\ private_copies \in SUBSET PrivateCopies
  /\ running = Null
  /\ starts = 0
  /\ name = [p \in Pids |-> Null]
  /\ file = [f \in Files |-> NoFile]
  /\ view = [a \in Addresses |-> Unmapped]
  /\ prepared = {}
  /\ cached = [c \in Copies |-> Null]
  /\ mmf = [c \in Copies |-> Null]
  /\ global_lock = [c \in Copies |-> Null]
  /\ pc = [t \in Threads |-> "idle"]
  /\ fd = [t \in Threads |-> Null]
  /\ data = [t \in Threads |-> Null]
  /\ existed = [t \in Threads |-> FALSE]
  /\ found = [t \in Threads |-> "none"]
  /\ failures = 0
  /\ resets = 0
  /\ disturbed = FALSE

Goto(t, location) == pc' = [pc EXCEPT ![t] = location]

\* The locals of a call are gone.
CloseLocals(t) ==
  /\ fd' = [fd EXCEPT ![t] = Null]
  /\ data' = [data EXCEPT ![t] = Null]
  /\ existed' = [existed EXCEPT ![t] = FALSE]

\* A system call fails.
Fails == failures < MaxFailures /\ failures' = failures + 1

FreeAddresses == {a \in Addresses : view[a] = Unmapped}

UnusedFiles == {f \in Files : file[f] = NoFile}

-----------------------------------------------------------------------------
\* Processes

StartProcess(p) ==
  /\ running = Null
  /\ starts < MaxStarts
  /\ running' = p
  /\ starts' = starts + 1
  /\ disturbed' = (name[p] # Null)
  /\ UNCHANGED <<buildVars, fileVars, view, prepared, cached, mmf, global_lock,
                 pc, localVars, found, failures, resets>>

\* Statics are not dropped: a unix file outlives its process, a Windows mapping
\* ends with its last handle.
Die ==
  /\ running' = Null
  /\ name' = IF os = "unix" THEN name ELSE [name EXCEPT ![running] = Null]
  /\ file' = [f \in Files |-> IF \E p \in Pids : name'[p] = f THEN file[f] ELSE NoFile]
  /\ NoProcess
  /\ UNCHANGED <<buildVars, starts>>

\* The process ends, at any moment: it exits, is killed or crashes.
EndProcess == running # Null /\ Die

-----------------------------------------------------------------------------
\* LocatorHeaderFinder::find

CallFind(t) ==
  /\ running # Null
  /\ pc[t] = "idle"
  /\ Goto(t, "check")
  /\ UNCHANGED <<processVars, fileVars, view, prepared, cached, mmf, global_lock,
                 localVars, found, failures, historyVars>>

\* The cached address is read without the lock.
CheckCached(t) ==
  /\ pc[t] = "check"
  /\ IF cached[copy(t)] # Null
       THEN /\ found' = [found EXCEPT ![t] = cached[copy(t)]]
            /\ Goto(t, "idle")
       ELSE /\ Goto(t, "lock")
            /\ UNCHANGED found
  /\ UNCHANGED <<processVars, fileVars, view, prepared, cached, mmf, global_lock,
                 localVars, failures, historyVars>>

\* [Mutant] the lock is not taken.
LockGlobalMissing(t) ==
  /\ pc[t] = "lock"
  /\ global_lock' = [global_lock EXCEPT ![copy(t)] = t]
  /\ Goto(t, IF copy(t) \in private_copies THEN "private" ELSE "open")
  /\ UNCHANGED <<processVars, fileVars, view, prepared, cached, mmf, localVars, found, failures, historyVars>>

\* GLOBAL_LOCK.lock(); the cached address is not looked at again.
LockGlobal(t) ==
  /\ pc[t] = "lock"
  /\ global_lock[copy(t)] = Null
  /\ global_lock' = [global_lock EXCEPT ![copy(t)] = t]
  /\ Goto(t, IF copy(t) \in private_copies THEN "private" ELSE "open")
  /\ UNCHANGED <<processVars, fileVars, view, prepared, cached, mmf, localVars, found, failures, historyVars>>

\* [Mutant] the guard is not dropped.
ReturnAddressLocked(t) ==
  /\ pc[t] = "return"
  /\ found' = [found EXCEPT ![t] = cached[copy(t)]]
  /\ CloseLocals(t)
  /\ Goto(t, "idle")
  /\ UNCHANGED <<processVars, fileVars, view, prepared, cached, mmf, global_lock,
                 failures, historyVars>>

\* The address is returned and the guard of GLOBAL_LOCK dropped.
ReturnAddress(t) ==
  /\ pc[t] = "return"
  /\ found' = [found EXCEPT ![t] = cached[copy(t)]]
  /\ global_lock' = [global_lock EXCEPT ![copy(t)] = Null]
  /\ CloseLocals(t)
  /\ Goto(t, "idle")
  /\ UNCHANGED <<processVars, fileVars, view, prepared, cached, mmf, failures, historyVars>>

-----------------------------------------------------------------------------
\* UnixMemoryMappedFile::new, WindowsMemoryMappedFile::new

\* [Mutant] a file that is there counts as new.
OpenFileAsNew(t) ==
  /\ pc[t] = "open"
  /\ Goto(t, "create")
  /\ UNCHANGED <<processVars, fileVars, view, prepared, cached, mmf, global_lock,
                 localVars, found, failures, historyVars>>

\* The first open, which does not create.  Another copy may be about to create
\* the file as well, or may not have written the header to it yet.
OpenFile(t) ==
  /\ pc[t] = "open"
  /\ fd' = [fd EXCEPT ![t] = name[running]]
  /\ existed' = [existed EXCEPT ![t] = name[running] # Null]
  /\ Goto(t, IF name[running] # Null THEN "map" ELSE "create")
  /\ disturbed' = \/ disturbed
                  \/ IF name[running] # Null THEN file[name[running]].state # "initialized"
                                             ELSE \E u \in Threads : pc[u] = "create"
  /\ UNCHANGED <<processVars, fileVars, view, prepared, cached, mmf, global_lock,
                 data, found, failures, resets>>

\* It fails for whatever reason: the file is taken not to exist.
OpenFileFails(t) ==
  /\ pc[t] = "open"
  /\ Fails
  /\ disturbed' = (disturbed \/ name[running] # Null \/ \E u \in Threads : pc[u] = "create")
  /\ Goto(t, "create")
  /\ UNCHANGED <<processVars, fileVars, view, prepared, cached, mmf, global_lock,
                 localVars, found, resets>>

\* The second open, with O_CREAT and without O_EXCL, or CreateFileMapping: a file
\* created by another copy in the meantime is opened, and still counts as new.
\* On Windows it is created with its length.
CreateFile(t) ==
  /\ pc[t] = "create"
  /\ name[running] # Null \/ UnusedFiles # {}
  /\ \E f \in Files :
       /\ f = IF name[running] # Null THEN name[running] ELSE CHOOSE u \in UnusedFiles : TRUE
       /\ name' = [name EXCEPT ![running] = f]
       /\ file' = [file EXCEPT ![f].state =
                     IF @ # "none" THEN @ ELSE IF os = "unix" THEN "empty" ELSE "sized"]
       /\ fd' = [fd EXCEPT ![t] = f]
  /\ Goto(t, IF os = "unix" THEN "truncate" ELSE "map")
  /\ UNCHANGED <<processVars, view, prepared, cached, mmf, global_lock,
                 data, existed, found, failures, historyVars>>

\* ftruncate to the header's length; new bytes are zero.  Nothing looks at whether
\* it fails.
TruncateFile(t) ==
  /\ pc[t] = "truncate"
  /\ \/ /\ file' = [file EXCEPT ![fd[t]].state = IF @ = "empty" THEN "sized" ELSE @]
        /\ UNCHANGED failures
     \/ Fails /\ UNCHANGED file
  /\ Goto(t, "map")
  /\ UNCHANGED <<processVars, name, view, prepared, cached, mmf, global_lock,
                 localVars, found, historyVars>>

\* mmap or MapViewOfFile at an address of the system's choice.
MapFile(t, a) ==
  /\ pc[t] = "map"
  /\ a \in FreeAddresses
  /\ view' = [view EXCEPT ![a] = fd[t]]
  /\ data' = [data EXCEPT ![t] = a]
  /\ Goto(t, IF existed[t] THEN "read" ELSE IF os = "unix" THEN "cleanup" ELSE "publish")
  /\ UNCHANGED <<processVars, fileVars, prepared, cached, mmf, global_lock,
                 fd, existed, found, failures, historyVars>>

\* On unix the second open or mmap fails, or allocate in a private copy: find
\* panics and the guard of GLOBAL_LOCK, which is not poisoned, is dropped.  A file
\* created on the way stays.
Panic(t) ==
  /\ \/ pc[t] \in {"create", "map"} /\ os = "unix"
     \/ pc[t] = "private"
  /\ Fails
  /\ global_lock' = [global_lock EXCEPT ![copy(t)] = Null]
  /\ CloseLocals(t)
  /\ Goto(t, "idle")
  /\ UNCHANGED <<processVars, fileVars, view, prepared, cached, mmf, found, historyVars>>

\* On Windows nothing looks at the results: a null view is read or initialised.
AccessViolation(t) ==
  /\ pc[t] \in {"create", "map"}
  /\ os = "windows"
  /\ failures < MaxFailures
  /\ Die

-----------------------------------------------------------------------------
\* init_locatorheader_standard

\* The file behind the thread's mapping.
MappedFile(t) == file[view[data[t]]]

\* [Mutant] the mapping is kept.
ReadThisAddressKeepingView(t) ==
  /\ pc[t] = "read"
  /\ MappedFile(t).state # "empty"
  /\ cached' = [cached EXCEPT ![copy(t)] = MappedFile(t).this]
  /\ Goto(t, "return")
  /\ UNCHANGED <<processVars, fileVars, view, prepared, mmf, global_lock,
                 localVars, found, failures, historyVars>>

\* [Mutant] takes the address of the mapping for that of the header.
ReadOwnAddress(t) ==
  /\ pc[t] = "read"
  /\ MappedFile(t).state # "empty"
  /\ cached' = [cached EXCEPT ![copy(t)] = data[t]]
  /\ view' = [view EXCEPT ![data[t]] = Unmapped]
  /\ Goto(t, "return")
  /\ UNCHANGED <<processVars, fileVars, prepared, mmf, global_lock,
                 localVars, found, failures, historyVars>>

\* The file existed: this_address is read through the mapping, which is then
\* dropped.
ReadThisAddress(t) ==
  /\ pc[t] = "read"
  /\ MappedFile(t).state # "empty"
  /\ cached' = [cached EXCEPT ![copy(t)] = MappedFile(t).this]
  /\ view' = [view EXCEPT ![data[t]] = Unmapped]
  /\ Goto(t, "return")
  /\ UNCHANGED <<processVars, fileVars, prepared, mmf, global_lock,
                 localVars, found, failures, historyVars>>

\* The header of an empty file is behind the end of the file: to read it or to
\* initialise it is a bus error.
BusError(t) ==
  /\ pc[t] \in {"read", "initialize"}
  /\ view[data[t]] \in Files
  /\ MappedFile(t).state = "empty"
  /\ Die

\* cleanup(): for each file of a process that is not running, unlink is called
\* with the bare file name, which is looked up in the working directory and not
\* in the directory of the files; nothing is removed.
Cleanup(t) ==
  /\ pc[t] = "cleanup"
  /\ Goto(t, "publish")
  /\ UNCHANGED <<processVars, fileVars, view, prepared, cached, mmf, global_lock,
                 localVars, found, failures, historyVars>>

\* [Mutant] the header is not initialised.
PublishUninitialized(t) ==
  /\ pc[t] = "publish"
  /\ cached' = [cached EXCEPT ![copy(t)] = data[t]]
  /\ mmf' = [mmf EXCEPT ![copy(t)] = data[t]]
  /\ Goto(t, "return")
  /\ UNCHANGED <<processVars, fileVars, view, prepared, global_lock,
                 localVars, found, failures, historyVars>>

\* LOCATOR_HEADER_ADDRESS is set, for every thread of the copy to see, before
\* the header is initialised.
PublishAddress(t) ==
  /\ pc[t] = "publish"
  /\ cached' = [cached EXCEPT ![copy(t)] = data[t]]
  /\ Goto(t, "initialize")
  /\ UNCHANGED <<processVars, fileVars, view, prepared, mmf, global_lock,
                 localVars, found, failures, historyVars>>

\* Drop of the mapping MMF held before, if any: it is unmapped, and on unix the
\* file it created is unlinked, by a name without its final NUL, so that what lies
\* behind it in memory decides whether the file is found.
DropMmf(c) ==
  /\ view' = [b \in Addresses |-> IF b = mmf[c] THEN Unmapped ELSE view[b]]
  /\ \/ UNCHANGED name
     \/ os = "unix" /\ mmf[c] # Null /\ name' = [name EXCEPT ![running] = Null]

\* (*LOCATOR_HEADER_ADDRESS).initialize; a file's mapping is then kept in MMF.
InitializeHeader(t) ==
  /\ pc[t] = "initialize"
  /\ LET a == cached[copy(t)]
     IN  IF view[a] = Private
           THEN /\ prepared' = prepared \cup {a}
                /\ UNCHANGED <<fileVars, view, mmf, resets>>
           ELSE /\ MappedFile(t).state # "empty"
                /\ file' = [file EXCEPT ![view[a]] = [state |-> "initialized", this |-> a]]
                /\ resets' = resets + (IF file[view[a]].state = "initialized" THEN 1 ELSE 0)
                /\ mmf' = [mmf EXCEPT ![copy(t)] = data[t]]
                /\ DropMmf(copy(t))
                /\ UNCHANGED prepared
  /\ Goto(t, "return")
  /\ UNCHANGED <<processVars, cached, global_lock, localVars, found, failures, disturbed>>

-----------------------------------------------------------------------------
\* init_locatorheader_memorymappedfiles_unsupported: a private block; the rest
\* is as above, without a file.
AllocatePrivate(t, a) ==
  /\ pc[t] = "private"
  /\ a \in FreeAddresses
  /\ view' = [view EXCEPT ![a] = Private]
  /\ data' = [data EXCEPT ![t] = a]
  /\ disturbed' = (disturbed \/ cached[copy(t)] # Null)
  /\ Goto(t, "publish")
  /\ UNCHANGED <<processVars, fileVars, prepared, cached, mmf, global_lock,
                 fd, existed, found, failures, resets>>

-----------------------------------------------------------------------------
FindStep(t) ==
  \/ CheckCached(t)
  \/ LockGlobal(t)
  \/ OpenFile(t)
  \/ OpenFileFails(t)
  \/ CreateFile(t)
  \/ TruncateFile(t)
  \/ \E a \in Addresses : MapFile(t, a)
  \/ Panic(t)
  \/ AccessViolation(t)
  \/ ReadThisAddress(t)
  \/ BusError(t)
  \/ Cleanup(t)
  \/ PublishAddress(t)
  \/ InitializeHeader(t)
  \/ \E a \in Addresses : AllocatePrivate(t, a)
  \/ ReturnAddress(t)

Next ==
  \/ \E p \in Pids : StartProcess(p)
  \/ EndProcess
  \/ \E t \in Threads : CallFind(t) \/ FindStep(t)

Spec == Init /\ [][Next]_vars

\* Each thread inside find keeps running.
FairSpec == Spec /\ \A t \in Threads : WF_vars(FindStep(t))

-----------------------------------------------------------------------------
\* Properties

HasResult(t) == found[t] # "none"

\* "Address of the first memory map": all threads of the process that share the
\* file work on one header, at one address.
OneHeaderAddress ==
  \A t, u \in Threads :
    /\ HasResult(t) /\ HasResult(u)
    /\ copy(t) \notin private_copies /\ copy(u) \notin private_copies
    => found[t] = found[u]

\* It holds, also for copies that find the file at different times and for those
\* that retry after a panic, as long as no two creations of the file overlap and
\* no file of a dead process is there.
OneHeaderUndisturbed == ~disturbed => OneHeaderAddress

\* What find returns is mapped in this process, although the mapping the address
\* was read through is dropped.
FoundIsMapped ==
  ~disturbed =>
    \A t \in Threads : HasResult(t) => found[t] # Null /\ view[found[t]] # Unmapped

Ready(a) == \/ view[a] = Private /\ a \in prepared
            \/ view[a] \in Files /\ file[view[a]].state = "initialized"

\* find hands out an address whose header is not initialised only while a thread
\* of the same copy is about to initialise it (the cached address is set first).
UnreadyOnlyBriefly ==
  ~disturbed =>
    \A t \in Threads : HasResult(t) /\ ~Ready(found[t]) =>
      \E u \in Threads : copy(u) = copy(t) /\ pc[u] = "initialize"

\* A header is initialised once: initialising it again would forget its items
\* and open its lock while other threads use it.
NeverReinitialized == ~disturbed => resets = 0

\* The address a copy has found does not change while its process runs, so
\* threads of the copy that found it at different times agree.
CacheStable ==
  [][\A c \in Copies :
       running' = running /\ ~disturbed' /\ cached[c] # Null => cached'[c] = cached[c]]_vars

\* A mapping of the file is open only while find uses it or because a copy keeps
\* it alive: racing copies and retries do not pile up mappings.
NoMappingLeaked ==
  \A a \in Addresses : view[a] \in Files =>
    \/ \E c \in Copies : mmf[c] = a
    \/ \E t \in Threads : data[t] = a

\* find returns, whoever else calls it: a thread waiting for GLOBAL_LOCK gets it,
\* because each thread takes it only until its copy's address is known.
FindReturns == \A t \in Threads : pc[t] = "check" ~> (pc[t] = "idle" \/ disturbed)
=============================================================================
