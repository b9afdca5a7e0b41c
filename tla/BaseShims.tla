------------------------------ MODULE BaseShims ------------------------------
(***************************************************************************)
(* The process and memory shims of base/qnx (process_qnx.cc,               *)
(* memory_qnx.cc), called by any number of threads of one process.  A call *)
(* is a walk through the system calls it makes, each of which may fail.    *)
(* Names of shared memory outlive the process, and its id can be given out *)
(* again after its death.                                                  *)
(***************************************************************************)
EXTENDS Integers

CONSTANTS
  Threads,
  MaxFd,       \* bound: the largest descriptor
  MaxObjects,  \* bound: shared memory objects made
  MaxCount     \* bound: the counter of one process

Fds == 0 .. MaxFd
Stdio == 0 .. 2
Closed == -1
ProcFile == -2

\* A file is the descriptor that stood for it at the start (stdin, stdout,
\* stderr), a file of /proc, or a shared memory object, numbered from 3.
Objects == 3 .. 2 + MaxObjects

VARIABLES
  pc,        \* pc[t]: the next system call of thread t, or "idle"
  name,      \* name[t]: the number in the name it made
  held,      \* held[t]: the descriptor the running call of t has opened
  buffers,   \* threads whose call has a buffer from malloc
  counter,   \* the static of CreateAnonymousSharedMemory
  names,     \* names[n]: the object called /chromium_shm_<pid>_n, or Closed
  made,      \* history: the objects made
  open,      \* open[fd]: the file behind a descriptor, or Closed
  returned   \* descriptors that were returned to a caller

vars == <<pc, name, held, buffers, counter, names, made, open, returned>>
memVars == <<name, counter, names, made>>

Init ==
  /\ pc = [t \in Threads |-> "idle"] /\ name = [t \in Threads |-> 0]
  /\ held = [t \in Threads |-> Closed] /\ buffers = {}
  /\ counter = 0 /\ names = [n \in 0 .. MaxCount |-> Closed] /\ made = 0
  /\ open = [fd \in Fds |-> IF fd \in Stdio THEN fd ELSE Closed]
  /\ returned = {}

At(t, l) == pc[t] = l
Goto(t, l) == pc' = [pc EXCEPT ![t] = l]

\* open() or shm_open() of a file takes the lowest descriptor ...
Opens(t, file) == \E fd \in Fds :
  /\ open[fd] = Closed /\ \A g \in 0 .. fd - 1 : open[g] # Closed
  /\ open' = [open EXCEPT ![fd] = file]
  /\ held' = [held EXCEPT ![t] = fd]

\* ... and the end of a call either closes it or returns it.
Closes(t) ==
  /\ open' = [open EXCEPT ![held[t]] = Closed]
  /\ held' = [held EXCEPT ![t] = Closed]
  /\ Goto(t, "idle")

Returns(t) ==
  /\ returned' = returned \cup {held[t]}
  /\ held' = [held EXCEPT ![t] = Closed]
  /\ Goto(t, "idle")
-----------------------------------------------------------------------------
(* CreateAnonymousSharedMemory *)

\* counter++ of a plain static is a read ...
ReadCounter(t) ==
  /\ At(t, "idle") /\ counter < MaxCount
  /\ name' = [name EXCEPT ![t] = counter]
  /\ Goto(t, "bump")
  /\ UNCHANGED <<held, buffers, counter, names, made, open, returned>>

\* ... and a write; two threads may make one name.
BumpCounter(t) ==
  /\ At(t, "bump")
  /\ counter' = name[t] + 1
  /\ Goto(t, "shm_open")
  /\ UNCHANGED <<name, held, buffers, names, made, open, returned>>

\* Faulty variant: without O_EXCL an existing object is opened.
ShmOpenShared(t) ==
  /\ At(t, "shm_open") /\ made < MaxObjects
  /\ made' = made + 1
  /\ names' = [names EXCEPT ![name[t]] = IF @ = Closed THEN 3 + made ELSE @]
  /\ Opens(t, names'[name[t]]) /\ Goto(t, "shm_unlink")
  /\ UNCHANGED <<name, counter, buffers, returned>>

\* O_CREAT | O_EXCL: a name that exists, or any other failure, is -1.
ShmOpen(t) ==
  /\ At(t, "shm_open")
  /\ \/ /\ names[name[t]] = Closed /\ made < MaxObjects
        /\ made' = made + 1
        /\ names' = [names EXCEPT ![name[t]] = 3 + made]
        /\ Opens(t, 3 + made) /\ Goto(t, "shm_unlink")
     \/ Goto(t, "idle") /\ UNCHANGED <<held, open, names, made>>
  /\ UNCHANGED <<name, counter, buffers, returned>>

ShmUnlink(t) ==
  /\ At(t, "shm_unlink")
  /\ names' = [names EXCEPT ![name[t]] = Closed]
  /\ Goto(t, "ftruncate")
  /\ UNCHANGED <<name, held, buffers, counter, made, open, returned>>

Truncate(t) ==
  /\ At(t, "ftruncate")
  /\ \/ Returns(t) /\ UNCHANGED open
     \/ Closes(t) /\ UNCHANGED returned
  /\ UNCHANGED <<memVars, buffers>>

\* The caller is done with its memory.
CallerCloses(fd) ==
  /\ fd \in returned
  /\ returned' = returned \ {fd} /\ open' = [open EXCEPT ![fd] = Closed]
  /\ UNCHANGED <<pc, memVars, held, buffers>>
-----------------------------------------------------------------------------
(* GetCurrentProcessExePath and GetProcessMemoryInfo *)

OpenProc(t) ==
  /\ At(t, "idle")
  /\ \E l \in {"exefile", "mapinfo"} : Opens(t, ProcFile) /\ Goto(t, l)
  /\ UNCHANGED <<memVars, buffers, returned>>

ReadExeFile(t) ==
  /\ At(t, "exefile") /\ Closes(t)
  /\ UNCHANGED <<memVars, buffers, returned>>

\* The number of mappings, then a buffer for them; without either it is over.
CountMappings(t) ==
  /\ At(t, "mapinfo")
  /\ \/ /\ buffers' = buffers \cup {t} /\ Goto(t, "pagedata")
        /\ UNCHANGED <<held, open>>
     \/ Closes(t) /\ UNCHANGED buffers
  /\ UNCHANGED <<memVars, returned>>

\* Whether the mappings could be read or not.
ReadMappings(t) ==
  /\ At(t, "pagedata") /\ Closes(t)
  /\ buffers' = buffers \ {t}
  /\ UNCHANGED <<memVars, returned>>
-----------------------------------------------------------------------------
(* SpawnProcess changes nothing in this process: the child gets its        *)
(* descriptors with one dup2 for each of the three that was asked for.     *)

\* Faulty variant: descriptor 0 is taken for none.
Dup2Positive(table, src, dest) == IF src > 0 THEN [table EXCEPT ![dest] = table[src]] ELSE table

Dup2(table, src, dest) == IF src >= 0 THEN [table EXCEPT ![dest] = table[src]] ELSE table

\* What shm_open made is close-on-exec and ends with the exec, but for the
\* copies dup2 made of it; a file of open() is inherited.
SpawnProcess(ask) ==
  LET standard == Dup2(Dup2(Dup2(open, ask[0], 0), ask[1], 1), ask[2], 2) IN
  [fd \in Fds |-> IF fd \notin Stdio /\ open[fd] \in Objects THEN Closed ELSE standard[fd]]

\* The process dies, and a later one is given its id.
Restart ==
  /\ pc' = [t \in Threads |-> "idle"] /\ name' = [t \in Threads |-> 0]
  /\ held' = [t \in Threads |-> Closed] /\ buffers' = {}
  /\ counter' = 0
  /\ open' = [fd \in Fds |-> IF fd \in Stdio THEN fd ELSE Closed]
  /\ returned' = {}
  /\ UNCHANGED <<names, made>>

Next ==
  \/ \E t \in Threads :
       \/ ReadCounter(t) \/ BumpCounter(t) \/ ShmOpen(t) \/ ShmUnlink(t) \/ Truncate(t)
       \/ OpenProc(t) \/ ReadExeFile(t) \/ CountMappings(t) \/ ReadMappings(t)
  \/ \E fd \in Fds : CallerCloses(fd)
  \/ Restart

Spec == Init /\ [][Next]_vars
-----------------------------------------------------------------------------
TypeOK ==
  /\ pc \in [Threads -> {"idle", "bump", "shm_open", "shm_unlink", "ftruncate",
                         "exefile", "mapinfo", "pagedata"}]
  /\ name \in [Threads -> 0 .. MaxCount - 1] /\ counter \in 0 .. MaxCount
  /\ held \in [Threads -> Fds \cup {Closed}] /\ buffers \subseteq Threads
  /\ names \in [0 .. MaxCount -> Objects \cup {Closed}] /\ made \in 0 .. MaxObjects
  /\ open \in [Fds -> Stdio \cup Objects \cup {Closed, ProcFile}]
  /\ returned \subseteq Fds

\* Every descriptor and buffer belongs to one running call or one caller,
\* however calls fail, and shared memory is never shared with another call,
\* though threads race for the counter and a dead process with the same id may
\* have left names behind (memory_qnx.cc:20-37, process_qnx.cc:26-85).
ResourcesAccountedFor ==
  /\ \A fd \in Fds \ Stdio : open[fd] # Closed <=>
       (fd \in returned \/ \E t \in Threads : held[t] = fd)
  /\ \A t \in Threads : held[t] # Closed =>
       held[t] \notin returned /\ \A u \in Threads : held[u] = held[t] => u = t
  /\ \A t \in Threads : t \in buffers <=> At(t, "pagedata")
  /\ \A fd, g \in Fds : open[fd] = open[g] /\ open[fd] \in Objects => fd = g

\* Whatever is open and whichever descriptors are asked for, a standard stream
\* of the child is the file meant by it, unless an earlier dup2 has replaced
\* its source: then it is what the child has there, never a file of neither.
\* No shared memory reaches the child unless asked for: of the rest it has
\* only files of /proc that a running call holds open (process_qnx.cc:97-110).
ChildHasWhatItWasGiven ==
  LET Asked == {-1} \cup {fd \in Fds : open[fd] # Closed}
      Meant(src, std) == open[IF src = -1 THEN std ELSE src] IN
  \A ask \in [Stdio -> Asked] :
    LET child == SpawnProcess(ask) IN
    /\ \A std \in Stdio : child[std] =
         IF ask[std] \in 0 .. std - 1 THEN child[ask[std]] ELSE Meant(ask[std], std)
    /\ \A fd \in Fds \ Stdio : child[fd] # Closed =>
         child[fd] = ProcFile /\ \E t \in Threads : held[t] = fd
=============================================================================
