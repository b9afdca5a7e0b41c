------------------------------ MODULE FileWatch ------------------------------
(***************************************************************************)
(* The polling file watcher of base/qnx/files_qnx.cc.  A file is what      *)
(* stat() tells of it, the second of its last change and its size; content *)
(* is told apart by the number of the change that made it.                 *)
(***************************************************************************)
EXTENDS Naturals, Sequences

CONSTANTS
  Paths,
  MaxWatches,   \* the slots of g_watches, 64
  Sizes,        \* sizes a file can have
  MaxTime,      \* bound: seconds
  MaxChanges    \* bound: changes made to the files

\* A file that does not exist, told as a stat buffer that nothing was written to.
NoFile == [mtime |-> 0, size |-> 0, change |-> 0]

VARIABLES
  now,      \* the second
  changes,  \* the number of changes so far
  file,     \* file[p]: NoFile or [mtime, size, change]
  watches,  \* g_watches[0 .. g_watch_count - 1]: [path, last_stat, active]
  seen,     \* seen[i]: [time, change] when last_stat of watch i was filled
  polled    \* the last poll: the watch, its answer and the file it looked at

vars == <<now, changes, file, watches, seen, polled>>

NoPoll == [watch |-> 0, answer |-> 0]

Init ==
  /\ now = 1 /\ changes = 0
  /\ file = [p \in Paths |-> NoFile]
  /\ watches = <<>> /\ seen = <<>> /\ polled = NoPoll

Stat(f) == [mtime |-> f.mtime, size |-> f.size]
Look(p) == [time |-> now, change |-> file[p].change]

\* A full watcher answers -1; the result of stat() is not looked at.
FileWatchAdd(p) ==
  /\ Len(watches) < MaxWatches
  /\ watches' = Append(watches, [path |-> p, active |-> TRUE,
                                 last_stat |-> Stat(file[p])])
  /\ seen' = Append(seen, Look(p))
  /\ polled' = NoPoll
  /\ UNCHANGED <<now, changes, file>>

FileWatchRemove(i) ==
  /\ watches' = [watches EXCEPT ![i].active = FALSE]
  /\ polled' = NoPoll
  /\ UNCHANGED <<now, changes, file, seen>>

\* Faulty variant: only the size is compared.
FileWatchPollSize(i) ==
  LET w == watches[i]  f == file[w.path] IN
  /\ \/ /\ w.active /\ f # NoFile /\ f.size # w.last_stat.size
        /\ watches' = [watches EXCEPT ![i].last_stat = Stat(f)]
        /\ seen' = [seen EXCEPT ![i] = Look(w.path)]
        /\ polled' = [watch |-> i, answer |-> 1]
     \/ /\ w.active /\ f = NoFile
        /\ polled' = [watch |-> i, answer |-> 1]
        /\ UNCHANGED <<watches, seen>>
     \/ /\ ~w.active \/ (f # NoFile /\ f.size = w.last_stat.size)
        /\ polled' = [watch |-> i, answer |-> 0]
        /\ UNCHANGED <<watches, seen>>
  /\ UNCHANGED <<now, changes, file>>

\* A missing file is a change at every poll, and last_stat stays what it was.
FileWatchPoll(i) ==
  LET w == watches[i]  f == file[w.path] IN
  /\ \/ /\ w.active /\ f # NoFile /\ Stat(f) # w.last_stat
        /\ watches' = [watches EXCEPT ![i].last_stat = Stat(f)]
        /\ seen' = [seen EXCEPT ![i] = Look(w.path)]
        /\ polled' = [watch |-> i, answer |-> 1]
     \/ /\ w.active /\ f = NoFile
        /\ polled' = [watch |-> i, answer |-> 1]
        /\ UNCHANGED <<watches, seen>>
     \/ /\ ~w.active \/ (f # NoFile /\ Stat(f) = w.last_stat)
        /\ polled' = [watch |-> i, answer |-> 0]
        /\ UNCHANGED <<watches, seen>>
  /\ UNCHANGED <<now, changes, file>>

\* Other programs write, replace and delete the files while time goes on.
Change(p) ==
  /\ changes < MaxChanges /\ changes' = changes + 1
  /\ \/ \E s \in Sizes : file' = [file EXCEPT ![p] = [mtime |-> now, size |-> s, change |-> changes + 1]]
     \/ file[p] # NoFile /\ file' = [file EXCEPT ![p] = NoFile]
  /\ polled' = NoPoll
  /\ UNCHANGED <<now, watches, seen>>

Tick ==
  /\ now < MaxTime /\ now' = now + 1
  /\ polled' = NoPoll
  /\ UNCHANGED <<changes, file, watches, seen>>

Next ==
  \/ \E p \in Paths : FileWatchAdd(p) \/ Change(p)
  \/ \E i \in DOMAIN watches : FileWatchRemove(i) \/ FileWatchPoll(i)
  \/ Tick

Spec == Init /\ [][Next]_vars
-----------------------------------------------------------------------------
TypeOK ==
  /\ now \in 1 .. MaxTime /\ changes \in 0 .. MaxChanges
  /\ \A p \in Paths : file[p] = NoFile \/ (file[p].mtime \in 1 .. now /\ file[p].change \in 1 .. changes)
  /\ Len(watches) <= MaxWatches /\ Len(seen) = Len(watches)
  /\ \A i \in DOMAIN watches : watches[i].last_stat.mtime \in 0 .. now
  /\ polled.watch \in 0 .. Len(watches) /\ polled.answer \in {0, 1}

\* An active watch that answers "no change" has missed one only if the file was
\* last changed in the very second of the look it is compared with: mtime
\* counts seconds, and a file that did not exist when it was added leaves a
\* zeroed buffer that no existing file equals (files_qnx.cc:84, 98-103).
MissedOnlyWithinTheSecond ==
  polled.watch # 0 /\ polled.answer = 0 /\ watches[polled.watch].active =>
    LET f == file[watches[polled.watch].path]  s == seen[polled.watch] IN
    f.change # s.change => f.mtime = s.time
=============================================================================
