---------------------------- MODULE ChildLaunch ----------------------------
(***************************************************************************)
(* Launching a child process in the multi-process build.  The launcher     *)
(* thread of the browser lists its open descriptors, builds the file       *)
(* actions and calls posix_spawn(), which copies the browser's descriptor  *)
(* table into the child and executes the actions on the copy.  Meanwhile   *)
(* the other threads of the browser open and close descriptors.            *)
(*                                                                         *)
(* An open file is named by the descriptor that the browser had it under   *)
(* when the launch began.                                                  *)
(***************************************************************************)
EXTENDS Descriptors, Sequences

VARIABLES
  remaps,        \* options->fds_to_remap
  phase,         \* what the launcher thread does next
  table,         \* the browser's descriptors
  cloexec,       \* the browser's descriptors with FD_CLOEXEC
  changes,       \* descriptors opened and closed by other threads so far
  closes,        \* the descriptors of the addclose actions
  listed,        \* history: /proc/self/fd could be read
  done,          \* dup2 actions executed
  child,         \* the child's descriptors
  childCloexec,  \* the child's descriptors with FD_CLOEXEC
  result         \* *launch_result

launchVars == <<remaps, phase, closes, listed, result>>
browserVars == <<table, cloexec, changes>>
childVars == <<done, child, childCloexec>>
vars == <<launchVars, browserVars, childVars>>

Sources == {remaps[i].src : i \in DOMAIN remaps}
Dests == {remaps[i].dest : i \in DOMAIN remaps}

\* GetMappingWithIDAdjustment: every key gets a destination of its own above
\* the standard descriptors.
Mappings ==
  {r \in UNION {[1 .. n -> [src : Fds \ Stdio, dest : Fds \ Stdio]] : n \in 0 .. MaxRemaps} :
     \A i, j \in DOMAIN r : i # j => r[i].dest # r[j].dest}

Init ==
  /\ remaps \in Mappings
  /\ phase = "list"
  /\ \E open \in SUBSET (Fds \ Stdio) :
       /\ Sources \subseteq open
       /\ table = [fd \in Fds |-> IF fd \in open \cup Stdio THEN fd ELSE Closed]
       /\ cloexec \in SUBSET open
  /\ changes = 0
  /\ closes = {} /\ listed = FALSE
  /\ done = 0 /\ child = [fd \in Fds |-> Closed] /\ childCloexec = {}
  /\ result = "none"
-----------------------------------------------------------------------------
(* The other threads of the browser.  The files of the remaps stay open    *)
(* until the launch is over.                                               *)

\* The kernel hands out the lowest free descriptor.
Free(fd) == table[fd] = Closed /\ \A g \in Fds : g < fd => table[g] # Closed

OtherThreadOpens(fd) ==
  /\ changes < MaxChanges /\ Free(fd)
  /\ table' = [table EXCEPT ![fd] = IF phase = "list" THEN Early ELSE Late]
  /\ cloexec' \in {cloexec, cloexec \cup {fd}}
  /\ changes' = changes + 1
  /\ UNCHANGED <<launchVars, childVars>>

OtherThreadCloses(fd) ==
  /\ changes < MaxChanges /\ fd \notin Stdio \cup Sources /\ table[fd] # Closed
  /\ table' = [table EXCEPT ![fd] = Closed]
  /\ cloexec' = cloexec \ {fd}
  /\ changes' = changes + 1
  /\ UNCHANGED <<launchVars, childVars>>
-----------------------------------------------------------------------------
(* The launcher thread.                                                    *)

Open == {fd \in Fds : table[fd] # Closed}

\* Faulty variant: the standard descriptors are not spared.
SuperfluousAndStdio == Open \ Dests

\* Faulty variant: the destinations are not spared.
SuperfluousAndDests == Open \ Stdio

\* AddCloseSuperfluousFds spares the destinations, not the sources.  The
\* descriptor it reads the directory with is spared too and closed by itself.
Superfluous == Open \ (Stdio \cup Dests)

\* The dup2 actions, then AddCloseSuperfluousFds ...
AddFileActions ==
  /\ phase = "list"
  /\ phase' = "spawn"
  /\ closes' = Superfluous
  /\ listed' = TRUE
  /\ UNCHANGED <<remaps, result, browserVars, childVars>>

\* ... which returns early if /proc/self/fd cannot be read.
AddFileActionsUnlisted ==
  /\ phase = "list"
  /\ phase' = "spawn"
  /\ UNCHANGED <<remaps, closes, listed, result, browserVars, childVars>>

\* posix_spawn() copies the table ...
SpawnCopies ==
  /\ phase = "spawn"
  /\ phase' = "open"
  /\ child' = table
  /\ childCloexec' = cloexec
  /\ UNCHANGED <<remaps, closes, listed, result, browserVars, done>>

\* ... and may fail at any action, or at the executable.
SpawnFails ==
  /\ phase \in {"spawn", "open", "dup2", "close", "exec"}
  /\ phase' = "failed"
  /\ result' = "LAUNCH_RESULT_FAILURE"
  /\ UNCHANGED <<remaps, closes, listed, browserVars, childVars>>

\* The first action opens /dev/null on the child's standard input.
OpenStdin ==
  /\ phase = "open"
  /\ phase' = "dup2"
  /\ child' = [child EXCEPT ![0] = DevNull]
  /\ UNCHANGED <<remaps, closes, listed, result, browserVars, done, childCloexec>>

\* The next remap; a copy onto itself need not clear FD_CLOEXEC.
Dup2(m) ==
  /\ child' = [child EXCEPT ![m.dest] = child[m.src]]
  /\ childCloexec' \in (IF m.src = m.dest THEN {childCloexec, childCloexec \ {m.dest}}
                                          ELSE {childCloexec \ {m.dest}})

ApplyRemap ==
  /\ phase = "dup2" /\ done < Len(remaps)
  /\ Dup2(remaps[done + 1])
  /\ done' = done + 1
  /\ UNCHANGED <<launchVars, browserVars>>

RemapsApplied ==
  /\ phase = "dup2" /\ done = Len(remaps)
  /\ phase' = "close"
  /\ UNCHANGED <<remaps, closes, listed, result, browserVars, childVars>>

\* Faulty variant: only what exec closes anyway is closed.
CloseOnlyCloexec ==
  /\ phase = "close"
  /\ phase' = "exec"
  /\ child' = [fd \in Fds |-> IF fd \in closes \cap childCloexec THEN Closed ELSE child[fd]]
  /\ childCloexec' = childCloexec \ closes
  /\ UNCHANGED <<remaps, closes, listed, result, browserVars, done>>

\* The close actions, in one step: their order does not matter.
CloseSuperfluous ==
  /\ phase = "close"
  /\ phase' = "exec"
  /\ child' = [fd \in Fds |-> IF fd \in closes THEN Closed ELSE child[fd]]
  /\ childCloexec' = childCloexec \ closes
  /\ UNCHANGED <<remaps, closes, listed, result, browserVars, done>>

\* The child's image is replaced and posix_spawn() returns 0 in the browser.
Exec ==
  /\ phase = "exec"
  /\ phase' = "running"
  /\ child' = [fd \in Fds |-> IF fd \in childCloexec THEN Closed ELSE child[fd]]
  /\ childCloexec' = {}
  /\ result' = "LAUNCH_RESULT_SUCCESS"
  /\ UNCHANGED <<remaps, closes, listed, browserVars, done>>

Launcher ==
  \/ AddFileActions \/ AddFileActionsUnlisted \/ SpawnCopies \/ SpawnFails
  \/ OpenStdin \/ ApplyRemap \/ RemapsApplied \/ CloseSuperfluous \/ Exec

Next ==
  \/ Launcher
  \/ \E fd \in Fds : OtherThreadOpens(fd) \/ OtherThreadCloses(fd)

Spec == Init /\ [][Next]_vars
-----------------------------------------------------------------------------
TypeOK ==
  /\ remaps \in Mappings
  /\ phase \in {"list", "spawn", "open", "dup2", "close", "exec", "running", "failed"}
  /\ table \in [Fds -> Files] /\ cloexec \subseteq Fds
  /\ changes \in 0 .. MaxChanges
  /\ closes \subseteq Fds \ Stdio /\ listed \in BOOLEAN
  /\ done \in 0 .. Len(remaps)
  /\ child \in [Fds -> Files] /\ childCloexec \subseteq Fds
  /\ result \in {"none", "LAUNCH_RESULT_SUCCESS", "LAUNCH_RESULT_FAILURE"}

\* No earlier dup2 has overwritten the source of remap i, and it is not a copy
\* onto itself: the launcher does nothing about either.
Untouched(i) ==
  /\ remaps[i].src # remaps[i].dest
  /\ \A j \in 1 .. i - 1 : remaps[j].dest # remaps[i].src

\* A running child has /dev/null as its standard input, the browser's output
\* and error, and behind every destination the file that the browser had under
\* the source when the launch began, whatever its other threads opened and
\* closed since (LaunchProcessOnLauncherThread).
ChildGetsItsFiles ==
  phase = "running" =>
    /\ child[0] = DevNull /\ child[1] = 1 /\ child[2] = 2
    /\ \A i \in DOMAIN remaps : Untouched(i) => child[remaps[i].dest] = remaps[i].src

\* Apart from these the child has no copy of a descriptor that was open when
\* the superfluous ones were listed (AddCloseSuperfluousFds).
NothingElseSurvives ==
  phase = "running" /\ listed =>
    \A fd \in Fds \ (Stdio \cup Dests) : child[fd] \in {Closed, Late}
=============================================================================
