------------------------- MODULE ChildLaunch_proofs -------------------------
(***************************************************************************)
(* Whatever the numbers of descriptors, remaps and changes by other        *)
(* threads: a running child has its standard descriptors and the files     *)
(* handed to it, and no copy of a descriptor that the launcher listed.     *)
(***************************************************************************)
EXTENDS ChildLaunch, SequenceTheorems, TLAPS

\* The browser keeps the files that it hands over, and knows what was opened
\* after the listing.
BrowserInv ==
  /\ \A fd \in Stdio \cup Sources : table[fd] = fd
  /\ cloexec \cap Stdio = {}
  /\ closes \cap (Stdio \cup Dests) = {}
  /\ phase = "list" => ~listed
  /\ phase = "spawn" /\ listed =>
       \A fd \in Fds \ (Stdio \cup Dests \cup closes) : table[fd] \in {Closed, Late}

Spawned == phase \in {"open", "dup2", "close", "exec", "running"}
StdinOpened == phase \in {"dup2", "close", "exec", "running"}

\* The copies made so far stand, and the sources not yet copied are there
\* unless an earlier copy has overwritten them.
ChildInv ==
  /\ childCloexec \cap Stdio = {}
  /\ phase \in {"list", "spawn", "open"} => done = 0
  /\ phase \in {"close", "exec", "running"} => done = Len(remaps)
  /\ Spawned => child[1] = 1 /\ child[2] = 2
  /\ StdinOpened => child[0] = DevNull
  /\ phase \in {"open", "dup2"} =>
       \A i \in DOMAIN remaps :
         (\A j \in 1 .. done : remaps[j].dest # remaps[i].src)
            => child[remaps[i].src] = remaps[i].src
  /\ Spawned =>
       \A i \in 1 .. done :
         Untouched(i) => /\ child[remaps[i].dest] = remaps[i].src
                         /\ remaps[i].dest \notin childCloexec
  /\ Spawned /\ listed =>
       \A fd \in Fds \ (Stdio \cup Dests) :
         child[fd] \in {Closed, Late} \/ (fd \in closes /\ phase \in {"open", "dup2", "close"})

LaunchInv == TypeOK /\ BrowserInv /\ ChildInv

\* What a mapping looks like.
LEMMA MappingShape ==
  ASSUME NEW r \in Mappings
  PROVE  /\ Len(r) \in Nat /\ DOMAIN r = 1 .. Len(r)
         /\ \A i \in DOMAIN r : r[i].src \in Fds \ Stdio /\ r[i].dest \in Fds \ Stdio
         /\ \A i, j \in DOMAIN r : i # j => r[i].dest # r[j].dest
  <1>. DEFINE Pairs == [src : Fds \ Stdio, dest : Fds \ Stdio]
  <1>1. PICK n \in 0 .. MaxRemaps : r \in [1 .. n -> Pairs]
    BY DEF Mappings
  <1>2. r \in Seq(Pairs)
    <2>1. n \in Nat
      BY LaunchAssumption
    <2>. HIDE DEF Pairs
    <2>2. r \in UNION {[1 .. k -> Pairs] : k \in Nat}
      BY <1>1, <2>1
    <2>3. Seq(Pairs) = UNION {[1 .. k -> Pairs] : k \in Nat}
      BY SeqDef, Zenon
    <2>. QED
      BY <2>2, <2>3, Zenon
  <1>3. Len(r) \in Nat /\ DOMAIN r = 1 .. Len(r)
    BY <1>2, LenProperties
  <1>4. \A i, j \in DOMAIN r : i # j => r[i].dest # r[j].dest
    BY DEF Mappings
  <1>5. \A i \in DOMAIN r : r[i] \in Pairs
    BY <1>1
  <1>. QED
    BY <1>3, <1>4, <1>5

\* The initial states are as the invariant says.
LEMMA InitialInv == Init => LaunchInv
  <1>. SUFFICES ASSUME Init PROVE LaunchInv
    OBVIOUS
  <1>. USE LaunchAssumption DEF Init
  <1>1. Len(remaps) \in Nat /\ DOMAIN remaps = 1 .. Len(remaps)
        /\ \A i \in DOMAIN remaps : remaps[i].src \in Fds \ Stdio
    BY MappingShape
  <1>2. PICK open \in SUBSET (Fds \ Stdio) :
          /\ Sources \subseteq open
          /\ table = [fd \in Fds |-> IF fd \in open \cup Stdio THEN fd ELSE Closed]
          /\ cloexec \in SUBSET open
    OBVIOUS
  <1>3. TypeOK
    <2>1. table \in [Fds -> Files] /\ child \in [Fds -> Files]
      BY <1>2 DEF Files
    <2>2. done \in 0 .. Len(remaps) /\ changes \in 0 .. MaxChanges
      BY <1>1
    <2>. QED
      BY <1>2, <2>1, <2>2 DEF TypeOK
  <1>4. Stdio \subseteq Fds
    BY DEF Stdio, Fds
  <1>5. BrowserInv
    BY <1>1, <1>2, <1>4 DEF BrowserInv
  <1>6. ChildInv
    BY <1>1 DEF ChildInv, Spawned, StdinOpened
  <1>. QED
    BY <1>3, <1>5, <1>6 DEF LaunchInv

\* What other threads of the browser do keeps the invariant.
LEMMA OthersKeepInv ==
  ASSUME LaunchInv, NEW fd \in Fds, OtherThreadOpens(fd) \/ OtherThreadCloses(fd)
  PROVE  LaunchInv'
  <1>. USE LaunchAssumption DEF LaunchInv, launchVars, childVars
  <1>1. table \in [Fds -> Files] /\ UNCHANGED <<launchVars, childVars>> /\ Sources \subseteq Fds
    BY MappingShape DEF TypeOK, OtherThreadOpens, OtherThreadCloses, Sources
  <1>2. fd \notin Stdio \cup Sources
    <2>1. CASE OtherThreadOpens(fd)
      <3>1. table[fd] = Closed /\ Closed \notin Fds
        BY <2>1 DEF OtherThreadOpens, Free, Closed, Fds
      <3>. QED
        BY <3>1 DEF BrowserInv
    <2>. QED
      BY <2>1 DEF OtherThreadCloses
  <1>3. table'[fd] \in {Closed, Early, Late} /\ (phase # "list" => table'[fd] \in {Closed, Late})
        /\ \A g \in Fds \ {fd} : table'[g] = table[g]
    BY <1>1 DEF OtherThreadOpens, OtherThreadCloses
  <1>4. table' \in [Fds -> Files]
    BY <1>1, <1>3 DEF OtherThreadOpens, OtherThreadCloses, Files
  <1>5. cloexec' \subseteq cloexec \cup {fd}
    BY DEF OtherThreadOpens, OtherThreadCloses
  <1>6. TypeOK'
    <2>1. changes' \in 0 .. MaxChanges
      BY DEF OtherThreadOpens, OtherThreadCloses, TypeOK
    <2>. QED
      BY <1>1, <1>4, <1>5, <2>1 DEF TypeOK
  <1>7. Sources' = Sources /\ Dests' = Dests
    BY <1>1 DEF Sources, Dests
  <1>8. Stdio \subseteq Fds
    BY DEF Stdio, Fds
  <1>9. BrowserInv'
    <2>1. \A g \in Stdio \cup Sources : table'[g] = g
      BY <1>1, <1>2, <1>3, <1>8 DEF BrowserInv
    <2>2. cloexec' \cap Stdio = {}
      BY <1>2, <1>5 DEF BrowserInv
    <2>3. phase = "spawn" /\ listed =>
            \A g \in Fds \ (Stdio \cup Dests \cup closes) : table'[g] \in {Closed, Late}
      BY <1>3 DEF BrowserInv
    <2>. QED
      BY <1>1, <1>7, <2>1, <2>2, <2>3 DEF BrowserInv
  <1>10. ChildInv'
    BY <1>1, <1>7 DEF ChildInv, Spawned, StdinOpened, Untouched
  <1>. QED
    BY <1>6, <1>9, <1>10

\* Building the file actions keeps the invariant.
LEMMA ListingKeepsInv ==
  ASSUME LaunchInv, AddFileActions \/ AddFileActionsUnlisted
  PROVE  LaunchInv'
  <1>. USE LaunchAssumption DEF LaunchInv, browserVars, childVars
  <1>1. /\ phase = "list" /\ phase' = "spawn" /\ remaps' = remaps
        /\ UNCHANGED <<result, browserVars, childVars>>
    BY DEF AddFileActions, AddFileActionsUnlisted
  <1>2. Sources' = Sources /\ Dests' = Dests
    BY <1>1 DEF Sources, Dests
  <1>3. \/ listed' /\ closes' = Superfluous
        \/ ~listed' /\ closes' = closes
    <2>1. CASE AddFileActions
      BY <2>1 DEF AddFileActions
    <2>2. CASE AddFileActionsUnlisted
      BY <2>2 DEF AddFileActionsUnlisted, BrowserInv
    <2>. QED
      BY <2>1, <2>2
  <1>4. listed' \in BOOLEAN
    BY DEF AddFileActions, AddFileActionsUnlisted, TypeOK
  <1>5. closes' \subseteq Fds \ Stdio /\ closes' \cap (Stdio \cup Dests) = {}
    BY <1>3 DEF Superfluous, Open, TypeOK, BrowserInv
  <1>6. TypeOK'
    BY <1>1, <1>4, <1>5 DEF TypeOK
  <1>7. listed' => \A fd \in Fds \ (Stdio \cup Dests \cup closes') : table[fd] \in {Closed, Late}
    BY <1>3, <1>5 DEF Superfluous, Open, TypeOK, BrowserInv
  <1>8. BrowserInv'
    BY <1>1, <1>2, <1>5, <1>7 DEF BrowserInv
  <1>9. ChildInv'
    BY <1>1 DEF ChildInv, Spawned, StdinOpened
  <1>. QED
    BY <1>6, <1>8, <1>9

\* The copy of the descriptor table satisfies the invariant, and so do the
\* steps that change no descriptor.
LEMMA SpawnKeepsInv ==
  ASSUME LaunchInv, SpawnCopies \/ SpawnFails \/ RemapsApplied
  PROVE  LaunchInv'
  <1>. USE LaunchAssumption DEF LaunchInv, browserVars
  <1>1. /\ phase # "list" /\ phase' # "list" /\ phase' # "spawn" /\ UNCHANGED <<remaps, closes, listed, browserVars, done>>
    BY DEF SpawnCopies, SpawnFails, RemapsApplied, childVars
  <1>2. Sources' = Sources /\ Dests' = Dests
    BY <1>1 DEF Sources, Dests
  <1>3. BrowserInv'
    BY <1>1, <1>2 DEF BrowserInv
  <1>4. TypeOK'
    BY <1>1 DEF SpawnCopies, SpawnFails, RemapsApplied, childVars, TypeOK
  <1>5. DOMAIN remaps = 1 .. Len(remaps)
    BY MappingShape DEF TypeOK
  <1>6. CASE SpawnCopies
    <2>1. \A i \in DOMAIN remaps : table[remaps[i].src] = remaps[i].src
      BY DEF BrowserInv, Sources
    <2>2. child' = table /\ childCloexec' = cloexec /\ phase' = "open" /\ phase = "spawn"
          /\ done = 0 /\ done' = 0
      BY <1>6 DEF SpawnCopies, ChildInv
    <2>3. child'[1] = 1 /\ child'[2] = 2 /\ childCloexec' \cap Stdio = {}
      BY <2>2 DEF BrowserInv, Stdio
    <2>4. listed => \A fd \in Fds \ (Stdio \cup Dests) : child'[fd] \in {Closed, Late} \/ fd \in closes
      BY <2>2 DEF BrowserInv
    <2>. QED
      BY <1>1, <1>2, <1>3, <1>4, <2>1, <2>2, <2>3, <2>4 DEF ChildInv, StdinOpened
  <1>7. CASE SpawnFails
    <2>1. phase' = "failed" /\ UNCHANGED childVars
      BY <1>7 DEF SpawnFails
    <2>. QED
      BY <1>3, <1>4, <2>1 DEF ChildInv, Spawned, StdinOpened, childVars
  <1>8. CASE RemapsApplied
    <2>1. phase = "dup2" /\ phase' = "close" /\ done = Len(remaps) /\ UNCHANGED childVars
      BY <1>8 DEF RemapsApplied
    <2>. QED
      BY <1>1, <1>2, <1>3, <1>4, <2>1 DEF ChildInv, Spawned, StdinOpened, Untouched, childVars
  <1>. QED
    BY <1>6, <1>7, <1>8

\* What the actions on the child's descriptors leave alone.
LEMMA BrowserUntouched ==
  ASSUME LaunchInv, OpenStdin \/ ApplyRemap \/ CloseSuperfluous \/ Exec
  PROVE  /\ BrowserInv' /\ Sources' = Sources /\ Dests' = Dests
         /\ UNCHANGED <<remaps, closes, listed, browserVars>>
         /\ Len(remaps) \in Nat /\ DOMAIN remaps = 1 .. Len(remaps)
         /\ \A i \in DOMAIN remaps : /\ remaps[i].src \in Fds \ Stdio
                                     /\ remaps[i].dest \in Fds \ Stdio
                                     /\ remaps[i].dest \in Dests
         /\ \A i, j \in DOMAIN remaps : i # j => remaps[i].dest # remaps[j].dest
  <1>1. /\ UNCHANGED <<remaps, closes, listed, browserVars>>
        /\ phase # "list" /\ phase' # "list" /\ phase' # "spawn"
    BY DEF OpenStdin, ApplyRemap, CloseSuperfluous, Exec, launchVars
  <1>2. Sources' = Sources /\ Dests' = Dests
    BY <1>1 DEF Sources, Dests
  <1>3. BrowserInv'
    BY <1>1, <1>2 DEF BrowserInv, LaunchInv, browserVars
  <1>. QED
    BY <1>1, <1>2, <1>3, MappingShape DEF LaunchInv, TypeOK, Dests

\* Opening /dev/null keeps the invariant.
LEMMA OpenStdinKeepsInv ==
  ASSUME LaunchInv, OpenStdin
  PROVE  LaunchInv'
  <1>. USE LaunchAssumption DEF LaunchInv, OpenStdin
  <1>1. 0 \in Stdio /\ 1 \in Stdio /\ 2 \in Stdio /\ Stdio \subseteq Fds
    BY DEF Stdio, Fds
  <1>2. child'[0] = DevNull /\ \A fd \in Fds \ {0} : child'[fd] = child[fd]
    BY <1>1 DEF TypeOK
  <1>3. TypeOK'
    <2>1. child' \in [Fds -> Files]
      BY DEF TypeOK, Files
    <2>. QED
      BY <2>1, BrowserUntouched DEF TypeOK, browserVars
  <1>4. done = 0 /\ child[1] = 1 /\ child[2] = 2
    BY DEF ChildInv, Spawned
  <1>5. \A i \in DOMAIN remaps : child'[remaps[i].src] = remaps[i].src
    <2>. SUFFICES ASSUME NEW i \in DOMAIN remaps PROVE child'[remaps[i].src] = remaps[i].src
      OBVIOUS
    <2>1. remaps[i].src \in Fds \ {0}
      BY <1>1, BrowserUntouched
    <2>2. child[remaps[i].src] = remaps[i].src
      BY <1>4 DEF ChildInv
    <2>. QED
      BY <1>2, <2>1, <2>2
  <1>6. listed => \A fd \in Fds \ (Stdio \cup Dests) :
                    child'[fd] \in {Closed, Late} \/ fd \in closes
    BY <1>1, <1>2 DEF ChildInv, Spawned
  <1>7. child'[1] = 1 /\ child'[2] = 2
    BY <1>1, <1>2, <1>4
  <1>8. ChildInv'
    BY <1>2, <1>4, <1>5, <1>6, <1>7, BrowserUntouched DEF ChildInv, Spawned, StdinOpened
  <1>. QED
    BY <1>3, <1>8, BrowserUntouched

\* Closing the superfluous descriptors, and those that are closed on exec,
\* keeps the invariant.
LEMMA ClosingKeepsInv ==
  ASSUME LaunchInv, CloseSuperfluous \/ Exec
  PROVE  LaunchInv'
  <1>. USE LaunchAssumption DEF LaunchInv
  <1>. DEFINE gone == IF phase = "close" THEN closes ELSE childCloexec
  <1>1. /\ phase \in {"close", "exec"} /\ phase' \in {"exec", "running"}
        /\ child' = [fd \in Fds |-> IF fd \in gone THEN Closed ELSE child[fd]]
        /\ childCloexec' \subseteq childCloexec /\ done' = done
    BY DEF CloseSuperfluous, Exec
  <1>2. 0 \in Stdio /\ 1 \in Stdio /\ 2 \in Stdio /\ Stdio \subseteq Fds
    BY DEF Stdio, Fds
  <1>3. gone \cap Stdio = {}
    BY DEF BrowserInv, ChildInv
  <1>4. \A fd \in Fds : child'[fd] = (IF fd \in gone THEN Closed ELSE child[fd])
    BY <1>1
  <1>5. TypeOK'
    <2>1. child' \in [Fds -> Files]
      BY <1>1 DEF TypeOK, Files
    <2>. QED
      BY <1>1, <2>1, BrowserUntouched DEF TypeOK, CloseSuperfluous, Exec, browserVars
  <1>6. child'[0] = DevNull /\ child'[1] = 1 /\ child'[2] = 2
    BY <1>1, <1>2, <1>3, <1>4 DEF ChildInv, Spawned, StdinOpened
  <1>7. ASSUME NEW i \in 1 .. done, Untouched(i)
        PROVE  child'[remaps[i].dest] = remaps[i].src /\ remaps[i].dest \notin childCloexec'
    <2>1. i \in DOMAIN remaps
      BY <1>1, BrowserUntouched DEF TypeOK
    <2>2. remaps[i].dest \in Fds /\ remaps[i].dest \in Dests
      BY <2>1, BrowserUntouched
    <2>3. child[remaps[i].dest] = remaps[i].src /\ remaps[i].dest \notin childCloexec
      BY <1>1, <1>7 DEF ChildInv, Spawned
    <2>4. remaps[i].dest \notin gone
      BY <2>2, <2>3 DEF BrowserInv
    <2>. QED
      BY <1>1, <1>4, <2>2, <2>3, <2>4
  <1>8. listed => \A fd \in Fds \ (Stdio \cup Dests) : child'[fd] \in {Closed, Late}
    <2>1. CASE CloseSuperfluous
      BY <1>1, <1>4, <2>1 DEF CloseSuperfluous, ChildInv, Spawned
    <2>2. CASE Exec
      BY <1>1, <1>4, <2>2 DEF Exec, ChildInv, Spawned
    <2>. QED
      BY <2>1, <2>2
  <1>9. childCloexec' \cap Stdio = {} /\ done' = Len(remaps)'
    BY <1>1, BrowserUntouched DEF ChildInv
  <1>10. \A i \in 1 .. done' :
           Untouched(i)' => child'[remaps'[i].dest] = remaps'[i].src
                            /\ remaps'[i].dest \notin childCloexec'
    BY <1>1, <1>7, BrowserUntouched DEF Untouched
  <1>11. remaps' = remaps /\ listed' = listed /\ closes' = closes /\ Dests' = Dests
    BY BrowserUntouched
  <1>12. phase' \notin {"list", "spawn", "open", "dup2"}
    BY <1>1
  <1>13. \A fd \in Fds \ (Stdio \cup Dests') : listed' => child'[fd] \in {Closed, Late}
    BY <1>8, <1>11
  <1>14. ChildInv'
    <2>. HIDE DEF gone
    <2>1. Spawned' => \A i \in 1 .. done' :
            Untouched(i)' => child'[remaps'[i].dest] = remaps'[i].src
                             /\ remaps'[i].dest \notin childCloexec'
      BY <1>10
    <2>2. Spawned' /\ listed' => \A fd \in Fds \ (Stdio \cup Dests') :
            child'[fd] \in {Closed, Late} \/ (fd \in closes' /\ phase' \in {"open", "dup2", "close"})
      BY <1>13
    <2>3. (phase' \in {"close", "exec", "running"} => done' = Len(remaps)')
          /\ (Spawned' => child'[1] = 1 /\ child'[2] = 2) /\ (StdinOpened' => child'[0] = DevNull)
      BY <1>6, <1>9
    <2>. QED
      BY <1>9, <1>12, <2>1, <2>2, <2>3, Zenon DEF ChildInv
  <1>. QED
    BY <1>5, <1>14, BrowserUntouched

\* Executing a dup2 action keeps the invariant.
LEMMA ApplyRemapKeepsInv ==
  ASSUME LaunchInv, ApplyRemap
  PROVE  LaunchInv'
  <1>. USE LaunchAssumption DEF LaunchInv, ApplyRemap
  <1>. DEFINE k == done + 1
              s == remaps[k].src
              d == remaps[k].dest
  <1>1. /\ remaps' = remaps /\ listed' = listed /\ closes' = closes /\ phase' = phase
        /\ result' = result /\ phase = "dup2" /\ Dests' = Dests /\ done' = k
        /\ UNCHANGED browserVars
    BY BrowserUntouched DEF launchVars
  <1>2. k \in DOMAIN remaps /\ k \in Nat /\ done \in Nat /\ k \notin 1 .. done
        /\ 1 .. k = (1 .. done) \cup {k} /\ 1 .. done \subseteq DOMAIN remaps
    BY BrowserUntouched DEF TypeOK
  <1>3. s \in Fds \ Stdio /\ d \in Fds \ Stdio /\ d \in Dests
    BY <1>2, BrowserUntouched
  <1>4. child'[d] = child[s] /\ \A fd \in Fds \ {d} : child'[fd] = child[fd]
    BY <1>3 DEF Dup2, TypeOK
  <1>5. childCloexec' \subseteq childCloexec /\ (s # d => d \notin childCloexec')
    BY DEF Dup2
  <1>6. TypeOK'
    <2>1. child' \in [Fds -> Files]
      BY <1>3 DEF Dup2, TypeOK
    <2>2. done' \in 0 .. Len(remaps)
      BY BrowserUntouched DEF TypeOK
    <2>. QED
      BY <1>1, <1>5, <2>1, <2>2 DEF TypeOK, browserVars
  <1>. HIDE DEF k, s, d
  <1>7. child'[0] = DevNull /\ child'[1] = 1 /\ child'[2] = 2
    <2>1. 0 \in Stdio /\ 1 \in Stdio /\ 2 \in Stdio /\ Stdio \subseteq Fds
      BY DEF Stdio, Fds
    <2>. QED
      BY <1>1, <1>3, <1>4, <2>1 DEF ChildInv, Spawned, StdinOpened
  <1>8. ASSUME NEW i \in DOMAIN remaps, \A j \in 1 .. k : remaps[j].dest # remaps[i].src
        PROVE  child'[remaps[i].src] = remaps[i].src
    <2>1. child[remaps[i].src] = remaps[i].src
      BY <1>1, <1>2, <1>8 DEF ChildInv
    <2>2. remaps[i].src \in Fds \ {d}
      BY <1>2, <1>8, BrowserUntouched DEF d
    <2>. QED
      BY <1>4, <2>1, <2>2
  <1>9. ASSUME NEW i \in 1 .. done, Untouched(i)
        PROVE  child'[remaps[i].dest] = remaps[i].src /\ remaps[i].dest \notin childCloexec'
    <2>1. child[remaps[i].dest] = remaps[i].src /\ remaps[i].dest \notin childCloexec
      BY <1>1, <1>9 DEF ChildInv, Spawned
    <2>2. remaps[i].dest \in Fds \ {d}
      BY <1>2, BrowserUntouched DEF d
    <2>. QED
      BY <1>4, <1>5, <2>1, <2>2
  <1>10. ASSUME Untouched(k)
         PROVE  child'[d] = s /\ d \notin childCloexec'
    <2>1. s # d /\ \A j \in 1 .. k - 1 : remaps[j].dest # s
      BY <1>10 DEF Untouched, s, d
    <2>2. k - 1 = done
      BY <1>2 DEF k
    <2>3. child[s] = s
      BY <1>1, <1>2, <2>1, <2>2 DEF ChildInv, s
    <2>. QED
      BY <1>4, <1>5, <2>1, <2>3
  <1>11. \A i \in 1 .. k : Untouched(i) =>
           child'[remaps[i].dest] = remaps[i].src /\ remaps[i].dest \notin childCloexec'
    BY <1>2, <1>9, <1>10 DEF s, d
  <1>12. \A fd \in Fds \ (Stdio \cup Dests) : child'[fd] = child[fd]
    BY <1>3, <1>4
  <1>13. listed => \A fd \in Fds \ (Stdio \cup Dests) : child'[fd] \in {Closed, Late} \/ fd \in closes
    BY <1>1, <1>12 DEF ChildInv, Spawned
  <1>14. childCloexec' \cap Stdio = {}
    BY <1>5 DEF ChildInv
  <1>15. \A i \in 1 .. done' :
           Untouched(i)' => child'[remaps'[i].dest] = remaps'[i].src
                            /\ remaps'[i].dest \notin childCloexec'
    BY <1>1, <1>11 DEF Untouched
  <1>16. \A i \in DOMAIN remaps' :
           (\A j \in 1 .. done' : remaps'[j].dest # remaps'[i].src)
              => child'[remaps'[i].src] = remaps'[i].src
    BY <1>1, <1>8
  <1>17. ChildInv'
    BY <1>1, <1>7, <1>13, <1>14, <1>15, <1>16 DEF ChildInv, Spawned, StdinOpened
  <1>. QED
    BY <1>6, <1>17, BrowserUntouched

\* Every step keeps the invariant.
LEMMA Inductive == LaunchInv /\ [Next]_vars => LaunchInv'
  <1>. SUFFICES ASSUME LaunchInv, [Next]_vars PROVE LaunchInv'
    OBVIOUS
  <1>1. CASE AddFileActions \/ AddFileActionsUnlisted
    BY <1>1, ListingKeepsInv
  <1>2. CASE SpawnCopies \/ SpawnFails \/ RemapsApplied
    BY <1>2, SpawnKeepsInv
  <1>3. CASE OpenStdin
    BY <1>3, OpenStdinKeepsInv
  <1>4. CASE ApplyRemap
    BY <1>4, ApplyRemapKeepsInv
  <1>5. CASE CloseSuperfluous \/ Exec
    BY <1>5, ClosingKeepsInv
  <1>6. CASE \E fd \in Fds : OtherThreadOpens(fd) \/ OtherThreadCloses(fd)
    BY <1>6, OthersKeepInv
  <1>7. CASE UNCHANGED vars
    <2>1. UNCHANGED <<remaps, phase, closes, listed, result, table, cloexec, changes,
                      done, child, childCloexec>>
      BY <1>7 DEF vars, launchVars, browserVars, childVars
    <2>2. TypeOK'
      BY <2>1 DEF LaunchInv, TypeOK
    <2>3. BrowserInv'
      BY <2>1 DEF LaunchInv, BrowserInv, Sources, Dests
    <2>4. ChildInv'
      BY <2>1 DEF LaunchInv, ChildInv, Spawned, StdinOpened, Untouched, Dests
    <2>. QED
      BY <2>2, <2>3, <2>4 DEF LaunchInv
  <1>. QED
    BY <1>1, <1>2, <1>3, <1>4, <1>5, <1>6, <1>7 DEF Next, Launcher

LEMMA Always == Spec => []LaunchInv
  BY InitialInv, Inductive, PTL DEF Spec

\* The launch keeps its types: no standard descriptor is among those to close.
THEOREM TypeCorrect == Spec => []TypeOK
  <1>1. LaunchInv => TypeOK
    BY DEF LaunchInv
  <1>. QED
    BY <1>1, Always, PTL

\* A running child has its standard descriptors and, behind every destination
\* whose source no earlier dup2 overwrote, the file that the browser meant.
THEOREM FilesDelivered == Spec => []ChildGetsItsFiles
  <1>1. LaunchInv => ChildGetsItsFiles
    <2>. SUFFICES ASSUME LaunchInv, phase = "running" PROVE ChildGetsItsFiles
      BY DEF ChildGetsItsFiles
    <2>1. done = Len(remaps) /\ DOMAIN remaps = 1 .. Len(remaps)
      BY MappingShape DEF LaunchInv, TypeOK, ChildInv
    <2>. QED
      BY <2>1 DEF LaunchInv, ChildInv, Spawned, StdinOpened, ChildGetsItsFiles
  <1>. QED
    BY <1>1, Always, PTL

\* No descriptor that was open at the listing survives in a running child,
\* whatever other threads did between the listing and the copy.
THEOREM ListedAreGone == Spec => []NothingElseSurvives
  <1>1. LaunchInv => NothingElseSurvives
    BY DEF LaunchInv, ChildInv, Spawned, NothingElseSurvives
  <1>. QED
    BY <1>1, Always, PTL
=============================================================================
