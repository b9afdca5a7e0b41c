---------------------------- MODULE Parts_proofs ----------------------------
(***************************************************************************)
(* What MCParts checks on a small instance, for every value of the         *)
(* constants.  A behaviour of the parts is a behaviour of each of them, so *)
(* what is proved of a part alone holds in it.                             *)
(***************************************************************************)
EXTENDS MCParts, OzoneInit_proofs, SequenceTheorems, WellFoundedInduction, TLAPS

-----------------------------------------------------------------------------
(* One part moves, the others stand still.                                 *)

LEMMA LibsRun == PartsSpec => Libs!Spec
<1>1. PartsInit => Libs!Init
  BY DEF PartsInit
<1>2. [PartsNext]_partsVars => [Libs!Next]_(Libs!vars)
  BY DEF PartsNext, partsVars, libsVars, Libs!vars, Libs!gpuVars, Libs!glVars
<1> QED
  BY <1>1, <1>2, PTL DEF PartsSpec, Libs!Spec

LEMMA EfdRun == PartsSpec => Efd!Spec
<1>1. PartsInit => Efd!Init
  BY DEF PartsInit
<1>2. [PartsNext]_partsVars => [Efd!Next]_(Efd!vars)
  BY DEF PartsNext, partsVars, efdVars, Efd!vars, Efd!fillVars
<1> QED
  BY <1>1, <1>2, PTL DEF PartsSpec, Efd!Spec

LEMMA WatchRun == PartsSpec => Watch!Spec
<1>1. PartsInit => Watch!Init
  BY DEF PartsInit
<1>2. [PartsNext]_partsVars => [Watch!Next]_(Watch!vars)
  BY DEF PartsNext, partsVars, watchVars, Watch!vars
<1> QED
  BY <1>1, <1>2, PTL DEF PartsSpec, Watch!Spec

LEMMA ChromeRun == PartsSpec => Chrome!Spec
<1>1. PartsInit => Chrome!Init
  BY DEF PartsInit
<1>2. [PartsNext]_partsVars => [Chrome!Next]_(Chrome!vars)
  BY DEF PartsNext, partsVars, chromeVars, Chrome!vars
<1> QED
  BY <1>1, <1>2, PTL DEF PartsSpec, Chrome!Spec

LEMMA LaunchRun == PartsSpec => Launch!Spec
<1>1. PartsInit => Launch!Init
  BY DEF PartsInit
<1>2. [PartsNext]_partsVars => [Launch!Next]_(Launch!vars)
  BY DEF PartsNext, partsVars, launchVars, Launch!vars, Launch!launchVars, Launch!browserVars,
         Launch!childVars
<1> QED
  BY <1>1, <1>2, PTL DEF PartsSpec, Launch!Spec

LEMMA ShimsRun == PartsSpec => Shims!Spec
<1>1. PartsInit => Shims!Init
  BY DEF PartsInit
<1>2. [PartsNext]_partsVars => [Shims!Next]_(Shims!vars)
  BY DEF PartsNext, partsVars, shimsVars, Shims!vars
<1> QED
  BY <1>1, <1>2, PTL DEF PartsSpec, Shims!Spec

LEMMA OzoneRun == PartsSpec => Spec
<1>1. PartsInit => Init
  BY DEF PartsInit
<1>2. [PartsNext]_partsVars => [Next]_vars
  BY DEF PartsNext, partsVars, vars
<1> QED
  BY <1>1, <1>2, PTL DEF PartsSpec, Spec
-----------------------------------------------------------------------------
(* The platform's start-up has proofs of its own.                          *)

\* However the threads interleave, they, the event source and the windows work
\* with one manager and one factory, unless two threads have both found the
\* factory missing.
THEOREM StartIsSafeUnlessRaced == PartsSpec => []OneManager
<1> QED
  BY OzoneRun, OnlyTheRaceHarms, PTL
-----------------------------------------------------------------------------
(* The graphics libraries and the launch have proofs of their own.         *)

LP == INSTANCE GpuLibs_proofs WITH pc <- libsPc
CP == INSTANCE ChildLaunch_proofs

LEMMA LibsSpecs == Libs!Spec => LP!Spec
<1> USE DEF Libs!Libs, LP!Libs, Libs!Critical, LP!Critical, Libs!ForProbe, LP!ForProbe,
            Libs!Optional, LP!Optional, Libs!Entries, LP!Entries, Libs!gpuVars, LP!gpuVars,
            Libs!glVars, LP!glVars, Libs!Functions, LP!Functions, Libs!Opens, LP!Opens,
            Libs!Goto, LP!Goto, Libs!Return, LP!Return
<1>1. Libs!Init => LP!Init
  BY DEF Libs!Init, LP!Init
<1>2. Libs!Next => LP!Next
  BY Zenon
     DEF Libs!Next, LP!Next, Libs!Call, LP!Call, Libs!OpenEgl, LP!OpenEgl, Libs!OpenGles,
         LP!OpenGles, Libs!Resolve, LP!Resolve, Libs!Release, LP!Release,
         Libs!EnsureScreenContext, LP!EnsureScreenContext, Libs!After, LP!After, Libs!CallEgl,
         LP!CallEgl, Libs!PrintInfo, LP!PrintInfo, Libs!ShutdownGpu, LP!ShutdownGpu,
         Libs!GlScreenContext, LP!GlScreenContext, Libs!GlThreadStarts, LP!GlThreadStarts,
         Libs!GetNativeDisplay, LP!GetNativeDisplay, Libs!LoadEgl, LP!LoadEgl,
         Libs!LoadGles, LP!LoadGles
<1>3. [Libs!Next]_(Libs!vars) => [LP!Next]_(LP!vars)
  BY <1>2 DEF Libs!vars, LP!vars
<1> QED
  BY <1>1, <1>3, PTL DEF Libs!Spec, LP!Spec

\* No call of gpu_qnx.cc goes through a null pointer, into a library that is
\* not mapped or to a display without Screen.
THEOREM NoCallIsWild == PartsSpec => []NoWildCall
<1>1. LP!NoWildCall => NoWildCall
  BY DEF NoWildCall, Libs!NoWildCall, LP!NoWildCall, Libs!Called, LP!Called, Libs!LibOf, LP!LibOf,
         Libs!Critical, LP!Critical, Libs!ForProbe, LP!ForProbe
<1> QED
  BY <1>1, LibsRun, LibsSpecs, LP!CallsGoSomewhere, PTL

\* libGLESv2 is never mapped without libEGL, and the libraries of Chromium's GL
\* bindings stay mapped, whatever gpu_qnx.cc opens and closes.
THEOREM BindingsAlwaysMapped == PartsSpec => []BindingsStayMapped
<1>1. LP!BindingsStayMapped => BindingsStayMapped
  BY DEF BindingsStayMapped, Libs!BindingsStayMapped, LP!BindingsStayMapped
<1> QED
  BY <1>1, LibsRun, LibsSpecs, LP!BindingsKept, PTL

LEMMA LibsTypes == PartsSpec => []Libs!TypeOK
<1>1. LP!IInv => Libs!TypeOK
  BY DEF LP!IInv, LP!TypeOK, Libs!TypeOK, Libs!Libs, LP!Libs, Libs!Critical, LP!Critical,
         Libs!ForProbe, LP!ForProbe, Libs!Optional, LP!Optional, Libs!Entries, LP!Entries,
         Libs!Functions, LP!Functions
<1> QED
  BY <1>1, LibsRun, LibsSpecs, LP!AlwaysIInv, PTL

LEMMA LaunchSpecs == Launch!Spec => CP!Spec
<1> USE DEF Launch!launchVars, CP!launchVars, Launch!browserVars, CP!browserVars,
            Launch!childVars, CP!childVars, Launch!Sources, CP!Sources, Launch!Dests, CP!Dests,
            Launch!Fds, CP!Fds, Launch!Stdio, CP!Stdio, Launch!Closed, CP!Closed, Launch!Early,
            CP!Early, Launch!Late, CP!Late, Launch!DevNull, CP!DevNull
<1>1. Launch!Init => CP!Init
  BY Zenon DEF Launch!Init, CP!Init, Launch!Mappings, CP!Mappings
<1>2. Launch!Next => CP!Next
  BY Zenon
     DEF Launch!Next, CP!Next, Launch!Launcher, CP!Launcher, Launch!AddFileActions,
         CP!AddFileActions, Launch!AddFileActionsUnlisted, CP!AddFileActionsUnlisted,
         Launch!SpawnCopies, CP!SpawnCopies, Launch!SpawnFails, CP!SpawnFails,
         Launch!OpenStdin, CP!OpenStdin, Launch!ApplyRemap, CP!ApplyRemap, Launch!Dup2, CP!Dup2,
         Launch!RemapsApplied, CP!RemapsApplied, Launch!CloseSuperfluous, CP!CloseSuperfluous,
         Launch!Exec, CP!Exec, Launch!Superfluous, CP!Superfluous, Launch!Open, CP!Open,
         Launch!OtherThreadOpens, CP!OtherThreadOpens, Launch!OtherThreadCloses,
         CP!OtherThreadCloses, Launch!Free, CP!Free
<1>3. [Launch!Next]_(Launch!vars) => [CP!Next]_(CP!vars)
  BY <1>2 DEF Launch!vars, CP!vars
<1> QED
  BY <1>1, <1>3, PTL DEF Launch!Spec, CP!Spec

\* A running child has its standard descriptors and, behind every destination
\* whose source no earlier dup2 overwrote, the file that the browser meant.
THEOREM ChildrenGetTheirFiles == PartsSpec => []ChildGetsItsFiles
<1>1. CP!ChildGetsItsFiles => ChildGetsItsFiles
  BY DEF ChildGetsItsFiles, Launch!ChildGetsItsFiles, CP!ChildGetsItsFiles, Launch!Untouched,
         CP!Untouched, Launch!DevNull, CP!DevNull
<1>2. CP!Spec => []CP!ChildGetsItsFiles
  BY CP!FilesDelivered, LaunchAssumption
<1> QED
  BY <1>1, <1>2, LaunchRun, LaunchSpecs, PTL

\* No descriptor that was open at the listing survives in a running child.
THEOREM NoListedOneSurvives == PartsSpec => []NothingElseSurvives
<1>1. CP!NothingElseSurvives => NothingElseSurvives
  BY DEF NothingElseSurvives, Launch!NothingElseSurvives, CP!NothingElseSurvives, Launch!Dests,
         CP!Dests, Launch!Fds, CP!Fds, Launch!Stdio, CP!Stdio, Launch!Closed, CP!Closed,
         Launch!Late, CP!Late
<1>2. CP!Spec => []CP!NothingElseSurvives
  BY CP!ListedAreGone, LaunchAssumption
<1> QED
  BY <1>1, <1>2, LaunchRun, LaunchSpecs, PTL

LEMMA LaunchTypes == PartsSpec => []Launch!TypeOK
<1>1. CP!TypeOK => Launch!TypeOK
  BY Zenon DEF CP!TypeOK, Launch!TypeOK, Launch!Mappings, CP!Mappings, Launch!Fds, CP!Fds,
         Launch!Stdio, CP!Stdio, Launch!Closed, CP!Closed, Launch!Early, CP!Early, Launch!Late,
         CP!Late, Launch!DevNull, CP!DevNull, Launch!Files, CP!Files
<1>2. CP!Spec => []CP!TypeOK
  BY CP!TypeCorrect, LaunchAssumption
<1> QED
  BY <1>1, <1>2, LaunchRun, LaunchSpecs, PTL
-----------------------------------------------------------------------------
(* FileWatch: a look is never older than the file it found, and a file that *)
(* changed after the look is never older than the look.                    *)

WatchesOf == [path : Paths, active : BOOLEAN, last_stat : [mtime : Nat, size : Sizes \cup {0}]]
LooksOf == [time : Nat, change : Nat]

WatchTypes ==
  /\ now \in 1 .. MaxTime /\ fileChanges \in 0 .. FileChanges
  /\ file \in [Paths -> {Watch!NoFile} \cup [mtime : Nat \ {0}, size : Sizes, change : Nat \ {0}]]
  /\ \A p \in Paths : file[p].mtime <= now /\ file[p].change <= fileChanges
  /\ watches \in Seq(WatchesOf) /\ seen \in Seq(LooksOf)
  /\ Len(seen) = Len(watches) /\ Len(watches) <= MaxWatches
  /\ polled.watch \in 0 .. Len(watches) /\ polled.answer \in {0, 1}

LookInOrder(w, s) ==
  /\ w.last_stat.mtime <= s.time /\ s.time <= now
  /\ file[w.path].change # s.change /\ file[w.path] # Watch!NoFile => file[w.path].mtime >= s.time

\* "No change" was answered of a file that is there and looks as it did.
AnswerFitsFile ==
  polled.watch # 0 /\ polled.answer = 0 /\ watches[polled.watch].active =>
    LET w == watches[polled.watch] IN
    file[w.path] # Watch!NoFile /\ Watch!Stat(file[w.path]) = w.last_stat

WatchInv ==
  /\ WatchTypes
  /\ \A i \in 1 .. Len(watches) : LookInOrder(watches[i], seen[i])
  /\ AnswerFitsFile

LEMMA WatchEntries ==
  ASSUME WatchTypes, NEW i \in 1 .. Len(watches)
  PROVE  /\ watches[i] \in WatchesOf /\ watches[i].path \in Paths
         /\ watches[i].last_stat.mtime \in Nat
         /\ seen[i] \in LooksOf /\ seen[i].time \in Nat
<1>1. watches[i] \in WatchesOf /\ seen[i] \in LooksOf
  BY DEF WatchTypes
<1> QED
  BY <1>1 DEF WatchesOf, LooksOf

LEMMA WatchInit == Watch!Init => WatchInv
<1> SUFFICES ASSUME Watch!Init PROVE WatchInv
  OBVIOUS
<1>1. Len(watches) = 0 /\ Len(seen) = 0 /\ watches \in Seq(WatchesOf) /\ seen \in Seq(LooksOf)
  BY DEF Watch!Init
<1>2. polled.watch = 0 /\ polled.answer = 0
  BY DEF Watch!Init, Watch!NoPoll
<1>3. WatchTypes
  BY <1>1, <1>2, WatchAssumption DEF Watch!Init, WatchTypes, Watch!NoFile
<1> QED
  BY <1>1, <1>2, <1>3 DEF WatchInv, AnswerFitsFile

\* What stat() tells of a file is what a watch can keep, and now a look.
LEMMA LookTypes ==
  ASSUME WatchTypes, NEW p \in Paths
  PROVE  /\ Watch!Stat(file[p]) \in [mtime : Nat, size : Sizes \cup {0}]
         /\ Watch!Stat(file[p]).mtime = file[p].mtime /\ file[p].mtime <= now
         /\ Watch!Look(p) \in LooksOf
         /\ Watch!Look(p).time = now /\ Watch!Look(p).change = file[p].change
<1>1. file[p].mtime \in Nat /\ file[p].size \in Sizes \cup {0} /\ file[p].change \in Nat
  BY DEF WatchTypes, Watch!NoFile
<1>2. now \in Nat
  BY WatchAssumption DEF WatchTypes
<1> QED
  BY <1>1, <1>2 DEF WatchTypes, Watch!Stat, Watch!Look, LooksOf

\* The watch that has just been looked at is in order.
LEMMA FreshLook ==
  ASSUME WatchTypes, NEW w \in WatchesOf, NEW s, s = Watch!Look(w.path),
         w.last_stat = Watch!Stat(file[w.path])
  PROVE  LookInOrder(w, s)
<1>1. w.path \in Paths /\ now \in Nat
  BY WatchAssumption DEF WatchesOf, WatchTypes
<1> QED
  BY <1>1, LookTypes DEF LookInOrder

LEMMA WatchNext == WatchInv /\ [Watch!Next]_(Watch!vars) => WatchInv'
<1> SUFFICES ASSUME WatchInv, [Watch!Next]_(Watch!vars) PROVE WatchInv'
  OBVIOUS
<1>0. /\ WatchTypes /\ now \in Nat /\ fileChanges \in Nat
      /\ Len(watches) \in Nat /\ Len(seen) = Len(watches) /\ DOMAIN watches = 1 .. Len(watches)
      /\ watches \in Seq(WatchesOf) /\ seen \in Seq(LooksOf)
  BY WatchAssumption DEF WatchInv, WatchTypes
<1>1. ASSUME NEW p \in Paths, Watch!FileWatchAdd(p) PROVE WatchInv'
  <2> DEFINE w == [path |-> p, active |-> TRUE, last_stat |-> Watch!Stat(file[p])]
             s == Watch!Look(p)
  <2>1. w \in WatchesOf /\ s \in LooksOf /\ LookInOrder(w, s)
    <3>1. w \in WatchesOf /\ w.path = p /\ w.last_stat = Watch!Stat(file[w.path])
      BY <1>0, LookTypes DEF WatchesOf
    <3> QED
      BY <1>0, <3>1, LookTypes, FreshLook
  <2>2. /\ watches' = Append(watches, w) /\ seen' = Append(seen, s) /\ Len(watches) < MaxWatches
        /\ polled' = Watch!NoPoll /\ UNCHANGED <<now, fileChanges, file>>
    BY <1>1 DEF Watch!FileWatchAdd
  <2> HIDE DEF w, s
  <2>3. /\ watches' \in Seq(WatchesOf) /\ Len(watches') = Len(watches) + 1
        /\ watches'[Len(watches) + 1] = w
        /\ \A n \in 1 .. Len(watches) : watches'[n] = watches[n]
    BY <1>0, <2>1, <2>2, AppendProperties
  <2>4. /\ seen' \in Seq(LooksOf) /\ Len(seen') = Len(watches) + 1
        /\ seen'[Len(watches) + 1] = s
        /\ \A n \in 1 .. Len(watches) : seen'[n] = seen[n]
    BY <1>0, <2>1, <2>2, AppendProperties
  <2>5. WatchTypes'
    BY <1>0, <2>2, <2>3, <2>4, WatchAssumption DEF WatchTypes, Watch!NoPoll
  <2>6. \A i \in 1 .. Len(watches') : LookInOrder(watches'[i], seen'[i])
    BY <1>0, <2>1, <2>3, <2>4 DEF WatchInv
  <2> QED
    BY <2>2, <2>5, <2>6 DEF WatchInv, LookInOrder, AnswerFitsFile, Watch!NoPoll
<1>2. ASSUME NEW i \in DOMAIN watches, Watch!FileWatchRemove(i) PROVE WatchInv'
  <2> DEFINE w == [watches[i] EXCEPT !.active = FALSE]
  <2>1. /\ w \in WatchesOf /\ watches[i] \in WatchesOf
        /\ w.path = watches[i].path /\ w.last_stat = watches[i].last_stat
    <3>1. watches[i] \in WatchesOf
      BY <1>0, WatchEntries
    <3> QED
      BY <3>1 DEF WatchesOf
  <2>2. /\ watches' = [watches EXCEPT ![i] = w]
        /\ polled' = Watch!NoPoll /\ UNCHANGED <<now, fileChanges, file, seen>>
    BY <1>2 DEF Watch!FileWatchRemove
  <2>3. LookInOrder(w, seen[i])
    BY <1>0, <2>1 DEF WatchInv, LookInOrder
  <2> HIDE DEF w
  <2>4. /\ watches' \in Seq(WatchesOf) /\ Len(watches') = Len(watches) /\ watches'[i] = w
        /\ \A n \in 1 .. Len(watches) : n # i => watches'[n] = watches[n]
    BY <1>0, <2>1, <2>2, ExceptSeq
  <2>5. WatchTypes'
    BY <1>0, <2>2, <2>4 DEF WatchTypes, Watch!NoPoll
  <2>6. \A n \in 1 .. Len(watches') : LookInOrder(watches'[n], seen'[n])
    BY <1>0, <2>2, <2>3, <2>4 DEF WatchInv
  <2> QED
    BY <2>2, <2>5, <2>6 DEF WatchInv, LookInOrder, AnswerFitsFile, Watch!NoPoll
<1>3. ASSUME NEW i \in DOMAIN watches, Watch!FileWatchPoll(i) PROVE WatchInv'
  <2> DEFINE w == [watches[i] EXCEPT !.last_stat = Watch!Stat(file[watches[i].path])]
             s == Watch!Look(watches[i].path)
  <2>0. UNCHANGED <<now, fileChanges, file>>
    BY <1>3 DEF Watch!FileWatchPoll
  <2>1. CASE /\ watches' = [watches EXCEPT ![i] = w] /\ seen' = [seen EXCEPT ![i] = s]
             /\ polled' = [watch |-> i, answer |-> 1]
    <3>1. watches[i] \in WatchesOf /\ watches[i].path \in Paths
      BY <1>0, WatchEntries
    <3>2. w \in WatchesOf /\ w.path = watches[i].path /\ w.last_stat = Watch!Stat(file[w.path])
      BY <1>0, <3>1, LookTypes DEF WatchesOf
    <3>3. s \in LooksOf /\ LookInOrder(w, s)
      BY <1>0, <3>1, <3>2, LookTypes, FreshLook
    <3> HIDE DEF w, s
    <3>4. /\ watches' \in Seq(WatchesOf) /\ Len(watches') = Len(watches) /\ watches'[i] = w
          /\ \A n \in 1 .. Len(watches) : n # i => watches'[n] = watches[n]
      BY <1>0, <2>1, <3>2, ExceptSeq
    <3>5. /\ seen' \in Seq(LooksOf) /\ Len(seen') = Len(watches) /\ seen'[i] = s
          /\ \A n \in 1 .. Len(watches) : n # i => seen'[n] = seen[n]
      BY <1>0, <2>1, <3>3, ExceptSeq
    <3>6. WatchTypes'
      BY <1>0, <2>0, <2>1, <3>4, <3>5 DEF WatchTypes
    <3>7. \A n \in 1 .. Len(watches') : LookInOrder(watches'[n], seen'[n])
      BY <1>0, <3>3, <3>4, <3>5 DEF WatchInv
    <3> QED
      BY <2>0, <2>1, <3>6, <3>7 DEF WatchInv, LookInOrder, AnswerFitsFile
  <2>2. CASE /\ UNCHANGED <<watches, seen>>
             /\ \/ polled' = [watch |-> i, answer |-> 1]
                \/ /\ polled' = [watch |-> i, answer |-> 0]
                   /\ watches[i].active =>
                        /\ file[watches[i].path] # Watch!NoFile
                        /\ Watch!Stat(file[watches[i].path]) = watches[i].last_stat
    <3>1. WatchTypes'
      BY <1>0, <2>0, <2>2 DEF WatchTypes
    <3>2. \A n \in 1 .. Len(watches') : LookInOrder(watches[n], seen[n])'
      BY <2>0, <2>2 DEF WatchInv, LookInOrder
    <3>3. AnswerFitsFile'
      BY <2>0, <2>2 DEF AnswerFitsFile, Watch!Stat
    <3> QED
      BY <3>1, <3>2, <3>3 DEF WatchInv
  <2> QED
    BY <1>3, <2>1, <2>2 DEF Watch!FileWatchPoll
<1>4. ASSUME NEW p \in Paths, Watch!Change(p) PROVE WatchInv'
  <2>1. /\ fileChanges' = fileChanges + 1 /\ fileChanges' \in 0 .. FileChanges
        /\ polled' = Watch!NoPoll /\ UNCHANGED <<now, watches, seen>>
    BY <1>0, <1>4, WatchAssumption DEF Watch!Change
  <2>2. PICK f \in {Watch!NoFile} \cup [mtime : {now}, size : Sizes, change : {fileChanges + 1}] :
          file' = [file EXCEPT ![p] = f]
    BY <1>4 DEF Watch!Change
  <2>3. f = Watch!NoFile \/ (f.mtime = now /\ f.change = fileChanges + 1)
    OBVIOUS
  <2>4. /\ f \in {Watch!NoFile} \cup [mtime : Nat \ {0}, size : Sizes, change : Nat \ {0}]
        /\ f.mtime <= now /\ f.change <= fileChanges + 1
    BY <1>0, WatchAssumption DEF WatchTypes, Watch!NoFile
  <2>5. file'[p] = f /\ \A q \in Paths \ {p} : file'[q] = file[q]
    BY <1>0, <2>2 DEF WatchTypes
  <2>6. \A q \in Paths : file'[q].mtime <= now /\ file'[q].change <= fileChanges + 1
    BY <1>0, <2>4, <2>5 DEF WatchTypes, Watch!NoFile
  <2>7. WatchTypes'
    BY <1>0, <2>1, <2>2, <2>4, <2>6 DEF WatchTypes, Watch!NoPoll
  <2>8. ASSUME NEW i \in 1 .. Len(watches) PROVE LookInOrder(watches[i], seen[i])'
    <3>1. LookInOrder(watches[i], seen[i]) /\ watches[i].path \in Paths
      BY <1>0, WatchEntries DEF WatchInv
    <3>2. CASE watches[i].path = p
      BY <2>1, <2>3, <2>5, <3>1, <3>2 DEF LookInOrder
    <3>3. CASE watches[i].path # p
      BY <2>1, <2>5, <3>1, <3>3 DEF LookInOrder
    <3> QED
      BY <3>2, <3>3
  <2> QED
    BY <2>1, <2>7, <2>8 DEF WatchInv, AnswerFitsFile, Watch!NoPoll
<1>5. CASE Watch!Tick
  <2>1. /\ now' = now + 1 /\ now' \in 1 .. MaxTime /\ polled' = Watch!NoPoll
        /\ UNCHANGED <<fileChanges, file, watches, seen>>
    BY <1>0, <1>5, WatchAssumption DEF Watch!Tick
  <2>2. \A p \in Paths : file[p].mtime <= now + 1
    BY <1>0 DEF WatchTypes, Watch!NoFile
  <2>3. WatchTypes'
    BY <1>0, <2>1, <2>2 DEF WatchTypes, Watch!NoPoll
  <2>4. ASSUME NEW i \in 1 .. Len(watches) PROVE LookInOrder(watches[i], seen[i])'
    <3>1. LookInOrder(watches[i], seen[i]) /\ seen[i].time \in Nat
      BY <1>0, WatchEntries DEF WatchInv
    <3> QED
      BY <1>0, <2>1, <3>1 DEF LookInOrder
  <2> QED
    BY <2>1, <2>3, <2>4 DEF WatchInv, AnswerFitsFile, Watch!NoPoll
<1>6. CASE UNCHANGED Watch!vars
  BY <1>6 DEF Watch!vars, WatchInv, WatchTypes, LookInOrder, AnswerFitsFile, Watch!Stat
<1> QED
  BY <1>1, <1>2, <1>3, <1>4, <1>5, <1>6 DEF Watch!Next

LEMMA WatchAlways == PartsSpec => []WatchInv
  BY WatchRun, WatchInit, WatchNext, PTL DEF Watch!Spec

LEMMA WatchTypesOK == WatchInv => Watch!TypeOK
<1> SUFFICES ASSUME WatchInv PROVE Watch!TypeOK
  OBVIOUS
<1>1. WatchTypes /\ now \in Nat /\ DOMAIN watches = 1 .. Len(watches)
  BY WatchAssumption DEF WatchInv, WatchTypes
<1>2. \A p \in Paths : \/ file[p] = Watch!NoFile
                       \/ file[p].mtime \in 1 .. now /\ file[p].change \in 1 .. fileChanges
  BY <1>1, WatchAssumption DEF WatchTypes
<1>3. \A i \in DOMAIN watches : watches[i].last_stat.mtime \in 0 .. now
  <2> SUFFICES ASSUME NEW i \in 1 .. Len(watches) PROVE watches[i].last_stat.mtime \in 0 .. now
    BY <1>1
  <2>1. LookInOrder(watches[i], seen[i])
    BY DEF WatchInv
  <2> QED
    BY <1>1, <2>1, WatchEntries DEF LookInOrder
<1> QED
  BY <1>1, <1>2, <1>3 DEF WatchTypes, Watch!TypeOK

\* A watch misses a change only if the file was last changed in the very second
\* of the look it is compared with: a later change has a later second, an
\* earlier one has been seen.
THEOREM OnlyTheSameSecondIsMissed == PartsSpec => []MissedOnlyWithinTheSecond
<1>1. WatchInv => MissedOnlyWithinTheSecond
  <2> SUFFICES ASSUME WatchInv, polled.watch # 0, polled.answer = 0,
                      watches[polled.watch].active,
                      file[watches[polled.watch].path].change # seen[polled.watch].change
               PROVE  file[watches[polled.watch].path].mtime = seen[polled.watch].time
    BY DEF MissedOnlyWithinTheSecond, Watch!MissedOnlyWithinTheSecond
  <2> DEFINE i == polled.watch
             f == file[watches[i].path]
  <2>1. i \in 1 .. Len(watches) /\ watches[i].path \in Paths /\ seen[i].time \in Nat
    <3>1. i \in 1 .. Len(watches)
      BY DEF WatchInv, WatchTypes
    <3> QED
      BY <3>1, WatchEntries DEF WatchInv
  <2>2. f # Watch!NoFile /\ watches[i].last_stat.mtime = f.mtime /\ f.mtime \in Nat
    BY <2>1 DEF WatchInv, AnswerFitsFile, WatchTypes, Watch!Stat
  <2>3. f.mtime <= seen[i].time /\ f.mtime >= seen[i].time
    BY <2>1, <2>2 DEF WatchInv, LookInOrder
  <2> QED
    BY <2>1, <2>2, <2>3
<1> QED
  BY <1>1, WatchAlways, PTL
-----------------------------------------------------------------------------
(* BerryChrome.                                                            *)

ChromesOf ==
  [width : Nat \ {0}, height : Nat \ {0},
   url : Chrome!Texts, edit_text : Chrome!Texts, committed_url : Chrome!Texts,
   editing : BOOLEAN, loading : BOOLEAN, can_go_back : BOOLEAN, can_go_forward : BOOLEAN,
   url_committed : BOOLEAN]

ViewsOf == (Nat \cup {-1}) \X (Nat \cup {-1})

\* Unless the user is typing, the next Enter would commit the URL that is shown,
\* but for the time between an Enter and the page's answer to it.
ShownIsNext(c, t) == c # Chrome!None /\ ~c.editing /\ t => c.edit_text = c.url

ChromeInv ==
  /\ chrome \in [Shells -> {Chrome!None} \cup ChromesOf]
  /\ view \in [Shells -> ViewsOf]
  /\ told \in [Shells -> BOOLEAN]
  /\ \A s \in Shells : ShownIsNext(chrome[s], told[s])

\* A text is a sequence of at most MaxText characters.
LEMMA TextIsSeq ==
  ASSUME NEW t \in Chrome!Texts
  PROVE  t \in Seq(Chars) /\ Len(t) \in Nat /\ Len(t) <= MaxText
<1>1. PICK n \in 0 .. MaxText : t \in [1 .. n -> Chars]
  BY DEF Chrome!Texts
<1>2. n \in Nat
  BY ChromeAssumption
<1>3. t \in Seq(Chars)
  BY <1>1, <1>2, SeqDef
<1>4. Len(t) = n
  BY <1>1, <1>2, <1>3, LenProperties
<1> QED
  BY <1>1, <1>3, <1>4, ChromeAssumption

LEMMA SeqIsText ==
  ASSUME NEW t \in Seq(Chars), Len(t) <= MaxText PROVE t \in Chrome!Texts
<1>1. Len(t) \in 0 .. MaxText /\ t \in [1 .. Len(t) -> Chars]
  BY LenProperties, ChromeAssumption
<1> QED
  BY <1>1 DEF Chrome!Texts

LEMMA EmptyText == <<>> \in Chrome!Texts
<1>1. <<>> \in Seq(Chars) /\ Len(<<>>) <= MaxText
  BY EmptySeq, ChromeAssumption
<1> QED
  BY <1>1, SeqIsText

LEMMA TextWithChar ==
  ASSUME NEW t \in Chrome!Texts, NEW ch \in Chars, Len(t) < MaxText
  PROVE  Append(t, ch) \in Chrome!Texts
<1>1. t \in Seq(Chars) /\ Len(t) \in Nat
  BY TextIsSeq, LenProperties
<1>2. Append(t, ch) \in Seq(Chars) /\ Len(Append(t, ch)) = Len(t) + 1
  BY <1>1, AppendProperties
<1>3. Len(Append(t, ch)) <= MaxText
  BY <1>1, <1>2, ChromeAssumption
<1> QED
  BY <1>2, <1>3, SeqIsText

\* A text without its last character.
LEMMA TextWithoutLast ==
  ASSUME NEW t \in Chrome!Texts, t # <<>>
  PROVE  LET t1 == SubSeq(t, 1, Len(t) - 1) IN
         t1 \in Chrome!Texts /\ \E ch \in Chars : t = Append(t1, ch)
<1>1. t \in Seq(Chars) /\ Len(t) \in Nat /\ Len(t) <= MaxText
  BY TextIsSeq, LenProperties
<1>2. PICK s \in Seq(Chars), ch \in Chars : t = Append(s, ch)
  BY <1>1, SequenceEmptyOrAppend
<1>3. Len(s) \in Nat /\ Len(t) = Len(s) + 1 /\ \A i \in 1 .. Len(s) : t[i] = s[i]
  BY <1>2, AppendProperties, LenProperties
<1> DEFINE t1 == SubSeq(t, 1, Len(t) - 1)
<1>4. Len(t) - 1 = Len(s) /\ \A i \in 1 .. Len(s) : t[i] \in Chars
  BY <1>3, ElementOfSeq
<1>5. t1 \in Seq(Chars) /\ Len(t1) = Len(s) /\ \A i \in 1 .. Len(s) : t1[i] = t[i]
  BY <1>3, <1>4, SubSeqProperties
<1>6. t1 = s
  BY <1>3, <1>5, SeqEqual
<1>7. t1 \in Chrome!Texts
  <2>1. Len(t1) <= MaxText
    BY <1>1, <1>3, <1>5, ChromeAssumption
  <2> QED
    BY <1>5, <2>1, SeqIsText
<1> QED
  BY <1>2, <1>6, <1>7

LEMMA ChromeInit == Chrome!Init => ChromeInv
  BY DEF Chrome!Init, ChromeInv, ViewsOf, Chrome!NoView, ShownIsNext

\* A chrome d in place of c leaves typed text alone, but for its last character.
Undisturbed(c, d) ==
  c # Chrome!None /\ d # Chrome!None /\ c.editing /\ d.editing =>
    LET t == Chrome!Displayed(c)  t1 == Chrome!Displayed(d) IN
    t1 = t \/ (\E ch \in Chars : t1 = Append(t, ch) \/ t = Append(t1, ch))

ChromeStep == ChromeInv' /\ \A s \in Shells : Undisturbed(chrome[s], chrome'[s])

\* One shell's chrome changes from one that fits into another that does.
LEMMA ChromeReplaced ==
  ASSUME ChromeInv, NEW s \in Shells, NEW c \in {Chrome!None} \cup ChromesOf,
         chrome' = [chrome EXCEPT ![s] = c],
         told' \in [Shells -> BOOLEAN], \A r \in Shells \ {s} : told'[r] = told[r],
         UNCHANGED view,
         ShownIsNext(c, told'[s]), Undisturbed(chrome[s], c)
  PROVE  ChromeStep
<1>1. chrome'[s] = c /\ \A r \in Shells \ {s} : chrome'[r] = chrome[r]
  BY DEF ChromeInv
<1>2. chrome' \in [Shells -> {Chrome!None} \cup ChromesOf]
  BY DEF ChromeInv
<1>3. \A r \in Shells : ShownIsNext(chrome'[r], told'[r])
  BY <1>1 DEF ChromeInv
<1>4. \A r \in Shells : Undisturbed(chrome[r], chrome'[r])
  BY <1>1 DEF Undisturbed
<1> QED
  BY <1>2, <1>3, <1>4 DEF ChromeInv, ChromeStep

LEMMA ChromeNext == ASSUME ChromeInv, [Chrome!Next]_(Chrome!vars) PROVE ChromeStep
<1>0. /\ told \in [Shells -> BOOLEAN] /\ view \in [Shells -> ViewsOf]
      /\ \A s \in Shells : /\ chrome[s] \in {Chrome!None} \cup ChromesOf
                           /\ ShownIsNext(chrome[s], told[s])
  BY DEF ChromeInv
<1>1. ASSUME NEW s \in Shells, NEW w \in Widths, NEW h \in Heights,
             Chrome!CreatePlatformWindow(s, w, h)
      PROVE  ChromeStep
  <2> DEFINE c == [width |-> IF w > 0 THEN w ELSE Chrome!DefaultSide,
                   height |-> IF h > 0 THEN h ELSE Chrome!DefaultSide,
                   url |-> <<>>, edit_text |-> <<>>, committed_url |-> <<>>,
                   editing |-> FALSE, loading |-> FALSE, can_go_back |-> FALSE,
                   can_go_forward |-> FALSE, url_committed |-> FALSE]
  <2>1. w \in Nat /\ h \in Nat
    BY ChromeAssumption
  <2>2. c \in ChromesOf
    BY <2>1, EmptyText DEF ChromesOf, Chrome!DefaultSide
  <2>3. ShownIsNext(c, told'[s]) /\ Undisturbed(chrome[s], c)
    BY DEF ShownIsNext, Undisturbed
  <2>4. /\ chrome' = [chrome EXCEPT ![s] = c] /\ told' = [told EXCEPT ![s] = TRUE]
        /\ UNCHANGED view
    BY <1>1 DEF Chrome!CreatePlatformWindow
  <2> HIDE DEF c
  <2> QED
    BY <1>0, <2>2, <2>3, <2>4, ChromeReplaced
<1>2. ASSUME NEW s \in Shells, NEW w \in Widths, NEW h \in Heights,
             Chrome!ResizeWebContent(s, w, h)
      PROVE  ChromeStep
  <2>1. w \in Nat /\ h \in Nat
    BY ChromeAssumption
  <2>2. PICK v \in ViewsOf : view' = [view EXCEPT ![s] = v]
    <3>1. CASE Chrome!HasChrome(s)
      <4>1. chrome[s].width \in Nat /\ chrome[s].height \in Nat
        BY <1>0, <3>1 DEF Chrome!HasChrome, ChromesOf
      <4> DEFINE r == Chrome!WebContentBounds(chrome[s])
      <4>2. r.w \in Nat /\ r.h \in Nat
        BY <4>1 DEF Chrome!WebContentBounds, Chrome!Rect, Chrome!kToolbarHeight
      <4>3. view' = [view EXCEPT ![s] = <<r.w, r.h>>]
        BY <1>2, <3>1 DEF Chrome!ResizeWebContent
      <4> HIDE DEF r
      <4> QED
        BY <4>2, <4>3 DEF ViewsOf
    <3>2. CASE ~Chrome!HasChrome(s)
      BY <1>2, <2>1, <3>2 DEF Chrome!ResizeWebContent, ViewsOf
    <3> QED
      BY <3>1, <3>2
  <2>3. view' \in [Shells -> ViewsOf]
    BY <1>0, <2>2
  <2>4. UNCHANGED <<chrome, told>>
    BY <1>2 DEF Chrome!ResizeWebContent
  <2>5. \A r \in Shells : Undisturbed(chrome[r], chrome'[r])
    BY <2>4 DEF Undisturbed
  <2> QED
    BY <2>3, <2>4, <2>5 DEF ChromeInv, ChromeStep
<1>3. ASSUME NEW s \in Shells, Chrome!CleanUp(s) PROVE ChromeStep
  BY <1>0, <1>3, ChromeReplaced DEF Chrome!CleanUp, ShownIsNext, Undisturbed
<1>4. ASSUME NEW s \in Shells, NEW u \in Chrome!Texts, Chrome!SetAddressBarURL(s, u)
      PROVE  ChromeStep
  <2> DEFINE c == [chrome[s] EXCEPT !.url = u,
                                    !.edit_text = IF chrome[s].editing THEN @ ELSE u]
  <2>1. /\ chrome[s] \in ChromesOf /\ chrome' = [chrome EXCEPT ![s] = c]
        /\ told' = [told EXCEPT ![s] = TRUE] /\ UNCHANGED view
    BY <1>0, <1>4
       DEF Chrome!SetAddressBarURL, Chrome!SetUrl, Chrome!Replaces, Chrome!HasChrome
  <2>2. /\ c \in ChromesOf /\ c.editing = chrome[s].editing
        /\ c.url = u /\ c.edit_text = IF chrome[s].editing THEN chrome[s].edit_text ELSE u
    BY <2>1 DEF ChromesOf
  <2>3. ShownIsNext(c, told'[s]) /\ Undisturbed(chrome[s], c)
    BY <2>2 DEF ShownIsNext, Undisturbed, Chrome!Displayed
  <2> HIDE DEF c
  <2> QED
    BY <1>0, <2>1, <2>2, <2>3, ChromeReplaced
<1>5. ASSUME NEW s \in Shells, NEW c, Chrome!Sets(s, c), chrome[s] \in ChromesOf => c \in ChromesOf,
             c.edit_text = chrome[s].edit_text, c.url = chrome[s].url,
             c.editing = chrome[s].editing
      PROVE  ChromeStep
  <2>1. /\ c \in ChromesOf /\ chrome' = [chrome EXCEPT ![s] = c] /\ UNCHANGED <<told, view>>
        /\ chrome[s] # Chrome!None
    BY <1>0, <1>5 DEF Chrome!Sets, Chrome!Replaces, Chrome!HasChrome
  <2>2. ShownIsNext(c, told'[s]) /\ Undisturbed(chrome[s], c)
    BY <1>0, <1>5, <2>1 DEF ShownIsNext, Undisturbed, Chrome!Displayed
  <2> QED
    BY <1>0, <2>1, <2>2, ChromeReplaced
<1>6. ASSUME NEW s \in Shells, NEW b \in BOOLEAN,
             \/ Chrome!EnableUIControl(s, b) \/ Chrome!SetIsLoading(s, b) \/ Chrome!ClearCommit(s)
      PROVE  ChromeStep
  <2>1. PICK c \in {[chrome[s] EXCEPT !.can_go_back = b], [chrome[s] EXCEPT !.can_go_forward = b],
                    [chrome[s] EXCEPT !.loading = b], [chrome[s] EXCEPT !.url_committed = FALSE]} :
          Chrome!Sets(s, c)
    BY <1>6 DEF Chrome!EnableUIControl, Chrome!SetIsLoading, Chrome!ClearCommit
  <2>2. chrome[s] \in ChromesOf
    BY <1>0, <2>1 DEF Chrome!Sets, Chrome!Replaces, Chrome!HasChrome
  <2>3. /\ c \in ChromesOf /\ c.edit_text = chrome[s].edit_text /\ c.url = chrome[s].url
        /\ c.editing = chrome[s].editing
    BY <2>2 DEF ChromesOf
  <2> QED
    BY <1>5, <2>1, <2>3
<1>7. ASSUME NEW s \in Shells, NEW ch \in Chars, Chrome!OnChar(s, ch) PROVE ChromeStep
  <2> DEFINE c == [chrome[s] EXCEPT !.editing = TRUE, !.edit_text = Append(@, ch)]
  <2>1. /\ chrome[s] \in ChromesOf /\ chrome' = [chrome EXCEPT ![s] = c]
        /\ UNCHANGED <<told, view>> /\ Len(chrome[s].edit_text) < MaxText
    BY <1>0, <1>7 DEF Chrome!OnChar, Chrome!Sets, Chrome!Replaces, Chrome!HasChrome
  <2>2. Append(chrome[s].edit_text, ch) \in Chrome!Texts
    BY <2>1, TextWithChar DEF ChromesOf
  <2>3. c \in ChromesOf /\ c.editing /\ c.edit_text = Append(chrome[s].edit_text, ch)
    BY <2>1, <2>2 DEF ChromesOf
  <2>4. ShownIsNext(c, told'[s]) /\ Undisturbed(chrome[s], c)
    BY <2>3 DEF ShownIsNext, Undisturbed, Chrome!Displayed
  <2> HIDE DEF c
  <2> QED
    BY <1>0, <2>1, <2>3, <2>4, ChromeReplaced
<1>8. ASSUME NEW s \in Shells, Chrome!OnBackspace(s) PROVE ChromeStep
  <2> DEFINE t == chrome[s].edit_text
             t1 == IF t = <<>> THEN t ELSE SubSeq(t, 1, Len(t) - 1)
             c == [chrome[s] EXCEPT !.editing = TRUE, !.edit_text = t1]
  <2>1. /\ chrome[s] \in ChromesOf /\ chrome' = [chrome EXCEPT ![s] = c]
        /\ UNCHANGED <<told, view>>
    BY <1>0, <1>8 DEF Chrome!OnBackspace, Chrome!Sets, Chrome!Replaces, Chrome!HasChrome
  <2>2. t1 \in Chrome!Texts /\ (t1 = t \/ \E ch \in Chars : t = Append(t1, ch))
    <3>1. t \in Chrome!Texts
      BY <2>1 DEF ChromesOf
    <3> HIDE DEF t
    <3> QED
      BY <3>1, TextWithoutLast
  <2> HIDE DEF t1
  <2>3. c \in ChromesOf /\ c.editing /\ c.edit_text = t1
    BY <2>1, <2>2 DEF ChromesOf
  <2>4. ShownIsNext(c, told'[s]) /\ Undisturbed(chrome[s], c)
    BY <2>2, <2>3 DEF ShownIsNext, Undisturbed, Chrome!Displayed
  <2> HIDE DEF c
  <2> QED
    BY <1>0, <2>1, <2>3, <2>4, ChromeReplaced
<1>9. ASSUME NEW s \in Shells, Chrome!OnEnter(s) PROVE ChromeStep
  <2> DEFINE c == [chrome[s] EXCEPT !.committed_url = chrome[s].edit_text,
                                    !.url_committed = TRUE, !.editing = FALSE]
  <2>1. /\ chrome[s] \in ChromesOf /\ chrome' = [chrome EXCEPT ![s] = c]
        /\ told' = [told EXCEPT ![s] = FALSE] /\ UNCHANGED view
    BY <1>0, <1>9 DEF Chrome!OnEnter, Chrome!Replaces, Chrome!HasChrome
  <2>2. c \in ChromesOf /\ ~c.editing
    BY <2>1 DEF ChromesOf
  <2>3. ShownIsNext(c, told'[s]) /\ Undisturbed(chrome[s], c)
    BY <1>0, <2>1, <2>2 DEF ShownIsNext, Undisturbed
  <2> HIDE DEF c
  <2> QED
    BY <1>0, <2>1, <2>2, <2>3, ChromeReplaced
<1>10. CASE UNCHANGED Chrome!vars
  BY <1>10 DEF Chrome!vars, ChromeInv, ChromeStep, Undisturbed
<1> QED
  BY <1>1, <1>2, <1>3, <1>4, <1>6, <1>7, <1>8, <1>9, <1>10 DEF Chrome!Next

LEMMA ChromeAlways == PartsSpec => []ChromeInv
<1>1. ChromeInv /\ [Chrome!Next]_(Chrome!vars) => ChromeInv'
  BY ChromeNext DEF ChromeStep
<1> QED
  BY <1>1, ChromeRun, ChromeInit, PTL DEF Chrome!Spec

LEMMA ChromeTypesOK == ChromeInv => Chrome!TypeOK
  BY DEF ChromeInv, Chrome!TypeOK, ChromesOf, ViewsOf, Chrome!HasChrome

\* Enter commits what the bar shows, in whatever order keys and URLs of the
\* page arrive, but for the time between an Enter and the page's answer to it.
THEOREM ShownIsCommitted == PartsSpec => []EnterCommitsWhatIsShown
<1>1. ChromeInv => EnterCommitsWhatIsShown
  BY DEF ChromeInv, ShownIsNext, EnterCommitsWhatIsShown, Chrome!EnterCommitsWhatIsShown,
         Chrome!HasChrome, Chrome!Displayed
<1> QED
  BY <1>1, ChromeAlways, PTL

\* While the user types, nothing but a key changes the text in the bar, and a
\* key only its last character.
THEOREM OnlyKeysType == PartsSpec => TypingIsUndisturbed
<1>1. ChromeInv /\ [Chrome!Next]_(Chrome!vars) =>
        [\A s \in Shells :
           Chrome!HasChrome(s) /\ Chrome!HasChrome(s)' /\ chrome[s].editing /\ chrome'[s].editing =>
             LET t == Chrome!Displayed(chrome[s])  t1 == Chrome!Displayed(chrome'[s]) IN
             t1 = t \/ (\E ch \in Chars : t1 = Append(t, ch) \/ t = Append(t1, ch))]_(Chrome!vars)
  BY ChromeNext DEF ChromeStep, Undisturbed, Chrome!HasChrome
<1> QED
  BY <1>1, ChromeRun, ChromeAlways, PTL
     DEF Chrome!Spec, TypingIsUndisturbed, Chrome!TypingIsUndisturbed

\* The toolbar's rectangles and the content below them, for any window.
THEOREM NoTwoAreHit == PartsSpec => []HitsApart
<1> USE DEF Chrome!Rects, Chrome!back_rect, Chrome!forward_rect, Chrome!reload_rect,
            Chrome!UrlRect, Chrome!Button, Chrome!Rect, Chrome!kButtonWidth,
            Chrome!kToolbarHeight
<1>1. ASSUME NEW width \in Nat
      PROVE  LET R == Chrome!Rects(width) IN
             \A a, b \in DOMAIN R : a # b => Chrome!Apart(R[a], R[b])
  BY DEF Chrome!Apart
<1>2. ASSUME NEW c \in ChromesOf
      PROVE  LET R == Chrome!Rects(c.width) IN
             \A a \in DOMAIN R : Chrome!Apart(R[a], Chrome!WebContentBounds(c))
  BY DEF Chrome!Apart, Chrome!WebContentBounds, ChromesOf
<1>3. ASSUME NEW width \in Nat
      PROVE  LET R == Chrome!Rects(width) IN
             \A a \in DOMAIN R : R[a].w > 0 => Chrome!HitTest(width, R[a].x, R[a].y) = a
  <2> DEFINE R == Chrome!Rects(width)
             order == <<"kBack", "kForward", "kReload", "kUrlBar">>
             hits(x, y) == {n \in 1 .. 4 : Chrome!Inside(R[order[n]], x, y)}
             first(x, y) == CHOOSE n \in hits(x, y) : \A k \in hits(x, y) : n <= k
  <2>1. /\ R["kBack"] = [x |-> 4, y |-> 6, w |-> 44, h |-> 44]
        /\ R["kForward"] = [x |-> 50, y |-> 6, w |-> 44, h |-> 44]
        /\ R["kReload"] = [x |-> 96, y |-> 6, w |-> 44, h |-> 44]
        /\ R["kUrlBar"] = [x |-> 148, y |-> 6, w |-> IF width - 156 < 0 THEN 0 ELSE width - 156,
                           h |-> 44]
    OBVIOUS
  <2>2. order[1] = "kBack" /\ order[2] = "kForward" /\ order[3] = "kReload"
        /\ order[4] = "kUrlBar" /\ DOMAIN R = {order[n] : n \in 1 .. 4}
    OBVIOUS
  <2> HIDE DEF R, order
  <2>3. ASSUME NEW n \in 1 .. 4, R[order[n]].w > 0
        PROVE  hits(R[order[n]].x, R[order[n]].y) = {n}
    <3>1. \A k \in 1 .. 4 : Chrome!Inside(R[order[k]], R[order[n]].x, R[order[n]].y) <=> k = n
      BY <2>1, <2>2, <2>3 DEF Chrome!Inside
    <3> QED
      BY <3>1
  <2>4. ASSUME NEW n \in 1 .. 4, R[order[n]].w > 0
        PROVE  Chrome!HitTest(width, R[order[n]].x, R[order[n]].y) = order[n]
    <3>1. Chrome!HitTest(width, R[order[n]].x, R[order[n]].y)
            = order[first(R[order[n]].x, R[order[n]].y)]
      BY <2>3, <2>4 DEF Chrome!HitTest, R, order
    <3>2. first(R[order[n]].x, R[order[n]].y) = n
      BY <2>3, <2>4
    <3> QED
      BY <3>1, <3>2
  <2> QED
    BY <2>2, <2>4 DEF R
<1>4. ChromeInv => HitsApart
  BY <1>1, <1>2, <1>3 DEF ChromeInv, HitsApart, Chrome!HitsApart, Chrome!HasChrome, ChromesOf
<1> QED
  BY <1>4, ChromeAlways, PTL
-----------------------------------------------------------------------------
(* BaseShims: a call holds a descriptor between the system call that opens *)
(* it and the one that ends the call, and the files of the start stay.     *)

Holding == {"shm_unlink", "ftruncate", "exefile", "mapinfo", "pagedata"}

HeldWhileRunning == \A t \in Callers :
  /\ shimsHeld[t] \notin Shims!Stdio
  /\ shimsHeld[t] # Shims!Closed <=> shimsPc[t] \in Holding

StdioStays ==
  /\ \A fd \in Shims!Stdio : open[fd] = fd
  /\ returned \cap Shims!Stdio = {}

OneOwner ==
  /\ \A fd \in Shims!Fds \ Shims!Stdio :
       open[fd] # Shims!Closed <=> (fd \in returned \/ \E t \in Callers : shimsHeld[t] = fd)
  /\ \A t \in Callers : shimsHeld[t] # Shims!Closed =>
       shimsHeld[t] \notin returned /\ \A u \in Callers : shimsHeld[u] = shimsHeld[t] => u = t

\* Objects made later have larger numbers than those behind a descriptor now.
OneDescriptorEach ==
  /\ \A fd, g \in Shims!Fds : open[fd] = open[g] /\ open[fd] \in Shims!Objects => fd = g
  /\ \A fd \in Shims!Fds : open[fd] \in Shims!Objects => open[fd] <= 2 + made

BuffersFreed == \A t \in Callers : t \in buffers <=> shimsPc[t] = "pagedata"

Accounted == HeldWhileRunning /\ StdioStays /\ OneOwner /\ OneDescriptorEach

ShimsInv == Shims!TypeOK /\ Accounted /\ BuffersFreed

LEMMA ShimsInit == Shims!Init => ShimsInv
<1> SUFFICES ASSUME Shims!Init PROVE ShimsInv
  OBVIOUS
<1> USE LaunchAssumption, ShimsAssumption
    DEF Shims!Init, Shims!Fds, Shims!Stdio, Shims!Closed, Shims!Objects
<1>1. Shims!TypeOK
  BY DEF Shims!TypeOK
<1>2. HeldWhileRunning /\ StdioStays
  BY DEF HeldWhileRunning, StdioStays, Holding
<1>3. OneOwner
  BY DEF OneOwner
<1>4. OneDescriptorEach
  BY DEF OneDescriptorEach
<1> QED
  BY <1>1, <1>2, <1>3, <1>4 DEF ShimsInv, Accounted, BuffersFreed

LEMMA CallMoves ==
  ASSUME Shims!TypeOK, NEW t \in Callers, NEW l, Shims!Goto(t, l)
  PROVE  shimsPc'[t] = l /\ \A u \in Callers \ {t} : shimsPc'[u] = shimsPc[u]
  BY DEF Shims!TypeOK, Shims!Goto

\* A call that goes on with what it holds.
LEMMA GoingOnKeeps ==
  ASSUME ShimsInv, NEW t \in Callers, NEW l, Shims!Goto(t, l),
         l \in Holding <=> shimsPc[t] \in Holding,
         UNCHANGED <<shimsHeld, open, returned, made>>
  PROVE  Accounted'
<1>1. HeldWhileRunning'
  BY CallMoves DEF ShimsInv, Accounted, HeldWhileRunning
<1> QED
  BY <1>1 DEF ShimsInv, Accounted, StdioStays, OneOwner, OneDescriptorEach

\* A call that opens a file of its own.
LEMMA OpeningKeeps ==
  ASSUME ShimsInv, NEW t \in Callers, shimsPc[t] \notin Holding, NEW l \in Holding,
         Shims!Goto(t, l), NEW f, Shims!Opens(t, f), UNCHANGED returned,
         \/ f = Shims!ProcFile /\ UNCHANGED made
         \/ f = 3 + made /\ made' = made + 1
  PROVE  Accounted'
<1> USE LaunchAssumption DEF Shims!Fds, Shims!Stdio, Shims!Closed
<1>0. /\ open \in [Shims!Fds -> Shims!Stdio \cup Shims!Objects \cup {Shims!Closed, Shims!ProcFile}]
      /\ shimsHeld \in [Callers -> Shims!Fds \cup {Shims!Closed}] /\ made \in Nat
      /\ shimsHeld[t] = Shims!Closed
  BY DEF ShimsInv, Accounted, HeldWhileRunning, Shims!TypeOK
<1>1. PICK fd \in Shims!Fds : /\ open[fd] = Shims!Closed
                              /\ open' = [open EXCEPT ![fd] = f]
                              /\ shimsHeld' = [shimsHeld EXCEPT ![t] = fd]
  BY DEF Shims!Opens
<1>2. /\ open'[fd] = f /\ \A g \in Shims!Fds \ {fd} : open'[g] = open[g]
      /\ shimsHeld'[t] = fd /\ \A u \in Callers \ {t} : shimsHeld'[u] = shimsHeld[u]
  BY <1>0, <1>1
<1>3. fd \notin Shims!Stdio
  BY <1>1 DEF ShimsInv, Accounted, StdioStays
<1>4. f # Shims!Closed
  BY <1>0 DEF Shims!ProcFile
<1>5. fd \notin returned /\ \A u \in Callers : shimsHeld[u] # fd
  BY <1>1, <1>3 DEF ShimsInv, Accounted, OneOwner
<1>6. HeldWhileRunning'
  BY <1>0, <1>2, <1>3, CallMoves DEF ShimsInv, Accounted, HeldWhileRunning
<1>7. StdioStays'
  BY <1>2, <1>3 DEF ShimsInv, Accounted, StdioStays
<1>8. OneOwner'
  BY <1>0, <1>2, <1>4, <1>5 DEF ShimsInv, Accounted, OneOwner
<1>9. OneDescriptorEach'
  <2>1. /\ \A g \in Shims!Fds : open[g] \in Shims!Objects => open[g] <= 2 + made
        /\ \A g, h \in Shims!Fds : open[g] = open[h] /\ open[g] \in Shims!Objects => g = h
    BY DEF ShimsInv, Accounted, OneDescriptorEach
  <2>2. Shims!Objects \subseteq Nat /\ Shims!ProcFile \notin Shims!Objects
    BY ShimsAssumption DEF Shims!Objects, Shims!ProcFile
  <2>3. f \in Shims!Objects => f = 3 + made /\ made' = made + 1
    BY <2>2
  <2>4. \A g \in Shims!Fds : open'[g] \in Shims!Objects => open'[g] <= 2 + made'
    <3>1. CASE f = Shims!ProcFile /\ made' = made
      BY <1>2, <2>1, <2>2, <3>1
    <3>2. CASE f = 3 + made /\ made' = made + 1
      <4>1. f <= 2 + made' /\ 2 + made <= 2 + made'
        BY <1>0, <3>2
      <4>2. \A n \in Nat : n <= 2 + made => n <= 2 + made'
        BY <1>0, <3>2
      <4> QED
        BY <1>2, <2>1, <2>2, <4>1, <4>2
    <3> QED
      BY <3>1, <3>2
  <2>5. \A g \in Shims!Fds \ {fd} : open[g] \in Shims!Objects => open[g] # f
    BY <1>0, <2>1, <2>2, <2>3
  <2>6. \A g, h \in Shims!Fds : open'[g] = open'[h] /\ open'[g] \in Shims!Objects => g = h
    BY <1>2, <2>1, <2>5
  <2> QED
    BY <2>4, <2>6 DEF OneDescriptorEach
<1> QED
  BY <1>6, <1>7, <1>8, <1>9 DEF Accounted

\* A call that ends by closing what it holds.
LEMMA ClosingKeeps ==
  ASSUME ShimsInv, NEW t \in Callers, shimsPc[t] \in Holding, Shims!Closes(t),
         UNCHANGED <<returned, made>>
  PROVE  Accounted'
<1> USE LaunchAssumption DEF Shims!Fds, Shims!Stdio, Shims!Closed
<1> DEFINE fd == shimsHeld[t]
<1>0. /\ open \in [Shims!Fds -> Shims!Stdio \cup Shims!Objects \cup {Shims!Closed, Shims!ProcFile}]
      /\ shimsHeld \in [Callers -> Shims!Fds \cup {Shims!Closed}]
      /\ fd \in Shims!Fds \ Shims!Stdio
  BY DEF ShimsInv, Accounted, HeldWhileRunning, Shims!TypeOK
<1>1. /\ open'[fd] = Shims!Closed /\ \A g \in Shims!Fds \ {fd} : open'[g] = open[g]
      /\ shimsHeld'[t] = Shims!Closed /\ \A u \in Callers \ {t} : shimsHeld'[u] = shimsHeld[u]
  BY <1>0 DEF Shims!Closes
<1>2. fd \notin returned /\ \A u \in Callers \ {t} : shimsHeld[u] # fd
  BY <1>0 DEF ShimsInv, Accounted, OneOwner
<1>3. shimsPc'[t] = "idle" /\ \A u \in Callers \ {t} : shimsPc'[u] = shimsPc[u]
  BY CallMoves DEF Shims!Closes, ShimsInv
<1> HIDE DEF fd
<1>4. HeldWhileRunning'
  BY <1>1, <1>3 DEF ShimsInv, Accounted, HeldWhileRunning, Holding
<1>5. StdioStays'
  BY <1>0, <1>1 DEF ShimsInv, Accounted, StdioStays
<1>6. OneOwner'
  BY <1>0, <1>1, <1>2 DEF ShimsInv, Accounted, OneOwner, fd
<1>7. OneDescriptorEach'
  <2>1. Shims!Closed \notin Shims!Objects
    BY ShimsAssumption DEF Shims!Objects
  <2>2. /\ \A g \in Shims!Fds : open[g] \in Shims!Objects => open[g] <= 2 + made
        /\ \A g, h \in Shims!Fds : open[g] = open[h] /\ open[g] \in Shims!Objects => g = h
    BY DEF ShimsInv, Accounted, OneDescriptorEach
  <2>3. \A g \in Shims!Fds : open'[g] \in Shims!Objects => g # fd /\ open'[g] = open[g]
    BY <1>1, <2>1
  <2> QED
    BY <2>2, <2>3 DEF OneDescriptorEach
<1> QED
  BY <1>4, <1>5, <1>6, <1>7 DEF Accounted

\* A call that ends by returning what it holds.
LEMMA ReturningKeeps ==
  ASSUME ShimsInv, NEW t \in Callers, shimsPc[t] \in Holding, Shims!Returns(t),
         UNCHANGED <<open, made>>
  PROVE  Accounted'
<1> USE LaunchAssumption DEF Shims!Fds, Shims!Stdio, Shims!Closed
<1>0. /\ shimsHeld \in [Callers -> Shims!Fds \cup {Shims!Closed}]
      /\ shimsHeld[t] \in Shims!Fds \ Shims!Stdio
  BY DEF ShimsInv, Accounted, HeldWhileRunning, Shims!TypeOK
<1>1. /\ returned' = returned \cup {shimsHeld[t]}
      /\ shimsHeld'[t] = Shims!Closed /\ \A u \in Callers \ {t} : shimsHeld'[u] = shimsHeld[u]
  BY <1>0 DEF Shims!Returns
<1>2. \A u \in Callers \ {t} : shimsHeld[u] # shimsHeld[t]
  BY <1>0 DEF ShimsInv, Accounted, OneOwner
<1>3. shimsPc'[t] = "idle" /\ \A u \in Callers \ {t} : shimsPc'[u] = shimsPc[u]
  BY CallMoves DEF Shims!Returns, ShimsInv
<1>4. HeldWhileRunning'
  BY <1>1, <1>3 DEF ShimsInv, Accounted, HeldWhileRunning, Holding
<1>5. StdioStays'
  BY <1>0, <1>1 DEF ShimsInv, Accounted, StdioStays
<1>6. OneOwner'
  BY <1>0, <1>1, <1>2 DEF ShimsInv, Accounted, OneOwner
<1> QED
  BY <1>4, <1>5, <1>6 DEF ShimsInv, Accounted, OneDescriptorEach

\* The process that dies takes its descriptors and calls with it.
LEMMA RestartKeeps == ASSUME ShimsInv, Shims!Restart PROVE Accounted'
<1> USE LaunchAssumption, ShimsAssumption
    DEF Shims!Restart, Shims!Fds, Shims!Stdio, Shims!Closed, Shims!Objects
<1>1. HeldWhileRunning' /\ StdioStays'
  BY DEF HeldWhileRunning, StdioStays, Holding
<1>2. OneOwner'
  BY DEF OneOwner
<1>3. OneDescriptorEach'
  BY DEF OneDescriptorEach
<1> QED
  BY <1>1, <1>2, <1>3 DEF Accounted

LEMMA CallerClosesKeeps ==
  ASSUME ShimsInv, NEW fd \in Shims!Fds, Shims!CallerCloses(fd)
  PROVE  Accounted'
<1>0. /\ fd \in returned /\ returned' = returned \ {fd}
      /\ open' = [open EXCEPT ![fd] = Shims!Closed]
      /\ UNCHANGED <<shimsPc, shimsHeld, made>>
  BY DEF Shims!CallerCloses, Shims!memVars
<1>1. /\ open'[fd] = Shims!Closed /\ \A g \in Shims!Fds \ {fd} : open'[g] = open[g]
      /\ fd \notin Shims!Stdio /\ Shims!Stdio \subseteq Shims!Fds
  BY <1>0, LaunchAssumption
     DEF ShimsInv, Shims!TypeOK, Accounted, StdioStays, Shims!Stdio, Shims!Fds
<1>2. \A t \in Callers : shimsHeld[t] # fd
  BY <1>0, <1>1, LaunchAssumption
     DEF ShimsInv, Accounted, OneOwner, Shims!Fds, Shims!Closed
<1>3. HeldWhileRunning' /\ StdioStays'
  BY <1>0, <1>1 DEF ShimsInv, Accounted, HeldWhileRunning, StdioStays
<1>4. OneOwner'
  BY <1>0, <1>1, <1>2 DEF ShimsInv, Accounted, OneOwner
<1>5. OneDescriptorEach'
  <2>1. Shims!Closed \notin Shims!Objects
    BY ShimsAssumption DEF Shims!Objects, Shims!Closed
  <2>2. \A g \in Shims!Fds : open'[g] \in Shims!Objects => g # fd /\ open'[g] = open[g]
    BY <1>1, <2>1
  <2> QED
    BY <1>0, <2>2 DEF ShimsInv, Accounted, OneDescriptorEach
<1> QED
  BY <1>3, <1>4, <1>5 DEF Accounted

LEMMA ShimsAccounted == ASSUME ShimsInv, [Shims!Next]_(Shims!vars) PROVE Accounted'
<1>1. ASSUME NEW t \in Callers,
             Shims!ReadCounter(t) \/ Shims!BumpCounter(t) \/ Shims!ShmUnlink(t)
      PROVE  Accounted'
  <2>1. PICK l \in {"bump", "shm_open", "ftruncate"} :
          /\ Shims!Goto(t, l) /\ (l \in Holding <=> shimsPc[t] \in Holding)
          /\ UNCHANGED <<shimsHeld, open, returned, made>>
    BY <1>1
       DEF Shims!ReadCounter, Shims!BumpCounter, Shims!ShmUnlink, Shims!At, Holding
  <2> QED
    BY <2>1, GoingOnKeeps
<1>2. ASSUME NEW t \in Callers, Shims!ShmOpen(t) PROVE Accounted'
  <2>1. shimsPc[t] \notin Holding /\ "shm_unlink" \in Holding /\ "idle" \notin Holding
        /\ UNCHANGED returned
    BY <1>2 DEF Shims!ShmOpen, Shims!At, Holding
  <2>2. CASE /\ made' = made + 1 /\ Shims!Opens(t, 3 + made) /\ Shims!Goto(t, "shm_unlink")
    BY <2>1, <2>2, OpeningKeeps
  <2>3. CASE Shims!Goto(t, "idle") /\ UNCHANGED <<shimsHeld, open, made>>
    BY <2>1, <2>3, GoingOnKeeps
  <2> QED
    BY <1>2, <2>2, <2>3 DEF Shims!ShmOpen
<1>3. ASSUME NEW t \in Callers, Shims!Truncate(t) PROVE Accounted'
  <2>1. shimsPc[t] \in Holding /\ UNCHANGED made
    BY <1>3 DEF Shims!Truncate, Shims!At, Shims!memVars, Holding
  <2> QED
    BY <1>3, <2>1, ClosingKeeps, ReturningKeeps DEF Shims!Truncate
<1>4. ASSUME NEW t \in Callers, Shims!OpenProc(t) PROVE Accounted'
  <2>1. PICK l \in {"exefile", "mapinfo"} : Shims!Opens(t, Shims!ProcFile) /\ Shims!Goto(t, l)
    BY <1>4 DEF Shims!OpenProc
  <2>2. shimsPc[t] \notin Holding /\ l \in Holding /\ UNCHANGED <<returned, made>>
    BY <1>4 DEF Shims!OpenProc, Shims!At, Shims!memVars, Holding
  <2> QED
    BY <2>1, <2>2, OpeningKeeps
<1>5. ASSUME NEW t \in Callers, Shims!ReadExeFile(t) \/ Shims!ReadMappings(t) PROVE Accounted'
  <2>1. shimsPc[t] \in Holding /\ Shims!Closes(t) /\ UNCHANGED <<returned, made>>
    BY <1>5 DEF Shims!ReadExeFile, Shims!ReadMappings, Shims!At, Shims!memVars, Holding
  <2> QED
    BY <2>1, ClosingKeeps
<1>6. ASSUME NEW t \in Callers, Shims!CountMappings(t) PROVE Accounted'
  <2>1. shimsPc[t] \in Holding /\ "pagedata" \in Holding /\ UNCHANGED <<returned, made>>
    BY <1>6 DEF Shims!CountMappings, Shims!At, Shims!memVars, Holding
  <2>2. CASE Shims!Goto(t, "pagedata") /\ UNCHANGED <<shimsHeld, open>>
    BY <2>1, <2>2, GoingOnKeeps
  <2>3. CASE Shims!Closes(t)
    BY <2>1, <2>3, ClosingKeeps
  <2> QED
    BY <1>6, <2>2, <2>3 DEF Shims!CountMappings
<1>7. CASE UNCHANGED Shims!vars
  BY <1>7 DEF Shims!vars, ShimsInv, Accounted, HeldWhileRunning, StdioStays, OneOwner,
              OneDescriptorEach
<1> QED
  BY <1>1, <1>2, <1>3, <1>4, <1>5, <1>6, <1>7, RestartKeeps, CallerClosesKeeps DEF Shims!Next

\* What is held in the shared memory call, and what was returned, is an object
\* of it; what the readers of /proc hold is one of its files.
Making == {"shm_unlink", "ftruncate"}

KindsKnown ==
  /\ \A fd \in returned : open[fd] \in Shims!Objects
  /\ \A t \in Callers : shimsPc[t] \in Holding =>
       IF shimsPc[t] \in Making THEN open[shimsHeld[t]] \in Shims!Objects
       ELSE open[shimsHeld[t]] = Shims!ProcFile

\* A step of a call that leaves the descriptors of the others alone.
LEMMA OthersKindsStay ==
  ASSUME ShimsInv, KindsKnown, NEW t \in Callers, NEW l, Shims!Goto(t, l),
         NEW fd, \A g \in Shims!Fds \ {fd} : open'[g] = open[g],
         \A u \in Callers \ {t} : shimsHeld'[u] = shimsHeld[u] /\ shimsHeld[u] # fd,
         fd \notin returned, UNCHANGED returned,
         l \in Holding => IF l \in Making THEN open'[shimsHeld'[t]] \in Shims!Objects
                          ELSE open'[shimsHeld'[t]] = Shims!ProcFile
  PROVE  KindsKnown'
<1>1. /\ returned \subseteq Shims!Fds
      /\ \A u \in Callers : shimsPc[u] \in Holding => shimsHeld[u] \in Shims!Fds
  BY DEF ShimsInv, Shims!TypeOK, Accounted, HeldWhileRunning
<1>2. shimsPc'[t] = l /\ \A u \in Callers \ {t} : shimsPc'[u] = shimsPc[u]
  BY CallMoves DEF ShimsInv
<1>3. \A g \in returned' : open'[g] \in Shims!Objects
  BY <1>1 DEF KindsKnown
<1>4. ASSUME NEW u \in Callers \ {t}, shimsPc'[u] \in Holding
      PROVE  shimsPc[u] = shimsPc'[u] /\ open'[shimsHeld'[u]] = open[shimsHeld[u]]
  BY <1>1, <1>2, <1>4
<1> QED
  BY <1>2, <1>3, <1>4 DEF KindsKnown

LEMMA GoingOnKeepsKinds ==
  ASSUME ShimsInv, KindsKnown, NEW t \in Callers, NEW l, Shims!Goto(t, l),
         l \in Holding <=> shimsPc[t] \in Holding, l \in Making <=> shimsPc[t] \in Making,
         UNCHANGED <<shimsHeld, open, returned>>
  PROVE  KindsKnown'
  BY CallMoves DEF ShimsInv, KindsKnown

LEMMA OpeningKeepsKinds ==
  ASSUME ShimsInv, KindsKnown, NEW t \in Callers, NEW l, Shims!Goto(t, l),
         NEW f, Shims!Opens(t, f), UNCHANGED returned,
         IF l \in Making THEN f \in Shims!Objects ELSE f = Shims!ProcFile
  PROVE  KindsKnown'
<1> USE LaunchAssumption DEF Shims!Fds, Shims!Stdio, Shims!Closed
<1>0. /\ open \in [Shims!Fds -> Shims!Stdio \cup Shims!Objects \cup {Shims!Closed, Shims!ProcFile}]
      /\ shimsHeld \in [Callers -> Shims!Fds \cup {Shims!Closed}]
  BY DEF ShimsInv, Shims!TypeOK
<1>1. PICK fd \in Shims!Fds : /\ open[fd] = Shims!Closed
                              /\ open' = [open EXCEPT ![fd] = f]
                              /\ shimsHeld' = [shimsHeld EXCEPT ![t] = fd]
  BY DEF Shims!Opens
<1>2. /\ open'[fd] = f /\ \A g \in Shims!Fds \ {fd} : open'[g] = open[g]
      /\ shimsHeld'[t] = fd /\ \A u \in Callers \ {t} : shimsHeld'[u] = shimsHeld[u]
  BY <1>0, <1>1
<1>3. fd \notin Shims!Stdio
  BY <1>1 DEF ShimsInv, Accounted, StdioStays
<1>4. fd \notin returned /\ \A u \in Callers : shimsHeld[u] # fd
  BY <1>1, <1>3 DEF ShimsInv, Accounted, OneOwner
<1> QED
  BY <1>2, <1>4, OthersKindsStay

LEMMA ClosingKeepsKinds ==
  ASSUME ShimsInv, KindsKnown, NEW t \in Callers, shimsPc[t] \in Holding, Shims!Closes(t),
         UNCHANGED returned
  PROVE  KindsKnown'
<1> USE LaunchAssumption DEF Shims!Fds, Shims!Stdio, Shims!Closed
<1> DEFINE fd == shimsHeld[t]
<1>0. /\ open \in [Shims!Fds -> Shims!Stdio \cup Shims!Objects \cup {Shims!Closed, Shims!ProcFile}]
      /\ shimsHeld \in [Callers -> Shims!Fds \cup {Shims!Closed}]
      /\ fd \in Shims!Fds \ Shims!Stdio
  BY DEF ShimsInv, Accounted, HeldWhileRunning, Shims!TypeOK
<1>1. /\ \A g \in Shims!Fds \ {fd} : open'[g] = open[g]
      /\ \A u \in Callers \ {t} : shimsHeld'[u] = shimsHeld[u]
  BY <1>0 DEF Shims!Closes
<1>2. fd \notin returned /\ \A u \in Callers \ {t} : shimsHeld[u] # fd
  BY <1>0 DEF ShimsInv, Accounted, OneOwner
<1>3. Shims!Goto(t, "idle") /\ "idle" \notin Holding
  BY DEF Shims!Closes, Holding
<1> HIDE DEF fd
<1> QED
  BY <1>1, <1>2, <1>3, OthersKindsStay

\* Only the call that made shared memory returns anything.
LEMMA ReturningKeepsKinds ==
  ASSUME ShimsInv, KindsKnown, NEW t \in Callers, shimsPc[t] \in Making, Shims!Returns(t),
         UNCHANGED open
  PROVE  KindsKnown'
<1> USE DEF Holding, Making
<1>1. /\ returned' = returned \cup {shimsHeld[t]} /\ open[shimsHeld[t]] \in Shims!Objects
      /\ \A u \in Callers \ {t} : shimsHeld'[u] = shimsHeld[u]
  BY DEF Shims!Returns, KindsKnown, ShimsInv, Shims!TypeOK
<1>2. shimsPc'[t] = "idle" /\ \A u \in Callers \ {t} : shimsPc'[u] = shimsPc[u]
  BY CallMoves DEF Shims!Returns, ShimsInv
<1> QED
  BY <1>1, <1>2 DEF KindsKnown

LEMMA ShimsKinds == ASSUME ShimsInv, KindsKnown, [Shims!Next]_(Shims!vars) PROVE KindsKnown'
<1>1. ASSUME NEW t \in Callers,
             Shims!ReadCounter(t) \/ Shims!BumpCounter(t) \/ Shims!ShmUnlink(t)
      PROVE  KindsKnown'
  <2>1. PICK l \in {"bump", "shm_open", "ftruncate"} :
          /\ Shims!Goto(t, l) /\ (l \in Holding <=> shimsPc[t] \in Holding)
          /\ (l \in Making <=> shimsPc[t] \in Making)
          /\ UNCHANGED <<shimsHeld, open, returned>>
    BY <1>1
       DEF Shims!ReadCounter, Shims!BumpCounter, Shims!ShmUnlink, Shims!At, Holding, Making
  <2> QED
    BY <2>1, GoingOnKeepsKinds
<1>2. ASSUME NEW t \in Callers, Shims!ShmOpen(t) PROVE KindsKnown'
  <2>1. CASE /\ made < MaxShm /\ Shims!Opens(t, 3 + made) /\ Shims!Goto(t, "shm_unlink")
    <3>1. 3 + made \in Shims!Objects /\ UNCHANGED returned
      BY <1>2, <2>1, ShimsAssumption
         DEF ShimsInv, Shims!TypeOK, Shims!Objects, Shims!ShmOpen
    <3> QED
      BY <2>1, <3>1, OpeningKeepsKinds DEF Making
  <2>2. CASE Shims!Goto(t, "idle") /\ UNCHANGED <<shimsHeld, open>>
    BY <1>2, <2>2, GoingOnKeepsKinds DEF Shims!ShmOpen, Shims!At, Holding, Making
  <2> QED
    BY <1>2, <2>1, <2>2 DEF Shims!ShmOpen
<1>3. ASSUME NEW t \in Callers, Shims!Truncate(t) PROVE KindsKnown'
  BY <1>3, ClosingKeepsKinds, ReturningKeepsKinds
     DEF Shims!Truncate, Shims!At, Holding, Making
<1>4. ASSUME NEW t \in Callers, Shims!OpenProc(t) PROVE KindsKnown'
  <2>1. PICK l \in {"exefile", "mapinfo"} : Shims!Opens(t, Shims!ProcFile) /\ Shims!Goto(t, l)
    BY <1>4 DEF Shims!OpenProc
  <2>2. l \notin Making /\ UNCHANGED returned
    BY <1>4 DEF Shims!OpenProc, Making
  <2> QED
    BY <2>1, <2>2, OpeningKeepsKinds
<1>5. ASSUME NEW t \in Callers, Shims!ReadExeFile(t) \/ Shims!ReadMappings(t) PROVE KindsKnown'
  <2>1. shimsPc[t] \in Holding /\ Shims!Closes(t) /\ UNCHANGED returned
    BY <1>5 DEF Shims!ReadExeFile, Shims!ReadMappings, Shims!At, Holding
  <2> QED
    BY <2>1, ClosingKeepsKinds
<1>6. ASSUME NEW t \in Callers, Shims!CountMappings(t) PROVE KindsKnown'
  <2>1. shimsPc[t] = "mapinfo" /\ UNCHANGED returned
    BY <1>6 DEF Shims!CountMappings, Shims!At
  <2>2. CASE Shims!Goto(t, "pagedata") /\ UNCHANGED <<shimsHeld, open>>
    BY <2>1, <2>2, GoingOnKeepsKinds DEF Holding, Making
  <2>3. CASE Shims!Closes(t)
    BY <2>1, <2>3, ClosingKeepsKinds DEF Holding
  <2> QED
    BY <1>6, <2>2, <2>3 DEF Shims!CountMappings
<1>7. ASSUME NEW fd \in Shims!Fds, Shims!CallerCloses(fd) PROVE KindsKnown'
  <2>1. /\ fd \in returned /\ returned' = returned \ {fd} /\ returned \subseteq Shims!Fds
        /\ \A g \in Shims!Fds \ {fd} : open'[g] = open[g]
        /\ UNCHANGED <<shimsPc, shimsHeld>>
    BY <1>7 DEF Shims!CallerCloses, Shims!memVars, ShimsInv, Shims!TypeOK
  <2>2. \A t \in Callers : shimsPc[t] \in Holding =>
          shimsHeld[t] \in Shims!Fds /\ shimsHeld[t] # fd
    BY <2>1 DEF ShimsInv, Accounted, HeldWhileRunning, OneOwner, Shims!TypeOK
  <2> QED
    BY <2>1, <2>2 DEF KindsKnown
<1>8. CASE Shims!Restart
  BY <1>8 DEF Shims!Restart, KindsKnown, Holding
<1>9. CASE UNCHANGED Shims!vars
  BY <1>9 DEF Shims!vars, KindsKnown
<1> QED
  BY <1>1, <1>2, <1>3, <1>4, <1>5, <1>6, <1>7, <1>8, <1>9 DEF Shims!Next

LEMMA ShimsBuffers == ASSUME ShimsInv, [Shims!Next]_(Shims!vars) PROVE BuffersFreed'
<1> USE DEF ShimsInv, BuffersFreed
<1>1. ASSUME NEW t \in Callers, NEW l, Shims!Goto(t, l), l # "pagedata", shimsPc[t] # "pagedata",
             UNCHANGED buffers
      PROVE  BuffersFreed'
  BY <1>1, CallMoves
<1>2. ASSUME NEW t \in Callers,
             \/ Shims!ReadCounter(t) \/ Shims!BumpCounter(t) \/ Shims!ShmOpen(t)
             \/ Shims!ShmUnlink(t) \/ Shims!Truncate(t) \/ Shims!OpenProc(t)
             \/ Shims!ReadExeFile(t)
      PROVE  BuffersFreed'
  <2>1. /\ shimsPc[t] # "pagedata" /\ UNCHANGED buffers
        /\ \E l \in {"idle", "bump", "shm_open", "shm_unlink", "ftruncate", "exefile", "mapinfo"} :
             Shims!Goto(t, l)
    BY <1>2
       DEF Shims!ReadCounter, Shims!BumpCounter, Shims!ShmOpen, Shims!ShmUnlink,
           Shims!Truncate, Shims!OpenProc, Shims!ReadExeFile, Shims!Closes, Shims!Returns,
           Shims!At
  <2> QED
    BY <1>1, <2>1
<1>3. ASSUME NEW t \in Callers, Shims!CountMappings(t) PROVE BuffersFreed'
  <2>1. CASE buffers' = buffers \cup {t} /\ Shims!Goto(t, "pagedata")
    BY <2>1, CallMoves
  <2>2. CASE Shims!Closes(t) /\ UNCHANGED buffers
    BY <1>1, <1>3, <2>2 DEF Shims!CountMappings, Shims!Closes, Shims!At
  <2> QED
    BY <1>3, <2>1, <2>2 DEF Shims!CountMappings
<1>4. ASSUME NEW t \in Callers, Shims!ReadMappings(t) PROVE BuffersFreed'
  BY <1>4, CallMoves DEF Shims!ReadMappings, Shims!Closes
<1>5. ASSUME NEW fd \in Shims!Fds, Shims!CallerCloses(fd) PROVE BuffersFreed'
  BY <1>5 DEF Shims!CallerCloses
<1>6. CASE Shims!Restart
  BY <1>6 DEF Shims!Restart
<1>7. CASE UNCHANGED Shims!vars
  BY <1>7 DEF Shims!vars
<1> QED
  BY <1>2, <1>3, <1>4, <1>5, <1>6, <1>7 DEF Shims!Next

\* The types of one call's variables after a step of it.
LEMMA CallTypes ==
  ASSUME Shims!TypeOK, NEW t \in Callers,
         NEW l \in {"idle", "bump", "shm_open", "shm_unlink", "ftruncate",
                    "exefile", "mapinfo", "pagedata"},
         Shims!Goto(t, l)
  PROVE  shimsPc' \in [Callers -> {"idle", "bump", "shm_open", "shm_unlink", "ftruncate",
                                   "exefile", "mapinfo", "pagedata"}]
  BY DEF Shims!TypeOK, Shims!Goto

LEMMA OpensTypes ==
  ASSUME Shims!TypeOK, NEW t \in Callers,
         NEW f \in Shims!Objects \cup {Shims!ProcFile}, Shims!Opens(t, f)
  PROVE  /\ open' \in [Shims!Fds -> Shims!Stdio \cup Shims!Objects \cup
                                    {Shims!Closed, Shims!ProcFile}]
         /\ shimsHeld' \in [Callers -> Shims!Fds \cup {Shims!Closed}]
  BY DEF Shims!TypeOK, Shims!Opens

LEMMA ClosesTypes ==
  ASSUME ShimsInv, NEW t \in Callers, Shims!Closes(t)
  PROVE  /\ open' \in [Shims!Fds -> Shims!Stdio \cup Shims!Objects \cup
                                    {Shims!Closed, Shims!ProcFile}]
         /\ shimsHeld' \in [Callers -> Shims!Fds \cup {Shims!Closed}]
  BY DEF ShimsInv, Shims!TypeOK, Shims!Closes

LEMMA ShimsTypesKept == ASSUME ShimsInv, [Shims!Next]_(Shims!vars) PROVE Shims!TypeOK'
<1> USE ShimsAssumption
<1>0. /\ Shims!TypeOK
      /\ name \in [Callers -> 0 .. MaxCount - 1] /\ counter \in 0 .. MaxCount
      /\ names \in [0 .. MaxCount -> Shims!Objects \cup {Shims!Closed}]
      /\ made \in 0 .. MaxShm /\ returned \subseteq Shims!Fds /\ buffers \subseteq Callers
  BY DEF ShimsInv, Shims!TypeOK
<1>1. ASSUME NEW t \in Callers, Shims!ReadCounter(t) PROVE Shims!TypeOK'
  <2>1. counter \in 0 .. MaxCount - 1
    BY <1>0, <1>1 DEF Shims!ReadCounter
  <2>2. name' \in [Callers -> 0 .. MaxCount - 1]
    BY <1>0, <1>1, <2>1 DEF Shims!ReadCounter
  <2> QED
    BY <1>0, <1>1, <2>2, CallTypes DEF Shims!ReadCounter, Shims!TypeOK
<1>2. ASSUME NEW t \in Callers, Shims!BumpCounter(t) PROVE Shims!TypeOK'
  <2>1. name[t] \in 0 .. MaxCount - 1
    BY <1>0
  <2>2. counter' \in 0 .. MaxCount
    BY <1>2, <2>1 DEF Shims!BumpCounter
  <2> QED
    BY <1>0, <1>2, <2>2, CallTypes DEF Shims!BumpCounter, Shims!TypeOK
<1>3. ASSUME NEW t \in Callers, Shims!ShmOpen(t) PROVE Shims!TypeOK'
  <2>1. CASE /\ made < MaxShm /\ made' = made + 1
             /\ names' = [names EXCEPT ![name[t]] = 3 + made]
             /\ Shims!Opens(t, 3 + made) /\ Shims!Goto(t, "shm_unlink")
    <3>1. 3 + made \in Shims!Objects /\ made' \in 0 .. MaxShm
      BY <1>0, <2>1 DEF Shims!Objects
    <3>2. names' \in [0 .. MaxCount -> Shims!Objects \cup {Shims!Closed}]
      BY <1>0, <2>1, <3>1
    <3> QED
      BY <1>0, <1>3, <2>1, <3>1, <3>2, CallTypes, OpensTypes DEF Shims!ShmOpen, Shims!TypeOK
  <2>2. CASE Shims!Goto(t, "idle") /\ UNCHANGED <<shimsHeld, open, names, made>>
    BY <1>0, <1>3, <2>2, CallTypes DEF Shims!ShmOpen, Shims!TypeOK
  <2> QED
    BY <1>3, <2>1, <2>2 DEF Shims!ShmOpen
<1>4. ASSUME NEW t \in Callers, Shims!ShmUnlink(t) PROVE Shims!TypeOK'
  <2>1. names' \in [0 .. MaxCount -> Shims!Objects \cup {Shims!Closed}]
    BY <1>0, <1>4 DEF Shims!ShmUnlink
  <2> QED
    BY <1>0, <1>4, <2>1, CallTypes DEF Shims!ShmUnlink, Shims!TypeOK
<1>5. ASSUME NEW t \in Callers, Shims!Truncate(t) PROVE Shims!TypeOK'
  <2>0. UNCHANGED <<name, counter, names, made, buffers>>
    BY <1>5 DEF Shims!Truncate, Shims!memVars
  <2>1. CASE Shims!Returns(t) /\ UNCHANGED open
    <3>1. shimsHeld[t] \in Shims!Fds
      BY <1>5, LaunchAssumption
         DEF ShimsInv, Accounted, HeldWhileRunning, Shims!TypeOK, Shims!Truncate, Shims!At,
             Holding
    <3>2. shimsHeld' \in [Callers -> Shims!Fds \cup {Shims!Closed}] /\ returned' \subseteq Shims!Fds
      BY <1>0, <2>1, <3>1 DEF Shims!Returns, Shims!TypeOK
    <3>3. shimsPc' \in [Callers -> {"idle", "bump", "shm_open", "shm_unlink", "ftruncate",
                                    "exefile", "mapinfo", "pagedata"}]
      BY <1>0, <2>1, CallTypes DEF Shims!Returns
    <3> QED
      BY <1>0, <2>0, <2>1, <3>2, <3>3 DEF Shims!TypeOK
  <2>2. CASE Shims!Closes(t) /\ UNCHANGED returned
    <3>1. Shims!Goto(t, "idle")
      BY <2>2 DEF Shims!Closes
    <3> QED
      BY <1>0, <2>0, <2>2, <3>1, CallTypes, ClosesTypes DEF Shims!TypeOK
  <2> QED
    BY <1>5, <2>1, <2>2 DEF Shims!Truncate
<1>6. ASSUME NEW t \in Callers, Shims!OpenProc(t) PROVE Shims!TypeOK'
  <2>1. PICK l \in {"exefile", "mapinfo"} : Shims!Opens(t, Shims!ProcFile) /\ Shims!Goto(t, l)
    BY <1>6 DEF Shims!OpenProc
  <2>2. UNCHANGED <<name, counter, names, made, buffers, returned>>
    BY <1>6 DEF Shims!OpenProc, Shims!memVars
  <2> QED
    BY <1>0, <2>1, <2>2, CallTypes, OpensTypes DEF Shims!TypeOK
<1>7. ASSUME NEW t \in Callers, Shims!ReadExeFile(t) \/ Shims!ReadMappings(t) PROVE Shims!TypeOK'
  <2>1. /\ Shims!Closes(t) /\ Shims!Goto(t, "idle") /\ buffers' \subseteq Callers
        /\ UNCHANGED <<name, counter, names, made, returned>>
    BY <1>0, <1>7
       DEF Shims!ReadExeFile, Shims!ReadMappings, Shims!Closes, Shims!memVars
  <2> QED
    BY <1>0, <2>1, CallTypes, ClosesTypes DEF Shims!TypeOK
<1>8. ASSUME NEW t \in Callers, Shims!CountMappings(t) PROVE Shims!TypeOK'
  <2>0. UNCHANGED <<name, counter, names, made, returned>>
    BY <1>8 DEF Shims!CountMappings, Shims!memVars
  <2>1. CASE /\ buffers' = buffers \cup {t} /\ Shims!Goto(t, "pagedata")
             /\ UNCHANGED <<shimsHeld, open>>
    BY <1>0, <2>0, <2>1, CallTypes DEF Shims!TypeOK
  <2>2. CASE Shims!Closes(t) /\ UNCHANGED buffers
    <3>1. Shims!Goto(t, "idle")
      BY <2>2 DEF Shims!Closes
    <3> QED
      BY <1>0, <2>0, <2>2, <3>1, CallTypes, ClosesTypes DEF Shims!TypeOK
  <2> QED
    BY <1>8, <2>1, <2>2 DEF Shims!CountMappings
<1>9. ASSUME NEW fd \in Shims!Fds, Shims!CallerCloses(fd) PROVE Shims!TypeOK'
  <2>1. open' \in [Shims!Fds -> Shims!Stdio \cup Shims!Objects \cup
                                {Shims!Closed, Shims!ProcFile}]
    BY <1>0, <1>9 DEF Shims!CallerCloses, Shims!TypeOK
  <2> QED
    BY <1>0, <1>9, <2>1 DEF Shims!CallerCloses, Shims!memVars, Shims!TypeOK
<1>10. CASE Shims!Restart
  <2>1. open' \in [Shims!Fds -> Shims!Stdio \cup Shims!Objects \cup
                                {Shims!Closed, Shims!ProcFile}]
    BY <1>10 DEF Shims!Restart
  <2> QED
    BY <1>0, <1>10, <2>1 DEF Shims!Restart, Shims!TypeOK
<1>11. CASE UNCHANGED Shims!vars
  BY <1>0, <1>11 DEF Shims!vars, Shims!TypeOK
<1> QED
  BY <1>1, <1>2, <1>3, <1>4, <1>5, <1>6, <1>7, <1>8, <1>9, <1>10, <1>11 DEF Shims!Next

LEMMA ShimsAlways == PartsSpec => []ShimsInv
<1>1. ShimsInv /\ [Shims!Next]_(Shims!vars) => ShimsInv'
  BY ShimsAccounted, ShimsBuffers, ShimsTypesKept DEF ShimsInv
<1> QED
  BY <1>1, ShimsInit, ShimsRun, PTL DEF Shims!Spec

\* Every descriptor and buffer belongs to one running call or one caller of
\* process_qnx.cc and memory_qnx.cc, and no two calls share an object.
THEOREM DescriptorsHaveOwners == PartsSpec => []ResourcesAccountedFor
<1>1. ShimsInv => ResourcesAccountedFor
  BY DEF ShimsInv, Accounted, OneOwner, OneDescriptorEach, BuffersFreed,
         ResourcesAccountedFor, Shims!ResourcesAccountedFor, Shims!At
<1> QED
  BY <1>1, ShimsAlways, PTL

ShimsFiles == Shims!Stdio \cup Shims!Objects \cup {Shims!Closed, Shims!ProcFile}

\* One dup2 of SpawnProcess replaces its destination and nothing else.
LEMMA OneDup ==
  ASSUME NEW T \in [Shims!Fds -> ShimsFiles], NEW src \in Shims!Fds \cup {-1},
         NEW dest \in Shims!Stdio
  PROVE  /\ Shims!Dup2(T, src, dest) \in [Shims!Fds -> ShimsFiles]
         /\ src = -1 => Shims!Dup2(T, src, dest)[dest] = T[dest]
         /\ src # -1 => Shims!Dup2(T, src, dest)[dest] = T[src]
         /\ \A fd \in Shims!Fds \ {dest} : Shims!Dup2(T, src, dest)[fd] = T[fd]
<1>1. dest \in Shims!Fds
  BY LaunchAssumption DEF Shims!Fds, Shims!Stdio
<1>2. CASE src = -1
  BY <1>1, <1>2 DEF Shims!Dup2
<1>3. CASE src \in Shims!Fds
  <2>1. src >= 0 /\ src # -1
    BY <1>3, LaunchAssumption DEF Shims!Fds
  <2>2. Shims!Dup2(T, src, dest) = [T EXCEPT ![dest] = T[src]]
    BY <2>1 DEF Shims!Dup2
  <2> QED
    BY <1>1, <1>3, <2>1, <2>2
<1> QED
  BY <1>2, <1>3

LEMMA OneDupTo ==
  ASSUME NEW T \in [Shims!Fds -> ShimsFiles], NEW src \in Shims!Fds \cup {-1},
         NEW dest \in Shims!Stdio, NEW U, U = Shims!Dup2(T, src, dest)
  PROVE  /\ U \in [Shims!Fds -> ShimsFiles]
         /\ src = -1 => U[dest] = T[dest]
         /\ src # -1 => U[dest] = T[src]
         /\ \A fd \in Shims!Fds \ {dest} : U[fd] = T[fd]
  BY OneDup

\* The three dup2 of SpawnProcess give the child the files meant as its standard
\* ones, or where an earlier one has replaced the source what the child has
\* there, and the exec leaves it nothing else but files of /proc in use.
THEOREM SpawnedWithWhatWasGiven == PartsSpec => []ChildHasWhatItWasGiven
<1> USE DEF Shims!Closed
<1>1. ASSUME ShimsInv, KindsKnown PROVE Shims!ChildHasWhatItWasGiven
  <2> DEFINE Meant(src, std) == open[IF src = -1 THEN std ELSE src]
             Asked == {-1} \cup {fd \in Shims!Fds : open[fd] # Shims!Closed}
  <2> SUFFICES ASSUME NEW ask \in [Shims!Stdio -> Asked]
      PROVE  LET spawned == Shims!SpawnProcess(ask) IN
             /\ \A std \in Shims!Stdio : spawned[std] =
                  IF ask[std] \in 0 .. std - 1 THEN spawned[ask[std]] ELSE Meant(ask[std], std)
             /\ \A fd \in Shims!Fds \ Shims!Stdio : spawned[fd] # Shims!Closed =>
                  spawned[fd] = Shims!ProcFile /\ \E t \in Callers : shimsHeld[t] = fd
    BY DEF Shims!ChildHasWhatItWasGiven
  <2>1. open \in [Shims!Fds -> ShimsFiles]
    BY <1>1 DEF ShimsInv, Shims!TypeOK, ShimsFiles
  <2>2. /\ ask[0] \in Shims!Fds \cup {-1} /\ ask[1] \in Shims!Fds \cup {-1}
        /\ ask[2] \in Shims!Fds \cup {-1}
    BY DEF Shims!Stdio
  <2>3. 0 \in Shims!Stdio /\ 1 \in Shims!Stdio /\ 2 \in Shims!Stdio
    BY DEF Shims!Stdio
  <2> DEFINE T1 == Shims!Dup2(open, ask[0], 0)
             T2 == Shims!Dup2(T1, ask[1], 1)
             T3 == Shims!Dup2(T2, ask[2], 2)
             spawned == Shims!SpawnProcess(ask)
  <2> HIDE DEF T1, T2, T3, spawned
  <2>4. /\ T1 \in [Shims!Fds -> ShimsFiles]
        /\ (ask[0] = -1 => T1[0] = open[0]) /\ (ask[0] # -1 => T1[0] = open[ask[0]])
        /\ \A fd \in Shims!Fds \ {0} : T1[fd] = open[fd]
    BY <2>3, <2>1, <2>2, OneDupTo DEF T1
  <2>5. /\ T2 \in [Shims!Fds -> ShimsFiles]
        /\ (ask[1] = -1 => T2[1] = T1[1]) /\ (ask[1] # -1 => T2[1] = T1[ask[1]])
        /\ \A fd \in Shims!Fds \ {1} : T2[fd] = T1[fd]
    BY <2>3, <2>2, <2>4, OneDupTo DEF T2
  <2>6. /\ (ask[2] = -1 => T3[2] = T2[2]) /\ (ask[2] # -1 => T3[2] = T2[ask[2]])
        /\ \A fd \in Shims!Fds \ {2} : T3[fd] = T2[fd]
    BY <2>3, <2>2, <2>5, OneDupTo DEF T3
  <2>7. \A fd \in Shims!Fds : spawned[fd] =
          IF fd \notin Shims!Stdio /\ open[fd] \in Shims!Objects THEN Shims!Closed ELSE T3[fd]
    BY DEF Shims!SpawnProcess, T1, T2, T3, spawned
  <2>8. 0 \in Shims!Fds /\ 1 \in Shims!Fds /\ 2 \in Shims!Fds
    BY LaunchAssumption DEF Shims!Fds
  <2>9. spawned[0] = T1[0] /\ spawned[1] = T2[1] /\ spawned[2] = T3[2]
        /\ T2[0] = T1[0]
    BY <2>3, <2>5, <2>6, <2>7, <2>8
  <2>10. spawned[0] = Meant(ask[0], 0)
    BY <2>2, <2>4, <2>8, <2>9
  <2>11. spawned[1] = IF ask[1] = 0 THEN spawned[0] ELSE Meant(ask[1], 1)
    BY <2>2, <2>4, <2>5, <2>8, <2>9
  <2>12. spawned[2] = IF ask[2] \in {0, 1} THEN spawned[ask[2]] ELSE Meant(ask[2], 2)
    <3>1. \A fd \in Shims!Fds \ {0, 1} : T2[fd] = open[fd]
      BY <2>4, <2>5
    <3>2. CASE ask[2] = -1
      BY <2>6, <2>8, <2>9, <3>1, <3>2
    <3>3. CASE ask[2] \in {0, 1}
      BY <2>6, <2>9, <3>3
    <3>4. CASE ask[2] \in Shims!Fds \ {0, 1}
      BY <2>6, <2>9, <3>1, <3>4, LaunchAssumption DEF Shims!Fds
    <3> QED
      BY <2>2, <3>2, <3>3, <3>4
  <2> HIDE DEF Meant
  <2>13. \A std \in Shims!Stdio : spawned[std] =
           IF ask[std] \in 0 .. std - 1 THEN spawned[ask[std]] ELSE Meant(ask[std], std)
    <3>1. \A std \in Shims!Stdio : std = 0 \/ std = 1 \/ std = 2
      BY DEF Shims!Stdio
    <3>2. /\ \A n : n \in 0 .. 1 - 1 <=> n = 0
          /\ \A n : n \in 0 .. 2 - 1 <=> n \in {0, 1}
          /\ \A n : n \notin 0 .. 0 - 1
      OBVIOUS
    <3> QED
      BY <2>10, <2>11, <2>12, <3>1, <3>2
  <2>14. ASSUME NEW fd \in Shims!Fds \ Shims!Stdio, spawned[fd] # Shims!Closed
         PROVE  spawned[fd] = Shims!ProcFile /\ \E t \in Callers : shimsHeld[t] = fd
    <3>1. fd \notin {0, 1, 2}
      BY DEF Shims!Stdio
    <3>2. spawned[fd] = open[fd] /\ open[fd] \notin Shims!Objects
      BY <2>4, <2>5, <2>6, <2>7, <2>14, <3>1
    <3>3. fd \notin returned
      BY <1>1, <3>2 DEF KindsKnown
    <3>4. PICK t \in Callers : shimsHeld[t] = fd
      BY <1>1, <2>14, <3>2, <3>3 DEF ShimsInv, Accounted, OneOwner
    <3>5. shimsPc[t] \in Holding
      BY <1>1, <3>4, LaunchAssumption DEF ShimsInv, Accounted, HeldWhileRunning, Shims!Fds
    <3> QED
      BY <1>1, <3>2, <3>4, <3>5 DEF KindsKnown
  <2> QED
    BY <2>13, <2>14 DEF spawned
<1>2. ShimsInv /\ KindsKnown => ChildHasWhatItWasGiven
  BY <1>1 DEF ChildHasWhatItWasGiven
<1>3. Shims!Init => KindsKnown
  BY DEF Shims!Init, KindsKnown, Holding
<1>4. ShimsInv /\ KindsKnown /\ [Shims!Next]_(Shims!vars) => KindsKnown'
  BY ShimsKinds
<1> QED
  BY <1>2, <1>3, <1>4, ShimsAlways, ShimsRun, PTL DEF Shims!Spec
-----------------------------------------------------------------------------
(* EventfdEmul: sums of the writes in a pipe.                              *)

Before == OpToRel(<, Nat)

LEMMA Minimum ==
  ASSUME NEW S, S \subseteq Nat, S # {}
  PROVE  \E m \in S : \A n \in S : m <= n
<1>1. IsWellFoundedOn(Before, Nat)
  BY NatLessThanWellFounded DEF Before
<1>2. \A m, n \in Nat : <<m, n>> \in Before <=> m < n
  BY DEF Before, OpToRel
<1>3. \E m \in S : \A n \in S : ~(<<n, m>> \in Before)
  BY <1>1, WFMin
<1>4. PICK m \in S : \A n \in S : ~(<<n, m>> \in Before)
  BY <1>3
<1>5. ASSUME NEW n \in S PROVE m <= n
  <2>1. ~(n < m)
    BY <1>2, <1>4
  <2> QED
    BY <2>1
<1> QED
  BY <1>5

\* Induction, over the numbers for which what is proved holds.
LEMMA Induction ==
  ASSUME NEW S, 0 \in S, \A n \in Nat : n \in S => n + 1 \in S
  PROVE  Nat \subseteq S
<1> SUFFICES ASSUME Nat \ S # {} PROVE FALSE
  OBVIOUS
<1>1. PICK m \in Nat \ S : \A n \in Nat \ S : m <= n
  BY Minimum
<1>2. m # 0 /\ m - 1 \in Nat
  BY <1>1
<1>3. m - 1 \in S
  BY <1>1, <1>2
<1>4. (m - 1) + 1 \in S
  BY <1>2, <1>3
<1> QED
  BY <1>1, <1>2, <1>4

\* The sums of the beginnings of q.
Sums(q, s) ==
  /\ s \in [0 .. Len(q) -> Nat] /\ s[0] = 0
  /\ \A n \in 1 .. Len(q) : s[n] = s[n - 1] + q[n]

LEMMA SumsExist == ASSUME NEW q \in Seq(Nat) PROVE \E s : Sums(q, s)
<1> DEFINE Upto(m, s) == /\ s \in [0 .. m -> Nat] /\ s[0] = 0
                         /\ \A n \in 1 .. m : s[n] = s[n - 1] + q[n]
           S == {m \in Nat : m <= Len(q) => \E s : Upto(m, s)}
<1>0. Len(q) \in Nat /\ \A n \in 1 .. Len(q) : q[n] \in Nat
  OBVIOUS
<1>1. 0 \in S
  <2> DEFINE zero == [n \in 0 .. 0 |-> 0]
  <2>1. zero \in [0 .. 0 -> Nat] /\ zero[0] = 0 /\ 1 .. 0 = {}
    OBVIOUS
  <2> HIDE DEF zero
  <2>2. Upto(0, zero)
    BY <2>1
  <2> HIDE DEF Upto
  <2> QED
    BY <2>2
<1>2. ASSUME NEW m \in Nat, m \in S PROVE m + 1 \in S
  <2> HIDE DEF Upto
  <2> SUFFICES ASSUME m + 1 <= Len(q) PROVE \E s : Upto(m + 1, s)
    OBVIOUS
  <2>1. m <= Len(q) /\ m + 1 \in 1 .. Len(q)
    BY <1>0
  <2>2. PICK s : Upto(m, s)
    BY <1>2, <2>1
  <2>3. q[m + 1] \in Nat /\ m \in 0 .. m /\ s \in [0 .. m -> Nat]
    BY <1>0, <2>1, <2>2 DEF Upto
  <2> DEFINE r == [n \in 0 .. m + 1 |-> IF n <= m THEN s[n] ELSE s[m] + q[m + 1]]
  <2>4. r \in [0 .. m + 1 -> Nat]
    <3>1. s[m] + q[m + 1] \in Nat
      BY <2>3
    <3>2. \A n \in 0 .. m + 1 : n <= m => s[n] \in Nat
      BY <2>3
    <3> QED
      BY <3>1, <3>2
  <2>5. \A n \in 0 .. m : r[n] = s[n]
    OBVIOUS
  <2>6. r[m + 1] = s[m] + q[m + 1]
    OBVIOUS
  <2> HIDE DEF r
  <2>7. r[0] = 0
    BY <2>2, <2>5 DEF Upto
  <2>8. ASSUME NEW n \in 1 .. m + 1 PROVE r[n] = r[n - 1] + q[n]
    <3>1. CASE n = m + 1
      <4>1. n - 1 = m /\ r[m] = s[m]
        BY <2>3, <2>5, <3>1
      <4> QED
        BY <2>6, <3>1, <4>1
    <3>2. CASE n \in 1 .. m
      <4>1. n - 1 \in 0 .. m /\ n \in 0 .. m
        BY <3>2
      <4> QED
        BY <2>2, <2>5, <3>2, <4>1 DEF Upto
    <3> QED
      BY <3>1, <3>2
  <2>9. Upto(m + 1, r)
    BY <2>4, <2>7, <2>8 DEF Upto
  <2> QED
    BY <2>9
<1>3. Nat \subseteq S
  <2> HIDE DEF S
  <2> QED
    BY <1>1, <1>2, Induction
<1>4. \E s : Upto(Len(q), s)
  <2> HIDE DEF Upto
  <2> QED
    BY <1>0, <1>3
<1> QED
  BY <1>4 DEF Sums

LEMMA TotalIsTheSum ==
  ASSUME NEW q \in Seq(Nat)
  PROVE  \E s : Sums(q, s) /\ Efd!Total(q) = s[Len(q)]
<1> DEFINE IsSum(s) == s = [n \in 0 .. Len(q) |-> IF n = 0 THEN 0 ELSE s[n - 1] + q[n]]
           sum == CHOOSE s : IsSum(s)
<1>0. Len(q) \in Nat
  OBVIOUS
<1>1. \E s : IsSum(s)
  <2>1. PICK s : Sums(q, s)
    BY SumsExist
  <2>2. s = [n \in 0 .. Len(q) |-> s[n]]
    BY <2>1 DEF Sums
  <2>3. \A n \in 0 .. Len(q) : s[n] = IF n = 0 THEN 0 ELSE s[n - 1] + q[n]
    BY <1>0, <2>1 DEF Sums
  <2>4. IsSum(s)
    BY <2>2, <2>3
  <2> QED
    BY <2>4
<1>2. IsSum(sum)
  BY <1>1
<1>3. Efd!Total(q) = sum[Len(q)]
  BY DEF Efd!Total
<1> HIDE DEF sum
<1>4. /\ \A n \in 0 .. Len(q) : sum[n] = IF n = 0 THEN 0 ELSE sum[n - 1] + q[n]
      /\ sum = [n \in 0 .. Len(q) |-> sum[n]]
  BY <1>2
<1>5. /\ sum[0] = 0
      /\ \A n \in 1 .. Len(q) : sum[n] = sum[n - 1] + q[n]
  BY <1>0, <1>4
<1>6. \A n \in 0 .. Len(q) : sum[n] \in Nat
  <2> DEFINE S == {n \in Nat : n <= Len(q) => sum[n] \in Nat}
  <2>1. 0 \in S
    BY <1>5
  <2>2. ASSUME NEW n \in Nat, n \in S PROVE n + 1 \in S
    <3> SUFFICES ASSUME n + 1 <= Len(q) PROVE sum[n + 1] \in Nat
      OBVIOUS
    <3>1. n + 1 \in 1 .. Len(q) /\ (n + 1) - 1 = n /\ sum[n] \in Nat /\ q[n + 1] \in Nat
      BY <1>0, <2>2
    <3> QED
      BY <1>5, <3>1
  <2>3. Nat \subseteq S
    <3> HIDE DEF S
    <3> QED
      BY <2>1, <2>2, Induction
  <2> QED
    BY <1>0, <2>3
<1>7. Sums(q, sum)
  BY <1>4, <1>5, <1>6 DEF Sums
<1> QED
  BY <1>3, <1>7

\* What the operations of a pipe do to the sum of its writes.
LEMMA TotalOfNone == Efd!Total(<<>>) = 0
<1>1. <<>> \in Seq(Nat) /\ Len(<<>>) = 0
  OBVIOUS
<1> QED
  BY <1>1, TotalIsTheSum DEF Sums

LEMMA TotalOfOne == ASSUME NEW v \in Nat PROVE Efd!Total(<<v>>) = v
<1>1. <<v>> \in Seq(Nat) /\ Len(<<v>>) = 1 /\ <<v>>[1] = v
  OBVIOUS
<1>2. PICK s : Sums(<<v>>, s) /\ Efd!Total(<<v>>) = s[1]
  BY <1>1, TotalIsTheSum
<1>3. s[0] = 0 /\ s[1] = s[1 - 1] + <<v>>[1]
  BY <1>1, <1>2 DEF Sums
<1> QED
  BY <1>1, <1>2, <1>3

LEMMA TotalIsNat ==
  ASSUME NEW q \in Seq(Nat)
  PROVE  Efd!Total(q) \in Nat
<1>1. Len(q) \in 0 .. Len(q)
  OBVIOUS
<1> QED
  BY <1>1, TotalIsTheSum DEF Sums

LEMMA TotalOfAppend ==
  ASSUME NEW q \in Seq(Nat), NEW v \in Nat
  PROVE  Efd!Total(Append(q, v)) = Efd!Total(q) + v
<1> DEFINE p == Append(q, v)  k == Len(q)
<1>1. /\ p \in Seq(Nat) /\ Len(p) = k + 1 /\ p[k + 1] = v /\ k \in Nat
      /\ \A n \in 1 .. k : p[n] = q[n]
  BY AppendProperties
<1> HIDE DEF p
<1>2. PICK s : Sums(q, s) /\ Efd!Total(q) = s[k]
  BY TotalIsTheSum
<1>3. PICK r : Sums(p, r) /\ Efd!Total(p) = r[k + 1]
  BY <1>1, TotalIsTheSum
<1> HIDE DEF k
<1> DEFINE S == {n \in Nat : n <= k => r[n] = s[n]}
<1>4. /\ s[0] = 0 /\ \A n \in 1 .. k : s[n] = s[n - 1] + q[n]
      /\ r[0] = 0 /\ \A n \in 1 .. k + 1 : r[n] = r[n - 1] + p[n]
  BY <1>1, <1>2, <1>3 DEF Sums, k
<1>5. 0 \in S
  BY <1>4
<1>6. ASSUME NEW n \in Nat, n \in S PROVE n + 1 \in S
  <2> SUFFICES ASSUME n + 1 <= k PROVE r[n + 1] = s[n + 1]
    OBVIOUS
  <2>1. n + 1 \in 1 .. k /\ n + 1 \in 1 .. k + 1 /\ (n + 1) - 1 = n /\ n <= k
    BY <1>1
  <2>2. r[n] = s[n]
    BY <1>6, <2>1
  <2>3. r[n + 1] = r[n] + p[n + 1] /\ s[n + 1] = s[n] + q[n + 1]
    BY <1>4, <2>1
  <2> QED
    BY <1>1, <2>1, <2>2, <2>3
<1>7. Nat \subseteq S
  <2> HIDE DEF S
  <2> QED
    BY <1>5, <1>6, Induction
<1>8. r[k] = s[k]
  <2>1. k \in S
    BY <1>1, <1>7
  <2> QED
    BY <1>1, <2>1
<1>9. r[k + 1] = r[k] + v
  <2>1. k + 1 \in 1 .. k + 1 /\ (k + 1) - 1 = k
    BY <1>1
  <2> QED
    BY <1>1, <1>4, <2>1
<1> QED
  BY <1>2, <1>3, <1>8, <1>9 DEF p

LEMMA TotalOfTail ==
  ASSUME NEW q \in Seq(Nat), q # <<>>
  PROVE  Efd!Total(q) = Head(q) + Efd!Total(Tail(q))
<1> DEFINE p == Tail(q)  k == Len(p)
<1>1. /\ p \in Seq(Nat) /\ Len(q) = k + 1 /\ k \in Nat /\ Head(q) = q[1]
      /\ \A n \in 1 .. k : p[n] = q[n + 1]
      /\ q[1] \in Nat /\ \A n \in 1 .. k : p[n] \in Nat
  <2>1. p \in Seq(Nat) /\ Len(p) = Len(q) - 1 /\ \A n \in 1 .. Len(p) : p[n] = q[n + 1]
    BY HeadTailProperties
  <2>2. Len(q) \in Nat /\ Len(q) # 0 /\ Head(q) = q[1]
    BY EmptySeq, LenProperties
  <2>3. q[1] \in Nat
    BY <2>2
  <2> HIDE DEF p
  <2>4. k \in Nat /\ Len(q) = k + 1 /\ \A n \in 1 .. k : p[n] \in Nat
    BY <2>1, <2>2
  <2> QED
    BY <2>1, <2>2, <2>3, <2>4
<1> HIDE DEF p
<1>2. PICK s : Sums(q, s) /\ Efd!Total(q) = s[k + 1]
  BY <1>1, TotalIsTheSum
<1>3. PICK r : Sums(p, r) /\ Efd!Total(p) = r[k]
  BY <1>1, TotalIsTheSum
<1>4. /\ s[0] = 0 /\ \A n \in 1 .. k + 1 : s[n] = s[n - 1] + q[n]
      /\ r[0] = 0 /\ \A n \in 1 .. k : r[n] = r[n - 1] + p[n]
      /\ \A n \in 0 .. k : r[n] \in Nat
  BY <1>1, <1>2, <1>3 DEF Sums, k
<1> HIDE DEF k
<1> DEFINE S == {n \in Nat : n <= k => s[n + 1] = q[1] + r[n]}
<1>5. 0 \in S
  <2>1. 1 \in 1 .. k + 1
    BY <1>1
  <2>2. s[1] = s[1 - 1] + q[1]
    BY <1>4, <2>1
  <2> QED
    BY <1>1, <1>4, <2>2
<1>6. ASSUME NEW n \in Nat, n \in S PROVE n + 1 \in S
  <2> SUFFICES ASSUME n + 1 <= k PROVE s[(n + 1) + 1] = q[1] + r[n + 1]
    OBVIOUS
  <2>1. /\ n + 1 \in 1 .. k /\ (n + 1) + 1 \in 1 .. k + 1 /\ n <= k /\ n \in 0 .. k
        /\ (n + 1) - 1 = n /\ ((n + 1) + 1) - 1 = n + 1
    BY <1>1
  <2>2. s[n + 1] = q[1] + r[n]
    BY <1>6, <2>1
  <2>3. r[n + 1] = r[n] + p[n + 1] /\ s[(n + 1) + 1] = s[n + 1] + q[(n + 1) + 1]
    BY <1>4, <2>1
  <2>4. q[(n + 1) + 1] = p[n + 1] /\ p[n + 1] \in Nat /\ r[n] \in Nat
    BY <1>1, <1>4, <2>1
  <2> QED
    BY <1>1, <2>2, <2>3, <2>4
<1>7. Nat \subseteq S
  <2> HIDE DEF S
  <2> QED
    BY <1>5, <1>6, Induction
<1>8. s[k + 1] = q[1] + r[k]
  BY <1>1, <1>7
<1> QED
  BY <1>1, <1>2, <1>3, <1>8 DEF p

\* Each write counts for one at least.
LEMMA TotalGrows ==
  ASSUME NEW q \in Seq(Nat), \A n \in 1 .. Len(q) : q[n] >= 1
  PROVE  Efd!Total(q) >= Len(q)
<1> DEFINE k == Len(q)
<1>1. PICK s : Sums(q, s) /\ Efd!Total(q) = s[k]
  BY TotalIsTheSum
<1>2. k \in Nat /\ \A n \in 1 .. k : q[n] \in Nat /\ q[n] >= 1
  OBVIOUS
<1> HIDE DEF k
<1>3. s \in [0 .. k -> Nat] /\ s[0] = 0 /\ \A n \in 1 .. k : s[n] = s[n - 1] + q[n]
  BY <1>1, Zenon DEF Sums, k
<1> DEFINE S == {n \in Nat : n <= k => s[n] >= n}
<1>4. 0 \in S
  BY <1>3
<1>5. ASSUME NEW n \in Nat, n \in S PROVE n + 1 \in S
  <2> SUFFICES ASSUME n + 1 <= k PROVE s[n + 1] >= n + 1
    OBVIOUS
  <2>1. n + 1 \in 1 .. k /\ n \in 0 .. k /\ (n + 1) - 1 = n /\ n <= k
    BY <1>2
  <2>2. s[n] >= n
    BY <1>5, <2>1
  <2>3. s[n + 1] = s[n] + q[n + 1] /\ q[n + 1] >= 1 /\ q[n + 1] \in Nat /\ s[n] \in Nat
    BY <1>2, <1>3, <2>1
  <2> QED
    BY <2>2, <2>3
<1>6. Nat \subseteq S
  <2> HIDE DEF S
  <2> QED
    BY <1>4, <1>5, Induction
<1>7. s[k] >= k
  BY <1>2, <1>6
<1> QED
  BY <1>1, <1>7 DEF k
-----------------------------------------------------------------------------
(* EventfdEmul: what is known of the descriptors.                          *)

\* A read end has a write end of its own.
EfdWired == \A f \in Efd!Fds : kind[f] = "read" =>
  /\ pipe[f] \in Efd!Fds /\ kind[pipe[f]] = "write"
  /\ \A g \in Efd!Fds : kind[g] = "read" /\ pipe[g] = pipe[f] => g = f

\* Whatever a unit's table has for a descriptor, it leads to no other one.
\* Descriptor 0, which a table starts with, is never a write end.
EfdTables ==
  /\ 0 \in Efd!Fds => kind[0] # "write"
  /\ \A u \in Units, s \in Efd!Slots, w \in Efd!Fds \ {0} : efdTable[u][s] = w =>
       /\ kind[w] = "write"
       /\ \A f \in Efd!Fds : kind[f] = "read" /\ pipe[f] = w => f = s

\* A unit that has made an eventfd has its table filled, and, if its fill was not
\* raced, has the write end there.
EfdKept == \A f \in Efd!Fds : kind[f] = "read" =>
  /\ filled[maker[f]]
  /\ maker[f] \notin unitsRaced =>
       ~ Efd!Filling(maker[f]) /\ (f < TableSize => efdTable[maker[f]][f] = pipe[f])

EfdInv == Efd!TypeOK /\ EfdWired /\ EfdTables /\ EfdKept

LEMMA LowestIsOne ==
  ASSUME NEW F, F \subseteq Efd!Fds, F # {}
  PROVE  Efd!Lowest(F) \in F /\ \A g \in F : Efd!Lowest(F) <= g
<1>1. F \subseteq Nat
  BY EfdAssumption DEF Efd!Fds
<1>2. \E f \in F : \A g \in F : f <= g
  BY <1>1, Minimum
<1> QED
  BY <1>2 DEF Efd!Lowest

\* pipe() takes two descriptors that were free, the read end before the write end.
LEMMA EnoughFree ==
  ASSUME \E f, g \in Efd!Free : f # g
  PROVE  LET r == Efd!Lowest(Efd!Free)
             w == Efd!Lowest(Efd!Free \ {r}) IN
         /\ r \in Efd!Fds /\ w \in Efd!Fds /\ r # w /\ w # 0
         /\ kind[r] = "free" /\ kind[w] = "free"
<1> DEFINE r == Efd!Lowest(Efd!Free)  w == Efd!Lowest(Efd!Free \ {r})
<1>1. Efd!Free \subseteq Efd!Fds
  BY DEF Efd!Free
<1>2. r \in Efd!Free /\ \A g \in Efd!Free : r <= g
  BY <1>1, LowestIsOne
<1>3. w \in Efd!Free \ {r}
  <2> HIDE DEF r
  <2> QED
    BY <1>1, LowestIsOne
<1>4. w # 0
  <2>1. r \in Nat /\ w \in Nat /\ r <= w /\ r # w
    <3>1. Efd!Free \subseteq Nat
      BY <1>1, EfdAssumption DEF Efd!Fds
    <3> HIDE DEF r, w
    <3> QED
      BY <1>2, <1>3, <3>1
  <2> HIDE DEF r, w
  <2> QED
    BY <2>1
<1> QED
  BY <1>2, <1>3, <1>4 DEF Efd!Free

LEMMA EfdStart == Efd!Init => EfdInv
<1> SUFFICES ASSUME Efd!Init PROVE EfdInv
  OBVIOUS
<1>1. (CHOOSE u \in Units : TRUE) \in Units
  BY EfdAssumption
<1>2. <<>> \in Seq(1 .. MaxValue) /\ Len(<<>>) = 0
  OBVIOUS
<1>3. queue \in [Efd!Fds -> Seq(1 .. MaxValue)] /\ \A f \in Efd!Fds : Len(queue[f]) <= Capacity
  BY <1>2, EfdAssumption DEF Efd!Init
<1>4. /\ efdTable \in [Units -> [Efd!Slots -> Efd!Fds \cup {-1, 0}]]
      /\ \A u \in Units, s \in Efd!Slots : efdTable[u][s] = 0
  BY DEF Efd!Init
<1>5. maker \in [Efd!Fds -> Units]
  BY <1>1 DEF Efd!Init
<1>6. /\ filled \in [Units -> BOOLEAN] /\ unitsRaced \subseteq Units
      /\ stores \in [Callers -> SUBSET (Units \X (Efd!Slots \cup {Efd!Flag}))]
  BY DEF Efd!Init
<1>7. kind \in [Efd!Fds -> {"free", "other", "read", "write"}] /\ \A f \in Efd!Fds : kind[f] = "free"
  BY DEF Efd!Init
<1>8. pipe \in [Efd!Fds -> Efd!Fds \cup {-1}]
  BY DEF Efd!Init
<1>9. Efd!TypeOK
  BY <1>3, <1>4, <1>5, <1>6, <1>7, <1>8 DEF Efd!TypeOK
<1>10. EfdTables
  BY <1>4, <1>7 DEF EfdTables
<1> QED
  BY <1>7, <1>9, <1>10 DEF EfdInv, EfdWired, EfdKept

\* A thread begins to fill a table that no eventfd has come from yet.
LEMMA FindUnfilledKeeps ==
  ASSUME EfdInv, NEW t \in Callers, NEW u \in Units, Efd!FindUnfilled(t, u)
  PROVE  EfdInv'
<1>1. /\ ~ filled[u] /\ stores[t] = {}
      /\ stores' = [stores EXCEPT ![t] = {u} \X (Efd!Slots \cup {Efd!Flag})]
      /\ unitsRaced' \in {unitsRaced, unitsRaced \cup {u}}
      /\ UNCHANGED <<kind, pipe, queue, maker, efdTable, filled, last>>
  BY DEF Efd!FindUnfilled, Efd!Raced
<1>2. stores \in [Callers -> SUBSET (Units \X (Efd!Slots \cup {Efd!Flag}))] /\ unitsRaced \subseteq Units
  BY DEF EfdInv, Efd!TypeOK
<1>3. stores' \in [Callers -> SUBSET (Units \X (Efd!Slots \cup {Efd!Flag}))] /\ unitsRaced' \subseteq Units
  BY <1>1, <1>2
<1>4. ASSUME NEW x \in Units \ {u}, Efd!Filling(x)' PROVE Efd!Filling(x)
  BY <1>1, <1>2, <1>4 DEF Efd!Filling
<1>5. \A f \in Efd!Fds : kind[f] = "read" => maker[f] \in Units \ {u}
  BY <1>1 DEF EfdInv, EfdKept, Efd!TypeOK
<1>6. EfdKept'
  BY <1>1, <1>4, <1>5 DEF EfdInv, EfdKept
<1> QED
  BY <1>1, <1>3, <1>6 DEF EfdInv, Efd!TypeOK, EfdWired, EfdTables

\* One store of a fill: entries are lost only to a unit whose fill was raced.
LEMMA FillKeeps ==
  ASSUME EfdInv, NEW t \in Callers, NEW u \in Units, NEW s \in Efd!Slots \cup {Efd!Flag},
         Efd!Fill(t, u, s)
  PROVE  EfdInv'
<1>1. /\ <<u, s>> \in stores[t]
      /\ stores' = [stores EXCEPT ![t] = stores[t] \ {<<u, s>>}]
      /\ UNCHANGED <<kind, pipe, queue, maker, unitsRaced, last>>
      /\ \/ filled' = [filled EXCEPT ![u] = TRUE] /\ UNCHANGED efdTable
         \/ s \in Efd!Slots /\ efdTable' = [efdTable EXCEPT ![u][s] = -1] /\ UNCHANGED filled
  BY DEF Efd!Fill
<1>2. /\ stores \in [Callers -> SUBSET (Units \X (Efd!Slots \cup {Efd!Flag}))]
      /\ filled \in [Units -> BOOLEAN]
      /\ efdTable \in [Units -> [Efd!Slots -> Efd!Fds \cup {-1, 0}]]
  BY DEF EfdInv, Efd!TypeOK
<1>3. /\ stores' \in [Callers -> SUBSET (Units \X (Efd!Slots \cup {Efd!Flag}))]
      /\ filled' \in [Units -> BOOLEAN]
      /\ efdTable' \in [Units -> [Efd!Slots -> Efd!Fds \cup {-1, 0}]]
  <2>1. stores' \in [Callers -> SUBSET (Units \X (Efd!Slots \cup {Efd!Flag}))]
    BY <1>1, <1>2
  <2>2. filled' \in [Units -> BOOLEAN]
    BY <1>1, <1>2
  <2>3. efdTable' \in [Units -> [Efd!Slots -> Efd!Fds \cup {-1, 0}]]
    BY <1>1, <1>2
  <2> QED
    BY <2>1, <2>2, <2>3
<1>4. /\ \A x \in Units : filled[x] => filled'[x]
      /\ \A x \in Units, i \in Efd!Slots :
           efdTable'[x][i] = efdTable[x][i] \/ (x = u /\ efdTable'[x][i] = -1)
  BY <1>1, <1>2
<1>5. Efd!Filling(u)
  BY <1>1 DEF Efd!Filling
<1>7. EfdKept'
  <2> SUFFICES ASSUME NEW f \in Efd!Fds, kind[f] = "read"
      PROVE  /\ filled'[maker[f]]
             /\ maker[f] \notin unitsRaced => /\ ~ Efd!Filling(maker[f])'
                                              /\ f < TableSize => efdTable'[maker[f]][f] = pipe[f]
    BY <1>1 DEF EfdKept
  <2>1. maker[f] \in Units /\ filled'[maker[f]]
    BY <1>4 DEF EfdInv, EfdKept, Efd!TypeOK
  <2>2. ASSUME maker[f] \notin unitsRaced
        PROVE  ~ Efd!Filling(maker[f])' /\ (f < TableSize => efdTable'[maker[f]][f] = pipe[f])
    <3>1. ~ Efd!Filling(maker[f]) /\ (f < TableSize => efdTable[maker[f]][f] = pipe[f])
      BY <2>2 DEF EfdInv, EfdKept
    <3>2. maker[f] # u
      BY <1>5, <3>1
    <3>3. f < TableSize => f \in Efd!Slots
      BY EfdAssumption DEF Efd!Slots, Efd!Fds
    <3>4. ~ Efd!Filling(maker[f])'
      BY <1>1, <1>2, <3>1 DEF Efd!Filling
    <3>5. f < TableSize => efdTable'[maker[f]][f] = pipe[f]
      BY <1>4, <2>1, <3>1, <3>2, <3>3
    <3> QED
      BY <3>4, <3>5
  <2> QED
    BY <2>1, <2>2
<1>8. EfdTables'
  <2>1. -1 \notin Efd!Fds
    BY EfdAssumption DEF Efd!Fds
  <2> QED
    BY <1>1, <1>4, <2>1 DEF EfdInv, EfdTables
<1> QED
  BY <1>1, <1>3, <1>7, <1>8 DEF EfdInv, Efd!TypeOK, EfdWired

LEMMA EventfdKeeps ==
  ASSUME EfdInv, NEW u \in Units, NEW v \in 0 .. MaxValue, Efd!eventfd(u, v)
  PROVE  EfdInv'
<1> DEFINE r == Efd!Lowest(Efd!Free)  w == Efd!Lowest(Efd!Free \ {r})
           contents == IF v > 0 THEN <<v>> ELSE <<>>
<1>1. /\ r \in Efd!Fds /\ w \in Efd!Fds /\ r # w /\ w # 0 /\ kind[r] = "free" /\ kind[w] = "free"
  <2>1. \E f, g \in Efd!Free : f # g
    BY DEF Efd!eventfd
  <2> QED
    BY <2>1, EnoughFree
<1>2. /\ kind' = [kind EXCEPT ![r] = "read", ![w] = "write"]
      /\ pipe' = [pipe EXCEPT ![r] = w]
      /\ queue' = [queue EXCEPT ![w] = contents]
      /\ maker' = [maker EXCEPT ![r] = u]
      /\ efdTable' = IF r < TableSize THEN [efdTable EXCEPT ![u][r] = w] ELSE efdTable
      /\ filled[u] /\ UNCHANGED <<filled, stores>>
      /\ unitsRaced' = IF Efd!Filling(u) THEN unitsRaced \cup {u} ELSE unitsRaced
  BY DEF Efd!eventfd, Efd!Raced
<1>3. contents \in Seq(1 .. MaxValue) /\ Len(contents) <= Capacity
  <2>1. CASE v > 0
    <3>1. v \in 1 .. MaxValue
      BY <2>1, EfdAssumption
    <3>2. <<v>> \in Seq(1 .. MaxValue) /\ Len(<<v>>) = 1
      BY <3>1
    <3> QED
      BY <2>1, <3>2, EfdAssumption
  <2>2. CASE ~(v > 0)
    BY <2>2, EfdAssumption
  <2> QED
    BY <2>1, <2>2
<1> HIDE DEF r, w, contents
<1>4. /\ kind \in [Efd!Fds -> {"free", "other", "read", "write"}]
      /\ pipe \in [Efd!Fds -> Efd!Fds \cup {-1}]
      /\ queue \in [Efd!Fds -> Seq(1 .. MaxValue)] /\ \A f \in Efd!Fds : Len(queue[f]) <= Capacity
      /\ maker \in [Efd!Fds -> Units]
      /\ efdTable \in [Units -> [Efd!Slots -> Efd!Fds \cup {-1, 0}]]
      /\ filled \in [Units -> BOOLEAN] /\ unitsRaced \subseteq Units
      /\ stores \in [Callers -> SUBSET (Units \X (Efd!Slots \cup {Efd!Flag}))]
  BY DEF EfdInv, Efd!TypeOK
<1>5. /\ kind'[r] = "read" /\ kind'[w] = "write" /\ pipe'[r] = w /\ maker'[r] = u
      /\ \A f \in Efd!Fds \ {r, w} : kind'[f] = kind[f]
      /\ \A f \in Efd!Fds \ {r} : pipe'[f] = pipe[f] /\ maker'[f] = maker[f]
  BY <1>1, <1>2, <1>4
<1>6. queue' \in [Efd!Fds -> Seq(1 .. MaxValue)] /\ \A f \in Efd!Fds : Len(queue'[f]) <= Capacity
  BY <1>1, <1>2, <1>3, <1>4
<1>7. r < TableSize => r \in Efd!Slots
  BY <1>1, EfdAssumption DEF Efd!Fds, Efd!Slots
<1>8. efdTable' \in [Units -> [Efd!Slots -> Efd!Fds \cup {-1, 0}]]
  BY <1>1, <1>2, <1>4, <1>7
<1>9. /\ r < TableSize => efdTable'[u][r] = w
      /\ \A x \in Units, i \in Efd!Slots :
           efdTable'[x][i] = efdTable[x][i] \/ (x = u /\ i = r /\ efdTable'[x][i] = w)
  <2>1. CASE r < TableSize
    BY <1>1, <1>2, <1>4, <1>7, <2>1
  <2>2. CASE ~(r < TableSize)
    BY <1>2, <2>2
  <2> QED
    BY <2>1, <2>2
<1>10. /\ kind' \in [Efd!Fds -> {"free", "other", "read", "write"}]
       /\ pipe' \in [Efd!Fds -> Efd!Fds \cup {-1}] /\ maker' \in [Efd!Fds -> Units]
       /\ unitsRaced' \subseteq Units
  BY <1>1, <1>2, <1>4
<1>11. \A g \in Efd!Fds \ {r} : kind'[g] = "read" =>
         /\ kind[g] = "read" /\ pipe[g] \in Efd!Fds /\ kind[pipe[g]] = "write"
         /\ pipe'[g] = pipe[g] /\ pipe[g] \notin {r, w} /\ maker'[g] = maker[g]
  BY <1>1, <1>5 DEF EfdInv, EfdWired
<1>12. EfdWired'
  <2> SUFFICES ASSUME NEW f \in Efd!Fds, kind'[f] = "read"
      PROVE  /\ pipe'[f] \in Efd!Fds /\ kind'[pipe'[f]] = "write"
             /\ \A g \in Efd!Fds : kind'[g] = "read" /\ pipe'[g] = pipe'[f] => g = f
    BY DEF EfdWired
  <2>1. CASE f = r
    BY <1>1, <1>5, <1>11, <2>1
  <2>2. CASE f # r
    <3>1. /\ pipe'[f] = pipe[f] /\ kind[f] = "read" /\ pipe[f] \in Efd!Fds
          /\ pipe[f] \notin {r, w} /\ kind'[pipe[f]] = "write"
      BY <1>5, <1>11, <2>2
    <3>2. \A g \in Efd!Fds : kind'[g] = "read" /\ pipe'[g] = pipe'[f] => g = f
      BY <1>5, <1>11, <3>1 DEF EfdInv, EfdWired
    <3> QED
      BY <3>1, <3>2
  <2> QED
    BY <2>1, <2>2
<1>13. EfdTables'
  <2>1. 0 \in Efd!Fds => kind'[0] # "write"
    BY <1>1, <1>5 DEF EfdInv, EfdTables
  <2>2. ASSUME NEW x \in Units, NEW i \in Efd!Slots, NEW y \in Efd!Fds \ {0}, efdTable'[x][i] = y
        PROVE  /\ kind'[y] = "write"
               /\ \A f \in Efd!Fds : kind'[f] = "read" /\ pipe'[f] = y => f = i
    <3>1. CASE x = u /\ i = r /\ y = w
      BY <1>5, <1>11, <3>1
    <3>2. CASE efdTable[x][i] = y
      <4>1. kind[y] = "write" /\ \A f \in Efd!Fds : kind[f] = "read" /\ pipe[f] = y => f = i
        BY <2>2, <3>2 DEF EfdInv, EfdTables
      <4>2. y \notin {r, w} /\ kind'[y] = "write"
        BY <1>1, <1>5, <4>1
      <4> QED
        BY <1>5, <1>11, <4>1, <4>2
    <3> QED
      BY <1>9, <2>2, <3>1, <3>2
  <2> QED
    BY <2>1, <2>2 DEF EfdTables
<1>14. EfdKept'
  <2>0. \A x \in Units : Efd!Filling(x)' <=> Efd!Filling(x)
    BY <1>2 DEF Efd!Filling
  <2> SUFFICES ASSUME NEW f \in Efd!Fds, kind'[f] = "read"
      PROVE  /\ filled[maker'[f]]
             /\ maker'[f] \notin unitsRaced' =>
                  ~ Efd!Filling(maker'[f]) /\ (f < TableSize => efdTable'[maker'[f]][f] = pipe'[f])
    BY <1>2, <1>10, <2>0 DEF EfdKept
  <2>1. CASE f = r
    BY <1>2, <1>5, <1>9, <2>1
  <2>2. CASE f # r
    <3>1. kind[f] = "read" /\ maker'[f] = maker[f] /\ pipe'[f] = pipe[f] /\ maker[f] \in Units
      BY <1>4, <1>11, <2>2
    <3>2. f < TableSize => f \in Efd!Slots /\ efdTable'[maker[f]][f] = efdTable[maker[f]][f]
      BY <1>9, <2>2, <3>1, EfdAssumption DEF Efd!Fds, Efd!Slots
    <3> QED
      BY <1>2, <3>1, <3>2 DEF EfdInv, EfdKept
  <2> QED
    BY <2>1, <2>2
<1>15. \A f \in Efd!Fds : kind'[f] = "read" => pipe'[f] \in Efd!Fds
  BY <1>12 DEF EfdWired
<1> QED
  BY <1>2, <1>4, <1>6, <1>8, <1>10, <1>12, <1>13, <1>14, <1>15 DEF EfdInv, Efd!TypeOK

\* Operations that leave the tables and their fills alone.
LEMMA FillsStay ==
  ASSUME UNCHANGED stores
  PROVE  \A u : Efd!Filling(u)' <=> Efd!Filling(u)
BY DEF Efd!Filling

\* Operations that move only what is in the pipes.
LEMMA QueueKeeps ==
  ASSUME EfdInv, UNCHANGED <<kind, pipe, maker, efdTable, Efd!fillVars>>,
         NEW w \in Efd!Fds, NEW q \in Seq(1 .. MaxValue), Len(q) <= Capacity,
         queue' = [queue EXCEPT ![w] = q]
  PROVE  EfdInv'
<1>1. queue' \in [Efd!Fds -> Seq(1 .. MaxValue)] /\ \A f \in Efd!Fds : Len(queue'[f]) <= Capacity
  BY DEF EfdInv, Efd!TypeOK
<1>2. Efd!TypeOK' /\ EfdWired' /\ EfdTables'
  BY <1>1 DEF EfdInv, Efd!TypeOK, EfdWired, EfdTables, Efd!fillVars
<1>3. EfdKept'
  BY FillsStay DEF EfdInv, EfdKept, Efd!fillVars
<1> QED
  BY <1>2, <1>3 DEF EfdInv

\* Operations that leave all of it alone.
LEMMA NothingKeeps ==
  ASSUME EfdInv, UNCHANGED <<kind, pipe, queue, maker, efdTable, Efd!fillVars>>
  PROVE  EfdInv'
<1>1. Efd!TypeOK' /\ EfdWired' /\ EfdTables'
  BY DEF EfdInv, Efd!TypeOK, EfdWired, EfdTables, Efd!fillVars
<1>2. EfdKept'
  BY FillsStay DEF EfdInv, EfdKept, Efd!fillVars
<1> QED
  BY <1>1, <1>2 DEF EfdInv

\* A write that reaches a pipe with a reader reaches the pipe of f, whichever
\* unit writes.
LEMMA WriteEndOf ==
  ASSUME EfdInv, NEW u \in Units, NEW f \in Efd!Fds, kind[f] = "read",
         kind[Efd!WriteEnd(u, f)] = "write", Efd!HasReader(Efd!WriteEnd(u, f))
  PROVE  f < TableSize /\ Efd!WriteEnd(u, f) = pipe[f]
<1> DEFINE w == Efd!WriteEnd(u, f)
<1>1. f < TableSize /\ efdTable[u][f] >= 0 /\ w = efdTable[u][f]
  BY DEF Efd!WriteEnd
<1>2. f \in Efd!Slots
  BY <1>1, EfdAssumption DEF Efd!Slots, Efd!Fds
<1>3. PICK g \in Efd!Fds : kind[g] = "read" /\ pipe[g] = w
  BY DEF Efd!HasReader
<1>4. w \in Efd!Fds
  BY <1>3 DEF EfdInv, Efd!TypeOK
<1>5. w # 0
  BY <1>4 DEF EfdInv, EfdTables
<1> HIDE DEF w
<1>6. g = f
  BY <1>1, <1>2, <1>3, <1>4, <1>5 DEF EfdInv, EfdTables
<1>7. w = pipe[f]
  BY <1>3, <1>6
<1> QED
  BY <1>1, <1>7 DEF w

\* The unit that made f, its fill not raced, reaches the pipe of f.
LEMMA MakerReaches ==
  ASSUME EfdInv, NEW f \in Efd!Fds, kind[f] = "read", f < TableSize, maker[f] \notin unitsRaced
  PROVE  LET w == Efd!WriteEnd(maker[f], f) IN
         w = pipe[f] /\ kind[w] = "write" /\ Efd!HasReader(w)
<1>1. pipe[f] \in Efd!Fds /\ pipe[f] >= 0 /\ kind[pipe[f]] = "write"
  BY EfdAssumption DEF EfdInv, EfdWired, Efd!Fds
<1>2. efdTable[maker[f]][f] = pipe[f]
  BY DEF EfdInv, EfdKept
<1> QED
  BY <1>1, <1>2 DEF Efd!WriteEnd, Efd!HasReader

LEMMA WriteKeeps ==
  ASSUME EfdInv, NEW u \in Units, NEW f \in Efd!Fds, NEW v \in 1 .. MaxValue,
         Efd!eventfd_write(u, f, v)
  PROVE  EfdInv'
<1> DEFINE w == Efd!WriteEnd(u, f)
<1>1. kind[f] = "read" /\ UNCHANGED <<kind, pipe, maker, efdTable, Efd!fillVars>>
  BY DEF Efd!eventfd_write
<1>2. CASE /\ kind[w] = "write" /\ Efd!HasReader(w) /\ Len(queue[w]) < Capacity
           /\ queue' = [queue EXCEPT ![w] = Append(@, v)]
  <2>1. w \in Efd!Fds
    BY <1>1, <1>2, WriteEndOf DEF EfdInv, EfdWired
  <2>2. queue[w] \in Seq(1 .. MaxValue)
    BY <2>1 DEF EfdInv, Efd!TypeOK
  <2> HIDE DEF w
  <2>3. /\ Append(queue[w], v) \in Seq(1 .. MaxValue)
        /\ Len(Append(queue[w], v)) = Len(queue[w]) + 1 /\ Len(queue[w]) \in Nat
    BY <2>2, AppendProperties, LenProperties
  <2>4. Len(Append(queue[w], v)) <= Capacity
    BY <1>2, <2>3, EfdAssumption
  <2> QED
    BY <1>1, <1>2, <2>1, <2>3, <2>4, QueueKeeps
<1>3. CASE UNCHANGED queue
  BY <1>1, <1>3, NothingKeeps
<1> QED
  BY <1>2, <1>3 DEF Efd!eventfd_write

LEMMA ReadKeeps ==
  ASSUME EfdInv, NEW f \in Efd!Fds, Efd!eventfd_read(f)
  PROVE  EfdInv'
<1>1. kind[f] = "read" /\ UNCHANGED <<kind, pipe, maker, efdTable, Efd!fillVars>>
  BY DEF Efd!eventfd_read
<1>2. CASE /\ queue[pipe[f]] # <<>>
           /\ queue' = [queue EXCEPT ![pipe[f]] = Tail(@)]
  <2>1. /\ pipe[f] \in Efd!Fds /\ queue[pipe[f]] \in Seq(1 .. MaxValue)
        /\ Len(queue[pipe[f]]) <= Capacity
    BY <1>1 DEF EfdInv, Efd!TypeOK
  <2>2. /\ Tail(queue[pipe[f]]) \in Seq(1 .. MaxValue)
        /\ Len(Tail(queue[pipe[f]])) = Len(queue[pipe[f]]) - 1 /\ Len(queue[pipe[f]]) \in Nat
    BY <1>2, <2>1, HeadTailProperties, LenProperties
  <2>3. Len(Tail(queue[pipe[f]])) <= Capacity
    BY <2>1, <2>2, EfdAssumption
  <2> QED
    BY <1>1, <1>2, <2>1, <2>2, <2>3, QueueKeeps
<1>3. CASE UNCHANGED queue
  BY <1>1, <1>3, NothingKeeps
<1> QED
  BY <1>2, <1>3 DEF Efd!eventfd_read

LEMMA CloseKeeps ==
  ASSUME EfdInv, NEW f \in Efd!Fds, Efd!CloseEventfd(f)
  PROVE  EfdInv'
<1>1. /\ kind[f] = "read" /\ kind' = [kind EXCEPT ![f] = "free"]
      /\ pipe' = [pipe EXCEPT ![f] = -1] /\ queue' = [queue EXCEPT ![pipe[f]] = <<>>]
      /\ maker' = [maker EXCEPT ![f] = CHOOSE u \in Units : TRUE]
      /\ UNCHANGED <<efdTable, Efd!fillVars>>
  BY DEF Efd!CloseEventfd
<1>2. /\ kind \in [Efd!Fds -> {"free", "other", "read", "write"}]
      /\ pipe \in [Efd!Fds -> Efd!Fds \cup {-1}] /\ pipe[f] \in Efd!Fds
      /\ queue \in [Efd!Fds -> Seq(1 .. MaxValue)] /\ \A g \in Efd!Fds : Len(queue[g]) <= Capacity
      /\ maker \in [Efd!Fds -> Units] /\ (CHOOSE u \in Units : TRUE) \in Units
  BY <1>1, EfdAssumption DEF EfdInv, Efd!TypeOK
<1>3. <<>> \in Seq(1 .. MaxValue) /\ Len(<<>>) <= Capacity
  BY EfdAssumption
<1>4. queue' \in [Efd!Fds -> Seq(1 .. MaxValue)] /\ \A g \in Efd!Fds : Len(queue'[g]) <= Capacity
  BY <1>1, <1>2, <1>3
<1>5. /\ kind' \in [Efd!Fds -> {"free", "other", "read", "write"}]
      /\ pipe' \in [Efd!Fds -> Efd!Fds \cup {-1}] /\ maker' \in [Efd!Fds -> Units]
  BY <1>1, <1>2
<1>6. /\ kind'[f] = "free"
      /\ \A g \in Efd!Fds \ {f} : kind'[g] = kind[g] /\ pipe'[g] = pipe[g] /\ maker'[g] = maker[g]
  BY <1>1, <1>2
<1>7. \A g \in Efd!Fds : /\ kind'[g] = "read" => g # f /\ kind[g] = "read" /\ pipe'[g] = pipe[g]
                                                 /\ maker'[g] = maker[g]
                         /\ kind'[g] = "write" <=> kind[g] = "write"
  BY <1>1, <1>6
<1>8. EfdWired' /\ EfdTables'
  BY <1>1, <1>7 DEF EfdInv, EfdWired, EfdTables
<1>9. EfdKept'
  BY <1>1, <1>7, FillsStay DEF EfdInv, EfdKept, Efd!fillVars
<1>10. \A g \in Efd!Fds : kind'[g] = "read" => pipe'[g] \in Efd!Fds
  BY <1>8 DEF EfdWired
<1> QED
  BY <1>1, <1>4, <1>5, <1>8, <1>9, <1>10 DEF EfdInv, Efd!TypeOK, Efd!fillVars

LEMMA OthersKeep ==
  ASSUME EfdInv, NEW f \in Efd!Fds, kind[f] \in {"free", "other"}, NEW k \in {"free", "other"},
         kind' = [kind EXCEPT ![f] = k],
         UNCHANGED <<pipe, queue, maker, efdTable, Efd!fillVars>>
  PROVE  EfdInv'
<1>1. /\ kind' \in [Efd!Fds -> {"free", "other", "read", "write"}]
      /\ kind'[f] = k /\ \A g \in Efd!Fds \ {f} : kind'[g] = kind[g]
  BY DEF EfdInv, Efd!TypeOK
<1>2. \A g \in Efd!Fds : /\ kind'[g] = "read" <=> kind[g] = "read"
                         /\ kind'[g] = "write" <=> kind[g] = "write"
  BY <1>1
<1>3. Efd!TypeOK' /\ EfdWired' /\ EfdTables'
  BY <1>1, <1>2 DEF EfdInv, Efd!TypeOK, EfdWired, EfdTables, Efd!fillVars
<1>4. EfdKept'
  BY <1>2, FillsStay DEF EfdInv, EfdKept, Efd!fillVars
<1> QED
  BY <1>3, <1>4 DEF EfdInv

LEMMA OpensLowest ==
  ASSUME Efd!OtherOpens
  PROVE  \E f \in Efd!Fds : /\ kind[f] = "free" /\ kind' = [kind EXCEPT ![f] = "other"]
                            /\ UNCHANGED <<pipe, queue, maker, efdTable, Efd!fillVars, last>>
<1>1. Efd!Free \subseteq Efd!Fds /\ Efd!Free # {}
  BY DEF Efd!OtherOpens, Efd!Free
<1>2. Efd!Lowest(Efd!Free) \in Efd!Fds /\ kind[Efd!Lowest(Efd!Free)] = "free"
  BY <1>1, LowestIsOne DEF Efd!Free
<1> QED
  BY <1>2 DEF Efd!OtherOpens

LEMMA EfdInvKept == ASSUME EfdInv, [Efd!Next]_(Efd!vars) PROVE EfdInv'
<1>1. ASSUME Efd!OtherOpens PROVE EfdInv'
  BY <1>1, OpensLowest, OthersKeep
<1>2. ASSUME NEW f \in Efd!Fds, Efd!OtherCloses(f) PROVE EfdInv'
  BY <1>2, OthersKeep DEF Efd!OtherCloses
<1>3. CASE UNCHANGED Efd!vars
  BY <1>3, NothingKeeps DEF Efd!vars
<1> QED
  BY <1>1, <1>2, <1>3, FindUnfilledKeeps, FillKeeps, EventfdKeeps, WriteKeeps, ReadKeeps,
     CloseKeeps DEF Efd!Next
-----------------------------------------------------------------------------
(* EventfdEmul implements EventCounter.                                    *)

InTable == 0 .. TableSize - 1
Counts == [f \in InTable |-> Efd!Count(f)]

\* Descriptor f is the same eventfd as before, with the same in it, or none.
Untouched(f) ==
  /\ kind'[f] = "read" <=> kind[f] = "read"
  /\ kind[f] = "read" => queue'[pipe'[f]] = queue[pipe[f]]

LEMMA CountOfUntouched ==
  ASSUME NEW f, f \in Efd!Fds => Untouched(f)
  PROVE  Efd!Count(f)' = Efd!Count(f)
  BY DEF Untouched, Efd!Count

LEMMA CountsStay ==
  ASSUME \A f \in Efd!Fds : Untouched(f)
  PROVE  Counts' = Counts
<1>1. \A f \in InTable : Efd!Count(f)' = Efd!Count(f)
  BY CountOfUntouched
<1> QED
  BY <1>1 DEF Counts

LEMMA OneCountChanges ==
  ASSUME NEW f \in InTable, \A g \in Efd!Fds \ {f} : Untouched(g)
  PROVE  Counts' = [Counts EXCEPT ![f] = Efd!Count(f)']
<1>1. \A g \in InTable \ {f} : Efd!Count(g)' = Efd!Count(g)
  BY CountOfUntouched
<1>2. Counts' = [g \in InTable |-> Efd!Count(g)']
  BY DEF Counts
<1>3. \A g \in InTable : Efd!Count(g)' = IF g = f THEN Efd!Count(f)' ELSE Efd!Count(g)
  BY <1>1
<1> QED
  BY <1>2, <1>3, Zenon DEF Counts

\* A write end belongs to one eventfd: what moves in one pipe moves in no other.
LEMMA OnlyItsPipe ==
  ASSUME EfdInv, UNCHANGED <<kind, pipe>>, NEW f \in Efd!Fds, kind[f] = "read", NEW q,
         queue' = [queue EXCEPT ![pipe[f]] = q]
  PROVE  /\ \A g \in Efd!Fds \ {f} : Untouched(g)
         /\ queue'[pipe'[f]] = q
<1>1. queue \in [Efd!Fds -> Seq(1 .. MaxValue)] /\ pipe[f] \in Efd!Fds
  BY DEF EfdInv, Efd!TypeOK
<1>2. queue'[pipe[f]] = q /\ \A w \in Efd!Fds \ {pipe[f]} : queue'[w] = queue[w]
  BY <1>1
<1>3. \A g \in Efd!Fds \ {f} : kind[g] = "read" => pipe[g] \in Efd!Fds \ {pipe[f]}
  BY DEF EfdInv, EfdWired
<1> QED
  BY <1>2, <1>3 DEF Untouched

LEMMA QueueFacts ==
  ASSUME EfdInv, NEW f \in Efd!Fds, kind[f] = "read"
  PROVE  /\ queue[pipe[f]] \in Seq(1 .. MaxValue) /\ queue[pipe[f]] \in Seq(Nat)
         /\ Efd!Count(f) = Efd!Total(queue[pipe[f]])
         /\ Efd!Count(f) >= Len(queue[pipe[f]]) /\ Efd!Count(f) \in Nat
<1>1. queue[pipe[f]] \in Seq(1 .. MaxValue)
  BY DEF EfdInv, Efd!TypeOK
<1> DEFINE q == queue[pipe[f]]
<1> HIDE DEF q
<1>2. /\ q \in Seq(Nat) /\ \A n \in 1 .. Len(q) : q[n] >= 1
  <2>1. q \in Seq(1 .. MaxValue)
    BY <1>1 DEF q
  <2>2. 1 .. MaxValue \subseteq Nat
    BY EfdAssumption
  <2>3. \A n \in 1 .. Len(q) : q[n] \in 1 .. MaxValue
    BY <2>1, ElementOfSeq
  <2>4. \A n \in 1 .. Len(q) : q[n] >= 1
    BY <2>3, EfdAssumption
  <2>5. q \in Seq(Nat)
    BY <2>1, <2>2, SeqMonotonic
  <2> QED
    BY <2>4, <2>5
<1>3. Efd!Total(q) \in Nat /\ Efd!Total(q) >= Len(q)
  BY <1>2, TotalIsNat, TotalGrows
<1>4. Efd!Count(f) = Efd!Total(q)
  BY DEF Efd!Count, q
<1> QED
  BY <1>1, <1>2, <1>3, <1>4 DEF q

CounterStep == [Counter!CounterNext]_<<Counts, last>>

LEMMA OpenCounts ==
  ASSUME EfdInv, NEW v \in 0 .. MaxValue, NEW contents, Efd!Total(contents) = v,
         NEW r \in Efd!Fds, NEW w \in Efd!Fds, r # w, kind[r] = "free", kind[w] = "free",
         kind' = [kind EXCEPT ![r] = "read", ![w] = "write"],
         pipe' = [pipe EXCEPT ![r] = w], queue' = [queue EXCEPT ![w] = contents],
         Efd!Did("open", r, v)
  PROVE  CounterStep
<1>1. /\ kind \in [Efd!Fds -> {"free", "other", "read", "write"}]
      /\ pipe \in [Efd!Fds -> Efd!Fds \cup {-1}]
      /\ queue \in [Efd!Fds -> Seq(1 .. MaxValue)]
  BY DEF EfdInv, Efd!TypeOK
<1>2. /\ kind'[r] = "read" /\ kind'[w] = "write" /\ pipe'[r] = w /\ queue'[w] = contents
      /\ \A f \in Efd!Fds \ {r, w} : kind'[f] = kind[f]
      /\ \A f \in Efd!Fds \ {r} : pipe'[f] = pipe[f]
      /\ \A f \in Efd!Fds \ {w} : queue'[f] = queue[f]
  BY <1>1
<1>3. \A f \in Efd!Fds \ {r} : Untouched(f)
  <2>1. \A f \in Efd!Fds : kind[f] = "read" => pipe[f] \in Efd!Fds /\ kind[pipe[f]] = "write"
    BY DEF EfdInv, EfdWired
  <2>2. \A f \in Efd!Fds : kind[f] = "read" => f \notin {r, w} /\ pipe[f] \in Efd!Fds \ {w}
    BY <2>1
  <2> QED
    BY <1>2, <2>2 DEF Untouched
<1>4. CASE r < TableSize
  <2>1. r \in InTable
    BY <1>4, EfdAssumption DEF InTable, Efd!Fds
  <2>2. Efd!Count(r)' = v
    BY <1>2 DEF Efd!Count
  <2>3. Counts[r] = -1
    BY <2>1 DEF Counts, Efd!Count
  <2>4. Counts' = [Counts EXCEPT ![r] = v]
    BY <1>3, <2>1, <2>2, OneCountChanges
  <2>5. Counter!Open(r, v)
    BY <1>4, <2>3, <2>4
       DEF Counter!Open, Counter!Did, Counter!Closed, Counts, InTable, Efd!Did
  <2> QED
    BY <2>1, <2>5 DEF CounterStep, Counter!CounterNext, InTable
<1>5. CASE ~(r < TableSize)
  <2>1. \A f \in InTable : f # r
    BY <1>5, EfdAssumption DEF InTable
  <2>2. \A f \in InTable : Efd!Count(f)' = Efd!Count(f)
    BY <1>3, <2>1, CountOfUntouched
  <2> QED
    BY <1>5, <2>2 DEF CounterStep, Counts, Efd!Did
<1> QED
  BY <1>4, <1>5

LEMMA EventfdCounts ==
  ASSUME EfdInv, NEW u \in Units, NEW v \in 0 .. MaxValue, Efd!eventfd(u, v)
  PROVE  CounterStep
<1> DEFINE r == Efd!Lowest(Efd!Free)  w == Efd!Lowest(Efd!Free \ {r})
           contents == IF v > 0 THEN <<v>> ELSE <<>>
<1>1. /\ r \in Efd!Fds /\ w \in Efd!Fds /\ r # w /\ kind[r] = "free" /\ kind[w] = "free"
  <2>1. \E f, g \in Efd!Free : f # g
    BY DEF Efd!eventfd
  <2> QED
    BY <2>1, EnoughFree
<1>2. /\ kind' = [kind EXCEPT ![r] = "read", ![w] = "write"]
      /\ pipe' = [pipe EXCEPT ![r] = w] /\ queue' = [queue EXCEPT ![w] = contents]
      /\ Efd!Did("open", r, v)
  BY DEF Efd!eventfd
<1>3. Efd!Total(contents) = v
  <2>1. v \in Nat /\ (v > 0 \/ v = 0)
    BY EfdAssumption
  <2> QED
    BY <2>1, TotalOfNone, TotalOfOne
<1> HIDE DEF r, w, contents
<1> QED
  BY <1>1, <1>2, <1>3, OpenCounts

LEMMA WriteCounts ==
  ASSUME EfdInv, NEW u \in Units, NEW f \in Efd!Fds, NEW v \in 1 .. MaxValue,
         Efd!eventfd_write(u, f, v)
  PROVE  CounterStep
<1> DEFINE w == Efd!WriteEnd(u, f)  q == queue[pipe[f]]
<1>1. kind[f] = "read" /\ UNCHANGED <<kind, pipe, maker, efdTable>>
  BY DEF Efd!eventfd_write
<1>2. v \in Nat /\ v \in 0 .. MaxValue
  BY EfdAssumption
<1>3. /\ q \in Seq(Nat) /\ Efd!Count(f) = Efd!Total(q) /\ Efd!Count(f) \in Nat
      /\ Efd!Count(f) >= Len(q) /\ Len(q) \in Nat
  BY <1>1, QueueFacts, LenProperties
<1>4. f < TableSize => f \in InTable /\ Counts[f] = Efd!Count(f)
  BY EfdAssumption DEF InTable, Efd!Fds, Counts
<1>5. CASE kind[w] = "write" /\ Efd!HasReader(w) /\ Len(queue[w]) < Capacity
  <2>1. f < TableSize /\ w = pipe[f]
    BY <1>1, <1>5, WriteEndOf
  <2>2. queue' = [queue EXCEPT ![pipe[f]] = Append(q, v)] /\ Efd!Did("write", f, v)
    BY <1>5, <2>1 DEF Efd!eventfd_write
  <2>3. (\A g \in Efd!Fds \ {f} : Untouched(g)) /\ queue'[pipe'[f]] = Append(q, v)
    BY <1>1, <2>2, OnlyItsPipe
  <2>4. Efd!Total(Append(q, v)) = Efd!Total(q) + v
    BY <1>2, <1>3, TotalOfAppend
  <2> HIDE DEF q, w
  <2>5. Efd!Count(f)' = Counts[f] + v
    BY <1>1, <1>3, <1>4, <2>1, <2>3, <2>4 DEF Efd!Count
  <2>6. Counts' = [Counts EXCEPT ![f] = Counts[f] + v]
    BY <1>4, <2>1, <2>3, <2>5, OneCountChanges
  <2>7. Counter!Write(f, v)
    <3>1. Counts[f] # -1
      BY <1>3, <1>4, <2>1
    <3> QED
      BY <2>1, <2>2, <2>6, <3>1
         DEF Counter!Write, Counter!Did, Counter!Closed, Counts, InTable, Efd!Did
  <2> QED
    BY <1>2, <1>4, <2>1, <2>7 DEF CounterStep, Counter!CounterNext, InTable
<1>6. CASE ~(kind[w] = "write" /\ Efd!HasReader(w) /\ Len(queue[w]) < Capacity)
  <2>1. /\ Efd!Did(IF u = maker[f] /\ u \notin unitsRaced THEN "refused" ELSE "lost", f, v)
        /\ UNCHANGED queue
    BY <1>6 DEF Efd!eventfd_write
  <2>2. Counts' = Counts
    BY <1>1, <2>1, CountsStay DEF Untouched
  <2>3. CASE ~(f < TableSize)
    BY <2>1, <2>2, <2>3 DEF CounterStep, Efd!Did
  <2>4. CASE f < TableSize /\ u = maker[f] /\ u \notin unitsRaced
    <3>1. w = pipe[f] /\ kind[w] = "write" /\ Efd!HasReader(w)
      BY <1>1, <2>4, MakerReaches
    <3>2. ~(Len(q) < Capacity)
      BY <1>6, <3>1
    <3> HIDE DEF q, w
    <3>3. Counts[f] >= Capacity
      BY <1>3, <1>4, <2>4, <3>2, EfdAssumption
    <3>4. Counter!Refuse(f, v)
      BY <2>1, <2>2, <2>4, <3>3 DEF Counter!Refuse, Counter!Did, Counts, InTable, Efd!Did
    <3> QED
      BY <1>2, <1>4, <2>4, <3>4 DEF CounterStep, Counter!CounterNext, InTable
  <2>5. CASE f < TableSize /\ ~(u = maker[f] /\ u \notin unitsRaced)
    <3> HIDE DEF q, w
    <3>1. Counts[f] # -1
      BY <1>3, <1>4, <2>5
    <3>2. Counter!Lose(f, v)
      BY <2>1, <2>2, <2>5, <3>1
         DEF Counter!Lose, Counter!Did, Counter!Closed, Counts, InTable, Efd!Did
    <3> QED
      BY <1>2, <1>4, <2>5, <3>2 DEF CounterStep, Counter!CounterNext, InTable
  <2> QED
    BY <2>3, <2>4, <2>5
<1> QED
  BY <1>5, <1>6

LEMMA ReadCounts ==
  ASSUME EfdInv, NEW f \in Efd!Fds, Efd!eventfd_read(f)
  PROVE  CounterStep
<1> DEFINE q == queue[pipe[f]]  v == Head(q)
<1>1. kind[f] = "read" /\ UNCHANGED <<kind, pipe, maker, efdTable>>
  BY DEF Efd!eventfd_read
<1>2. /\ q \in Seq(1 .. MaxValue) /\ q \in Seq(Nat)
      /\ Efd!Count(f) = Efd!Total(q) /\ Efd!Count(f) \in Nat
  BY <1>1, QueueFacts
<1>3. CASE q # <<>>
  <2>1. queue' = [queue EXCEPT ![pipe[f]] = Tail(q)] /\ Efd!Did("read", f, v)
    BY <1>3 DEF Efd!eventfd_read
  <2>2. (\A g \in Efd!Fds \ {f} : Untouched(g)) /\ queue'[pipe'[f]] = Tail(q)
    BY <1>1, <2>1, OnlyItsPipe
  <2>3. v \in 1 .. MaxValue /\ Tail(q) \in Seq(Nat)
    BY <1>2, <1>3, HeadTailProperties
  <2>4. Efd!Total(q) = v + Efd!Total(Tail(q)) /\ Efd!Total(Tail(q)) \in Nat
    BY <1>2, <1>3, <2>3, TotalOfTail, TotalIsNat
  <2> HIDE DEF q, v
  <2>5. CASE f < TableSize
    <3>1. f \in InTable
      BY <2>5, EfdAssumption DEF InTable, Efd!Fds
    <3>2. Counts[f] = Efd!Count(f)
      BY <3>1 DEF Counts
    <3>3. Efd!Count(f)' = Efd!Total(Tail(q))
      BY <1>1, <2>2 DEF Efd!Count
    <3>4. Efd!Total(Tail(q)) = Counts[f] - v /\ v \in 1 .. Counts[f]
      BY <1>2, <2>3, <2>4, <3>2, EfdAssumption
    <3>5. Counts' = [Counts EXCEPT ![f] = Counts[f] - v]
      BY <2>2, <3>1, <3>3, <3>4, OneCountChanges
    <3>6. Counter!Read(f, v)
      BY <2>1, <2>5, <3>4, <3>5 DEF Counter!Read, Counter!Did, Counts, InTable, Efd!Did
    <3>7. v \in 0 .. MaxValue
      BY <2>3, EfdAssumption
    <3> QED
      BY <3>1, <3>6, <3>7 DEF CounterStep, Counter!CounterNext, InTable
  <2>6. CASE ~(f < TableSize)
    <3>1. \A g \in InTable : g # f
      BY <2>6, EfdAssumption DEF InTable
    <3>2. \A g \in InTable : Efd!Count(g)' = Efd!Count(g)
      BY <2>2, <3>1, CountOfUntouched
    <3> QED
      BY <2>1, <2>6, <3>2 DEF CounterStep, Counts, Efd!Did
  <2> QED
    BY <2>5, <2>6
<1>4. CASE q = <<>>
  <2>1. Efd!Did("empty", f, 0) /\ UNCHANGED queue
    BY <1>4 DEF Efd!eventfd_read
  <2>2. Counts' = Counts
    BY <1>1, <2>1, CountsStay DEF Untouched
  <2>3. CASE f < TableSize
    <3>1. f \in InTable
      BY <2>3, EfdAssumption DEF InTable, Efd!Fds
    <3>2. Counts[f] = 0
      BY <1>2, <1>4, <3>1, TotalOfNone DEF Counts
    <3>3. Counter!Empty(f)
      BY <2>1, <2>2, <2>3, <3>2 DEF Counter!Empty, Counter!Did, Counts, InTable, Efd!Did
    <3> QED
      BY <3>1, <3>3 DEF CounterStep, Counter!CounterNext, InTable
  <2>4. CASE ~(f < TableSize)
    BY <2>1, <2>2, <2>4 DEF CounterStep, Efd!Did
  <2> QED
    BY <2>3, <2>4
<1> QED
  BY <1>3, <1>4

LEMMA CloseCounts ==
  ASSUME EfdInv, NEW f \in Efd!Fds, Efd!CloseEventfd(f)
  PROVE  CounterStep
<1>1. /\ kind[f] = "read" /\ kind' = [kind EXCEPT ![f] = "free"]
      /\ pipe' = [pipe EXCEPT ![f] = -1] /\ queue' = [queue EXCEPT ![pipe[f]] = <<>>]
      /\ Efd!Did("close", f, 0)
  BY DEF Efd!CloseEventfd
<1>2. /\ kind \in [Efd!Fds -> {"free", "other", "read", "write"}]
      /\ pipe \in [Efd!Fds -> Efd!Fds \cup {-1}] /\ pipe[f] \in Efd!Fds
      /\ queue \in [Efd!Fds -> Seq(1 .. MaxValue)]
  BY <1>1 DEF EfdInv, Efd!TypeOK
<1>3. /\ kind'[f] = "free"
      /\ \A g \in Efd!Fds \ {f} : kind'[g] = kind[g] /\ pipe'[g] = pipe[g]
      /\ \A w \in Efd!Fds \ {pipe[f]} : queue'[w] = queue[w]
  BY <1>1, <1>2
<1>4. \A g \in Efd!Fds \ {f} : Untouched(g)
  <2>1. \A g \in Efd!Fds \ {f} : kind[g] = "read" => pipe[g] \in Efd!Fds \ {pipe[f]}
    BY <1>1 DEF EfdInv, EfdWired
  <2> QED
    BY <1>3, <2>1 DEF Untouched
<1>5. CASE f < TableSize
  <2>1. f \in InTable
    BY <1>5, EfdAssumption DEF InTable, Efd!Fds
  <2>2. Efd!Count(f)' = -1
    BY <1>3 DEF Efd!Count
  <2>3. Counts' = [Counts EXCEPT ![f] = -1]
    BY <1>4, <2>1, <2>2, OneCountChanges
  <2>4. Counts[f] # -1
    <3>1. Efd!Count(f) \in Nat
      BY <1>1, QueueFacts
    <3>2. Efd!Count(f) # -1
      BY <3>1
    <3> QED
      BY <2>1, <3>2 DEF Counts
  <2>5. Counter!Close(f)
    BY <1>1, <1>5, <2>3, <2>4
       DEF Counter!Close, Counter!Did, Counter!Closed, Counts, InTable, Efd!Did
  <2> QED
    BY <2>1, <2>5 DEF CounterStep, Counter!CounterNext, InTable
<1>6. CASE ~(f < TableSize)
  <2>1. \A g \in InTable : g # f
    BY <1>6, EfdAssumption DEF InTable
  <2>2. \A g \in InTable : Efd!Count(g)' = Efd!Count(g)
    BY <1>4, <2>1, CountOfUntouched
  <2> QED
    BY <1>1, <1>6, <2>2 DEF CounterStep, Counts, Efd!Did
<1> QED
  BY <1>5, <1>6

LEMMA OthersCount ==
  ASSUME EfdInv, NEW f \in Efd!Fds, kind[f] \in {"free", "other"}, NEW k \in {"free", "other"},
         kind' = [kind EXCEPT ![f] = k], UNCHANGED <<pipe, queue, last>>
  PROVE  CounterStep
<1>1. \A g \in Efd!Fds : kind'[g] = "read" <=> kind[g] = "read"
  BY DEF EfdInv, Efd!TypeOK
<1>2. Counts' = Counts
  BY <1>1, CountsStay DEF Untouched
<1> QED
  BY <1>2 DEF CounterStep

LEMMA EfdCounts == ASSUME EfdInv, [Efd!Next]_(Efd!vars) PROVE CounterStep
<1>1. ASSUME Efd!OtherOpens PROVE CounterStep
  BY <1>1, OpensLowest, OthersCount
<1>2. ASSUME NEW f \in Efd!Fds, Efd!OtherCloses(f) PROVE CounterStep
  BY <1>2, OthersCount DEF Efd!OtherCloses
<1>3. CASE UNCHANGED Efd!vars
  <2>1. Counts' = Counts /\ UNCHANGED last
    BY <1>3, CountsStay DEF Efd!vars, Untouched
  <2> QED
    BY <2>1 DEF CounterStep
<1>4. ASSUME UNCHANGED <<kind, pipe, queue, last>> PROVE CounterStep
  <2>1. Counts' = Counts
    BY <1>4, CountsStay DEF Untouched
  <2> QED
    BY <1>4, <2>1 DEF CounterStep
<1>5. ASSUME NEW t \in Callers, NEW u \in Units,
             \/ Efd!FindUnfilled(t, u)
             \/ \E s \in Efd!Slots \cup {Efd!Flag} : Efd!Fill(t, u, s)
      PROVE  CounterStep
  BY <1>4, <1>5 DEF Efd!FindUnfilled, Efd!Fill
<1> QED
  BY <1>1, <1>2, <1>3, <1>5, EventfdCounts, WriteCounts, ReadCounts, CloseCounts DEF Efd!Next

\* No eventfd has been made.
LEMMA CounterStarts == Efd!Init => Counter!CounterInit
<1> SUFFICES ASSUME Efd!Init PROVE Counter!CounterInit
  OBVIOUS
<1>1. \A f \in InTable : Efd!Count(f) = -1
  BY DEF Efd!Init, Efd!Count
<1> QED
  BY <1>1 DEF Efd!Init, Counter!CounterInit, Counter!Closed, InTable

LEMMA EfdAlways == PartsSpec => []EfdInv
<1> QED
  BY EfdStart, EfdInvKept, EfdRun, PTL DEF Efd!Spec

\* The descriptors of eventfd() in qnx_platform.h are counters, and the unit that
\* made one has no write refused by it before it is full, whatever other units
\* write and however the fills of the tables interleave, unless two threads met in
\* the first fill of that unit's table: EventfdEmul implements EventCounter.
THEOREM EventfdIsCounter == PartsSpec => IsCounter
<1>1. EfdInv /\ [Efd!Next]_(Efd!vars)
        => [Counter!CounterNext]_<<[f \in 0 .. TableSize - 1 |-> Efd!Count(f)], last>>
  BY EfdCounts DEF CounterStep, Counts, InTable
<1> QED
  BY <1>1, CounterStarts, EfdAlways, EfdRun, PTL
     DEF Efd!Spec, IsCounter, Counter!CounterSpec
-----------------------------------------------------------------------------
\* Every part keeps its types.
THEOREM PartsKeepTheirTypes == PartsSpec => []TypesOK
<1>1. EfdInv => Efd!TypeOK
  BY DEF EfdInv
<1>2. ShimsInv => Shims!TypeOK
  BY DEF ShimsInv
<1>3. (/\ Libs!TypeOK /\ Efd!TypeOK /\ Watch!TypeOK
       /\ Chrome!TypeOK /\ Launch!TypeOK /\ Shims!TypeOK) => TypesOK
  BY DEF TypesOK
<1> QED
  BY <1>1, <1>2, <1>3, LibsTypes, LaunchTypes, EfdAlways, ShimsAlways,
     WatchTypesOK, WatchAlways, ChromeTypesOK, ChromeAlways, PTL
=============================================================================
