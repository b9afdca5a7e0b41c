---------------------------- MODULE Boot_proofs ----------------------------
(***************************************************************************)
(* What the launcher decides holds for as long as the browser runs, and    *)
(* for every child: the proofs carry each decision along the program       *)
(* counter, for any number of children and of lines.                       *)
(***************************************************************************)
EXTENDS Boot, TLAPS

Early == {"none", "workdir", "log", "exec"}

\* The browser writes through the launcher's description alone: a child leaves
\* it before it writes.
LogInv ==
  /\ out[Browser] \in {"console", "offset"}
  /\ out[Browser] = "offset" =>
       /\ offset = lines[Browser]
       /\ \A n \in 1 .. lines[Browser] : n \in DOMAIN log /\ log[n] = <<Browser, n>>
  /\ \A c \in Children : out[c] = "offset" => pc[c] \in {"arguments", "output"}
  /\ \A p \in Procs : out[p] = "offset" => "no log" \notin given
  /\ pc[Browser] \in {"workdir", "log"} => lines[Browser] = 0 /\ offset = 0

\* No child runs before the browser, which settles the directory first.
TmpInv ==
  /\ pc[Browser] \in Early => \A c \in Children : pc[c] = "none"
  /\ \A p \in Procs : pc[p] \in Early => tmpdir[p] = "none"
  /\ \A p \in Procs : tmpdir[p] # "none" => tmpdir[p] = cwd
  /\ (/\ Launched
      /\ pc[Browser] # "workdir"
      /\ \E d \in Dirs : Writable(d)) => Writable(cwd)

\* The probe is off and the GPU in the browser once the launcher is through.
DisplayInv ==
  /\ \A p \in Procs : "QNX_GPU_PROBE" \in env[p] => "QNX_GPU_PROBE" \in given
  /\ Launched =>
       /\ pc[Browser] \notin {"workdir", "log"} => "QNX_GPU_PROBE" \notin env[Browser]
       /\ pc[Browser] \notin Early \cup {"dead"} =>
            "--in-process-gpu" \in argv[Browser] \/ "--single-process" \in argv[Browser]
       /\ \A c \in Children : "QNX_GPU_PROBE" \notin env[c] /\ type[c] # "gpu-process"
       /\ \A c \in Children : c \notin display
  /\ \A c \in Children :
       /\ "--ozone-platform" \in argv[c] => type[c] = "gpu-process"
       /\ pc[c] = "none" => c \notin display
       /\ c \in display =>
            \/ type[c] = "gpu-process"
            \/ (~Launched /\ "QNX_GPU_PROBE" \in given)

\* Each way to ask for the daemon mode has been looked at before the watchdog
\* is armed.
DaemonInv ==
  /\ "QNX_BERRY_DAEMON=1" \in given => "QNX_BERRY_DAEMON=1" \in env[Browser]
  /\ (/\ pc[Browser] \in {"output", "handlers", "marker", "watchdog"}
      /\ "--berry-daemon" \in argv[Browser] \/ "QNX_BERRY_DAEMON=1" \in env[Browser])
     => Browser \in daemon
  /\ pc[Browser] = "watchdog" /\ MarkerFound => Browser \in daemon
  /\ pc[Browser] \in Early => watchdog = "off"
  /\ DaemonNotKilled

LEMMA AppendKeeps ==
  ASSUME NEW S, NEW s \in Seq(S), NEW e \in S
  PROVE  /\ DOMAIN Append(s, e) = 1 .. Len(s) + 1 /\ DOMAIN s = 1 .. Len(s) /\ Len(s) \in Nat
         /\ \A n \in DOMAIN s : n \in DOMAIN Append(s, e) /\ Append(s, e)[n] = s[n]
         /\ Append(s, e)[Len(s) + 1] = e
  OBVIOUS

LEMMA ReplaceKeeps ==
  ASSUME NEW S, NEW s \in Seq(S), NEW e \in S, NEW i \in 1 .. Len(s)
  PROVE  /\ DOMAIN [s EXCEPT ![i] = e] = DOMAIN s /\ DOMAIN s = 1 .. Len(s) /\ Len(s) \in Nat
         /\ \A n \in DOMAIN s \ {i} : [s EXCEPT ![i] = e][n] = s[n]
         /\ [s EXCEPT ![i] = e][i] = e
  OBVIOUS

LEMMA GotoMoves ==
  ASSUME TypeOK, NEW p \in Procs, NEW l \in Pcs, Goto(p, l)
  PROVE  /\ pc' \in [Procs -> Pcs] /\ pc'[p] = l
         /\ \A q \in Procs \ {p} : pc'[q] = pc[q]
  BY DEF TypeOK, Goto

\* A line keeps the log's type, and the offset within it.
LEMMA LineIsTyped ==
  ASSUME TypeOK, NEW p \in Procs, Writes(p)
  PROVE  /\ out' = out /\ lines' \in [Procs -> Nat]
         /\ log' \in Seq(Procs \X Nat) /\ offset' \in 0 .. Len(log')
<1> DEFINE line == <<p, lines[p] + 1>>
<1>1. lines[p] \in Nat /\ line \in Procs \X Nat /\ log \in Seq(Procs \X Nat)
      /\ offset \in 0 .. Len(log) /\ Len(log) \in Nat
  BY DEF TypeOK
<1>2. out' = out /\ lines' \in [Procs -> Nat]
  BY <1>1 DEF Writes, TypeOK
<1> HIDE DEF line
<1>3. Append(log, line) \in Seq(Procs \X Nat) /\ Len(Append(log, line)) = Len(log) + 1
  BY <1>1
<1>4. ASSUME offset < Len(log)
      PROVE  /\ [log EXCEPT ![offset + 1] = line] \in Seq(Procs \X Nat)
             /\ Len([log EXCEPT ![offset + 1] = line]) = Len(log)
  BY <1>1, <1>4
<1>5. CASE out[p] = "append"
  <2>1. log' = Append(log, line) /\ offset' = offset
    BY <1>5 DEF Writes, line
  <2> QED
    BY <1>1, <1>2, <1>3, <2>1
<1>6. CASE out[p] = "offset"
  <2>1. /\ offset' = offset + 1
        /\ log' = IF offset < Len(log) THEN [log EXCEPT ![offset + 1] = line]
                                       ELSE Append(log, line)
    BY <1>6 DEF Writes, line
  <2>2. CASE offset < Len(log)
    BY <1>1, <1>2, <1>4, <2>1, <2>2
  <2>3. CASE ~(offset < Len(log))
    <3>1. log' = Append(log, line) /\ offset = Len(log)
      BY <1>1, <2>1, <2>3
    <3> QED
      BY <1>1, <1>2, <1>3, <2>1, <3>1
  <2> QED
    BY <2>2, <2>3
<1>7. CASE out[p] = "console"
  BY <1>1, <1>2, <1>7 DEF Writes
<1> QED
  BY <1>5, <1>6, <1>7 DEF Writes

LEMMA InitTyped == Init => TypeOK
<1> SUFFICES ASSUME Init PROVE TypeOK
  OBVIOUS
<1>1. given \subseteq Settings /\ pc \in [Procs -> Pcs]
      /\ type \in [Procs -> Types \cup {"browser", "none"}]
  BY DEF Init, Pcs
<1>2. argv \in [Procs -> SUBSET Switches]
  BY DEF Init, Switches
<1>3. env \in [Procs -> SUBSET Variables]
  BY DEF Init
<1>4. log \in Seq(Procs \X Nat) /\ Len(log) = 0 /\ offset = 0
  BY DEF Init
<1> QED
  BY <1>1, <1>2, <1>3, <1>4 DEF Init, TypeOK, Dirs

LEMMA StepKeepsTypes ==
  ASSUME TypeOK, [Next]_vars, pc[Browser] = "log" => offset = 0 PROVE TypeOK'
<1>0. Browser \in Procs /\ \A c \in Children : c \in Procs /\ c # Browser
  BY BootAssumption DEF Procs
<1>a. ASSUME NEW p \in Procs, NEW l \in Pcs, Goto(p, l),
             UNCHANGED <<given, startVars, cwd, tmpdir, logVars>>,
             daemon' \subseteq Procs, display' \subseteq Procs,
             watchdog' \in {"off", "armed", "cancelled", "fired"}
      PROVE  TypeOK'
  BY <1>a, GotoMoves DEF TypeOK, startVars, logVars
<1>b. ASSUME NEW p \in Procs, Writes(p), pc' \in [Procs -> Pcs], display' \subseteq Procs,
             UNCHANGED <<given, type, env, cwd, daemon, watchdog>>,
             argv' \in [Procs -> SUBSET Switches], tmpdir' \in [Procs -> Dirs \cup {"none"}]
      PROVE  TypeOK'
  BY <1>b, LineIsTyped DEF TypeOK
<1>1. CASE ChooseWorkDir
  <2>1. cwd' \in Dirs
    BY <1>1 DEF ChooseWorkDir, Dirs
  <2> QED
    BY <1>0, <1>1, <2>1, GotoMoves DEF ChooseWorkDir, TypeOK, Pcs, startVars, logVars
<1>2. CASE RedirectLog
  <2>1. out' \in [Procs -> {"console", "offset", "append"}] /\ env' \in [Procs -> SUBSET Variables]
    BY <1>2 DEF RedirectLog, TypeOK
  <2>2. log' \in Seq(Procs \X Nat) /\ offset' \in 0 .. Len(log')
    <3>1. CASE "no log" \in given
      BY <1>2, <3>1 DEF RedirectLog, TypeOK
    <3>2. CASE "no log" \notin given
      <4>1. log' = <<>> /\ offset' = 0
        BY <1>2, <3>2 DEF RedirectLog, At
      <4> QED
        BY <4>1
    <3> QED
      BY <3>1, <3>2
  <2>3. pc' \in [Procs -> Pcs]
    BY <1>0, <1>2, GotoMoves DEF RedirectLog, Pcs
  <2> QED
    BY <1>2, <2>1, <2>2, <2>3 DEF RedirectLog, TypeOK
<1>3. CASE Exec
  <2>1. pc' \in [Procs -> Pcs]
    BY <1>0, <1>3, GotoMoves DEF Exec, Pcs
  <2>2. argv' \in [Procs -> SUBSET Switches]
    <3>1. PICK first \in {{}} \cup {{s} : s \in argv[Browser]} :
            argv' = [argv EXCEPT ![Browser] =
                       first \cup CommonSwitches \cup GpuSwitches
                         \cup {IF MultiProcess THEN "--in-process-gpu" ELSE "--single-process"}]
      BY <1>3 DEF Exec
    <3>2. first \subseteq Switches
      BY <1>0, <3>1 DEF TypeOK
    <3>3. first \cup CommonSwitches \cup GpuSwitches
            \cup {IF MultiProcess THEN "--in-process-gpu" ELSE "--single-process"}
          \in SUBSET Switches
      BY <3>2 DEF Switches, UserSwitches
    <3> QED
      BY <3>1, <3>3 DEF TypeOK
  <2>3. tmpdir' \in [Procs -> Dirs \cup {"none"}] /\ display' \subseteq Procs
    BY <1>3 DEF Exec, TypeOK
  <2> QED
    BY <1>0, <1>3, <2>1, <2>2, <2>3, <1>b DEF Exec
<1>4. ASSUME NEW p \in Procs, ReadArguments(p) \/ InstallHandlers(p) \/ FindMarker(p)
                               \/ ArmWatchdog(p) \/ Probe(p)
      PROVE  TypeOK'
  <2>1. daemon' \subseteq Procs /\ display' \subseteq Procs
        /\ watchdog' \in {"off", "armed", "cancelled", "fired"}
    BY <1>4 DEF ReadArguments, InstallHandlers, FindMarker, ArmWatchdog, Probe, TypeOK
  <2>2. UNCHANGED <<given, startVars, cwd, tmpdir, logVars>>
        /\ \E l \in Pcs : Goto(p, l)
    BY <1>4 DEF ReadArguments, InstallHandlers, FindMarker, ArmWatchdog, Probe, Pcs
  <2> QED
    BY <2>1, <2>2, <1>a
<1>5. ASSUME NEW p \in Procs, RedirectChildOutput(p) PROVE TypeOK'
  <2>1. pc' \in [Procs -> Pcs]
    BY <1>5, GotoMoves DEF RedirectChildOutput, Pcs
  <2>2. lines[p] + 1 \in Nat /\ <<p, lines[p] + 1>> \in Procs \X Nat
    BY DEF TypeOK
  <2>3. /\ out' \in [Procs -> {"console", "offset", "append"}] /\ lines' \in [Procs -> Nat]
    BY <1>5, <2>2 DEF RedirectChildOutput, TypeOK, logVars
  <2>4. /\ Append(log, <<p, lines[p] + 1>>) \in Seq(Procs \X Nat)
        /\ Len(Append(log, <<p, lines[p] + 1>>)) = Len(log) + 1 /\ Len(log) \in Nat
    BY <2>2 DEF TypeOK
  <2>5. offset' = offset /\ (log' = log \/ log' = Append(log, <<p, lines[p] + 1>>))
    BY <1>5 DEF RedirectChildOutput, logVars
  <2>6. log' \in Seq(Procs \X Nat) /\ offset' \in 0 .. Len(log')
    <3>1. log \in Seq(Procs \X Nat) /\ offset \in 0 .. Len(log)
      BY DEF TypeOK
    <3>2. CASE log' = log
      BY <2>5, <3>1, <3>2
    <3>3. CASE log' = Append(log, <<p, lines[p] + 1>>)
      <4>1. Len(log') = Len(log) + 1 /\ log' \in Seq(Procs \X Nat)
        BY <2>4, <3>3
      <4> QED
        BY <2>4, <2>5, <3>1, <4>1
    <3> QED
      BY <2>5, <3>2, <3>3
  <2> QED
    BY <1>5, <2>1, <2>3, <2>6 DEF RedirectChildOutput, TypeOK, startVars
<1>6. ASSUME NEW p \in Procs, SetUpEnvironment(p) \/ WriteLine(p) \/ Crash(p) PROVE TypeOK'
  <2>1. pc' \in [Procs -> Pcs] /\ Writes(p)
    BY <1>6, GotoMoves DEF SetUpEnvironment, WriteLine, Crash, Pcs, TypeOK
  <2>2. tmpdir' \in [Procs -> Dirs \cup {"none"}]
    BY <1>6 DEF SetUpEnvironment, WriteLine, Crash, TypeOK
  <2>3. argv' \in [Procs -> SUBSET Switches] /\ display' \subseteq Procs
        /\ UNCHANGED <<given, type, env, cwd, daemon, watchdog>>
    BY <1>6 DEF SetUpEnvironment, WriteLine, Crash, TypeOK, startVars
  <2> QED
    BY <2>1, <2>2, <2>3, <1>b
<1>7. ASSUME NEW p \in Procs, ContentMain(p) PROVE TypeOK'
  <2>1. display' \subseteq Procs /\ "running" \in Pcs
    BY <1>7 DEF ContentMain, TypeOK, Pcs
  <2>2. CASE p = Browser
    BY <1>7, <2>1, <2>2, <1>a DEF ContentMain, TypeOK
  <2>3. CASE p # Browser
    <3>1. /\ pc' \in [Procs -> Pcs] /\ Writes(p)
          /\ UNCHANGED <<given, startVars, cwd, tmpdir, daemon, watchdog>>
      BY <1>7, <2>1, <2>3, GotoMoves DEF ContentMain
    <3> QED
      BY <2>1, <3>1, <1>b DEF TypeOK, startVars
  <2> QED
    BY <2>2, <2>3
<1>8. ASSUME NEW c \in Children, NEW t \in Types, LaunchChild(c, t) PROVE TypeOK'
  <2>1. pc' \in [Procs -> Pcs]
    BY <1>0, <1>8, GotoMoves DEF LaunchChild, Pcs
  <2>2. Forwarded(t) \in SUBSET Switches
    BY <1>0 DEF Forwarded, TypeOK
  <2>3. /\ type' \in [Procs -> Types \cup {"browser", "none"}]
        /\ argv' \in [Procs -> SUBSET Switches]
        /\ env' \in [Procs -> SUBSET Variables]
        /\ out' \in [Procs -> {"console", "offset", "append"}]
    BY <1>0, <1>8, <2>2 DEF LaunchChild, TypeOK
  <2> QED
    BY <1>8, <2>1, <2>3 DEF LaunchChild, TypeOK
<1>9. CASE ExecFails
  <2>1. pc' \in [Procs -> Pcs]
    BY <1>0, <1>9, GotoMoves DEF ExecFails, Pcs
  <2> QED
    BY <1>0, <1>9, <2>1, <1>b DEF ExecFails, TypeOK, startVars
<1>10. CASE Commit
  BY <1>10 DEF Commit, TypeOK, startVars, logVars
<1>11. CASE WatchdogFires
  BY <1>0, <1>11, <1>a DEF WatchdogFires, TypeOK, Pcs
<1>12. CASE UNCHANGED vars
  BY <1>12 DEF vars, TypeOK, startVars, logVars
<1> QED
  BY <1>1, <1>2, <1>3, <1>4, <1>5, <1>6, <1>7, <1>8, <1>9, <1>10, <1>11, <1>12 DEF Next, Main

\* Who writes leaves the browser's lines alone, or adds one.
LEMMA LineIsKept ==
  ASSUME TypeOK, LogInv, NEW p \in Procs, Writes(p),
         p # Browser => pc[p] \notin {"arguments", "output"}
  PROVE  /\ out' = out
         /\ p # Browser => offset' = offset /\ lines'[Browser] = lines[Browser]
         /\ out'[Browser] = "offset" =>
              /\ offset' = lines'[Browser]
              /\ \A n \in 1 .. lines'[Browser] : n \in DOMAIN log' /\ log'[n] = <<Browser, n>>
<1> DEFINE line == <<p, lines[p] + 1>>
<1>1. /\ lines[p] \in Nat /\ lines[Browser] \in Nat /\ Browser \in Procs /\ out' = out
      /\ log \in Seq(Procs \X Nat) /\ line \in Procs \X Nat /\ offset \in 0 .. Len(log)
      /\ Len(log) \in Nat /\ DOMAIN log = 1 .. Len(log)
  BY DEF TypeOK, Writes, Procs
<1>2. /\ lines'[p] = lines[p] + 1 /\ (p # Browser => lines'[Browser] = lines[Browser])
      /\ line = <<p, lines[p] + 1>>
  BY <1>1 DEF Writes, TypeOK
<1>3. /\ out[p] = "append" => log' = Append(log, line) /\ offset' = offset
      /\ out[p] = "console" => log' = log /\ offset' = offset
      /\ out[p] = "offset" =>
           /\ offset' = offset + 1
           /\ log' = IF offset < Len(log) THEN [log EXCEPT ![offset + 1] = line]
                                          ELSE Append(log, line)
  BY DEF Writes
<1> HIDE DEF line
<1>4. out[p] \in {"append", "console", "offset"}
  BY DEF TypeOK
<1>5. CASE p # Browser
  <2>1. out[p] # "offset"
    BY <1>5 DEF LogInv, Procs
  <2>2. log' = log \/ log' = Append(log, line)
    BY <1>3, <1>4, <2>1
  <2>3. \A n \in DOMAIN log : n \in DOMAIN log' /\ log'[n] = log[n]
    BY <1>1, <2>2
  <2> QED
    BY <1>1, <1>2, <1>3, <1>4, <1>5, <2>1, <2>3 DEF LogInv
<1>6. CASE p = Browser
  <2>1. CASE out[Browser] = "offset"
    <3>1. /\ offset = lines[Browser]
          /\ \A n \in 1 .. lines[Browser] : n \in DOMAIN log /\ log[n] = <<Browser, n>>
      BY <2>1 DEF LogInv
    <3>2. /\ offset + 1 \in DOMAIN log' /\ log'[offset + 1] = line
          /\ \A n \in 1 .. offset : n \in DOMAIN log' /\ log'[n] = log[n]
      <4>1. CASE offset < Len(log)
        <5>1. log' = [log EXCEPT ![offset + 1] = line] /\ offset + 1 \in 1 .. Len(log)
          BY <1>1, <1>3, <1>6, <2>1, <4>1
        <5>2. \A n \in 1 .. offset : n \in DOMAIN log /\ n # offset + 1
          BY <1>1
        <5> QED
          BY <1>1, <5>1, <5>2, ReplaceKeeps
      <4>2. CASE ~(offset < Len(log))
        <5>a. log' = Append(log, line)
          BY <1>3, <1>6, <2>1, <4>2, Zenon
        <5>b. offset = Len(log)
          <6> DEFINE len == Len(log)
          <6>1. offset \in 0 .. len /\ len \in Nat /\ ~(offset < len)
            BY <1>1, <4>2
          <6> HIDE DEF len
          <6>2. offset = len
            BY <6>1
          <6> QED
            BY <6>2 DEF len
        <5>1. log' = Append(log, line) /\ offset = Len(log)
          BY <5>a, <5>b
        <5>2. offset + 1 \in 1 .. Len(log) + 1
          BY <1>1, <5>1
        <5>3. /\ DOMAIN log' = 1 .. Len(log) + 1 /\ log'[Len(log) + 1] = line
              /\ \A n \in DOMAIN log : n \in DOMAIN log' /\ log'[n] = log[n]
          BY <1>1, <5>1, AppendKeeps
        <5>4. \A n \in 1 .. offset : n \in DOMAIN log
          BY <1>1, <5>1
        <5> QED
          BY <5>1, <5>2, <5>3, <5>4
      <4> QED
        BY <4>1, <4>2
    <3>3. \A n \in 1 .. offset + 1 : n \in 1 .. offset \/ n = offset + 1
      BY <1>1
    <3>4. lines'[Browser] = offset + 1 /\ offset' = offset + 1 /\ line = <<Browser, offset + 1>>
      BY <1>2, <1>3, <1>6, <2>1, <3>1
    <3> QED
      BY <1>1, <1>6, <3>1, <3>2, <3>3, <3>4
  <2>2. CASE out[Browser] # "offset"
    BY <1>1, <1>6, <2>2
  <2> QED
    BY <2>1, <2>2
<1> QED
  BY <1>5, <1>6

LEMMA StepKeepsLog == ASSUME TypeOK, LogInv, [Next]_vars PROVE LogInv'
<1>0. Browser \in Procs /\ \A c \in Children : c \in Procs /\ c # Browser
  BY BootAssumption DEF Procs
<1>a. ASSUME NEW p \in Procs, NEW l \in Pcs, Goto(p, l), UNCHANGED <<given, logVars>>,
             l \notin {"workdir", "log"} \/ (pc[p] = "workdir"),
             l = "output" \/ pc[p] \notin {"arguments", "output"} \/ p = Browser
      PROVE  LogInv'
  BY <1>0, <1>a, GotoMoves DEF LogInv, logVars
<1>b. ASSUME NEW p \in Procs, Writes(p), UNCHANGED given,
             \A q \in Procs \ {p} : pc'[q] = pc[q],
             pc[p] \notin {"arguments", "output", "workdir", "log"},
             pc'[p] \notin {"workdir", "log"}
      PROVE  LogInv'
  <2>1. \A c \in Children : out'[c] = "offset" => pc'[c] \in {"arguments", "output"}
    BY <1>0, <1>b, LineIsKept DEF LogInv
  <2>2. pc'[Browser] \in {"workdir", "log"} => lines'[Browser] = 0 /\ offset' = 0
    BY <1>0, <1>b, LineIsKept DEF LogInv
  <2> QED
    BY <1>0, <1>b, <2>1, <2>2, LineIsKept DEF LogInv
<1>1. CASE ChooseWorkDir
  BY <1>0, <1>1, <1>a DEF ChooseWorkDir, At, Pcs
<1>2. CASE RedirectLog
  <2>1. /\ lines' = lines /\ lines[Browser] = 0 /\ offset' = 0 /\ given' = given
        /\ pc'[Browser] = "exec" /\ \A c \in Children : pc'[c] = pc[c]
    BY <1>0, <1>2, GotoMoves DEF RedirectLog, At, LogInv, Pcs
  <2>2. /\ out'[Browser] \in {"console", "offset"}
        /\ out'[Browser] = "offset" => (out[Browser] = "offset" \/ "no log" \notin given)
        /\ \A c \in Children : out'[c] = out[c]
    BY <1>0, <1>2 DEF RedirectLog, TypeOK, LogInv
  <2>3. \A p \in Procs : out'[p] = "offset" => "no log" \notin given
    BY <2>2 DEF LogInv, Procs
  <2>4. \A n \in 1 .. lines'[Browser] : FALSE
    BY <2>1
  <2>5. \A c \in Children : out'[c] = "offset" => pc'[c] \in {"arguments", "output"}
    BY <2>1, <2>2 DEF LogInv
  <2> QED
    BY <2>1, <2>2, <2>3, <2>4, <2>5 DEF LogInv
<1>3. CASE Exec \/ ExecFails
  <2>1. Writes(Browser) /\ given' = given /\ pc[Browser] = "exec"
        /\ pc'[Browser] \in {"arguments", "dead"} /\ \A q \in Procs \ {Browser} : pc'[q] = pc[q]
    BY <1>0, <1>3, GotoMoves DEF Exec, ExecFails, At, Pcs
  <2> QED
    BY <1>0, <2>1, <1>b
<1>4. ASSUME NEW p \in Procs, ReadArguments(p) \/ InstallHandlers(p) \/ FindMarker(p)
                               \/ ArmWatchdog(p) \/ Probe(p)
      PROVE  LogInv'
  <2>1. /\ UNCHANGED <<given, logVars>>
        /\ \E l \in Pcs \ {"workdir", "log"} :
             Goto(p, l) /\ (l = "output" \/ pc[p] \notin {"arguments", "output"})
    BY <1>4 DEF ReadArguments, InstallHandlers, FindMarker, ArmWatchdog, Probe, Pcs, At
  <2> QED
    BY <2>1, <1>a
<1>5. ASSUME NEW p \in Procs, RedirectChildOutput(p) PROVE LogInv'
  <2>1. Goto(p, "handlers") /\ "handlers" \in Pcs /\ pc[p] = "output" /\ given' = given
    BY <1>5 DEF RedirectChildOutput, Pcs, At
  <2>2. CASE p = Browser
    BY <1>5, <2>1, <2>2, <1>a DEF RedirectChildOutput
  <2>3. CASE p # Browser
    <3>1. /\ offset' = offset /\ lines'[Browser] = lines[Browser] /\ out'[Browser] = out[Browser]
          /\ \A q \in Procs \ {p} : out'[q] = out[q]
          /\ out'[p] # "offset"
      BY <1>0, <1>5, <2>3 DEF RedirectChildOutput, TypeOK, LogInv
    <3>2. log' = log \/ log' = Append(log, <<p, lines[p] + 1>>)
      BY <1>5, <2>3 DEF RedirectChildOutput
    <3>3. \A n \in DOMAIN log : n \in DOMAIN log' /\ log'[n] = log[n]
      <4>1. log \in Seq(Procs \X Nat) /\ <<p, lines[p] + 1>> \in Procs \X Nat
        BY DEF TypeOK
      <4>2. CASE log' = log
        BY <4>2
      <4>3. CASE log' = Append(log, <<p, lines[p] + 1>>)
        BY <4>1, <4>3, AppendKeeps
      <4> QED
        BY <3>2, <4>2, <4>3
    <3>4. pc'[p] = "handlers" /\ \A q \in Procs \ {p} : pc'[q] = pc[q]
      BY <2>1, GotoMoves
    <3>5. \A n \in 1 .. lines[Browser] : out[Browser] = "offset" =>
            n \in DOMAIN log' /\ log'[n] = <<Browser, n>>
      BY <3>3 DEF LogInv
    <3> QED
      BY <1>0, <2>1, <2>3, <3>1, <3>4, <3>5 DEF LogInv
  <2> QED
    BY <2>2, <2>3
<1>6. ASSUME NEW p \in Procs, SetUpEnvironment(p) \/ WriteLine(p) \/ Crash(p) PROVE LogInv'
  <2>1. /\ Writes(p) /\ given' = given
        /\ \A q \in Procs \ {p} : pc'[q] = pc[q]
        /\ pc[p] \notin {"arguments", "output", "workdir", "log"}
        /\ pc'[p] \notin {"workdir", "log"}
    BY <1>6, GotoMoves DEF SetUpEnvironment, WriteLine, Crash, Pcs, At
  <2> QED
    BY <2>1, <1>b
<1>7. ASSUME NEW p \in Procs, ContentMain(p) PROVE LogInv'
  <2>1. pc[p] = "content" /\ Goto(p, "running") /\ "running" \in Pcs /\ given' = given
    BY <1>7 DEF ContentMain, At, Pcs
  <2>2. CASE p = Browser
    BY <1>7, <2>1, <2>2, <1>a DEF ContentMain
  <2>3. CASE p # Browser
    <3>1. Writes(p)
      BY <1>7, <2>3 DEF ContentMain
    <3>2. pc'[p] = "running" /\ \A q \in Procs \ {p} : pc'[q] = pc[q]
      BY <2>1, GotoMoves
    <3> QED
      BY <2>1, <3>1, <3>2, <1>b
  <2> QED
    BY <2>2, <2>3
<1>8. ASSUME NEW c \in Children, NEW t \in Types, LaunchChild(c, t) PROVE LogInv'
  <2>1. /\ out'[c] = out[Browser] /\ \A q \in Procs \ {c} : out'[q] = out[q]
        /\ UNCHANGED <<given, lines, log, offset>>
    BY <1>0, <1>8 DEF LaunchChild, TypeOK
  <2>2. pc'[c] = "arguments" /\ \A q \in Procs \ {c} : pc'[q] = pc[q]
    BY <1>0, <1>8, GotoMoves DEF LaunchChild, Pcs
  <2> QED
    BY <1>0, <2>1, <2>2 DEF LogInv
<1>9. CASE Commit
  BY <1>9 DEF Commit, LogInv, logVars
<1>10. CASE WatchdogFires
  BY <1>0, <1>10, <1>a DEF WatchdogFires, Pcs
<1>11. CASE UNCHANGED vars
  BY <1>11 DEF vars, LogInv, logVars
<1> QED
  BY <1>1, <1>2, <1>3, <1>4, <1>5, <1>6, <1>7, <1>8, <1>9, <1>10, <1>11 DEF Next, Main

LEMMA StepKeepsTmp == ASSUME TypeOK, TmpInv, DaemonInv, [Next]_vars PROVE TmpInv'
<1>0. Browser \in Procs /\ \A c \in Children : c \in Procs /\ c # Browser
  BY BootAssumption DEF Procs
<1>a. ASSUME NEW p \in Procs, NEW l \in Pcs \ Early, Goto(p, l), UNCHANGED <<given, cwd, tmpdir>>,
             pc[p] # "workdir", pc[p] # "none" \/ pc[Browser] \notin Early
      PROVE  TmpInv'
  <2>1. pc'[p] = l /\ l \notin Early /\ \A q \in Procs \ {p} : pc'[q] = pc[q]
    BY <1>a, GotoMoves
  <2>2. pc'[Browser] \notin Early
    BY <1>0, <1>a, <2>1 DEF TmpInv, Procs
  <2>3. pc[Browser] # "workdir"
    BY <1>0, <1>a, <2>1, <2>2 DEF Early
  <2>4. \A q \in Procs : pc'[q] \in Early => tmpdir'[q] = "none"
    BY <1>a, <2>1 DEF TmpInv
  <2>5. (Launched <=> Launched') /\ \A d \in Dirs \cup {cwd} : Writable(d) <=> Writable(d)'
    BY <1>a DEF Launched, Writable
  <2> QED
    BY <1>a, <2>2, <2>3, <2>4, <2>5 DEF TmpInv
<1>1. CASE ChooseWorkDir
  <2>1. /\ pc[Browser] = "workdir" /\ pc'[Browser] = "log"
        /\ \A q \in Procs \ {Browser} : pc'[q] = pc[q]
        /\ tmpdir' = tmpdir /\ given' = given
    BY <1>0, <1>1, GotoMoves DEF ChooseWorkDir, At, Pcs
  <2>2. (\A c \in Children : pc[c] = "none") /\ (\A p \in Procs : tmpdir[p] = "none")
    BY <1>0, <2>1 DEF TmpInv, Early, Procs
  <2>3. cwd' = IF Writable("home") THEN "home" ELSE IF Writable("data") THEN "data" ELSE "assets"
    BY <1>1 DEF ChooseWorkDir
  <2>4. (\E d \in Dirs : Writable(d)) => Writable(cwd')
    BY <2>3 DEF Writable, Dirs
  <2>5. /\ (\E d \in Dirs : Writable(d)') => \E d \in Dirs : Writable(d)
        /\ Writable(cwd') => Writable(cwd)'
    BY <2>1 DEF Writable
  <2> QED
    BY <1>0, <2>1, <2>2, <2>4, <2>5 DEF TmpInv
<1>2. CASE RedirectLog
  <2>1. /\ pc[Browser] = "log" /\ pc'[Browser] = "exec"
        /\ \A q \in Procs \ {Browser} : pc'[q] = pc[q]
        /\ tmpdir' = tmpdir /\ given' = given /\ cwd' = cwd
    BY <1>0, <1>2, GotoMoves DEF RedirectLog, At, Pcs
  <2>2. (Launched <=> Launched') /\ \A d \in Dirs \cup {cwd} : Writable(d) <=> Writable(d)'
    BY <2>1 DEF Launched, Writable
  <2>3. (\A c \in Children : pc[c] = "none") /\ tmpdir[Browser] = "none"
    BY <1>0, <2>1 DEF TmpInv, Early
  <2>4. \A q \in Procs : pc'[q] \in Early => tmpdir'[q] = "none"
    BY <2>1, <2>3 DEF TmpInv
  <2> QED
    BY <1>0, <2>1, <2>2, <2>3, <2>4 DEF TmpInv
<1>3. CASE Exec \/ ExecFails
  <2>1. /\ pc[Browser] = "exec" /\ UNCHANGED <<given, cwd, tmpdir>>
        /\ \E l \in Pcs \ Early : Goto(Browser, l)
    BY <1>3 DEF Exec, ExecFails, At, Pcs, Early
  <2> QED
    BY <1>0, <2>1, <1>a
<1>4. ASSUME NEW p \in Procs,
             \/ ReadArguments(p) \/ RedirectChildOutput(p) \/ InstallHandlers(p) \/ FindMarker(p)
             \/ ArmWatchdog(p) \/ Probe(p) \/ ContentMain(p) \/ Crash(p)
      PROVE  TmpInv'
  <2>1. /\ pc[p] \notin Early /\ UNCHANGED <<given, cwd, tmpdir>>
        /\ \E l \in Pcs \ Early : Goto(p, l)
    BY <1>4 DEF ReadArguments, RedirectChildOutput, InstallHandlers, FindMarker, ArmWatchdog,
                Probe, ContentMain, Crash, At, Pcs, Early
  <2> QED
    BY <2>1, <1>a DEF Early
<1>5. ASSUME NEW p \in Procs, SetUpEnvironment(p) PROVE TmpInv'
  <2>1. /\ pc[p] = "environment" /\ pc'[p] = "probe" /\ \A q \in Procs \ {p} : pc'[q] = pc[q]
        /\ given' = given /\ cwd' = cwd
    BY <1>5, GotoMoves DEF SetUpEnvironment, At, Pcs
  <2>2. tmpdir'[p] = cwd /\ \A q \in Procs \ {p} : tmpdir'[q] = tmpdir[q]
    BY <1>5 DEF SetUpEnvironment, TypeOK
  <2>3. pc'[Browser] \notin Early /\ pc[Browser] # "workdir"
    BY <1>0, <2>1 DEF TmpInv, Early, Procs
  <2>4. (Launched <=> Launched') /\ \A d \in Dirs \cup {cwd} : Writable(d) <=> Writable(d)'
    BY <2>1 DEF Launched, Writable
  <2>5. \A q \in Procs : /\ pc'[q] \in Early => tmpdir'[q] = "none"
                         /\ tmpdir'[q] # "none" => tmpdir'[q] = cwd'
    BY <2>1, <2>2 DEF TmpInv, Early
  <2> QED
    BY <2>1, <2>3, <2>4, <2>5 DEF TmpInv
<1>6. ASSUME NEW c \in Children, NEW t \in Types, LaunchChild(c, t) PROVE TmpInv'
  <2>1. /\ pc[Browser] \notin Early /\ pc[c] = "none" /\ UNCHANGED <<given, cwd, tmpdir>>
        /\ Goto(c, "arguments") /\ "arguments" \in Pcs \ Early
    BY <1>6 DEF LaunchChild, At, Pcs, Early
  <2> QED
    BY <1>0, <2>1, <1>a
<1>7. CASE WatchdogFires
  <2>0. pc[Browser] \notin Early
    BY <1>7 DEF WatchdogFires, DaemonInv
  <2>1. UNCHANGED <<given, cwd, tmpdir>> /\ Goto(Browser, "dead") /\ "dead" \in Pcs \ Early
    BY <1>7 DEF WatchdogFires, Pcs, Early
  <2> QED
    BY <1>0, <2>0, <2>1, <1>a DEF Early
<1>8. ASSUME UNCHANGED <<given, pc, cwd, tmpdir>> PROVE TmpInv'
  BY <1>8 DEF TmpInv, Launched, Writable
<1>9. CASE Commit \/ (\E p \in Procs : WriteLine(p)) \/ UNCHANGED vars
  BY <1>8, <1>9 DEF Commit, WriteLine, vars
<1> QED
  BY <1>1, <1>2, <1>3, <1>4, <1>5, <1>6, <1>7, <1>9 DEF Next, Main

LEMMA StepKeepsDisplay ==
  ASSUME TypeOK, TmpInv, DisplayInv, DaemonInv, [Next]_vars PROVE DisplayInv'
<1>0. Browser \in Procs /\ \A c \in Children : c \in Procs /\ c # Browser
  BY BootAssumption DEF Procs
<1>00. ASSUME NEW c \in Children, pc[c] # "none" PROVE pc[Browser] \notin Early
  BY <1>00 DEF TmpInv
<1>a. ASSUME NEW p \in Procs, NEW l \in Pcs, Goto(p, l), UNCHANGED <<given, startVars, display>>,
             l = "dead" \/ l = "log" \/ (pc[p] \notin Early \cup {"dead"} /\ l \notin Early),
             l # "log" \/ pc[p] = "workdir", l # "dead" \/ pc[p] \notin {"workdir", "log"},
             l # "none", l = "log" => p = Browser
      PROVE  DisplayInv'
  <2>1. pc'[p] = l /\ \A q \in Procs \ {p} : pc'[q] = pc[q]
    BY <1>a, GotoMoves
  <2> QED
    BY <1>0, <1>a, <2>1 DEF DisplayInv, Launched, startVars, Early
<1>1. CASE ChooseWorkDir
  BY <1>0, <1>1, <1>a DEF ChooseWorkDir, At, Pcs, Early
<1>2. CASE RedirectLog
  <2>1. /\ pc'[Browser] = "exec" /\ \A q \in Procs \ {Browser} : pc'[q] = pc[q]
        /\ UNCHANGED <<given, type, argv, display>>
    BY <1>0, <1>2, GotoMoves DEF RedirectLog, Pcs
  <2>2. env'[Browser] = env[Browser] \ {"QNX_GPU_PROBE"}
        /\ \A q \in Procs \ {Browser} : env'[q] = env[q]
    BY <1>0, <1>2 DEF RedirectLog, TypeOK
  <2> QED
    BY <1>0, <2>1, <2>2 DEF DisplayInv, Launched, Early, Procs
<1>3. CASE Exec
  <2>1. /\ pc[Browser] = "exec" /\ pc'[Browser] = "arguments"
        /\ \A q \in Procs \ {Browser} : pc'[q] = pc[q]
        /\ UNCHANGED <<given, type, env, display>>
    BY <1>0, <1>3, GotoMoves DEF Exec, Pcs, At
  <2>2. /\ "--in-process-gpu" \in argv'[Browser] \/ "--single-process" \in argv'[Browser]
        /\ \A q \in Procs \ {Browser} : argv'[q] = argv[q]
    BY <1>0, <1>3 DEF Exec, TypeOK
  <2> QED
    BY <1>0, <2>1, <2>2 DEF DisplayInv, Launched, Early
<1>4. ASSUME NEW p \in Procs,
             \/ ReadArguments(p) \/ RedirectChildOutput(p) \/ InstallHandlers(p) \/ FindMarker(p)
             \/ ArmWatchdog(p) \/ SetUpEnvironment(p) \/ Crash(p)
      PROVE  DisplayInv'
  <2>1. /\ pc[p] \notin Early \cup {"dead"} /\ UNCHANGED <<given, startVars, display>>
        /\ \E l \in Pcs \ Early : Goto(p, l)
    BY <1>4 DEF ReadArguments, RedirectChildOutput, InstallHandlers, FindMarker, ArmWatchdog,
                SetUpEnvironment, Crash, At, Pcs, Early
  <2> QED
    BY <2>1, <1>a DEF Early
<1>5. ASSUME NEW p \in Procs, Probe(p) \/ ContentMain(p) PROVE DisplayInv'
  <2>1. /\ pc[p] \in {"probe", "content"} /\ pc'[p] \in {"content", "running"}
        /\ \A q \in Procs \ {p} : pc'[q] = pc[q]
        /\ UNCHANGED <<given, type, argv, env>>
    BY <1>5, GotoMoves DEF Probe, ContentMain, At, Pcs, startVars
  <2>2. \/ display' = display
        \/ /\ display' = display \cup {p}
           /\ "QNX_GPU_PROBE" \in env[p] \/ "--ozone-platform" \in argv[p]
    BY <1>5 DEF Probe, ContentMain
  <2>3. ASSUME NEW c \in Children, c \in display', c \notin display
        PROVE  /\ type[c] = "gpu-process" \/ (~Launched /\ "QNX_GPU_PROBE" \in given)
               /\ ~Launched /\ pc'[c] # "none"
    <3>1. c = p /\ ("QNX_GPU_PROBE" \in env[c] \/ "--ozone-platform" \in argv[c])
      BY <2>2, <2>3
    <3> QED
      BY <1>0, <2>1, <3>1 DEF DisplayInv
  <2>4. \A c \in Children : c \in display' => c \in display \/ ~Launched
    BY <2>3
  <2>5. pc[Browser] \notin {"workdir", "log"} \cup Early \cup {"dead"}
        \/ (pc'[Browser] = pc[Browser])
    BY <1>0, <2>1 DEF Early
  <2> QED
    BY <1>0, <2>1, <2>3, <2>4, <2>5 DEF DisplayInv, Launched, Early
<1>6. ASSUME NEW c \in Children, NEW t \in Types, LaunchChild(c, t) PROVE DisplayInv'
  <2>1. /\ pc[Browser] = "running" /\ pc[c] = "none" /\ "--single-process" \notin argv[Browser]
        /\ t = "gpu-process" => "--in-process-gpu" \notin argv[Browser]
        /\ UNCHANGED <<given, display>>
    BY <1>6 DEF LaunchChild, At
  <2>2. pc'[c] = "arguments" /\ \A q \in Procs \ {c} : pc'[q] = pc[q]
    BY <1>0, <1>6, GotoMoves DEF LaunchChild, Pcs
  <2>3. /\ type'[c] = t /\ argv'[c] = Forwarded(t) /\ env'[c] = env[Browser]
        /\ \A q \in Procs \ {c} : type'[q] = type[q] /\ argv'[q] = argv[q] /\ env'[q] = env[q]
    BY <1>0, <1>6 DEF LaunchChild, TypeOK
  <2>4. "--ozone-platform" \in Forwarded(t) => t = "gpu-process"
    BY DEF Forwarded, CommonSwitches
  <2>5. c \notin display
    BY <2>1 DEF DisplayInv
  <2>6. Launched => t # "gpu-process" /\ "QNX_GPU_PROBE" \notin env[Browser]
    BY <2>1 DEF DisplayInv, Early
  <2>7. "QNX_GPU_PROBE" \in env[Browser] => "QNX_GPU_PROBE" \in given
    BY <1>0 DEF DisplayInv
  <2>8. Launched <=> Launched'
    BY <2>1 DEF Launched
  <2> QED
    BY <1>0, <2>1, <2>2, <2>3, <2>4, <2>5, <2>6, <2>7, <2>8 DEF DisplayInv, Early
<1>7. CASE ExecFails
  BY <1>0, <1>7, <1>a DEF ExecFails, At, Pcs, Early
<1>8. CASE WatchdogFires
  <2>1. pc'[Browser] = "dead" /\ \A q \in Procs \ {Browser} : pc'[q] = pc[q]
    BY <1>0, <1>8, GotoMoves DEF WatchdogFires, Pcs
  <2>2. pc[Browser] \notin Early
    BY <1>8 DEF WatchdogFires, DaemonInv
  <2> QED
    BY <1>0, <1>8, <2>1, <2>2 DEF WatchdogFires, DisplayInv, Launched, startVars, Early
<1>9. ASSUME UNCHANGED <<given, pc, startVars, display>> PROVE DisplayInv'
  BY <1>9 DEF DisplayInv, Launched, startVars
<1>10. CASE Commit \/ (\E p \in Procs : WriteLine(p)) \/ UNCHANGED vars
  BY <1>9, <1>10 DEF Commit, WriteLine, vars
<1> QED
  BY <1>1, <1>2, <1>3, <1>4, <1>5, <1>6, <1>7, <1>8, <1>10 DEF Next, Main

LEMMA StepKeepsDaemon == ASSUME TypeOK, TmpInv, DaemonInv, [Next]_vars PROVE DaemonInv'
<1> USE DEF MarkerFound
<1>0. Browser \in Procs /\ \A c \in Children : c \in Procs /\ c # Browser
  BY BootAssumption DEF Procs
<1>a. ASSUME NEW p \in Procs, NEW l \in Pcs, Goto(p, l),
             UNCHANGED <<given, argv, watchdog>>, env'[Browser] = env[Browser],
             daemon \subseteq daemon',
             p # Browser \/ pc[p] \in {"output", "handlers"} \/ l \notin {"output", "handlers", "marker", "watchdog"},
             p # Browser \/ l # "watchdog",
             p # Browser \/ l \notin Early \/ pc[p] \in Early
      PROVE  DaemonInv'
  <2>1. pc'[p] = l /\ \A q \in Procs \ {p} : pc'[q] = pc[q]
    BY <1>a, GotoMoves
  <2> QED
    BY <1>0, <1>a, <2>1 DEF DaemonInv, DaemonNotKilled
<1>1. CASE ChooseWorkDir
  BY <1>0, <1>1, <1>a DEF ChooseWorkDir, At, Pcs, Early, startVars
<1>2. CASE RedirectLog
  <2>1. /\ pc[Browser] = "log" /\ pc'[Browser] = "exec"
        /\ UNCHANGED <<given, argv, daemon, watchdog>>
    BY <1>0, <1>2, GotoMoves DEF RedirectLog, Pcs, At
  <2>2. "QNX_BERRY_DAEMON=1" \in env[Browser] => "QNX_BERRY_DAEMON=1" \in env'[Browser]
    BY <1>0, <1>2 DEF RedirectLog, TypeOK
  <2> QED
    BY <2>1, <2>2 DEF DaemonInv, DaemonNotKilled, Early
<1>3. CASE Exec
  <2>1. /\ pc[Browser] = "exec" /\ pc'[Browser] = "arguments"
        /\ UNCHANGED <<given, env, daemon, watchdog>>
    BY <1>0, <1>3, GotoMoves DEF Exec, Pcs, At
  <2> QED
    BY <2>1 DEF DaemonInv, DaemonNotKilled, Early
<1>4. ASSUME NEW p \in Procs,
             \/ RedirectChildOutput(p) \/ InstallHandlers(p) \/ SetUpEnvironment(p) \/ Probe(p)
             \/ ContentMain(p) \/ Crash(p)
      PROVE  DaemonInv'
  <2>1. UNCHANGED <<given, argv, env, watchdog, daemon>> /\ pc[p] \notin Early
    BY <1>4 DEF RedirectChildOutput, InstallHandlers, SetUpEnvironment, Probe, ContentMain, Crash,
                At, Early, startVars
  <2>2. \/ pc[p] \in {"output", "handlers"} /\ (Goto(p, "handlers") \/ Goto(p, "marker"))
        \/ Goto(p, "probe") \/ Goto(p, "content") \/ Goto(p, "running") \/ Goto(p, "dead")
    BY <1>4 DEF RedirectChildOutput, InstallHandlers, SetUpEnvironment, Probe, ContentMain, Crash,
                At
  <2> QED
    BY <2>1, <2>2, <1>a DEF Pcs, Early
<1>5. ASSUME NEW p \in Procs, ReadArguments(p) \/ FindMarker(p) PROVE DaemonInv'
  <2>1. /\ UNCHANGED <<given, argv, env, watchdog>> /\ daemon \subseteq daemon'
        /\ \A q \in Procs \ {p} : pc'[q] = pc[q]
        /\ (pc[p] = "arguments" /\ pc'[p] = "output") \/ (pc[p] = "marker" /\ pc'[p] = "watchdog")
    BY <1>5, GotoMoves DEF ReadArguments, FindMarker, At, Pcs, startVars
  <2>2. pc[p] = "arguments" => ("--berry-daemon" \in argv[p] \/ "QNX_BERRY_DAEMON=1" \in env[p]
                                  => p \in daemon')
    BY <1>5 DEF ReadArguments, FindMarker, At
  <2>3. pc[p] = "marker" => (MarkerFound => p \in daemon')
    BY <1>5 DEF ReadArguments, FindMarker, At
  <2> QED
    BY <1>0, <2>1, <2>2, <2>3 DEF DaemonInv, DaemonNotKilled, Early
<1>6. ASSUME NEW p \in Procs, ArmWatchdog(p) PROVE DaemonInv'
  <2>1. /\ UNCHANGED <<given, argv, env, daemon>>
        /\ \A q \in Procs \ {p} : pc'[q] = pc[q]
        /\ pc[p] = "watchdog" /\ pc'[p] = "environment"
        /\ watchdog' = IF NeedsWatchdog(p) THEN "armed" ELSE watchdog
    BY <1>6, GotoMoves DEF ArmWatchdog, At, Pcs, startVars
  <2>2. CASE NeedsWatchdog(p)
    BY <2>1, <2>2 DEF NeedsWatchdog, DaemonInv, DaemonNotKilled, Early
  <2>3. CASE ~NeedsWatchdog(p)
    BY <1>0, <2>1, <2>3 DEF DaemonInv, DaemonNotKilled, Early
  <2> QED
    BY <2>2, <2>3
<1>7. ASSUME NEW c \in Children, NEW t \in Types, LaunchChild(c, t) PROVE DaemonInv'
  <2>1. pc'[Browser] = pc[Browser]
    BY <1>0, <1>7, GotoMoves DEF LaunchChild, Pcs
  <2>2. /\ argv'[Browser] = argv[Browser] /\ env'[Browser] = env[Browser]
        /\ UNCHANGED <<given, daemon, watchdog>>
    BY <1>0, <1>7 DEF LaunchChild, TypeOK
  <2> QED
    BY <2>1, <2>2 DEF DaemonInv, DaemonNotKilled
<1>8. CASE ExecFails
  BY <1>0, <1>8, <1>a DEF ExecFails, At, Pcs, Early, startVars
<1>9. CASE WatchdogFires
  <2>1. pc'[Browser] = "dead"
    BY <1>0, <1>9, GotoMoves DEF WatchdogFires, Pcs
  <2> QED
    BY <1>9, <2>1 DEF WatchdogFires, DaemonInv, DaemonNotKilled, startVars, Early
<1>10. CASE Commit
  BY <1>10 DEF Commit, DaemonInv, DaemonNotKilled, startVars, At, Early
<1>11. CASE (\E p \in Procs : WriteLine(p)) \/ UNCHANGED vars
  BY <1>11 DEF WriteLine, vars, DaemonInv, DaemonNotKilled, startVars
<1> QED
  BY <1>1, <1>2, <1>3, <1>4, <1>5, <1>6, <1>7, <1>8, <1>9, <1>10, <1>11 DEF Next, Main

IInv == TypeOK /\ LogInv /\ TmpInv /\ DisplayInv /\ DaemonInv

LEMMA InitHolds == Init => IInv
<1> SUFFICES ASSUME Init PROVE IInv
  OBVIOUS
<1>0. Browser \in Procs /\ \A c \in Children : c \in Procs /\ c # Browser
  BY BootAssumption DEF Procs
<1>1. pc[Browser] = IF Launched THEN "workdir" ELSE "arguments"
  BY <1>0 DEF Init, Launched
<1>2. \A c \in Children : pc[c] = "none" /\ type[c] = "none" /\ argv[c] = {} /\ env[c] = {}
  BY <1>0 DEF Init
<1>3. env[Browser] = given \cap Variables
  BY <1>0 DEF Init
<1>4. LogInv
  BY <1>0, <1>1 DEF Init, LogInv
<1>5. TmpInv
  BY <1>0, <1>1, <1>2 DEF Init, TmpInv, Early
<1>6. DisplayInv
  BY <1>0, <1>1, <1>2, <1>3 DEF Init, DisplayInv, Early, Procs
<1>7. DaemonInv
  BY <1>1, <1>3 DEF Init, DaemonInv, DaemonNotKilled, Early, Variables
<1> QED
  BY <1>4, <1>5, <1>6, <1>7, InitTyped DEF IInv

LEMMA AlwaysIInv == Spec => []IInv
<1>1. IInv /\ [Next]_vars => IInv'
  <2> SUFFICES ASSUME IInv, [Next]_vars PROVE IInv'
    OBVIOUS
  <2>1. pc[Browser] = "log" => offset = 0
    BY DEF IInv, LogInv
  <2> QED
    BY <2>1, StepKeepsTypes, StepKeepsLog, StepKeepsTmp, StepKeepsDisplay, StepKeepsDaemon DEF IInv
<1> QED
  BY <1>1, InitHolds, PTL DEF Spec

\* Every variable of the start has its type, and the launcher's offset stays
\* within the log (launcher.c, shell_main.cc).
THEOREM TypeCorrect == Spec => []TypeOK
<1>1. IInv => TypeOK
  BY DEF IInv
<1> QED
  BY <1>1, AlwaysIInv, PTL

\* No line of the browser is overwritten, for any number of children that
\* append to its log (launcher.c:135, shell_main.cc:196).
THEOREM BrowserLinesSurvive == Spec => []BrowserLinesKept
<1>1. IInv => BrowserLinesKept
  BY DEF IInv, LogInv, BrowserLinesKept
<1> QED
  BY <1>1, AlwaysIInv, PTL

\* Only a GPU process, or a child of a probe over SSH, initialises the display
\* besides the browser; after the launcher nothing does (launcher.c:144-147).
THEOREM OneDisplayOwner == Spec => []DisplayOwners
<1>1. IInv /\ display \subseteq Procs => DisplayOwners
  BY DEF IInv, DisplayInv, DisplayOwners, Procs
<1>2. IInv => display \subseteq Procs
  BY DEF IInv, TypeOK
<1> QED
  BY <1>1, <1>2, AlwaysIInv, PTL

\* All processes have the temporary directory the launcher found writable
\* (launcher.c:82-90, shell_main.cc:271-291).
THEOREM TmpIsUsable == Spec => []TmpUsable
<1>1. ASSUME IInv PROVE TmpUsable
  <2>1. ASSUME NEW p \in Procs, tmpdir[p] # "none", Launched, \E d \in Dirs : Writable(d)
        PROVE  Writable(cwd)
    <3>1. pc[p] \notin Early
      BY <1>1, <2>1 DEF IInv, TmpInv
    <3>2. pc[Browser] # "workdir"
      BY <1>1, <3>1 DEF IInv, TmpInv, Early, Procs
    <3> QED
      BY <1>1, <2>1, <3>2 DEF IInv, TmpInv
  <2> QED
    BY <1>1, <2>1 DEF IInv, TmpInv, TmpUsable
<1> QED
  BY <1>1, AlwaysIInv, PTL

\* The boot watchdog is never armed for a browser asked to be a daemon by its
\* switch, the variable, or a marker that argv[0] leads to
\* (shell_main.cc:226-270).
THEOREM DaemonsSurvive == Spec => []DaemonNotKilled
<1>1. IInv => DaemonNotKilled
  BY DEF IInv, DaemonInv
<1> QED
  BY <1>1, AlwaysIInv, PTL
-----------------------------------------------------------------------------
(* What DumpDomBootEnds needs besides a timer that expires.                *)

AskedForDaemon ==
  \/ "--berry-daemon" \in argv[Browser]
  \/ "QNX_BERRY_DAEMON=1" \in given \/ MarkerFound

\* Once past main()'s watchdog step, a one-shot --dump-dom start that nothing
\* exempts has the watchdog armed, or has committed a page.
OneShotWatched ==
  /\ pc[Browser] \in {"environment", "probe", "content", "running"}
  /\ "--dump-dom" \in argv[Browser] /\ "QNX_BOOT_WATCHDOG_MS=0" \notin given
  /\ ~AskedForDaemon
  => watchdog \in {"armed", "cancelled"}

\* The browser is a daemon, and free of the watchdog, only for a reason.
WatchInv ==
  /\ env[Browser] \subseteq given
  /\ pc[Browser] \in Early => Browser \notin daemon
  /\ Browser \in daemon => AskedForDaemon
  /\ watchdog = "fired" => pc[Browser] = "dead"
  /\ OneShotWatched

LEMMA StepKeepsWatch == ASSUME TypeOK, WatchInv, [Next]_vars PROVE WatchInv'
<1> USE DEF WatchInv, OneShotWatched, AskedForDaemon, MarkerFound
<1>0. Browser \in Procs /\ \A c \in Children : c \in Procs /\ c # Browser
  BY BootAssumption DEF Procs
<1>a. ASSUME NEW p \in Procs, NEW l \in Pcs, Goto(p, l), pc[p] # "dead",
             UNCHANGED <<given, argv, daemon, watchdog>>, env'[Browser] \subseteq env[Browser],
             p # Browser \/ l \notin Early \/ pc[p] \in Early,
             p # Browser \/ l \notin {"environment", "probe", "content", "running"}
               \/ pc[p] \in {"environment", "probe", "content", "running"}
      PROVE  WatchInv'
  <2>1. pc'[p] = l /\ \A q \in Procs \ {p} : pc'[q] = pc[q]
    BY <1>a, GotoMoves
  <2> QED
    BY <1>0, <1>a, <2>1
<1>1. CASE ChooseWorkDir
  BY <1>0, <1>1, <1>a DEF ChooseWorkDir, At, Pcs, Early, startVars
<1>2. CASE RedirectLog
  <2>1. env'[Browser] \subseteq env[Browser]
    BY <1>0, <1>2 DEF RedirectLog, TypeOK
  <2> QED
    BY <1>0, <1>2, <1>a, <2>1 DEF RedirectLog, At, Pcs, Early
<1>3. CASE Exec
  <2>1. /\ pc[Browser] = "exec" /\ pc'[Browser] = "arguments"
        /\ UNCHANGED <<given, env, daemon, watchdog>>
    BY <1>0, <1>3, GotoMoves DEF Exec, Pcs, At
  <2> QED
    BY <2>1 DEF Early
<1>4. ASSUME NEW p \in Procs,
             \/ RedirectChildOutput(p) \/ InstallHandlers(p) \/ SetUpEnvironment(p) \/ Probe(p)
             \/ ContentMain(p) \/ Crash(p)
      PROVE  WatchInv'
  <2>1. UNCHANGED <<given, argv, env, watchdog, daemon>>
    BY <1>4 DEF RedirectChildOutput, InstallHandlers, SetUpEnvironment, Probe, ContentMain, Crash,
                startVars
  <2>2. \/ pc[p] = "output" /\ Goto(p, "handlers")
        \/ pc[p] = "handlers" /\ Goto(p, "marker")
        \/ pc[p] = "environment" /\ Goto(p, "probe")
        \/ pc[p] = "probe" /\ Goto(p, "content")
        \/ pc[p] = "content" /\ Goto(p, "running")
        \/ pc[p] # "dead" /\ Goto(p, "dead")
    BY <1>4 DEF RedirectChildOutput, InstallHandlers, SetUpEnvironment, Probe, ContentMain, Crash,
                At
  <2> QED
    BY <2>1, <2>2, <1>a DEF Pcs, Early, At
<1>5. ASSUME NEW p \in Procs, ReadArguments(p) \/ FindMarker(p) PROVE WatchInv'
  <2>1. /\ UNCHANGED <<given, argv, env, watchdog>>
        /\ \A q \in Procs \ {p} : pc'[q] = pc[q]
        /\ (pc[p] = "arguments" /\ pc'[p] = "output") \/ (pc[p] = "marker" /\ pc'[p] = "watchdog")
    BY <1>5, GotoMoves DEF ReadArguments, FindMarker, At, Pcs, startVars
  <2>2. \/ daemon' = daemon
        \/ /\ daemon' = daemon \cup {p}
           /\ \/ "--berry-daemon" \in argv[p] \/ "QNX_BERRY_DAEMON=1" \in env[p]
              \/ MarkerFound
    BY <1>5 DEF ReadArguments, FindMarker
  <2> QED
    BY <1>0, <2>1, <2>2 DEF Early
<1>6. ASSUME NEW p \in Procs, ArmWatchdog(p) PROVE WatchInv'
  <2>1. /\ UNCHANGED <<given, argv, env, daemon>>
        /\ \A q \in Procs \ {p} : pc'[q] = pc[q]
        /\ pc[p] = "watchdog" /\ pc'[p] = "environment"
        /\ watchdog' = IF NeedsWatchdog(p) THEN "armed" ELSE watchdog
    BY <1>6, GotoMoves DEF ArmWatchdog, At, Pcs, startVars
  <2>2. CASE NeedsWatchdog(p)
    BY <1>0, <2>1, <2>2 DEF NeedsWatchdog, Early
  <2>3. CASE ~NeedsWatchdog(p)
    BY <1>0, <2>1, <2>3 DEF NeedsWatchdog, Early
  <2> QED
    BY <2>2, <2>3
<1>7. ASSUME NEW c \in Children, NEW t \in Types, LaunchChild(c, t) PROVE WatchInv'
  <2>1. pc'[Browser] = pc[Browser]
    BY <1>0, <1>7, GotoMoves DEF LaunchChild, Pcs
  <2>2. /\ argv'[Browser] = argv[Browser] /\ env'[Browser] = env[Browser]
        /\ UNCHANGED <<given, daemon, watchdog>>
    BY <1>0, <1>7 DEF LaunchChild, TypeOK
  <2> QED
    BY <2>1, <2>2
<1>8. CASE ExecFails
  BY <1>0, <1>8, <1>a DEF ExecFails, At, Pcs, Early, startVars
<1>9. CASE WatchdogFires
  <2>1. pc'[Browser] = "dead"
    BY <1>0, <1>9, GotoMoves DEF WatchdogFires, Pcs
  <2> QED
    BY <1>9, <2>1 DEF WatchdogFires, startVars, Early
<1>10. CASE Commit
  BY <1>10 DEF Commit, startVars, At, Early
<1>11. CASE (\E p \in Procs : WriteLine(p)) \/ UNCHANGED vars
  BY <1>11 DEF WriteLine, vars, startVars
<1> QED
  BY <1>1, <1>2, <1>3, <1>4, <1>5, <1>6, <1>7, <1>8, <1>9, <1>10, <1>11 DEF Next, Main

\* No way through main() leaves a one-shot --dump-dom start without its
\* watchdog, unless a switch, a variable or a marker that was found asks for that
\* (shell_main.cc:243-270).
THEOREM OneShotsAreWatched == Spec => []OneShotWatched
<1>0. Browser \in Procs
  BY BootAssumption DEF Procs
<1>1. Init => WatchInv
  BY <1>0 DEF Init, WatchInv, OneShotWatched, Early
<1>2. WatchInv => OneShotWatched
  BY DEF WatchInv
<1> QED
  BY <1>1, <1>2, StepKeepsWatch, TypeCorrect, PTL DEF Spec
=============================================================================
