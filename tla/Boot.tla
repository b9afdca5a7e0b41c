-------------------------------- MODULE Boot --------------------------------
(***************************************************************************)
(* The start of the browser and of its children.  The Navigator starts the *)
(* launcher of the .bar (launcher.c), which sets up a directory, the log   *)
(* and the environment and becomes content_shell; over SSH content_shell   *)
(* is started directly.  main() (shell_main.cc) runs in the browser and,   *)
(* with what they inherit from it, in the children it launches.            *)
(* A switch, a variable and a fact about the device are each a name; all   *)
(* that holds of one start is the set `given`.                             *)
(***************************************************************************)
EXTENDS Naturals, Sequences, FiniteSets

CONSTANTS
  Children,      \* the child processes that may be launched
  Browser,
  MaxSettings,   \* bound: departures of one start from the default one
  MaxLines       \* bound: lines a process writes of its own accord

ASSUME BootAssumption ==
  /\ Browser \notin Children
  /\ MaxSettings \in Nat /\ MaxLines \in Nat

Procs == {Browser} \cup Children
Types == {"renderer", "gpu-process", "utility"}

CommonSwitches == {"--disable-features", "--force-device-scale-factor"}
GpuSwitches == {"--use-gl", "--ozone-platform", "--ignore-gpu-blocklist",
                "--enable-gpu-rasterization"}
UserSwitches == {"--dump-dom", "--berry-daemon", "--single-process"} \cup GpuSwitches
Switches == CommonSwitches \cup UserSwitches \cup {"--in-process-gpu"}

\* A name stands for the values with its effect: any but 0 for the probe, and
\* any atoi makes 0 or less of for the watchdog.
Variables == {"QNX_MULTI_PROCESS=1", "QNX_BERRY_DAEMON=1", "QNX_GPU_PROBE",
              "QNX_BOOT_WATCHDOG_MS=0"}

\* Departures from a start by the Navigator with a writable home.  "no
\* directory": argv[0] names none, or one too long for the marker's path; the
\* children are launched by the browser's argv[0] (CHROME_EXE_PATH).
Device == {"no home", "no data", "assets writable", "no log", "berry-mp.enable",
           "berry-daemon.mode", "no directory"}
Settings == {"direct", "--dump-dom", "--berry-daemon", "--single-process", "--ozone-platform"}
              \cup Variables \cup Device

VARIABLES
  given,     \* what holds of this start
  pc,        \* pc[p]: the next step of process p
  type,      \* type[p]: "browser", or the value of --type
  argv,      \* argv[p]: its switches
  env,       \* env[p]: its environment
  cwd,       \* the directory all of them run in
  tmpdir,    \* tmpdir[p]: the directory TMPDIR is in, or "none"
  daemon,    \* processes that force-enabled the daemon mode
  display,   \* processes that initialised qnx_screen or EGL
  watchdog,  \* the boot watchdog: "off", "armed", "cancelled", "fired"
  out,       \* out[p]: where stdout and stderr of p go
  lines,     \* lines[p]: lines written by p
  log,       \* berry-kbd.log: a sequence of <<process, number of the line>>
  offset     \* the position of the description the launcher opened

logVars == <<out, lines, log, offset>>
startVars == <<type, argv, env>>
vars == <<given, pc, startVars, cwd, tmpdir, daemon, display, watchdog, logVars>>

Init ==
  /\ given \in SUBSET Settings /\ Cardinality(given) <= MaxSettings
  /\ pc = [p \in Procs |-> IF p # Browser THEN "none"
                           ELSE IF "direct" \in given THEN "arguments" ELSE "workdir"]
  /\ type = [p \in Procs |-> IF p = Browser THEN "browser" ELSE "none"]
  /\ argv = [p \in Procs |-> IF p = Browser THEN given \cap UserSwitches ELSE {}]
  /\ env = [p \in Procs |-> IF p = Browser THEN given \cap Variables ELSE {}]
  /\ cwd = "start" /\ tmpdir = [p \in Procs |-> "none"]
  /\ daemon = {} /\ display = {} /\ watchdog = "off"
  /\ out = [p \in Procs |-> "console"] /\ lines = [p \in Procs |-> 0]
  /\ log = <<>> /\ offset = 0

At(p, l) == pc[p] = l
Goto(p, l) == pc' = [pc EXCEPT ![p] = l]

\* p writes a line: at the end of the log, or at the launcher's offset.
Writes(p) ==
  /\ lines' = [lines EXCEPT ![p] = @ + 1]
  /\ UNCHANGED out
  /\ \/ /\ out[p] = "append"
        /\ log' = Append(log, <<p, lines[p] + 1>>) /\ UNCHANGED offset
     \/ /\ out[p] = "offset"
        /\ log' = IF offset < Len(log) THEN [log EXCEPT ![offset + 1] = <<p, lines[p] + 1>>]
                                       ELSE Append(log, <<p, lines[p] + 1>>)
        /\ offset' = offset + 1
     \/ out[p] = "console" /\ UNCHANGED <<log, offset>>
-----------------------------------------------------------------------------
(* launcher.c, in the process that becomes the browser. *)

Writable(d) ==
  \/ d = "home" /\ "no home" \notin given
  \/ d = "data" /\ "no data" \notin given
  \/ d = "assets" /\ "assets writable" \in given

\* Faulty variant: the directory is chosen but not changed to.
ChooseWorkDirOnly ==
  /\ At(Browser, "workdir")
  /\ Goto(Browser, "log")
  /\ UNCHANGED <<given, startVars, cwd, tmpdir, daemon, display, watchdog, logVars>>

\* The home directory, else the data directory of the installation, else that
\* of the assets, writable or not.
ChooseWorkDir ==
  /\ At(Browser, "workdir")
  /\ cwd' = IF Writable("home") THEN "home" ELSE IF Writable("data") THEN "data" ELSE "assets"
  /\ Goto(Browser, "log")
  /\ UNCHANGED <<given, startVars, tmpdir, daemon, display, watchdog, logVars>>

\* Faulty variant: the probe is left as the environment has it.
RedirectLogOnly ==
  /\ At(Browser, "log")
  /\ out' = [out EXCEPT ![Browser] = IF "no log" \in given THEN @ ELSE "offset"]
  /\ log' = IF "no log" \in given THEN log ELSE <<>>
  /\ Goto(Browser, "exec")
  /\ UNCHANGED <<given, startVars, cwd, tmpdir, daemon, display, watchdog, lines, offset>>

\* The log is truncated and opened without O_APPEND; the probe is switched off.
RedirectLog ==
  /\ At(Browser, "log")
  /\ out' = [out EXCEPT ![Browser] = IF "no log" \in given THEN @ ELSE "offset"]
  /\ log' = IF "no log" \in given THEN log ELSE <<>>
  /\ env' = [env EXCEPT ![Browser] = @ \ {"QNX_GPU_PROBE"}]
  /\ Goto(Browser, "exec")
  /\ UNCHANGED <<given, type, argv, cwd, tmpdir, daemon, display, watchdog, lines, offset>>

MultiProcess == "QNX_MULTI_PROCESS=1" \in env[Browser] \/ "berry-mp.enable" \in given

\* execv with the launcher's own switches and, as the URL, its first argument:
\* of what it was given at most one survives, and none if a URL comes first.
Exec ==
  /\ At(Browser, "exec")
  /\ \E first \in {{}} \cup {{s} : s \in argv[Browser]} :
       argv' = [argv EXCEPT ![Browser] =
                  first \cup CommonSwitches \cup GpuSwitches
                    \cup {IF MultiProcess THEN "--in-process-gpu" ELSE "--single-process"}]
  /\ Writes(Browser)
  /\ Goto(Browser, "arguments")
  /\ UNCHANGED <<given, type, env, cwd, tmpdir, daemon, display, watchdog>>

ExecFails ==
  /\ At(Browser, "exec")
  /\ Writes(Browser)
  /\ Goto(Browser, "dead")
  /\ UNCHANGED <<given, startVars, cwd, tmpdir, daemon, display, watchdog>>
-----------------------------------------------------------------------------
(* main(), in any process. *)

ReadArguments(p) ==
  /\ At(p, "arguments")
  /\ daemon' = IF "--berry-daemon" \in argv[p] \/ "QNX_BERRY_DAEMON=1" \in env[p]
               THEN daemon \cup {p} ELSE daemon
  /\ Goto(p, "output")
  /\ UNCHANGED <<given, startVars, cwd, tmpdir, display, watchdog, logVars>>

\* Faulty variant: a child opens the log with the launcher's O_TRUNC.
RedirectChildOutputTruncating(p) ==
  /\ At(p, "output")
  /\ Goto(p, "handlers")
  /\ IF p = Browser \/ "no log" \in given
     THEN UNCHANGED logVars
     ELSE /\ out' = [out EXCEPT ![p] = "append"]
          /\ lines' = [lines EXCEPT ![p] = @ + 1]
          /\ log' = <<<<p, lines[p] + 1>>>>
          /\ UNCHANGED offset
  /\ UNCHANGED <<given, startVars, cwd, tmpdir, daemon, display, watchdog>>

\* A child inherits the browser's description and opens one of its own with
\* O_APPEND, then writes its arguments; without a log they go the way of the
\* browser's lines.
RedirectChildOutput(p) ==
  /\ At(p, "output")
  /\ Goto(p, "handlers")
  /\ IF p = Browser
     THEN UNCHANGED logVars
     ELSE /\ lines' = [lines EXCEPT ![p] = @ + 1]
          /\ UNCHANGED offset
          /\ IF "no log" \in given
             THEN UNCHANGED <<out, log>>
             ELSE /\ out' = [out EXCEPT ![p] = "append"]
                  /\ log' = Append(log, <<p, lines[p] + 1>>)
  /\ UNCHANGED <<given, startVars, cwd, tmpdir, daemon, display, watchdog>>

InstallHandlers(p) ==
  /\ At(p, "handlers")
  /\ Goto(p, "marker")
  /\ UNCHANGED <<given, startVars, cwd, tmpdir, daemon, display, watchdog, logVars>>

\* Faulty variant: the marker beside the executable is not looked for.
FindNoMarker(p) ==
  /\ At(p, "marker")
  /\ Goto(p, "watchdog")
  /\ UNCHANGED <<given, startVars, cwd, tmpdir, daemon, display, watchdog, logVars>>

\* The marker is looked for only in the directory of argv[0].
MarkerFound == "berry-daemon.mode" \in given /\ "no directory" \notin given

FindMarker(p) ==
  /\ At(p, "marker")
  /\ daemon' = IF MarkerFound THEN daemon \cup {p} ELSE daemon
  /\ Goto(p, "watchdog")
  /\ UNCHANGED <<given, startVars, cwd, tmpdir, display, watchdog, logVars>>

NeedsWatchdog(p) ==
  /\ p = Browser
  /\ "--dump-dom" \in argv[p]
  /\ "QNX_BOOT_WATCHDOG_MS=0" \notin env[p]
  /\ p \notin daemon

\* Faulty variant: the first watchdog to be armed is that of a child.
ArmChildWatchdog(p) ==
  /\ At(p, "watchdog")
  /\ watchdog' = IF p # Browser /\ NeedsWatchdog(Browser) THEN "armed" ELSE watchdog
  /\ Goto(p, "environment")
  /\ UNCHANGED <<given, startVars, cwd, tmpdir, daemon, display, logVars>>

ArmWatchdog(p) ==
  /\ At(p, "watchdog")
  /\ watchdog' = IF NeedsWatchdog(p) THEN "armed" ELSE watchdog
  /\ Goto(p, "environment")
  /\ UNCHANGED <<given, startVars, cwd, tmpdir, daemon, display, logVars>>

\* TMPDIR is always set, to a directory made in the current one if that can be.
SetUpEnvironment(p) ==
  /\ At(p, "environment")
  /\ tmpdir' = [tmpdir EXCEPT ![p] = cwd]
  /\ Writes(p)
  /\ Goto(p, "probe")
  /\ UNCHANGED <<given, startVars, cwd, daemon, display, watchdog>>

\* The probe leaves EGL initialised in the process, if there is one to load.
Probe(p) ==
  /\ At(p, "probe")
  /\ \/ "QNX_GPU_PROBE" \in env[p] /\ display' = display \cup {p}
     \/ UNCHANGED display
  /\ Goto(p, "content")
  /\ UNCHANGED <<given, startVars, cwd, tmpdir, daemon, watchdog, logVars>>

\* ContentMain brings up the platform its switches name.
ContentMain(p) ==
  /\ At(p, "content")
  /\ display' = IF "--ozone-platform" \in argv[p] THEN display \cup {p} ELSE display
  /\ IF p = Browser THEN UNCHANGED logVars ELSE Writes(p)
  /\ Goto(p, "running")
  /\ UNCHANGED <<given, startVars, cwd, tmpdir, daemon, watchdog>>
-----------------------------------------------------------------------------
(* The running browser, and what can happen to a process. *)

\* AppendExtraCommandLineSwitches: only the GPU process gets those of the GPU.
Forwarded(t) ==
  argv[Browser] \cap IF t = "gpu-process" THEN CommonSwitches \cup GpuSwitches ELSE CommonSwitches

\* A child gets the browser's environment and descriptors.
LaunchChild(c, t) ==
  /\ At(Browser, "running") /\ At(c, "none")
  /\ "--single-process" \notin argv[Browser]
  /\ t = "gpu-process" => "--in-process-gpu" \notin argv[Browser]
  /\ type' = [type EXCEPT ![c] = t]
  /\ argv' = [argv EXCEPT ![c] = Forwarded(t)]
  /\ env' = [env EXCEPT ![c] = env[Browser]]
  /\ out' = [out EXCEPT ![c] = out[Browser]]
  /\ Goto(c, "arguments")
  /\ UNCHANGED <<given, cwd, tmpdir, daemon, display, watchdog, lines, log, offset>>

\* Shell cancels the watchdog once a page commits.
Commit ==
  /\ At(Browser, "running") /\ watchdog \in {"off", "armed"}
  /\ watchdog' = "cancelled"
  /\ UNCHANGED <<given, pc, startVars, cwd, tmpdir, daemon, display, logVars>>

\* At its deadline it ends the browser.
WatchdogFires ==
  /\ watchdog = "armed" /\ pc[Browser] # "dead"
  /\ watchdog' = "fired"
  /\ Goto(Browser, "dead")
  /\ UNCHANGED <<given, startVars, cwd, tmpdir, daemon, display, logVars>>

\* A line of the program, or of the SIGUSR1 handler.
WriteLine(p) ==
  /\ At(p, "running") /\ lines[p] < MaxLines
  /\ Writes(p)
  /\ UNCHANGED <<given, pc, startVars, cwd, tmpdir, daemon, display, watchdog>>

\* A fault: the handler, once installed, reports it and lets the process die.
Crash(p) ==
  /\ pc[p] \in {"marker", "watchdog", "environment", "probe", "content", "running"}
  /\ Writes(p)
  /\ Goto(p, "dead")
  /\ UNCHANGED <<given, startVars, cwd, tmpdir, daemon, display, watchdog>>
-----------------------------------------------------------------------------
Main(p) ==
  \/ ReadArguments(p) \/ RedirectChildOutput(p) \/ InstallHandlers(p) \/ FindMarker(p)
  \/ ArmWatchdog(p) \/ SetUpEnvironment(p) \/ Probe(p) \/ ContentMain(p)

Next ==
  \/ ChooseWorkDir \/ RedirectLog \/ Exec \/ ExecFails
  \/ \E p \in Procs : Main(p) \/ WriteLine(p) \/ Crash(p)
  \/ \E c \in Children, t \in Types : LaunchChild(c, t)
  \/ Commit \/ WatchdogFires

Spec == Init /\ [][Next]_vars

\* Up to the watchdog main() is straight-line code, and a timer expires; what
\* comes after may hang.
FairSpec ==
  /\ Spec
  /\ WF_vars(ReadArguments(Browser)) /\ WF_vars(RedirectChildOutput(Browser))
  /\ WF_vars(InstallHandlers(Browser)) /\ WF_vars(FindMarker(Browser))
  /\ WF_vars(ArmWatchdog(Browser)) /\ WF_vars(WatchdogFires)
-----------------------------------------------------------------------------
Pcs == {"none", "workdir", "log", "exec", "arguments", "output", "handlers", "marker",
        "watchdog", "environment", "probe", "content", "running", "dead"}
Dirs == {"start", "home", "data", "assets"}

TypeOK ==
  /\ given \subseteq Settings
  /\ pc \in [Procs -> Pcs]
  /\ type \in [Procs -> Types \cup {"browser", "none"}]
  /\ argv \in [Procs -> SUBSET Switches]
  /\ env \in [Procs -> SUBSET Variables]
  /\ cwd \in Dirs /\ tmpdir \in [Procs -> Dirs \cup {"none"}]
  /\ daemon \subseteq Procs /\ display \subseteq Procs
  /\ watchdog \in {"off", "armed", "cancelled", "fired"}
  /\ out \in [Procs -> {"console", "offset", "append"}]
  /\ lines \in [Procs -> Nat] /\ log \in Seq(Procs \X Nat) /\ offset \in 0 .. Len(log)

Launched == "direct" \notin given

\* No line of the browser is overwritten: its n-th line is the n-th of the
\* log, whatever its children write (launcher.c:135, shell_main.cc:196).
BrowserLinesKept ==
  out[Browser] = "offset" =>
    \A n \in 1 .. lines[Browser] : n \in DOMAIN log /\ log[n] = <<Browser, n>>

\* "Append their stdout/stderr to the shared log" (shell_main.cc:183): what a
\* child appended is still there.
ChildLinesKept ==
  \A c \in Children : out[c] = "append" =>
    \A n \in 1 .. lines[c] : \E i \in DOMAIN log : log[i] = <<c, n>>

\* "Renderers must not init qnx_screen/EGL" (shell_content_browser_client.cc:436):
\* of the children only a GPU process does, unless a probe was asked for over
\* SSH; started by the Navigator it is the browser alone (launcher.c:144-147, 196-198).
DisplayOwners ==
  /\ \A c \in display \cap Children :
       type[c] = "gpu-process" \/ (~Launched /\ "QNX_GPU_PROBE" \in given)
  /\ Launched => display \subseteq {Browser}

\* All processes share one temporary directory, and started by the launcher it
\* is writable if any of the three candidates is (launcher.c:82-90,
\* shell_main.cc:271-291).
TmpUsable ==
  \A p \in Procs : tmpdir[p] # "none" =>
    /\ tmpdir[p] = cwd
    /\ Launched /\ (\E d \in Dirs : Writable(d)) => Writable(tmpdir[p])

\* The boot watchdog is armed against no browser that was asked to be a daemon:
\* by the switch that reached it, by the variable however it was started, or by
\* the marker, where argv[0] leads to it (shell_main.cc:226-270, launcher.c:206-226).
DaemonNotKilled ==
  watchdog \in {"armed", "fired"} =>
    /\ ~MarkerFound /\ "QNX_BERRY_DAEMON=1" \notin given
    /\ "--berry-daemon" \notin argv[Browser]

\* A one-shot --dump-dom start that nothing exempts from the watchdog commits a
\* page or ends, even if ContentMain hangs, and even beside a marker that
\* argv[0] does not lead to (shell_main.cc:226-248).
DumpDomBootEnds ==
  /\ At(Browser, "arguments") /\ "--dump-dom" \in argv[Browser]
  /\ given \cap {"QNX_BERRY_DAEMON=1", "QNX_BOOT_WATCHDOG_MS=0"} = {} /\ ~MarkerFound
  /\ "--berry-daemon" \notin argv[Browser]
  ~> watchdog = "cancelled" \/ At(Browser, "dead")
=============================================================================
