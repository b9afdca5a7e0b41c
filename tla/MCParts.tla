------------------------------ MODULE MCParts ------------------------------
(***************************************************************************)
(* For TLC: the components of a process that share no state, side by side. *)
(* In one behaviour one of them moves and the others stay as they start.   *)
(***************************************************************************)
EXTENDS OzoneInit, Descriptors

CONSTANTS
  MaxRefs,
  Units, MaxFills, MaxFds, TableSize, Capacity, MaxValue,
  Paths, MaxWatches, Sizes, MaxTime, FileChanges,
  Shells, Chars, MaxText, Widths, Heights,
  Callers, MaxShm, MaxCount

ASSUME EfdAssumption ==
  /\ Units # {} /\ MaxFds \in Nat /\ TableSize \in Nat
  /\ Capacity \in Nat \ {0} /\ MaxValue \in Nat

ASSUME WatchAssumption ==
  /\ MaxTime \in Nat \ {0} /\ FileChanges \in Nat
  /\ MaxWatches \in Nat

ASSUME ChromeAssumption ==
  /\ MaxText \in Nat
  /\ Widths \subseteq Nat /\ Heights \subseteq Nat

ASSUME ShimsAssumption == MaxShm \in Nat /\ MaxCount \in Nat \ {0}

VARIABLES
  part,  \* the component that moves
  exports, refs, handles, loaded, context, op, libsPc, glStep, glScreen,
  kind, pipe, queue, maker, efdTable, filled, stores, unitsRaced, last,
  now, fileChanges, file, watches, seen, polled,
  chrome, view, told,
  shimsPc, name, shimsHeld, buffers, counter, names, made, open, returned,
  remaps, phase, table, cloexec, changes, closes, listed, done, child, childCloexec, result

Libs == INSTANCE GpuLibs WITH pc <- libsPc
Efd == INSTANCE EventfdEmul WITH Threads <- Callers, table <- efdTable, raced <- unitsRaced
Watch == INSTANCE FileWatch WITH changes <- fileChanges, MaxChanges <- FileChanges
Chrome == INSTANCE BerryChrome
Launch == INSTANCE ChildLaunch
Shims == INSTANCE BaseShims WITH Threads <- Callers, MaxObjects <- MaxShm, pc <- shimsPc, held <- shimsHeld

Counter == INSTANCE EventCounter WITH
  Fds <- 0 .. TableSize - 1, Values <- 0 .. MaxValue, Full <- Capacity,
  value <- [f \in 0 .. TableSize - 1 |-> Efd!Count(f)]

libsVars == <<exports, refs, handles, loaded, context, op, libsPc, glStep, glScreen>>
efdVars == <<kind, pipe, queue, maker, efdTable, filled, stores, unitsRaced, last>>
watchVars == <<now, fileChanges, file, watches, seen, polled>>
chromeVars == <<chrome, view, told>>
shimsVars == <<shimsPc, name, shimsHeld, buffers, counter, names, made, open, returned>>
launchVars == <<remaps, phase, table, cloexec, changes, closes, listed, done, child, childCloexec, result>>

\* The drivers tried: without anything, with all, and with each of the groups
\* and some entry point missing that another path is taken for.
Drivers == {{}, Libs!Critical, Libs!Critical \cup Libs!ForProbe, Libs!Entries,
            Libs!Entries \ Libs!Critical, Libs!Entries \ {"eglInitialize"},
            Libs!Entries \ {"eglMakeCurrent"}}

PartsInit ==
  /\ Launch!Init
  /\ part \in {"ozone", "libs", "efd", "watch", "chrome", "launch", "shims"}
  /\ part # "launch" => remaps = <<>> /\ Launch!Open = Stdio
  /\ Libs!Init /\ exports \in (IF part = "libs" THEN Drivers ELSE {{}})
  /\ Efd!Init /\ Watch!Init /\ Chrome!Init /\ Shims!Init
  /\ Init

PartsNext ==
  /\ UNCHANGED part
  /\ \/ part = "ozone" /\ Next
        /\ UNCHANGED <<libsVars, efdVars, watchVars, chromeVars, launchVars, shimsVars>>
     \/ part = "libs" /\ Libs!Next
        /\ UNCHANGED <<vars, efdVars, watchVars, chromeVars, launchVars, shimsVars>>
     \/ part = "efd" /\ Efd!Next
        /\ UNCHANGED <<vars, libsVars, watchVars, chromeVars, launchVars, shimsVars>>
     \/ part = "watch" /\ Watch!Next
        /\ UNCHANGED <<vars, libsVars, efdVars, chromeVars, launchVars, shimsVars>>
     \/ part = "chrome" /\ Chrome!Next
        /\ UNCHANGED <<vars, libsVars, efdVars, watchVars, launchVars, shimsVars>>
     \/ part = "launch" /\ Launch!Next
        /\ UNCHANGED <<vars, libsVars, efdVars, watchVars, chromeVars, shimsVars>>
     \/ part = "shims" /\ Shims!Next
        /\ UNCHANGED <<vars, libsVars, efdVars, watchVars, chromeVars, launchVars>>

partsVars ==
  <<part, vars, libsVars, efdVars, watchVars, chromeVars, launchVars, shimsVars>>

PartsSpec == PartsInit /\ [][PartsNext]_partsVars
-----------------------------------------------------------------------------
\* Every component keeps its types (GpuLibs, EventfdEmul, FileWatch,
\* BerryChrome, ChildLaunch and BaseShims state them).
TypesOK ==
  /\ Libs!TypeOK /\ Efd!TypeOK /\ Watch!TypeOK
  /\ Chrome!TypeOK /\ Launch!TypeOK /\ Shims!TypeOK

\* The properties of the components, stated in their modules: no call of
\* gpu_qnx.cc goes nowhere, and the bindings of the GL thread stay mapped;
NoWildCall == Libs!NoWildCall
BindingsStayMapped == Libs!BindingsStayMapped

\* each eventfd of qnx_platform.h within the table is a counter: no write goes to
\* another one, and one by the unit that made it is refused only after Capacity
\* writes, although the table keeps entries of closed descriptors and is filled
\* without a lock. Only where two threads are in the first fill of the unit's
\* table, or where another unit writes, can a write be lost
\* (qnx_platform.h:106-151);
IsCounter == Counter!CounterSpec

\* FileWatchPoll of files_qnx.cc misses a change only within one second;
MissedOnlyWithinTheSecond == Watch!MissedOnlyWithinTheSecond

\* the toolbar of berry_browser_chrome.cc commits what it shows, leaves typed
\* text alone and keeps its buttons apart;
EnterCommitsWhatIsShown == Chrome!EnterCommitsWhatIsShown
TypingIsUndisturbed == Chrome!TypingIsUndisturbed
HitsApart == Chrome!HitsApart

\* the shims of base/qnx lose no descriptor and give a child the right ones;
ResourcesAccountedFor == Shims!ResourcesAccountedFor
ChildHasWhatItWasGiven == part = "shims" => Shims!ChildHasWhatItWasGiven

\* a child launched by posix_spawn gets its files and no others.
ChildGetsItsFiles == Launch!ChildGetsItsFiles
NothingElseSurvives == Launch!NothingElseSurvives
=============================================================================
