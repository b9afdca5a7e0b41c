----------------------------- MODULE OzoneInit -----------------------------
(***************************************************************************)
(* Start-up of the Ozone platform qnx_screen.  The window manager and the  *)
(* surface factory are created by the first thread that needs them: the    *)
(* main thread in InitializeUI, or a GPU thread that asks for the factory  *)
(* before that.  EnsureSurfaceFactory takes no lock, so its steps are those*)
(* between two accesses to the platform's members, and any threads may     *)
(* interleave in it.                                                       *)
(*                                                                         *)
(* Pointers are numbers in order of allocation.  Assigning to a unique_ptr *)
(* frees the object it held before.                                        *)
(***************************************************************************)
EXTENDS Naturals, FiniteSets

CONSTANTS
  Helpers,    \* the in-process threads that ask for the factory
  MaxObjects  \* bound: objects allocated in a behaviour

ASSUME OzoneAssumption ==
  /\ "main" \notin Helpers
  /\ MaxObjects \in Nat

VARIABLES
  pc,           \* pc[t]: what thread t does next
  ctx,          \* screen_ctx_ is there
  manager,      \* window_manager_
  factory,      \* surface_factory_
  given,        \* given[f]: the manager that factory f was created with
  arg,          \* arg[t]: the manager t is about to create a factory with
  allocated,    \* objects allocated so far
  held,         \* held[t]: the factory that thread t works with
  sourceUses,   \* the manager the event source holds
  windowsUse,   \* the managers that windows were created with
  raced         \* history: has a thread found the factory missing while another
                \* one was creating it?

vars ==
  <<pc, ctx, manager, factory, given, arg, allocated, held, sourceUses, windowsUse, raced>>

Null == 0
Threads == Helpers \cup {"main"}
Objects == 1 .. MaxObjects
Pointers == 0 .. MaxObjects

\* What is left to do once EnsureSurfaceFactory has returned to thread t.
Outside == {"idle", "context", "source", "ready", "failed"}
Creating == {"manager", "newManager", "argument", "newFactory"}
Inside == Creating \cup {"check", "return"}

Init ==
  /\ pc = [t \in Threads |-> IF t = "main" THEN "context" ELSE "idle"]
  /\ ctx = FALSE
  /\ manager = Null /\ factory = Null
  /\ given = [f \in Objects |-> Null]
  /\ arg = [t \in Threads |-> Null]
  /\ allocated = 0
  /\ held = [t \in Threads |-> Null]
  /\ sourceUses = Null
  /\ windowsUse = {}
  /\ raced = FALSE

Goto(t, l) == pc' = [pc EXCEPT ![t] = l]

\* Faulty variant: InitializeUI no longer ensures the factory.
CreateContextSkippingFactory ==
  /\ pc["main"] = "context"
  /\ ctx' = TRUE
  /\ Goto("main", "source")
  /\ UNCHANGED <<manager, factory, given, arg, allocated, held, sourceUses, windowsUse, raced>>

\* InitializeUI up to EnsureSurfaceFactory.
CreateContext ==
  /\ pc["main"] = "context"
  /\ ctx' = TRUE
  /\ Goto("main", "check")
  /\ UNCHANGED <<manager, factory, given, arg, allocated, held, sourceUses, windowsUse, raced>>

\* InitializeUI returns false.
ContextFails ==
  /\ pc["main"] = "context"
  /\ Goto("main", "failed")
  /\ UNCHANGED <<ctx, manager, factory, given, arg, allocated, held, sourceUses, windowsUse, raced>>

\* GetSurfaceFactoryOzone on a GPU thread, InitializeGPU, or either on main.
AskForFactory(t) ==
  /\ pc[t] \in {"idle", "ready"}
  /\ Goto(t, "check")
  /\ UNCHANGED <<ctx, manager, factory, given, arg, allocated, held, sourceUses, windowsUse, raced>>

\* Another thread has found the factory missing and is creating it.
Race(t) == factory = Null /\ \E u \in Threads \ {t} : pc[u] \in Creating

\* Faulty variant: the early return is missing.
CheckFactoryForgotten(t) ==
  /\ pc[t] = "check"
  /\ Goto(t, "manager")
  /\ raced' = (raced \/ Race(t))
  /\ UNCHANGED <<ctx, manager, factory, given, arg, allocated, held, sourceUses, windowsUse>>

\* EnsureSurfaceFactory: if (surface_factory_) return;
CheckFactory(t) ==
  /\ pc[t] = "check"
  /\ Goto(t, IF factory # Null THEN "return" ELSE "manager")
  /\ raced' = (raced \/ Race(t))
  /\ UNCHANGED <<ctx, manager, factory, given, arg, allocated, held, sourceUses, windowsUse>>

CheckManager(t) ==
  /\ pc[t] = "manager"
  /\ Goto(t, IF manager # Null THEN "argument" ELSE "newManager")
  /\ UNCHANGED <<ctx, manager, factory, given, arg, allocated, held, sourceUses, windowsUse, raced>>

NewManager(t) ==
  /\ pc[t] = "newManager" /\ allocated < MaxObjects
  /\ manager' = allocated + 1
  /\ allocated' = allocated + 1
  /\ Goto(t, "argument")
  /\ UNCHANGED <<ctx, factory, given, arg, held, sourceUses, windowsUse, raced>>

\* window_manager_.get(), the argument of the factory's constructor.
ReadManager(t) ==
  /\ pc[t] = "argument"
  /\ arg' = [arg EXCEPT ![t] = manager]
  /\ Goto(t, "newFactory")
  /\ UNCHANGED <<ctx, manager, factory, given, allocated, held, sourceUses, windowsUse, raced>>

NewFactory(t) ==
  /\ pc[t] = "newFactory" /\ allocated < MaxObjects
  /\ factory' = allocated + 1
  /\ allocated' = allocated + 1
  /\ given' = [given EXCEPT ![allocated + 1] = arg[t]]
  /\ Goto(t, "return")
  /\ UNCHANGED <<ctx, manager, arg, held, sourceUses, windowsUse, raced>>

\* surface_factory_.get() once EnsureSurfaceFactory has returned.
TakeFactory(t) ==
  /\ pc[t] = "return"
  /\ held' = [held EXCEPT ![t] = factory]
  /\ Goto(t, IF t # "main" THEN "idle" ELSE IF sourceUses = Null THEN "source" ELSE "ready")
  /\ UNCHANGED <<ctx, manager, factory, given, arg, allocated, sourceUses, windowsUse, raced>>

\* InitializeUI creates the event source with window_manager_.get().
CreateEventSource ==
  /\ pc["main"] = "source"
  /\ sourceUses' = manager
  /\ Goto("main", "ready")
  /\ UNCHANGED <<ctx, manager, factory, given, arg, allocated, held, windowsUse, raced>>

\* A window registers itself with the manager it is given.
CreatePlatformWindow ==
  /\ pc["main"] = "ready"
  /\ windowsUse' = windowsUse \cup {manager}
  /\ UNCHANGED <<pc, ctx, manager, factory, given, arg, allocated, held, sourceUses, raced>>

EnsureSurfaceFactory(t) ==
  \/ CheckFactory(t) \/ CheckManager(t) \/ NewManager(t)
  \/ ReadManager(t) \/ NewFactory(t) \/ TakeFactory(t)

Next ==
  \/ CreateContext \/ ContextFails \/ CreateEventSource \/ CreatePlatformWindow
  \/ \E t \in Threads : AskForFactory(t) \/ EnsureSurfaceFactory(t)

Spec == Init /\ [][Next]_vars

-----------------------------------------------------------------------------
TypeOK ==
  /\ pc \in [Threads -> Outside \cup Inside]
  /\ ctx \in BOOLEAN
  /\ manager \in Pointers /\ factory \in Pointers
  /\ given \in [Objects -> Pointers]
  /\ arg \in [Threads -> Pointers]
  /\ allocated \in Pointers
  /\ held \in [Threads -> Pointers]
  /\ sourceUses \in Pointers
  /\ windowsUse \subseteq Pointers
  /\ raced \in BOOLEAN

\* Whichever threads ask first and however their calls interleave, every thread
\* works with the one factory, and that factory, the event source and the windows
\* all work with the one window manager: no pointer that anyone was given has been
\* freed, and the event source and the windows have a screen context. The one way
\* to break it is that two threads find the factory missing, which the code does
\* not exclude (EnsureSurfaceFactory, InitializeUI).
OneManager ==
  ~ raced =>
    /\ factory # Null => manager # Null /\ given[factory] = manager
    /\ \A t \in Threads : held[t] # Null => held[t] = factory
    /\ sourceUses # Null => sourceUses = manager
    /\ windowsUse \subseteq {manager} \ {Null}
    /\ sourceUses # Null \/ windowsUse # {} => ctx

\* The window manager and the factory are created "exactly once, regardless of
\* which thread/init phase reaches it first" (comment of EnsureSurfaceFactory).
CreatedOnce ==
  [][/\ manager # Null => manager' = manager
     /\ factory # Null => factory' = factory]_vars
=============================================================================
