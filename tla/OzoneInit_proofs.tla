------------------------- MODULE OzoneInit_proofs -------------------------
(***************************************************************************)
(* For any number of threads and any interleaving of their calls, the      *)
(* platform ends with one window manager and one factory unless two        *)
(* threads find the factory missing at the same time.                      *)
(***************************************************************************)
EXTENDS OzoneInit, TLAPS

\* What a thread between two steps of EnsureSurfaceFactory knows.
Knows(t) ==
  /\ pc[t] \in Creating => factory = Null
  /\ pc[t] = "newManager" => manager = Null
  /\ pc[t] \in {"argument", "newFactory"} => manager # Null
  /\ pc[t] = "newFactory" => arg[t] = manager

\* One thread at a time creates.
OneCreating == \A t, u \in Threads : pc[t] \in Creating /\ pc[u] \in Creating => t = u

\* What holds however the threads interleave: a thread leaves with a factory.
Left ==
  /\ \A t \in Threads : pc[t] = "return" => factory # Null
  /\ pc["main"] \in {"source", "ready"} => factory # Null
  /\ pc["main"] # "idle"
  /\ pc["main"] \in Inside \cup {"source", "ready"} => ctx

\* What holds as well until two threads find the factory missing.
Serial == OneCreating /\ (\A t \in Threads : Knows(t)) /\ OneManager

\* The inductive invariant.
InitInv == TypeOK /\ Left /\ (~ raced => Serial)

\* Initially nothing is allocated.
LEMMA InitialInv == Init => InitInv
  <1>. SUFFICES ASSUME Init PROVE InitInv
    OBVIOUS
  <1>. USE OzoneAssumption DEF Init
  <1>. Null \in Pointers
    BY DEF Null, Pointers
  <1>1. TypeOK
    BY DEF TypeOK, Outside, Null
  <1>2. \A t \in Threads : pc[t] \in {"idle", "context"}
    OBVIOUS
  <1>3. OneCreating /\ \A t \in Threads : Knows(t)
    BY <1>2 DEF OneCreating, Knows, Creating
  <1>4. pc["main"] = "context"
    BY DEF Threads
  <1>5. OneManager
    BY DEF OneManager, Null
  <1>6. Left
    BY <1>2, <1>4 DEF Left, Inside, Creating
  <1>. QED
    BY <1>1, <1>3, <1>5, <1>6 DEF InitInv, Serial

\* A step inside EnsureSurfaceFactory keeps the types.
LEMMA EnsureKeepsTypes ==
  ASSUME TypeOK, NEW t \in Threads, EnsureSurfaceFactory(t)
  PROVE  TypeOK'
  <1>. USE OzoneAssumption DEF TypeOK, Goto, Inside, Creating
  <1>1. CASE CheckFactory(t)
    BY <1>1 DEF CheckFactory, Race
  <1>2. CASE CheckManager(t)
    BY <1>2 DEF CheckManager
  <1>3. CASE NewManager(t)
    BY <1>3 DEF NewManager, Pointers
  <1>4. CASE ReadManager(t)
    BY <1>4 DEF ReadManager
  <1>5. CASE NewFactory(t)
    <2>1. allocated + 1 \in Pointers /\ arg[t] \in Pointers
      BY <1>5 DEF NewFactory, Pointers
    <2>. QED
      BY <1>5, <2>1 DEF NewFactory
  <1>6. CASE TakeFactory(t)
    BY <1>6 DEF TakeFactory, Outside
  <1>. QED
    BY <1>1, <1>2, <1>3, <1>4, <1>5, <1>6 DEF EnsureSurfaceFactory

\* It is a step of t alone, it never takes the factory away, and t leaves with
\* one.
LEMMA EnsureLeaves ==
  ASSUME TypeOK, Left, NEW t \in Threads, EnsureSurfaceFactory(t)
  PROVE  /\ Left'
         /\ pc[t] \in Inside
         /\ \A u \in Threads \ {t} : pc'[u] = pc[u]
         /\ raced => raced'
  <1>. USE OzoneAssumption DEF Inside, Creating
  <1>0. raced => raced'
    <2>1. CASE CheckFactory(t)
      BY <2>1 DEF CheckFactory, Race, TypeOK
    <2>2. CASE UNCHANGED raced
      BY <2>2
    <2>. QED
      BY <2>1, <2>2 DEF EnsureSurfaceFactory, CheckManager, NewManager, ReadManager, NewFactory,
                        TakeFactory
  <1>1. pc[t] \in Inside /\ ctx' = ctx
    BY DEF EnsureSurfaceFactory, CheckFactory, CheckManager, NewManager, ReadManager, NewFactory,
           TakeFactory
  <1>2. \A u \in Threads \ {t} : pc'[u] = pc[u]
    BY DEF EnsureSurfaceFactory, CheckFactory, CheckManager, NewManager, ReadManager, NewFactory,
           TakeFactory, Goto, TypeOK
  <1>3. factory # Null => factory' # Null
    BY DEF EnsureSurfaceFactory, CheckFactory, CheckManager, NewManager, ReadManager, NewFactory,
           TakeFactory, TypeOK, Pointers, Null
  <1>4. pc'[t] \in {"return", "source", "ready"} => factory' # Null
    BY DEF EnsureSurfaceFactory, CheckFactory, CheckManager, NewManager, ReadManager, NewFactory,
           TakeFactory, Goto, TypeOK, Pointers, Null, Left
  <1>5. t = "main" => pc'[t] # "idle" /\ pc'[t] \in Inside \cup {"source", "ready"}
    BY DEF EnsureSurfaceFactory, CheckFactory, CheckManager, NewManager, ReadManager, NewFactory,
           TakeFactory, Goto, TypeOK
  <1>6. "main" \in Threads
    BY DEF Threads
  <1>7. \A u \in Threads : pc'[u] = "return" => factory' # Null
    BY <1>2, <1>3, <1>4 DEF Left
  <1>8. pc'["main"] \in {"source", "ready"} => factory' # Null
    BY <1>2, <1>3, <1>4, <1>6 DEF Left
  <1>9. pc'["main"] # "idle" /\ (pc'["main"] \in Inside \cup {"source", "ready"} => ctx')
    <2>1. CASE t = "main"
      BY <1>1, <1>5, <2>1 DEF Left
    <2>2. CASE t # "main"
      BY <1>1, <1>2, <1>6, <2>2 DEF Left
    <2>. QED
      BY <2>1, <2>2
  <1>. QED
    BY <1>0, <1>1, <1>2, <1>7, <1>8, <1>9 DEF Left

\* As long as no thread has found the factory missing while another creates it,
\* one thread creates at a time and knows what is there.
LEMMA EnsureKeepsSerial ==
  ASSUME InitInv, NEW t \in Threads, EnsureSurfaceFactory(t), ~ raced'
  PROVE  Serial'
  <1>. USE OzoneAssumption DEF InitInv
  <1>0. Serial /\ ~ raced
    BY EnsureLeaves
  <1>. USE <1>0 DEF Serial
  <1>1. \A u \in Threads \ {t} : pc'[u] = pc[u]
    BY EnsureLeaves
  <1>2. /\ pc \in [Threads -> Outside \cup Inside]
        /\ arg \in [Threads -> Pointers] /\ held \in [Threads -> Pointers]
        /\ given \in [Objects -> Pointers]
    BY DEF TypeOK
  <1>3. ASSUME pc'[t] \in Creating, factory = Null
        PROVE  \A u \in Threads \ {t} : pc[u] \notin Creating
    <2>1. CASE CheckFactory(t)
      BY <1>3, <2>1 DEF CheckFactory, Race
    <2>2. CASE pc[t] \in Creating
      BY <2>2 DEF OneCreating
    <2>. QED
      BY <1>3, <2>1, <2>2 DEF EnsureSurfaceFactory, CheckManager, NewManager, ReadManager,
                              NewFactory, TakeFactory, Goto, TypeOK, Creating
  <1>4. OneCreating'
    <2>1. pc'[t] \in Creating => factory = Null
      BY <1>2 DEF EnsureSurfaceFactory, CheckFactory, CheckManager, NewManager, ReadManager,
                  NewFactory, TakeFactory, Goto, Creating, Knows
    <2>2. pc'[t] \in Creating => \A u \in Threads \ {t} : pc'[u] \notin Creating
      BY <1>1, <1>3, <2>1
    <2>. QED
      BY <1>1, <2>2 DEF OneCreating
  <1>5. ASSUME pc[t] \in Creating PROVE \A u \in Threads \ {t} : pc[u] \notin Creating
    BY <1>5 DEF OneCreating
  <1>6. \A u \in Threads \ {t} : Knows(u)'
    <2>1. CASE pc[t] \in Creating
      BY <1>1, <1>5, <2>1 DEF Knows, Creating
    <2>2. CASE pc[t] \notin Creating
      <3>1. CheckFactory(t) \/ TakeFactory(t)
        BY <2>2 DEF EnsureSurfaceFactory, CheckManager, NewManager, ReadManager, NewFactory,
                    Creating
      <3>2. UNCHANGED <<manager, factory, arg>>
        BY <3>1 DEF CheckFactory, TakeFactory
      <3>. QED
        BY <1>1, <3>2 DEF Knows
    <2>. QED
      BY <2>1, <2>2
  <1>7. Knows(t)' /\ OneManager'
    <2>. Knows(t)
      OBVIOUS
    <2>1. CASE CheckFactory(t)
      BY <1>2, <2>1 DEF CheckFactory, Goto, Knows, OneManager, Creating
    <2>2. CASE CheckManager(t)
      BY <1>2, <2>2 DEF CheckManager, Goto, Knows, OneManager, Creating
    <2>3. CASE NewManager(t)
      <3>1. manager' # Null
        BY <2>3 DEF NewManager, TypeOK, Pointers, Null
      <3>2. manager = Null /\ factory = Null
        BY <2>3 DEF NewManager, Knows, Creating
      <3>. QED
        BY <1>2, <2>3, <3>1, <3>2 DEF NewManager, Goto, Knows, OneManager, Creating
    <2>4. CASE ReadManager(t)
      BY <1>2, <2>4 DEF ReadManager, Goto, Knows, OneManager, Creating
    <2>5. CASE NewFactory(t)
      <3>1. factory' # Null /\ factory' \in Objects
        BY <2>5 DEF NewFactory, TypeOK, Pointers, Objects, Null
      <3>2. factory = Null /\ manager # Null /\ arg[t] = manager
        BY <2>5 DEF NewFactory, Knows, Creating
      <3>3. given'[factory'] = manager'
        BY <1>2, <2>5, <3>1, <3>2 DEF NewFactory
      <3>. QED
        BY <1>2, <2>5, <3>1, <3>2, <3>3 DEF NewFactory, Goto, Knows, OneManager, Creating
    <2>6. CASE TakeFactory(t)
      BY <1>2, <2>6 DEF TakeFactory, Goto, Knows, OneManager, Creating
    <2>. QED
      BY <2>1, <2>2, <2>3, <2>4, <2>5, <2>6 DEF EnsureSurfaceFactory
  <1>. QED
    BY <1>4, <1>6, <1>7

\* The steps outside EnsureSurfaceFactory allocate nothing.
LEMMA OutsideKeepsInv ==
  ASSUME InitInv, \/ vars' = vars
                  \/ CreateContext \/ ContextFails \/ CreateEventSource \/ CreatePlatformWindow
                  \/ \E t \in Threads : AskForFactory(t)
  PROVE  InitInv'
  <1>. USE OzoneAssumption DEF InitInv, Serial
  <1>0. "main" \in Threads
    BY DEF Threads
  <1>1. CASE vars' = vars
    BY <1>1 DEF vars, TypeOK, Left, OneCreating, Knows, OneManager
  <1>2. ASSUME NEW t \in Threads, NEW l \in {"check", "failed", "ready"},
               pc' = [pc EXCEPT ![t] = l],
               pc[t] \in {"idle", "ready", "context", "source"},
               l = "ready" => t = "main" /\ pc[t] = "source",
               t = "main" => l = "failed" \/ ctx', ctx => ctx', ctx' \in BOOLEAN,
               UNCHANGED <<manager, factory, given, arg, allocated, held, windowsUse, raced>>,
               sourceUses' \in {sourceUses, manager}, sourceUses' # sourceUses => l = "ready"
        PROVE  InitInv'
    <2>1. TypeOK'
      BY <1>2 DEF TypeOK, Inside, Outside
    <2>2. pc'[t] = l /\ \A u \in Threads \ {t} : pc'[u] = pc[u]
      BY <1>2 DEF TypeOK
    <2>3. Left'
      <3>1. pc'["main"] \in {"source", "ready"} => factory' # Null
        BY <1>0, <1>2, <2>2 DEF Left
      <3>2. pc'["main"] # "idle" /\ (pc'["main"] \in Inside \cup {"source", "ready"} => ctx')
        BY <1>0, <1>2, <2>2 DEF Left, Inside, Creating
      <3>3. \A u \in Threads : pc'[u] = "return" => factory' # Null
        BY <1>2, <2>2 DEF Left
      <3>. QED
        BY <3>1, <3>2, <3>3 DEF Left
    <2>4. ASSUME ~ raced' PROVE Serial'
      <3>1. Serial
        BY <1>2, <2>4
      <3>2. OneCreating'
        BY <2>2, <3>1 DEF OneCreating, Creating
      <3>3. \A u \in Threads : Knows(u)'
        BY <1>2, <2>2, <3>1 DEF Knows, Creating
      <3>4. sourceUses' # Null => ctx'
        BY <1>2, <2>4, <3>1 DEF OneManager, Left
      <3>5. OneManager'
        BY <1>2, <2>4, <3>1, <3>4 DEF OneManager
      <3>. QED
        BY <3>2, <3>3, <3>5
    <2>. QED
      BY <2>1, <2>3, <2>4
  <1>3. CASE CreateContext
    BY <1>0, <1>2, <1>3 DEF CreateContext, Goto
  <1>4. CASE \E t \in Threads : AskForFactory(t)
    <2>1. PICK t \in Threads : AskForFactory(t)
      BY <1>4
    <2>2. t = "main" => ctx
      BY <2>1 DEF AskForFactory, Left
    <2>. QED
      BY <1>2, <2>1, <2>2 DEF AskForFactory, Goto, TypeOK
  <1>5. CASE ContextFails
    BY <1>0, <1>2, <1>5 DEF ContextFails, Goto, TypeOK
  <1>6. CASE CreateEventSource
    <2>1. ctx
      BY <1>6 DEF CreateEventSource, Left
    <2>. QED
      BY <1>0, <1>2, <1>6, <2>1 DEF CreateEventSource, Goto, TypeOK
  <1>7. CASE CreatePlatformWindow
    <2>1. ctx /\ factory # Null
      BY <1>7 DEF CreatePlatformWindow, Left
    <2>2. TypeOK'
      BY <1>7 DEF CreatePlatformWindow, TypeOK
    <2>3. ~ raced => OneManager'
      BY <1>7, <2>1 DEF CreatePlatformWindow, OneManager
    <2>. QED
      BY <1>7, <2>2, <2>3 DEF CreatePlatformWindow, Left, OneCreating, Knows
  <1>. QED
    BY <1>1, <1>3, <1>4, <1>5, <1>6, <1>7

\* The invariant is inductive.
LEMMA Inductive == InitInv /\ [Next]_vars => InitInv'
  <1>. SUFFICES ASSUME InitInv, [Next]_vars PROVE InitInv'
    OBVIOUS
  <1>1. ASSUME NEW t \in Threads, EnsureSurfaceFactory(t) PROVE InitInv'
    BY <1>1, EnsureKeepsTypes, EnsureLeaves, EnsureKeepsSerial DEF InitInv
  <1>. QED
    BY <1>1, OutsideKeepsInv DEF Next

\* Whichever threads ask for the factory and however they interleave, they, the
\* event source and the windows share one live window manager and one live
\* factory, unless two threads have both found the factory missing. The code has
\* no lock that excludes that (EnsureSurfaceFactory).
THEOREM OnlyTheRaceHarms == Spec => [](TypeOK /\ OneManager)
  <1>1. InitInv => TypeOK /\ OneManager
    BY DEF InitInv, Serial, OneManager
  <1>. QED
    BY InitialInv, Inductive, <1>1, PTL DEF Spec

\* Even then a call of GetSurfaceFactoryOzone returns a factory: the list of
\* allowed GL implementations is not empty for a thread that asks before
\* InitializeUI has run (GetSurfaceFactoryOzone).
THEOREM FactoryIsThere == Spec => [](\A t \in Threads : pc[t] = "return" => factory # Null)
  <1>1. InitInv => \A t \in Threads : pc[t] = "return" => factory # Null
    BY DEF InitInv, Left
  <1>. QED
    BY InitialInv, Inductive, <1>1, PTL DEF Spec
=============================================================================
