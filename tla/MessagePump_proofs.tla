------------------------- MODULE MessagePump_proofs -------------------------
(***************************************************************************)
(* Proofs about MessagePump, for any number of posting threads and tasks   *)
(* and any limit of a wait: type correctness, no lost wake-up, the bound   *)
(* on the time an overdue task is slept on, and the order of tasks.        *)
(***************************************************************************)
EXTENDS MessagePump, SequenceTheorems, TLAPS

USE DEF NoDelay, MaxStall, LongestWait, LimitTo

-----------------------------------------------------------------------------
(* Types.                                                                  *)

LEMMA NewTaskType ==
  ASSUME TypeOK, MayPost, NEW src \in Source
  PROVE  NewTask(src) \in Tasks
<1>1. /\ Len(ran) \in Nat /\ Len(working) \in Nat /\ Len(incoming) \in Nat
  BY DEF TypeOK
<1>2. Len(ran) + Len(working) + Len(incoming) + 1 \in 1 .. MaxTasks
  BY <1>1, PumpAssumption DEF MayPost
<1>3. QED
  BY <1>2 DEF NewTask, Tasks

LEMMA RefillType ==
  ASSUME TypeOK
  PROVE  Refill[1] \in Seq(Tasks) /\ Refill[2] \in Seq(Tasks)
  BY DEF TypeOK, Refill

LEMMA RunTaskType ==
  ASSUME TypeOK, RunTask
  PROVE  /\ incoming' \in Seq(Tasks)
         /\ working' \in Seq(Tasks)
         /\ ran' \in Seq(Tasks)
<1>1. /\ Head(Refill[1]) \in Tasks
      /\ Tail(Refill[1]) \in Seq(Tasks)
  BY RefillType, HeadTailProperties DEF RunTask
<1>2. ran' \in Seq(Tasks) /\ working' \in Seq(Tasks)
  BY <1>1 DEF RunTask, TypeOK
<1>3. incoming' \in Seq(Tasks)
  <2>1. CASE incoming' = Refill[2]
    BY <2>1, RefillType
  <2>2. CASE MayPost /\ incoming' = Append(Refill[2], NewTask("self"))
    <3>1. NewTask("self") \in Tasks
      BY <2>2, NewTaskType DEF Source
    <3>2. QED
      BY <2>2, <3>1, RefillType
  <2>3. QED
    BY <2>1, <2>2 DEF RunTask
<1>4. QED
  BY <1>2, <1>3

\* The pump's own fields after it fell asleep for d ticks or was woken.
LEMMA SleepType ==
  ASSUME NEW d \in 0 .. LongestWait, NEW place \in {"poll", "wait"},
         Sleep(place, d)
  PROVE  /\ event' \in BOOLEAN
         /\ pc' \in {"work", "poll", "wait"}
         /\ left' \in 0 .. LongestWait
<1>1. 0 \in 0 .. LongestWait
  BY PumpAssumption
<1>2. QED
  BY <1>1 DEF Sleep

THEOREM TypeCorrect == Spec => []TypeOK
<1>1. Init => TypeOK
  <2>1. /\ 0 \in 0 .. MaxStall /\ 0 \in 0 .. LongestWait
        /\ NoDelay \in 0 .. NoDelay /\ <<>> \in Seq(Tasks)
    BY PumpAssumption
  <2>2. QED
    BY <2>1 DEF Init, TypeOK
<1>2. TypeOK /\ [Next]_vars => TypeOK'
  <2> SUFFICES ASSUME TypeOK, [Next]_vars PROVE TypeOK'
    OBVIOUS
  <2>1. ASSUME NEW p \in Posters, PushTask(p)
        PROVE  TypeOK'
    <3>1. NewTask(p) \in Tasks
      BY <2>1, NewTaskType DEF PushTask, Source
    <3>2. QED
      BY <2>1, <3>1 DEF PushTask, TypeOK
  <2>2. ASSUME NEW p \in Posters, ScheduleWork(p)
        PROVE  TypeOK'
    BY <2>2 DEF ScheduleWork, TypeOK, queueVars
  <2>3. CASE DoWork
    <3>1. /\ incoming' \in Seq(Tasks)
          /\ working' \in Seq(Tasks)
          /\ ran' \in Seq(Tasks)
      BY <2>3, RunTaskType DEF DoWork, TypeOK, queueVars
    <3>2. due' \in 0 .. NoDelay /\ stall' \in 0 .. MaxStall
      BY <2>3, PumpAssumption DEF DoWork, TypeOK
    <3>3. more' \in BOOLEAN
      BY <2>3 DEF DoWork
    <3>4. /\ event' \in BOOLEAN
          /\ pc' \in {"work", "idle", "poll", "wait"}
          /\ left' \in 0 .. LongestWait
      <4>1. Cap \in 0 .. LongestWait
        BY PumpAssumption
      <4>2. QED
        BY <2>3, <4>1, SleepType DEF DoWork, TypeOK
    <3>5. QED
      BY <2>3, <3>1, <3>2, <3>3, <3>4 DEF DoWork, TypeOK
  <2>4. CASE DefaultWaits
    <3>1. DefaultWait \in 0 .. LongestWait
      BY <2>4, PumpAssumption DEF TypeOK, DefaultWaits, DefaultWait
    <3>2. QED
      BY <2>4, <3>1, SleepType DEF DefaultWaits, TypeOK, queueVars
  <2>5. CASE PollEnds
    <3>1. LibeventWait \in 0 .. LongestWait
      BY PumpAssumption DEF TypeOK, LibeventWait
    <3>2. QED
      BY <2>5, <3>1, SleepType DEF PollEnds, TypeOK, queueVars
  <2>6. CASE OnWakeup \/ WaitEnds
    <3>1. 0 \in 0 .. LongestWait
      BY PumpAssumption
    <3>2. QED
      BY <2>6, <3>1 DEF OnWakeup, WaitEnds, TypeOK, queueVars
  <2>7. CASE Tick
    BY <2>7, PumpAssumption DEF Tick, TypeOK, queueVars
  <2>8. CASE UNCHANGED vars
    BY <2>8 DEF vars, queueVars, TypeOK
  <2>9. QED
    BY <2>1, <2>2, <2>3, <2>4, <2>5, <2>6, <2>7, <2>8 DEF Next, Pump
<1>3. QED
  BY <1>1, <1>2, PTL DEF Spec
-----------------------------------------------------------------------------
(* The order of tasks.                                                     *)

\* Moving the incoming queue into an empty work queue changes no order.
LEMMA RefillKeepsQueue ==
  ASSUME TypeOK
  PROVE  Refill[1] \o Refill[2] = Queue
<1>1. CASE working = <<>>
  <2>1. Refill[1] = incoming /\ Refill[2] = <<>>
    BY <1>1 DEF Refill
  <2>2. incoming \o <<>> = incoming /\ <<>> \o incoming = incoming
    BY ConcatEmptySeq DEF TypeOK
  <2>3. QED
    BY <1>1, <2>1, <2>2 DEF Queue
<1>2. CASE working # <<>>
  BY <1>2 DEF Refill, Queue
<1>3. QED
  BY <1>1, <1>2

\* Tasks are taken from the front of the queue and added at its back, also
\* when the queue is made of two.
LEMMA TakeAndPost ==
  ASSUME NEW S, NEW a \in Seq(S), NEW b \in Seq(S), NEW t \in S
  PROVE  /\ a \o Append(b, t) = Append(a \o b, t)
         /\ a # <<>> => /\ a \o b # <<>>
                        /\ Head(a \o b) = Head(a)
                        /\ Tail(a \o b) = Tail(a) \o b
<1>1. a \o Append(b, t) = Append(a \o b, t)
  OBVIOUS
<1>2. ASSUME a # <<>>
      PROVE  a \o b # <<>> /\ Head(a \o b) = Head(a)
  BY <1>2
<1>3. ASSUME a # <<>>
      PROVE  Tail(a \o b) = Tail(a) \o b
  BY <1>3
<1>4. QED
  BY <1>1, <1>2, <1>3

LEMMA RunTaskStep ==
  ASSUME TypeOK, RunTask
  PROVE  Runner!Next
<1> DEFINE a == Refill[1]
           b == Refill[2]
<1>1. /\ a \in Seq(Tasks) /\ b \in Seq(Tasks) /\ a # <<>>
      /\ Queue = a \o b
  BY RefillType, RefillKeepsQueue DEF RunTask
<1>2. ran' = Append(ran, Head(a)) /\ working' = Tail(a)
  BY DEF RunTask
<1> HIDE DEF a, b
<1>3. Head(a) \in Tasks /\ Tail(a) \in Seq(Tasks)
  BY <1>1
<1>4. Queue # <<>> /\ Head(Queue) = Head(a) /\ Tail(Queue) = Tail(a) \o b
  BY <1>1, <1>3, TakeAndPost
<1>5. CASE incoming' = b
  BY <1>2, <1>4, <1>5 DEF Queue, Runner!Next, Runner!Run
<1>6. CASE MayPost /\ incoming' = Append(b, NewTask("self"))
  <2>1. NewTask("self") \in Tasks
    BY <1>6, NewTaskType DEF Source
  <2>2. Queue' = Append(Tail(Queue), NewTask("self"))
    <3>1. Queue' = Tail(a) \o Append(b, NewTask("self"))
      BY <1>2, <1>6 DEF Queue
    <3>2. @ = Append(Tail(a) \o b, NewTask("self"))
      BY <1>1, <1>3, <2>1, TakeAndPost
    <3>3. QED
      BY <1>4, <3>1, <3>2
  <2>3. Runner!RunAndPost(NewTask("self"))
    BY <1>2, <1>4, <2>2 DEF Runner!RunAndPost
  <2>4. QED
    BY <2>1, <2>3 DEF Runner!Next
<1>7. QED
  BY <1>5, <1>6 DEF RunTask, a, b

\* Every thread of the port runs its tasks once each, in the order in which
\* they were pushed.
THEOREM OrderKept == Spec => TasksRunInOrder
<1>1. Init => Runner!Init
  BY DEF Init, Runner!Init, Queue
<1>2. TypeOK /\ [Next]_vars => [Runner!Next]_(Runner!tvars)
  <2> SUFFICES ASSUME TypeOK, [Next]_vars
               PROVE  [Runner!Next]_(Runner!tvars)
    OBVIOUS
  <2>1. ASSUME NEW p \in Posters, PushTask(p)
        PROVE  Runner!Next
    <3>1. NewTask(p) \in Tasks
      BY <2>1, NewTaskType DEF PushTask, Source
    <3>2. Queue' = Append(Queue, NewTask(p))
      BY <2>1, <3>1, TakeAndPost DEF PushTask, Queue, TypeOK
    <3>3. QED
      BY <2>1, <3>1, <3>2 DEF PushTask, Runner!Next, Runner!Post
  <2>2. ASSUME UNCHANGED queueVars
        PROVE  UNCHANGED Runner!tvars
    BY <2>2 DEF queueVars, Queue, Runner!tvars
  <2>3. ASSUME NEW p \in Posters, ScheduleWork(p)
        PROVE  UNCHANGED queueVars
    BY <2>3 DEF ScheduleWork
  <2>4. CASE DoWork
    BY <2>2, <2>4, RunTaskStep DEF DoWork
  <2>5. CASE DefaultWaits \/ PollEnds \/ OnWakeup \/ WaitEnds \/ Tick
    BY <2>2, <2>5 DEF DefaultWaits, PollEnds, OnWakeup, WaitEnds, Tick
  <2>6. CASE UNCHANGED vars
    BY <2>2, <2>6 DEF vars
  <2>7. QED
    BY <2>1, <2>2, <2>3, <2>4, <2>5, <2>6 DEF Next, Pump
<1>3. QED
  BY <1>1, <1>2, TypeCorrect, PTL DEF Spec, TasksRunInOrder, Runner!Spec
-----------------------------------------------------------------------------
(* Wake-ups and stalls.                                                    *)

LEMMA ShapeCorrect == Spec => []SleepShape
<1>1. Init => SleepShape
  BY DEF Init, SleepShape
<1>2. TypeOK /\ SleepShape /\ [Next]_vars => SleepShape'
  <2> SUFFICES ASSUME TypeOK, SleepShape, [Next]_vars PROVE SleepShape'
    OBVIOUS
  <2> USE DEF SleepShape
  <2>1. ASSUME NEW p \in Posters, PushTask(p) \/ ScheduleWork(p)
        PROVE  UNCHANGED <<pc, more>>
    BY <2>1 DEF PushTask, ScheduleWork
  <2>2. CASE DoWork
    BY <2>2 DEF DoWork, Sleep
  <2>3. CASE DefaultWaits \/ PollEnds \/ OnWakeup \/ WaitEnds
    BY <2>3 DEF DefaultWaits, PollEnds, OnWakeup, WaitEnds, Sleep
  <2>4. CASE Tick \/ UNCHANGED vars
    BY <2>4 DEF Tick, vars
  <2>5. QED
    BY <2>1, <2>2, <2>3, <2>4 DEF Next, Pump
<1>3. QED
  BY <1>1, <1>2, TypeCorrect, PTL DEF Spec

\* Falling asleep keeps what was overdue so if nothing wakes the pump.
LEMMA WakeupStep ==
  ASSUME Kind = "libevent" \/ ~MayLose
  PROVE  TypeOK /\ SleepShape /\ NoLostWakeup /\ [Next]_vars
         => NoLostWakeup'
<1> SUFFICES ASSUME TypeOK, SleepShape, NoLostWakeup, [Next]_vars
             PROVE  NoLostWakeup'
  OBVIOUS
<1> USE DEF NoLostWakeup, Overdue
<1>1. ASSUME NEW p \in Posters, PushTask(p)
      PROVE  NoLostWakeup'
  BY <1>1 DEF PushTask, TypeOK
<1>2. ASSUME NEW p \in Posters, ScheduleWork(p)
      PROVE  NoLostWakeup'
  BY <1>2 DEF ScheduleWork
<1>3. CASE DoWork
  BY <1>3 DEF DoWork, Queue
<1>4. ASSUME UNCHANGED <<queueVars, poster>>
      PROVE  Overdue' = Overdue
  BY <1>4 DEF queueVars, Queue
<1>5. CASE DefaultWaits
  BY <1>4, <1>5 DEF DefaultWaits, Sleep, TypeOK
<1>6. CASE PollEnds
  BY <1>4, <1>6 DEF PollEnds, Sleep, TypeOK
<1>7. CASE OnWakeup \/ WaitEnds
  BY <1>7 DEF OnWakeup, WaitEnds
<1>8. CASE Tick
  BY <1>4, <1>8 DEF Tick
<1>9. CASE UNCHANGED vars
  BY <1>4, <1>9 DEF vars
<1>10. QED
  BY <1>1, <1>2, <1>3, <1>5, <1>6, <1>7, <1>8, <1>9 DEF Next, Pump

\* The pump never sleeps with work to do, as long as wake-ups arrive or stay
\* in the pipe.
THEOREM WakeupsSuffice ==
  ASSUME Kind = "libevent" \/ ~MayLose
  PROVE  Spec => []NoLostWakeup
<1>1. Init => NoLostWakeup
  BY DEF Init, NoLostWakeup
<1>2. QED
  BY <1>1, WakeupStep, TypeCorrect, ShapeCorrect, PTL DEF Spec

LEMMA AccountStep ==
  ASSUME Kind = "libevent" \/ ~MayDelay
  PROVE  TypeOK /\ SleepShape /\ SleepAccount
           /\ (Kind = "libevent" => NoLostWakeup) /\ [Next]_vars
         => SleepAccount'
<1> SUFFICES ASSUME TypeOK, SleepShape, SleepAccount, [Next]_vars,
                    Kind = "libevent" => NoLostWakeup
             PROVE  SleepAccount'
  OBVIOUS
<1> USE PumpAssumption DEF SleepAccount, SleepShape
<1>1. ASSUME NEW p \in Posters, PushTask(p)
      PROVE  SleepAccount'
  BY <1>1 DEF PushTask
<1>2. ASSUME NEW p \in Posters, ScheduleWork(p)
      PROVE  SleepAccount'
  BY <1>2 DEF ScheduleWork
<1>3. CASE DoWork
  BY <1>3 DEF DoWork, Sleep, TypeOK
<1>4. CASE DefaultWaits
  BY <1>4 DEF DefaultWaits, DefaultWait, Sleep, TypeOK
<1>5. CASE PollEnds
  BY <1>5 DEF PollEnds, LibeventWait, Sleep, TypeOK
<1>6. CASE OnWakeup \/ WaitEnds
  BY <1>6 DEF OnWakeup, WaitEnds
<1>7. CASE Tick
  BY <1>7 DEF Tick, TypeOK, NoLostWakeup
<1>8. CASE UNCHANGED vars
  BY <1>8 DEF vars
<1>9. QED
  BY <1>1, <1>2, <1>3, <1>4, <1>5, <1>6, <1>7, <1>8 DEF Next, Pump

\* An overdue task is not slept on for longer than the limit of a wait,
\* except by MessagePumpDefault with a delayed task pending.
THEOREM StallsAreBounded ==
  ASSUME Kind = "libevent" \/ ~MayDelay
  PROVE  Spec => []StallBounded
<1>1. Init => SleepAccount
  BY PumpAssumption DEF Init, SleepAccount
<1>2. /\ Init => (Kind = "libevent" => NoLostWakeup)
      /\ TypeOK /\ SleepShape /\ (Kind = "libevent" => NoLostWakeup)
           /\ [Next]_vars
         => (Kind = "libevent" => NoLostWakeup)'
  BY WakeupStep DEF Init, NoLostWakeup
<1>3. SleepAccount => StallBounded
  BY DEF SleepAccount, StallBounded
<1>4. QED
  BY <1>1, <1>2, <1>3, AccountStep, TypeCorrect, ShapeCorrect, PTL DEF Spec
=============================================================================
