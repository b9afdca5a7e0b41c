---------------------------- MODULE MessagePump ----------------------------
(***************************************************************************)
(* One thread of the port, its task queue and its message pump, with other *)
(* threads posting to it.  On QNX a wake-up may get lost, so a cross-thread*)
(* post always wakes the pump, and the pump never waits without a limit.   *)
(*                                                                         *)
(* Kind "default" is MessagePumpDefault (a WaitableEvent), kind "libevent" *)
(* is MessagePumpLibevent (a pipe under select()).  Time is counted in     *)
(* ticks and passes only while the pump sleeps; Cap ticks are 50 ms.       *)
(***************************************************************************)
EXTENDS Naturals, Sequences

CONSTANTS
  Posters,   \* the other threads that post to this one
  MaxTasks,  \* bound: tasks posted in a behaviour
  Kind,      \* which pump the thread runs
  Cap,       \* the limit of a wait, 50 ms
  FarOff,    \* how far ahead a delayed task is posted
  MayDelay,  \* are delayed tasks posted to the thread?
  MayLose    \* can a wake-up get lost?

ASSUME PumpAssumption ==
  /\ MaxTasks \in Nat /\ Cap \in Nat \ {0}
  /\ FarOff \in Nat /\ FarOff >= Cap
  /\ Kind \in {"default", "libevent"}
  /\ MayDelay \in BOOLEAN /\ MayLose \in BOOLEAN

VARIABLES
  incoming,  \* immediate_incoming_queue, filled by any thread
  working,   \* immediate_work_queue, emptied by this thread
  ran,       \* history: the tasks run
  poster,    \* poster[p]: has p pushed a task and not yet woken the pump?
  event,     \* the WaitableEvent is signaled, or the pipe holds a byte
  due,       \* ticks until the delayed task is due, NoDelay if there is none
  pc,        \* DoWork next, in the non-blocking poll, or waiting
  more,      \* DoWork's answer: is there more immediate work?
  left,      \* ticks before the current sleep ends
  stall      \* history: ticks slept with a task overdue since a task ran

queueVars == <<incoming, working, ran>>
vars == <<queueVars, poster, event, due, pc, more, left, stall>>

NoDelay == FarOff + 1

\* bound: the longest stall that is told apart
MaxStall == FarOff + Cap + 1

Source == Posters \cup {"self"}
Tasks == Source \X (1 .. MaxTasks)

Queue == working \o incoming

\* A task waits to be run and every post has returned.
Overdue == Queue # <<>> /\ \A p \in Posters : poster[p] = "idle"

Init ==
  /\ incoming = <<>> /\ working = <<>> /\ ran = <<>>
  /\ poster = [p \in Posters |-> "idle"]
  /\ event = FALSE
  /\ due = NoDelay
  /\ pc = "work"
  /\ more = FALSE
  /\ left = 0
  /\ stall = 0

\* The next task a source posts; its number tells tasks apart.
NewTask(src) == <<src, Len(ran) + Len(working) + Len(incoming) + 1>>

MayPost == Len(ran) + Len(working) + Len(incoming) < MaxTasks
-----------------------------------------------------------------------------
(* Posting from another thread.                                            *)

\* PostImmediateTaskImpl pushes the task under the queue's lock ...
PushTask(p) ==
  /\ poster[p] = "idle" /\ MayPost
  /\ incoming' = Append(incoming, NewTask(p))
  /\ poster' = [poster EXCEPT ![p] = "pushed"]
  /\ UNCHANGED <<working, ran, event, due, pc, more, left, stall>>

\* ... and then wakes the pump, whatever the state of the queues.  The signal
\* of an event may be lost; a byte in the pipe stays there.
ScheduleWork(p) ==
  /\ poster[p] = "pushed"
  /\ event' \in IF MayLose /\ Kind = "default" THEN {event, TRUE} ELSE {TRUE}
  /\ poster' = [poster EXCEPT ![p] = "idle"]
  /\ UNCHANGED <<queueVars, due, pc, more, left, stall>>
-----------------------------------------------------------------------------
(* The pump's loop.                                                        *)

LimitTo(a, b) == IF a < b THEN a ELSE b

\* Faulty variant: MessagePumpDefault waits for the event as upstream does.
UnlimitedDefaultWait == due

\* MessagePumpDefault waits 50 ms if no delayed task is pending, and until
\* the delayed task is due otherwise.
DefaultWait == IF due = NoDelay THEN Cap ELSE due

\* Faulty variant: the cap is forgotten when a delayed task sets a timer.
UnlimitedLibeventWait == due

\* MessagePumpLibevent never waits longer than 50 ms.
LibeventWait == LimitTo(due, Cap)

\* Faulty variant: wake-ups that came before the sleep are thrown away.
SleepDiscardingEvents(place, d) ==
  /\ event' = FALSE /\ pc' = place /\ left' = d

\* Fall asleep; a wake-up that is already there ends the sleep at once.
Sleep(place, d) ==
  /\ event' = FALSE
  /\ \/ event /\ pc' = "work" /\ left' = 0
     \/ ~event /\ pc' = place /\ left' = d

\* Faulty variant: swaps the queues while the work queue is not empty.
RefillSwapping == IF incoming = <<>> THEN <<working, incoming>>
                                     ELSE <<incoming, working>>

\* The work queue after TakeImmediateIncomingQueueTasks, and the queue that
\* the other threads go on filling.
Refill == IF working = <<>> THEN <<incoming, <<>>>> ELSE <<working, incoming>>

\* Run the next task, which may post another to its own thread.
RunTask ==
  /\ Refill[1] # <<>>
  /\ ran' = Append(ran, Head(Refill[1]))
  /\ working' = Tail(Refill[1])
  /\ \/ incoming' = Refill[2]
     \/ MayPost /\ incoming' = Append(Refill[2], NewTask("self"))

\* One DoWork: run a task, if there is one, and any delayed task that is due,
\* and see whether there is more to do.  libevent then polls its descriptors,
\* asking for no wait, but select() makes 50 ms of it.
DoWork ==
  /\ pc = "work"
  /\ \/ RunTask
     \/ Refill[1] = <<>> /\ UNCHANGED queueVars
  /\ more' = (working' \o incoming' # <<>>)
  /\ stall' = 0
  /\ \/ due' = IF due = 0 THEN NoDelay ELSE due
     \/ MayDelay /\ due \in {0, NoDelay} /\ due' = FarOff
  /\ \/ Kind = "libevent" /\ Sleep("poll", Cap)
     \/ Kind = "default" /\ UNCHANGED <<event, left>>
                         /\ pc' = IF more' THEN "work" ELSE "idle"
  /\ UNCHANGED poster

\* MessagePumpDefault has nothing to do.
DefaultWaits ==
  /\ Kind = "default" /\ pc = "idle"
  /\ Sleep("wait", DefaultWait)
  /\ UNCHANGED <<queueVars, poster, due, more, stall>>

\* The poll of MessagePumpLibevent found nothing.
PollEnds ==
  /\ pc = "poll" /\ left = 0
  /\ \/ more /\ pc' = "work" /\ UNCHANGED <<event, left>>
     \/ ~more /\ Sleep("wait", LibeventWait)
  /\ UNCHANGED <<queueVars, poster, due, more, stall>>

\* The sleeping pump is woken: all the bytes in the pipe are drained.
OnWakeup ==
  /\ pc \in {"poll", "wait"} /\ event
  /\ event' = FALSE /\ pc' = "work" /\ left' = 0
  /\ UNCHANGED <<queueVars, poster, due, more, stall>>

WaitEnds ==
  /\ pc = "wait" /\ left = 0
  /\ pc' = "work"
  /\ UNCHANGED <<queueVars, poster, event, due, more, left, stall>>

\* Time passes while the pump sleeps; a select() that is under way may miss
\* what is written to the pipe.  A wait of NoDelay ticks has no end.
Tick ==
  /\ pc \in {"poll", "wait"} /\ left > 0
  /\ event => MayLose /\ Kind = "libevent"
  /\ left' = IF left = NoDelay THEN left ELSE left - 1
  /\ due' = IF due \in {0, NoDelay} THEN due ELSE due - 1
  /\ stall' = IF Overdue THEN LimitTo(stall + 1, MaxStall) ELSE stall
  /\ UNCHANGED <<queueVars, poster, event, pc, more>>

Pump == DoWork \/ DefaultWaits \/ PollEnds \/ OnWakeup \/ WaitEnds

Next == Pump \/ Tick \/ \E p \in Posters : PushTask(p) \/ ScheduleWork(p)

Spec == Init /\ [][Next]_vars

\* The thread is scheduled, time passes and a wait ends when its time is up.
\* A wake-up owes nothing: OnWakeup is not fair by itself.
FairSpec == /\ Spec
            /\ WF_vars(DoWork)
            /\ WF_vars(DefaultWaits)
            /\ WF_vars(PollEnds)
            /\ WF_vars(OnWakeup \/ Tick \/ WaitEnds)
-----------------------------------------------------------------------------
(* Properties.                                                             *)

LongestWait == IF Kind = "libevent" THEN Cap ELSE FarOff + Cap

\* Every variable keeps its type (the queues, the pump and its timers).
TypeOK ==
  /\ incoming \in Seq(Tasks) /\ working \in Seq(Tasks) /\ ran \in Seq(Tasks)
  /\ poster \in [Posters -> {"idle", "pushed"}]
  /\ event \in BOOLEAN /\ more \in BOOLEAN
  /\ due \in 0 .. NoDelay
  /\ pc \in {"work", "idle", "poll", "wait"}
  /\ left \in 0 .. LongestWait
  /\ stall \in 0 .. MaxStall

\* While no wake-up gets lost, the pump never settles for a sleep with work
\* to do: if DoWork saw nothing more and a task is overdue, a wake-up is on
\* its way.  For the pipe this holds although select() may miss a byte.
NoLostWakeup == pc # "work" /\ ~more /\ Overdue => event

\* However many wake-ups get lost or missed, the next overdue task is run
\* before the pump has slept 50 ms on it.
StallBounded == stall <= Cap

Runner == INSTANCE TaskRunner WITH queue <- Queue

\* Tasks run once each and in the order in which they were pushed, across the
\* two queues, and those a task posts to its own thread among them.
TasksRunInOrder == Runner!Spec

\* The pump implements the task runner: even if every wake-up gets lost, each
\* task that was pushed runs.
TasksRun == Runner!FairSpec
-----------------------------------------------------------------------------
(* What makes the invariants above inductive.                              *)

\* The pump waits only when it has nothing more to do, and only libevent
\* polls.
SleepShape == /\ pc \in {"idle", "wait"} => ~more
              /\ pc = "poll" => Kind = "libevent"

\* What the pump has slept on an overdue task and what is left of the sleep
\* fit into the limit, so a poll that was slept through has left its mark.
SleepAccount ==
  /\ stall <= Cap
  /\ pc = "idle" => stall = 0
  /\ pc \in {"poll", "wait"} => stall + left <= Cap
  /\ pc = "poll" /\ ~more /\ stall > 0 => event
  /\ ~MayDelay => due = NoDelay
=============================================================================
