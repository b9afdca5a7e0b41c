------------------------- MODULE SocketPosix_proofs -------------------------
(***************************************************************************)
(* For any number of sockets, armings, polls and pool threads: SocketPosix *)
(* keeps its types and loses no wakeup; and when its owner cancels no read *)
(* and no signal interrupts a select(), it keeps what it promises about    *)
(* every connect and every read.                                           *)
(***************************************************************************)
EXTENDS SocketPosix, TLAPS

USE BoundsAssumption, EnvironmentAssumption DEF Arms, Polls

-----------------------------------------------------------------------------
(* The invariant that all the others follow from.                          *)

LEMMA InitInv == Init => SocketInv
  BY DEF Init, SocketInv, TypeOK, WatchersMatchCallbacks, PendingOpsArePolled,
         PendingOpsHaveBudget, Stage, Outcomes

\* Ending a read, or re-arming it for RetryRead, keeps the invariant; p are
\* the polls without the task that is running.
LEMMA RunReadCallbackInv ==
  ASSUME SocketInv, NEW s \in Sockets, readCb[s] # "none",
         NEW result \in StaleErrors \cup {"OK"}, NEW p \in [Polls -> Stage],
         \A q \in Polls : q[1] # s => p[q] = poll[q],
         RunReadCallback(s, result, p)
  PROVE  SocketInv'
<1> USE DEF SocketInv, TypeOK, WatchersMatchCallbacks, PendingOpsArePolled,
            PendingOpsHaveBudget, Stage, Outcomes, StaleErrors, LiveWithout,
            connectVars
<1>1. ASSUME NEW got \in StaleErrors \cup {"OK"}, EndRead(s, got, p),
             UNCHANGED <<alive, connectVars>>, readable' \in [Sockets -> BOOLEAN],
             connectPoll' = [connectPoll EXCEPT ![s] = FALSE]
      PROVE  SocketInv'
  <2>1. /\ readWatch' = [readWatch EXCEPT ![s] = FALSE]
        /\ readCb' = [readCb EXCEPT ![s] = "none"]
        /\ live' = {q \in live : q[1] # s}
        /\ poll' = p
        /\ readResult' = [readResult EXCEPT ![s] = got]
        /\ UNCHANGED <<readCount, arm, silent>>
    BY <1>1 DEF EndRead
  <2>2. TypeOK'
    BY <1>1, <2>1
  <2>3. WatchersMatchCallbacks' /\ PendingOpsHaveBudget'
    BY <1>1, <2>1
  <2>4. PendingOpsArePolled'
    BY <1>1, <2>1
  <2>5. QED
    BY <2>2, <2>3, <2>4
<1>2. CASE ArmRead(s, "RetryRead", p, LiveWithout(s))
  BY <1>2 DEF ArmRead, RunReadCallback
<1>3. CASE result # "OK" \/ readCb[s] = "owner"
  BY <1>1, <1>3 DEF RunReadCallback
<1>4. CASE result = "OK" /\ readCb[s] = "RetryRead" /\ readable[s]
  <2>1. PICK got \in {"OK", "ERR_SYSTEM"} : EndRead(s, got, p)
    BY <1>4 DEF RunReadCallback
  <2>2. readable' = [readable EXCEPT ![s] = FALSE]
    BY <1>4 DEF RunReadCallback
  <2>3. readable' \in [Sockets -> BOOLEAN]
    BY <2>2
  <2>4. got \in StaleErrors \cup {"OK"}
    OBVIOUS
  <2>5. QED
    BY <1>1, <2>1, <2>3, <2>4 DEF RunReadCallback
<1>5. QED
  BY <1>2, <1>3, <1>4 DEF RunReadCallback

LEMMA NextInv == SocketInv /\ [Next]_vars => SocketInv'
<1> SUFFICES ASSUME SocketInv, [Next]_vars
             PROVE  SocketInv'
  OBVIOUS
<1> USE DEF SocketInv
<1>1. CASE UNCHANGED vars
  BY <1>1 DEF vars, connectVars, readVars, TypeOK, WatchersMatchCallbacks,
              PendingOpsArePolled, PendingOpsHaveBudget
<1>2. ASSUME NEW s \in Sockets, Owner(s)
      PROVE  SocketInv'
  <2> USE DEF TypeOK, WatchersMatchCallbacks, PendingOpsArePolled,
              PendingOpsHaveBudget, Stage, Outcomes, LiveWithout,
              connectVars, readVars
  <2>1. CASE Connect(s)
    BY <2>1 DEF Connect
  <2>2. CASE ConnectAtOnce(s)
    BY <2>2 DEF ConnectAtOnce
  <2>3. ASSUME NEW cb \in {"owner", "RetryRead"}, ReadIfReady(s, cb)
        PROVE  SocketInv'
    BY <2>3 DEF ReadIfReady, ArmRead
  <2>4. CASE ReadAtOnce(s)
    BY <2>4 DEF ReadAtOnce
  <2>5. CASE CancelReadIfReady(s)
    BY <2>5 DEF CancelReadIfReady
  <2>6. CASE Close(s)
    BY <2>6 DEF Close
  <2>7. QED
    BY <1>2, <2>1, <2>2, <2>3, <2>4, <2>5, <2>6 DEF Owner
<1>3. ASSUME NEW s \in Sockets, Network(s)
      PROVE  SocketInv'
  <2> USE DEF TypeOK, WatchersMatchCallbacks, PendingOpsArePolled,
              PendingOpsHaveBudget, connectVars, readVars
  <2>1. CASE HandshakeEnds(s)
    BY <2>1 DEF HandshakeEnds
  <2>2. CASE DataArrives(s)
    BY <2>2 DEF DataArrives
  <2>3. QED
    BY <1>3, <2>1, <2>2 DEF Network
<1>4. ASSUME NEW s \in Sockets,
             Libevent(s) \/ QnxPollForConnect(s)
      PROVE  SocketInv'
  <2> USE DEF TypeOK, WatchersMatchCallbacks, PendingOpsArePolled,
              PendingOpsHaveBudget, Stage, Outcomes, LiveWithout,
              connectVars, readVars
  <2>1. ASSUME waitingConnect[s], ConnectCompleted(s)
        PROVE  SocketInv'
    BY <2>1 DEF ConnectCompleted, EndConnect
  <2>2. CASE PollMissesConnect(s)
    BY <2>2 DEF PollMissesConnect
  <2>3. CASE PollGivesUpConnect(s)
    BY <2>3 DEF PollGivesUpConnect, EndConnect
  <2>4. CASE OnFileCanReadWithoutBlocking(s)
    BY <2>4, RunReadCallbackInv
       DEF OnFileCanReadWithoutBlocking, ReadCompleted
  <2>5. QED
    BY <1>4, <2>1, <2>2, <2>3, <2>4
       DEF Libevent, QnxPollForConnect, OnFileCanWriteWithoutBlocking,
           PollSeesConnect
<1>5. ASSUME NEW s \in Sockets, NEW n \in Arms, ReadPoll(s, n)
      PROVE  SocketInv'
  <2>a. Finished(s, n) \in [Polls -> Stage]
        /\ \A q \in Polls : q[1] # s => Finished(s, n)[q] = poll[q]
    BY DEF Finished, TypeOK, Stage
  <2> USE DEF TypeOK, WatchersMatchCallbacks, PendingOpsArePolled,
              PendingOpsHaveBudget, Stage, Outcomes, LiveWithout,
              connectVars, readVars
  <2>1. CASE QnxPollForRead(s, n)
    BY <2>1 DEF QnxPollForRead
  <2>2. CASE SelectStarts(s, n)
    BY <2>2 DEF SelectStarts
  <2>3. CASE SelectReturns(s, n)
    BY <2>3 DEF SelectReturns, Answered
  <2>4. CASE DropSelect(s, n)
    BY <2>4 DEF DropSelect, Answered
  <2>5. CASE SelectSaysReady(s, n)
    BY <2>5, <2>a, RunReadCallbackInv
       DEF SelectSaysReady, ReadCompleted, Reaches
  <2>6. CASE SelectExpires(s, n)
    BY <2>6 DEF SelectExpires, Reaches
  <2>7. CASE SelectGivesUp(s, n)
    BY <2>7 DEF SelectGivesUp, Reaches, Finished
  <2>8. CASE SelectFails(s, n)
    BY <2>8, <2>a, RunReadCallbackInv DEF SelectFails, Reaches
  <2>9. QED
    BY <1>5, <2>1, <2>2, <2>3, <2>4, <2>5, <2>6, <2>7, <2>8
       DEF ReadPoll, QnxReadSelectDone
<1>6. QED
  BY <1>1, <1>2, <1>3, <1>4, <1>5 DEF Next

\* The inductive invariant holds in every reachable state.
THEOREM Invariance == Spec => []SocketInv
  BY InitInv, NextInv, PTL DEF Spec

\* Every variable of every socket keeps its type.
THEOREM TypeCorrect == Spec => []TypeOK
<1>1. SocketInv => TypeOK
  BY DEF SocketInv
<1>2. QED
  BY <1>1, Invariance, PTL

\* libevent never notifies a watcher whose callback is unset.
THEOREM WatchersCorrect == Spec => []WatchersMatchCallbacks
<1>1. SocketInv => WatchersMatchCallbacks
  BY DEF SocketInv
<1>2. QED
  BY <1>1, Invariance, PTL

\* Whatever the owner cancels and whatever signals arrive, no pending connect
\* or read is ever left without a poll on its way.
THEOREM NoLostWakeup == Spec => []PendingOpsArePolled
<1>1. SocketInv => PendingOpsArePolled
  BY DEF SocketInv
<1>2. QED
  BY <1>1, Invariance, PTL
-----------------------------------------------------------------------------
(* Without cancellations there is one read poll at a time.                 *)

LEMMA OneReadPollInit == Init => OneReadPoll
  BY DEF Init, OneReadPoll, OnlyTheArmedReadIsPolled

LEMMA RunReadCallbackOnePoll ==
  ASSUME SocketInv, OneReadPoll, NEW s \in Sockets, readCb[s] # "none",
         NEW result, NEW p \in [Polls -> Stage],
         \A q \in Polls : q[1] # s => p[q] = poll[q],
         RunReadCallback(s, result, p)
  PROVE  OneReadPoll'
<1> USE DEF SocketInv, TypeOK, OneReadPoll, OnlyTheArmedReadIsPolled, Stage,
            LiveWithout
<1>1. ASSUME NEW got, EndRead(s, got, p)
      PROVE  OneReadPoll'
  BY <1>1 DEF EndRead
<1>2. CASE ArmRead(s, "RetryRead", p, LiveWithout(s))
  BY <1>2 DEF ArmRead
<1>3. QED
  BY <1>1, <1>2 DEF RunReadCallback

LEMMA OneReadPollNext ==
  ASSUME ~MayCancel
  PROVE  SocketInv /\ OneReadPoll /\ [Next]_vars => OneReadPoll'
<1> SUFFICES ASSUME SocketInv, OneReadPoll, [Next]_vars
             PROVE  OneReadPoll'
  OBVIOUS
<1>1. CASE UNCHANGED vars
  BY <1>1 DEF vars, readVars, OneReadPoll, OnlyTheArmedReadIsPolled
<1>2. ASSUME NEW s \in Sockets, Owner(s)
      PROVE  OneReadPoll'
  <2> USE DEF SocketInv, TypeOK, OneReadPoll, OnlyTheArmedReadIsPolled, Stage,
              LiveWithout, readVars
  <2>1. CASE Connect(s)
    BY <2>1 DEF Connect
  <2>2. CASE ConnectAtOnce(s)
    BY <2>2 DEF ConnectAtOnce
  <2>3. ASSUME NEW cb \in {"owner", "RetryRead"}, ReadIfReady(s, cb)
        PROVE  OneReadPoll'
    BY <2>3 DEF ReadIfReady, ArmRead
  <2>4. CASE ReadAtOnce(s)
    BY <2>4 DEF ReadAtOnce
  <2>5. CASE Close(s)
    BY <2>5 DEF Close
  <2>6. QED
    BY <1>2, <2>1, <2>2, <2>3, <2>4, <2>5 DEF Owner, CancelReadIfReady
<1>3. ASSUME NEW s \in Sockets, Network(s)
      PROVE  OneReadPoll'
  BY <1>3 DEF Network, HandshakeEnds, DataArrives, readVars, OneReadPoll,
              OnlyTheArmedReadIsPolled
<1>4. ASSUME NEW s \in Sockets, Libevent(s) \/ QnxPollForConnect(s)
      PROVE  OneReadPoll'
  <2>1. ASSUME ConnectCompleted(s)
        PROVE  OneReadPoll'
    BY <2>1 DEF ConnectCompleted, EndConnect, readVars, OneReadPoll,
                OnlyTheArmedReadIsPolled, LiveWithout
  <2>2. CASE PollMissesConnect(s)
    BY <2>2 DEF PollMissesConnect, readVars, OneReadPoll,
                OnlyTheArmedReadIsPolled
  <2>3. CASE PollGivesUpConnect(s)
    BY <2>3 DEF PollGivesUpConnect, EndConnect, readVars, OneReadPoll,
                OnlyTheArmedReadIsPolled, LiveWithout
  <2>4. CASE OnFileCanReadWithoutBlocking(s)
    BY <2>4, RunReadCallbackOnePoll
       DEF OnFileCanReadWithoutBlocking, ReadCompleted, SocketInv, TypeOK,
           WatchersMatchCallbacks
  <2>5. QED
    BY <1>4, <2>1, <2>2, <2>3, <2>4
       DEF Libevent, QnxPollForConnect, OnFileCanWriteWithoutBlocking,
           PollSeesConnect
<1>5. ASSUME NEW s \in Sockets, NEW n \in Arms, ReadPoll(s, n)
      PROVE  OneReadPoll'
  <2>a. Finished(s, n) \in [Polls -> Stage]
        /\ \A q \in Polls : q[1] # s => Finished(s, n)[q] = poll[q]
    BY DEF Finished, SocketInv, TypeOK, Stage
  <2> USE DEF SocketInv, TypeOK, PendingOpsHaveBudget, OneReadPoll,
              OnlyTheArmedReadIsPolled, Stage, LiveWithout, readVars
  <2>1. CASE QnxPollForRead(s, n)
    BY <2>1 DEF QnxPollForRead
  <2>2. CASE SelectStarts(s, n)
    BY <2>2 DEF SelectStarts
  <2>3. CASE SelectReturns(s, n)
    BY <2>3 DEF SelectReturns, Answered
  <2>4. CASE DropSelect(s, n)
    BY <2>4 DEF DropSelect
  <2>5. CASE SelectSaysReady(s, n)
    BY <2>5, <2>a, RunReadCallbackOnePoll
       DEF SelectSaysReady, ReadCompleted, Reaches
  <2>6. CASE SelectExpires(s, n)
    BY <2>6 DEF SelectExpires, Reaches
  <2>7. CASE SelectGivesUp(s, n)
    BY <2>7 DEF SelectGivesUp, Reaches, Finished
  <2>8. CASE SelectFails(s, n)
    BY <2>8, <2>a, RunReadCallbackOnePoll DEF SelectFails, Reaches
  <2>9. QED
    BY <1>5, <2>1, <2>2, <2>3, <2>4, <2>5, <2>6, <2>7, <2>8
       DEF ReadPoll, QnxReadSelectDone
<1>6. QED
  BY <1>1, <1>2, <1>3, <1>4, <1>5 DEF Next

\* An owner that cancels no read never has the answer to an earlier read
\* taken for the answer to the pending one.
THEOREM OnePollAtATime ==
  ASSUME ~MayCancel
  PROVE  Spec => []OnlyTheArmedReadIsPolled
<1>1. OneReadPoll => OnlyTheArmedReadIsPolled
  BY DEF OneReadPoll
<1>2. QED
  BY <1>1, OneReadPollInit, OneReadPollNext, Invariance, PTL DEF Spec
-----------------------------------------------------------------------------
(* The refinement of PendingOps, once for connects and once for reads: a   *)
(* step of a socket is a step of the promise or leaves it alone.  The      *)
(* promise about connects needs nothing; the one about reads needs an      *)
(* owner that cancels none and a pool no signal interrupts.                *)

HIDE DEF Arms, Polls

(* Connects.                                                               *)

LEMMA ConnectInit == Init => Connects!Init
  BY DEF Init, Connects!Init

LEMMA ConnectStep ==
  SocketInv /\ [Next]_vars => [Connects!Next]_(Connects!pvars)
<1> SUFFICES ASSUME SocketInv, [Next]_vars
             PROVE  [Connects!Next]_(Connects!pvars)
  OBVIOUS
<1> USE DEF SocketInv, TypeOK, PendingOpsHaveBudget
<1>1. ASSUME UNCHANGED connectVars
      PROVE  UNCHANGED Connects!pvars
  BY <1>1 DEF connectVars, Connects!pvars
<1>2. ASSUME NEW s \in Sockets, Connect(s)
      PROVE  Connects!Begin(s)
  BY <1>2 DEF Connect, Connects!Begin
<1>3. ASSUME NEW s \in Sockets, ConnectCompleted(s), waitingConnect[s]
      PROVE  \E r \in {"OK", "ERR_SYSTEM"} : Connects!Complete(s, r)
  BY <1>3 DEF ConnectCompleted, EndConnect, Connects!Complete
<1>4. ASSUME NEW s \in Sockets, PollMissesConnect(s)
      PROVE  Connects!StaySilent(s)
  <2>1. waitingConnect[s] /\ connectCount[s] + 1 < MaxConnectPolls + 1
    BY <1>4, BoundsAssumption DEF PollMissesConnect
  <2>2. /\ UNCHANGED <<waitingConnect, connectResult>>
        /\ connectCount' = [connectCount EXCEPT ![s] = @ + 1]
    BY <1>4 DEF PollMissesConnect
  <2>3. QED
    BY <2>1, <2>2 DEF Connects!StaySilent
<1>5. ASSUME NEW s \in Sockets, PollGivesUpConnect(s)
      PROVE  Connects!TimeOut(s)
  <2>1. connectCount[s] + 1 = MaxConnectPolls + 1
    BY <1>5, BoundsAssumption DEF PollGivesUpConnect
  <2>2. {x \in Sockets : waitingConnect'[x]}
          = {x \in Sockets : waitingConnect[x]} \ {s}
    BY <1>5 DEF PollGivesUpConnect, EndConnect
  <2>3. QED
    BY <1>5, <2>1, <2>2
       DEF PollGivesUpConnect, EndConnect, Connects!TimeOut
<1>6. ASSUME NEW s \in Sockets, Close(s)
      PROVE  Connects!Abandon({s})
  <2>1. {x \in Sockets : waitingConnect'[x]}
          = {x \in Sockets : waitingConnect[x]} \ {s}
    BY <1>6 DEF Close
  <2>2. QED
    BY <1>6, <2>1 DEF Close, Connects!Abandon
<1>7. ASSUME NEW s \in Sockets, ConnectAtOnce(s) \/ HandshakeEnds(s)
      PROVE  UNCHANGED Connects!pvars
  BY <1>7 DEF ConnectAtOnce, HandshakeEnds, Connects!pvars
<1>8. ASSUME NEW s \in Sockets,
             \/ \E cb \in {"owner", "RetryRead"} : ReadIfReady(s, cb)
             \/ ReadAtOnce(s)
             \/ CancelReadIfReady(s)
             \/ DataArrives(s)
             \/ OnFileCanReadWithoutBlocking(s)
             \/ \E n \in Arms : ReadPoll(s, n)
      PROVE  UNCHANGED connectVars
  BY <1>8 DEF ReadIfReady, ReadAtOnce, CancelReadIfReady, DataArrives,
              OnFileCanReadWithoutBlocking, ReadCompleted, RunReadCallback,
              ReadPoll, QnxPollForRead, SelectStarts, SelectReturns,
              QnxReadSelectDone, DropSelect, SelectSaysReady, SelectExpires,
              SelectGivesUp, SelectFails
<1>9. CASE UNCHANGED vars
  BY <1>1, <1>9 DEF vars
<1>10. ASSUME NEW s \in Sockets, Owner(s)
       PROVE  [Connects!Next]_(Connects!pvars)
  <2>1. CASE Close(s)
    <3>1. {s} \in SUBSET Sockets
      OBVIOUS
    <3>2. QED
      BY <1>6, <2>1, <3>1 DEF Connects!Next
  <2>2. CASE Connect(s)
    BY <1>2, <2>2 DEF Connects!Next
  <2>3. QED
    BY <1>1, <1>7, <1>8, <1>10, <2>1, <2>2 DEF Owner
<1>11. ASSUME NEW s \in Sockets, Network(s) \/ Libevent(s)
       PROVE  [Connects!Next]_(Connects!pvars)
  <2>1. ASSUME ConnectCompleted(s), waitingConnect[s]
        PROVE  Connects!Next
    BY <1>3, <2>1 DEF Connects!Next
  <2>2. CASE OnFileCanWriteWithoutBlocking(s)
    BY <1>1, <2>1, <2>2
       DEF OnFileCanWriteWithoutBlocking, WatchersMatchCallbacks
  <2>3. QED
    BY <1>1, <1>7, <1>8, <1>11, <2>2 DEF Network, Libevent
<1>12. ASSUME NEW s \in Sockets, QnxPollForConnect(s)
       PROVE  [Connects!Next]_(Connects!pvars)
  BY <1>3, <1>4, <1>5, <1>12
     DEF QnxPollForConnect, PollSeesConnect, Connects!Next
<1>13. QED
  BY <1>1, <1>8, <1>9, <1>10, <1>11, <1>12 DEF Next

\* Every connect is completed once, with a final result, and is given up
\* only after MaxConnectPolls polls and one more have failed.
THEOREM ConnectPromiseHolds == Spec => ConnectPromise
<1>1. Spec => [][Connects!Next]_(Connects!pvars)
  BY ConnectStep, Invariance, PTL DEF Spec
<1>2. Spec => Connects!Init
  BY ConnectInit, PTL DEF Spec
<1>3. QED
  BY <1>1, <1>2, PTL DEF ConnectPromise, Connects!Spec
-----------------------------------------------------------------------------
(* Reads.                                                                  *)

LEMMA ReadInit == Init => Reads!Init
  BY DEF Init, Reads!Init

\* Ending a read completes it; re-arming it is a sign of life.
LEMMA RunReadCallbackStep ==
  ASSUME SocketInv, NEW s \in Sockets, readCb[s] # "none",
         NEW result \in {"OK", "ERR_SYSTEM"}, NEW p,
         RunReadCallback(s, result, p)
  PROVE  Reads!Next
<1> USE DEF SocketInv, TypeOK
<1>1. ASSUME NEW got \in {"OK", "ERR_SYSTEM"}, EndRead(s, got, p)
      PROVE  Reads!Complete(s, got)
  BY <1>1 DEF EndRead, Reads!Complete
<1>2. ASSUME ArmRead(s, "RetryRead", p, LiveWithout(s))
      PROVE  Reads!Hear(s)
  BY <1>2 DEF ArmRead, Reads!Hear
<1>3. QED
  BY <1>1, <1>2 DEF RunReadCallback, Reads!Next

LEMMA ReadStep ==
  ASSUME ~MayCancel, ~MayInterrupt
  PROVE  SocketInv /\ OneReadPoll /\ [Next]_vars
         => [Reads!Next]_(Reads!pvars)
<1> SUFFICES ASSUME SocketInv, OneReadPoll, [Next]_vars
             PROVE  [Reads!Next]_(Reads!pvars)
  OBVIOUS
<1> USE DEF SocketInv, TypeOK, PendingOpsHaveBudget, OneReadPoll,
            OnlyTheArmedReadIsPolled
<1>1. ASSUME UNCHANGED readVars
      PROVE  UNCHANGED Reads!pvars
  BY <1>1 DEF readVars, Reads!pvars
<1>2. ASSUME NEW s \in Sockets, NEW cb \in {"owner", "RetryRead"},
             ReadIfReady(s, cb)
      PROVE  Reads!Begin(s)
  BY <1>2 DEF ReadIfReady, ArmRead, Reads!Begin
<1>3. ASSUME NEW s \in Sockets, Close(s)
      PROVE  Reads!Abandon({s})
  <2>1. {x \in Sockets : readCb'[x] # "none"}
          = {x \in Sockets : readCb[x] # "none"} \ {s}
    BY <1>3 DEF Close
  <2>2. QED
    BY <1>3, <2>1 DEF Close, Reads!Abandon
<1>4. ASSUME NEW s \in Sockets, OnFileCanReadWithoutBlocking(s)
      PROVE  Reads!Next
  BY <1>4, RunReadCallbackStep
     DEF OnFileCanReadWithoutBlocking, ReadCompleted, WatchersMatchCallbacks
<1>5. ASSUME NEW s \in Sockets, NEW n \in Arms, SelectSaysReady(s, n)
      PROVE  Reads!Next
  BY <1>5, RunReadCallbackStep DEF SelectSaysReady, ReadCompleted, Reaches
<1>6. ASSUME NEW s \in Sockets, NEW n \in Arms, SelectExpires(s, n)
      PROVE  Reads!StaySilent(s)
  <2>1. /\ <<s, n>> \in live /\ readCb[s] # "none"
        /\ readCount[s] + 1 < MaxReadPolls
    BY <1>6 DEF SelectExpires, Reaches
  <2>2. n = arm[s] /\ silent[s] = readCount[s]
    BY <2>1
  <2>3. QED
    BY <1>6, <2>1, <2>2 DEF SelectExpires, Reads!StaySilent
<1>7. ASSUME NEW s \in Sockets, NEW n \in Arms, SelectGivesUp(s, n)
      PROVE  Reads!TimeOut(s)
  <2>1. n = arm[s] /\ silent[s] + 1 = MaxReadPolls
    <3>1. /\ <<s, n>> \in live /\ readCb[s] # "none"
          /\ readCount[s] + 1 >= MaxReadPolls
      BY <1>7 DEF SelectGivesUp, Reaches
    <3>2. n = arm[s]
      BY <3>1
    <3>3. /\ silent[s] = readCount[s] /\ readCount[s] < MaxReadPolls
          /\ readCount[s] \in Nat
      BY <3>1
    <3>4. MaxReadPolls \in Nat
      BY BoundsAssumption
    <3>5. readCount[s] + 1 = MaxReadPolls
      BY <3>1, <3>3, <3>4
    <3>6. QED
      BY <3>2, <3>3, <3>5
  <2>2. {x \in Sockets : readCb'[x] # "none"}
          = {x \in Sockets : readCb[x] # "none"} \ {s}
    BY <1>7 DEF SelectGivesUp
  <2>3. QED
    BY <1>7, <2>1, <2>2 DEF SelectGivesUp, Reaches, Reads!TimeOut
<1>8. ASSUME NEW s \in Sockets, NEW n \in Arms
      PROVE  ~SelectFails(s, n)
  BY DEF SelectFails, Reaches
<1>9. ASSUME NEW s \in Sockets,
             \/ Connect(s) \/ ConnectAtOnce(s) \/ ReadAtOnce(s)
             \/ Network(s) \/ OnFileCanWriteWithoutBlocking(s)
             \/ QnxPollForConnect(s)
             \/ \E n \in Arms : \/ QnxPollForRead(s, n)
                                \/ SelectStarts(s, n)
                                \/ SelectReturns(s, n)
                                \/ DropSelect(s, n)
      PROVE  UNCHANGED readVars
  BY <1>9 DEF Connect, ConnectAtOnce, ReadAtOnce, Network, HandshakeEnds,
              DataArrives, OnFileCanWriteWithoutBlocking, ConnectCompleted,
              QnxPollForConnect, PollSeesConnect, PollMissesConnect,
              PollGivesUpConnect, QnxPollForRead, SelectStarts,
              SelectReturns, DropSelect
<1>10. CASE UNCHANGED vars
  BY <1>1, <1>10 DEF vars
<1>11. ASSUME NEW s \in Sockets,
              Owner(s) \/ Network(s) \/ Libevent(s) \/ QnxPollForConnect(s)
       PROVE  [Reads!Next]_(Reads!pvars)
  <2>1. ASSUME NEW cb \in {"owner", "RetryRead"}, ReadIfReady(s, cb)
        PROVE  Reads!Next
    BY <1>2, <2>1 DEF Reads!Next
  <2>2. CASE Close(s)
    <3>1. {s} \in SUBSET Sockets
      OBVIOUS
    <3>2. QED
      BY <1>3, <2>2, <3>1 DEF Reads!Next
  <2>3. QED
    BY <1>1, <1>4, <1>9, <1>11, <2>1, <2>2
       DEF Owner, Libevent, CancelReadIfReady
<1>12. ASSUME NEW s \in Sockets, NEW n \in Arms, ReadPoll(s, n)
       PROVE  [Reads!Next]_(Reads!pvars)
  BY <1>1, <1>5, <1>6, <1>7, <1>8, <1>9, <1>12
     DEF ReadPoll, QnxReadSelectDone, Reads!Next
<1>13. QED
  BY <1>10, <1>11, <1>12 DEF Next

\* Every read of an owner that cancels none is completed once, with a final
\* result, and is given up only after MaxReadPolls selects of its own arming
\* have expired.
THEOREM ReadPromiseHolds ==
  ASSUME ~MayCancel, ~MayInterrupt
  PROVE  Spec => ReadPromise
<1>1. Spec => []OneReadPoll
  BY OneReadPollInit, OneReadPollNext, Invariance, PTL DEF Spec
<1>2. Spec => [][Reads!Next]_(Reads!pvars)
  BY <1>1, ReadStep, Invariance, PTL DEF Spec
<1>3. Spec => Reads!Init
  BY ReadInit, PTL DEF Spec
<1>4. QED
  BY <1>2, <1>3, PTL DEF ReadPromise, Reads!Spec
=============================================================================
