---------------------------- MODULE SocketPosix ----------------------------
(***************************************************************************)
(* net::SocketPosix as the QNX port runs it: a pending connect and a       *)
(* pending read are each raced by two sources of progress, the libevent    *)
(* watcher of the IO thread and a backup poll added by the port.  The      *)
(* connect poll is a delayed task of the IO thread; the read poll hops     *)
(* from a delayed task to a blocking select() on a pool thread and back    *)
(* with the result, bound to the socket by a WeakPtr.                      *)
(*                                                                         *)
(* A step is one task of the IO thread, one libevent notification, one     *)
(* start or return of a select() on a pool thread, one call of the         *)
(* socket's owner (on the IO thread) or one event of the network.          *)
(***************************************************************************)
EXTENDS Naturals, FiniteSets

CONSTANTS
  Sockets,          \* the sockets the IO thread serves
  MaxArms,          \* bound: times one socket arms a read (ReadIfReady pends)
  MaxReadPolls,     \* selects that may expire before a read is given up: 12
  MaxConnectPolls,  \* connect polls that may fail before giving up: 1500
  PoolThreads,      \* worker threads the read polls share
  MayCancel,        \* does the owner call CancelReadIfReady?
  MayInterrupt,     \* can a signal interrupt a select() of a pool thread?
  ZeroTimeoutWorks  \* does select() with a zero timeout report readiness?

ASSUME BoundsAssumption ==
  /\ MaxArms \in Nat \ {0}
  /\ MaxReadPolls \in Nat \ {0}
  /\ MaxConnectPolls \in Nat \ {0}
  /\ PoolThreads \in Nat \ {0}

ASSUME EnvironmentAssumption ==
  /\ MayCancel \in BOOLEAN
  /\ MayInterrupt \in BOOLEAN
  /\ ZeroTimeoutWorks \in BOOLEAN

VARIABLES
  alive,          \* the SocketPosix object exists
  connected,      \* its connect() succeeded
  handshake,      \* network: how the TCP handshake ended
  waitingConnect, \* waiting_connect_, with write_callback_ set
  writeWatch,     \* write_socket_watcher_ is registered with libevent
  connectPoll,    \* a QnxPollForConnect task with a valid WeakPtr is posted
  connectCount,   \* qnx_connect_poll_count_
  connectResult,  \* the last result the connect callback was run with
  readCb,         \* read_if_ready_callback_: unset, the owner's or RetryRead
  readWatch,      \* read_socket_watcher_ is registered with libevent
  readCount,      \* qnx_read_poll_count_
  readResult,     \* the last result a read callback was run with
  arm,            \* how many times the socket armed a read
  poll,           \* poll[<<s, n>>]: where the poll of arming n of s is
  live,           \* the polls whose WeakPtr is valid
  readable,       \* network: bytes wait in the socket
  silent          \* history: expired selects of the current arming

connectVars == <<handshake, waitingConnect, writeWatch, connectCount,
                 connectResult, connected>>
readVars == <<readCb, readWatch, readCount, readResult, arm, silent>>
vars == <<alive, connectVars, connectPoll, readVars, poll, live, readable>>

Arms == 1 .. MaxArms
Polls == Sockets \X Arms

\* A read poll is nowhere, a delayed task of the IO thread, a task waiting
\* for a pool thread, inside select(), or its result is back in the IO queue.
Stage == {"idle", "delayed", "queued", "selecting",
          "ready", "expired", "failed"}
Answered == {"ready", "expired", "failed"}

\* MapSystemError(errno) of an errno that no call of this thread has set for
\* this failure: the value left by an earlier DoRead (EAGAIN), or any other.
StaleErrors == {"ERR_IO_PENDING", "ERR_SYSTEM"}
Outcomes == {"none", "OK", "ERR_CONNECTION_TIMED_OUT", "ERR_SYSTEM",
             "ERR_IO_PENDING"}

Init ==
  /\ alive = [s \in Sockets |-> TRUE]
  /\ connected = [s \in Sockets |-> FALSE]
  /\ handshake = [s \in Sockets |-> "pending"]
  /\ waitingConnect = [s \in Sockets |-> FALSE]
  /\ writeWatch = [s \in Sockets |-> FALSE]
  /\ connectPoll = [s \in Sockets |-> FALSE]
  /\ connectCount = [s \in Sockets |-> 0]
  /\ connectResult = [s \in Sockets |-> "none"]
  /\ readCb = [s \in Sockets |-> "none"]
  /\ readWatch = [s \in Sockets |-> FALSE]
  /\ readCount = [s \in Sockets |-> 0]
  /\ readResult = [s \in Sockets |-> "none"]
  /\ arm = [s \in Sockets |-> 0]
  /\ poll = [p \in Polls |-> "idle"]
  /\ live = {}
  /\ readable = [s \in Sockets |-> FALSE]
  /\ silent = [s \in Sockets |-> 0]
-----------------------------------------------------------------------------
(* weak_factory_.InvalidateWeakPtrs(): every task of s bound to it dies.   *)
LiveWithout(s) == {p \in live : p[1] # s}

-----------------------------------------------------------------------------
(* Connecting.                                                             *)

\* DoConnect is in progress: watch the socket and post the first backup poll.
Connect(s) ==
  /\ alive[s] /\ ~connected[s] /\ ~waitingConnect[s]
  /\ connectResult[s] = "none"
  /\ waitingConnect' = [waitingConnect EXCEPT ![s] = TRUE]
  /\ writeWatch' = [writeWatch EXCEPT ![s] = TRUE]
  /\ connectCount' = [connectCount EXCEPT ![s] = 0]
  /\ connectPoll' = [connectPoll EXCEPT ![s] = TRUE]
  /\ UNCHANGED <<alive, connected, handshake, connectResult, readVars,
                 poll, live, readable>>

\* DoConnect answers at once: no callback is kept and nothing is posted.
ConnectAtOnce(s) ==
  /\ alive[s] /\ ~connected[s] /\ ~waitingConnect[s]
  /\ connectResult[s] = "none"
  /\ connected' = [connected EXCEPT ![s] = TRUE]
  /\ handshake' = [handshake EXCEPT ![s] = "done"]
  /\ UNCHANGED <<alive, waitingConnect, writeWatch, connectCount,
                 connectResult, connectPoll, readVars, poll, live, readable>>

\* The network accepts or refuses the connection; either makes it writable.
HandshakeEnds(s) ==
  /\ waitingConnect[s] /\ handshake[s] = "pending"
  /\ \E h \in {"done", "refused"} : handshake' = [handshake EXCEPT ![s] = h]
  /\ UNCHANGED <<alive, connected, waitingConnect, writeWatch, connectCount,
                 connectResult, connectPoll, readVars, poll, live, readable>>

\* Stop watching, drop every task bound to the socket, run the callback.
EndConnect(s, result) ==
  /\ writeWatch' = [writeWatch EXCEPT ![s] = FALSE]
  /\ waitingConnect' = [waitingConnect EXCEPT ![s] = FALSE]
  /\ connectPoll' = [connectPoll EXCEPT ![s] = FALSE]
  /\ live' = LiveWithout(s)
  /\ connectResult' = [connectResult EXCEPT ![s] = result]
  /\ connected' = [connected EXCEPT ![s] = (result = "OK")]

ConnectCompleted(s) ==
  /\ EndConnect(s, IF handshake[s] = "done" THEN "OK" ELSE "ERR_SYSTEM")
  /\ UNCHANGED <<alive, handshake, connectCount, readVars, poll, readable>>

\* libevent reports the socket writable.
OnFileCanWriteWithoutBlocking(s) ==
  /\ writeWatch[s] /\ handshake[s] # "pending"
  /\ ConnectCompleted(s)

\* The delayed task finds the socket writable with a zero-timeout select().
PollSeesConnect(s) ==
  /\ connectPoll[s] /\ waitingConnect[s] /\ handshake[s] # "pending"
  /\ ConnectCompleted(s)

\* Faulty variant: the failed connect polls are not counted.
PollMissesUncounted(s) ==
  /\ connectPoll[s] /\ waitingConnect[s]
  /\ handshake[s] = "pending" \/ ~ZeroTimeoutWorks
  /\ connectCount[s] + 1 <= MaxConnectPolls
  /\ UNCHANGED vars

\* The zero-timeout select() reports nothing: poll again 20 ms later ...
PollMissesConnect(s) ==
  /\ connectPoll[s] /\ waitingConnect[s]
  /\ handshake[s] = "pending" \/ ~ZeroTimeoutWorks
  /\ connectCount[s] + 1 <= MaxConnectPolls
  /\ connectCount' = [connectCount EXCEPT ![s] = @ + 1]
  /\ UNCHANGED <<alive, connected, handshake, waitingConnect, writeWatch,
                 connectPoll, connectResult, readVars, poll, live, readable>>

\* Faulty variant: gives up one poll early.
PollGivesUpEarly(s) ==
  /\ connectPoll[s] /\ waitingConnect[s]
  /\ handshake[s] = "pending" \/ ~ZeroTimeoutWorks
  /\ connectCount[s] + 1 >= MaxConnectPolls
  /\ connectCount' = [connectCount EXCEPT ![s] = @ + 1]
  /\ EndConnect(s, "ERR_CONNECTION_TIMED_OUT")
  /\ UNCHANGED <<alive, handshake, readVars, poll, readable>>

\* ... or give the connection up.
PollGivesUpConnect(s) ==
  /\ connectPoll[s] /\ waitingConnect[s]
  /\ handshake[s] = "pending" \/ ~ZeroTimeoutWorks
  /\ connectCount[s] + 1 > MaxConnectPolls
  /\ connectCount' = [connectCount EXCEPT ![s] = @ + 1]
  /\ EndConnect(s, "ERR_CONNECTION_TIMED_OUT")
  /\ UNCHANGED <<alive, handshake, readVars, poll, readable>>

QnxPollForConnect(s) ==
  PollSeesConnect(s) \/ PollMissesConnect(s) \/ PollGivesUpConnect(s)
-----------------------------------------------------------------------------
(* Reading.                                                                *)

\* Faulty variant: arming a read does not reset the count of expired selects.
ArmReadKeepingCount(s, cb, p, l) ==
  /\ arm[s] < MaxArms
  /\ readWatch' = [readWatch EXCEPT ![s] = TRUE]
  /\ readCb' = [readCb EXCEPT ![s] = cb]
  /\ silent' = [silent EXCEPT ![s] = 0]
  /\ arm' = [arm EXCEPT ![s] = @ + 1]
  /\ poll' = [p EXCEPT ![<<s, arm[s] + 1>>] = "delayed"]
  /\ live' = l \cup {<<s, arm[s] + 1>>}
  /\ UNCHANGED <<readCount, readResult, readable>>

\* ReadIfReady found the socket empty: watch it, keep the callback and post
\* the first read poll.  p and l are the polls and their WeakPtrs before.
ArmRead(s, cb, p, l) ==
  /\ arm[s] < MaxArms
  /\ readWatch' = [readWatch EXCEPT ![s] = TRUE]
  /\ readCb' = [readCb EXCEPT ![s] = cb]
  /\ readCount' = [readCount EXCEPT ![s] = 0]
  /\ silent' = [silent EXCEPT ![s] = 0]
  /\ arm' = [arm EXCEPT ![s] = @ + 1]
  /\ poll' = [p EXCEPT ![<<s, arm[s] + 1>>] = "delayed"]
  /\ live' = l \cup {<<s, arm[s] + 1>>}
  /\ UNCHANGED <<readResult, readable>>

\* The owner calls ReadIfReady, or Read, which binds RetryRead as callback.
ReadIfReady(s, cb) ==
  /\ alive[s] /\ connected[s] /\ readCb[s] = "none"
  /\ ~readable[s]
  /\ ArmRead(s, cb, poll, live)
  /\ UNCHANGED <<alive, connectVars, connectPoll>>

\* The same call when DoRead returns bytes: nothing is left pending.
ReadAtOnce(s) ==
  /\ alive[s] /\ connected[s] /\ readCb[s] = "none"
  /\ readable[s]
  /\ readable' = [readable EXCEPT ![s] = FALSE]
  /\ UNCHANGED <<alive, connectVars, connectPoll, readVars, poll, live>>

\* Faulty variant: the WeakPtrs of the completed read stay valid.
EndReadKeepingPolls(s, result, p) ==
  /\ readWatch' = [readWatch EXCEPT ![s] = FALSE]
  /\ readCb' = [readCb EXCEPT ![s] = "none"]
  /\ poll' = p
  /\ readResult' = [readResult EXCEPT ![s] = result]
  /\ UNCHANGED <<readCount, arm, silent, live>>

\* Stop watching, drop every task bound to the socket and run the callback
\* with result; p are the polls once the running task has left the queue.
EndRead(s, result, p) ==
  /\ readWatch' = [readWatch EXCEPT ![s] = FALSE]
  /\ readCb' = [readCb EXCEPT ![s] = "none"]
  /\ live' = LiveWithout(s)
  /\ poll' = p
  /\ readResult' = [readResult EXCEPT ![s] = result]
  /\ UNCHANGED <<readCount, arm, silent>>

\* The callback of a Read is RetryRead: told OK, it reads, and arms again
\* when another reader or a stale notice left the socket empty.
RunReadCallback(s, result, p) ==
  /\ connectPoll' = [connectPoll EXCEPT ![s] = FALSE]
  /\ UNCHANGED <<alive, connectVars>>
  /\ \/ /\ result # "OK" \/ readCb[s] = "owner"
        /\ EndRead(s, result, p)
        /\ UNCHANGED readable
     \/ /\ result = "OK" /\ readCb[s] = "RetryRead" /\ readable[s]
        /\ \E got \in {"OK", "ERR_SYSTEM"} : EndRead(s, got, p)
        /\ readable' = [readable EXCEPT ![s] = FALSE]
     \/ /\ result = "OK" /\ readCb[s] = "RetryRead" /\ ~readable[s]
        /\ ArmRead(s, "RetryRead", p, LiveWithout(s))

ReadCompleted(s, p) == RunReadCallback(s, "OK", p)

\* libevent reports the socket readable.
OnFileCanReadWithoutBlocking(s) ==
  /\ readWatch[s] /\ readable[s]
  /\ ReadCompleted(s, poll)

\* The delayed task of arming n runs on the IO thread: a dead WeakPtr or an
\* unset callback ends the poll, otherwise a select() is handed to the pool.
QnxPollForRead(s, n) ==
  /\ poll[<<s, n>>] = "delayed"
  /\ LET goesOn == <<s, n>> \in live /\ readCb[s] # "none"
     IN  /\ poll' = [poll EXCEPT ![<<s, n>>] =
                        IF goesOn THEN "queued" ELSE "idle"]
         /\ live' = IF goesOn THEN live ELSE live \ {<<s, n>>}
  /\ UNCHANGED <<alive, connectVars, connectPoll, readVars, readable>>

\* A free pool thread enters select(), for at most five seconds.
SelectStarts(s, n) ==
  /\ poll[<<s, n>>] = "queued"
  /\ Cardinality({p \in Polls : poll[p] = "selecting"}) < PoolThreads
  /\ poll' = [poll EXCEPT ![<<s, n>>] = "selecting"]
  /\ UNCHANGED <<alive, connectVars, connectPoll, readVars, live, readable>>

\* select() returns and the pool thread posts the result to the IO thread.
\* Once the socket is gone its descriptor number may name any other file.
SelectReturns(s, n) ==
  /\ poll[<<s, n>>] = "selecting"
  /\ \E r \in Answered :
       /\ alive[s] => \/ r = "ready" /\ readable[s]
                      \/ r = "expired" /\ ~readable[s]
                      \/ r = "failed" /\ MayInterrupt
       /\ poll' = [poll EXCEPT ![<<s, n>>] = r]
  /\ UNCHANGED <<alive, connectVars, connectPoll, readVars, live, readable>>

\* The result reaches the IO thread after the WeakPtr died or the callback
\* was taken back: it is dropped.
DropSelect(s, n) ==
  /\ poll[<<s, n>>] \in Answered
  /\ <<s, n>> \notin live \/ readCb[s] = "none"
  /\ poll' = [poll EXCEPT ![<<s, n>>] = "idle"]
  /\ live' = live \ {<<s, n>>}
  /\ UNCHANGED <<alive, connectVars, connectPoll, readVars, readable>>

Reaches(s, n, r) ==
  /\ poll[<<s, n>>] = r /\ <<s, n>> \in live /\ readCb[s] # "none"

Finished(s, n) == [poll EXCEPT ![<<s, n>>] = "idle"]

SelectSaysReady(s, n) ==
  /\ Reaches(s, n, "ready")
  /\ ReadCompleted(s, Finished(s, n))

\* Faulty variant: one select() too many is allowed.
SelectExpiresLate(s, n) ==
  /\ Reaches(s, n, "expired")
  /\ readCount[s] + 1 <= MaxReadPolls
  /\ readCount' = [readCount EXCEPT ![s] = @ + 1]
  /\ poll' = [poll EXCEPT ![<<s, n>>] = "queued"]
  /\ UNCHANGED <<alive, connectVars, connectPoll, readCb, readWatch,
                 readResult, arm, silent, live, readable>>

\* Faulty variant: the expired select() is counted and not repeated.
SelectExpiresUnpolled(s, n) ==
  /\ Reaches(s, n, "expired")
  /\ readCount[s] + 1 < MaxReadPolls
  /\ readCount' = [readCount EXCEPT ![s] = @ + 1]
  /\ poll' = Finished(s, n)
  /\ UNCHANGED <<alive, connectVars, connectPoll, readCb, readWatch,
                 readResult, arm, silent, live, readable>>

\* Faulty variant: the expired select() is repeated and not counted.
SelectExpiresUncounted(s, n) ==
  /\ Reaches(s, n, "expired")
  /\ poll' = [poll EXCEPT ![<<s, n>>] = "queued"]
  /\ UNCHANGED <<alive, connectVars, connectPoll, readVars, live, readable>>

\* One select() expired and the budget is not spent: hand over another one.
SelectExpires(s, n) ==
  /\ Reaches(s, n, "expired")
  /\ readCount[s] + 1 < MaxReadPolls
  /\ readCount' = [readCount EXCEPT ![s] = @ + 1]
  /\ silent' = [silent EXCEPT ![s] = IF n = arm[s] THEN @ + 1 ELSE @]
  /\ poll' = [poll EXCEPT ![<<s, n>>] = "queued"]
  /\ UNCHANGED <<alive, connectVars, connectPoll, readCb, readWatch,
                 readResult, arm, live, readable>>

\* The last select() of the budget expired: the read is given up.
SelectGivesUp(s, n) ==
  /\ Reaches(s, n, "expired")
  /\ readCount[s] + 1 >= MaxReadPolls
  /\ readWatch' = [readWatch EXCEPT ![s] = FALSE]
  /\ readCb' = [readCb EXCEPT ![s] = "none"]
  /\ readCount' = [readCount EXCEPT ![s] = @ + 1]
  /\ silent' = [silent EXCEPT ![s] = IF n = arm[s] THEN @ + 1 ELSE @]
  /\ live' = LiveWithout(s)
  /\ connectPoll' = [connectPoll EXCEPT ![s] = FALSE]
  /\ poll' = Finished(s, n)
  /\ readResult' = [readResult EXCEPT ![s] = "ERR_CONNECTION_TIMED_OUT"]
  /\ UNCHANGED <<alive, connectVars, arm, readable>>

\* select() failed on the pool thread, and the IO thread maps its own errno.
SelectFails(s, n) ==
  /\ Reaches(s, n, "failed")
  /\ \E e \in StaleErrors \cup {"OK"} :
       RunReadCallback(s, e, Finished(s, n))

QnxReadSelectDone(s, n) ==
  \/ DropSelect(s, n)
  \/ SelectSaysReady(s, n)
  \/ SelectExpires(s, n)
  \/ SelectGivesUp(s, n)
  \/ SelectFails(s, n)
-----------------------------------------------------------------------------
(* The owner takes an operation back, and the network delivers.            *)

\* Faulty variant: the watcher of the cancelled read stays registered.
CancelWatched(s) ==
  /\ MayCancel
  /\ readCb[s] = "owner"
  /\ readCb' = [readCb EXCEPT ![s] = "none"]
  /\ UNCHANGED <<alive, connectVars, connectPoll, readWatch, readCount,
                 readResult, arm, silent, poll, live, readable>>

\* CancelReadIfReady stops the watcher and unsets the callback, and leaves
\* the poll of the cancelled arming, and its WeakPtr, as they are.
CancelReadIfReady(s) ==
  /\ MayCancel
  /\ readCb[s] = "owner"
  /\ readWatch' = [readWatch EXCEPT ![s] = FALSE]
  /\ readCb' = [readCb EXCEPT ![s] = "none"]
  /\ UNCHANGED <<alive, connectVars, connectPoll, readCount, readResult, arm,
                 silent, poll, live, readable>>

\* The owner closes and destroys the socket: watchers, callbacks and
\* WeakPtrs go; a select() of a pool thread goes on.
Close(s) ==
  /\ alive[s]
  /\ alive' = [alive EXCEPT ![s] = FALSE]
  /\ waitingConnect' = [waitingConnect EXCEPT ![s] = FALSE]
  /\ writeWatch' = [writeWatch EXCEPT ![s] = FALSE]
  /\ connectPoll' = [connectPoll EXCEPT ![s] = FALSE]
  /\ readCb' = [readCb EXCEPT ![s] = "none"]
  /\ readWatch' = [readWatch EXCEPT ![s] = FALSE]
  /\ live' = LiveWithout(s)
  /\ UNCHANGED <<connected, handshake, connectCount, connectResult, readCount,
                 readResult, arm, silent, poll, readable>>

DataArrives(s) ==
  /\ alive[s] /\ connected[s] /\ ~readable[s]
  /\ readable' = [readable EXCEPT ![s] = TRUE]
  /\ UNCHANGED <<alive, connectVars, connectPoll, readVars, poll, live>>
-----------------------------------------------------------------------------
Owner(s) == \/ Connect(s)
            \/ ConnectAtOnce(s)
            \/ \E cb \in {"owner", "RetryRead"} : ReadIfReady(s, cb)
            \/ ReadAtOnce(s)
            \/ CancelReadIfReady(s)
            \/ Close(s)

Network(s) == HandshakeEnds(s) \/ DataArrives(s)

Libevent(s) ==
  OnFileCanWriteWithoutBlocking(s) \/ OnFileCanReadWithoutBlocking(s)

ReadPoll(s, n) == \/ QnxPollForRead(s, n)
                  \/ SelectStarts(s, n)
                  \/ SelectReturns(s, n)
                  \/ QnxReadSelectDone(s, n)

Next == \E s \in Sockets : \/ Owner(s)
                           \/ Network(s)
                           \/ Libevent(s)
                           \/ QnxPollForConnect(s)
                           \/ \E n \in Arms : ReadPoll(s, n)

Spec == Init /\ [][Next]_vars

\* The IO thread runs every task it was given, a select() returns within its
\* five seconds, and the pool serves its queue in order: a queued select() is
\* not overtaken for ever.  libevent, the network and the owner owe nothing.
Fairness ==
  \A s \in Sockets :
    /\ WF_vars(QnxPollForConnect(s))
    /\ \A n \in Arms : /\ WF_vars(QnxPollForRead(s, n))
                       /\ SF_vars(SelectStarts(s, n))
                       /\ WF_vars(SelectReturns(s, n))
                       /\ WF_vars(QnxReadSelectDone(s, n))

FairSpec == Spec /\ Fairness
-----------------------------------------------------------------------------
(* Properties.                                                             *)

\* Every variable keeps its type (the fields of class SocketPosix).
TypeOK ==
  /\ alive \in [Sockets -> BOOLEAN]
  /\ connected \in [Sockets -> BOOLEAN]
  /\ handshake \in [Sockets -> {"pending", "done", "refused"}]
  /\ waitingConnect \in [Sockets -> BOOLEAN]
  /\ writeWatch \in [Sockets -> BOOLEAN]
  /\ connectPoll \in [Sockets -> BOOLEAN]
  /\ connectCount \in [Sockets -> 0 .. MaxConnectPolls + 1]
  /\ connectResult \in [Sockets -> Outcomes]
  /\ readCb \in [Sockets -> {"none", "owner", "RetryRead"}]
  /\ readWatch \in [Sockets -> BOOLEAN]
  /\ readCount \in [Sockets -> 0 .. MaxReadPolls]
  /\ readResult \in [Sockets -> Outcomes]
  /\ arm \in [Sockets -> 0 .. MaxArms]
  /\ poll \in [Polls -> Stage]
  /\ live \in SUBSET Polls
  /\ readable \in [Sockets -> BOOLEAN]
  /\ silent \in [Sockets -> 0 .. MaxReadPolls]

\* libevent notifies a watcher exactly while the callback it would run is
\* set: OnFileCanRead/WriteWithoutBlocking run it without looking, so every
\* path that ends an operation has to stop its watcher as well.
WatchersMatchCallbacks ==
  \A s \in Sockets : /\ readWatch[s] <=> readCb[s] # "none"
                     /\ writeWatch[s] <=> waitingConnect[s]

\* No lost wakeup: since libevent may never report the socket, a pending
\* operation always has a poll on its way whose WeakPtr is still valid.
PendingOpsArePolled ==
  \A s \in Sockets :
    /\ waitingConnect[s] => connectPoll[s]
    /\ readCb[s] # "none" =>
         <<s, arm[s]>> \in live /\ poll[<<s, arm[s]>>] # "idle"

\* A poll that can still touch the socket belongs to the pending arming: the
\* answer to an earlier question is never taken for an answer to this one.
\* It relies on the owner never calling CancelReadIfReady.
OnlyTheArmedReadIsPolled ==
  \A p \in live : readCb[p[1]] # "none" /\ p[2] = arm[p[1]]

\* What the owner of the sockets relies on, for their connects and reads.
Connects == INSTANCE PendingOps WITH
  Ops <- Sockets,
  Results <- {"OK", "ERR_SYSTEM"},
  TimedOut <- "ERR_CONNECTION_TIMED_OUT",
  Budget <- [s \in Sockets |-> MaxConnectPolls + 1],
  pending <- {s \in Sockets : waitingConnect[s]},
  outcome <- connectResult,
  waited <- connectCount

Reads == INSTANCE PendingOps WITH
  Ops <- Sockets,
  Results <- {"OK", "ERR_SYSTEM"},
  TimedOut <- "ERR_CONNECTION_TIMED_OUT",
  Budget <- [s \in Sockets |-> MaxReadPolls],
  pending <- {s \in Sockets : readCb[s] # "none"},
  outcome <- readResult,
  waited <- silent

\* The connect callback is run once per Connect, with a final result, and
\* with a timeout only after the whole budget of failed polls.
ConnectPromise == Connects!Spec

\* The read callback is run once per read, across every arming of RetryRead,
\* with a final result, and with a timeout only after the selects of its own
\* arming have spent the budget.
ReadPromise == Reads!Spec

\* A read left pending ends, whatever libevent does and however many sockets
\* share the pool threads: with bytes, an error, a timeout or its owner's
\* change of mind.
PendingReadEnds ==
  \A s \in Sockets : readCb[s] # "none" ~> readCb[s] = "none"

\* A connect left pending ends, even if no select() ever reports it.
PendingConnectEnds ==
  \A s \in Sockets : waitingConnect[s] ~> ~waitingConnect[s]
-----------------------------------------------------------------------------
(* What makes the invariants above inductive.                              *)

\* Reads follow a successful connect on an existing socket, and a pending
\* operation has budget left.
PendingOpsHaveBudget ==
  \A s \in Sockets :
    /\ connected[s] => ~waitingConnect[s]
    /\ readCb[s] # "none" => /\ alive[s] /\ connected[s]
                             /\ arm[s] >= 1
                             /\ silent[s] <= readCount[s]
                             /\ readCount[s] < MaxReadPolls
    /\ waitingConnect[s] => connectCount[s] <= MaxConnectPolls

SocketInv == /\ TypeOK
             /\ WatchersMatchCallbacks
             /\ PendingOpsArePolled
             /\ PendingOpsHaveBudget

\* While no read is cancelled every expired select() is one of the pending
\* arming; while no signal arrives a select() of an open socket never fails.
OneReadPoll ==
  /\ OnlyTheArmedReadIsPolled
  /\ \A s \in Sockets : readCb[s] # "none" => silent[s] = readCount[s]
  /\ ~MayInterrupt => \A p \in live : poll[p] # "failed"
=============================================================================
