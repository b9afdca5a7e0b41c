----------------------------- MODULE PendingOps -----------------------------
(***************************************************************************)
(* What a net::SocketPosix promises its caller about the operations that   *)
(* it leaves pending: an operation that was begun is completed at most     *)
(* once, never after it was abandoned, with one of the results a caller    *)
(* understands, and it is timed out only when the whole silence budget of  *)
(* that very operation has been spent.  Nothing is said about how the      *)
(* socket finds out that its peer is silent.                               *)
(***************************************************************************)
EXTENDS Naturals

CONSTANTS Ops,     \* the operations: one read and one connect per socket
          Results, \* the results a completion may deliver
          TimedOut,\* the result of an operation whose budget is spent
          Budget   \* Budget[o]: silent waits after which o is timed out

VARIABLES pending, \* the operations whose caller is still owed a callback
          outcome, \* outcome[o]: the last result delivered for o
          waited   \* waited[o]: silent waits since o was begun or heard of

pvars == <<pending, outcome, waited>>

Init == /\ pending = {}
        /\ outcome = [o \in Ops |-> "none"]
        /\ waited = [o \in Ops |-> 0]

Begin(o) == /\ o \notin pending
            /\ pending' = pending \cup {o}
            /\ waited' = [waited EXCEPT ![o] = 0]
            /\ UNCHANGED outcome

\* The peer was silent once more, and the budget is not spent yet.
StaySilent(o) == /\ o \in pending
                 /\ waited[o] + 1 < Budget[o]
                 /\ waited' = [waited EXCEPT ![o] = @ + 1]
                 /\ UNCHANGED <<pending, outcome>>

\* The peer gave a sign of life that did not complete the operation.
Hear(o) == /\ o \in pending
           /\ waited' = [waited EXCEPT ![o] = 0]
           /\ UNCHANGED <<pending, outcome>>

Complete(o, r) == /\ o \in pending
                  /\ r # TimedOut
                  /\ pending' = pending \ {o}
                  /\ outcome' = [outcome EXCEPT ![o] = r]
                  /\ UNCHANGED waited

TimeOut(o) == /\ o \in pending
              /\ waited[o] + 1 = Budget[o]
              /\ pending' = pending \ {o}
              /\ outcome' = [outcome EXCEPT ![o] = TimedOut]
              /\ waited' = [waited EXCEPT ![o] = @ + 1]

\* The caller cancels operations, or closes the socket they belong to.
Abandon(S) == /\ pending' = pending \ S
              /\ UNCHANGED <<outcome, waited>>

Next == \/ \E o \in Ops : \/ Begin(o)
                          \/ StaySilent(o)
                          \/ Hear(o)
                          \/ \E r \in Results : Complete(o, r)
                          \/ TimeOut(o)
        \/ \E S \in SUBSET Ops : Abandon(S)

Spec == Init /\ [][Next]_pvars
=============================================================================
