----------------------------- MODULE TaskRunner -----------------------------
(***************************************************************************)
(* What base::SingleThreadTaskRunner promises: tasks posted to a thread    *)
(* run on it once each, in the order in which they were posted, and every  *)
(* posted task runs in the end.                                            *)
(***************************************************************************)
EXTENDS Sequences

CONSTANT Tasks

VARIABLES queue, \* the tasks posted and not run yet
          ran    \* the tasks run, in the order they ran

tvars == <<queue, ran>>

Init == queue = <<>> /\ ran = <<>>

Post(t) == queue' = Append(queue, t) /\ UNCHANGED ran

Run == /\ queue # <<>>
       /\ ran' = Append(ran, Head(queue))
       /\ queue' = Tail(queue)

\* A task posts another one to its own thread while it runs.
RunAndPost(t) == /\ queue # <<>>
                 /\ ran' = Append(ran, Head(queue))
                 /\ queue' = Append(Tail(queue), t)

Next == Run \/ \E t \in Tasks : Post(t) \/ RunAndPost(t)

Progress == Run \/ \E t \in Tasks : RunAndPost(t)

Spec == Init /\ [][Next]_tvars

FairSpec == Spec /\ WF_tvars(Progress)
=============================================================================
