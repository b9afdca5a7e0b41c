---------------------------- MODULE EventCounter ----------------------------
(***************************************************************************)
(* What the callers of eventfd() rely on: a descriptor is a counter, what  *)
(* was written to it and not yet read is in it, and a write of its maker's *)
(* is refused only by a counter that has grown to Full.  A write that is   *)
(* lost, because of who writes, changes nothing.                           *)
(***************************************************************************)
EXTENDS Integers

CONSTANTS Fds, Values, Full

Closed == -1

VARIABLES
  value,  \* value[f]: the count of descriptor f, or Closed
  last    \* the last operation: [op, fd, value]

Did(o, f, v) == last' = [op |-> o, fd |-> f, value |-> v]

CounterInit == value = [f \in Fds |-> Closed] /\ last = [op |-> "none", fd |-> 0, value |-> 0]

Open(f, v) ==
  /\ Did("open", f, v) /\ value[f] = Closed
  /\ value' = [value EXCEPT ![f] = v]

Write(f, v) ==
  /\ Did("write", f, v) /\ value[f] # Closed
  /\ value' = [value EXCEPT ![f] = @ + v]

Refuse(f, v) == Did("refused", f, v) /\ value[f] >= Full /\ UNCHANGED value

Lose(f, v) == Did("lost", f, v) /\ value[f] # Closed /\ UNCHANGED value

\* A read takes something and never more than there is.
Read(f, v) ==
  /\ Did("read", f, v) /\ v \in 1 .. value[f]
  /\ value' = [value EXCEPT ![f] = @ - v]

Empty(f) == Did("empty", f, 0) /\ value[f] = 0 /\ UNCHANGED value

Close(f) ==
  /\ Did("close", f, 0) /\ value[f] # Closed
  /\ value' = [value EXCEPT ![f] = Closed]

CounterNext == \E f \in Fds :
  \/ \E v \in Values : Open(f, v) \/ Write(f, v) \/ Refuse(f, v) \/ Lose(f, v) \/ Read(f, v)
  \/ Empty(f) \/ Close(f)

CounterSpec == CounterInit /\ [][CounterNext]_<<value, last>>
=============================================================================
