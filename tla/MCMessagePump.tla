--------------------------- MODULE MCMessagePump ---------------------------
(***************************************************************************)
(* What the comments of the port say of the pumps, for TLC.                *)
(***************************************************************************)
EXTENDS MessagePump

\* base/message_loop/message_pump_default.cc, as patched, says that it polls
\* "on a bounded TimedWait so DoWork() re-runs and drains any queued task even
\* if its wakeup Signal was dropped": a dropped Signal costs 50 ms at most.
DroppedSignalCostsOneWait == stall <= Cap
=============================================================================
