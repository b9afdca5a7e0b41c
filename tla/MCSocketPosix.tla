--------------------------- MODULE MCSocketPosix ---------------------------
(***************************************************************************)
(* SocketPosix on small instances, and the statements of the repository's  *)
(* documentation that the code contradicts.                                *)
(***************************************************************************)
EXTENDS SocketPosix

\* docs/QNX_BB10_STATUS.md: "TCP connect: works (thread-pool select()
\* approach)", so a connection the network has established is not reported
\* as timed out.
EstablishedConnectSucceeds ==
  \A s \in Sockets :
    connectResult[s] = "ERR_CONNECTION_TIMED_OUT" => handshake[s] = "pending"

\* shell_main.cc, on the SIGUSR1 handler that signals every thread: "this is
\* safe from the handler and lets us capture a hung process's full thread
\* state on demand", so a read is not told a result that is no result.
ThreadDumpKeepsReads ==
  \A s \in Sockets : readResult[s] # "ERR_IO_PENDING"
=============================================================================
