---------------------------- MODULE Descriptors ----------------------------
(***************************************************************************)
(* The descriptors of the browser and of a child at a launch, and the      *)
(* files they can refer to.                                                *)
(***************************************************************************)
EXTENDS Naturals

CONSTANTS
  MaxFd,        \* the largest descriptor
  MaxRemaps,    \* bound: descriptors handed to the child
  MaxChanges    \* bound: descriptors opened and closed by other threads

ASSUME LaunchAssumption ==
  /\ MaxFd \in Nat /\ MaxFd >= 3
  /\ MaxRemaps \in Nat /\ MaxChanges \in Nat

Fds == 0 .. MaxFd
Stdio == 0 .. 2

\* What a descriptor refers to besides the files of the beginning.
Closed == MaxFd + 1
Early == MaxFd + 2    \* a file another thread opened before the listing
Late == MaxFd + 3     \* a file another thread opened after it
DevNull == MaxFd + 4
Files == Fds \cup {Closed, Early, Late, DevNull}
=============================================================================
