-------------------------- MODULE MCOperationLock --------------------------
(***************************************************************************)
(* Three processes on one scope, each acquiring twice.                     *)
(***************************************************************************)
EXTENDS OperationLock

CONSTANTS p1, p2, p3

ThreeProcesses == {p1, p2, p3}
=============================================================================
