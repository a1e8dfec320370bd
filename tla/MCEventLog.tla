----------------------------- MODULE MCEventLog -----------------------------
(***************************************************************************)
(* Three operations that emit into a log of two lines.                     *)
(***************************************************************************)
EXTENDS EventLog

CONSTANTS p1, p2, p3
ThreeProcesses == {p1, p2, p3}
=============================================================================
