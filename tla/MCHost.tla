------------------------------- MODULE MCHost -------------------------------
(***************************************************************************)
(* A small instance of Host: two commands and two connectors, one webhook  *)
(* that selected failures, and three definitions of a schedule, of which   *)
(* one is disabled.                                                        *)
(***************************************************************************)
EXTENDS Host, MCStateStore

CONSTANTS c1, c2, webhook

TwoCommands == {c1, c2}
TwoOperations == 1..2
OneDestination == <<webhook>>
WantsFailures == webhook :> {"operation.failed"}
OneFailure == {<<"operation.started", "operation.failed">>}

Symmetry == Permutations(TwoCommands)
=============================================================================
