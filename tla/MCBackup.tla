------------------------------ MODULE MCBackup ------------------------------
(***************************************************************************)
(* Two runs of one scope, and two runs of two scopes whose workspaces have *)
(* one name and one destination.                                           *)
(***************************************************************************)
EXTENDS Backup, TLC

CONSTANTS r1, r2, s1, s2, n1

TwoRuns == {r1, r2}
OneScope == {s1}
TwoScopes == {s1, s2}
OneName == {n1}
SameScope == r1 :> s1 @@ r2 :> s1
OwnScope == r1 :> s1 @@ r2 :> s2
SameName == [s \in Scopes |-> n1]
=============================================================================
