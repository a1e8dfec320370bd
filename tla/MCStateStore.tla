---------------------------- MODULE MCStateStore ----------------------------
(***************************************************************************)
(* Small instances of StateStore: two processes with two writers and one,  *)
(* and one process with two.                                               *)
(***************************************************************************)
EXTENDS StateStore, TLC

CONSTANTS w1, w2, w3, p1, p2

TwoWriters == {w1, w2}
ThreeWriters == {w1, w2, w3}
TwoProcesses == {p1, p2}
OneProcess == {p1}
Together == w1 :> p1 @@ w2 :> p1
TwoAndOne == w1 :> p1 @@ w2 :> p1 @@ w3 :> p2
=============================================================================
