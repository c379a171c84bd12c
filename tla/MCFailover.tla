----------------------------- MODULE MCFailover -----------------------------
(* Failover on a few nodes. *)
EXTENDS Failover

CONSTANTS n1, n2, n3

TwoNodes == {n1, n2}
ThreeNodes == {n1, n2, n3}
NoMaster == {NoNode}
OtherMaster == {NoNode, n2}
=============================================================================
