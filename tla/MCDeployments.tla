--------------------------- MODULE MCDeployments ---------------------------
(* Deployments on two interchangeable nodes. *)
EXTENDS Deployments, TLC

CONSTANTS n1, n2

MCNodes == {n1, n2}
NodeSymmetry == Permutations(MCNodes)
=============================================================================
