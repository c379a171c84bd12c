--------------------------- MODULE MCNodeRegistry ---------------------------
(* NodeRegistry with interchangeable requests. *)
EXTENDS NodeRegistry, TLC

CONSTANTS r1, r2

MCRequests == {r1, r2}
RequestSymmetry == Permutations(MCRequests)
=============================================================================
