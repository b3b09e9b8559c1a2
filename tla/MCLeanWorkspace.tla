-------------------------- MODULE MCLeanWorkspace ---------------------------
(* Small instance of LeanWorkspace for TLC: Lean accepts one of two texts. *)
EXTENDS LeanWorkspace, TLC

CONSTANTS p1, p2, right, wrong

MCProcs == {p1, p2}
MCBodies == {right, wrong, Empty}
MCProofs == {right, Empty}
Perms == Permutations(MCProcs)
=============================================================================
