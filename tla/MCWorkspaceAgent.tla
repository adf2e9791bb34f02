-------------------------- MODULE MCWorkspaceAgent --------------------------
(* WorkspaceAgent on a small instance.                                       *)
EXTENDS WorkspaceAgent, TLC

CONSTANTS c1, c2

MCCallers == {c1, c2}
Symmetry == Permutations(MCCallers)
=============================================================================
