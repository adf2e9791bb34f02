-------------------------- MODULE MCExtensionHosts --------------------------
(* ExtensionHosts on a small instance.                                       *)
EXTENDS ExtensionHosts, TLC

CONSTANTS a, b

MCClients == {a, b}
Symmetry == Permutations(MCClients)
=============================================================================
