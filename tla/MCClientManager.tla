-------------------------- MODULE MCClientManager --------------------------
(* ClientManager for TLC: descriptors are interchangeable. *)
EXTENDS ClientManager, TLC

Symmetry == Permutations(Fd)
============================================================================
