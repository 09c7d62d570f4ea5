-------------------------- MODULE MCCommandServer --------------------------
(* CommandServer for TLC: descriptors are interchangeable. *)
EXTENDS CommandServer, TLC

Symmetry == Permutations(Fd)
============================================================================
