---------------------------- MODULE MCOperations ----------------------------
(* Instances of Operations for TLC. *)
EXTENDS Operations, TLC

CONSTANTS o1, o2, h1, h2

Symmetry == Permutations(Ops) \cup Permutations(Handlers)
=============================================================================
