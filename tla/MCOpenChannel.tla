-------------------------- MODULE MCOpenChannel --------------------------
(* Instances of OpenChannel for TLC. *)
EXTENDS OpenChannel, TLC

Symmetry == Permutations(Opens)
=============================================================================
