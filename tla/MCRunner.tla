------------------------------ MODULE MCRunner ------------------------------
(* A small instance of the runner. *)
EXTENDS Runner, TLC

MCVa == 1 .. 2

Symmetry == Permutations(Name)
=============================================================================
