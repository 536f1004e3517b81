--------------------------- MODULE MCVmemBackend ---------------------------
(* A small instance of the backend: room for two chunks and a scratch copy. *)
EXTENDS VmemBackend, TLC

Symmetry == Permutations(Va) \cup Permutations(Handle)
=============================================================================
