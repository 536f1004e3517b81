--------------------------- MODULE MCVmemdStartup ---------------------------
(* A small instance of brokers started on one path. *)
EXTENDS VmemdStartup, TLC

Symmetry == Permutations(Broker)
=============================================================================
