--------------------------- MODULE MCRemapShared ---------------------------
(* A small instance of the shared segment: chunks with room for a region   *)
(* of each subscriber, and chunks too small for that.                      *)
EXTENDS RemapShared

CONSTANTS s1, s2
=============================================================================
