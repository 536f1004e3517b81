----------------------------- MODULE MCAllocator -----------------------------
(* A small instance of the allocator: three adjacent granules of address   *)
(* space, slabs of two objects and of one, large allocations of two        *)
(* granules, and addresses that begin nothing.                             *)
EXTENDS Allocator

MCBase == {4, 8, 12}
MCAddress == {4, 5, 6, 8, 10, 12, 14, 16}
=============================================================================
