------------------------------ MODULE MCVmemd ------------------------------
(* Small instances of the broker: two connections, two chunk names each,   *)
(* sizes 1 and 2, limits that one or two chunks fill.                      *)
EXTENDS Vmemd, TLC

CONSTANTS f1, f2, p1, p2, VramLimit, DramLimit

MCLimit == [l \in Loc |-> IF l = "Device" THEN VramLimit ELSE DramLimit]

Symmetry == Permutations({f1, f2}) \cup Permutations({p1, p2})
=============================================================================
