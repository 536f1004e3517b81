------------------------------- MODULE Totals -------------------------------
(***************************************************************************)
(* The sum of a function into the naturals, written as the size of its     *)
(* disjoint union: one pair <<x, i>> for each unit i of f[x].  Unlike a    *)
(* fold it needs no recursion, so the facts about it follow from those of  *)
(* finite sets.                                                            *)
(***************************************************************************)
EXTENDS Integers, FiniteSets

Units(f) == UNION {{x} \X (1 .. f[x]) : x \in DOMAIN f}

Total(f) == Cardinality(Units(f))
=============================================================================
