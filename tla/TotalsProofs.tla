---------------------------- MODULE TotalsProofs ----------------------------
(* The facts about Total that the accounting proofs use.                   *)
EXTENDS Totals, FiniteSetTheorems, TLAPS

(* One row of the disjoint union has as many units as the function's value. *)
LEMMA RowSize ==
    ASSUME NEW x, NEW n \in Nat
    PROVE  IsFiniteSet({x} \X (1 .. n)) /\ Cardinality({x} \X (1 .. n)) = n
<1>1. IsFiniteSet({x}) /\ Cardinality({x}) = 1
  BY FS_Singleton
<1>2. IsFiniteSet(1 .. n) /\ Cardinality(1 .. n) = n
  BY FS_Interval
<1>3. /\ IsFiniteSet({x} \X (1 .. n))
      /\ Cardinality({x} \X (1 .. n)) = Cardinality({x}) * Cardinality(1 .. n)
  BY <1>1, <1>2, FS_Product, Zenon
<1>4. 1 * n = n
  OBVIOUS
<1> QED
  BY <1>1, <1>2, <1>3, <1>4, Zenon

(* The sizes of disjoint sets add up.                                      *)
LEMMA DisjointSize ==
    ASSUME NEW A, IsFiniteSet(A), NEW B, IsFiniteSet(B), A \cap B = {}
    PROVE  Cardinality(A \cup B) = Cardinality(A) + Cardinality(B)
<1>1. Cardinality(A \cup B) = Cardinality(A) + Cardinality(B) - Cardinality(A \cap B)
  BY FS_Union
<1>2. Cardinality(A \cap B) = 0
  BY FS_EmptySet
<1>3. Cardinality(A) \in Nat /\ Cardinality(B) \in Nat
  BY FS_CardinalityType
<1> QED
  BY <1>1, <1>2, <1>3

(* Over a finite set the units are finite, so their number is a natural.   *)
LEMMA UnitsFinite ==
    ASSUME NEW S, IsFiniteSet(S), NEW f, DOMAIN f = S, \A x \in S : f[x] \in Nat
    PROVE  IsFiniteSet(Units(f)) /\ Total(f) \in Nat
<1> DEFINE Rows == {{x} \X (1 .. f[x]) : x \in S}
           row == [x \in S |-> {x} \X (1 .. f[x])]
<1>1. row \in Surjection(S, Rows)
  BY DEF Surjection
<1>2. IsFiniteSet(Rows)
  BY <1>1, FS_Surjection
<1>3. \A R \in Rows : IsFiniteSet(R)
  <2>1. \A x \in S : IsFiniteSet({x} \X (1 .. f[x]))
    BY RowSize, Zenon
  <2> QED
    BY <2>1, Zenon
<1>4. IsFiniteSet(UNION Rows)
  BY <1>2, <1>3, FS_UNION
<1>5. Units(f) = UNION Rows
  BY DEF Units
<1> QED
  BY <1>4, <1>5, FS_CardinalityType DEF Total

(* Changing a function at one point changes its sum by the difference.     *)
LEMMA TotalChange ==
    ASSUME NEW S, IsFiniteSet(S),
           NEW f, DOMAIN f = S, \A y \in S : f[y] \in Nat,
           NEW g, DOMAIN g = S, \A y \in S : g[y] \in Nat,
           NEW x \in S, \A y \in S \ {x} : g[y] = f[y]
    PROVE  Total(g) = Total(f) - f[x] + g[x]
<1> DEFINE Rest == UNION {{y} \X (1 .. f[y]) : y \in S \ {x}}
           Row(h) == {x} \X (1 .. h[x])
<1>1. /\ Units(f) = Rest \cup Row(f)
      /\ Units(g) = Rest \cup Row(g)
  BY DEF Units
<1>2. Rest \cap Row(f) = {} /\ Rest \cap Row(g) = {}
  OBVIOUS
<1>3. IsFiniteSet(Rest) /\ Cardinality(Rest) \in Nat
  <2>1. IsFiniteSet(Units(f))
    BY UnitsFinite
  <2> QED
    BY <2>1, <1>1, FS_Subset, FS_CardinalityType
<1>4. /\ IsFiniteSet(Row(f)) /\ Cardinality(Row(f)) = f[x]
      /\ IsFiniteSet(Row(g)) /\ Cardinality(Row(g)) = g[x]
  BY RowSize
<1> HIDE DEF Rest, Row
<1>5. Cardinality(Rest \cup Row(f)) = Cardinality(Rest) + f[x]
  BY <1>2, <1>3, <1>4, DisjointSize
<1>6. Cardinality(Rest \cup Row(g)) = Cardinality(Rest) + g[x]
  BY <1>2, <1>3, <1>4, DisjointSize
<1> QED
  BY <1>1, <1>3, <1>5, <1>6 DEF Total

(* A function that is zero everywhere has sum zero.                        *)
LEMMA TotalZero ==
    ASSUME NEW f, \A x \in DOMAIN f : f[x] = 0
    PROVE  Total(f) = 0
<1>1. Units(f) = {}
  BY DEF Units
<1> QED
  BY <1>1, FS_EmptySet DEF Total
=============================================================================
