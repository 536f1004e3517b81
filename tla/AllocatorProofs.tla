-------------------------- MODULE AllocatorProofs --------------------------
(***************************************************************************)
(* The allocator for any backend, requests and addresses, whatever the     *)
(* application frees: its slots, lists and chunks agree, and it implements *)
(* module Heap.                                                            *)
(***************************************************************************)
EXTENDS Allocator, TotalsProofs, SequenceTheorems, TLAPS

(* The records of a slab agree.                                            *)
Exact(r) ==
    /\ IsInjective(r.free)
    /\ ToSet(r.free) = Slots(r) \ r.busy
    /\ r.busy \subseteq Slots(r)
    /\ r.used = Cardinality(r.busy)

(* A region has memory, and room for an object if it is a slab.            *)
Shape(r) ==
    /\ r.size > 0
    /\ IF r.obj = 0 THEN r.free = <<>> /\ r.busy = {} ELSE r.obj <= r.size

Shapes == \A b \in Regions : Shape(regions[b])

(* No two chunks of the backend overlap.                                   *)
Apart == \A b, c \in Held : b < c => b + held[b].size <= c

IInv == TypeOK /\ SlotsExact /\ PartialExact /\ RegionsMatch /\ Shapes /\ Apart

-----------------------------------------------------------------------------
(* Numbers.                                                                *)

(* A set of naturals has a least one.                                      *)
LEMMA MinNat ==
    ASSUME NEW S, S \subseteq Nat, S # {}
    PROVE  Min(S) \in S /\ \A y \in S : Min(S) <= y
<1> DEFINE Upto(y) == S \cap (0 .. y)
           T == {Upto(y) : y \in S}
<1>1. \A y \in S : IsFiniteSet(Upto(y))
  <2> SUFFICES ASSUME NEW y \in S PROVE IsFiniteSet(Upto(y))
    OBVIOUS
  <2>1. IsFiniteSet(0 .. y)
    BY FS_Interval
  <2>2. Upto(y) \in SUBSET (0 .. y)
    OBVIOUS
  <2> QED
    BY <2>1, <2>2, FS_Subset
<1>2. T \subseteq FiniteSubsetsOf(S) /\ T # {}
  BY <1>1 DEF FiniteSubsetsOf
<1>3. \E t \in T : \A u \in T : ~(<<u, t>> \in StrictSubsetOrdering(S))
  BY <1>2, FS_StrictSubsetOrderingWellFounded, WFMin
<1>4. PICK x \in S : \A u \in T : ~(<<u, Upto(x)>> \in StrictSubsetOrdering(S))
  BY <1>3
<1>5. \A y \in S : x <= y
  <2> SUFFICES ASSUME NEW y \in S, y < x PROVE FALSE
    OBVIOUS
  <2>1. Upto(y) \subseteq Upto(x) /\ x \in Upto(x) /\ x \notin Upto(y)
    OBVIOUS
  <2>2. <<Upto(y), Upto(x)>> \in StrictSubsetOrdering(S)
    BY <2>1 DEF StrictSubsetOrdering
  <2> QED
    BY <1>4, <2>2
<1> QED
  BY <1>5 DEF Min

(* Quotient and remainder.                                                 *)
LEMMA Quotient ==
    ASSUME NEW a \in Nat, NEW d \in Nat \ {0}
    PROVE  /\ a \div d \in Nat /\ a % d \in 0 .. d - 1
           /\ a = d * (a \div d) + (a % d)
  OBVIOUS

(* A multiple divides without a remainder.                                 *)
LEMMA Multiple ==
    ASSUME NEW d \in Nat \ {0}, NEW i \in Nat
    PROVE  i * d \in Nat /\ (i * d) \div d = i /\ (i * d) % d = 0
  OBVIOUS

(* Two pieces of the same size, one after the other.                       *)
LEMMA Pieces ==
    ASSUME NEW d \in Nat \ {0}, NEW i \in Nat, NEW j \in Nat, i < j
    PROVE  i * d + d <= j * d
<1> PICK n \in Nat : j = i + 1 + n
  <2> WITNESS j - i - 1 \in Nat
  <2> QED
    OBVIOUS
<1>1. j * d = i * d + d + n * d
  OBVIOUS
<1>2. n * d \in Nat /\ i * d \in Nat
  OBVIOUS
<1> QED
  BY <1>1, <1>2

(* A slot lies inside its slab.                                            *)
LEMMA SlotInside ==
    ASSUME NEW a \in Nat, NEW d \in Nat \ {0}, NEW i \in 0 .. (a \div d) - 1
    PROVE  i \in Nat /\ i * d \in Nat /\ i * d + d <= a
<1>1. a \div d \in Nat /\ a % d \in 0 .. d - 1 /\ a = d * (a \div d) + (a % d)
  BY Quotient
<1> DEFINE q == a \div d
<1> HIDE DEF q
<1>2. i \in Nat /\ i < q /\ q \in Nat /\ a >= q * d
  BY <1>1 DEF q
<1>3. i * d + d <= q * d
  BY <1>2, Pieces
<1>4. i * d \in Nat /\ q * d \in Nat
  BY <1>2
<1> QED
  BY <1>2, <1>3, <1>4

(* Rounding up to the granularity.                                         *)
LEMMA Rounded ==
    ASSUME NEW n \in Nat \ {0}
    PROVE  RoundUp(n) \in Nat /\ RoundUp(n) >= n
<1> DEFINE a == n + Granularity - 1
           q == a \div Granularity
<1> USE AllocatorAssumption
<1>1. a \in Nat
  OBVIOUS
<1>2. q \in Nat /\ a % Granularity \in 0 .. Granularity - 1 /\ a = Granularity * q + (a % Granularity)
  BY <1>1, Quotient
<1>3. RoundUp(n) = q * Granularity
  BY DEF RoundUp
<1> HIDE DEF q
<1>4. q * Granularity \in Nat /\ q * Granularity = Granularity * q
  BY <1>2
<1> QED
  BY <1>1, <1>2, <1>3, <1>4

(* Object sizes.                                                           *)
LEMMA ObjType ==
    /\ \A obj \in Obj : obj \in Nat \ {0} /\ obj <= SmallChunk
    /\ \A n \in Request : n <= SmallMax => ObjOf(n) \in Obj /\ n <= ObjOf(n)
<1> USE AllocatorAssumption
<1>1. \A n \in Request : n <= SmallMax => ObjOf(n) \in n .. SmallChunk /\ n \in Nat \ {0}
  OBVIOUS
<1>2. \A n \in Request : n <= SmallMax => ObjOf(n) \in Nat \ {0} /\ ObjOf(n) <= SmallChunk /\ n <= ObjOf(n)
  BY <1>1
<1> QED
  BY <1>2 DEF Obj

-----------------------------------------------------------------------------
(* The slots of one slab.                                                  *)

(* The slots in use are finitely many naturals.                            *)
LEMMA BusyFinite ==
    ASSUME NEW r \in Region, r.obj # 0, Exact(r)
    PROVE  IsFiniteSet(r.busy) /\ r.busy \subseteq Nat
<1>1. r.size \in Nat /\ r.obj \in Nat \ {0} /\ r.busy \subseteq Nat
  BY ObjType DEF Region
<1>2. r.size \div r.obj \in Nat
  BY <1>1, Quotient
<1>3. IsFiniteSet(Slots(r))
  BY <1>2, FS_Interval DEF Slots
<1>4. r.busy \in SUBSET Slots(r)
  BY DEF Exact
<1> QED
  BY <1>1, <1>3, <1>4, FS_Subset

(* Taking the last free slot.                                              *)
LEMMA SlotTaken ==
    ASSUME NEW r \in Region, r.obj # 0, Exact(r), r.free # <<>>
    PROVE  /\ Taken(r) \in Region /\ Exact(Taken(r))
           /\ Taken(r).size = r.size /\ Taken(r).loc = r.loc /\ Taken(r).obj = r.obj
           /\ Last(r.free) \in Slots(r) \ r.busy
           /\ Taken(r).busy = r.busy \cup {Last(r.free)}
           /\ Taken(r).used > 0
           /\ Len(r.free) \in Nat \ {0}
           /\ Taken(r).free = <<>> <=> Len(r.free) = 1
<1> DEFINE s == r.free
           n == Len(s)
           f == Front(s)
<1>1. s \in Seq(Nat) /\ n \in Nat \ {0} /\ s \in [1 .. n -> Nat] /\ DOMAIN s = 1 .. n
  BY EmptySeq, LenProperties DEF Region
<1>2. f \in Seq(Nat) /\ Len(f) = n - 1 /\ \A i \in 1 .. n - 1 : f[i] = s[i]
  <2>1. \A i \in 1 .. n - 1 : s[i] \in Nat
    BY <1>1
  <2>2. f = SubSeq(s, 1, n - 1)
    BY DEF Front
  <2>3. 1 \in Int /\ n - 1 \in Int
    BY <1>1
  <2>4. /\ f \in Seq(Nat)
        /\ Len(f) = IF 1 <= n - 1 THEN n - 1 - 1 + 1 ELSE 0
        /\ \A i \in 1 .. n - 1 - 1 + 1 : f[i] = s[1 + i - 1]
    BY <2>1, <2>2, <2>3, SubSeqProperties
  <2>5. Len(f) = n - 1 /\ \A i \in 1 .. n - 1 : f[i] = s[1 + i - 1]
    BY <2>4, <1>1
  <2> QED
    BY <2>4, <2>5, <1>1
<1>3. DOMAIN f = 1 .. n - 1
  BY <1>2, LenProperties
<1>4. Last(s) = s[n] /\ n \in DOMAIN s /\ s[n] \in Nat
  BY <1>1 DEF Last
<1>5. \A i, j \in 1 .. n : s[i] = s[j] => i = j
  BY <1>1 DEF Exact, IsInjective
<1>6. ToSet(s) = Slots(r) \ r.busy /\ r.busy \subseteq Slots(r) /\ r.used = Cardinality(r.busy)
  BY DEF Exact
<1>7. ToSet(f) = ToSet(s) \ {s[n]}
  <2>1. ToSet(s) = {s[i] : i \in 1 .. n}
    BY <1>1 DEF ToSet
  <2>2. ToSet(f) = {f[i] : i \in 1 .. n - 1}
    BY <1>3 DEF ToSet
  <2>3. ToSet(f) = {s[i] : i \in 1 .. n - 1}
    BY <2>2, <1>2
  <2>4. {s[i] : i \in 1 .. n - 1} = {s[i] : i \in 1 .. n} \ {s[n]}
    BY <1>1, <1>5
  <2> QED
    BY <2>1, <2>3, <2>4
<1>8. s[n] \in Slots(r) \ r.busy
  BY <1>4, <1>6 DEF ToSet
<1>9. IsInjective(f)
  <2>1. \A i, j \in 1 .. n - 1 : f[i] = f[j] => i = j
    <3>1. \A i \in 1 .. n - 1 : i \in 1 .. n
      BY <1>1
    <3> QED
      BY <3>1, <1>2, <1>5
  <2> HIDE DEF f
  <2> QED
    BY <2>1, <1>3 DEF IsInjective
<1>10. IsFiniteSet(r.busy) /\ r.busy \subseteq Nat /\ Cardinality(r.busy) \in Nat
  BY BusyFinite, FS_CardinalityType
<1>11. Cardinality(r.busy \cup {s[n]}) = Cardinality(r.busy) + 1
  BY <1>8, <1>10, FS_AddElement
<1>12. Taken(r) = [r EXCEPT !.free = f, !.busy = r.busy \cup {s[n]}, !.used = r.used + 1]
  BY <1>4 DEF Taken
<1>13. /\ Taken(r).size = r.size /\ Taken(r).loc = r.loc /\ Taken(r).obj = r.obj
       /\ Taken(r).free = f /\ Taken(r).busy = r.busy \cup {s[n]} /\ Taken(r).used = r.used + 1
  BY <1>12 DEF Region
<1>14. r.used \in Nat
  BY DEF Region
<1>15. Taken(r) \in Region
  <2>1. r.busy \cup {s[n]} \in SUBSET Nat /\ r.used + 1 \in Nat
    BY <1>4, <1>10, <1>14
  <2> HIDE DEF f, s, n
  <2> QED
    BY <2>1, <1>2, <1>12 DEF Region
<1>16. Slots(Taken(r)) = Slots(r)
  BY <1>13 DEF Slots
<1>17. Exact(Taken(r))
  BY <1>6, <1>7, <1>8, <1>9, <1>11, <1>13, <1>16 DEF Exact
<1>18. f = <<>> <=> n = 1
  <2> HIDE DEF f, n
  <2>1. f # <<>> => Len(f) \in Nat \ {0}
    BY <1>2, EmptySeq
  <2>2. f = <<>> => Len(f) = 0
    BY EmptySeq
  <2> QED
    BY <2>1, <2>2, <1>1, <1>2
<1> HIDE DEF f, n, s
<1>19. Taken(r).used > 0
  BY <1>13, <1>14
<1> QED
  BY <1>1, <1>4, <1>8, <1>13, <1>15, <1>17, <1>18, <1>19 DEF n, s

(* A region as it is when its slot i comes back.                           *)
Freed(r, i) == [r EXCEPT !.busy = @ \ {i}, !.free = Append(@, i), !.used = @ - 1]

(* Giving a slot back.                                                     *)
LEMMA SlotFreed ==
    ASSUME NEW r \in Region, r.obj # 0, Exact(r), NEW k \in r.busy
    PROVE  /\ Freed(r, k) \in Region /\ Exact(Freed(r, k))
           /\ Freed(r, k).size = r.size /\ Freed(r, k).loc = r.loc /\ Freed(r, k).obj = r.obj
           /\ Freed(r, k).busy = r.busy \ {k}
           /\ Freed(r, k).free # <<>>
           /\ Freed(r, k).used = r.used - 1
           /\ r.used > 0
           /\ r.used = 1 => r.busy = {k}
<1> DEFINE s == r.free
           n == Len(s)
           f == Append(s, k)
<1>1. s \in Seq(Nat) /\ n \in Nat /\ s \in [1 .. n -> Nat] /\ DOMAIN s = 1 .. n
  BY EmptySeq, LenProperties DEF Region
<1>2. IsFiniteSet(r.busy) /\ r.busy \subseteq Nat /\ Cardinality(r.busy) \in Nat /\ k \in Nat
  BY BusyFinite, FS_CardinalityType
<1>3. /\ f \in Seq(Nat) /\ f # <<>> /\ Len(f) = n + 1 /\ f[n + 1] = k
      /\ \A i \in 1 .. n : f[i] = s[i]
  BY <1>1, <1>2, AppendProperties
<1>4. DOMAIN f = 1 .. n + 1
  BY <1>3, LenProperties
<1>5. \A i, j \in 1 .. n : s[i] = s[j] => i = j
  BY <1>1 DEF Exact, IsInjective
<1>6. ToSet(s) = Slots(r) \ r.busy /\ r.busy \subseteq Slots(r) /\ r.used = Cardinality(r.busy)
  BY DEF Exact
<1>7. \A i \in 1 .. n : s[i] # k
  BY <1>1, <1>6 DEF ToSet
<1>8. ToSet(f) = ToSet(s) \cup {k}
  <2>1. ToSet(s) = {s[i] : i \in 1 .. n}
    BY <1>1 DEF ToSet
  <2>2. ToSet(f) = {f[i] : i \in 1 .. n + 1}
    BY <1>4 DEF ToSet
  <2>3. {f[i] : i \in 1 .. n + 1} = {f[i] : i \in 1 .. n} \cup {f[n + 1]}
    BY <1>1
  <2> QED
    BY <2>1, <2>2, <2>3, <1>3
<1>9. IsInjective(f)
  BY <1>1, <1>3, <1>4, <1>5, <1>7 DEF IsInjective
<1>10. Cardinality(r.busy \ {k}) = Cardinality(r.busy) - 1
  BY <1>2, FS_RemoveElement
<1>11. IsFiniteSet(r.busy \ {k}) /\ Cardinality(r.busy \ {k}) \in Nat
  BY <1>2, FS_RemoveElement, FS_CardinalityType
<1>12. Freed(r, k) = [r EXCEPT !.busy = r.busy \ {k}, !.free = f, !.used = r.used - 1]
  BY DEF Freed
<1>13. /\ Freed(r, k).size = r.size /\ Freed(r, k).loc = r.loc /\ Freed(r, k).obj = r.obj
       /\ Freed(r, k).free = f /\ Freed(r, k).busy = r.busy \ {k} /\ Freed(r, k).used = r.used - 1
  BY <1>12 DEF Region
<1>14. r.used \in Nat /\ r.used - 1 \in Nat
  BY <1>2, <1>6, <1>10, <1>11
<1>15. Freed(r, k) \in Region
  BY <1>2, <1>3, <1>12, <1>14 DEF Region
<1>16. Slots(Freed(r, k)) = Slots(r)
  BY <1>13 DEF Slots
<1>17. Exact(Freed(r, k))
  BY <1>6, <1>8, <1>9, <1>10, <1>13, <1>16 DEF Exact
<1>18. r.used = 1 => r.busy = {k}
  <2>1. r.used = 1 => Cardinality(r.busy \ {k}) = 0
    BY <1>6, <1>10
  <2>2. Cardinality(r.busy \ {k}) = 0 => r.busy \ {k} = {}
    BY <1>11, FS_EmptySet
  <2> QED
    BY <2>1, <2>2
<1> HIDE DEF f
<1> QED
  BY <1>3, <1>13, <1>14, <1>15, <1>17, <1>18

(* A new region is as empty as its size says.                              *)
LEMMA NewSlab ==
    ASSUME NEW l \in Loc, NEW obj \in Obj
    PROVE  LET r == NewRegion(SmallChunk, l, obj)
           IN  /\ r \in Region /\ Exact(r) /\ r.free # <<>>
               /\ r.size = SmallChunk /\ r.loc = l /\ r.obj = obj /\ r.obj # 0 /\ r.busy = {}
<1> DEFINE n == SmallChunk \div obj
           s == [i \in 1 .. n |-> n - i]
           r == NewRegion(SmallChunk, l, obj)
<1>1. obj \in Nat \ {0} /\ SmallChunk \in Nat /\ obj <= SmallChunk /\ l \in Loc \cup {"None"}
  BY ObjType, AllocatorAssumption
<1>2. n \in Nat \ {0}
  <2>1. SmallChunk \div obj \in Nat /\ SmallChunk % obj \in 0 .. obj - 1
    BY <1>1, Quotient
  <2>2. SmallChunk = obj * (SmallChunk \div obj) + (SmallChunk % obj)
    BY <1>1, Quotient
  <2>3. SmallChunk \div obj = 0 => SmallChunk = SmallChunk % obj
    BY <2>2, <2>1, <1>1
  <2> QED
    BY <2>1, <2>3, <1>1
<1>3. r = [size |-> SmallChunk, loc |-> l, obj |-> obj, free |-> s, busy |-> {}, used |-> 0]
  BY <1>1 DEF NewRegion
<1>4. /\ r.size = SmallChunk /\ r.loc = l /\ r.obj = obj /\ r.obj # 0 /\ r.busy = {}
      /\ r.free = s /\ r.used = 0
  BY <1>1, <1>3
<1>5. Slots(r) = 0 .. n - 1
  BY <1>4 DEF Slots
<1> HIDE DEF n
<1>6. s \in Seq(Nat) /\ DOMAIN s = 1 .. n /\ s # <<>> /\ \A i \in 1 .. n : s[i] = n - i
  BY <1>2
<1>7. IsInjective(s)
  BY <1>2, <1>6 DEF IsInjective
<1>8. ToSet(s) = 0 .. n - 1
  <2>1. ToSet(s) = {s[i] : i \in 1 .. n}
    BY <1>6 DEF ToSet
  <2>2. \A k \in 0 .. n - 1 : n - k \in 1 .. n /\ s[n - k] = k
    BY <1>2, <1>6
  <2>3. \A i \in 1 .. n : s[i] \in 0 .. n - 1
    BY <1>2, <1>6
  <2> QED
    BY <2>1, <2>2, <2>3
<1>9. Cardinality({}) = 0
  BY FS_EmptySet
<1>10. r \in Region
  BY <1>1, <1>3, <1>6 DEF Region
<1> HIDE DEF r
<1>11. Exact(r)
  BY <1>4, <1>5, <1>7, <1>8, <1>9 DEF Exact
<1> QED
  BY <1>4, <1>6, <1>10, <1>11 DEF r

(* A large region has no slots.                                            *)
LEMMA NewLarge ==
    ASSUME NEW l \in Loc, NEW size \in Nat
    PROVE  LET r == NewRegion(size, l, 0)
           IN  /\ r \in Region /\ r.free = <<>> /\ r.busy = {}
               /\ r.size = size /\ r.loc = l /\ r.obj = 0
<1> DEFINE s == [i \in 1 .. 0 |-> 0 - i]
           r == NewRegion(size, l, 0)
<1>1. r = [size |-> size, loc |-> l, obj |-> 0, free |-> s, busy |-> {}, used |-> 0]
  BY DEF NewRegion
<1>2. s = <<>>
  OBVIOUS
<1>3. <<>> \in Seq(Nat) /\ l \in Loc \cup {"None"}
  OBVIOUS
<1>4. r = [size |-> size, loc |-> l, obj |-> 0, free |-> <<>>, busy |-> {}, used |-> 0]
  BY <1>1, <1>2
<1> HIDE DEF r
<1>5. r \in Region
  BY <1>3, <1>4 DEF Region
<1>6. r.free = <<>> /\ r.busy = {} /\ r.size = size /\ r.loc = l /\ r.obj = 0
  BY <1>4
<1> QED
  BY <1>5, <1>6 DEF r

-----------------------------------------------------------------------------
(* One region changes.                                                     *)

(* Base addresses are positive.                                            *)
LEMMA BaseNat == \A b \in Base : b \in Nat \ {0} /\ b \in Address
  BY AllocatorAssumption

(* No region has no memory, no slots, and no place in a list.              *)
LEMMA NoRegionType ==
    /\ NoRegion \in Region
    /\ NoRegion.size = 0 /\ NoRegion.loc = "None" /\ NoRegion.obj = 0
    /\ NoRegion.free = <<>> /\ NoRegion.busy = {}
    /\ NotHeld = [size |-> 0, loc |-> "None"]
<1>1. <<>> \in Seq(Nat)
  OBVIOUS
<1>2. NoRegion \in Region
  BY <1>1 DEF NoRegion, Region
<1> QED
  BY <1>2 DEF NoRegion, NotHeld

(* What may stand in the table of regions.                                 *)
Sound(r) == r \in Region /\ (r # NoRegion => Shape(r) /\ (r.obj # 0 => Exact(r)))

(* The table changes at b alone.                                           *)
LEMMA RegionSet ==
    ASSUME TypeOK, SlotsExact, Shapes, NEW b \in Base, NEW r, Sound(r),
           regions' = [regions EXCEPT ![b] = r]
    PROVE  /\ regions' \in [Base -> Region] /\ SlotsExact' /\ Shapes'
           /\ regions'[b] = r /\ \A c \in Base \ {b} : regions'[c] = regions[c]
           /\ r # NoRegion => Regions' = Regions \cup {b}
           /\ r = NoRegion => Regions' = Regions \ {b}
           /\ Total([c \in Base |-> regions'[c].size])
                = Total([c \in Base |-> regions[c].size]) - regions[b].size + r.size
<1>1. regions \in [Base -> Region] /\ r \in Region
  BY DEF TypeOK, Sound
<1>2. regions' \in [Base -> Region] /\ regions'[b] = r /\ \A c \in Base \ {b} : regions'[c] = regions[c]
  BY <1>1
<1>3. /\ r # NoRegion => Regions' = Regions \cup {b}
      /\ r = NoRegion => Regions' = Regions \ {b}
  BY <1>2 DEF Regions
<1>4. ASSUME NEW c \in Regions'
      PROVE  Shape(regions'[c]) /\ (regions'[c].obj # 0 => Exact(regions'[c]))
  <2>1. CASE c = b
    BY <2>1, <1>2, <1>4 DEF Sound, Regions
  <2>2. CASE c # b
    <3>1. c \in Regions /\ regions'[c] = regions[c]
      BY <2>2, <1>2, <1>4 DEF Regions
    <3> QED
      BY <3>1 DEF SlotsExact, Exact, Shapes
  <2> QED
    BY <2>1, <2>2
<1>5. SlotsExact' /\ Shapes'
  BY <1>4 DEF SlotsExact, Exact, Shapes, Shape, Slots
<1> DEFINE f == [c \in Base |-> regions[c].size]
           g == [c \in Base |-> regions'[c].size]
<1>6. /\ DOMAIN f = Base /\ DOMAIN g = Base
      /\ \A c \in Base : f[c] \in Nat /\ g[c] \in Nat
      /\ \A c \in Base \ {b} : g[c] = f[c]
      /\ f[b] = regions[b].size /\ g[b] = r.size
  BY <1>1, <1>2 DEF Region
<1>7. IsFiniteSet(Base)
  BY AllocatorAssumption
<1> HIDE DEF f, g
<1>8. Total(g) = Total(f) - f[b] + g[b]
  BY <1>6, <1>7, TotalChange
<1> QED
  BY <1>2, <1>3, <1>5, <1>6, <1>8 DEF f, g

(* The lists change with it.                                               *)
LEMMA PartialSet ==
    ASSUME TypeOK, PartialExact, life = "open", NEW b \in Base, NEW r \in Region,
           regions' = [regions EXCEPT ![b] = r],
           \A obj \in Obj :
              partial'[obj] = (partial[obj] \ {b})
                  \cup {c \in {b} : r # NoRegion /\ r.obj = obj /\ r.free # <<>>}
    PROVE  PartialExact'
<1>1. regions \in [Base -> Region]
  BY DEF TypeOK
<1>2. regions'[b] = r /\ \A c \in Base \ {b} : regions'[c] = regions[c]
  BY <1>1
<1>3. ASSUME NEW obj \in Obj
      PROVE  partial'[obj] = {c \in Regions' : regions'[c].obj = obj /\ regions'[c].free # <<>>}
  <2>1. partial[obj] = {c \in Regions : regions[c].obj = obj /\ regions[c].free # <<>>}
    BY DEF PartialExact
  <2>2. partial'[obj] = (partial[obj] \ {b})
                  \cup {c \in {b} : r # NoRegion /\ r.obj = obj /\ r.free # <<>>}
    OBVIOUS
  <2>3. \A c \in Base : c \in Regions <=> regions[c] # NoRegion
    BY DEF Regions
  <2>4. \A c \in Base : c \in Regions' <=> regions'[c] # NoRegion
    BY DEF Regions
  <2>5. Regions \subseteq Base /\ Regions' \subseteq Base
    BY DEF Regions
  <2> QED
    BY <2>1, <2>2, <2>3, <2>4, <2>5, <1>2
<1> QED
  BY <1>3 DEF PartialExact

(* While open, the chunks of the backend are the regions.                  *)
LEMMA Matching ==
    ASSUME IInv, life = "open"
    PROVE  /\ Held = Regions
           /\ \A b \in Base : held[b].size = regions[b].size /\ held[b].loc = regions[b].loc
           /\ \A b \in Base : held[b] = [size |-> regions[b].size, loc |-> regions[b].loc]
           /\ bytes = Total([b \in Base |-> regions[b].size])
           /\ \A b \in Base : regions[b] \in Region /\ regions[b].size \in Nat
           /\ \A b \in Regions : b \in Base /\ regions[b].size > 0
<1>1. regions \in [Base -> Region]
  BY DEF IInv, TypeOK
<1>2. \A b \in Base : regions[b] \in Region /\ regions[b].size \in Nat
  BY <1>1 DEF Region
<1>3. /\ \A b \in Base : held[b] = [size |-> regions[b].size, loc |-> regions[b].loc]
      /\ bytes = Total([b \in Base |-> regions[b].size])
  BY DEF IInv, RegionsMatch
<1>4. \A b \in Base : held[b].size = regions[b].size /\ held[b].loc = regions[b].loc
  <2> SUFFICES ASSUME NEW b \in Base
               PROVE  held[b].size = regions[b].size /\ held[b].loc = regions[b].loc
    OBVIOUS
  <2>1. PICK r : r = regions[b]
    OBVIOUS
  <2>2. held[b] = [size |-> r.size, loc |-> r.loc]
    BY <1>3, <2>1
  <2> QED
    BY <2>1, <2>2
<1>5. \A b \in Regions : b \in Base /\ regions[b].size > 0
  BY DEF IInv, Shapes, Shape, Regions
<1>6. ASSUME NEW b \in Base PROVE held[b] # NotHeld <=> regions[b] # NoRegion
  <2>1. CASE regions[b] = NoRegion
    BY <2>1, <1>3, NoRegionType
  <2>2. CASE regions[b] # NoRegion
    <3>1. b \in Regions
      BY <2>2 DEF Regions
    <3>2. held[b].size > 0 /\ NotHeld.size = 0
      BY <3>1, <1>4, <1>5, NoRegionType
    <3> QED
      BY <3>2, <2>2
  <2> QED
    BY <2>1, <2>2
<1>7. Held = Regions
  BY <1>6 DEF Held, Regions
<1> QED
  BY <1>2, <1>3, <1>4, <1>5, <1>7

(* A place for a new chunk is clear of all regions.                        *)
LEMMA Clear ==
    ASSUME IInv, life = "open", NEW b \in Base, NEW size \in Nat \ {0}, Fits(b, size)
    PROVE  /\ b \notin Regions
           /\ \A c \in Regions : b < c => b + size <= c
           /\ \A c \in Regions : c < b => c + regions[c].size <= b
<1> SUFFICES ASSUME NEW c \in Regions
             PROVE  /\ b # c
                    /\ b < c => b + size <= c
                    /\ c < b => c + regions[c].size <= b
  OBVIOUS
<1>1. c \in Held /\ held[c].size = regions[c].size /\ regions[c].size \in Nat /\ regions[c].size > 0
  BY Matching DEF Regions
<1>2. b + size <= c \/ c + regions[c].size <= b
  BY <1>1 DEF Fits
<1>3. b \in Nat /\ c \in Nat
  BY BaseNat DEF Regions
<1> QED
  BY <1>1, <1>2, <1>3

(* A region and its chunk change, are made or go, and the invariant stays. *)
LEMMA StepKeeps ==
    ASSUME IInv, life = "open", NEW b \in Base, NEW r, Sound(r),
           regions' = [regions EXCEPT ![b] = r],
           partial' \in [Obj -> SUBSET Base], backend' = backend, life' \in {"open", "dead"},
           Apart',
           \/ held' = held /\ bytes' = bytes
           \/ /\ held' = [held EXCEPT ![b] = [size |-> r.size, loc |-> r.loc]]
              /\ bytes' = bytes - regions[b].size + r.size,
           life' = "open" =>
              /\ held'[b] = [size |-> r.size, loc |-> r.loc]
              /\ bytes' = bytes - regions[b].size + r.size
              /\ r.obj # 0 => r.used > 0
              /\ \A obj \in Obj :
                    partial'[obj] = (partial[obj] \ {b})
                        \cup {c \in {b} : r # NoRegion /\ r.obj = obj /\ r.free # <<>>}
    PROVE  IInv'
<1>1. /\ TypeOK /\ SlotsExact /\ Shapes /\ PartialExact /\ RegionsMatch
      /\ held \in [Base -> [size : Nat, loc : Loc \cup {"None"}]] /\ bytes \in Nat /\ backend \in Kind
  BY DEF IInv, TypeOK
<1>2. r \in Region /\ r.size \in Nat /\ r.loc \in Loc \cup {"None"}
  BY DEF Sound, Region
<1>3. /\ regions' \in [Base -> Region] /\ SlotsExact' /\ Shapes'
      /\ regions'[b] = r /\ \A c \in Base \ {b} : regions'[c] = regions[c]
      /\ r # NoRegion => Regions' = Regions \cup {b}
      /\ r = NoRegion => Regions' = Regions \ {b}
      /\ Total([c \in Base |-> regions'[c].size])
           = Total([c \in Base |-> regions[c].size]) - regions[b].size + r.size
  BY <1>1, RegionSet
<1>4. Total([c \in Base |-> regions'[c].size]) \in Nat
  <2> DEFINE g == [c \in Base |-> regions'[c].size]
  <2>1. DOMAIN g = Base /\ \A c \in Base : g[c] \in Nat
    BY <1>3 DEF Region
  <2>2. IsFiniteSet(Base)
    BY AllocatorAssumption
  <2> HIDE DEF g
  <2>3. Total(g) \in Nat
    BY <2>1, <2>2, UnitsFinite
  <2> QED
    BY <2>3 DEF g
<1>5. bytes = Total([c \in Base |-> regions[c].size])
  BY Matching
<1>6. TypeOK'
  <2>1. held' \in [Base -> [size : Nat, loc : Loc \cup {"None"}]]
    <3>1. [size |-> r.size, loc |-> r.loc] \in [size : Nat, loc : Loc \cup {"None"}]
      BY <1>2
    <3>2. CASE held' = held
      BY <3>2, <1>1
    <3>3. CASE held' = [held EXCEPT ![b] = [size |-> r.size, loc |-> r.loc]]
      BY <3>1, <3>3, <1>1
    <3> QED
      BY <3>2, <3>3
  <2>2. bytes' \in Nat
    BY <1>1, <1>3, <1>4, <1>5
  <2> QED
    BY <1>1, <1>3, <2>1, <2>2 DEF TypeOK
<1>7. ASSUME life' = "open" PROVE PartialExact' /\ RegionsMatch'
  <2>1. PartialExact'
    BY <1>7, <1>1, <1>2, PartialSet
  <2>2. held' = [held EXCEPT ![b] = [size |-> r.size, loc |-> r.loc]]
    <3>1. CASE held' = held
      BY <3>1, <1>7, <1>1
    <3>2. CASE held' = [held EXCEPT ![b] = [size |-> r.size, loc |-> r.loc]]
      BY <3>2
    <3> QED
      BY <3>1, <3>2
  <2>3. \A c \in Base : held'[c] = [size |-> regions'[c].size, loc |-> regions'[c].loc]
    <3> SUFFICES ASSUME NEW c \in Base
                 PROVE  held'[c] = [size |-> regions'[c].size, loc |-> regions'[c].loc]
      OBVIOUS
    <3>1. CASE c = b
      BY <3>1, <1>3, <1>7
    <3>2. CASE c # b
      <4>1. held'[c] = held[c] /\ regions'[c] = regions[c]
        BY <3>2, <2>2, <1>1, <1>3
      <4>2. held[c] = [size |-> regions[c].size, loc |-> regions[c].loc]
        BY Matching
      <4> QED
        BY <4>1, <4>2
    <3> QED
      BY <3>1, <3>2
  <2>4. bytes' = Total([c \in Base |-> regions'[c].size])
    BY <1>3, <1>5, <1>7
  <2>5. \A c \in Regions' : regions'[c].obj # 0 => regions'[c].used > 0
    <3>1. \A c \in Regions : regions[c].obj # 0 => regions[c].used > 0
      BY <1>1 DEF RegionsMatch
    <3>2. \A c \in Regions' : c \in Base /\ (c = b \/ c \in Regions)
      BY <1>3 DEF Regions
    <3> QED
      BY <3>1, <3>2, <1>3, <1>7
  <2> QED
    BY <2>1, <2>3, <2>4, <2>5 DEF RegionsMatch
<1>8. life' # "open" => PartialExact' /\ RegionsMatch'
  BY DEF PartialExact, RegionsMatch
<1> QED
  BY <1>3, <1>6, <1>7, <1>8 DEF IInv

(* Chunks stay apart when one is put in a clear place, goes, or moves.     *)
LEMMA ApartKept ==
    ASSUME TypeOK, Apart, NEW b \in Base, NEW x \in [size : Nat, loc : Loc \cup {"None"}],
           held' = [held EXCEPT ![b] = x],
           x = NotHeld \/ (b \in Held /\ x.size = held[b].size) \/ Fits(b, x.size)
    PROVE  Apart'
<1>1. held \in [Base -> [size : Nat, loc : Loc \cup {"None"}]]
  BY DEF TypeOK
<1>2. held'[b] = x /\ \A c \in Base \ {b} : held'[c] = held[c]
  BY <1>1
<1>3. \A c \in Base : held[c].size \in Nat /\ held'[c].size \in Nat /\ c \in Nat
  BY <1>1, <1>2, BaseNat
<1>4. \A c \in Held' : c \in Base /\ (c # b => c \in Held /\ held'[c].size = held[c].size)
  BY <1>2 DEF Held
<1> SUFFICES ASSUME NEW c \in Held', NEW d \in Held', c < d
             PROVE  c + held'[c].size <= d
  BY DEF Apart
<1>5. CASE c # b /\ d # b
  BY <1>4, <1>5 DEF Apart
<1>6. CASE x = NotHeld
  <2>1. c # b /\ d # b
    BY <1>2, <1>6 DEF Held
  <2> QED
    BY <1>5, <2>1
<1>7. CASE b \in Held /\ x.size = held[b].size
  <2>1. c \in Held /\ d \in Held /\ held'[c].size = held[c].size
    BY <1>2, <1>4, <1>7
  <2> QED
    BY <2>1 DEF Apart
<1>8. CASE Fits(b, x.size)
  <2>1. CASE c = b
    <3>1. d \in Held /\ held'[c].size = x.size
      BY <2>1, <1>2, <1>3, <1>4
    <3>2. b + x.size <= d \/ d + held[d].size <= b
      BY <1>8, <3>1 DEF Fits
    <3> QED
      BY <2>1, <3>1, <3>2, <1>3, <1>4
  <2>2. CASE d = b
    <3>1. c \in Held /\ held'[c].size = held[c].size
      BY <2>2, <1>3, <1>4
    <3>2. b + x.size <= c \/ c + held[c].size <= b
      BY <1>8, <3>1 DEF Fits
    <3> QED
      BY <2>2, <3>1, <3>2, <1>3, <1>4
  <2> QED
    BY <2>1, <2>2, <1>5
<1> QED
  BY <1>6, <1>7, <1>8

-----------------------------------------------------------------------------
(* The calls.                                                              *)

(* A call that changes nothing but the allocator's life.                   *)
LEMMA FailKeeps ==
    ASSUME IInv, UNCHANGED <<regions, partial, service>>,
           life' \in {"open", "dead", "closed"}, life' = "open" => life = "open"
    PROVE  IInv'
<1>1. /\ regions' = regions /\ partial' = partial /\ held' = held /\ bytes' = bytes
      /\ backend' = backend
  BY DEF service
<1>2. Regions' = Regions /\ Held' = Held
  BY <1>1 DEF Regions, Held
<1>3. TypeOK' /\ SlotsExact' /\ Shapes' /\ Apart'
  BY <1>1, <1>2 DEF IInv, TypeOK, SlotsExact, Slots, Shapes, Shape, Apart
<1>4. PartialExact' /\ RegionsMatch'
  BY <1>1, <1>2 DEF IInv, PartialExact, RegionsMatch
<1> QED
  BY <1>3, <1>4 DEF IInv

(* What Fails does to the variables.                                       *)
LEMMA FailsChanges ==
    ASSUME NEW call, NEW p, NEW n, NEW s, Fails(call, p, n, s), life \in {"open", "dead"}
    PROVE  /\ UNCHANGED <<regions, partial, service>>
           /\ life' \in {"open", "dead"} /\ (life' = "open" => life = "open")
           /\ last' = [call |-> call, ptr |-> p, size |-> n, status |-> s]
           /\ life' = IF s = "Fatal" THEN "dead" ELSE life
  BY DEF Fails, Result

(* A large region is made with its chunk.                                  *)
LEMMA AllocLargeKeeps ==
    ASSUME IInv, life = "open", NEW n \in Request, AllocLarge(n)
    PROVE  IInv'
<1>1. CASE \E s \in {"NoMemory", "Fatal"} : Fails("alloc", 0, n, s)
  BY <1>1, FailsChanges, FailKeeps
<1>2. ASSUME NEW b \in Base, NEW l \in Loc,
             Created(b, RoundUp(n), l),
             regions' = [regions EXCEPT ![b] = NewRegion(RoundUp(n), l, 0)],
             UNCHANGED <<partial, life>>
      PROVE  IInv'
  <2>1. RoundUp(n) \in Nat \ {0}
    BY Rounded, AllocatorAssumption
  <2>2. PICK size \in Nat \ {0} : size = RoundUp(n)
    BY <2>1
  <2>3. PICK r : r = NewRegion(size, l, 0)
    OBVIOUS
  <2>4. /\ r \in Region /\ r.free = <<>> /\ r.busy = {}
        /\ r.size = size /\ r.loc = l /\ r.obj = 0
    BY <2>3, NewLarge
  <2>5. r # NoRegion /\ Sound(r)
    BY <2>4, NoRegionType DEF Sound, Shape
  <2>6. regions' = [regions EXCEPT ![b] = r]
    BY <1>2, <2>2, <2>3
  <2>7. Fits(b, size) /\ held' = [held EXCEPT ![b] = [size |-> size, loc |-> l]]
        /\ bytes' = bytes + size /\ backend' = backend
    BY <1>2, <2>2 DEF Created
  <2>8. TypeOK /\ Apart /\ PartialExact /\ partial \in [Obj -> SUBSET Base] /\ bytes \in Nat
        /\ held \in [Base -> [size : Nat, loc : Loc \cup {"None"}]]
    BY DEF IInv, TypeOK
  <2>9. [size |-> size, loc |-> l] \in [size : Nat, loc : Loc \cup {"None"}]
        /\ [size |-> size, loc |-> l].size = size
    OBVIOUS
  <2>10. Apart'
    BY <2>7, <2>8, <2>9, ApartKept
  <2>11. b \notin Regions /\ regions[b] = NoRegion /\ regions[b].size = 0
    BY <2>7, Clear, NoRegionType DEF Regions
  <2>12. \A obj \in Obj :
              partial'[obj] = (partial[obj] \ {b})
                  \cup {c \in {b} : r # NoRegion /\ r.obj = obj /\ r.free # <<>>}
    <3>1. \A obj \in Obj : b \notin partial[obj]
      BY <2>8, <2>11 DEF PartialExact
    <3> QED
      BY <3>1, <2>4, <1>2
  <2>13. held' = [held EXCEPT ![b] = [size |-> r.size, loc |-> r.loc]]
         /\ held'[b] = [size |-> r.size, loc |-> r.loc]
    BY <2>4, <2>7, <2>8
  <2>14. bytes' = bytes - regions[b].size + r.size
    BY <2>4, <2>7, <2>8, <2>11
  <2> QED
    BY <2>4, <2>5, <2>6, <2>7, <2>8, <2>10, <2>12, <2>13, <2>14, <1>2, StepKeeps
<1> QED
  BY <1>1, <1>2 DEF AllocLarge

(* An object from a slab that is listed.                                   *)
LEMMA AllocListedKeeps ==
    ASSUME IInv, life = "open", NEW obj \in Obj, NEW b \in partial[obj],
           NEW n, TakeSlot(b, regions[b], partial[obj], n), UNCHANGED <<life, service>>
    PROVE  IInv'
<1>1. /\ TypeOK /\ Apart /\ PartialExact /\ SlotsExact /\ Shapes
      /\ partial \in [Obj -> SUBSET Base] /\ bytes \in Nat
      /\ held \in [Base -> [size : Nat, loc : Loc \cup {"None"}]]
      /\ regions \in [Base -> Region]
  BY DEF IInv, TypeOK
<1>2. b \in Base /\ b \in Regions /\ regions[b].obj = obj /\ regions[b].free # <<>>
  BY <1>1 DEF PartialExact
<1>3. PICK r \in Region : r = regions[b]
  BY <1>1, <1>2
<1>4. r.obj = obj /\ r.obj # 0 /\ r.free # <<>> /\ Exact(r) /\ r.size > 0 /\ Shape(r)
  BY <1>1, <1>2, <1>3, ObjType DEF SlotsExact, Exact, Shapes, Shape
<1>5. PICK t : t = Taken(r)
  OBVIOUS
<1>6. /\ t \in Region /\ Exact(t)
      /\ t.size = r.size /\ t.loc = r.loc /\ t.obj = r.obj
      /\ t.used > 0
      /\ t.free = <<>> <=> Len(r.free) = 1
  BY <1>4, <1>5, SlotTaken
<1>7. t # NoRegion /\ Sound(t)
  BY <1>4, <1>6, NoRegionType DEF Sound, Shape
<1>8. /\ regions' = [regions EXCEPT ![b] = t]
      /\ partial' = [partial EXCEPT ![obj] =
                        IF Len(r.free) = 1 THEN partial[obj] \ {b} ELSE partial[obj]]
      /\ held' = held /\ bytes' = bytes /\ backend' = backend /\ life' = life
  BY <1>3, <1>4, <1>5 DEF TakeSlot, service
<1>9. Apart'
  BY <1>1, <1>8 DEF Apart, Held
<1>10. \A o \in Obj :
              partial'[o] = (partial[o] \ {b})
                  \cup {c \in {b} : t # NoRegion /\ t.obj = o /\ t.free # <<>>}
  <2> SUFFICES ASSUME NEW o \in Obj
               PROVE  partial'[o] = (partial[o] \ {b})
                          \cup {c \in {b} : t # NoRegion /\ t.obj = o /\ t.free # <<>>}
    OBVIOUS
  <2>1. CASE o = obj
    BY <2>1, <1>1, <1>4, <1>6, <1>7, <1>8
  <2>2. CASE o # obj
    <3>1. b \notin partial[o]
      BY <2>2, <1>1, <1>2 DEF PartialExact
    <3> QED
      BY <3>1, <2>2, <1>1, <1>4, <1>6, <1>8
  <2> QED
    BY <2>1, <2>2
<1>11. /\ held'[b] = [size |-> t.size, loc |-> t.loc]
       /\ bytes' = bytes - regions[b].size + t.size
  <2>1. held[b] = [size |-> r.size, loc |-> r.loc]
    BY <1>2, <1>3, Matching
  <2>2. r.size \in Nat
    BY DEF Region
  <2> QED
    BY <2>1, <2>2, <1>1, <1>3, <1>6, <1>8
<1>12. partial' \in [Obj -> SUBSET Base]
  BY <1>1, <1>8
<1> QED
  BY <1>1, <1>2, <1>6, <1>7, <1>8, <1>9, <1>10, <1>11, <1>12, StepKeeps

(* An object from a new slab.                                              *)
LEMMA AllocFreshKeeps ==
    ASSUME IInv, life = "open", NEW obj \in Obj, partial[obj] = {},
           NEW b \in Base, NEW l \in Loc, Created(b, SmallChunk, l),
           NEW n, TakeSlot(b, NewRegion(SmallChunk, l, obj), {b}, n), UNCHANGED life
    PROVE  IInv'
<1>1. /\ TypeOK /\ Apart /\ PartialExact
      /\ partial \in [Obj -> SUBSET Base] /\ bytes \in Nat
      /\ held \in [Base -> [size : Nat, loc : Loc \cup {"None"}]]
  BY DEF IInv, TypeOK
<1>2. SmallChunk \in Nat \ {0} /\ obj <= SmallChunk
  BY ObjType, AllocatorAssumption
<1>3. PICK r : r = NewRegion(SmallChunk, l, obj)
  OBVIOUS
<1>4. /\ r \in Region /\ Exact(r) /\ r.free # <<>>
      /\ r.size = SmallChunk /\ r.loc = l /\ r.obj = obj /\ r.obj # 0 /\ r.busy = {}
  BY <1>3, NewSlab
<1>5. PICK t : t = Taken(r)
  OBVIOUS
<1>6. /\ t \in Region /\ Exact(t)
      /\ t.size = SmallChunk /\ t.loc = l /\ t.obj = obj
      /\ t.used > 0
      /\ t.free = <<>> <=> Len(r.free) = 1
  BY <1>4, <1>5, SlotTaken
<1>7. t # NoRegion /\ Sound(t)
  BY <1>2, <1>4, <1>6, NoRegionType DEF Sound, Shape
<1>8. /\ regions' = [regions EXCEPT ![b] = t]
      /\ partial' = [partial EXCEPT ![obj] = IF Len(r.free) = 1 THEN {b} \ {b} ELSE {b}]
      /\ life' = life
  BY <1>3, <1>4, <1>5 DEF TakeSlot
<1>9. /\ Fits(b, SmallChunk) /\ held' = [held EXCEPT ![b] = [size |-> SmallChunk, loc |-> l]]
      /\ bytes' = bytes + SmallChunk /\ backend' = backend
  BY DEF Created
<1>10. /\ [size |-> SmallChunk, loc |-> l] \in [size : Nat, loc : Loc \cup {"None"}]
       /\ [size |-> SmallChunk, loc |-> l].size = SmallChunk
  BY <1>2
<1>11. Apart'
  BY <1>1, <1>9, <1>10, ApartKept
<1>12. b \notin Regions /\ regions[b] = NoRegion /\ regions[b].size = 0
  BY <1>2, <1>9, Clear, NoRegionType DEF Regions
<1>13. \A o \in Obj :
              partial'[o] = (partial[o] \ {b})
                  \cup {c \in {b} : t # NoRegion /\ t.obj = o /\ t.free # <<>>}
  <2> SUFFICES ASSUME NEW o \in Obj
               PROVE  partial'[o] = (partial[o] \ {b})
                          \cup {c \in {b} : t # NoRegion /\ t.obj = o /\ t.free # <<>>}
    OBVIOUS
  <2>1. b \notin partial[o]
    BY <1>1, <1>12 DEF PartialExact
  <2>2. CASE o = obj
    BY <2>2, <1>1, <1>6, <1>7, <1>8
  <2>3. CASE o # obj
    BY <2>1, <2>3, <1>1, <1>6, <1>8
  <2> QED
    BY <2>2, <2>3
<1>14. /\ held' = [held EXCEPT ![b] = [size |-> t.size, loc |-> t.loc]]
       /\ held'[b] = [size |-> t.size, loc |-> t.loc]
       /\ bytes' = bytes - regions[b].size + t.size
  BY <1>1, <1>2, <1>6, <1>9, <1>12
<1>15. partial' \in [Obj -> SUBSET Base]
  BY <1>1, <1>8
<1> QED
  BY <1>1, <1>6, <1>7, <1>8, <1>9, <1>11, <1>13, <1>14, <1>15, StepKeeps

(* alloc of a small object.                                                *)
LEMMA AllocSmallKeeps ==
    ASSUME IInv, life = "open", NEW n \in Request, AllocSmall(n)
    PROVE  IInv'
<1>1. PICK obj \in Obj : obj = ObjOf(n)
  BY ObjType DEF AllocSmall
<1>2. CASE /\ partial[obj] # {}
           /\ LET b == Min(partial[obj]) IN TakeSlot(b, regions[b], partial[obj], n)
           /\ UNCHANGED <<life, service>>
  <2>1. partial[obj] \subseteq Nat
    BY BaseNat DEF IInv, TypeOK
  <2>2. Min(partial[obj]) \in partial[obj]
    BY <1>2, <2>1, MinNat
  <2> QED
    BY <1>2, <2>2, AllocListedKeeps
<1>3. CASE /\ partial[obj] = {}
           /\ \E b \in Base, l \in Loc :
                 /\ Created(b, SmallChunk, l)
                 /\ TakeSlot(b, NewRegion(SmallChunk, l, obj), {b}, n)
           /\ UNCHANGED life
  BY <1>3, AllocFreshKeeps
<1>4. CASE \E s \in {"NoMemory", "Fatal"} : Fails("alloc", 0, n, s)
  BY <1>4, FailsChanges, FailKeeps
<1> QED
  BY <1>1, <1>2, <1>3, <1>4 DEF AllocSmall

(* Where a pointer that free takes is: at the start of a large region, or  *)
(* of a slot in use.                                                       *)
LEMMA GoodPlace ==
    ASSUME TypeOK, SlotsExact, NEW p \in Address, Good(p)
    PROVE  LET b == RegionOf(p)
               r == regions[b]
           IN  /\ b \in Regions /\ b \in Base /\ Covers(b, p) /\ r \in Region
               /\ r.obj = 0 => p = b /\ Returned(b, p) = r
               /\ r.obj # 0 => /\ Exact(r)
                               /\ \E k \in r.busy : p = b + k * r.obj /\ Returned(b, p) = Freed(r, k)
<1> DEFINE b == RegionOf(p)
<1>1. b \in Regions /\ Covers(b, p)
  BY DEF Good, Found, RegionOf
<1>2. b \in Base /\ regions[b] \in Region
  BY <1>1 DEF Regions, TypeOK
<1>3. IF regions[b].obj = 0 THEN p = b
      ELSE (p - b) % regions[b].obj = 0 /\ (p - b) \div regions[b].obj \in regions[b].busy
  BY DEF Good
<1> HIDE DEF b
<1>4. PICK r \in Region : r = regions[b]
  BY <1>2
<1>5. r.obj = 0 => p = b /\ Returned(b, p) = r
  BY <1>3, <1>4 DEF Returned
<1>6. ASSUME r.obj # 0
      PROVE  /\ Exact(r)
             /\ \E k \in r.busy : p = b + k * r.obj /\ Returned(b, p) = Freed(r, k)
  <2>1. Exact(r)
    BY <1>1, <1>4, <1>6 DEF SlotsExact, Exact
  <2>2. PICK k \in r.busy : k = (p - b) \div r.obj
    BY <1>3, <1>4, <1>6
  <2>3. p \in Nat /\ b \in Nat /\ b <= p /\ r.obj \in Nat \ {0}
    BY <1>1, <1>2, <1>6, AllocatorAssumption, BaseNat, ObjType DEF Covers, Region
  <2>4. p - b \in Nat /\ (p - b) % r.obj = 0
    BY <2>3, <1>3, <1>4, <1>6
  <2>5. p - b = r.obj * ((p - b) \div r.obj) + ((p - b) % r.obj) /\ (p - b) \div r.obj \in Nat
    BY <2>3, <2>4, Quotient
  <2>6. p - b = r.obj * k /\ k \in Nat
    BY <2>2, <2>3, <2>4, <2>5
  <2>7. r.obj * k = k * r.obj /\ k * r.obj \in Nat
    BY <2>3, <2>6
  <2>8. p = b + k * r.obj
    BY <2>3, <2>6, <2>7
  <2>9. Returned(b, p) = Freed(r, k)
    BY <1>4, <1>6, <2>2 DEF Returned, Freed
  <2> QED
    BY <2>1, <2>8, <2>9
<1> QED
  BY <1>1, <1>2, <1>4, <1>5, <1>6 DEF b

(* A slot comes back to a slab that keeps others.                          *)
LEMMA FreeSlotKeeps ==
    ASSUME IInv, life = "open", NEW p \in Address, FreeSlot(p)
    PROVE  IInv'
<1>1. /\ TypeOK /\ Apart /\ PartialExact /\ SlotsExact /\ Shapes
      /\ partial \in [Obj -> SUBSET Base] /\ bytes \in Nat
      /\ held \in [Base -> [size : Nat, loc : Loc \cup {"None"}]]
  BY DEF IInv, TypeOK
<1>2. PICK b \in Base : b = RegionOf(p)
  BY <1>1, GoodPlace DEF FreeSlot
<1>3. PICK r \in Region : r = regions[b]
  BY <1>1, <1>2 DEF TypeOK
<1>4. /\ r.obj # 0 /\ r.used > 1
      /\ regions' = [regions EXCEPT ![b] = Returned(b, p)]
      /\ partial' = [partial EXCEPT ![r.obj] = @ \cup {b}]
      /\ held' = held /\ bytes' = bytes /\ backend' = backend /\ life' = life
  BY <1>2, <1>3 DEF FreeSlot, service
<1>5. b \in Regions /\ Exact(r)
  BY <1>1, <1>2, <1>3, <1>4, GoodPlace DEF FreeSlot
<1>6. PICK k \in r.busy : Returned(b, p) = Freed(r, k)
  BY <1>1, <1>2, <1>3, <1>4, GoodPlace DEF FreeSlot
<1>7. PICK t : t = Freed(r, k)
  OBVIOUS
<1>8. /\ t \in Region /\ Exact(t)
      /\ t.size = r.size /\ t.loc = r.loc /\ t.obj = r.obj
      /\ t.free # <<>> /\ t.used = r.used - 1
  BY <1>4, <1>5, <1>7, SlotFreed
<1>9. Shape(r) /\ r.used \in Nat /\ r.obj \in Obj /\ r.size \in Nat
  BY <1>1, <1>3, <1>4, <1>5 DEF Shapes, Region
<1>10. t # NoRegion /\ Sound(t) /\ t.used > 0
  BY <1>4, <1>8, <1>9, NoRegionType DEF Sound, Shape
<1>11. regions' = [regions EXCEPT ![b] = t]
  BY <1>4, <1>6, <1>7
<1>12. Apart'
  BY <1>1, <1>4 DEF Apart, Held
<1>13. \A o \in Obj :
              partial'[o] = (partial[o] \ {b})
                  \cup {c \in {b} : t # NoRegion /\ t.obj = o /\ t.free # <<>>}
  <2> SUFFICES ASSUME NEW o \in Obj
               PROVE  partial'[o] = (partial[o] \ {b})
                          \cup {c \in {b} : t # NoRegion /\ t.obj = o /\ t.free # <<>>}
    OBVIOUS
  <2>1. CASE o = r.obj
    BY <2>1, <1>1, <1>4, <1>8, <1>10
  <2>2. CASE o # r.obj
    <3>1. b \notin partial[o]
      BY <2>2, <1>1, <1>3 DEF PartialExact
    <3> QED
      BY <3>1, <2>2, <1>1, <1>4, <1>8
  <2> QED
    BY <2>1, <2>2
<1>14. /\ held'[b] = [size |-> t.size, loc |-> t.loc]
       /\ bytes' = bytes - regions[b].size + t.size
  <2>1. held[b] = [size |-> r.size, loc |-> r.loc]
    BY <1>3, Matching
  <2> QED
    BY <2>1, <1>1, <1>3, <1>4, <1>8, <1>9
<1>15. partial' \in [Obj -> SUBSET Base]
  BY <1>1, <1>4
<1> QED
  BY <1>1, <1>4, <1>8, <1>10, <1>11, <1>12, <1>13, <1>14, <1>15, StepKeeps

(* The lists without b.                                                    *)
LEMMA UnlistedLists ==
    ASSUME TypeOK, PartialExact, life = "open", NEW b \in Regions
    PROVE  /\ Unlisted(regions[b].obj, b) \in [Obj -> SUBSET Base]
           /\ \A o \in Obj : Unlisted(regions[b].obj, b)[o] = partial[o] \ {b}
<1>1. partial \in [Obj -> SUBSET Base]
  BY DEF TypeOK
<1>2. \A o \in Obj : o # regions[b].obj => b \notin partial[o]
  BY DEF PartialExact
<1> QED
  BY <1>1, <1>2 DEF Unlisted

(* The last object of a region goes, and the region with its chunk; if the *)
(* backend fails, the allocator is dead.                                   *)
LEMMA FreeRegionKeeps ==
    ASSUME IInv, life = "open", NEW p \in Address, FreeRegion(p)
    PROVE  IInv'
<1>1. /\ TypeOK /\ Apart /\ PartialExact /\ SlotsExact /\ Shapes
      /\ bytes \in Nat /\ backend \in Kind
      /\ held \in [Base -> [size : Nat, loc : Loc \cup {"None"}]]
  BY DEF IInv, TypeOK
<1>2. PICK b \in Base : b = RegionOf(p)
  BY <1>1, GoodPlace DEF FreeRegion
<1>3. PICK r \in Region : r = regions[b]
  BY <1>1, <1>2 DEF TypeOK
<1>4. b \in Regions /\ r # NoRegion /\ Shape(r)
  BY <1>1, <1>2, <1>3, GoodPlace DEF FreeRegion, Regions, Shapes
<1>5. partial' = Unlisted(r.obj, b)
  BY <1>2, <1>3 DEF FreeRegion
<1>6. partial' \in [Obj -> SUBSET Base] /\ \A o \in Obj : partial'[o] = partial[o] \ {b}
  BY <1>1, <1>3, <1>4, <1>5, UnlistedLists
<1>7. Sound(NoRegion) /\ NoRegion.size = 0 /\ NoRegion.obj = 0
      /\ NotHeld = [size |-> NoRegion.size, loc |-> NoRegion.loc]
      /\ NotHeld \in [size : Nat, loc : Loc \cup {"None"}]
  BY NoRegionType DEF Sound
<1>8. CASE /\ regions' = [regions EXCEPT ![b] = NoRegion]
           /\ Destroyed(b)
           /\ UNCHANGED life
  <2>1. held' = [held EXCEPT ![b] = NotHeld] /\ bytes' = bytes - held[b].size /\ backend' = backend
    BY <1>8 DEF Destroyed
  <2>2. Apart'
    BY <2>1, <1>1, <1>7, ApartKept
  <2>3. held[b].size = regions[b].size /\ regions[b].size \in Nat
    BY Matching
  <2>4. bytes' = bytes - regions[b].size + NoRegion.size
    BY <2>1, <2>3, <1>1, <1>7
  <2>5. held' = [held EXCEPT ![b] = [size |-> NoRegion.size, loc |-> NoRegion.loc]]
        /\ held'[b] = [size |-> NoRegion.size, loc |-> NoRegion.loc]
    BY <2>1, <1>1, <1>7
  <2>6. \A o \in Obj :
              partial'[o] = (partial[o] \ {b})
                  \cup {c \in {b} : NoRegion # NoRegion /\ NoRegion.obj = o /\ NoRegion.free # <<>>}
    BY <1>6
  <2> QED
    BY <2>1, <2>2, <2>4, <2>5, <2>6, <1>6, <1>7, <1>8, StepKeeps
<1>9. CASE /\ regions' = [regions EXCEPT ![b] = NoRegion]
           /\ life' = "dead" /\ UNCHANGED service
  <2>1. held' = held /\ bytes' = bytes /\ backend' = backend
    BY <1>9 DEF service
  <2>2. Apart'
    BY <2>1, <1>1 DEF Apart, Held
  <2> QED
    BY <2>1, <2>2, <1>6, <1>7, <1>9, StepKeeps
<1>10. CASE /\ regions' = [regions EXCEPT ![b] = Returned(b, p)]
            /\ life' = "dead" /\ UNCHANGED service
  <2>1. held' = held /\ bytes' = bytes /\ backend' = backend
    BY <1>10 DEF service
  <2>2. Apart'
    BY <2>1, <1>1 DEF Apart, Held
  <2>3. Sound(Returned(b, p))
    <3>1. CASE r.obj = 0
      <4>1. Returned(b, p) = r
        BY <3>1, <1>1, <1>2, <1>3, GoodPlace DEF FreeRegion
      <4> QED
        BY <4>1, <3>1, <1>4 DEF Sound
    <3>2. CASE r.obj # 0
      <4>1. Exact(r)
        BY <3>2, <1>1, <1>3, <1>4 DEF SlotsExact, Exact
      <4>2. PICK k \in r.busy : Returned(b, p) = Freed(r, k)
        BY <3>2, <1>1, <1>2, <1>3, GoodPlace DEF FreeRegion
      <4>3. PICK t : t = Freed(r, k)
        OBVIOUS
      <4>4. t \in Region /\ Exact(t) /\ t.size = r.size /\ t.obj = r.obj
        BY <3>2, <4>1, <4>3, SlotFreed
      <4>5. Sound(t)
        BY <3>2, <4>4, <1>4 DEF Sound, Shape
      <4> QED
        BY <4>2, <4>3, <4>5
    <3> QED
      BY <3>1, <3>2
  <2> QED
    BY <2>1, <2>2, <2>3, <1>6, <1>10, StepKeeps
<1> QED
  BY <1>2, <1>3, <1>8, <1>9, <1>10 DEF FreeRegion

(* A large region moves.                                                   *)
LEMMA MoveKeeps ==
    ASSUME IInv, life = "open", NEW p \in Address, NEW to \in Loc, MoveTo(p, to)
    PROVE  IInv'
<1>1. CASE \E s : Fails("move", p, 0, s)
  BY <1>1, FailsChanges, FailKeeps
<1>2. CASE /\ Movable(p)
           /\ regions' = [regions EXCEPT ![RegionOf(p)].loc = to]
           /\ MovedTo(RegionOf(p), to)
           /\ UNCHANGED <<partial, life>>
  <2>1. /\ TypeOK /\ Apart /\ PartialExact /\ Shapes
        /\ partial \in [Obj -> SUBSET Base] /\ bytes \in Nat
        /\ held \in [Base -> [size : Nat, loc : Loc \cup {"None"}]]
        /\ regions \in [Base -> Region]
    BY DEF IInv, TypeOK
  <2>2. PICK b \in Regions : b = RegionOf(p) /\ regions[b].obj = 0
    BY <1>2 DEF Movable, Found, RegionOf
  <2>3. b \in Base
    BY DEF Regions
  <2>4. PICK r \in Region : r = regions[b]
    BY <2>1, <2>3
  <2>5. Shape(r) /\ r.size \in Nat /\ r.obj = 0 /\ r.size > 0 /\ r.free = <<>> /\ r.busy = {}
    BY <2>1, <2>2, <2>4 DEF Shapes, Shape, Region
  <2>6. PICK t : t = [r EXCEPT !.loc = to]
    OBVIOUS
  <2>7. t \in Region /\ t.size = r.size /\ t.loc = to /\ t.obj = 0 /\ t.free = <<>> /\ t.busy = {}
    <3>1. t \in Region
      BY <2>6 DEF Region
    <3>2. t.size = r.size /\ t.loc = to /\ t.obj = r.obj /\ t.free = r.free /\ t.busy = r.busy
      BY <2>6 DEF Region
    <3> QED
      BY <3>1, <3>2, <2>5
  <2>8. t # NoRegion /\ Sound(t)
    BY <2>5, <2>7, NoRegionType DEF Sound, Shape
  <2>9. regions' = [regions EXCEPT ![b] = t]
    BY <1>2, <2>1, <2>2, <2>4, <2>6
  <2>10. held[b] = [size |-> r.size, loc |-> r.loc] /\ b \in Held /\ held[b].size = r.size
    BY <2>3, <2>4, Matching
  <2>11. held' = [held EXCEPT ![b] = [size |-> t.size, loc |-> t.loc]]
    <3>1. held' = [held EXCEPT ![b].loc = to]
      BY <1>2, <2>2 DEF MovedTo
    <3>2. [held[b] EXCEPT !.loc = to] = [size |-> r.size, loc |-> to]
      BY <2>10
    <3> QED
      BY <3>1, <3>2, <2>7
  <2>12. backend' = backend /\ bytes' = bytes
    BY <1>2 DEF MovedTo
  <2>13. PICK x \in [size : Nat, loc : Loc \cup {"None"}] :
            x = [size |-> t.size, loc |-> t.loc] /\ x.size = held[b].size
    <3>1. [size |-> t.size, loc |-> t.loc] \in [size : Nat, loc : Loc \cup {"None"}]
      BY <2>5, <2>7
    <3>2. [size |-> t.size, loc |-> t.loc].size = held[b].size
      BY <2>7, <2>10
    <3> QED
      BY <3>1, <3>2
  <2>14. Apart'
    <3>1. held' = [held EXCEPT ![b] = x]
      BY <2>11, <2>13
    <3> QED
      BY <3>1, <2>1, <2>3, <2>10, <2>13, ApartKept
  <2>15. \A o \in Obj :
              partial'[o] = (partial[o] \ {b})
                  \cup {c \in {b} : t # NoRegion /\ t.obj = o /\ t.free # <<>>}
    <3>1. \A o \in Obj : b \notin partial[o]
      BY <2>1, <2>4, <2>5 DEF PartialExact
    <3> QED
      BY <3>1, <2>7, <1>2
  <2>16. bytes' = bytes - regions[b].size + t.size /\ held'[b] = [size |-> t.size, loc |-> t.loc]
    BY <2>1, <2>3, <2>4, <2>5, <2>7, <2>11, <2>12
  <2> QED
    BY <1>2, <2>1, <2>3, <2>7, <2>8, <2>9, <2>11, <2>12, <2>14, <2>15, <2>16, StepKeeps
<1> QED
  BY <1>1, <1>2 DEF MoveTo

(* Without regions the tables are as empty as at the start.                *)
LEMMA EmptyKeeps ==
    ASSUME IInv, regions' = [b \in Base |-> NoRegion], partial' = [obj \in Obj |-> {}],
           backend' \in Kind, life' \in {"open", "dead", "closed"}, bytes' = 0,
           \E kept \in SUBSET Held : held' = [b \in Base |-> IF b \in kept THEN held[b] ELSE NotHeld],
           life' = "open" => held' = [b \in Base |-> NotHeld]
    PROVE  IInv'
<1>1. /\ NoRegion \in Region
      /\ NoRegion.size = 0 /\ NoRegion.loc = "None" /\ NoRegion.obj = 0
      /\ NotHeld = [size |-> 0, loc |-> "None"]
  BY NoRegionType
<1>2. NotHeld \in [size : Nat, loc : Loc \cup {"None"}]
  BY <1>1
<1>3. TypeOK /\ Apart /\ held \in [Base -> [size : Nat, loc : Loc \cup {"None"}]]
  BY DEF IInv, TypeOK
<1>4. TypeOK'
  <2>1. held' \in [Base -> [size : Nat, loc : Loc \cup {"None"}]]
    BY <1>2, <1>3
  <2> QED
    BY <2>1, <1>1 DEF TypeOK
<1>5. Regions' = {}
  BY DEF Regions
<1>6. SlotsExact' /\ Shapes'
  BY <1>5 DEF SlotsExact, Shapes
<1>7. PartialExact'
  BY <1>5 DEF PartialExact
<1>8. Total([b \in Base |-> regions'[b].size]) = 0
  <2>1. \A b \in Base : regions'[b].size = 0
    BY <1>1
  <2> DEFINE g == [b \in Base |-> regions'[b].size]
  <2>2. \A b \in DOMAIN g : g[b] = 0
    BY <2>1
  <2> HIDE DEF g
  <2>3. Total(g) = 0
    BY <2>2, TotalZero
  <2> QED
    BY <2>3 DEF g
<1>9. RegionsMatch'
  <2>1. \A b \in Base : regions'[b].size = 0 /\ regions'[b].loc = "None"
    BY <1>1
  <2>2. life' = "open" => \A b \in Base : held'[b] = [size |-> 0, loc |-> "None"]
    BY <1>1
  <2> QED
    BY <1>5, <1>8, <2>1, <2>2 DEF RegionsMatch
<1>10. Apart'
  <2>1. \A b \in Held' : b \in Held /\ held'[b] = held[b]
    BY DEF Held
  <2> QED
    BY <2>1, <1>3 DEF Apart
<1> QED
  BY <1>4, <1>6, <1>7, <1>9, <1>10 DEF IInv

(* The destructor.                                                         *)
LEMMA ShutdownKeeps == IInv /\ Shutdown => IInv'
<1> SUFFICES ASSUME IInv, Shutdown PROVE IInv'
  OBVIOUS
<1>1. \E kept \in SUBSET Held : held' = [b \in Base |-> IF b \in kept THEN held[b] ELSE NotHeld]
  BY DEF Shutdown
<1>2. /\ regions' = [b \in Base |-> NoRegion] /\ partial' = [obj \in Obj |-> {}]
      /\ backend' \in Kind /\ life' = "closed" /\ bytes' = 0
  BY DEF Shutdown, IInv, TypeOK
<1> QED
  BY <1>1, <1>2, EmptyKeeps

(* init, also over an allocator that is open, dead or closed.              *)
LEMMA ReopenKeeps == IInv /\ Reopen => IInv'
<1> SUFFICES ASSUME IInv, Reopen PROVE IInv'
  OBVIOUS
<1>1. CASE UNCHANGED <<regions, partial, life, service>>
  <2>1. life' \in {"open", "dead", "closed"} /\ (life' = "open" => life = "open")
    BY <1>1 DEF IInv, TypeOK
  <2> QED
    BY <1>1, <2>1, FailKeeps
<1>2. CASE /\ life' = "open" /\ backend' \in Kind
           /\ regions' = [b \in Base |-> NoRegion]
           /\ partial' = [obj \in Obj |-> {}]
           /\ held' = [b \in Base |-> NotHeld] /\ bytes' = 0
  <2>1. {} \in SUBSET Held /\ held' = [b \in Base |-> IF b \in {} THEN held[b] ELSE NotHeld]
    BY <1>2
  <2> QED
    BY <1>2, <2>1, EmptyKeeps
<1> QED
  BY <1>1, <1>2 DEF Reopen

(* At the start there is nothing.                                         *)
LEMMA InitInv == Init => IInv
<1> SUFFICES ASSUME Init PROVE IInv
  OBVIOUS
<1>1. /\ NoRegion \in Region
      /\ NoRegion.size = 0 /\ NoRegion.loc = "None" /\ NoRegion.obj = 0
      /\ NotHeld = [size |-> 0, loc |-> "None"]
  BY NoRegionType
<1>2. TypeOK
  <2>1. NotHeld \in [size : Nat, loc : Loc \cup {"None"}]
    BY <1>1
  <2> QED
    BY <1>1, <2>1 DEF Init, TypeOK
<1>3. Regions = {} /\ Held = {}
  BY DEF Init, Regions, Held
<1>4. SlotsExact /\ Shapes /\ Apart
  BY <1>3 DEF SlotsExact, Shapes, Apart
<1>5. PartialExact
  BY <1>3 DEF PartialExact, Init
<1>6. Total([b \in Base |-> regions[b].size]) = 0
  <2> DEFINE g == [b \in Base |-> regions[b].size]
  <2>1. \A b \in DOMAIN g : g[b] = 0
    BY <1>1 DEF Init
  <2> HIDE DEF g
  <2>2. Total(g) = 0
    BY <2>1, TotalZero
  <2> QED
    BY <2>2 DEF g
<1>7. \A b \in Base : held[b] = [size |-> regions[b].size, loc |-> regions[b].loc]
  BY <1>1 DEF Init
<1>8. RegionsMatch
  BY <1>3, <1>6, <1>7 DEF RegionsMatch, Init
<1> QED
  BY <1>2, <1>4, <1>5, <1>8 DEF IInv

(* Every call keeps the invariant.                                         *)
LEMMA NextInv == IInv /\ [Next]_vars => IInv'
<1> SUFFICES ASSUME IInv, [Next]_vars PROVE IInv'
  OBVIOUS
<1>1. ASSUME life = "open", NEW n \in Request, AllocLarge(n) \/ AllocSmall(n)
      PROVE  IInv'
  BY <1>1, AllocLargeKeeps, AllocSmallKeeps
<1>2. ASSUME life = "open", NEW p \in Address, FreeBad(p) \/ FreeSlot(p) \/ FreeRegion(p)
      PROVE  IInv'
  <2>1. CASE FreeBad(p)
    BY <2>1, <1>2, FailsChanges, FailKeeps DEF FreeBad
  <2> QED
    BY <2>1, <1>2, FreeSlotKeeps, FreeRegionKeeps
<1>3. ASSUME life = "open", NEW p \in Address, NEW to \in Loc, MoveTo(p, to)
      PROVE  IInv'
  BY <1>3, MoveKeeps
<1>4. CASE life = "dead" /\ Dead
  BY <1>4, FailsChanges, FailKeeps DEF Dead
<1>5. CASE UNCHANGED vars
  <2>1. UNCHANGED <<regions, partial, service>> /\ life' = life
    BY <1>5 DEF vars
  <2>2. life \in {"open", "dead", "closed"}
    BY DEF IInv, TypeOK
  <2> QED
    BY <2>1, <2>2, FailKeeps
<1> QED
  BY <1>1, <1>2, <1>3, <1>4, <1>5, ShutdownKeeps, ReopenKeeps DEF Next

(* The tables of the allocator, its lists, its regions and the backend's   *)
(* chunks agree, for any backend, whatever it refuses and the application  *)
(* frees.                                                                  *)
THEOREM AllocatorInvariant == Spec => []IInv
<1>1. Init => IInv
  BY InitInv
<1>2. IInv /\ [Next]_vars => IInv'
  BY NextInv
<1> QED
  BY <1>1, <1>2, PTL DEF Spec

(* The tables keep their types.                                            *)
THEOREM TablesTyped == Spec => []TypeOK
<1>1. IInv => TypeOK
  BY DEF IInv
<1> QED
  BY <1>1, AllocatorInvariant, PTL

(* free_slots, busy and used of every slab agree, after any frees.         *)
THEOREM SlotsCorrect == Spec => []SlotsExact
<1>1. IInv => SlotsExact
  BY DEF IInv
<1> QED
  BY <1>1, AllocatorInvariant, PTL

(* partial_ lists exactly the slabs with a free slot.                      *)
THEOREM PartialCorrect == Spec => []PartialExact
<1>1. IInv => PartialExact
  BY DEF IInv
<1> QED
  BY <1>1, AllocatorInvariant, PTL

(* The regions are the chunks of the backend, and used() their bytes.      *)
THEOREM RegionsCorrect == Spec => []RegionsMatch
<1>1. IInv => RegionsMatch
  BY DEF IInv
<1> QED
  BY <1>1, AllocatorInvariant, PTL

-----------------------------------------------------------------------------
(* The application's allocations.                                          *)

(* Those in a region r at b.                                               *)
Blocks(b, r) ==
    IF r = NoRegion THEN {}
    ELSE IF r.obj = 0 THEN {[ptr |-> b, size |-> r.size]}
    ELSE {[ptr |-> b + s * r.obj, size |-> r.obj] : s \in r.busy}

Collected == \A a : a \in Live <=> \E b \in Base : a \in Blocks(b, regions[b])

(* They are all of them.                                                   *)
LEMMA LiveBlocks == Shapes => Collected
<1> SUFFICES ASSUME Shapes, NEW a
             PROVE  a \in Live <=> \E b \in Base : a \in Blocks(b, regions[b])
  BY DEF Collected
<1>1. \A b \in Base : b \in Regions <=> regions[b] # NoRegion
  BY DEF Regions
<1>2. Regions \subseteq Base
  BY DEF Regions
<1>3. \A b \in Regions : regions[b].obj = 0 => regions[b].busy = {}
  BY DEF Shapes, Shape
<1>4. a \in Live <=> \/ \E b \in Regions : regions[b].obj = 0 /\ a = [ptr |-> b, size |-> regions[b].size]
                     \/ \E b \in Regions : \E s \in regions[b].busy :
                           a = [ptr |-> b + s * regions[b].obj, size |-> regions[b].obj]
  BY DEF Live
<1>5. ASSUME NEW b \in Base
      PROVE  a \in Blocks(b, regions[b]) <=>
                /\ b \in Regions
                /\ \/ regions[b].obj = 0 /\ a = [ptr |-> b, size |-> regions[b].size]
                   \/ \E s \in regions[b].busy :
                         a = [ptr |-> b + s * regions[b].obj, size |-> regions[b].obj]
  BY <1>1, <1>3 DEF Blocks
<1> QED
  BY <1>2, <1>4, <1>5

(* What changes with the region at b.                                      *)
LEMMA LiveSet ==
    ASSUME IInv, NEW b \in Base, NEW r, Sound(r), regions' = [regions EXCEPT ![b] = r]
    PROVE  \A a : a \in Live' <=> \/ a \in Blocks(b, r)
                                  \/ \E c \in Base \ {b} : a \in Blocks(c, regions[c])
<1>1. /\ Shapes' /\ regions'[b] = r
      /\ \A c \in Base \ {b} : regions'[c] = regions[c]
  BY RegionSet DEF IInv
<1>2. (Shapes => Collected)'
  BY LiveBlocks, PTL
<1>3. \A a : a \in Live' <=> \E c \in Base : a \in Blocks(c, regions'[c])
  BY <1>1, <1>2 DEF Collected, Blocks, NoRegion
<1> QED
  BY <1>1, <1>3

(* An allocation lies in its region.                                       *)
LEMMA BlockInside ==
    ASSUME NEW b \in Base, NEW r, Sound(r), NEW a \in Blocks(b, r)
    PROVE  /\ a.ptr \in Nat /\ a.size \in Nat \ {0}
           /\ b <= a.ptr /\ a.ptr + a.size <= b + r.size
           /\ r # NoRegion /\ r.size \in Nat
<1>1. b \in Nat
  BY BaseNat
<1>2. r # NoRegion /\ r \in Region /\ Shape(r) /\ r.size \in Nat \ {0}
  BY DEF Blocks, Sound, Region, Shape
<1>3. CASE r.obj = 0
  <2>1. a = [ptr |-> b, size |-> r.size]
    BY <1>2, <1>3 DEF Blocks
  <2> QED
    BY <2>1, <1>1, <1>2
<1>4. CASE r.obj # 0
  <2>1. PICK s \in r.busy : a = [ptr |-> b + s * r.obj, size |-> r.obj]
    BY <1>2, <1>4 DEF Blocks
  <2>2. r.obj \in Nat \ {0} /\ s \in 0 .. (r.size \div r.obj) - 1
    BY <1>2, <1>4, ObjType DEF Sound, Exact, Slots, Region
  <2>3. s * r.obj \in Nat /\ s * r.obj + r.obj <= r.size
    BY <1>2, <2>2, SlotInside
  <2>4. a.ptr = b + s * r.obj /\ a.size = r.obj
    BY <2>1
  <2>5. PICK m \in Nat : m = s * r.obj
    BY <2>3
  <2> QED
    BY <1>1, <1>2, <2>2, <2>3, <2>4, <2>5
<1> QED
  BY <1>3, <1>4

(* Two intervals, one after the other, share nothing.                      *)
LEMMA After ==
    ASSUME NEW a, NEW d, a.ptr \in Nat, d.ptr \in Nat, a.size \in Nat \ {0}, d.size \in Nat \ {0},
           a.ptr + a.size <= d.ptr \/ d.ptr + d.size <= a.ptr
    PROVE  Promise!Bytes(a) \cap Promise!Bytes(d) = {} /\ a.ptr # d.ptr /\ a # d
  BY DEF Promise!Bytes

(* Allocations of regions that do not overlap do not overlap.              *)
LEMMA BlocksApart ==
    ASSUME NEW b \in Base, NEW q, Sound(q), NEW a \in Blocks(b, q),
           NEW c \in Base, NEW r, Sound(r), NEW d \in Blocks(c, r),
           b + q.size <= c \/ c + r.size <= b
    PROVE  Promise!Bytes(a) \cap Promise!Bytes(d) = {} /\ a.ptr # d.ptr /\ a # d
<1>1. /\ a.ptr \in Nat /\ a.size \in Nat \ {0} /\ q.size \in Nat
      /\ b <= a.ptr /\ a.ptr + a.size <= b + q.size
  BY BlockInside
<1>2. /\ d.ptr \in Nat /\ d.size \in Nat \ {0} /\ r.size \in Nat
      /\ c <= d.ptr /\ d.ptr + d.size <= c + r.size
  BY BlockInside
<1>3. b \in Nat /\ c \in Nat
  BY BaseNat
<1>4. a.ptr + a.size <= d.ptr \/ d.ptr + d.size <= a.ptr
  BY <1>1, <1>2, <1>3
<1> QED
  BY <1>1, <1>2, <1>4, After

(* The regions on record are sound, and apart while the allocator is open. *)
LEMMA RegionsSound ==
    ASSUME IInv
    PROVE  /\ \A b \in Base : Sound(regions[b])
           /\ life = "open" => \A b, c \in Regions : b # c =>
                 b + regions[b].size <= c \/ c + regions[c].size <= b
<1>1. \A b \in Base : Sound(regions[b])
  <2> SUFFICES ASSUME NEW b \in Base PROVE Sound(regions[b])
    OBVIOUS
  <2>1. regions[b] \in Region
    BY DEF IInv, TypeOK
  <2>2. regions[b] # NoRegion => b \in Regions
    BY DEF Regions
  <2> QED
    BY <2>1, <2>2 DEF IInv, Shapes, SlotsExact, Exact, Sound
<1>2. ASSUME life = "open", NEW b \in Regions, NEW c \in Regions, b # c
      PROVE  b + regions[b].size <= c \/ c + regions[c].size <= b
  <2>1. b \in Held /\ c \in Held /\ held[b].size = regions[b].size /\ held[c].size = regions[c].size
    BY <1>2, Matching DEF Regions
  <2>2. b \in Nat /\ c \in Nat
    BY BaseNat DEF Regions
  <2>3. b < c \/ c < b
    BY <1>2, <2>2
  <2> QED
    BY <2>1, <2>3 DEF IInv, Apart
<1> QED
  BY <1>1, <1>2

(* A slot taken is one more allocation, apart from the others of its slab. *)
LEMMA TakenBlocks ==
    ASSUME NEW b \in Base, NEW r, Sound(r), r # NoRegion, r.obj # 0, r.free # <<>>
    PROVE  LET a == [ptr |-> b + Last(r.free) * r.obj, size |-> r.obj]
           IN  /\ Blocks(b, Taken(r)) = Blocks(b, r) \cup {a}
               /\ a \notin Blocks(b, r) /\ a \in Blocks(b, Taken(r))
               /\ \A d \in Blocks(b, r) : Promise!Bytes(d) \cap Promise!Bytes(a) = {}
<1>1. /\ r \in Region /\ Exact(r) /\ Shape(r)
      /\ Taken(r).size = r.size /\ Taken(r).obj = r.obj
      /\ Last(r.free) \in Slots(r) \ r.busy
      /\ Taken(r).busy = r.busy \cup {Last(r.free)}
  BY SlotTaken DEF Sound
<1>2. PICK k : k = Last(r.free)
  OBVIOUS
<1>3. PICK a : a = [ptr |-> b + k * r.obj, size |-> r.obj]
  OBVIOUS
<1>4. Taken(r) # NoRegion
  BY <1>1, NoRegionType
<1>5. Blocks(b, Taken(r)) = {[ptr |-> b + s * r.obj, size |-> r.obj] : s \in r.busy \cup {k}}
  BY <1>1, <1>2, <1>4 DEF Blocks
<1>6. Blocks(b, r) = {[ptr |-> b + s * r.obj, size |-> r.obj] : s \in r.busy}
  BY DEF Blocks
<1>7. Blocks(b, Taken(r)) = Blocks(b, r) \cup {a}
  BY <1>3, <1>5, <1>6
<1>8. ASSUME NEW d \in Blocks(b, r)
      PROVE  Promise!Bytes(d) \cap Promise!Bytes(a) = {} /\ d # a
  <2>1. PICK s \in r.busy : d = [ptr |-> b + s * r.obj, size |-> r.obj]
    BY <1>6
  <2>2. r.size \in Nat /\ r.obj \in Nat \ {0} /\ b \in Nat
    BY <1>1, ObjType, BaseNat DEF Region
  <2>3. /\ s \in 0 .. (r.size \div r.obj) - 1 /\ k \in 0 .. (r.size \div r.obj) - 1
        /\ s # k
    BY <1>1, <1>2 DEF Exact, Slots
  <2>4. s \in Nat /\ k \in Nat /\ s * r.obj \in Nat /\ k * r.obj \in Nat
    BY <2>2, <2>3, SlotInside
  <2>5. s * r.obj + r.obj <= k * r.obj \/ k * r.obj + r.obj <= s * r.obj
    <3>1. s < k \/ k < s
      BY <2>3, <2>4
    <3> QED
      BY <3>1, <2>2, <2>4, Pieces
  <2>6. d.ptr = b + s * r.obj /\ d.size = r.obj /\ a.ptr = b + k * r.obj /\ a.size = r.obj
    BY <2>1, <1>3
  <2>7. PICK i \in Nat, j \in Nat : i = s * r.obj /\ j = k * r.obj
    BY <2>4
  <2>8. /\ d.ptr \in Nat /\ a.ptr \in Nat /\ d.size \in Nat \ {0} /\ a.size \in Nat \ {0}
        /\ d.ptr + d.size <= a.ptr \/ a.ptr + a.size <= d.ptr
    <3>1. d.ptr = b + i /\ d.size = r.obj /\ a.ptr = b + j /\ a.size = r.obj
      BY <2>6, <2>7
    <3>2. i + r.obj <= j \/ j + r.obj <= i
      BY <2>5, <2>7
    <3> QED
      BY <2>2, <3>1, <3>2
  <2> QED
    BY <2>8, After
<1> QED
  BY <1>2, <1>3, <1>7, <1>8

(* A slot given back is one allocation less.                               *)
LEMMA FreedBlocks ==
    ASSUME NEW b \in Base, NEW r, Sound(r), r # NoRegion, r.obj # 0, NEW k \in r.busy
    PROVE  LET a == [ptr |-> b + k * r.obj, size |-> r.obj]
           IN  /\ Blocks(b, Freed(r, k)) = Blocks(b, r) \ {a}
               /\ a \in Blocks(b, r)
<1>1. /\ r \in Region /\ Exact(r) /\ Shape(r)
      /\ Freed(r, k).size = r.size /\ Freed(r, k).obj = r.obj
      /\ Freed(r, k).busy = r.busy \ {k}
  BY SlotFreed DEF Sound
<1>2. Freed(r, k) # NoRegion
  BY <1>1, NoRegionType
<1>3. Blocks(b, Freed(r, k)) = {[ptr |-> b + s * r.obj, size |-> r.obj] : s \in r.busy \ {k}}
  BY <1>1, <1>2 DEF Blocks
<1>4. Blocks(b, r) = {[ptr |-> b + s * r.obj, size |-> r.obj] : s \in r.busy}
  BY DEF Blocks
<1>5. ASSUME NEW s \in r.busy, s # k
      PROVE  [ptr |-> b + s * r.obj, size |-> r.obj] # [ptr |-> b + k * r.obj, size |-> r.obj]
  <2>1. r.size \in Nat /\ r.obj \in Nat \ {0} /\ b \in Nat
    BY <1>1, ObjType, BaseNat DEF Region
  <2>2. s \in 0 .. (r.size \div r.obj) - 1 /\ k \in 0 .. (r.size \div r.obj) - 1
    BY <1>1 DEF Exact, Slots
  <2>3. s \in Nat /\ k \in Nat /\ s * r.obj \in Nat /\ k * r.obj \in Nat
    BY <2>1, <2>2, SlotInside
  <2>4. s * r.obj + r.obj <= k * r.obj \/ k * r.obj + r.obj <= s * r.obj
    <3>1. s < k \/ k < s
      BY <1>5, <2>3
    <3> QED
      BY <3>1, <2>1, <2>3, Pieces
  <2>5. PICK i \in Nat, j \in Nat : i = s * r.obj /\ j = k * r.obj
    BY <2>3
  <2>6. b + i # b + j
    BY <2>1, <2>4, <2>5
  <2> QED
    BY <2>5, <2>6
<1> QED
  BY <1>3, <1>4, <1>5

-----------------------------------------------------------------------------
(* The promise of Heap, call by call.                                      *)

(* The same regions have the same allocations.                             *)
LEMMA SameLive == UNCHANGED regions => Live' = Live
  BY DEF Live, Regions

(* One allocation more, clear of the others.                               *)
LEMMA Granted ==
    ASSUME IInv, life = "open", NEW n \in Request, NEW b \in Base, NEW r, Sound(r),
           regions' = [regions EXCEPT ![b] = r],
           NEW a, a \in Blocks(b, r), Blocks(b, r) = Blocks(b, regions[b]) \cup {a},
           a \notin Blocks(b, regions[b]),
           \A d \in Blocks(b, regions[b]) : Promise!Bytes(d) \cap Promise!Bytes(a) = {},
           \A c \in Regions \ {b} : b + r.size <= c \/ c + regions[c].size <= b,
           a.size >= n, life' = life,
           last' = [call |-> "alloc", ptr |-> a.ptr, size |-> n, status |-> "Ok"]
    PROVE  Promise!Alloc(n)
<1>1. \A x : x \in Live <=> \E c \in Base : x \in Blocks(c, regions[c])
  BY LiveBlocks DEF IInv, Collected
<1>2. \A x : x \in Live' <=> x \in Blocks(b, r) \/ \E c \in Base \ {b} : x \in Blocks(c, regions[c])
  BY LiveSet
<1>3. ASSUME NEW c \in Base \ {b}, NEW d \in Blocks(c, regions[c])
      PROVE  Promise!Bytes(d) \cap Promise!Bytes(a) = {} /\ d # a
  <2>1. Sound(regions[c])
    BY RegionsSound
  <2>2. c \in Regions
    BY <1>3, <2>1, BlockInside DEF Regions
  <2>3. c + regions[c].size <= b \/ b + r.size <= c
    BY <2>2
  <2> QED
    BY <2>1, <2>3, <1>3, BlocksApart
<1>4. \A d \in Live : Promise!Bytes(d) \cap Promise!Bytes(a) = {} /\ d # a
  BY <1>1, <1>3
<1>5. Live' = Live \cup {a}
  <2>1. \A x : x \in Live' <=> x \in Live \cup {a}
    BY <1>1, <1>2
  <2> QED
    BY <2>1
<1>6. a \in Live' \ Live
  BY <1>4, <1>5
<1>7. Promise!Result("alloc", a.ptr, n, "Ok")
  BY DEF Promise!Result
<1> QED
  BY <1>4, <1>5, <1>6, <1>7 DEF Promise!Alloc

(* One allocation less.                                                    *)
LEMMA TakenBack ==
    ASSUME IInv, life = "open", NEW b \in Base, NEW r, Sound(r),
           regions' = [regions EXCEPT ![b] = r],
           NEW a \in Blocks(b, regions[b]), Blocks(b, r) = Blocks(b, regions[b]) \ {a}
    PROVE  a \in Live /\ Live' = Live \ {a}
<1>1. \A x : x \in Live <=> \E c \in Base : x \in Blocks(c, regions[c])
  BY LiveBlocks DEF IInv, Collected
<1>2. \A x : x \in Live' <=> x \in Blocks(b, r) \/ \E c \in Base \ {b} : x \in Blocks(c, regions[c])
  BY LiveSet
<1>3. ASSUME NEW c \in Base \ {b} PROVE a \notin Blocks(c, regions[c])
  <2> SUFFICES ASSUME a \in Blocks(c, regions[c]) PROVE FALSE
    OBVIOUS
  <2>1. Sound(regions[c]) /\ Sound(regions[b])
    BY RegionsSound
  <2>2. c \in Regions /\ b \in Regions /\ b # c
    BY <2>1, BlockInside DEF Regions
  <2>3. b + regions[b].size <= c \/ c + regions[c].size <= b
    BY <2>2, RegionsSound
  <2> QED
    BY <2>1, <2>3, BlocksApart
<1>4. \A x : x \in Live' <=> x \in Live \ {a}
  BY <1>1, <1>2, <1>3
<1> QED
  BY <1>1, <1>4

(* free takes every allocation, so what it refuses is none.                *)
LEMMA LiveGood ==
    ASSUME IInv, life = "open", NEW a \in Live
    PROVE  Good(a.ptr)
<1>1. PICK b \in Base : a \in Blocks(b, regions[b])
  BY LiveBlocks DEF IInv, Collected
<1>2. PICK r : r = regions[b]
  OBVIOUS
<1>3. PICK p : p = a.ptr
  OBVIOUS
<1>4. Sound(r) /\ r \in Region
  BY <1>2, RegionsSound DEF Sound
<1>5. /\ p \in Nat /\ a.size \in Nat \ {0}
      /\ b <= p /\ p + a.size <= b + r.size
      /\ r # NoRegion /\ r.size \in Nat
  BY <1>1, <1>2, <1>3, <1>4, BlockInside
<1>6. b \in Regions /\ b \in Nat
  BY <1>2, <1>5, BaseNat DEF Regions
<1>7. ASSUME NEW c \in Regions, c <= p PROVE c <= b
  <2> SUFFICES ASSUME c # b PROVE c <= b
    BY <1>6
  <2>1. b + r.size <= c \/ c + regions[c].size <= b
    BY <1>2, <1>6, RegionsSound
  <2>2. c \in Nat /\ regions[c].size \in Nat
    BY BaseNat, Matching DEF Regions
  <2> QED
    BY <2>1, <2>2, <1>5, <1>6, <1>7
<1>8. Covers(b, p)
  BY <1>2, <1>5, <1>6, <1>7 DEF Covers
<1>9. RegionOf(p) = b
  <2>1. \A c \in Regions : Covers(c, p) => c = b
    <3> SUFFICES ASSUME NEW c \in Regions, Covers(c, p) PROVE c = b
      OBVIOUS
    <3>1. c <= p /\ b <= c
      BY <1>5, <1>6 DEF Covers
    <3>2. c <= b /\ c \in Nat
      BY <3>1, <1>7, BaseNat DEF Regions
    <3> QED
      BY <3>1, <3>2, <1>6
  <2> QED
    BY <2>1, <1>6, <1>8 DEF RegionOf
<1>10. Found(p)
  BY <1>6, <1>8 DEF Found
<1>11. CASE r.obj = 0
  <2>1. a = [ptr |-> b, size |-> r.size]
    BY <1>1, <1>2, <1>5, <1>11 DEF Blocks
  <2>2. p = b
    BY <2>1, <1>3
  <2> QED
    BY <2>2, <1>2, <1>3, <1>9, <1>10, <1>11 DEF Good
<1>12. CASE r.obj # 0
  <2>1. PICK s \in r.busy : a = [ptr |-> b + s * r.obj, size |-> r.obj]
    BY <1>1, <1>2, <1>5, <1>12 DEF Blocks
  <2>2. r.obj \in Nat \ {0} /\ s \in Nat
    BY <1>4, <1>5, <1>12, ObjType, BusyFinite DEF Sound, Region
  <2>3. p = b + s * r.obj
    BY <2>1, <1>3
  <2>4. s * r.obj \in Nat /\ (s * r.obj) \div r.obj = s /\ (s * r.obj) % r.obj = 0
    BY <2>2, Multiple
  <2>5. p - b = s * r.obj
    <3>1. PICK m \in Nat : m = s * r.obj
      BY <2>4
    <3>2. p - b = m
      BY <3>1, <2>3, <1>6
    <3> QED
      BY <3>1, <3>2
  <2>6. (p - b) % r.obj = 0 /\ (p - b) \div r.obj \in r.busy
    BY <2>1, <2>4, <2>5
  <2> QED
    BY <2>6, <1>2, <1>3, <1>9, <1>10, <1>12 DEF Good
<1> QED
  BY <1>11, <1>12

(* A new large region is one allocation.                                   *)
LEMMA AllocLargeHeap ==
    ASSUME IInv, life = "open", NEW n \in Request, AllocLarge(n)
    PROVE  Promise!Next
<1>1. ASSUME NEW s \in {"NoMemory", "Fatal"}, Fails("alloc", 0, n, s) PROVE Promise!Next
  <2>1. /\ UNCHANGED <<regions, partial, service>>
        /\ last' = [call |-> "alloc", ptr |-> 0, size |-> n, status |-> s]
        /\ life' = IF s = "Fatal" THEN "dead" ELSE life
    BY <1>1, FailsChanges
  <2>2. Live' = Live
    BY <2>1, SameLive
  <2>3. CASE s = "NoMemory"
    BY <2>1, <2>2, <2>3 DEF Promise!Next, Promise!AllocNull, Promise!Result
  <2>4. CASE s = "Fatal"
    BY <2>1, <2>2, <2>4 DEF Promise!Next, Promise!Die
  <2> QED
    BY <2>3, <2>4
<1>2. ASSUME NEW b \in Base, NEW l \in Loc,
             Created(b, RoundUp(n), l),
             regions' = [regions EXCEPT ![b] = NewRegion(RoundUp(n), l, 0)],
             Result("alloc", b, n, "Ok"),
             UNCHANGED <<partial, life>>
      PROVE  Promise!Alloc(n)
  <2>1. RoundUp(n) \in Nat \ {0} /\ RoundUp(n) >= n
    BY Rounded, AllocatorAssumption
  <2>2. PICK size \in Nat \ {0} : size = RoundUp(n) /\ size >= n
    BY <2>1
  <2>3. PICK r : r = NewRegion(size, l, 0)
    OBVIOUS
  <2>4. /\ r \in Region /\ r.free = <<>> /\ r.busy = {}
        /\ r.size = size /\ r.loc = l /\ r.obj = 0
    BY <2>3, NewLarge
  <2>5. r # NoRegion /\ Sound(r)
    BY <2>4, NoRegionType DEF Sound, Shape
  <2>6. regions' = [regions EXCEPT ![b] = r]
    BY <1>2, <2>2, <2>3
  <2>7. Fits(b, size)
    BY <1>2, <2>2 DEF Created
  <2>8. /\ b \notin Regions
        /\ \A c \in Regions : b < c => b + size <= c
        /\ \A c \in Regions : c < b => c + regions[c].size <= b
    BY <2>7, Clear
  <2>9. \A c \in Regions \ {b} : b + r.size <= c \/ c + regions[c].size <= b
    <3> SUFFICES ASSUME NEW c \in Regions \ {b}
                 PROVE  b + r.size <= c \/ c + regions[c].size <= b
      OBVIOUS
    <3>1. b < c \/ c < b
      BY BaseNat DEF Regions
    <3> QED
      BY <3>1, <2>4, <2>8
  <2>10. PICK a : a = [ptr |-> b, size |-> size]
    OBVIOUS
  <2>11. Blocks(b, regions[b]) = {} /\ Blocks(b, r) = {a}
    BY <2>4, <2>5, <2>8, <2>10 DEF Blocks, Regions
  <2>12. a.ptr = b /\ a.size = size
    BY <2>10
  <2>13. last' = [call |-> "alloc", ptr |-> a.ptr, size |-> n, status |-> "Ok"] /\ life' = life
    BY <1>2, <2>12 DEF Result
  <2> QED
    BY <2>2, <2>5, <2>6, <2>9, <2>11, <2>12, <2>13, Granted
<1> QED
  BY <1>1, <1>2 DEF AllocLarge, Promise!Next

(* A slot taken is one allocation.                                         *)
LEMMA TakeSlotHeap ==
    ASSUME IInv, life = "open", NEW n \in Request, NEW b \in Base, NEW r, NEW parts,
           Sound(r), r # NoRegion, r.obj # 0, r.free # <<>>, r.obj >= n,
           TakeSlot(b, r, parts, n), life' = life,
           Blocks(b, r) = Blocks(b, regions[b]),
           \A c \in Regions \ {b} : b + r.size <= c \/ c + regions[c].size <= b
    PROVE  Promise!Alloc(n)
<1>1. PICK a : a = [ptr |-> b + Last(r.free) * r.obj, size |-> r.obj]
  OBVIOUS
<1>2. PICK t : t = Taken(r)
  OBVIOUS
<1>3. /\ Blocks(b, t) = Blocks(b, r) \cup {a}
      /\ a \notin Blocks(b, r) /\ a \in Blocks(b, t)
      /\ \A d \in Blocks(b, r) : Promise!Bytes(d) \cap Promise!Bytes(a) = {}
  BY <1>1, <1>2, TakenBlocks
<1>4. /\ t \in Region /\ Exact(t) /\ t.size = r.size /\ t.obj = r.obj
  BY <1>2, SlotTaken DEF Sound
<1>5. Sound(t)
  BY <1>4 DEF Sound, Shape
<1>6. regions' = [regions EXCEPT ![b] = t]
      /\ last' = [call |-> "alloc", ptr |-> b + Last(r.free) * r.obj, size |-> n, status |-> "Ok"]
  BY <1>2 DEF TakeSlot, Result
<1>7. a.ptr = b + Last(r.free) * r.obj /\ a.size = r.obj
  BY <1>1
<1>8. last' = [call |-> "alloc", ptr |-> a.ptr, size |-> n, status |-> "Ok"]
  BY <1>6, <1>7
<1> QED
  BY <1>3, <1>4, <1>5, <1>6, <1>7, <1>8, Granted

(* alloc of a small object.                                                *)
LEMMA AllocSmallHeap ==
    ASSUME IInv, life = "open", NEW n \in Request, AllocSmall(n)
    PROVE  Promise!Next
<1>1. PICK obj \in Obj : obj = ObjOf(n) /\ n <= obj
  BY ObjType DEF AllocSmall
<1>2. obj \in Nat \ {0} /\ n \in Nat /\ obj >= n /\ SmallChunk \in Nat \ {0}
  BY <1>1, ObjType, AllocatorAssumption
<1>3. CASE /\ partial[obj] # {}
           /\ LET b == Min(partial[obj]) IN TakeSlot(b, regions[b], partial[obj], n)
           /\ UNCHANGED <<life, service>>
  <2>1. partial[obj] \subseteq Nat
    BY BaseNat DEF IInv, TypeOK
  <2>2. PICK b \in partial[obj] : TakeSlot(b, regions[b], partial[obj], n)
    BY <1>3, <2>1, MinNat
  <2>3. b \in Base /\ b \in Regions /\ regions[b].obj = obj /\ regions[b].free # <<>>
    BY <2>2 DEF IInv, PartialExact, Regions
  <2>4. regions[b] # NoRegion /\ Sound(regions[b])
    BY <2>3, RegionsSound DEF Regions
  <2>5. \A c \in Regions \ {b} : b + regions[b].size <= c \/ c + regions[c].size <= b
    BY <2>3, RegionsSound
  <2>6. Promise!Alloc(n)
    BY <1>2, <1>3, <2>2, <2>3, <2>4, <2>5, TakeSlotHeap
  <2> QED
    BY <2>6 DEF Promise!Next
<1>4. ASSUME NEW b \in Base, NEW l \in Loc,
             Created(b, SmallChunk, l),
             TakeSlot(b, NewRegion(SmallChunk, l, obj), {b}, n),
             life' = life
      PROVE  Promise!Next
  <2>1. PICK r : r = NewRegion(SmallChunk, l, obj)
    OBVIOUS
  <2>2. /\ r \in Region /\ Exact(r) /\ r.free # <<>>
        /\ r.size = SmallChunk /\ r.loc = l /\ r.obj = obj /\ r.obj # 0 /\ r.busy = {}
    BY <2>1, NewSlab
  <2>3. r # NoRegion /\ Sound(r)
    BY <1>2, <2>2, ObjType, NoRegionType DEF Sound, Shape
  <2>4. Fits(b, SmallChunk)
    BY <1>4 DEF Created
  <2>5. /\ b \notin Regions
        /\ \A c \in Regions : b < c => b + SmallChunk <= c
        /\ \A c \in Regions : c < b => c + regions[c].size <= b
    BY <1>2, <2>4, Clear
  <2>6. \A c \in Regions \ {b} : b + r.size <= c \/ c + regions[c].size <= b
    <3> SUFFICES ASSUME NEW c \in Regions \ {b}
                 PROVE  b + r.size <= c \/ c + regions[c].size <= b
      OBVIOUS
    <3>1. b < c \/ c < b
      BY BaseNat DEF Regions
    <3> QED
      BY <3>1, <2>2, <2>5
  <2>7. Blocks(b, regions[b]) = {} /\ Blocks(b, r) = {}
    BY <2>2, <2>3, <2>5 DEF Blocks, Regions
  <2>8. TakeSlot(b, r, {b}, n)
    BY <1>4, <2>1
  <2>9. Promise!Alloc(n)
    BY <1>2, <1>4, <2>2, <2>3, <2>6, <2>7, <2>8, TakeSlotHeap
  <2> QED
    BY <2>9 DEF Promise!Next
<1>5. ASSUME NEW s \in {"NoMemory", "Fatal"}, Fails("alloc", 0, n, s) PROVE Promise!Next
  <2>1. /\ UNCHANGED <<regions, partial, service>>
        /\ last' = [call |-> "alloc", ptr |-> 0, size |-> n, status |-> s]
        /\ life' = IF s = "Fatal" THEN "dead" ELSE life
    BY <1>5, FailsChanges
  <2>2. Live' = Live
    BY <2>1, SameLive
  <2>3. CASE s = "NoMemory"
    BY <2>1, <2>2, <2>3 DEF Promise!Next, Promise!AllocNull, Promise!Result
  <2>4. CASE s = "Fatal"
    BY <2>1, <2>2, <2>4 DEF Promise!Next, Promise!Die
  <2> QED
    BY <2>3, <2>4
<1> QED
  BY <1>1, <1>3, <1>4, <1>5 DEF AllocSmall

(* A pointer that is refused is no allocation.                             *)
LEMMA FreeBadHeap ==
    ASSUME IInv, life = "open", NEW p \in Address, FreeBad(p)
    PROVE  Promise!Next
<1>1. /\ UNCHANGED <<regions, partial, service>>
      /\ last' = [call |-> "free", ptr |-> p, size |-> 0, status |-> "Unsupported"]
      /\ life' = life
  BY FailsChanges DEF FreeBad
<1>2. Live' = Live
  BY <1>1, SameLive
<1>3. p \notin {a.ptr : a \in Live}
  <2> SUFFICES ASSUME NEW a \in Live, p = a.ptr PROVE FALSE
    OBVIOUS
  <2> QED
    BY LiveGood DEF FreeBad
<1>4. last'.ptr = p
  BY <1>1
<1>5. Promise!Misuse(p)
  BY <1>1, <1>2, <1>3 DEF Promise!Misuse, Promise!Result
<1> QED
  BY <1>4, <1>5 DEF Promise!Next

(* A slot that comes back is the allocation freed and no other.            *)
LEMMA FreeSlotHeap ==
    ASSUME IInv, life = "open", NEW p \in Address, FreeSlot(p)
    PROVE  Promise!Next
<1>1. TypeOK /\ SlotsExact
  BY DEF IInv
<1>2. PICK b \in Base : b = RegionOf(p) /\ b \in Regions
  BY <1>1, GoodPlace DEF FreeSlot
<1>3. PICK r \in Region : r = regions[b]
  BY <1>1, <1>2 DEF TypeOK
<1>4. /\ r.obj # 0
      /\ regions' = [regions EXCEPT ![b] = Returned(b, p)]
      /\ life' = life /\ last' = [call |-> "free", ptr |-> p, size |-> 0, status |-> "Ok"]
  BY <1>2, <1>3 DEF FreeSlot, Result
<1>5. PICK k \in r.busy : p = b + k * r.obj /\ Returned(b, p) = Freed(r, k)
  BY <1>1, <1>2, <1>3, <1>4, GoodPlace DEF FreeSlot
<1>6. r # NoRegion /\ Sound(r)
  BY <1>2, <1>3, RegionsSound DEF Regions
<1>7. PICK t : t = Freed(r, k)
  OBVIOUS
<1>8. t \in Region /\ Exact(t) /\ t.size = r.size /\ t.obj = r.obj
  BY <1>4, <1>6, <1>7, SlotFreed DEF Sound
<1>9. Sound(t)
  BY <1>4, <1>6, <1>8 DEF Sound, Shape
<1>10. PICK a : a = [ptr |-> b + k * r.obj, size |-> r.obj]
  OBVIOUS
<1>11. Blocks(b, t) = Blocks(b, regions[b]) \ {a} /\ a \in Blocks(b, regions[b])
  BY <1>3, <1>4, <1>6, <1>7, <1>10, FreedBlocks
<1>12. regions' = [regions EXCEPT ![b] = t]
  BY <1>4, <1>5, <1>7
<1>13. a \in Live /\ Live' = Live \ {a}
  BY <1>9, <1>11, <1>12, TakenBack
<1>14. a.ptr = p
  BY <1>5, <1>10
<1>15. Promise!Free(a)
  BY <1>4, <1>13, <1>14 DEF Promise!Free, Promise!Result
<1> QED
  BY <1>13, <1>15 DEF Promise!Next

(* The last allocation of a region goes with it; when the backend fails it *)
(* may have stayed.                                                        *)
LEMMA FreeRegionHeap ==
    ASSUME IInv, life = "open", NEW p \in Address, FreeRegion(p)
    PROVE  Promise!Next
<1>1. TypeOK /\ SlotsExact
  BY DEF IInv
<1>2. PICK b \in Base : b = RegionOf(p) /\ b \in Regions
  BY <1>1, GoodPlace DEF FreeRegion
<1>3. PICK r \in Region : r = regions[b]
  BY <1>1, <1>2 DEF TypeOK
<1>4. r # NoRegion /\ Sound(r) /\ Sound(NoRegion)
  BY <1>2, <1>3, RegionsSound, NoRegionType DEF Regions, Sound
<1>5. r.obj # 0 => r.used = 1
  BY <1>2, <1>3 DEF FreeRegion
<1>6. Blocks(b, NoRegion) = {}
  BY DEF Blocks
<1>7. \E a : /\ a.ptr = p /\ Blocks(b, r) = {a}
             /\ \/ Returned(b, p) = r
                \/ Sound(Returned(b, p)) /\ Blocks(b, Returned(b, p)) = {}
  <2>1. CASE r.obj = 0
    <3>1. p = b /\ Returned(b, p) = r
      BY <2>1, <1>1, <1>2, <1>3, GoodPlace DEF FreeRegion
    <3>2. PICK a : a = [ptr |-> b, size |-> r.size]
      OBVIOUS
    <3>3. Blocks(b, r) = {a} /\ a.ptr = p
      BY <2>1, <1>4, <3>1, <3>2 DEF Blocks
    <3> QED
      BY <3>1, <3>3
  <2>2. CASE r.obj # 0
    <3>1. PICK k \in r.busy : p = b + k * r.obj /\ Returned(b, p) = Freed(r, k)
      BY <2>2, <1>1, <1>2, <1>3, GoodPlace DEF FreeRegion
    <3>2. PICK t : t = Freed(r, k)
      OBVIOUS
    <3>3. /\ t \in Region /\ Exact(t) /\ t.size = r.size /\ t.obj = r.obj
          /\ r.busy = {k}
      BY <2>2, <3>2, <1>4, <1>5, SlotFreed DEF Sound
    <3>4. Sound(t)
      BY <2>2, <3>3, <1>4 DEF Sound, Shape
    <3>5. PICK a : a = [ptr |-> b + k * r.obj, size |-> r.obj]
      OBVIOUS
    <3>6. Blocks(b, r) = {a}
      BY <2>2, <3>3, <3>5, <1>4 DEF Blocks
    <3>7. Blocks(b, t) = {}
      BY <2>2, <3>2, <3>5, <3>6, <1>4, FreedBlocks
    <3>8. a.ptr = p
      BY <3>1, <3>5
    <3> QED
      BY <3>1, <3>2, <3>4, <3>6, <3>7, <3>8
  <2> QED
    BY <2>1, <2>2
<1>8. PICK a : /\ a.ptr = p /\ Blocks(b, r) = {a}
               /\ \/ Returned(b, p) = r
                  \/ Sound(Returned(b, p)) /\ Blocks(b, Returned(b, p)) = {}
  BY <1>7
<1>9. a \in Blocks(b, regions[b]) /\ Blocks(b, regions[b]) \ {a} = {}
  BY <1>3, <1>8
<1>10. CASE /\ regions' = [regions EXCEPT ![b] = NoRegion]
            /\ Result("free", p, 0, "Ok")
            /\ UNCHANGED life
  <2>1. a \in Live /\ Live' = Live \ {a}
    BY <1>4, <1>6, <1>9, <1>10, TakenBack
  <2>2. Promise!Free(a)
    BY <2>1, <1>8, <1>10 DEF Promise!Free, Promise!Result, Result
  <2> QED
    BY <2>1, <2>2 DEF Promise!Next
<1>11. CASE /\ regions' = [regions EXCEPT ![b] = NoRegion]
            /\ Result("free", p, 0, "Fatal")
            /\ life' = "dead"
  <2>1. a \in Live /\ Live' = Live \ {a}
    BY <1>4, <1>6, <1>9, <1>11, TakenBack
  <2>2. last'.status = "Fatal" /\ last'.call = "free" /\ last'.ptr = a.ptr
    BY <1>8, <1>11 DEF Result
  <2> QED
    BY <2>1, <2>2, <1>11 DEF Promise!Next, Promise!Die
<1>12. CASE /\ regions' = [regions EXCEPT ![b] = Returned(b, p)]
            /\ Result("free", p, 0, "Fatal")
            /\ life' = "dead"
  <2>1. last'.status = "Fatal" /\ last'.call = "free" /\ last'.ptr = a.ptr
    BY <1>8, <1>12 DEF Result
  <2>2. CASE Returned(b, p) = r
    <3>1. regions' = regions
      BY <2>2, <1>1, <1>2, <1>3, <1>12 DEF TypeOK
    <3>2. Live' = Live
      BY <3>1, SameLive
    <3> QED
      BY <3>2, <2>1, <1>12 DEF Promise!Next, Promise!Die
  <2>3. CASE Sound(Returned(b, p)) /\ Blocks(b, Returned(b, p)) = {}
    <3>1. a \in Live /\ Live' = Live \ {a}
      BY <2>3, <1>9, <1>12, TakenBack
    <3> QED
      BY <3>1, <2>1, <1>12 DEF Promise!Next, Promise!Die
  <2> QED
    BY <2>2, <2>3, <1>8
<1> QED
  BY <1>2, <1>3, <1>10, <1>11, <1>12 DEF FreeRegion

(* A hint moves no allocation of the application.                          *)
LEMMA MoveHeap ==
    ASSUME IInv, life = "open", NEW p \in Address, NEW to \in Loc, MoveTo(p, to)
    PROVE  Promise!Next
<1>1. ASSUME NEW s, Fails("move", p, 0, s) PROVE Promise!Next
  <2>1. /\ UNCHANGED <<regions, partial, service>>
        /\ last' = [call |-> "move", ptr |-> p, size |-> 0, status |-> s]
        /\ life' = IF s = "Fatal" THEN "dead" ELSE life
    BY <1>1, FailsChanges
  <2>2. Live' = Live /\ last'.call = "move" /\ last'.status = s
    BY <2>1, SameLive
  <2>3. CASE s = "Fatal"
    BY <2>1, <2>2, <2>3 DEF Promise!Next, Promise!Die
  <2>4. CASE s # "Fatal"
    BY <2>1, <2>2, <2>4 DEF Promise!Next, Promise!Hint
  <2> QED
    BY <2>3, <2>4
<1>2. CASE /\ Movable(p)
           /\ regions' = [regions EXCEPT ![RegionOf(p)].loc = to]
           /\ Result("move", p, 0, "Ok")
           /\ UNCHANGED <<partial, life>>
  <2>1. PICK b \in Regions : b = RegionOf(p) /\ regions[b].obj = 0
    BY <1>2 DEF Movable, Found, RegionOf
  <2>2. b \in Base /\ Shapes /\ regions \in [Base -> Region]
    BY DEF Regions, IInv, TypeOK
  <2>3. PICK r \in Region : r = regions[b]
    BY <2>2
  <2>4. PICK t : t = [r EXCEPT !.loc = to]
    OBVIOUS
  <2>5. t.size = r.size /\ t.obj = r.obj /\ t.free = r.free /\ t.busy = r.busy /\ t \in Region
    <3>1. t.size = r.size /\ t.obj = r.obj /\ t.free = r.free /\ t.busy = r.busy
      BY <2>4 DEF Region
    <3>2. t \in Region
      BY <2>4 DEF Region
    <3> QED
      BY <3>1, <3>2
  <2>6. Sound(r) /\ r # NoRegion /\ r.obj = 0 /\ Shape(r) /\ r.size > 0
    BY <2>1, <2>2, <2>3, RegionsSound DEF Regions, Shapes, Shape
  <2>7. t # NoRegion /\ Sound(t)
    BY <2>5, <2>6, NoRegionType DEF Sound, Shape
  <2>8. regions' = [regions EXCEPT ![b] = t]
    BY <1>2, <2>1, <2>2, <2>3, <2>4
  <2>9. Blocks(b, t) = Blocks(b, regions[b])
    BY <2>3, <2>5, <2>6, <2>7 DEF Blocks
  <2>10. \A x : x \in Live <=> \E c \in Base : x \in Blocks(c, regions[c])
    BY LiveBlocks DEF IInv, Collected
  <2>11. \A x : x \in Live' <=> x \in Blocks(b, t) \/ \E c \in Base \ {b} : x \in Blocks(c, regions[c])
    BY <2>2, <2>7, <2>8, LiveSet
  <2>12. Live' = Live
    <3>1. \A x : x \in Live' <=> x \in Live
      BY <2>2, <2>9, <2>10, <2>11
    <3> QED
      BY <3>1
  <2>13. last'.call = "move"
    BY <1>2 DEF Result
  <2> QED
    BY <1>2, <2>12, <2>13 DEF Promise!Next, Promise!Hint
<1> QED
  BY <1>1, <1>2 DEF MoveTo

(* Without regions there are no allocations.                               *)
LEMMA NoneLive == regions = [b \in Base |-> NoRegion] => Live = {}
  BY DEF Live, Regions

(* Every step is a step of Heap or changes nothing there.                  *)
LEMMA StepHeap ==
    ASSUME IInv, [Next]_vars
    PROVE  [Promise!Next]_<<Live, life, last>>
<1>1. ASSUME life = "open", NEW n \in Request, AllocLarge(n) \/ AllocSmall(n)
      PROVE  Promise!Next
  BY <1>1, AllocLargeHeap, AllocSmallHeap
<1>2. ASSUME life = "open", NEW p \in Address, FreeBad(p) \/ FreeSlot(p) \/ FreeRegion(p)
      PROVE  Promise!Next
  BY <1>2, FreeBadHeap, FreeSlotHeap, FreeRegionHeap
<1>3. ASSUME life = "open", NEW p \in Address, NEW to \in Loc, MoveTo(p, to)
      PROVE  Promise!Next
  BY <1>3, MoveHeap
<1>4. CASE life = "dead" /\ Dead
  <2>1. PICK call, p, n : Fails(call, p, n, "Fatal")
    BY <1>4 DEF Dead
  <2>2. /\ UNCHANGED <<regions, partial, service>>
        /\ last' = [call |-> call, ptr |-> p, size |-> n, status |-> "Fatal"]
        /\ life' = life
    BY <1>4, <2>1, FailsChanges
  <2>3. Live' = Live /\ last'.status = "Fatal"
    BY <2>2, SameLive
  <2> QED
    BY <1>4, <2>2, <2>3 DEF Promise!Next, Promise!Refuse
<1>5. CASE Shutdown
  <2>1. Live' = {}
    <3>1. (regions = [b \in Base |-> NoRegion] => Live = {})'
      BY NoneLive, PTL
    <3> QED
      BY <3>1, <1>5 DEF Shutdown, NoRegion
  <2> QED
    BY <2>1, <1>5 DEF Shutdown, Result, Promise!Next, Promise!Shutdown, Promise!Result
<1>6. CASE Reopen
  <2>1. ASSUME NEW k, NEW s \in OpenFails(k), Result("init", 0, 0, s),
               UNCHANGED <<regions, partial, life, service>>
        PROVE  Promise!Next
    <3>1. Live' = Live /\ life' = life
      BY <2>1, SameLive
    <3>2. s # "Ok"
      BY <2>1 DEF OpenFails
    <3>3. last'.call = "init" /\ last'.status # "Ok"
      BY <2>1, <3>2 DEF Result
    <3> QED
      BY <3>1, <3>3 DEF Promise!Next, Promise!NotOpened
  <2>2. CASE /\ life' = "open" /\ regions' = [b \in Base |-> NoRegion]
             /\ Result("init", 0, 0, "Ok")
    <3>1. Live' = {}
      <4>1. (regions = [b \in Base |-> NoRegion] => Live = {})'
        BY NoneLive, PTL
      <4> QED
        BY <4>1, <2>2 DEF NoRegion
    <3> QED
      BY <3>1, <2>2 DEF Result, Promise!Next, Promise!Reopen, Promise!Result
  <2> QED
    BY <2>1, <2>2, <1>6 DEF Reopen
<1>7. CASE UNCHANGED vars
  BY <1>7, SameLive DEF vars
<1> QED
  BY <1>1, <1>2, <1>3, <1>4, <1>5, <1>6, <1>7 DEF Next

(* At the start nothing is allocated.                                      *)
LEMMA InitHeap == Init => Promise!Init
  BY NoneLive DEF Init, Promise!Init

(* The allocator implements Heap: memory handed out is as large as the     *)
(* call asked and overlaps no other allocation, free takes back its        *)
(* allocation and no other, and a misused pointer changes nothing.         *)
THEOREM HeapKept == Spec => KeepsHeap
<1>1. Init => Promise!Init
  BY InitHeap
<1>2. IInv /\ [Next]_vars => [Promise!Next]_<<Live, life, last>>
  BY StepHeap
<1> QED
  BY <1>1, <1>2, AllocatorInvariant, PTL DEF Spec, KeepsHeap, Promise!Spec
=============================================================================
