-------------------------- MODULE VMMVectorProofs --------------------------
(***************************************************************************)
(* The two vectors, for any elements, chunk size, capacity and retention:  *)
(* the elements are where they were pushed, and the vector whose chunks    *)
(* move is one that does not.                                              *)
(***************************************************************************)
EXTENDS VMMRemapVector, SequenceTheorems, TLAPS

Chunk == [0 .. Fits - 1 -> Value \cup {Garbage}]

\* All but target.
Kept ==
    /\ chunks \in Seq(Chunk) /\ retain \in Retains
    /\ size \in Nat /\ size <= Capacity /\ Capacity <= MaxCapacity
    /\ pushed \in Seq(Value) /\ Len(pushed) = size
    /\ ElementsKept

IInv == Kept /\ target \in 0 .. Capacity

-----------------------------------------------------------------------------
(* Where elements are. *)

(* Position i of n whole chunks is in one of them. *)
LEMMA PlaceIn ==
    ASSUME NEW i \in Nat, NEW n \in Nat, i < n * Fits
    PROVE  i \div Fits + 1 \in 1 .. n /\ i % Fits \in 0 .. Fits - 1
<1>1. Fits \in Nat \ {0}
  BY VectorAssumption
<1>2. i \div Fits \in Nat /\ i % Fits \in 0 .. Fits - 1 /\ i = (i \div Fits) * Fits + (i % Fits)
  BY <1>1
<1>3. \A q \in Nat, r \in 0 .. Fits - 1 : q * Fits + r < n * Fits => q < n
  BY <1>1
<1>4. i \div Fits < n
  BY <1>2, <1>3
<1>5. QED
  BY <1>2, <1>4

(* No two positions have the same place. *)
LEMMA PlaceOf ==
    ASSUME NEW i \in Nat, NEW j \in Nat, i \div Fits = j \div Fits, i % Fits = j % Fits
    PROVE  i = j
<1>1. Fits \in Nat \ {0}
  BY VectorAssumption
<1>2. i = (i \div Fits) * Fits + (i % Fits) /\ j = (j \div Fits) * Fits + (j % Fits)
  BY <1>1
<1>3. QED
  BY <1>2

(* ROUND_UP gives whole chunks, enough for n. *)
LEMMA RoundUpWhole ==
    ASSUME NEW n \in Nat
    PROVE  /\ RoundUp(n) \div Fits \in Nat /\ RoundUp(n) >= n
           /\ (RoundUp(n) \div Fits) * Fits = RoundUp(n)
<1>1. Fits \in Nat \ {0}
  BY VectorAssumption
<1>2. PICK k \in Nat : k = (n + Fits - 1) \div Fits
  BY <1>1
<1>3. n + Fits - 1 = k * Fits + ((n + Fits - 1) % Fits) /\ (n + Fits - 1) % Fits \in 0 .. Fits - 1
  BY <1>1, <1>2
<1>4. k * Fits >= n
  BY <1>1, <1>3
<1>5. (k * Fits) \div Fits = k
  BY <1>1
<1>6. QED
  BY <1>2, <1>4, <1>5 DEF RoundUp

(* More chunks hold no fewer elements. *)
LEMMA MoreHold ==
    ASSUME NEW m \in Nat, NEW n \in Nat
    PROVE  /\ m * Fits \in Nat /\ (m <= n => m * Fits <= n * Fits)
           /\ (m * Fits <= n * Fits => m <= n)
BY VectorAssumption

-----------------------------------------------------------------------------
(* The calls. *)

(* reserve appends new chunks, as many as n elements need. *)
LEMMA ReservedChunks ==
    ASSUME Kept, NEW n \in Nat, Reservable(n)
    PROVE  /\ Reserved(n) \in Seq(Chunk) /\ Len(Reserved(n)) \in Nat /\ Len(Reserved(n)) >= Len(chunks)
           /\ \A k \in 1 .. Len(chunks) : Reserved(n)[k] = chunks[k]
           /\ n <= Len(Reserved(n)) * Fits /\ Len(Reserved(n)) * Fits <= MaxCapacity
<1>1. Len(chunks) \in Nat /\ chunks \in Seq(Chunk) /\ Capacity \in Nat
  BY MoreHold DEF Kept, Capacity
<1>2. CASE n <= Capacity
  BY <1>1, <1>2 DEF Reserved, Kept, Capacity
<1>3. CASE n > Capacity
  <2>1. PICK k \in Nat : k = RoundUp(n) \div Fits
    BY RoundUpWhole
  <2>2. k * Fits = RoundUp(n) /\ RoundUp(n) >= n /\ k * Fits \in Nat
    BY <2>1, RoundUpWhole, MoreHold
  <2>3. RoundUp(n) <= MaxCapacity
    BY <1>1, <1>3 DEF Reservable
  <2>4. k >= Len(chunks)
    BY <1>1, <1>3, <2>2, MoreHold DEF Capacity
  <2>5. PICK s : s = [i \in 1 .. k - Len(chunks) |-> NewChunk]
    OBVIOUS
  <2>6. NewChunk \in Chunk
    BY DEF NewChunk, Chunk
  <2>7. s \in Seq(Chunk) /\ Len(s) = k - Len(chunks)
    BY <1>1, <2>4, <2>5, <2>6
  <2>8. Reserved(n) = chunks \o s
    <3>1. ~(n <= Capacity)
      BY <1>1, <1>3
    <3>2. QED
      BY <2>1, <2>5, <3>1, Zenon DEF Reserved
  <2>9. /\ chunks \o s \in Seq(Chunk) /\ Len(chunks \o s) = k
        /\ \A j \in 1 .. Len(chunks) : (chunks \o s)[j] = chunks[j]
    BY <1>1, <2>4, <2>7
  <2>10. QED
    BY <1>1, <2>2, <2>3, <2>4, <2>8, <2>9
<1>4. QED
  BY <1>1, <1>2, <1>3

(* A write of one element changes no other. *)
LEMMA PutElement ==
    ASSUME NEW cs \in Seq(Chunk), NEW i \in Nat, i < Len(cs) * Fits, NEW v \in Value
    PROVE  /\ Put(cs, i, v) \in Seq(Chunk) /\ Len(Put(cs, i, v)) = Len(cs)
           /\ Put(cs, i, v)[i \div Fits + 1][i % Fits] = v
           /\ \A j \in Nat : j # i /\ j < Len(cs) * Fits =>
                 Put(cs, i, v)[j \div Fits + 1][j % Fits] = cs[j \div Fits + 1][j % Fits]
<1>1. Len(cs) \in Nat
  OBVIOUS
<1>2. PICK q, r : q = i \div Fits + 1 /\ r = i % Fits
  OBVIOUS
<1>3. q \in 1 .. Len(cs) /\ r \in 0 .. Fits - 1
  BY <1>1, <1>2, PlaceIn
<1>4. PICK c : c = [cs[q] EXCEPT ![r] = v]
  OBVIOUS
<1>5. cs[q] \in Chunk
  BY <1>3
<1>6. /\ c \in Chunk /\ c[r] = v
      /\ \A x \in 0 .. Fits - 1 : x # r => c[x] = cs[q][x]
  BY <1>3, <1>4, <1>5 DEF Chunk
<1>7. PICK new : new = [cs EXCEPT ![q] = c]
  OBVIOUS
<1>8. Put(cs, i, v) = new
  BY <1>2, <1>4, <1>7 DEF Put
<1>9. /\ new \in Seq(Chunk) /\ Len(new) = Len(cs) /\ new[q] = c
      /\ \A k \in 1 .. Len(cs) : k # q => new[k] = cs[k]
  BY <1>3, <1>6, <1>7
<1>10. ASSUME NEW j \in Nat, j # i, j < Len(cs) * Fits
       PROVE  new[j \div Fits + 1][j % Fits] = cs[j \div Fits + 1][j % Fits]
  <2>1. PICK qj, rj : qj = j \div Fits + 1 /\ rj = j % Fits
    OBVIOUS
  <2>2. qj \in 1 .. Len(cs) /\ rj \in 0 .. Fits - 1
    BY <1>1, <1>10, <2>1, PlaceIn
  <2>3. qj # q \/ rj # r
    <3> SUFFICES ASSUME qj = q, rj = r PROVE FALSE
      OBVIOUS
    <3>1. i \div Fits \in Int /\ j \div Fits \in Int
      BY VectorAssumption
    <3>2. i \div Fits = j \div Fits /\ i % Fits = j % Fits
      BY <1>2, <2>1, <3>1
    <3>3. QED
      BY <1>10, <3>2, PlaceOf
  <2>4. new[qj][rj] = cs[qj][rj]
    BY <1>6, <1>9, <2>2, <2>3
  <2>5. QED
    BY <2>1, <2>4
<1>11. QED
  BY <1>2, <1>6, <1>8, <1>9, <1>10

(* push_back. *)
LEMMA PushKept ==
    ASSUME Kept, NEW v \in Value, Push(v) PROVE Kept' /\ Len(chunks') >= Len(chunks)
<1>1. /\ chunks \in Seq(Chunk) /\ Len(chunks) \in Nat /\ Capacity \in Nat /\ size \in Nat
      /\ size <= Capacity /\ Len(chunks) * Fits = Capacity
      /\ pushed \in Seq(Value) /\ Len(pushed) = size
  BY MoreHold DEF Kept, Capacity
<1>2. CASE UNCHANGED <<size, chunks, pushed>>
  BY <1>1, <1>2 DEF Push, Kept, Capacity, ElementsKept
<1>3. CASE /\ Reservable(Wanted) /\ chunks' = Put(Reserved(Wanted), size, v)
           /\ size' = size + 1 /\ pushed' = Append(pushed, v)
  <2>1. Wanted \in Nat /\ Wanted > size
    BY <1>1 DEF Wanted
  <2>2. PICK cs : cs = Reserved(Wanted)
    OBVIOUS
  <2>3. /\ cs \in Seq(Chunk) /\ Len(cs) \in Nat /\ Len(cs) >= Len(chunks)
        /\ \A k \in 1 .. Len(chunks) : cs[k] = chunks[k]
        /\ Wanted <= Len(cs) * Fits /\ Len(cs) * Fits <= MaxCapacity
    BY <1>3, <2>1, <2>2, ReservedChunks
  <2>4. Len(cs) * Fits \in Nat /\ Capacity <= Len(cs) * Fits
    BY <1>1, <2>3, MoreHold
  <2>5. size < Len(cs) * Fits
    BY <1>1, <2>1, <2>3, <2>4
  <2>6. /\ chunks' \in Seq(Chunk) /\ Len(chunks') = Len(cs)
        /\ chunks'[size \div Fits + 1][size % Fits] = v
        /\ \A j \in Nat : j # size /\ j < Len(cs) * Fits =>
              chunks'[j \div Fits + 1][j % Fits] = cs[j \div Fits + 1][j % Fits]
    <3>1. chunks' = Put(cs, size, v)
      BY <1>3, <2>2
    <3>2. QED
      BY <1>1, <2>3, <2>5, <3>1, PutElement
  <2>7. /\ pushed' \in Seq(Value) /\ Len(pushed') = size' /\ pushed'[size + 1] = v
        /\ \A j \in 1 .. size : pushed'[j] = pushed[j]
    BY <1>1, <1>3
  <2>8. ASSUME NEW i \in 0 .. size - 1
        PROVE  i < Len(cs) * Fits /\ chunks'[i \div Fits + 1][i % Fits] = pushed'[i + 1]
    <3>1. i \in Nat /\ i < Capacity /\ i < Len(cs) * Fits /\ i # size
      BY <1>1, <2>4
    <3>2. i \div Fits + 1 \in 1 .. Len(chunks)
      BY <1>1, <3>1, PlaceIn
    <3>3. chunks'[i \div Fits + 1][i % Fits] = chunks[i \div Fits + 1][i % Fits]
      BY <2>3, <2>6, <3>1, <3>2
    <3>4. chunks[i \div Fits + 1][i % Fits] = pushed[i + 1]
      BY DEF Kept, ElementsKept
    <3>5. pushed'[i + 1] = pushed[i + 1]
      BY <1>1, <2>7
    <3>6. QED
      BY <3>1, <3>3, <3>4, <3>5
  <2>9. ElementsKept'
    BY <1>1, <1>3, <2>5, <2>6, <2>7, <2>8 DEF ElementsKept, Capacity
  <2>10. retain' \in Retains
    BY DEF Push, Kept
  <2>11. size' \in Nat /\ size' <= Len(cs) * Fits
    BY <1>1, <1>3, <2>4, <2>5
  <2>12. Capacity' = Len(cs) * Fits
    BY <2>6 DEF Capacity
  <2>13. QED
    BY <2>3, <2>6, <2>7, <2>9, <2>10, <2>11, <2>12 DEF Kept
<1>4. QED
  BY <1>2, <1>3 DEF Push

(* The last chunk goes only if the elements that stay are in the others. *)
LEMMA SparedChunks ==
    ASSUME Kept, NEW n \in Nat, n <= Capacity
    PROVE  /\ Spared(chunks, n) \in Seq(Chunk) /\ Len(Spared(chunks, n)) \in Nat
           /\ Len(Spared(chunks, n)) <= Len(chunks) /\ n <= Len(Spared(chunks, n)) * Fits
           /\ \A k \in 1 .. Len(Spared(chunks, n)) : Spared(chunks, n)[k] = chunks[k]
<1>1. chunks \in Seq(Chunk) /\ Len(chunks) \in Nat /\ Len(chunks) * Fits = Capacity /\ Capacity \in Nat
  BY MoreHold DEF Kept, Capacity
<1>2. CASE Spared(chunks, n) = chunks
  BY <1>1, <1>2
<1>3. CASE /\ Spared(chunks, n) = Front(chunks) /\ retain # -1
           /\ Len(chunks) * Fits - n >= (retain + 1) * Fits
  <2>1. retain \in Nat
    BY <1>3, VectorAssumption DEF Kept
  <2>2. Fits \in Nat \ {0} /\ (retain + 1) * Fits >= Fits
    BY <2>1, VectorAssumption
  <2>3. PICK m \in Nat : m = Len(chunks) - 1
    <3>1. Len(chunks) # 0
      BY <1>1, <1>3, <2>1, <2>2
    <3>2. QED
      BY <1>1, <3>1
  <2>4. m * Fits = Len(chunks) * Fits - Fits /\ n <= m * Fits
    BY <1>1, <1>3, <2>1, <2>2, <2>3
  <2>5. PICK s : s = SubSeq(chunks, 1, m)
    OBVIOUS
  <2>6. s \in Seq(Chunk) /\ Len(s) = m /\ \A k \in 1 .. m : s[k] = chunks[k]
    BY <1>1, <2>3, <2>5
  <2>7. Spared(chunks, n) = s
    BY <1>3, <2>3, <2>5 DEF Front
  <2>8. QED
    BY <2>3, <2>4, <2>6, <2>7
<1>4. QED
  BY <1>2, <1>3, Zenon DEF Spared

(* Elements that stay in chunks that stay are where they were. *)
LEMMA StillThere ==
    ASSUME Kept, NEW i \in Nat, i < size, Len(chunks') \in Nat, i < Len(chunks') * Fits,
           \A k \in 1 .. Len(chunks) : k <= Len(chunks') => chunks'[k] = chunks[k]
    PROVE  chunks'[i \div Fits + 1][i % Fits] = pushed[i + 1]
<1>1. /\ i \in 0 .. size - 1 /\ Len(chunks) \in Nat /\ i < Len(chunks) * Fits
  <2>1. Capacity \in Nat /\ Len(chunks) \in Nat
    BY MoreHold DEF Kept, Capacity
  <2>2. QED
    BY <2>1 DEF Kept, Capacity
<1>2. i \div Fits + 1 \in 1 .. Len(chunks) /\ i \div Fits + 1 \in 1 .. Len(chunks')
  BY <1>1, PlaceIn
<1>3. chunks'[i \div Fits + 1] = chunks[i \div Fits + 1]
  BY <1>1, <1>2
<1>4. QED
  BY <1>1, <1>3 DEF Kept, ElementsKept

(* pop_back. *)
LEMMA PopKept == ASSUME Kept, Pop PROVE Kept'
<1>1. /\ chunks \in Seq(Chunk) /\ Len(chunks) \in Nat /\ Capacity \in Nat /\ size \in Nat
      /\ size <= Capacity /\ Len(chunks) * Fits = Capacity /\ Capacity <= MaxCapacity
      /\ MaxCapacity \in Nat /\ pushed \in Seq(Value) /\ Len(pushed) = size
  BY MoreHold, VectorAssumption DEF Kept, Capacity
<1>2. CASE UNCHANGED <<size, chunks, pushed>>
  BY <1>1, <1>2 DEF Pop, Kept, Capacity, ElementsKept
<1>3. CASE /\ size > 0 /\ size' = size - 1 /\ pushed' = Front(pushed)
           /\ chunks' = Spared(chunks, size - 1)
  <2>1. size' \in Nat /\ size' <= Capacity
    BY <1>1, <1>3
  <2>2. chunks' = Spared(chunks, size')
    BY <1>3
  <2>3. /\ chunks' \in Seq(Chunk) /\ Len(chunks') \in Nat /\ Len(chunks') <= Len(chunks)
        /\ size' <= Len(chunks') * Fits /\ \A k \in 1 .. Len(chunks') : chunks'[k] = chunks[k]
    BY <2>1, <2>2, SparedChunks
  <2>4. Len(chunks') * Fits \in Nat /\ Len(chunks') * Fits <= MaxCapacity
    BY <1>1, <2>3, MoreHold
  <2>5. /\ pushed' \in Seq(Value) /\ Len(pushed') = size'
        /\ \A j \in 1 .. size' : pushed'[j] = pushed[j]
    BY <1>1, <1>3 DEF Front
  <2>6. ASSUME NEW i \in 0 .. size' - 1
        PROVE  i < Len(chunks') * Fits /\ chunks'[i \div Fits + 1][i % Fits] = pushed'[i + 1]
    <3>1. i \in Nat /\ i < size /\ i < Len(chunks') * Fits /\ i + 1 \in 1 .. size'
      BY <1>1, <1>3, <2>1, <2>3, <2>4
    <3>2. chunks'[i \div Fits + 1][i % Fits] = pushed[i + 1]
      BY <1>1, <2>3, <3>1, StillThere
    <3>3. QED
      BY <2>5, <3>1, <3>2
  <2>7. ElementsKept'
    BY <2>6 DEF ElementsKept, Capacity
  <2>8. retain' \in Retains
    BY DEF Pop, Kept
  <2>9. QED
    BY <2>1, <2>3, <2>4, <2>5, <2>7, <2>8 DEF Kept, Capacity
<1>4. QED
  BY <1>2, <1>3 DEF Pop

(* reserve. *)
LEMMA ReserveKept ==
    ASSUME Kept, NEW n \in Nat, Reserve(n)
    PROVE  Kept' /\ Len(chunks') >= Len(chunks) /\ Capacity' >= Capacity
           /\ (Reservable(n) => n <= Capacity')
<1>1. /\ chunks \in Seq(Chunk) /\ Len(chunks) \in Nat /\ Capacity \in Nat /\ size \in Nat
      /\ size <= Capacity /\ Len(chunks) * Fits = Capacity
  BY MoreHold DEF Kept, Capacity
<1>2. CASE ~Reservable(n) /\ UNCHANGED chunks
  BY <1>1, <1>2 DEF Reserve, Kept, Capacity, ElementsKept
<1>3. CASE Reservable(n) /\ chunks' = Reserved(n)
  <2>1. /\ chunks' \in Seq(Chunk) /\ Len(chunks') \in Nat /\ Len(chunks') >= Len(chunks)
        /\ \A k \in 1 .. Len(chunks) : chunks'[k] = chunks[k]
        /\ n <= Len(chunks') * Fits /\ Len(chunks') * Fits <= MaxCapacity
    BY <1>3, ReservedChunks
  <2>2. Len(chunks') * Fits \in Nat /\ Capacity <= Len(chunks') * Fits
    BY <1>1, <2>1, MoreHold
  <2>3. UNCHANGED <<size, retain, pushed>>
    BY DEF Reserve
  <2>4. ASSUME NEW i \in 0 .. size - 1
        PROVE  i < Len(chunks') * Fits /\ chunks'[i \div Fits + 1][i % Fits] = pushed[i + 1]
    <3>1. i \in Nat /\ i < size /\ i < Len(chunks') * Fits
      BY <1>1, <2>2
    <3>2. QED
      BY <2>1, <3>1, StillThere
  <2>5. ElementsKept'
    BY <2>3, <2>4 DEF ElementsKept, Capacity
  <2>6. size' <= Capacity' /\ Capacity' <= MaxCapacity /\ Capacity' >= Capacity /\ n <= Capacity'
    BY <1>1, <2>1, <2>2, <2>3 DEF Capacity
  <2>7. QED
    BY <2>1, <2>3, <2>5, <2>6 DEF Kept
<1>4. QED
  BY <1>2, <1>3 DEF Reserve

-----------------------------------------------------------------------------
(* The vector. *)

(* Every call, and every push and pop of a resize. *)
LEMMA Step == ASSUME IInv, [Next]_vars PROVE IInv'
<1>1. /\ Kept /\ size \in Nat /\ Capacity \in Nat /\ size <= Capacity /\ target \in 0 .. Capacity
      /\ Default \in Value
  BY MoreHold, VectorAssumption DEF IInv, Kept, Capacity
<1>2. Kept' => size' \in 0 .. Capacity'
  BY MoreHold DEF Kept, Capacity
<1>3. CASE UNCHANGED vars
  BY <1>1, <1>3 DEF IInv, Kept, vars, Capacity, ElementsKept
<1>4. CASE size = target /\ Call /\ target' = size'
  <2>1. ASSUME NEW r \in Retains, SetRetain(r) PROVE Kept'
    BY <1>1, <2>1 DEF SetRetain, Kept, Capacity, ElementsKept
  <2>2. ASSUME NEW n \in 0 .. MaxCapacity + 1, Reserve(n) PROVE Kept'
    BY <1>1, <2>2, ReserveKept
  <2>3. Kept'
    BY <1>1, <1>4, <2>1, <2>2, PushKept, PopKept DEF Call
  <2>4. QED
    BY <1>2, <1>4, <2>3 DEF IInv
<1>5. CASE size = target /\ \E n \in 0 .. MaxCapacity + 1 : Resize(n)
  <2>1. PICK n \in 0 .. MaxCapacity + 1 : Resize(n)
    BY <1>5
  <2>2. CASE n > size
    <3>1. /\ Kept' /\ Capacity' >= Capacity /\ (Reservable(n) => n <= Capacity')
          /\ target' = IF Reservable(n) THEN n ELSE target
      BY <1>1, <2>1, <2>2, ReserveKept DEF Resize
    <3>2. Capacity' \in Nat
      BY <3>1, MoreHold DEF Kept, Capacity
    <3>3. QED
      BY <1>1, <2>1, <3>1, <3>2 DEF IInv
  <2>3. CASE n <= size
    <3>1. UNCHANGED <<size, chunks, retain, pushed>> /\ target' = n
      BY <1>1, <2>1, <2>3 DEF Resize
    <3>2. QED
      BY <1>1, <2>1, <2>3, <3>1 DEF IInv, Kept, Capacity, ElementsKept
  <2>4. QED
    BY <1>1, <2>1, <2>2, <2>3
<1>6. CASE size # target /\ ResizeOne /\ UNCHANGED target
  <2>1. CASE size > target
    <3>1. Kept' /\ size' = size - 1
      BY <1>1, <1>6, <2>1, PopKept DEF ResizeOne, Pop
    <3>2. size' \in 0 .. Capacity' /\ Capacity' \in Nat /\ target' = target /\ target <= size'
      BY <1>1, <1>2, <1>6, <2>1, <3>1, MoreHold DEF Kept, Capacity
    <3>3. QED
      BY <1>1, <3>1, <3>2 DEF IInv
  <2>2. CASE size < target
    <3>1. Kept' /\ Len(chunks') >= Len(chunks)
      BY <1>1, <1>6, <2>2, PushKept DEF ResizeOne
    <3>2. Capacity' \in Nat /\ Capacity' >= Capacity
      BY <1>1, <3>1, MoreHold DEF Kept, Capacity
    <3>3. QED
      BY <1>1, <1>6, <3>1, <3>2 DEF IInv
  <2>3. QED
    BY <1>1, <1>6, <2>1, <2>2
<1>7. QED
  BY <1>3, <1>4, <1>5, <1>6 DEF Next

(* It holds throughout. *)
LEMMA Invariant == Spec => []IInv
<1>1. Init => IInv
  BY VectorAssumption DEF Init, IInv, Kept, Capacity, ElementsKept
<1>2. QED
  BY <1>1, Step, PTL DEF Spec

(* The elements, and those a resize is to bring, are within the chunks and *)
(* those within the address range: what resize has reserved lasts for all  *)
(* its pushes, and no pop gives back a chunk in use.                       *)
THEOREM TypeCorrect == Spec => []TypeOK
<1>1. IInv => TypeOK
  BY MoreHold DEF IInv, Kept, TypeOK, Capacity
<1>2. QED
  BY <1>1, Invariant, PTL

(* The device holds what the caller pushed, whatever was popped, released  *)
(* and mapped again in between, for any chunk size and retain_last_.       *)
THEOREM ElementsCorrect == Spec => []ElementsKept
<1>1. IInv => ElementsKept
  BY DEF IInv, Kept
<1>2. QED
  BY <1>1, Invariant, PTL

-----------------------------------------------------------------------------
(* The vector with chunks that move. *)

Memory == [loc : {"None", "Device", "Host"}, data : Chunk]

\* What the driver has and what the class remembers of it: each chunk has memory
\* of its own, and chunks is what is read there.
Placed ==
    /\ handles \in Seq(Handle) /\ mapped = handles
    /\ memory \in [Handle -> Memory]
    /\ \A i, j \in 1 .. Len(handles) : handles[i] = handles[j] => i = j
    /\ \A h \in Handle : memory[h] # NoMemory <=> \E i \in 1 .. Len(handles) : h = handles[i]
    /\ chunks = Seen
    /\ chunk_on_host \in Seq(BOOLEAN) /\ Len(chunk_on_host) = Len(handles)
    /\ \A i \in 1 .. Len(handles) : memory[handles[i]].loc = Place(chunk_on_host[i])

RemapInv == IInv /\ size = target /\ Placed

(* There are as many chunks as handles, each with what its memory holds.   *)
LEMMA SeenChunks ==
    ASSUME Placed
    PROVE  /\ Len(handles) \in Nat /\ Len(chunks) = Len(handles)
           /\ \A i \in 1 .. Len(handles) :
                 handles[i] \in Handle /\ chunks[i] = memory[handles[i]].data
<1>1. handles \in Seq(Handle) /\ Len(handles) \in Nat /\ mapped = handles
  BY DEF Placed
<1>2. PICK n \in Nat : n = Len(handles)
  BY <1>1
<1>3. chunks = [i \in 1 .. n |-> memory[handles[i]].data]
  BY <1>1, <1>2 DEF Placed, Seen
<1>4. Len(chunks) = n /\ \A i \in 1 .. n : chunks[i] = memory[handles[i]].data
  BY <1>3
<1>5. QED
  BY <1>1, <1>2, <1>4

(* The state of the driver when new memory is mapped behind the old: the   *)
(* handles are still distinct, the old chunks hold what they held, and     *)
(* what is read from d_ptr is what reserve makes of the chunks.            *)
LEMMA Growth ==
    ASSUME Kept, Placed, NEW n \in Nat, Reservable(n), NEW new \in NewHandles(n), Grown(new),
           NEW m, m = Backed(new)
    PROVE  /\ handles' \in Seq(Handle) /\ mapped' = handles'
           /\ Len(handles') \in Nat /\ Len(handles') >= Len(handles)
           /\ m \in [Handle -> Memory]
           /\ \A i, j \in 1 .. Len(handles') : handles'[i] = handles'[j] => i = j
           /\ \A h \in Handle : m[h] # NoMemory <=> \E i \in 1 .. Len(handles') : h = handles'[i]
           /\ Len(Reserved(n)) = Len(handles')
           /\ \A i \in 1 .. Len(handles') : Reserved(n)[i] = m[handles'[i]].data
           /\ chunk_on_host' \in Seq(BOOLEAN) /\ Len(chunk_on_host') = Len(handles')
           /\ \A i \in 1 .. Len(handles') : m[handles'[i]].loc = Place(chunk_on_host'[i])
<1>1. /\ handles \in Seq(Handle) /\ Len(handles) \in Nat /\ mapped = handles
      /\ chunks \in Seq(Chunk) /\ Len(chunks) = Len(handles) /\ Capacity \in Nat
      /\ \A i \in 1 .. Len(handles) : handles[i] \in Handle /\ chunks[i] = memory[handles[i]].data
  BY SeenChunks, MoreHold DEF Kept, Placed, Capacity
<1>2. PICK k \in Nat : k = Extra(n)
  <2>1. CASE n <= Capacity
    BY <2>1 DEF Extra
  <2>2. CASE ~(n <= Capacity)
    <3>1. PICK q \in Nat : q = RoundUp(n) \div Fits
      BY RoundUpWhole
    <3>2. q * Fits >= n /\ Len(handles) * Fits = Capacity
      BY <1>1, <3>1, RoundUpWhole DEF Capacity
    <3>3. ~(q <= Len(handles))
      BY <1>1, <2>2, <3>1, <3>2, MoreHold
    <3>4. Extra(n) = q - Len(handles)
      BY <2>2, <3>1 DEF Extra
    <3>5. QED
      BY <1>1, <3>1, <3>3, <3>4
  <2>3. QED
    BY <2>1, <2>2
<1>3. /\ new \in [1 .. k -> Unused] /\ new \in Seq(Handle) /\ Len(new) = k
      /\ \A i, j \in 1 .. k : new[i] = new[j] => i = j
  <2>1. new \in [1 .. k -> Unused] /\ IsInjective(new)
    BY <1>2 DEF NewHandles
  <2>2. Unused \subseteq Handle
    BY DEF Unused
  <2>3. new \in Seq(Handle) /\ Len(new) = k
    BY <2>1, <2>2
  <2>4. QED
    BY <2>1, <2>3 DEF IsInjective
<1>4. \A i \in 1 .. k : new[i] \in Handle /\ memory[new[i]] = NoMemory
  BY <1>3 DEF Unused
<1>5. PICK hs : hs = handles \o new
  OBVIOUS
<1>6. handles' = hs /\ mapped' = hs
  BY <1>1, <1>5 DEF Grown
<1>7. PICK l \in Nat : l = Len(handles)
  BY <1>1
<1>8. /\ hs \in Seq(Handle) /\ Len(hs) = l + k
      /\ \A i \in 1 .. l + k : hs[i] = IF i <= l THEN handles[i] ELSE new[i - l]
  <2>1. Len(handles) = l /\ Len(new) = k /\ handles \in Seq(Handle) /\ new \in Seq(Handle)
    BY <1>1, <1>3, <1>7
  <2>2. /\ handles \o new \in Seq(Handle) /\ Len(handles \o new) = l + k
        /\ \A i \in 1 .. l + k : (handles \o new)[i] = IF i <= l THEN handles[i] ELSE new[i - l]
    BY <2>1, ConcatProperties
  <2>3. QED
    BY <1>5, <2>2, Zenon
<1>9. \A i \in 1 .. l + k : i <= l \/ i - l \in 1 .. k
  BY <1>7
<1>10. ToSet(new) = {new[i] : i \in 1 .. k}
  BY <1>3 DEF ToSet
<1>11. PICK fresh : fresh = [loc |-> "Device", data |-> NewChunk]
  OBVIOUS
<1>12. /\ fresh \in Memory /\ fresh # NoMemory /\ fresh.loc = "Device" /\ fresh.data = NewChunk
       /\ NewChunk \in Chunk
  BY <1>11 DEF Memory, NoMemory, NewChunk, Chunk
<1>13. /\ m \in [Handle -> Memory]
       /\ \A h \in Handle : m[h] = IF \E i \in 1 .. k : h = new[i] THEN fresh ELSE memory[h]
  <2>1. m = [h \in Handle |-> IF h \in ToSet(new) THEN fresh ELSE memory[h]]
    BY <1>11 DEF Backed
  <2>2. memory \in [Handle -> Memory]
    BY DEF Placed
  <2>3. QED
    BY <1>10, <1>12, <2>1, <2>2
<1>14. /\ \A i \in 1 .. l : \A j \in 1 .. k : handles[i] # new[j]
       /\ \A i, j \in 1 .. l : handles[i] = handles[j] => i = j
  <2>1. \A i \in 1 .. l : memory[handles[i]] # NoMemory
    BY <1>1, <1>7 DEF Placed
  <2>2. QED
    BY <1>4, <1>7, <2>1 DEF Placed
<1>15. \A i \in 1 .. l + k : m[hs[i]] = IF i <= l THEN memory[handles[i]] ELSE fresh
  <2> SUFFICES ASSUME NEW i \in 1 .. l + k
               PROVE  m[hs[i]] = IF i <= l THEN memory[handles[i]] ELSE fresh
    OBVIOUS
  <2>1. CASE i <= l
    <3>1. i \in 1 .. l /\ hs[i] = handles[i] /\ handles[i] \in Handle
      BY <1>1, <1>7, <1>8, <2>1
    <3>2. m[handles[i]] = memory[handles[i]]
      BY <1>13, <1>14, <3>1, Zenon
    <3>3. QED
      BY <2>1, <3>1, <3>2
  <2>2. CASE ~(i <= l)
    <3>1. i - l \in 1 .. k /\ hs[i] = new[i - l]
      BY <1>8, <1>9, <2>2
    <3>2. PICK j \in 1 .. k : hs[i] = new[j] /\ new[j] \in Handle
      BY <1>4, <3>1
    <3>3. m[new[j]] = fresh
      BY <1>13, <3>2, Zenon
    <3>4. QED
      BY <2>2, <3>2, <3>3
  <2>3. QED
    BY <2>1, <2>2
<1>16. \A i, j \in 1 .. l + k : hs[i] = hs[j] => i = j
  <2> SUFFICES ASSUME NEW i \in 1 .. l + k, NEW j \in 1 .. l + k, hs[i] = hs[j] PROVE i = j
    OBVIOUS
  <2>1. CASE i <= l /\ j <= l
    BY <1>7, <1>8, <1>14, <2>1
  <2>2. CASE i <= l /\ ~(j <= l)
    <3>1. i \in 1 .. l /\ j - l \in 1 .. k /\ hs[i] = handles[i] /\ hs[j] = new[j - l]
      BY <1>7, <1>8, <1>9, <2>2
    <3>2. QED
      BY <1>14, <3>1
  <2>3. CASE ~(i <= l) /\ j <= l
    <3>1. j \in 1 .. l /\ i - l \in 1 .. k /\ hs[j] = handles[j] /\ hs[i] = new[i - l]
      BY <1>7, <1>8, <1>9, <2>3
    <3>2. QED
      BY <1>14, <3>1
  <2>4. CASE ~(i <= l) /\ ~(j <= l)
    <3>1. i - l \in 1 .. k /\ j - l \in 1 .. k /\ hs[i] = new[i - l] /\ hs[j] = new[j - l]
      BY <1>8, <1>9, <2>4
    <3>2. i - l = j - l
      BY <1>3, <3>1
    <3>3. QED
      BY <1>7, <3>2
  <2>5. QED
    BY <2>1, <2>2, <2>3, <2>4
<1>17. ASSUME NEW h \in Handle
       PROVE  m[h] # NoMemory <=> \E i \in 1 .. l + k : h = hs[i]
  <2>1. CASE \E j \in 1 .. k : h = new[j]
    <3>1. PICK j \in 1 .. k : h = new[j]
      BY <2>1
    <3>2. m[h] = fresh
      BY <1>13, <2>1, Zenon
    <3>3. l + j \in 1 .. l + k /\ ~(l + j <= l) /\ (l + j) - l = j
      BY <1>7
    <3>4. hs[l + j] = new[j]
      BY <1>8, <3>3
    <3>5. QED
      BY <1>12, <3>1, <3>2, <3>3, <3>4
  <2>2. CASE ~ \E j \in 1 .. k : h = new[j]
    <3>1. m[h] = memory[h]
      BY <1>13, <2>2, Zenon
    <3>2. memory[h] # NoMemory <=> \E i \in 1 .. l : h = handles[i]
      BY <1>7 DEF Placed
    <3>3. ASSUME NEW i \in 1 .. l, h = handles[i] PROVE \E j \in 1 .. l + k : h = hs[j]
      <4>1. i \in 1 .. l + k /\ i <= l
        BY <1>7
      <4>2. QED
        BY <1>8, <3>3, <4>1
    <3>4. ASSUME NEW i \in 1 .. l + k, h = hs[i] PROVE \E j \in 1 .. l : h = handles[j]
      <4>1. i <= l
        BY <1>8, <1>9, <2>2, <3>4
      <4>2. i \in 1 .. l /\ hs[i] = handles[i]
        BY <1>7, <1>8, <4>1
      <4>3. QED
        BY <3>4, <4>2
    <3>5. QED
      BY <3>1, <3>2, <3>3, <3>4
  <2>3. QED
    BY <2>1, <2>2
<1>18. /\ Len(Reserved(n)) = l + k
       /\ \A i \in 1 .. l + k : Reserved(n)[i] = IF i <= l THEN chunks[i] ELSE NewChunk
  <2>1. CASE n <= Capacity
    <3>1. Reserved(n) = chunks /\ k = 0
      BY <1>2, <2>1 DEF Reserved, Extra
    <3>2. QED
      BY <1>1, <1>7, <3>1
  <2>2. CASE ~(n <= Capacity)
    <3>1. k = (RoundUp(n) \div Fits) - Len(chunks)
      BY <1>1, <1>2, <2>2 DEF Extra
    <3>2. PICK s : s = [i \in 1 .. k |-> NewChunk]
      OBVIOUS
    <3>3. Reserved(n) = chunks \o s
      BY <2>2, <3>1, <3>2 DEF Reserved
    <3>4. s \in Seq(Chunk) /\ Len(s) = k /\ \A i \in 1 .. k : s[i] = NewChunk
      BY <1>12, <3>2
    <3>5. /\ Len(Reserved(n)) = l + k
          /\ \A i \in 1 .. l + k :
                Reserved(n)[i] = IF i <= l THEN chunks[i] ELSE s[i - l]
      <4>1. Len(chunks) = l /\ Len(s) = k /\ chunks \in Seq(Chunk) /\ s \in Seq(Chunk)
        BY <1>1, <1>7, <3>4
      <4>2. /\ Len(chunks \o s) = l + k
            /\ \A i \in 1 .. l + k : (chunks \o s)[i] = IF i <= l THEN chunks[i] ELSE s[i - l]
        BY <4>1, ConcatProperties
      <4>3. QED
        BY <3>3, <4>2, Zenon
    <3>6. QED
      BY <1>9, <3>4, <3>5
  <2>3. QED
    BY <2>1, <2>2
<1>19. \A i \in 1 .. l + k : Reserved(n)[i] = m[hs[i]].data
  <2> SUFFICES ASSUME NEW i \in 1 .. l + k PROVE Reserved(n)[i] = m[hs[i]].data
    OBVIOUS
  <2>1. CASE i <= l
    BY <1>1, <1>7, <1>15, <1>18, <2>1
  <2>2. CASE ~(i <= l)
    BY <1>12, <1>15, <1>18, <2>2
  <2>3. QED
    BY <2>1, <2>2
<1>20. /\ chunk_on_host' \in Seq(BOOLEAN) /\ Len(chunk_on_host') = l + k
       /\ \A i \in 1 .. l + k : chunk_on_host'[i] = IF i <= l THEN chunk_on_host[i] ELSE FALSE
  <2>1. PICK s : s = [i \in 1 .. k |-> FALSE]
    OBVIOUS
  <2>2. s \in Seq(BOOLEAN) /\ Len(s) = k /\ \A i \in 1 .. k : s[i] = FALSE
    BY <2>1
  <2>3. DOMAIN new = 1 .. k
    BY <1>3
  <2>4. chunk_on_host' = chunk_on_host \o s
    BY <2>1, <2>3 DEF Grown
  <2>5. chunk_on_host \in Seq(BOOLEAN) /\ Len(chunk_on_host) = l
    BY <1>7 DEF Placed
  <2>6. /\ chunk_on_host' \in Seq(BOOLEAN) /\ Len(chunk_on_host') = l + k
        /\ \A i \in 1 .. l + k :
              chunk_on_host'[i] = IF i <= l THEN chunk_on_host[i] ELSE s[i - l]
    BY <2>2, <2>4, <2>5, ConcatProperties
  <2>7. QED
    BY <1>9, <2>2, <2>6
<1>21. \A i \in 1 .. l + k : m[hs[i]].loc = Place(chunk_on_host'[i])
  <2> SUFFICES ASSUME NEW i \in 1 .. l + k PROVE m[hs[i]].loc = Place(chunk_on_host'[i])
    OBVIOUS
  <2>1. CASE i <= l
    <3>1. i \in 1 .. l
      BY <1>7, <2>1
    <3>2. m[hs[i]] = memory[handles[i]]
      BY <1>15, <2>1, Zenon
    <3>3. chunk_on_host'[i] = chunk_on_host[i]
      BY <1>20, <2>1, Zenon
    <3>4. memory[handles[i]].loc = Place(chunk_on_host[i])
      BY <1>7, <3>1 DEF Placed
    <3>5. QED
      BY <3>2, <3>3, <3>4
  <2>2. CASE ~(i <= l)
    <3>1. m[hs[i]] = fresh /\ chunk_on_host'[i] = FALSE
      BY <1>15, <1>20, <2>2
    <3>2. QED
      BY <1>12, <3>1 DEF Place
  <2>3. QED
    BY <2>1, <2>2
<1>22. l + k \in Nat /\ l + k >= Len(handles) /\ Len(handles') = l + k
  BY <1>6, <1>7, <1>8
<1>23. QED
  BY <1>6, <1>8, <1>13, <1>16, <1>17, <1>18, <1>19, <1>20, <1>21, <1>22

(* reserve is VMMVector's.                                                 *)
LEMMA RemapReserveStep ==
    ASSUME Kept, Placed, NEW n \in Nat, RemapReserve(n), chunks' = Seen', UNCHANGED retain
    PROVE  Reserve(n) /\ Placed'
<1>1. CASE ~Reservable(n) /\ UNCHANGED <<handles, chunk_on_host, driver>>
  <2>1. UNCHANGED <<handles, chunk_on_host, mapped, memory>>
    BY <1>1 DEF driver
  <2>2. chunks' = chunks
    BY <2>1 DEF Placed, Seen
  <2>3. QED
    BY <1>1, <2>1, <2>2 DEF RemapReserve, Reserve, Placed, Seen
<1>2. CASE Reservable(n) /\ \E new \in NewHandles(n) : Grown(new) /\ memory' = Backed(new)
  <2>1. PICK new \in NewHandles(n) : Grown(new) /\ memory' = Backed(new)
    BY <1>2
  <2>2. /\ handles' \in Seq(Handle) /\ mapped' = handles'
        /\ Len(handles') \in Nat
        /\ memory' \in [Handle -> Memory]
        /\ \A i, j \in 1 .. Len(handles') : handles'[i] = handles'[j] => i = j
        /\ \A h \in Handle : memory'[h] # NoMemory <=> \E i \in 1 .. Len(handles') : h = handles'[i]
        /\ Len(Reserved(n)) = Len(handles')
        /\ \A i \in 1 .. Len(handles') : Reserved(n)[i] = memory'[handles'[i]].data
        /\ chunk_on_host' \in Seq(BOOLEAN) /\ Len(chunk_on_host') = Len(handles')
        /\ \A i \in 1 .. Len(handles') : memory'[handles'[i]].loc = Place(chunk_on_host'[i])
    <3>1. PICK m : m = Backed(new) /\ memory' = m
      BY <2>1
    <3>2. /\ handles' \in Seq(Handle) /\ mapped' = handles'
          /\ Len(handles') \in Nat
          /\ m \in [Handle -> Memory]
          /\ \A i, j \in 1 .. Len(handles') : handles'[i] = handles'[j] => i = j
          /\ \A h \in Handle : m[h] # NoMemory <=> \E i \in 1 .. Len(handles') : h = handles'[i]
          /\ Len(Reserved(n)) = Len(handles')
          /\ \A i \in 1 .. Len(handles') : Reserved(n)[i] = m[handles'[i]].data
          /\ chunk_on_host' \in Seq(BOOLEAN) /\ Len(chunk_on_host') = Len(handles')
          /\ \A i \in 1 .. Len(handles') : m[handles'[i]].loc = Place(chunk_on_host'[i])
      BY <1>2, <2>1, <3>1, Growth
    <3>3. QED
      BY <3>1, <3>2
  <2>3. PICK k \in Nat : k = Len(handles')
    BY <2>2
  <2>4. PICK rs \in Seq(Chunk) : rs = Reserved(n)
    BY <1>2, ReservedChunks
  <2>5. chunks' = rs
    <3>1. chunks' = [i \in 1 .. k |-> memory'[handles'[i]].data]
      BY <2>2, <2>3 DEF Seen
    <3>2. \A i \in 1 .. k : rs[i] = memory'[handles'[i]].data
      BY <2>2, <2>3, <2>4
    <3>3. Len(rs) = k
      BY <2>2, <2>3, <2>4
    <3>4. rs = [i \in 1 .. k |-> rs[i]]
      BY <3>3
    <3>5. QED
      BY <3>1, <3>2, <3>4
  <2>6. Reserve(n)
    BY <1>2, <2>4, <2>5 DEF RemapReserve, Reserve
  <2>7. Placed'
    BY <2>2 DEF Placed, NoMemory, NewChunk, Place
  <2>8. QED
    BY <2>6, <2>7
<1>3. QED
  BY <1>1, <1>2 DEF RemapReserve

(* push_back is: a write through the handle mapped at the element's chunk  *)
(* is one to that chunk and no other.                                      *)
LEMMA RemapPushStep ==
    ASSUME Kept, Placed, NEW v \in Value, RemapPush(v), chunks' = Seen', UNCHANGED retain
    PROVE  Push(v) /\ Placed'
<1>1. CASE ~Reservable(Wanted) /\ UNCHANGED <<size, pushed, handles, chunk_on_host, driver>>
  <2>1. UNCHANGED <<handles, chunk_on_host, mapped, memory>>
    BY <1>1 DEF driver
  <2>2. chunks' = chunks
    BY <2>1 DEF Placed, Seen
  <2>3. QED
    BY <1>1, <2>1, <2>2 DEF Push, Placed, Seen
<1>2. CASE /\ Reservable(Wanted)
           /\ \E new \in NewHandles(Wanted) : Grown(new) /\ memory' = Stored(Backed(new), size, v)
           /\ size' = size + 1 /\ pushed' = Append(pushed, v)
  <2>1. size \in Nat /\ size <= Capacity /\ Capacity \in Nat
    BY MoreHold DEF Kept, Capacity
  <2>2. PICK n \in Nat : n = Wanted /\ n > size
    BY <2>1 DEF Wanted
  <2>3. PICK new \in NewHandles(n) : Grown(new) /\ memory' = Stored(Backed(new), size, v)
    BY <1>2, <2>2
  <2>4. PICK m : m = Backed(new)
    OBVIOUS
  <2>5. /\ handles' \in Seq(Handle) /\ mapped' = handles'
        /\ Len(handles') \in Nat
        /\ m \in [Handle -> Memory]
        /\ \A i, j \in 1 .. Len(handles') : handles'[i] = handles'[j] => i = j
        /\ \A h \in Handle : m[h] # NoMemory <=> \E i \in 1 .. Len(handles') : h = handles'[i]
        /\ Len(Reserved(n)) = Len(handles')
        /\ \A i \in 1 .. Len(handles') : Reserved(n)[i] = m[handles'[i]].data
        /\ chunk_on_host' \in Seq(BOOLEAN) /\ Len(chunk_on_host') = Len(handles')
        /\ \A i \in 1 .. Len(handles') : m[handles'[i]].loc = Place(chunk_on_host'[i])
    BY <1>2, <2>2, <2>3, <2>4, Growth
  <2>6. PICK k \in Nat : k = Len(handles')
    BY <2>5
  <2>7. PICK rs \in Seq(Chunk) : rs = Reserved(n) /\ Len(rs) = k /\ n <= k * Fits
    BY <1>2, <2>2, <2>5, <2>6, ReservedChunks
  <2>8. PICK q, r : q = size \div Fits + 1 /\ r = size % Fits
    OBVIOUS
  <2>9. q \in 1 .. k /\ r \in 0 .. Fits - 1
    <3>1. size < k * Fits
      BY <2>1, <2>2, <2>7, MoreHold
    <3>2. QED
      BY <2>1, <2>8, <3>1, PlaceIn
  <2>10. PICK h \in Handle : h = handles'[q]
    BY <2>5, <2>6, <2>9
  <2>11. PICK d : d = [m[h].data EXCEPT ![r] = v]
    OBVIOUS
  <2>12. PICK mh : mh = [m[h] EXCEPT !.data = d]
    OBVIOUS
  <2>13. m[h] \in Memory /\ m[h].loc = Place(chunk_on_host'[q]) /\ m[h].data \in Chunk
    BY <2>5, <2>6, <2>9, <2>10 DEF Memory
  <2>14. d \in Chunk
    BY <2>9, <2>11, <2>13 DEF Chunk
  <2>15. mh \in Memory /\ mh.data = d /\ mh.loc = m[h].loc
    BY <2>12, <2>13, <2>14 DEF Memory
  <2>16. memory' = [m EXCEPT ![h] = mh]
    <3>1. memory' = [m EXCEPT ![mapped'[q]].data[r] = v]
      BY <2>3, <2>4, <2>8 DEF Stored
    <3>2. mapped'[q] = h
      BY <2>5, <2>10
    <3>3. QED
      BY <2>11, <2>12, <3>1, <3>2
  <2>17. /\ memory' \in [Handle -> Memory] /\ memory'[h] = mh
         /\ \A x \in Handle : x # h => memory'[x] = m[x]
    BY <2>5, <2>15, <2>16
  <2>18. \A i \in 1 .. k : handles'[i] \in Handle /\ (i # q => handles'[i] # h)
    BY <2>5, <2>6, <2>9, <2>10
  <2>19. \A i \in 1 .. k : memory'[handles'[i]] = IF i = q THEN mh ELSE m[handles'[i]]
    BY <2>10, <2>17, <2>18
  <2>20. chunks' = [rs EXCEPT ![q] = d]
    <3>1. chunks' = [i \in 1 .. k |-> memory'[handles'[i]].data]
      BY <2>5, <2>6 DEF Seen
    <3>2. \A i \in 1 .. k : memory'[handles'[i]].data = IF i = q THEN d ELSE rs[i]
      <4>1. \A i \in 1 .. k : rs[i] = m[handles'[i]].data
        BY <2>5, <2>6, <2>7
      <4>2. QED
        BY <2>15, <2>19, <4>1
    <3>3. chunks' = [i \in 1 .. k |-> IF i = q THEN d ELSE rs[i]]
      BY <3>1, <3>2
    <3>4. DOMAIN rs = 1 .. k
      BY <2>7
    <3>5. QED
      BY <3>3, <3>4
  <2>21. m[h].data = rs[q]
    BY <2>5, <2>6, <2>7, <2>9, <2>10
  <2>22. chunks' = Put(Reserved(Wanted), size, v)
    <3>1. Put(rs, size, v) = [rs EXCEPT ![q] = [rs[q] EXCEPT ![r] = v]]
      BY <2>8 DEF Put
    <3>2. QED
      BY <2>2, <2>7, <2>11, <2>20, <2>21, <3>1
  <2>23. Push(v)
    BY <1>2, <2>22 DEF Push
  <2>24. ASSUME NEW x \in Handle
         PROVE  memory'[x] # NoMemory <=> \E i \in 1 .. k : x = handles'[i]
    <3>1. CASE x = h
      <4>1. mh.loc # "None"
        BY <2>13, <2>15 DEF Place
      <4>2. memory'[x] # NoMemory
        BY <2>17, <3>1, <4>1 DEF NoMemory
      <4>3. QED
        BY <2>9, <2>10, <3>1, <4>2
    <3>2. CASE x # h
      BY <2>5, <2>6, <2>17, <3>2
    <3>3. QED
      BY <3>1, <3>2
  <2>25. \A i \in 1 .. k : memory'[handles'[i]].loc = Place(chunk_on_host'[i])
    BY <2>5, <2>6, <2>13, <2>15, <2>19
  <2>26. Placed'
    BY <2>5, <2>6, <2>17, <2>24, <2>25 DEF Placed, NoMemory, NewChunk, Place
  <2>27. QED
    BY <2>23, <2>26
<1>3. QED
  BY <1>1, <1>2 DEF RemapPush

(* remap leaves what is read as it was: the copy is of what the chunk      *)
(* held, the memory released is no other chunk's, and the new memory was   *)
(* nobody's.                                                               *)
LEMMA RemapKeeps ==
    ASSUME Kept, Placed, NEW i \in 1 .. Len(handles), NEW to_host \in BOOLEAN,
           Remap(i, to_host), chunks' = Seen'
    PROVE  chunks' = chunks /\ Placed'
<1>1. CASE UNCHANGED <<handles, chunk_on_host, driver>>
  <2>1. UNCHANGED <<handles, chunk_on_host, mapped, memory>>
    BY <1>1 DEF driver
  <2>2. chunks' = chunks
    BY <2>1 DEF Placed, Seen
  <2>3. QED
    BY <2>1, <2>2 DEF Placed, Seen
<1>2. CASE /\ \E nh \in Unused : Swapped(i, nh, Staged(i, nh, to_host))
           /\ chunk_on_host' = Flagged(i, to_host)
  <2>1. PICK nh \in Unused : Swapped(i, nh, Staged(i, nh, to_host))
    BY <1>2
  <2>2. /\ handles \in Seq(Handle) /\ Len(handles) \in Nat /\ mapped = handles
        /\ memory \in [Handle -> Memory] /\ nh \in Handle /\ memory[nh] = NoMemory
        /\ chunk_on_host \in Seq(BOOLEAN) /\ Len(chunk_on_host) = Len(handles)
        /\ \A j \in 1 .. Len(handles) : handles[j] \in Handle
    BY <2>1, SeenChunks DEF Placed, Unused
  <2>3. PICK k \in Nat : k = Len(handles)
    BY <2>2
  <2>4. PICK old \in Handle : old = handles[i]
    BY <2>2
  <2>5. /\ \A j \in 1 .. k : handles[j] # nh /\ (j # i => handles[j] # old)
        /\ old # nh
    BY <2>2, <2>3, <2>4 DEF Placed
  <2>6. PICK fresh : fresh = [loc |-> Place(to_host), data |-> memory[old].data]
    OBVIOUS
  <2>7. /\ fresh \in Memory /\ fresh # NoMemory
        /\ fresh.loc = Place(to_host) /\ fresh.data = memory[old].data
    BY <2>2, <2>4, <2>6 DEF Memory, Place, NoMemory
  <2>8. NoMemory \in Memory
    BY DEF NoMemory, Memory, NewChunk, Chunk
  <2>9. memory' = [[memory EXCEPT ![nh] = fresh] EXCEPT ![old] = NoMemory]
    BY <2>1, <2>2, <2>4, <2>6 DEF Swapped, Staged
  <2>10. /\ memory' \in [Handle -> Memory] /\ memory'[nh] = fresh /\ memory'[old] = NoMemory
         /\ \A h \in Handle : h # nh /\ h # old => memory'[h] = memory[h]
    BY <2>2, <2>4, <2>5, <2>7, <2>8, <2>9
  <2>11. PICK hs : hs = [handles EXCEPT ![i] = nh]
    OBVIOUS
  <2>12. handles' = hs /\ mapped' = hs
    BY <2>1, <2>2, <2>11 DEF Swapped
  <2>13. /\ hs \in Seq(Handle) /\ Len(hs) = k /\ hs[i] = nh
         /\ \A j \in 1 .. k : j # i => hs[j] = handles[j]
    BY <2>2, <2>3, <2>11
  <2>14. \A j \in 1 .. k : memory'[hs[j]] = IF j = i THEN fresh ELSE memory[handles[j]]
    <3> SUFFICES ASSUME NEW j \in 1 .. k
                 PROVE  memory'[hs[j]] = IF j = i THEN fresh ELSE memory[handles[j]]
      OBVIOUS
    <3>1. CASE j = i
      BY <2>10, <2>13, <3>1
    <3>2. CASE j # i
      <4>1. hs[j] = handles[j] /\ handles[j] \in Handle /\ handles[j] # nh /\ handles[j] # old
        BY <2>2, <2>3, <2>5, <2>13, <3>2
      <4>2. QED
        BY <2>10, <3>2, <4>1
    <3>3. QED
      BY <3>1, <3>2
  <2>15. chunks' = chunks
    <3>1. chunks' = [j \in 1 .. k |-> memory'[hs[j]].data]
      BY <2>12, <2>13 DEF Seen
    <3>2. chunks = [j \in 1 .. k |-> memory[handles[j]].data]
      BY <2>2, <2>3 DEF Placed, Seen
    <3>3. \A j \in 1 .. k : memory'[hs[j]].data = memory[handles[j]].data
      BY <2>4, <2>7, <2>14
    <3>4. QED
      BY <3>1, <3>2, <3>3
  <2>16. \A a, b \in 1 .. k : hs[a] = hs[b] => a = b
    <3> SUFFICES ASSUME NEW a \in 1 .. k, NEW b \in 1 .. k, hs[a] = hs[b] PROVE a = b
      OBVIOUS
    <3>1. CASE a = i \/ b = i
      BY <2>5, <2>13, <3>1
    <3>2. CASE a # i /\ b # i
      BY <2>3, <2>13, <3>2 DEF Placed
    <3>3. QED
      BY <3>1, <3>2
  <2>17. ASSUME NEW h \in Handle
         PROVE  memory'[h] # NoMemory <=> \E j \in 1 .. k : h = hs[j]
    <3>1. CASE h = nh
      BY <2>3, <2>7, <2>10, <2>13, <3>1
    <3>2. CASE h = old
      <4>1. \A j \in 1 .. k : hs[j] # old
        BY <2>5, <2>13
      <4>2. QED
        BY <2>10, <3>2, <4>1
    <3>3. CASE h # nh /\ h # old
      <4>1. memory[h] # NoMemory <=> \E j \in 1 .. k : h = handles[j]
        BY <2>3 DEF Placed
      <4>2. (\E j \in 1 .. k : h = handles[j]) <=> \E j \in 1 .. k : h = hs[j]
        BY <2>4, <2>13, <3>3
      <4>3. QED
        BY <2>10, <3>3, <4>1, <4>2
    <3>4. QED
      BY <3>1, <3>2, <3>3
  <2>18. /\ chunk_on_host' \in Seq(BOOLEAN) /\ Len(chunk_on_host') = k
         /\ chunk_on_host'[i] = to_host
         /\ \A j \in 1 .. k : j # i => chunk_on_host'[j] = chunk_on_host[j]
    BY <1>2, <2>2, <2>3 DEF Flagged
  <2>19. ASSUME NEW j \in 1 .. k PROVE memory'[hs[j]].loc = Place(chunk_on_host'[j])
    <3>1. CASE j = i
      BY <2>7, <2>14, <2>18, <3>1
    <3>2. CASE j # i
      <4>1. memory[handles[j]].loc = Place(chunk_on_host[j])
        BY <2>3 DEF Placed
      <4>2. memory'[hs[j]] = memory[handles[j]] /\ chunk_on_host'[j] = chunk_on_host[j]
        BY <2>14, <2>18, <3>2
      <4>3. QED
        BY <4>1, <4>2
    <3>3. QED
      BY <3>1, <3>2
  <2>20. Placed'
    BY <2>3, <2>10, <2>12, <2>13, <2>16, <2>17, <2>18, <2>19 DEF Placed, NoMemory, NewChunk, Place
  <2>21. QED
    BY <2>15, <2>20
<1>3. QED
  BY <1>1, <1>2 DEF Remap

(* A step is one of the vector or, for remap, none, and no resize is ever  *)
(* under way.                                                              *)
LEMMA RemapStep ==
    ASSUME RemapInv, [RemapNext]_remapVars
    PROVE  [Next]_vars /\ RemapInv'
<1>1. IInv /\ Kept /\ size = target /\ Placed /\ size \in Nat /\ Capacity \in Nat
  BY MoreHold DEF RemapInv, IInv, Kept, Capacity
<1>2. CASE UNCHANGED remapVars
  <2>1. UNCHANGED vars /\ UNCHANGED <<handles, chunk_on_host, mapped, memory>>
    BY <1>2 DEF remapVars, driver
  <2>2. Placed'
    BY <1>1, <2>1 DEF Placed, Seen, vars
  <2>3. IInv'
    BY <1>1, <2>1, Step
  <2>4. QED
    BY <1>1, <2>1, <2>2, <2>3 DEF RemapInv, vars
<1>3. ASSUME RemapNext PROVE [Next]_vars /\ RemapInv'
  <2>1. chunks' = Seen' /\ target' = size' /\ UNCHANGED retain
    BY <1>3 DEF RemapNext
  <2>2. ASSUME NEW v \in Value, RemapPush(v) PROVE Next /\ Placed'
    BY <1>1, <2>1, <2>2, RemapPushStep DEF Next, Call
  <2>3. ASSUME NEW n \in 0 .. MaxCapacity + 1, RemapReserve(n) PROVE Next /\ Placed'
    BY <1>1, <2>1, <2>3, RemapReserveStep DEF Next, Call
  <2>4. ASSUME NEW i \in 1 .. Len(handles), NEW to_host \in BOOLEAN, Remap(i, to_host)
        PROVE  UNCHANGED vars /\ Placed'
    <3>1. chunks' = chunks /\ Placed'
      BY <1>1, <2>1, <2>4, RemapKeeps
    <3>2. QED
      BY <1>1, <2>1, <2>4, <3>1 DEF Remap, vars
  <2>5. [Next]_vars /\ Placed'
    BY <1>3, <2>2, <2>3, <2>4 DEF RemapNext
  <2>6. IInv'
    BY <1>1, <2>5, Step
  <2>7. QED
    BY <2>1, <2>5, <2>6 DEF RemapInv
<1>4. QED
  BY <1>2, <1>3

(* It holds at the start: there are no chunks.                             *)
LEMMA RemapStart == RemapInit => RemapInv
<1> SUFFICES ASSUME RemapInit PROVE RemapInv
  OBVIOUS
<1>1. IInv /\ size = target
  BY VectorAssumption DEF RemapInit, Init, IInv, Kept, Capacity, ElementsKept
<1>2. NoMemory \in Memory
  BY DEF NoMemory, Memory, NewChunk, Chunk
<1>3. /\ handles = <<>> /\ mapped = <<>> /\ chunk_on_host = <<>> /\ chunks = <<>>
      /\ memory = [h \in Handle |-> NoMemory]
  BY DEF RemapInit, Init
<1>4. memory \in [Handle -> Memory] /\ \A h \in Handle : memory[h] = NoMemory
  BY <1>2, <1>3
<1>5. Len(handles) = 0 /\ handles \in Seq(Handle) /\ chunk_on_host \in Seq(BOOLEAN)
  BY <1>3
<1>6. chunks = Seen
  <2>1. Seen = [i \in 1 .. 0 |-> memory[mapped[i]].data]
    BY <1>3 DEF Seen
  <2>2. <<>> = [i \in 1 .. 0 |-> memory[mapped[i]].data]
    OBVIOUS
  <2>3. QED
    BY <1>3, <2>1, <2>2
<1>7. Placed
  BY <1>3, <1>4, <1>5, <1>6 DEF Placed
<1>8. QED
  BY <1>1, <1>7 DEF RemapInv

(* It holds throughout.                                                    *)
LEMMA RemapInvariant == RemapSpec => []RemapInv
BY RemapStart, RemapStep, PTL DEF RemapSpec

(* The vector that moves its chunks implements the one that does not:      *)
(* reading and writing through whatever handle is mapped at a chunk, with  *)
(* each move a copy to new memory and the release of the old, it keeps the *)
(* same elements in the same capacity.                                     *)
THEOREM RemapImplements == RemapSpec => IsVector
<1>1. RemapInit => Init
  BY DEF RemapInit
<1>2. RemapInv /\ [RemapNext]_remapVars => [Next]_vars
  BY RemapStep
<1>3. QED
  BY <1>1, <1>2, RemapInvariant, PTL DEF RemapSpec, Spec, IsVector

(* Each chunk has memory of its own where its flag says, handles_ names it *)
(* and there is no other, through any growth and moves.                    *)
THEOREM LocatedCorrect == RemapSpec => []Located
<1>1. Placed => Located
  <2> SUFFICES ASSUME Placed PROVE Located
    OBVIOUS
  <2>1. PICK k \in Nat : k = Len(handles)
    BY DEF Placed
  <2>2. DOMAIN handles = 1 .. k /\ \A i \in 1 .. k : handles[i] \in Handle
    BY <2>1 DEF Placed
  <2>3. IsInjective(handles)
    BY <2>1, <2>2 DEF Placed, IsInjective
  <2>4. Handle \ Unused = ToSet(handles)
    BY <2>1, <2>2 DEF Placed, Unused, ToSet
  <2>5. ASSUME NEW i \in 1 .. k PROVE chunk_on_host[i] <=> memory[handles[i]].loc = "Host"
    <3>1. chunk_on_host[i] \in BOOLEAN
      BY <2>1 DEF Placed
    <3>2. memory[handles[i]].loc = Place(chunk_on_host[i])
      BY <2>1 DEF Placed
    <3>3. QED
      BY <3>1, <3>2 DEF Place
  <2>6. QED
    BY <2>1, <2>3, <2>4, <2>5 DEF Placed, Located
<1>2. QED
  BY <1>1, RemapInvariant, PTL DEF RemapInv
=============================================================================
