----------------------------- MODULE VMMVector -----------------------------
(***************************************************************************)
(* experiments/VMMVector/vmm_vector.cuh: a vector on the GPU that grows    *)
(* and shrinks by whole chunks behind one reserved address range.  A       *)
(* failing CUDA call ends the process, so there is no partial failure; a   *)
(* reserve past the range throws and changes nothing.                      *)
(***************************************************************************)
EXTENDS SequencesExt, Integers

CONSTANTS
    Fits,         \* chunk_fits_, elements in a chunk
    MaxCapacity,  \* max_capacity_, rounded up to whole chunks
    Value,        \* elements
    Default,      \* T{}
    Garbage,      \* what new memory holds
    Retains       \* values of retain_last_

ASSUME VectorAssumption ==
    /\ Fits \in Nat \ {0} /\ MaxCapacity \in Nat /\ MaxCapacity % Fits = 0
    /\ Default \in Value /\ Garbage \notin Value
    /\ Retains \subseteq {-1} \cup Nat

VARIABLES
    size,    \* size_
    chunks,  \* handles_ with the contents of each, mapped in order from d_ptr
    retain,  \* retain_last_
    target,  \* where resize is going, size_ between calls
    pushed   \* the elements as the caller knows them

vars == <<size, chunks, retain, target, pushed>>

Capacity == Len(chunks) * Fits

Init ==
    /\ size = 0 /\ chunks = <<>> /\ target = 0 /\ pushed = <<>>
    /\ retain \in Retains

RoundUp(n) == ((n + Fits - 1) \div Fits) * Fits

NewChunk == [k \in 0 .. Fits - 1 |-> Garbage]

\* A likely slip, for the mutant runs: the end of the address range is not checked.
ReservableUnchecked(n) == TRUE

\* The chunks after reserve(n), which throws unless Reservable(n).
Reservable(n) == n <= Capacity \/ RoundUp(n) <= MaxCapacity
Reserved(n) ==
    IF n <= Capacity THEN chunks
    ELSE chunks \o [i \in 1 .. (RoundUp(n) \div Fits) - Len(chunks) |-> NewChunk]

Put(cs, i, v) == [cs EXCEPT ![i \div Fits + 1][i % Fits] = v]

Wanted == IF size < Capacity THEN Capacity ELSE IF size > 1 THEN size * 2 ELSE 2

Push(v) ==
    /\ UNCHANGED retain
    /\ \/ /\ Reservable(Wanted)
          /\ chunks' = Put(Reserved(Wanted), size, v)
          /\ size' = size + 1 /\ pushed' = Append(pushed, v)
       \/ ~Reservable(Wanted) /\ UNCHANGED <<size, chunks, pushed>>

\* A likely slip: one chunk fewer is kept.
SparedOneLess(cs, n) ==
    IF retain # -1 /\ Len(cs) > 0 /\ Len(cs) * Fits - n >= retain * Fits THEN Front(cs) ELSE cs

\* What a pop that leaves n elements keeps: the last chunk goes if enough are spare.
Spared(cs, n) ==
    IF retain # -1 /\ Len(cs) * Fits - n >= (retain + 1) * Fits THEN Front(cs) ELSE cs

Pop ==
    /\ UNCHANGED retain
    /\ \/ size = 0 /\ UNCHANGED <<size, chunks, pushed>>
       \/ /\ size > 0
          /\ size' = size - 1 /\ pushed' = Front(pushed)
          /\ chunks' = Spared(chunks, size - 1)

Reserve(n) ==
    /\ \/ Reservable(n) /\ chunks' = Reserved(n)
       \/ ~Reservable(n) /\ UNCHANGED chunks
    /\ UNCHANGED <<size, retain, pushed>>

SetRetain(r) == retain' = r /\ UNCHANGED <<size, chunks, pushed>>

\* resize: it reserves if it grows, then pops or pushes one by one.
Resize(n) ==
    /\ IF n > size THEN Reserve(n) ELSE UNCHANGED <<size, chunks, retain, pushed>>
    /\ target' = IF n <= size \/ Reservable(n) THEN n ELSE target

\* Each push is a push_back, and each pop a pop_back.
ResizeOne == IF size > target THEN Pop ELSE Push(Default)

Call ==
    \/ \E v \in Value : Push(v)
    \/ Pop
    \/ \E n \in 0 .. MaxCapacity + 1 : Reserve(n)
    \/ \E r \in Retains : SetRetain(r)

Next ==
    \/ size = target /\ Call /\ target' = size'
    \/ size = target /\ \E n \in 0 .. MaxCapacity + 1 : Resize(n)
    \/ size # target /\ ResizeOne /\ UNCHANGED target

Spec == Init /\ [][Next]_vars

-----------------------------------------------------------------------------
(* Types; the elements, and those resize is to bring, are within the       *)
(* chunks, and those within the range.                                     *)
TypeOK ==
    /\ size \in 0 .. Capacity /\ target \in 0 .. Capacity /\ Capacity <= MaxCapacity
    /\ retain \in Retains
    /\ pushed \in Seq(Value) /\ Len(pushed) = size

(* The device holds what the caller pushed, whatever was popped, released  *)
(* and mapped again in between.                                            *)
ElementsKept == \A i \in 0 .. size - 1 :
    /\ i < Capacity
    /\ chunks[i \div Fits + 1][i % Fits] = pushed[i + 1]
=============================================================================
