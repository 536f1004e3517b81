--------------------------- MODULE VMMRemapVector ---------------------------
(***************************************************************************)
(* experiments/VMMRemapShared/vmm_remap.cuh and remap.cuh: the vector of   *)
(* VMMVector with push_back and reserve only, and a call that moves the    *)
(* memory of one chunk between device and host at the same address.        *)
(*                                                                         *)
(* Here the driver's memory is explicit: an element is written and read    *)
(* through the handle mapped at its chunk's address.  chunks, of           *)
(* VMMVector, is what is read there; it is never written by itself.        *)
(***************************************************************************)
EXTENDS VMMVector

CONSTANT Handle  \* CUmemGenericAllocationHandle values

VARIABLES
    handles,        \* handles_
    chunk_on_host,  \* chunk_on_host_
    mapped,         \* the handle mapped at the address of each chunk
    memory          \* where the memory of each handle is and what it holds

driver == <<mapped, memory>>
remapVars == <<vars, handles, chunk_on_host, driver>>

NoMemory == [loc |-> "None", data |-> NewChunk]

\* What is read from d_ptr on.
Seen == [i \in 1 .. Len(mapped) |-> memory[mapped[i]].data]

RemapInit ==
    /\ Init /\ retain = -1
    /\ handles = <<>> /\ chunk_on_host = <<>>
    /\ mapped = <<>> /\ memory = [h \in Handle |-> NoMemory]

Unused == {h \in Handle : memory[h] = NoMemory}

\* create_chunk and cuMemMap for as many chunks as reserve(n) is short of.
Extra(n) == IF n <= Capacity THEN 0 ELSE (RoundUp(n) \div Fits) - Len(handles)
NewHandles(n) == {new \in [1 .. Extra(n) -> Unused] : IsInjective(new)}
Backed(new) ==
    [h \in Handle |-> IF h \in ToSet(new) THEN [loc |-> "Device", data |-> NewChunk] ELSE memory[h]]

Grown(new) ==
    /\ handles' = handles \o new
    /\ chunk_on_host' = chunk_on_host \o [i \in DOMAIN new |-> FALSE]
    /\ mapped' = mapped \o new

RemapReserve(n) ==
    /\ \/ Reservable(n) /\ \E new \in NewHandles(n) : Grown(new) /\ memory' = Backed(new)
       \/ ~Reservable(n) /\ UNCHANGED <<handles, chunk_on_host, driver>>
    /\ UNCHANGED <<size, pushed>>

\* cuMemcpyHtoD to d_ptr + i, given the memory m.
Stored(m, i, v) == [m EXCEPT ![mapped'[i \div Fits + 1]].data[i % Fits] = v]

RemapPush(v) ==
    \/ /\ Reservable(Wanted)
       /\ \E new \in NewHandles(Wanted) : Grown(new) /\ memory' = Stored(Backed(new), size, v)
       /\ size' = size + 1 /\ pushed' = Append(pushed, v)
    \/ ~Reservable(Wanted) /\ UNCHANGED <<size, pushed, handles, chunk_on_host, driver>>

Place(to_host) == IF to_host THEN "Host" ELSE "Device"

\* A likely slip, for the mutant runs: the new memory is swapped in without the copy.
StagedEmpty(i, nh, to_host) ==
    [memory EXCEPT ![nh] = [loc |-> Place(to_host), data |-> NewChunk]]

\* The new memory, once the chunk has been copied to it through the scratch address.
Staged(i, nh, to_host) ==
    [memory EXCEPT ![nh] = [loc |-> Place(to_host), data |-> memory[mapped[i]].data]]

\* A likely slip: the caller's handle is not brought up to date.
SwappedStale(i, nh, m) ==
    /\ memory' = [m EXCEPT ![handles[i]] = NoMemory]
    /\ mapped' = [mapped EXCEPT ![i] = nh]
    /\ UNCHANGED handles

\* The old memory is unmapped and released, the new one takes its address.
Swapped(i, nh, m) ==
    /\ memory' = [m EXCEPT ![handles[i]] = NoMemory]
    /\ mapped' = [mapped EXCEPT ![i] = nh]
    /\ handles' = [handles EXCEPT ![i] = nh]

\* A likely slip: the flag is not kept up.
FlaggedNever(i, to_host) == chunk_on_host

Flagged(i, to_host) == [chunk_on_host EXCEPT ![i] = to_host]

Remap(i, to_host) ==
    /\ \/ chunk_on_host[i] = to_host /\ UNCHANGED <<handles, chunk_on_host, driver>>
       \/ /\ chunk_on_host[i] # to_host
          /\ \E nh \in Unused : Swapped(i, nh, Staged(i, nh, to_host))
          /\ chunk_on_host' = Flagged(i, to_host)
    /\ UNCHANGED <<size, pushed>>

RemapNext ==
    /\ \/ \E v \in Value : RemapPush(v)
       \/ \E n \in 0 .. MaxCapacity + 1 : RemapReserve(n)
       \/ \E i \in 1 .. Len(handles), to_host \in BOOLEAN : Remap(i, to_host)
    /\ chunks' = Seen'
    /\ target' = size' /\ UNCHANGED retain

RemapSpec == RemapInit /\ [][RemapNext]_remapVars

-----------------------------------------------------------------------------
(* Each chunk has memory of its own, mapped at its place and named by      *)
(* handles_; there is no other memory, so the destructor releases all; and *)
(* the flag, by which remap does nothing, is where that memory is, through *)
(* growth and moves.                                                       *)
Located ==
    /\ mapped = handles /\ IsInjective(handles)
    /\ Handle \ Unused = ToSet(handles)
    /\ Len(chunk_on_host) = Len(handles)
    /\ \A i \in 1 .. Len(handles) : chunk_on_host[i] <=> memory[handles[i]].loc = "Host"

(* A move is invisible: whatever is remapped in between, the elements are  *)
(* read and written as in the vector whose memory stays where it is.       *)
IsVector == Spec
=============================================================================
