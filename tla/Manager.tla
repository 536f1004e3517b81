------------------------------ MODULE Manager ------------------------------
(***************************************************************************)
(* primitives/src/vmem.cuh: the Manager of the first prototype, over the   *)
(* CUDA driver's address ranges, allocations and mappings.  It is          *)
(* single-threaded: one action is one call, and its last parameter is what *)
(* the call returns, Failed if it throws.                                  *)
(*                                                                         *)
(* A call is its own checks, then a sequence of driver calls, then the     *)
(* change of its records.  It stops at the first driver call that fails,   *)
(* and what the earlier ones did stays.  The driver refuses what it must   *)
(* (overlapping mappings, a range still mapped, a released handle), and    *)
(* may also fail with no cause here.  Addresses and sizes count granules.  *)
(***************************************************************************)
EXTENDS Integers, Sequences

CONSTANTS
    Va,         \* granules of address space
    MaxId,      \* chunks created
    MaxHandle,  \* allocations at a time
    MaxFault,   \* failures of the driver with no cause here
    Nil

Loc == {"Device", "Host"}
Id == 0 .. MaxId - 1
Handle == 1 .. MaxHandle
Failed == -1

ASSUME ManagerAssumption ==
    /\ Va \subseteq Nat \ {0}
    /\ MaxId \in Nat /\ MaxHandle \in Nat /\ MaxFault \in Nat

VARIABLES
    reservations,  \* reservations_: size at each base, 0 for none
    chunks,        \* chunks_, NoChunk for none
    next,          \* next_id_
    driver,        \* address ranges, allocations by handle, what is mapped at an address
    faults,        \* failures with no cause so far
    broken         \* the CUDA context has a sticky error

records == <<reservations, chunks, next>>
vars == <<records, driver, faults, broken>>

NoChunk == [size |-> 0, loc |-> "None", h |-> 0, va |-> 0]
NoMemory == [loc |-> "None", data |-> <<>>, open |-> FALSE]
Unmapped == [h |-> 0, off |-> 0, rw |-> FALSE]
Nothing == [ranges |-> [v \in Va |-> 0], memory |-> [h \in Handle |-> NoMemory],
            at |-> [v \in Va |-> Unmapped]]

\* What a granule holds: nothing yet, or what pattern.cuh writes there.
Datum == {Nil} \cup (Id \X Nat)
Memory == [loc : Loc \cup {"None"}, data : Seq(Datum), open : BOOLEAN]
Entry == [h : {0} \cup Handle, off : Nat, rw : BOOLEAN]
Driver == [ranges : [Va -> Nat], memory : [Handle -> Memory], at : [Va -> Entry]]

ASSUME RefusalAssumption == Nil \notin Driver

Init ==
    /\ reservations = [v \in Va |-> 0]
    /\ chunks = [i \in Id |-> NoChunk] /\ next = 0
    /\ driver = Nothing /\ faults = 0 /\ broken = FALSE

Live == {i \in Id : chunks[i] # NoChunk}
Cells(v, n) == v .. v + n - 1

-----------------------------------------------------------------------------
(* The driver: each call gives its next state d, Nil if it refuses.        *)

Reservable(d, v, n) == n > 0 /\ Cells(v, n) \subseteq Va
                       /\ \A w \in Va : Cells(w, d.ranges[w]) \cap Cells(v, n) = {}

AddressReserve(d, v, n) ==
    IF d # Nil /\ Reservable(d, v, n) THEN [d EXCEPT !.ranges[v] = n] ELSE Nil

MemCreate(d, h, n, l) ==
    IF d # Nil /\ h \in Handle
    THEN [d EXCEPT !.memory[h] = [loc |-> l, data |-> [g \in 1 .. n |-> Nil], open |-> TRUE]]
    ELSE Nil

Mappable(d, v, h) == d.memory[h].open /\ \A a \in Cells(v, Len(d.memory[h].data)) :
    a \in Va /\ d.at[a] = Unmapped /\ \E w \in Va : a \in Cells(w, d.ranges[w])

\* Without access until SetAccess.
MemMap(d, v, h) ==
    IF d # Nil /\ Mappable(d, v, h)
    THEN [d EXCEPT !.at = [a \in Va |->
             IF a \in Cells(v, Len(d.memory[h].data)) THEN [h |-> h, off |-> a - v, rw |-> FALSE]
             ELSE d.at[a]]]
    ELSE Nil

\* Only of what is mapped.
SetAccess(d, v, n) ==
    IF d # Nil /\ \A a \in Cells(v, n) : a \in Va /\ d.at[a].h # 0
    THEN [d EXCEPT !.at = [a \in Va |->
                        IF a \in Cells(v, n) THEN [d.at[a] EXCEPT !.rw = TRUE] ELSE d.at[a]]]
    ELSE Nil

\* Memory goes with its last reference, the handle or a mapping.
Reclaimed(d) == [d EXCEPT !.memory = [h \in Handle |->
    IF d.memory[h].open \/ \E a \in Va : d.at[a].h = h THEN d.memory[h] ELSE NoMemory]]

MemRelease(d, h) ==
    IF d # Nil /\ d.memory[h].open THEN Reclaimed([d EXCEPT !.memory[h].open = FALSE]) ELSE Nil

\* Only a mapping as a whole.
MemUnmap(d, v, n) ==
    IF d # Nil /\ d.at[v].h # 0 /\ d.at[v].off = 0 /\ Len(d.memory[d.at[v].h].data) = n
    THEN Reclaimed([d EXCEPT !.at = [a \in Va |-> IF a \in Cells(v, n) THEN Unmapped ELSE d.at[a]]])
    ELSE Nil

AddressFree(d, v, n) ==
    IF d # Nil /\ d.ranges[v] = n /\ \A a \in Cells(v, n) : d.at[a] = Unmapped
    THEN [d EXCEPT !.ranges[v] = 0] ELSE Nil

\* What the device reads at an address, and what a write of val(a) at each cell leaves.
Accessible(d, v, n) == \A a \in Cells(v, n) : d.at[a].rw
Read(d, a) == d.memory[d.at[a].h].data[d.at[a].off + 1]
Overwritten(d, h, v, n, val) == [g \in 1 .. Len(d.memory[h].data) |->
    LET as == {a \in Cells(v, n) : d.at[a].h = h /\ d.at[a].off + 1 = g}
    IN  IF as = {} THEN d.memory[h].data[g] ELSE val[CHOOSE a \in as : TRUE]]
Written(d, v, n, val) == [d EXCEPT !.memory = [h \in Handle |->
    [d.memory[h] EXCEPT !.data = Overwritten(d, h, v, n, val)]]]

\* cuMemcpyDtoDAsync and the wait for it.
Memcpy(d, to, from, n) ==
    IF d # Nil /\ Accessible(d, from, n) /\ Accessible(d, to, n)
    THEN Written(d, to, n, [a \in Cells(to, n) |-> Read(d, from + a - to)]) ELSE Nil

-----------------------------------------------------------------------------
(* A sequence of driver calls, as the states it goes through.              *)

Quiet == UNCHANGED <<faults, broken>>

Fault == faults < MaxFault /\ faults' = faults + 1 /\ UNCHANGED broken

Works(ds) == ds[Len(ds)] # Nil /\ driver' = ds[Len(ds)] /\ Quiet

Stops(ds) == \E i \in 1 .. Len(ds) - 1 :
    /\ ds[i] # Nil /\ driver' = ds[i]
    /\ IF ds[i + 1] = Nil THEN Quiet ELSE Fault

\* VMEM_REQUIRE, or get's token checks.
Refused(r) == r = Failed /\ UNCHANGED vars

\* The handle of the next allocation, the least that is free; there is always room for one.
Fresh == {h \in Handle : /\ driver.memory[h] = NoMemory
                         /\ \A k \in 1 .. h - 1 : driver.memory[k] # NoMemory}

-----------------------------------------------------------------------------
(* reserve, create, map, unmap *)

Reserve(n, r) ==
    /\ \/ /\ r \in Va /\ Works(<<driver, AddressReserve(driver, r, n)>>)
          /\ reservations' = [reservations EXCEPT ![r] = n]
       \/ /\ r = Failed /\ UNCHANGED reservations
          /\ \/ /\ \A v \in Va : AddressReserve(driver, v, n) = Nil
                /\ Quiet /\ UNCHANGED driver
             \/ Fault /\ UNCHANGED driver
    /\ UNCHANGED <<chunks, next>>

Create(n, l, r) ==
    \/ n = 0 /\ Refused(r)
    \/ /\ n > 0 /\ next < MaxId
       /\ \E h \in Fresh :
             LET ds == <<driver, MemCreate(driver, h, n, l)>>
             IN  \/ /\ r = next /\ Works(ds)
                    /\ chunks' = [chunks EXCEPT ![r] = [size |-> n, loc |-> l, h |-> h, va |-> 0]]
                    /\ next' = next + 1
                 \/ /\ r = Failed /\ Stops(ds)
                    /\ UNCHANGED <<chunks, next>>
       /\ UNCHANGED reservations

\* A likely slip, for the mutant runs: only the first address is looked up.
InsideStartOnly(v, n) == \E w \in Va : v \in Cells(w, reservations[w])

\* inside_reservation
Inside(v, n) == \E w \in Va : reservations[w] > 0 /\ Cells(v, n) \subseteq Cells(w, reservations[w])

\* There is no check for overlap: the driver refuses it.
Map(i, v, r) ==
    IF i \notin Live \/ chunks[i].va # 0 \/ ~Inside(v, chunks[i].size) THEN Refused(r)
    ELSE LET c == chunks[i]
             mapped == MemMap(driver, v, c.h)
             ds == <<driver, mapped, SetAccess(mapped, v, c.size)>>
         IN  /\ \/ r = v /\ Works(ds) /\ chunks' = [chunks EXCEPT ![i].va = v]
                \/ r = Failed /\ Stops(ds) /\ UNCHANGED chunks
             /\ UNCHANGED <<reservations, next>>

Unmap(i, r) ==
    IF i \notin Live \/ chunks[i].va = 0 THEN Refused(r)
    ELSE LET c == chunks[i]
             ds == <<driver, MemUnmap(driver, c.va, c.size)>>
         IN  /\ \/ r = c.va /\ Works(ds) /\ chunks' = [chunks EXCEPT ![i].va = 0]
                \/ r = Failed /\ Stops(ds) /\ UNCHANGED chunks
             /\ UNCHANGED <<reservations, next>>

-----------------------------------------------------------------------------
(* remap: new memory, a copy through a scratch range s, then the swap.     *)

\* Likely slips: the new memory is mapped without the copy; the scratch range stays.
CopySkipped(d, to, from, n) == d
ScratchKept(d, s, n) == d

Copied(d, to, from, n) == Memcpy(d, to, from, n)
ScratchFreed(d, s, n) == AddressFree(d, s, n)

RemapCalls(c, h, s, l) ==
    LET d1 == MemCreate(driver, h, c.size, l)
        d2 == AddressReserve(d1, s, c.size)
        d3 == MemMap(d2, s, h)
        d4 == SetAccess(d3, s, c.size)
        d5 == Copied(d4, s, c.va, c.size)
        d6 == MemUnmap(d5, c.va, c.size)
        d7 == MemRelease(d6, c.h)
        d8 == MemMap(d7, c.va, h)
        d9 == SetAccess(d8, c.va, c.size)
        d10 == MemUnmap(d9, s, c.size)
    IN  <<driver, d1, d2, d3, d4, d5, d6, d7, d8, d9, d10, ScratchFreed(d10, s, c.size)>>

\* A likely slip: the old handle stays in the record.
MovedHandleKept(c, h, l) == [c EXCEPT !.loc = l]
Moved(c, h, l) == [size |-> c.size, loc |-> l, h |-> h, va |-> c.va]

\* The address space does not run out: there is a free range for s.
Scratch(n) == {s \in Va : AddressReserve(driver, s, n) # Nil}

Remap(i, l, r) ==
    IF i \notin Live \/ chunks[i].va = 0 THEN Refused(r)
    ELSE IF chunks[i].loc = l THEN r = chunks[i].va /\ UNCHANGED vars
    ELSE /\ \E h \in Fresh, s \in Scratch(chunks[i].size) :
              LET c == chunks[i]
                  ds == RemapCalls(c, h, s, l)
              IN  \/ r = c.va /\ Works(ds) /\ chunks' = [chunks EXCEPT ![i] = Moved(c, h, l)]
                  \/ r = Failed /\ Stops(ds) /\ UNCHANGED chunks
         /\ UNCHANGED <<reservations, next>>

-----------------------------------------------------------------------------
(* release, free, the queries, the destructor *)

\* A likely slip: the id of a released chunk is given back.
NextGivenBack == next - 1
NextAfterRelease == next

Release(i, r) ==
    IF i \notin Live \/ chunks[i].va # 0 THEN Refused(r)
    ELSE LET ds == <<driver, MemRelease(driver, chunks[i].h)>>
         IN  /\ \/ /\ r = chunks[i].size /\ Works(ds)
                   /\ chunks' = [chunks EXCEPT ![i] = NoChunk] /\ next' = NextAfterRelease
                \/ r = Failed /\ Stops(ds) /\ UNCHANGED <<chunks, next>>
             /\ UNCHANGED reservations

Free(v, r) ==
    IF \/ v \notin Va \/ reservations[v] = 0
       \/ \E i \in Live : chunks[i].va \in Cells(v, reservations[v])
    THEN Refused(r)
    ELSE LET ds == <<driver, AddressFree(driver, v, reservations[v])>>
         IN  /\ \/ /\ r = reservations[v] /\ Works(ds)
                   /\ reservations' = [reservations EXCEPT ![v] = 0]
                \/ r = Failed /\ Stops(ds) /\ UNCHANGED reservations
             /\ UNCHANGED <<chunks, next>>

\* va; loc, on_device and info ask for the token only.
Address(i, r) ==
    IF i \notin Live \/ chunks[i].va = 0 THEN Refused(r) ELSE r = chunks[i].va /\ UNCHANGED vars
Lookup(i, r) ==
    IF i \notin Live THEN Refused(r) ELSE r = 0 /\ UNCHANGED vars

\* ~Manager, best effort: chunk by chunk, then the ranges, each in the order of its
\* map.  A record goes when the loop has been there.  A call that fails, refused or the
\* failing one, changes nothing and is printed.
Try(s, d, call, failing) ==
    IF d = Nil \/ call = failing THEN [s EXCEPT !.clean = FALSE] ELSE [s EXCEPT !.d = d]

Tried == [d |-> driver, clean |-> TRUE]

Dropped(c, failing) ==
    LET u == IF c.va = 0 THEN Tried
             ELSE Try(Tried, MemUnmap(driver, c.va, c.size), "unmap", failing)
    IN  Try(u, MemRelease(u.d, c.h), "release", failing)

Freed(v, failing) == Try(Tried, AddressFree(driver, v, reservations[v]), "free", failing)

Ends(s, clean, failing) ==
    /\ driver' = s.d /\ clean = s.clean
    /\ IF failing = "none" THEN Quiet ELSE ~clean /\ Fault

DropChunk(clean) == \E i \in Live, failing \in {"none", "unmap", "release"} :
    /\ \A j \in Live : i <= j
    /\ Ends(Dropped(chunks[i], failing), clean, failing)
    /\ chunks' = [chunks EXCEPT ![i] = NoChunk]
    /\ UNCHANGED <<reservations, next>>

FreeRange(clean) == \E v \in Va, failing \in {"none", "free"} :
    /\ Live = {} /\ reservations[v] > 0 /\ \A w \in Va : reservations[w] > 0 => v <= w
    /\ Ends(Freed(v, failing), clean, failing)
    /\ reservations' = [reservations EXCEPT ![v] = 0]
    /\ UNCHANGED <<chunks, next>>

\* With a broken context every call fails.
Abandon(clean) ==
    /\ ~clean /\ UNCHANGED <<driver, next>> /\ Quiet
    /\ reservations' = [v \in Va |-> 0] /\ chunks' = [i \in Id |-> NoChunk]

Emptied == Live = {} /\ \A v \in Va : reservations[v] = 0

Destroy(clean) == IF broken THEN Abandon(clean) ELSE DropChunk(clean) \/ FreeRange(clean)

-----------------------------------------------------------------------------
(* Types; every id is below next_id_.                                      *)
TypeOK ==
    /\ reservations \in [Va -> Nat] /\ driver.ranges \in [Va -> Nat]
    /\ next \in 0 .. MaxId /\ \A i \in Live : i < next
    /\ \A i \in Live : chunks[i].size \in Nat \ {0} /\ chunks[i].loc \in Loc
                       /\ chunks[i].h \in Handle /\ chunks[i].va \in {0} \cup Va
    /\ \A h \in Handle : driver.memory[h].loc \in Loc \cup {"None"}
    /\ \A v \in Va : driver.at[v].h \in {0} \cup Handle
    /\ faults \in 0 .. MaxFault /\ broken \in BOOLEAN

(* While no driver call fails without cause, the Manager's records are the *)
(* driver's: the ranges, the memory behind each chunk, where it is mapped; *)
(* nothing else is left, not the scratch range or the old memory of a      *)
(* remap, and after the destructor nothing at all.                         *)
MappedAt(v) == {i \in Live : chunks[i].va # 0 /\ v \in Cells(chunks[i].va, chunks[i].size)}

Exact == faults = 0 =>
    /\ ~broken
    /\ driver.ranges = reservations
    /\ {h \in Handle : driver.memory[h] # NoMemory} = {chunks[i].h : i \in Live}
    /\ \A i \in Live : LET m == driver.memory[chunks[i].h]
                       IN  m.open /\ m.loc = chunks[i].loc /\ Len(m.data) = chunks[i].size
    /\ \A v \in Va :
          /\ \A i \in MappedAt(v) :
                driver.at[v] = [h |-> chunks[i].h, off |-> v - chunks[i].va, rw |-> TRUE]
          /\ MappedAt(v) = {} => driver.at[v] = Unmapped

(* A mapped chunk lies inside one reservation: free looks only at where    *)
(* chunks begin, and takes a range with nothing mapped in it.  Also after  *)
(* any failures of the driver.                                             *)
Placed == \A i \in Live : chunks[i].va # 0 =>
    \E v \in Va : /\ reservations[v] > 0
                  /\ Cells(chunks[i].va, chunks[i].size) \subseteq Cells(v, reservations[v])
=============================================================================
