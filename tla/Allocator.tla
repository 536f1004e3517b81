----------------------------- MODULE Allocator -----------------------------
(***************************************************************************)
(* The allocator of libvmem/src/libvmem.cuh: small objects in slabs of one *)
(* object size each, large ones in a chunk of their own, over a backend    *)
(* that may refuse or fail at every call: vmem's, or one of the two thin   *)
(* ones of backends/uvm.h and cuda.h.  It is single-threaded; one action   *)
(* is one call of the API.                                                 *)
(*                                                                         *)
(* Addresses are numbers, so that the lookup of a pointer among the        *)
(* regions is the code's: the last region that begins at or before it, if  *)
(* it is inside.  The application may free and hint any address it likes.  *)
(***************************************************************************)
EXTENDS FiniteSetsExt, SequencesExt, Totals

CONSTANTS
    Base,        \* addresses at which the backend may create a chunk
    Address,     \* addresses the application may pass
    Request,     \* sizes it asks for
    Granularity, \* Backend::granularity
    SmallMax,    \* Config::small_max
    SmallChunk,  \* Config::small_chunk, rounded up
    MinObj       \* Config::min_obj

Loc == {"Device", "Host"}
Kind == {"vmem", "uvm", "cuda"}

BitCeil(n) == Min({2 ^ i : i \in {j \in 0 .. n : 2 ^ j >= n}})

\* A likely slip, for the mutant runs: the size is rounded down.
RoundedDown(n) == (n \div Granularity) * Granularity

RoundUp(n) == ((n + Granularity - 1) \div Granularity) * Granularity
ObjOf(n) == BitCeil(Max({n, MinObj}))
Obj == {ObjOf(n) : n \in {m \in Request : m <= SmallMax}}

\* Addresses are finite, a request is at most its power of two, and a slab holds an
\* object; of the last the constructor checks only BitCeil(SmallMax) <= SmallChunk.
ASSUME AllocatorAssumption ==
    /\ Base \subseteq Address /\ Address \subseteq Nat \ {0} /\ IsFiniteSet(Base)
    /\ Request \subseteq Nat \ {0}
    /\ Granularity \in Nat \ {0} /\ SmallMax \in Nat /\ SmallChunk \in Nat
    /\ \A n \in Request : n <= SmallMax => ObjOf(n) \in n .. SmallChunk

VARIABLES
    regions,  \* regions_, NoRegion where there is none
    partial,  \* partial_: for each object size, the slabs with a free slot
    life,     \* "open"; "dead" is dead_; "closed" after the destructor
    backend,  \* which one b_ is
    held,     \* its chunks
    bytes,    \* its used_
    last      \* the last call, the size an alloc asks for, what it returned or threw

service == <<backend, held, bytes>>
vars == <<regions, partial, life, service, last>>

NoRegion == [size |-> 0, loc |-> "None", obj |-> 0, free |-> <<>>, busy |-> {}, used |-> 0]
NotHeld == [size |-> 0, loc |-> "None"]

Init ==
    /\ regions = [b \in Base |-> NoRegion]
    /\ partial = [obj \in Obj |-> {}]
    /\ backend \in Kind /\ held = [b \in Base |-> NotHeld] /\ bytes = 0
    /\ life = "open"
    /\ last = [call |-> "init", ptr |-> 0, size |-> 0, status |-> "Ok"]

Regions == {b \in Base : regions[b] # NoRegion}
Held == {b \in Base : held[b] # NotHeld}

Result(call, p, n, s) == last' = [call |-> call, ptr |-> p, size |-> n, status |-> s]

\* Nothing but the result; a Fatal one that is new kills the allocator.
Fails(call, p, n, s) ==
    /\ Result(call, p, n, s)
    /\ life' = IF s = "Fatal" THEN "dead" ELSE life
    /\ UNCHANGED <<regions, partial, service>>

-----------------------------------------------------------------------------
(* The backend.  A chunk goes to any place that does not overlap another;  *)
(* only vmem falls back to the host, and uvm says device and lets pages    *)
(* appear where they are touched.                                          *)

Fits(b, size) == \A c \in Held : b + size <= c \/ c + held[c].size <= b

Places == IF backend = "vmem" THEN Loc ELSE {"Device"}

Created(b, size, l) ==
    /\ Fits(b, size) /\ l \in Places
    /\ held' = [held EXCEPT ![b] = [size |-> size, loc |-> l]]
    /\ bytes' = bytes + size
    /\ UNCHANGED backend

\* A likely slip, for the mutant runs: the chunk is reset before its size is taken off.
DestroyedFirst(b) ==
    /\ held' = [held EXCEPT ![b] = NotHeld]
    /\ bytes' = bytes - held'[b].size
    /\ UNCHANGED backend

Destroyed(b) ==
    /\ held' = [held EXCEPT ![b] = NotHeld]
    /\ bytes' = bytes - held[b].size
    /\ UNCHANGED backend

CanMove == backend # "cuda"

\* A prefetch for uvm: where the chunk is said to be changes once it is done.
MovedTo(b, to) ==
    /\ held' = [held EXCEPT ![b].loc = to]
    /\ UNCHANGED <<backend, bytes>>

\* env_kind, open and the constructor's check: a wrong name or configuration, no managed
\* memory, a CUDA call fails; for vmem also a broker that is there and does not answer.
OpenFails(k) == {"Unsupported", "Fatal"} \cup IF k = "vmem" THEN {"Disconnected"} ELSE {}

-----------------------------------------------------------------------------
(* alloc *)

\* A slab starts with every slot free; slots are taken from the end.
NewRegion(size, l, obj) ==
    LET n == IF obj = 0 THEN 0 ELSE size \div obj
    IN  [size |-> size, loc |-> l, obj |-> obj, free |-> [i \in 1 .. n |-> n - i],
         busy |-> {}, used |-> 0]

Slots(r) == 0 .. (r.size \div r.obj) - 1

AllocLarge(n) ==
    /\ n > SmallMax
    /\ \/ \E b \in Base, l \in Loc :
             /\ Created(b, RoundUp(n), l)
             /\ regions' = [regions EXCEPT ![b] = NewRegion(RoundUp(n), l, 0)]
             /\ Result("alloc", b, n, "Ok")
             /\ UNCHANGED <<partial, life>>
       \/ \E s \in {"NoMemory", "Fatal"} : Fails("alloc", 0, n, s)

Taken(r) == [r EXCEPT !.free = Front(@), !.busy = @ \cup {Last(r.free)}, !.used = @ + 1]

\* A likely slip, for the mutant runs: the full slab stays in partial_.
TakeSlotKeeping(b, r, parts, n) ==
    /\ regions' = [regions EXCEPT ![b] = Taken(r)]
    /\ partial' = [partial EXCEPT ![r.obj] = parts]
    /\ Result("alloc", b + Last(r.free) * r.obj, n, "Ok")

\* Take the last free slot of region r at b; the slab leaves partial_ with its last one.
TakeSlot(b, r, parts, n) ==
    /\ regions' = [regions EXCEPT ![b] = Taken(r)]
    /\ partial' = [partial EXCEPT ![r.obj] = IF Len(r.free) = 1 THEN parts \ {b} ELSE parts]
    /\ Result("alloc", b + Last(r.free) * r.obj, n, "Ok")

AllocSmall(n) ==
    LET obj == ObjOf(n)
    IN  /\ n <= SmallMax
        /\ \/ /\ partial[obj] # {}
              /\ LET b == Min(partial[obj]) IN TakeSlot(b, regions[b], partial[obj], n)
              /\ UNCHANGED <<life, service>>
           \/ /\ partial[obj] = {}
              /\ \E b \in Base, l \in Loc :
                    /\ Created(b, SmallChunk, l)
                    /\ TakeSlot(b, NewRegion(SmallChunk, l, obj), {b}, n)
              /\ UNCHANGED life
           \/ /\ partial[obj] = {}
              /\ \E s \in {"NoMemory", "Fatal"} : Fails("alloc", 0, n, s)

-----------------------------------------------------------------------------
(* free *)

\* lookup: the region an address is in.
Covers(b, p) ==
    /\ b <= p /\ p < b + regions[b].size
    /\ \A c \in Regions : c <= p => c <= b
Found(p) == \E b \in Regions : Covers(b, p)
RegionOf(p) == CHOOSE b \in Regions : Covers(b, p)

\* A likely slip: the start of a slot is enough.
GoodOffset(p) ==
    Found(p) /\ LET b == RegionOf(p)
                    r == regions[b]
                IN  IF r.obj = 0 THEN p = b ELSE (p - b) % r.obj = 0

\* The start of an allocation; anything else is refused.
Good(p) ==
    Found(p) /\ LET b == RegionOf(p)
                    r == regions[b]
                IN  IF r.obj = 0 THEN p = b
                    ELSE (p - b) % r.obj = 0 /\ (p - b) \div r.obj \in r.busy

FreeBad(p) == ~Good(p) /\ Fails("free", p, 0, "Unsupported")

\* A likely slip: the slot stays busy.
ReturnedBusy(b, p) ==
    LET r == regions[b]
        slot == (p - b) \div r.obj
    IN  IF r.obj = 0 THEN r
        ELSE [r EXCEPT !.free = Append(@, slot), !.used = @ - 1]

Returned(b, p) ==
    LET r == regions[b]
        slot == (p - b) \div r.obj
    IN  IF r.obj = 0 THEN r
        ELSE [r EXCEPT !.busy = @ \ {slot}, !.free = Append(@, slot), !.used = @ - 1]

\* A likely slip: used is tested before it is decremented, and an empty slab stays.
FreeSlotPostfix(p) ==
    /\ Good(p)
    /\ LET b == RegionOf(p)
       IN  /\ regions[b].obj # 0 /\ regions[b].used > 0
           /\ regions' = [regions EXCEPT ![b] = Returned(b, p)]
           /\ partial' = [partial EXCEPT ![regions[b].obj] = @ \cup {b}]
    /\ Result("free", p, 0, "Ok")
    /\ UNCHANGED <<life, service>>

\* The slab keeps other objects.
FreeSlot(p) ==
    /\ Good(p)
    /\ LET b == RegionOf(p)
       IN  /\ regions[b].obj # 0 /\ regions[b].used > 1
           /\ regions' = [regions EXCEPT ![b] = Returned(b, p)]
           /\ partial' = [partial EXCEPT ![regions[b].obj] = @ \cup {b}]
    /\ Result("free", p, 0, "Ok")
    /\ UNCHANGED <<life, service>>

\* A likely slip: the erase is not limited to slabs, and makes an entry for size 0.
UnlistedAlways(obj, b) == [o \in Obj \cup {obj} |-> IF o = 0 THEN {} ELSE partial[o] \ {b}]

Unlisted(obj, b) == [o \in Obj |-> IF o = obj THEN partial[o] \ {b} ELSE partial[o]]

\* The region is empty: synchronize, destroy the chunk, erase the region.
FreeRegion(p) ==
    /\ Good(p)
    /\ LET b == RegionOf(p)
           obj == regions[b].obj
       IN  /\ obj # 0 => regions[b].used = 1
           /\ partial' = Unlisted(obj, b)
           /\ \/ /\ regions' = [regions EXCEPT ![b] = NoRegion]
                 /\ Destroyed(b)
                 /\ Result("free", p, 0, "Ok")
                 /\ UNCHANGED life
              \/ /\ regions' = [regions EXCEPT ![b] = NoRegion]   \* destroy failed
                 /\ Result("free", p, 0, "Fatal")
                 /\ life' = "dead" /\ UNCHANGED service
              \/ /\ regions' = [regions EXCEPT ![b] = Returned(b, p)]   \* sync failed
                 /\ Result("free", p, 0, "Fatal")
                 /\ life' = "dead" /\ UNCHANGED service

-----------------------------------------------------------------------------
(* evict and prefetch *)

Movable(p) == CanMove /\ Found(p) /\ regions[RegionOf(p)].obj = 0

\* A refusal, nothing to do, a failed synchronization, or the backend's answer.
MoveTo(p, to) ==
    \/ ~Movable(p) /\ Fails("move", p, 0, "Unsupported")
    \/ Movable(p) /\ regions[RegionOf(p)].loc = to /\ Fails("move", p, 0, "Ok")
    \/ /\ Movable(p) /\ regions[RegionOf(p)].loc # to
       /\ \/ \E s \in {"NoMemory", "Fatal"} : Fails("move", p, 0, s)
          \/ /\ regions' = [regions EXCEPT ![RegionOf(p)].loc = to]
             /\ MovedTo(RegionOf(p), to)
             /\ Result("move", p, 0, "Ok")
             /\ UNCHANGED <<partial, life>>

-----------------------------------------------------------------------------
\* live(): once dead, every call fails, and a hint says so.
Dead ==
    \/ \E n \in Request : Fails("alloc", 0, n, "Fatal")
    \/ \E p \in Address, call \in {"free", "move"} : Fails(call, p, 0, "Fatal")

\* The destructor: a dead allocator destroys nothing, an open one what it can.
Shutdown ==
    /\ life # "closed" /\ life' = "closed"
    /\ regions' = [b \in Base |-> NoRegion]
    /\ partial' = [obj \in Obj |-> {}]
    /\ \E kept \in IF life = "dead" THEN {Held} ELSE SUBSET Held :
          held' = [b \in Base |-> IF b \in kept THEN held[b] ELSE NotHeld]
    /\ bytes' = 0   \* the backend goes with it
    /\ Result("shutdown", 0, 0, "Ok")
    /\ UNCHANGED backend

\* init: the new allocator is there before the old one, if any, is destroyed, and a
\* failure leaves things as they were.  What the old backend could not destroy is
\* lost; the new one has nothing.
Reopen ==
    \/ \E k \in Kind : \E s \in OpenFails(k) :
          Result("init", 0, 0, s) /\ UNCHANGED <<regions, partial, life, service>>
    \/ /\ life' = "open" /\ backend' \in Kind
       /\ regions' = [b \in Base |-> NoRegion]
       /\ partial' = [obj \in Obj |-> {}]
       /\ held' = [b \in Base |-> NotHeld] /\ bytes' = 0
       /\ Result("init", 0, 0, "Ok")

Next ==
    \/ /\ life = "open"
       /\ \/ \E n \in Request : AllocLarge(n) \/ AllocSmall(n)
          \/ \E p \in Address : FreeBad(p) \/ FreeSlot(p) \/ FreeRegion(p)
          \/ \E p \in Address, to \in Loc : MoveTo(p, to)
    \/ life = "dead" /\ Dead
    \/ Shutdown \/ Reopen

Spec == Init /\ [][Next]_vars

-----------------------------------------------------------------------------
Region == [size : Nat, loc : Loc \cup {"None"}, obj : Obj \cup {0},
           free : Seq(Nat), busy : SUBSET Nat, used : Nat]

(* Types of the allocator's tables.                                        *)
TypeOK ==
    /\ regions \in [Base -> Region]
    /\ partial \in [Obj -> SUBSET Base]
    /\ life \in {"open", "dead", "closed"}
    /\ held \in [Base -> [size : Nat, loc : Loc \cup {"None"}]]
    /\ backend \in Kind /\ bytes \in Nat

(* Each slab's three records of its slots agree: free_slots lists, once    *)
(* each, the slots that busy has not, and used counts the others.          *)
SlotsExact == \A b \in Regions :
    LET r == regions[b]
    IN  r.obj # 0 =>
          /\ IsInjective(r.free)
          /\ ToSet(r.free) = Slots(r) \ r.busy
          /\ r.busy \subseteq Slots(r)
          /\ r.used = Cardinality(r.busy)

(* partial_ holds exactly the slabs with a free slot, under their object   *)
(* size, so no free slot is forgotten and alloc never meets a full slab or *)
(* a region that is gone.                                                  *)
PartialExact == life = "open" => \A obj \in Obj :
    partial[obj] = {b \in Regions : regions[b].obj = obj /\ regions[b].free # <<>>}

(* The regions are the backend's chunks, with their sizes and locations,   *)
(* over any backend and whatever failed before; used() is their bytes; and *)
(* an empty slab is given back at once.                                    *)
RegionsMatch == life = "open" =>
    /\ \A b \in Base : held[b] = [size |-> regions[b].size, loc |-> regions[b].loc]
    /\ bytes = Total([b \in Base |-> regions[b].size])
    /\ \A b \in Regions : regions[b].obj # 0 => regions[b].used > 0

(* The application's allocations, read off the tables.                     *)
Live == {[ptr |-> b, size |-> regions[b].size] : b \in {c \in Regions : regions[c].obj = 0}}
    \cup UNION {{[ptr |-> b + s * regions[b].obj, size |-> regions[b].obj] :
                    s \in regions[b].busy} : b \in Regions}

Promise == INSTANCE Heap WITH live <- Live

(* The allocator keeps the promise of module Heap: memory handed out is    *)
(* as large as asked and overlaps no other allocation, free takes back its      *)
(* allocation and no other, and a misused pointer changes nothing.         *)
KeepsHeap == Promise!Spec
=============================================================================
