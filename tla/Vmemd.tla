------------------------------- MODULE Vmemd -------------------------------
(***************************************************************************)
(* The broker, libvmem/daemon/vmemd.cpp.  One epoll thread handles one     *)
(* event at a time: a new connection, a closed one, or one message of one  *)
(* tenant.  Each handler is an action here, and each action is one         *)
(* iteration of the event loop.                                            *)
(*                                                                         *)
(* Messages are raw: any tenant may send any message in any order, as the  *)
(* raw client of tests/daemon does, for the handlers are written for it.   *)
(* Bytes are counted in a unit the model leaves open (a chunk granule).    *)
(* The code's counters are size_t; here they are integers, and that they   *)
(* never fall below zero is a theorem about messages that keep to SameSize. *)
(***************************************************************************)
EXTENDS Totals

CONSTANTS
    Fd,           \* socket descriptors the broker may hand out
    Ptr,          \* chunk names: the addresses a tenant reserves
    Size,         \* chunk sizes a message may carry
    Limit,        \* g.vram_limit and g.dram_limit; UNLIMITED is a large number
    CtxOverhead,  \* g.ctx_overhead
    Nil           \* neither an address nor a descriptor

Loc == {"Device", "Host"}

ASSUME VmemdAssumption ==
    /\ IsFiniteSet(Fd)
    /\ IsFiniteSet(Ptr)
    /\ Nil \notin Ptr
    /\ Size \subseteq Nat
    /\ Limit \in [Loc -> Nat]
    /\ CtxOverhead \in Nat

VARIABLES
    tenants,  \* descriptors with an entry in the tenant map
    hello,    \* Tenant::hello
    chunks,   \* Tenant::chunks, NoChunk where there is no entry
    moving,   \* Tenant::moving, NoMove when empty
    used,     \* Tenant::device and Tenant::host
    total,    \* Global::device and Global::host
    last      \* the last line of the log: the event, the size an Alloc asks for, the reply

vars == <<tenants, hello, chunks, moving, used, total, last>>

Chunk   == [size : Size, loc : Loc]
NoChunk == [size |-> 0, loc |-> "None"]
Move    == [ptr : Ptr, to : Loc]
NoMove  == [ptr |-> Nil, to |-> "None"]

MessageType == {"Hello", "Alloc", "AllocFail", "Free", "Move", "MoveDone", "Resync"}
Event == [type : MessageType \cup {"Start", "Connect", "Disconnect"},
          fd : Fd \cup {Nil}, size : Size \cup {0}, status : {"Ok", "NoMemory", "Unsupported", "None"}]

Logged(type, fd, n, status) ==
    last' = [type |-> type, fd |-> fd, size |-> n, status |-> status]

Tracked(fd) == {p \in Ptr : chunks[fd][p] # NoChunk}

-----------------------------------------------------------------------------
(* Accounting. *)

At(loc, l, n) == IF loc = l THEN n ELSE 0

\* A likely slip, for the mutant runs: the new bytes are left out.
FitsWithoutNew(l, n) == total[l] <= Limit[l]

Fits(l, n) == total[l] + n <= Limit[l]

\* The effect of a handler's update_count calls, added up: delta[l] more bytes at l.
UpdateCount(fd, delta) ==
    /\ used' = [used EXCEPT ![fd] = [l \in Loc |-> used[fd][l] + delta[l]]]
    /\ total' = [l \in Loc |-> total[l] + delta[l]]

UnchangedCount == UNCHANGED <<used, total>>

\* A likely slip: nobody remembers the reservation.
ReservedNowhere(fd, p) == "None"

\* Where a granted move of p holds its target bytes.
ReservedAt(fd, p) == IF moving[fd].ptr = p THEN moving[fd].to ELSE "None"

\* A likely slip: the move stays granted.
KeepMove(fd, p) == UNCHANGED moving

DropMove(fd, p) ==
    moving' = IF moving[fd].ptr = p THEN [moving EXCEPT ![fd] = NoMove] ELSE moving

Record(fd, p, n, l) == chunks' = [chunks EXCEPT ![fd][p] = [size |-> n, loc |-> l]]

-----------------------------------------------------------------------------
(* Connections. *)

Init ==
    /\ tenants = {}
    /\ hello = [fd \in Fd |-> FALSE]
    /\ chunks = [fd \in Fd |-> [p \in Ptr |-> NoChunk]]
    /\ moving = [fd \in Fd |-> NoMove]
    /\ used = [fd \in Fd |-> [l \in Loc |-> 0]]
    /\ total = [l \in Loc |-> 0]
    /\ last = [type |-> "Start", fd |-> Nil, size |-> 0, status |-> "None"]

Connect(fd) ==
    /\ fd \notin tenants
    /\ tenants' = tenants \cup {fd}
    /\ Logged("Connect", fd, 0, "None")
    /\ UNCHANGED <<hello, chunks, moving, used, total>>

\* A likely slip: the tenant's share stays in the totals.
DisconnectKeepingShare(fd) ==
    /\ fd \in tenants
    /\ tenants' = tenants \ {fd}
    /\ hello' = [hello EXCEPT ![fd] = FALSE]
    /\ chunks' = [chunks EXCEPT ![fd] = [p \in Ptr |-> NoChunk]]
    /\ moving' = [moving EXCEPT ![fd] = NoMove]
    /\ used' = [used EXCEPT ![fd] = [l \in Loc |-> 0]]
    /\ Logged("Disconnect", fd, 0, "None")
    /\ UNCHANGED total

\* A likely slip: the entry of the tenant map is not erased.
DisconnectKeepingRecord(fd) ==
    /\ fd \in tenants
    /\ tenants' = tenants \ {fd}
    /\ total' = [l \in Loc |-> total[l] - used[fd][l]]
    /\ Logged("Disconnect", fd, 0, "None")
    /\ UNCHANGED <<hello, chunks, moving, used>>

\* End of file, a receive error or a message of the wrong size.
Disconnect(fd) ==
    /\ fd \in tenants
    /\ tenants' = tenants \ {fd}
    /\ total' = [l \in Loc |-> total[l] - used[fd][l]]
    /\ hello' = [hello EXCEPT ![fd] = FALSE]
    /\ chunks' = [chunks EXCEPT ![fd] = [p \in Ptr |-> NoChunk]]
    /\ moving' = [moving EXCEPT ![fd] = NoMove]
    /\ used' = [used EXCEPT ![fd] = [l \in Loc |-> 0]]
    /\ Logged("Disconnect", fd, 0, "None")

-----------------------------------------------------------------------------
(* Messages. *)

Hello(fd) ==
    /\ fd \in tenants
    /\ IF hello[fd]
       THEN UNCHANGED <<hello, used, total>>
       ELSE /\ hello' = [hello EXCEPT ![fd] = TRUE]
            /\ UpdateCount(fd, [l \in Loc |-> At("Device", l, CtxOverhead)])
    /\ Logged("Hello", fd, 0, "Ok")
    /\ UNCHANGED <<tenants, chunks, moving>>

\* A likely slip: a full device is a refusal, and host is never tried.
PlaceDeviceOnly(n) == IF Fits("Device", n) THEN "Device" ELSE "None"

\* Where a new chunk goes: device, then host, then nowhere.
Place(n) ==
    IF Fits("Device", n) THEN "Device" ELSE IF Fits("Host", n) THEN "Host" ELSE "None"

Alloc(fd, p, n) ==
    /\ fd \in tenants
    /\ \/ /\ p \in Tracked(fd)
          /\ Logged("Alloc", fd, n, "Unsupported")
          /\ UNCHANGED chunks /\ UnchangedCount
       \/ /\ p \notin Tracked(fd)
          /\ Place(n) = "None"
          /\ Logged("Alloc", fd, n, "NoMemory")
          /\ UNCHANGED chunks /\ UnchangedCount
       \/ /\ p \notin Tracked(fd)
          /\ Place(n) # "None"
          /\ Record(fd, p, n, Place(n))
          /\ UpdateCount(fd, [l \in Loc |-> At(Place(n), l, n)])
          /\ Logged("Alloc", fd, n, "Ok")
    /\ UNCHANGED <<tenants, hello, moving>>

\* A likely slip: the chunk and its location are not checked.
AllocFailUnchecked(fd, p) ==
    /\ fd \in tenants
    /\ LET n == chunks[fd][p].size
       IN  /\ Record(fd, p, n, "Host")
           /\ UpdateCount(fd, [l \in Loc |-> At("Host", l, n) - At("Device", l, n)])
    /\ Logged("AllocFail", fd, 0, "None")
    /\ UNCHANGED <<tenants, hello, moving>>

AllocFail(fd, p) ==
    /\ fd \in tenants
    /\ IF chunks[fd][p].loc = "Device"
       THEN LET n == chunks[fd][p].size
            IN  /\ Record(fd, p, n, "Host")
                /\ UpdateCount(fd, [l \in Loc |-> At("Host", l, n) - At("Device", l, n)])
       ELSE UNCHANGED chunks /\ UnchangedCount
    /\ Logged("AllocFail", fd, 0, "None")
    /\ UNCHANGED <<tenants, hello, moving>>

\* Move is refused for an unknown chunk, while another move is in flight, or without room.
MoveRequest(fd, p, to) ==
    /\ fd \in tenants
    /\ \/ /\ chunks[fd][p].loc = to
          /\ Logged("Move", fd, 0, "Ok")
          /\ UNCHANGED moving /\ UnchangedCount
       \/ /\ chunks[fd][p].loc # to
          /\ p \notin Tracked(fd) \/ moving[fd] # NoMove \/ ~Fits(to, chunks[fd][p].size)
          /\ Logged("Move", fd, 0, "NoMemory")
          /\ UNCHANGED moving /\ UnchangedCount
       \/ /\ p \in Tracked(fd)
          /\ chunks[fd][p].loc # to
          /\ moving[fd] = NoMove
          /\ Fits(to, chunks[fd][p].size)
          /\ UpdateCount(fd, [l \in Loc |-> At(to, l, chunks[fd][p].size)])
          /\ moving' = [moving EXCEPT ![fd] = [ptr |-> p, to |-> to]]
          /\ Logged("Move", fd, 0, "Ok")
    /\ UNCHANGED <<tenants, hello, chunks>>

MoveDone(fd, p, at) ==
    /\ fd \in tenants
    /\ IF p \in Tracked(fd)
       THEN LET c == chunks[fd][p]
            IN  /\ UpdateCount(fd, [l \in Loc |-> At(at, l, c.size) - At(c.loc, l, c.size)
                                                   - At(ReservedAt(fd, p), l, c.size)])
                /\ Record(fd, p, c.size, at)
                /\ DropMove(fd, p)
       ELSE UNCHANGED <<chunks, moving, used, total>>
    /\ Logged("MoveDone", fd, 0, "None")
    /\ UNCHANGED <<tenants, hello>>

\* An entry that is already there is overwritten; NoChunk has size 0 and is nowhere.
Resync(fd, p, n, at) ==
    /\ fd \in tenants
    /\ LET c == chunks[fd][p]
       IN  UpdateCount(fd, [l \in Loc |-> At(at, l, n) - At(c.loc, l, c.size)])
    /\ Record(fd, p, n, at)
    /\ Logged("Resync", fd, 0, "None")
    /\ UNCHANGED <<tenants, hello, moving>>

Free(fd, p) ==
    /\ fd \in tenants
    /\ IF p \in Tracked(fd)
       THEN LET c == chunks[fd][p]
            IN  /\ UpdateCount(fd, [l \in Loc |-> - At(c.loc, l, c.size)
                                                   - At(ReservedAt(fd, p), l, c.size)])
                /\ chunks' = [chunks EXCEPT ![fd][p] = NoChunk]
                /\ DropMove(fd, p)
       ELSE UNCHANGED <<chunks, moving, used, total>>
    /\ Logged("Free", fd, 0, "None")
    /\ UNCHANGED <<tenants, hello>>

-----------------------------------------------------------------------------
\* A chunk keeps its size for life, so a Resync that overtakes a move reports
\* the size the broker has.  Without this the reservation cannot be released
\* right: RawNext lets a tenant report any size.
SameSize(fd, p, n) == moving[fd].ptr = p => chunks[fd][p].size = n

Common(fd) ==
    \/ Connect(fd) \/ Disconnect(fd) \/ Hello(fd)
    \/ \E p \in Ptr :
          \/ AllocFail(fd, p)
          \/ Free(fd, p)
          \/ \E n \in Size : Alloc(fd, p, n)
          \/ \E l \in Loc : MoveRequest(fd, p, l) \/ MoveDone(fd, p, l)

Next == \E fd \in Fd :
    \/ Common(fd)
    \/ \E p \in Ptr, n \in Size, l \in Loc : SameSize(fd, p, n) /\ Resync(fd, p, n, l)

RawNext == \E fd \in Fd :
    \/ Common(fd)
    \/ \E p \in Ptr, n \in Size, l \in Loc : Resync(fd, p, n, l)

Spec == Init /\ [][Next]_vars
RawSpec == Init /\ [][RawNext]_vars

-----------------------------------------------------------------------------
(* Types of the broker's tables.                                           *)
Typed ==
    /\ tenants \subseteq Fd
    /\ hello \in [Fd -> BOOLEAN]
    /\ chunks \in [Fd -> [Ptr -> Chunk \cup {NoChunk}]]
    /\ moving \in [Fd -> Move \cup {NoMove}]
    /\ used \in [Fd -> [Loc -> Int]]
    /\ total \in [Loc -> Int]
    /\ last \in Event

(* A descriptor without a tenant has an empty record and holds nothing, so *)
(* a number that accept() gives out again starts clean.                    *)
Vacant == \A fd \in Fd \ tenants :
    /\ ~hello[fd] /\ moving[fd] = NoMove
    /\ \A p \in Ptr : chunks[fd][p] = NoChunk
    /\ \A l \in Loc : used[fd][l] = 0

(* Type invariant, with the records of descriptors that are not in use.    *)
TypeOK == Typed /\ Vacant

(* A granted move names a chunk the broker still tracks (handle_free and   *)
(* on_disconnect drop the grant with the chunk); otherwise its reservation *)
(* could never be released and every later Move would be refused.          *)
MovingTracked == \A fd \in Fd : moving[fd] # NoMove => moving[fd].ptr \in Tracked(fd)

(* The bytes the tables say a tenant holds or has reserved at l: context   *)
(* overhead, chunks, and the target of a granted move.                     *)
ChunkBytes(fd, l) == [p \in Ptr |-> At(chunks[fd][p].loc, l, chunks[fd][p].size)]
Overhead(fd, l) == IF hello[fd] THEN At("Device", l, CtxOverhead) ELSE 0
Reservation(fd, l) ==
    IF moving[fd] = NoMove THEN 0 ELSE At(moving[fd].to, l, chunks[fd][moving[fd].ptr].size)
Held(fd, l) == Overhead(fd, l) + Total(ChunkBytes(fd, l)) + Reservation(fd, l)

(* K1 of daemon/README.md: a tenant's running counts, which every handler  *)
(* adjusts by hand, equal what its chunk table and its granted move add up *)
(* to.                                                                     *)
TenantAccounts == \A fd \in Fd, l \in Loc : used[fd][l] = Held(fd, l)

(* K2: the machine's running counts, adjusted in the same calls and on     *)
(* disconnect, are the sums over the tenants.                              *)
GlobalAccounts == \A l \in Loc : total[l] = Total([fd \in Fd |-> used[fd][l]])

(* The counters are size_t: none is ever taken below zero, so none wraps   *)
(* around to a huge value that would make fits_limit refuse for ever.      *)
Unsigned == \A l \in Loc : total[l] >= 0 /\ \A fd \in Fd : used[fd][l] >= 0

\* The ledger as the tables give it; the running counts play no part.
Promise == INSTANCE Ledger WITH bytes <- [fd \in Fd |-> [l \in Loc |-> Held(fd, l)]]

(* The broker keeps the promise of module Ledger: every grant had room     *)
(* under the limit by the tables, an Alloc refused with NoMemory had none  *)
(* on either side, host was given only when the device was full, and only  *)
(* Hello, AllocFail, MoveDone and Resync raise a share unasked (K3, K4).   *)
KeepsPromise == Promise!Spec
=============================================================================
