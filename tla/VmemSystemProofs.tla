------------------------- MODULE VmemSystemProofs -------------------------
(***************************************************************************)
(* The broker, for any descriptors, chunks, sizes and limits, and then the *)
(* broker with its tenants, for any number of processes and crashes.  The  *)
(* first part is the broker alone: its types, its accounts, and that it    *)
(* implements Ledger.  The second proves SysTypeOK, NoOrphans,             *)
(* AnswersMatch and, in the company of real clients and across crashes,    *)
(* the same accounts.  It does not depend on what the broker answers, only *)
(* on there being one answer to each request, in the place the client      *)
(* looks for it.  The third, Reports, is about what the messages say: it   *)
(* proves ClientsBehave, GrantsClosed and TableMatches.                    *)
(***************************************************************************)
EXTENDS VmemSystem, TotalsProofs, SequenceTheorems

-----------------------------------------------------------------------------
(* The broker alone. *)

(* What the type invariant says of one entry of a chunk table.             *)
LEMMA EntryType ==
    ASSUME Typed, NEW fd \in Fd, NEW p \in Ptr
    PROVE  /\ chunks[fd][p].size \in Nat
           /\ chunks[fd][p].loc \in Loc \cup {"None"}
           /\ p \in Tracked(fd) => /\ chunks[fd][p] = [size |-> chunks[fd][p].size,
                                                       loc |-> chunks[fd][p].loc]
                                    /\ chunks[fd][p].size \in Size
                                    /\ chunks[fd][p].loc \in Loc
           /\ p \notin Tracked(fd) => chunks[fd][p] = NoChunk
<1>1. chunks[fd][p] \in Chunk \cup {NoChunk}
  BY DEF Typed
<1>2. CASE chunks[fd][p] = NoChunk
  BY <1>2 DEF NoChunk, Tracked
<1>3. CASE chunks[fd][p] \in Chunk
  <2>1. p \in Tracked(fd)
    BY <1>3 DEF Chunk, NoChunk, Tracked, Loc
  <2> QED
    BY <1>3, <2>1, VmemdAssumption DEF Chunk
<1> QED
  BY <1>1, <1>2, <1>3

(* Writing an entry with a size and a location keeps the tables typed.     *)
LEMMA RecordType ==
    ASSUME Typed, NEW fd \in Fd, NEW p \in Ptr, NEW n \in Size, NEW l \in Loc,
           Record(fd, p, n, l)
    PROVE  chunks' \in [Fd -> [Ptr -> Chunk \cup {NoChunk}]]
<1>1. [size |-> n, loc |-> l] \in Chunk
  BY DEF Chunk
<1> QED
  BY <1>1 DEF Typed, Record

(* What it says of the move in flight.                                     *)
LEMMA MoveType ==
    ASSUME Typed, NEW fd \in Fd
    PROVE  /\ moving[fd].to \in Loc \cup {"None"}
           /\ moving[fd].ptr \in Ptr \cup {Nil}
           /\ moving[fd] = NoMove <=> moving[fd].ptr = Nil
           /\ moving[fd] # NoMove => moving[fd].ptr \in Ptr /\ moving[fd].to \in Loc
           /\ \A p \in Ptr : ReservedAt(fd, p) \in Loc \cup {"None"}
  BY VmemdAssumption DEF Typed, Move, NoMove, ReservedAt

(* Dropping a move leaves either the moves that were there or one fewer.   *)
LEMMA DropMoveType ==
    ASSUME Typed, NEW fd \in Fd, NEW p \in Ptr, DropMove(fd, p)
    PROVE  moving' \in [Fd -> Move \cup {NoMove}]
  BY DEF Typed, DropMove

-----------------------------------------------------------------------------
(* A broker that starts has typed tables.                                  *)
LEMMA TypeInit == Init => Typed
  BY VmemdAssumption DEF Init, Typed, Event, Loc

(* Every handler keeps the tables typed, whatever message it is given.     *)
LEMMA TypeStep ==
    ASSUME Typed, RawNext
    PROVE  Typed'
<1>1. ASSUME NEW fd \in Fd, Connect(fd) PROVE Typed'
  BY <1>1 DEF Connect, Logged, Event, Typed
<1>2. ASSUME NEW fd \in Fd, Disconnect(fd) PROVE Typed'
  BY <1>2 DEF Disconnect, Logged, Event, Typed
<1>3. ASSUME NEW fd \in Fd, Hello(fd) PROVE Typed'
  <2>1. CtxOverhead \in Nat
    BY VmemdAssumption
  <2>2. used' \in [Fd -> [Loc -> Int]] /\ total' \in [Loc -> Int]
    <3>1. CASE UNCHANGED <<used, total>>
      BY <3>1 DEF Typed
    <3>2. CASE UpdateCount(fd, [l \in Loc |-> At("Device", l, CtxOverhead)])
      BY <3>2, <2>1 DEF UpdateCount, At, Typed
    <3> QED
      BY <1>3, <3>1, <3>2 DEF Hello
  <2>3. hello' \in [Fd -> BOOLEAN]
    BY <1>3 DEF Hello, Typed
  <2> QED
    BY <1>3, <2>2, <2>3 DEF Hello, Logged, Event, MessageType, Typed
<1>4. ASSUME NEW fd \in Fd, NEW p \in Ptr, NEW n \in Size, Alloc(fd, p, n) PROVE Typed'
  <2>1. CASE Place(n) \in Loc /\ Record(fd, p, n, Place(n))
             /\ UpdateCount(fd, [l \in Loc |-> At(Place(n), l, n)])
    <3>1. chunks' \in [Fd -> [Ptr -> Chunk \cup {NoChunk}]]
      BY <2>1, RecordType
    <3>2. used' \in [Fd -> [Loc -> Int]] /\ total' \in [Loc -> Int]
      <4>1. n \in Int
        BY VmemdAssumption
      <4> QED
        BY <2>1, <4>1 DEF UpdateCount, At, Typed
    <3> QED
      BY <1>4, <3>1, <3>2 DEF Alloc, Logged, Event, MessageType, Typed
  <2>2. CASE UNCHANGED chunks /\ UnchangedCount
    BY <1>4, <2>2 DEF Alloc, UnchangedCount, Logged, Event, MessageType, Typed
  <2> QED
    BY <1>4, <2>1, <2>2 DEF Alloc, Place, Loc
<1>5. ASSUME NEW fd \in Fd, NEW p \in Ptr, AllocFail(fd, p) PROVE Typed'
  <2>1. CASE chunks[fd][p].loc = "Device"
    <3>1. p \in Tracked(fd)
      BY <2>1 DEF NoChunk, Tracked
    <3>2. chunks' \in [Fd -> [Ptr -> Chunk \cup {NoChunk}]]
      BY <1>5, <2>1, <3>1, EntryType, RecordType DEF AllocFail, Loc
    <3>3. used' \in [Fd -> [Loc -> Int]] /\ total' \in [Loc -> Int]
      <4> DEFINE n == chunks[fd][p].size
      <4>1. n \in Nat
        BY EntryType
      <4>2. UpdateCount(fd, [l \in Loc |-> At("Host", l, n) - At("Device", l, n)])
        BY <1>5, <2>1 DEF AllocFail
      <4> HIDE DEF n
      <4> QED
        BY <4>1, <4>2 DEF UpdateCount, At, Typed
    <3> QED
      BY <1>5, <3>2, <3>3 DEF AllocFail, Logged, Event, MessageType, Typed
  <2>2. CASE chunks[fd][p].loc # "Device"
    BY <1>5, <2>2 DEF AllocFail, UnchangedCount, Logged, Event, MessageType, Typed
  <2> QED
    BY <2>1, <2>2
<1>6. ASSUME NEW fd \in Fd, NEW p \in Ptr, NEW to \in Loc, MoveRequest(fd, p, to)
      PROVE  Typed'
  <2>1. CASE UNCHANGED moving /\ UnchangedCount
    BY <1>6, <2>1 DEF MoveRequest, UnchangedCount, Logged, Event, MessageType, Typed
  <2>2. CASE /\ UpdateCount(fd, [l \in Loc |-> At(to, l, chunks[fd][p].size)])
             /\ moving' = [moving EXCEPT ![fd] = [ptr |-> p, to |-> to]]
    <3>1. used' \in [Fd -> [Loc -> Int]] /\ total' \in [Loc -> Int]
      <4>1. chunks[fd][p].size \in Nat
        BY EntryType
      <4> QED
        BY <2>2, <4>1 DEF UpdateCount, At, Typed
    <3>2. moving' \in [Fd -> Move \cup {NoMove}]
      BY <2>2 DEF Move, Typed
    <3> QED
      BY <1>6, <3>1, <3>2 DEF MoveRequest, Logged, Event, MessageType, Typed
  <2> QED
    BY <1>6, <2>1, <2>2 DEF MoveRequest
<1>7. ASSUME NEW fd \in Fd, NEW p \in Ptr, NEW at \in Loc, MoveDone(fd, p, at)
      PROVE  Typed'
  <2>1. CASE p \notin Tracked(fd)
    BY <1>7, <2>1 DEF MoveDone, Logged, Event, MessageType, Typed
  <2>2. CASE p \in Tracked(fd)
    <3>1. chunks' \in [Fd -> [Ptr -> Chunk \cup {NoChunk}]]
      BY <1>7, <2>2, EntryType, RecordType DEF MoveDone
    <3>2. used' \in [Fd -> [Loc -> Int]] /\ total' \in [Loc -> Int]
      <4> DEFINE n == chunks[fd][p].size
      <4>1. n \in Nat
        BY EntryType
      <4>2. UpdateCount(fd, [l \in Loc |->
               At(at, l, n) - At(chunks[fd][p].loc, l, n) - At(ReservedAt(fd, p), l, n)])
        BY <1>7, <2>2 DEF MoveDone
      <4> HIDE DEF n
      <4> QED
        BY <4>1, <4>2 DEF UpdateCount, At, Typed
    <3>3. moving' \in [Fd -> Move \cup {NoMove}]
      BY <1>7, <2>2, DropMoveType DEF MoveDone
    <3> QED
      BY <1>7, <3>1, <3>2, <3>3 DEF MoveDone, Logged, Event, MessageType, Typed
  <2> QED
    BY <2>1, <2>2
<1>8. ASSUME NEW fd \in Fd, NEW p \in Ptr, NEW n \in Size, NEW at \in Loc,
             Resync(fd, p, n, at)
      PROVE  Typed'
  <2>1. chunks' \in [Fd -> [Ptr -> Chunk \cup {NoChunk}]]
    BY <1>8, RecordType DEF Resync
  <2>2. used' \in [Fd -> [Loc -> Int]] /\ total' \in [Loc -> Int]
    <3> DEFINE old == chunks[fd][p].size
    <3>1. n \in Nat
      BY VmemdAssumption
    <3>2. old \in Nat
      BY EntryType
    <3>3. UpdateCount(fd, [l \in Loc |-> At(at, l, n) - At(chunks[fd][p].loc, l, old)])
      BY <1>8 DEF Resync
    <3> HIDE DEF old
    <3> QED
      BY <3>1, <3>2, <3>3 DEF UpdateCount, At, Typed
  <2> QED
    BY <1>8, <2>1, <2>2 DEF Resync, Logged, Event, MessageType, Typed
<1>9. ASSUME NEW fd \in Fd, NEW p \in Ptr, Free(fd, p) PROVE Typed'
  <2>1. CASE p \notin Tracked(fd)
    BY <1>9, <2>1 DEF Free, Logged, Event, MessageType, Typed
  <2>2. CASE p \in Tracked(fd)
    <3>1. chunks' \in [Fd -> [Ptr -> Chunk \cup {NoChunk}]]
      <4>1. chunks' = [chunks EXCEPT ![fd][p] = NoChunk]
        BY <1>9, <2>2 DEF Free
      <4> QED
        BY <4>1 DEF Typed
    <3>2. used' \in [Fd -> [Loc -> Int]] /\ total' \in [Loc -> Int]
      <4> DEFINE n == chunks[fd][p].size
      <4>1. n \in Nat
        BY EntryType
      <4>2. UpdateCount(fd, [l \in Loc |->
               - At(chunks[fd][p].loc, l, n) - At(ReservedAt(fd, p), l, n)])
        BY <1>9, <2>2 DEF Free
      <4> HIDE DEF n
      <4> QED
        BY <4>1, <4>2 DEF UpdateCount, At, Typed
    <3>3. moving' \in [Fd -> Move \cup {NoMove}]
      BY <1>9, <2>2, DropMoveType DEF Free
    <3> QED
      BY <1>9, <3>1, <3>2, <3>3 DEF Free, Logged, Event, MessageType, Typed
  <2> QED
    BY <2>1, <2>2
<1> QED
  BY <1>1, <1>2, <1>3, <1>4, <1>5, <1>6, <1>7, <1>8, <1>9 DEF RawNext, Common

(* Only a tenant's own messages and its connection change its record, and  *)
(* what a tenant leaves behind is nothing.                                 *)
LEMMA VacantStep ==
    ASSUME Typed, Vacant, RawNext
    PROVE  Vacant'
<1>1. PICK fd \in Fd : \/ Common(fd)
                       \/ \E p \in Ptr, n \in Size, l \in Loc : Resync(fd, p, n, l)
  BY DEF RawNext
<1>2. CASE Disconnect(fd)
  <2>1. ~hello'[fd] /\ moving'[fd] = NoMove /\ chunks'[fd] = [p \in Ptr |-> NoChunk]
        /\ used'[fd] = [l \in Loc |-> 0] /\ tenants' = tenants \ {fd}
    BY <1>2 DEF Disconnect, Typed
  <2>2. \A d \in Fd \ {fd} : hello'[d] = hello[d] /\ moving'[d] = moving[d]
                            /\ chunks'[d] = chunks[d] /\ used'[d] = used[d]
    BY <1>2 DEF Disconnect, Typed
  <2> QED
    BY <2>1, <2>2 DEF Vacant
<1>3. CASE ~Disconnect(fd)
  <2>1. tenants \subseteq tenants' /\ fd \in tenants'
    BY <1>1, <1>3 DEF Common, Connect, Hello, AllocFail, Free, Alloc, MoveRequest, MoveDone, Resync
  <2>2. \A d \in Fd \ {fd} : hello'[d] = hello[d] /\ moving'[d] = moving[d]
                            /\ chunks'[d] = chunks[d] /\ used'[d] = used[d]
    BY <1>1, <1>3 DEF Common, Connect, Hello, AllocFail, Free, Alloc, MoveRequest, MoveDone, Resync,
                      Record, DropMove, UpdateCount, UnchangedCount, Typed
  <2> QED
    BY <2>1, <2>2 DEF Vacant
<1> QED
  BY <1>2, <1>3

(* The tables keep their types through every handler, whatever a tenant    *)
(* sends, and a descriptor without a tenant has an empty record.           *)
THEOREM TypeCorrect == RawSpec => []TypeOK
<1>1. Init => TypeOK
  BY TypeInit DEF Init, Vacant, TypeOK
<1>2. TypeOK /\ UNCHANGED vars => TypeOK'
  BY DEF vars, Typed, Vacant, TypeOK
<1>3. TypeOK /\ [RawNext]_vars => TypeOK'
  BY <1>2, TypeStep, VacantStep DEF TypeOK
<1> QED
  BY <1>1, <1>3, PTL DEF RawSpec

-----------------------------------------------------------------------------
(* The broker's running counts are right, K1 and K2 of                     *)
(* libvmem/daemon/README.md.  The handlers adjust the counts by            *)
(* differences; the proof shows that each difference is the difference of  *)
(* the sums.                                                               *)

(* The inductive invariant.  The counts alone are not inductive: a Free of *)
(* a moving chunk releases the right bytes only because the counts agree   *)
(* with the tables, and a move in flight names a chunk that has bytes.     *)
Accounts == Typed /\ MovingTracked /\ TenantAccounts /\ GlobalAccounts

\* Every tenant but fd keeps its record.
OthersKeep(fd) == \A d \in Fd \ {fd} :
    /\ hello'[d] = hello[d]
    /\ chunks'[d] = chunks[d]
    /\ moving'[d] = moving[d]

-----------------------------------------------------------------------------
(* An entry's size, tracked or not, is a number of bytes.                  *)
LEMMA SizeType == Typed => \A d \in Fd, q \in Ptr : chunks[d][q].size \in Nat
  BY EntryType

(* The same, after a step.                                                 *)
LEMMA SizeTypeNext == Typed' => \A d \in Fd, q \in Ptr : chunks'[d][q].size \in Nat
<1>1. (Typed => \A d \in Fd, q \in Ptr : chunks[d][q].size \in Nat)'
  BY SizeType, PTL
<1> QED
  BY <1>1

(* A tenant's chunks at l are a function into the naturals.                *)
LEMMA ChunkBytesType ==
    ASSUME Typed, NEW fd \in Fd, NEW l \in Loc
    PROVE  /\ DOMAIN ChunkBytes(fd, l) = Ptr
           /\ \A p \in Ptr : ChunkBytes(fd, l)[p] \in Nat
           /\ \A p \in Ptr : ChunkBytes(fd, l)[p] = At(chunks[fd][p].loc, l, chunks[fd][p].size)
<1>1. \A p \in Ptr : chunks[fd][p].size \in Nat
  BY EntryType
<1> QED
  BY <1>1 DEF ChunkBytes, At

(* A granted move reserves a natural number of bytes.                      *)
LEMMA ReservationType ==
    ASSUME Typed, NEW fd \in Fd, NEW l \in Loc
    PROVE  Reservation(fd, l) \in Nat
<1>1. CASE moving[fd] = NoMove
  BY <1>1 DEF Reservation
<1>2. CASE moving[fd] # NoMove
  <2> DEFINE p == moving[fd].ptr
  <2>1. p \in Ptr
    BY <1>2, MoveType
  <2>2. chunks[fd][p].size \in Nat
    BY <2>1, EntryType
  <2> QED
    BY <1>2, <2>2 DEF Reservation, At
<1> QED
  BY <1>1, <1>2

(* What a tenant holds is a natural number of bytes.                       *)
LEMMA HeldType == Typed => \A d \in Fd, k \in Loc : Held(d, k) \in Nat
<1> SUFFICES ASSUME Typed, NEW fd \in Fd, NEW l \in Loc PROVE Held(fd, l) \in Nat
  OBVIOUS
<1>1. Overhead(fd, l) \in Nat
  BY VmemdAssumption DEF Overhead, At
<1>2. Total(ChunkBytes(fd, l)) \in Nat
  BY ChunkBytesType, UnitsFinite, VmemdAssumption
<1>3. Reservation(fd, l) \in Nat
  BY ReservationType
<1> QED
  BY <1>1, <1>2, <1>3 DEF Held

(* The same, after a step.                                                 *)
LEMMA HeldTypeNext == Typed' => \A d \in Fd, k \in Loc : Held(d, k)' \in Nat
<1>1. (Typed => \A d \in Fd, k \in Loc : Held(d, k) \in Nat)'
  BY HeldType, PTL
<1> QED
  BY <1>1

(* Writing one entry of a chunk table changes the tenant's bytes at l by   *)
(* what the new entry has there less what the old one had.                 *)
LEMMA ChunkStep ==
    ASSUME Typed, Typed', NEW fd \in Fd, NEW p \in Ptr, NEW l \in Loc,
           \A q \in Ptr \ {p} : chunks'[fd][q] = chunks[fd][q]
    PROVE  Total(ChunkBytes(fd, l))' = Total(ChunkBytes(fd, l))
                                       - At(chunks[fd][p].loc, l, chunks[fd][p].size)
                                       + At(chunks'[fd][p].loc, l, chunks'[fd][p].size)
<1> DEFINE f == ChunkBytes(fd, l)
           g == ChunkBytes(fd, l)'
<1>1. /\ DOMAIN f = Ptr
      /\ \A q \in Ptr : f[q] \in Nat
      /\ \A q \in Ptr : f[q] = At(chunks[fd][q].loc, l, chunks[fd][q].size)
  BY ChunkBytesType
<1>2. \A q \in Ptr : chunks'[fd][q].size \in Nat
  BY SizeTypeNext
<1>3. /\ DOMAIN g = Ptr
      /\ \A q \in Ptr : g[q] \in Nat
      /\ \A q \in Ptr : g[q] = At(chunks'[fd][q].loc, l, chunks'[fd][q].size)
  BY <1>2 DEF ChunkBytes, At
<1>4. \A q \in Ptr \ {p} : g[q] = f[q]
  BY <1>1, <1>3
<1>5. Total(g) = Total(f) - f[p] + g[p]
  <2> HIDE DEF f, g
  <2> QED
    BY <1>1, <1>3, <1>4, TotalChange, VmemdAssumption
<1> QED
  BY <1>1, <1>3, <1>5 DEF Total

(* A tenant whose tables no handler touched still holds what it held.      *)
LEMMA OthersHold ==
    ASSUME NEW fd \in Fd, OthersKeep(fd)
    PROVE  \A d \in Fd \ {fd}, l \in Loc : Held(d, l)' = Held(d, l)
  BY DEF OthersKeep, Held, Overhead, Reservation, ChunkBytes

(* If one tenant's count and the machine's change by the same difference,  *)
(* and the counts of the tenants are right after the step, so are the sums. *)
LEMMA GlobalStep ==
    ASSUME Accounts, Typed', TenantAccounts', NEW fd \in Fd,
           \A d \in Fd \ {fd} : used'[d] = used[d],
           \A l \in Loc : total'[l] = total[l] - used[fd][l] + used'[fd][l]
    PROVE  GlobalAccounts'
<1> SUFFICES ASSUME NEW l \in Loc PROVE total'[l] = Total([d \in Fd |-> used'[d][l]])
  BY DEF GlobalAccounts
<1> DEFINE f == [d \in Fd |-> used[d][l]]
           g == [d \in Fd |-> used'[d][l]]
<1>1. \A d \in Fd : f[d] \in Nat
  BY HeldType DEF Accounts, TenantAccounts
<1>2. \A d \in Fd : g[d] \in Nat
  BY HeldTypeNext DEF TenantAccounts
<1>3. Total(g) = Total(f) - f[fd] + g[fd]
  <2>1. DOMAIN f = Fd /\ DOMAIN g = Fd /\ \A d \in Fd \ {fd} : g[d] = f[d]
    OBVIOUS
  <2> HIDE DEF f, g
  <2> QED
    BY <1>1, <1>2, <2>1, TotalChange, VmemdAssumption
<1>4. total[l] = Total(f)
  BY DEF Accounts, GlobalAccounts
<1> QED
  BY <1>3, <1>4

(* The shape of every handler: what the tables say of the sender changes   *)
(* by delta, and update_count books the same delta.                        *)
LEMMA Booked ==
    ASSUME Accounts, Typed', NEW fd \in Fd, OthersKeep(fd),
           NEW delta, \A l \in Loc : delta[l] \in Int,
           UpdateCount(fd, delta),
           \A l \in Loc : Held(fd, l)' = Held(fd, l) + delta[l]
    PROVE  TenantAccounts' /\ GlobalAccounts'
<1>1. /\ \A d \in Fd \ {fd} : used'[d] = used[d]
      /\ \A l \in Loc : used'[fd][l] = used[fd][l] + delta[l]
      /\ \A l \in Loc : total'[l] = total[l] + delta[l]
  BY DEF UpdateCount, Accounts, Typed
<1>2. \A l \in Loc : used[fd][l] \in Int /\ total[l] \in Int
  BY DEF Accounts, Typed
<1>3. TenantAccounts'
  <2>1. ASSUME NEW l \in Loc PROVE used'[fd][l] = Held(fd, l)'
    BY <1>1 DEF Accounts, TenantAccounts
  <2>2. ASSUME NEW d \in Fd \ {fd}, NEW l \in Loc PROVE used'[d][l] = Held(d, l)'
    BY <1>1, OthersHold DEF Accounts, TenantAccounts
  <2> QED
    BY <2>1, <2>2 DEF TenantAccounts
<1>4. \A l \in Loc : total'[l] = total[l] - used[fd][l] + used'[fd][l]
  BY <1>1, <1>2
<1> QED
  BY <1>1, <1>3, <1>4, GlobalStep

-----------------------------------------------------------------------------
(* Reservations.                                                           *)

(* While the move in flight stays and its chunk keeps its size, so does    *)
(* the reservation.                                                        *)
LEMMA ReservationKept ==
    ASSUME Typed, NEW fd \in Fd, NEW p \in Ptr, NEW l \in Loc,
           moving'[fd] = moving[fd],
           \A q \in Ptr \ {p} : chunks'[fd][q] = chunks[fd][q],
           moving[fd].ptr = p => chunks'[fd][p].size = chunks[fd][p].size
    PROVE  Reservation(fd, l)' = Reservation(fd, l)
<1>1. moving[fd] # NoMove => moving[fd].ptr \in Ptr
  BY MoveType
<1>2. moving[fd] # NoMove => chunks'[fd][moving[fd].ptr].size = chunks[fd][moving[fd].ptr].size
  BY <1>1
<1> QED
  BY <1>2 DEF Reservation

(* Dropping the move of p gives back what it reserved, and dropping the    *)
(* move of a chunk that is not moving gives back nothing.                  *)
LEMMA ReservationDropped ==
    ASSUME Typed, NEW fd \in Fd, NEW p \in Ptr, NEW l \in Loc, DropMove(fd, p),
           \A q \in Ptr \ {p} : chunks'[fd][q] = chunks[fd][q]
    PROVE  Reservation(fd, l)' = Reservation(fd, l)
                                 - At(ReservedAt(fd, p), l, chunks[fd][p].size)
<1> DEFINE n == chunks[fd][p].size
<1>1. n \in Nat
  BY EntryType
<1>2. CASE moving[fd].ptr = p
  <2>1. moving[fd] # NoMove
    BY <1>2, MoveType, VmemdAssumption
  <2>2. moving'[fd] = NoMove
    BY <1>2 DEF DropMove, Typed
  <2>3. Reservation(fd, l)' = 0
    BY <2>2 DEF Reservation
  <2>4. Reservation(fd, l) = At(ReservedAt(fd, p), l, n)
    BY <1>2, <2>1 DEF Reservation, ReservedAt
  <2>5. At(ReservedAt(fd, p), l, n) \in Int
    BY <1>1 DEF At
  <2> QED
    BY <2>3, <2>4, <2>5
<1>3. CASE moving[fd].ptr # p
  <2>1. moving'[fd] = moving[fd]
    BY <1>3 DEF DropMove
  <2>2. Reservation(fd, l)' = Reservation(fd, l)
    BY <1>3, <2>1, ReservationKept
  <2>3. At(ReservedAt(fd, p), l, n) = 0
    BY <1>3 DEF At, ReservedAt, Loc
  <2>4. Reservation(fd, l) \in Int
    BY ReservationType
  <2> QED
    BY <2>2, <2>3, <2>4
<1> QED
  BY <1>2, <1>3

(* What one message about chunk p does to the sender's holdings at l: the  *)
(* old entry goes, the new one comes, and the reservation changes by r.    *)
LEMMA HeldStep ==
    ASSUME Typed, Typed', NEW fd \in Fd, NEW p \in Ptr, NEW l \in Loc,
           hello'[fd] = hello[fd],
           \A q \in Ptr \ {p} : chunks'[fd][q] = chunks[fd][q],
           NEW r \in Int, Reservation(fd, l)' = Reservation(fd, l) + r
    PROVE  Held(fd, l)' = Held(fd, l) + (At(chunks'[fd][p].loc, l, chunks'[fd][p].size)
                                         - At(chunks[fd][p].loc, l, chunks[fd][p].size) + r)
<1> DEFINE new == At(chunks'[fd][p].loc, l, chunks'[fd][p].size)
           old == At(chunks[fd][p].loc, l, chunks[fd][p].size)
<1>1. Overhead(fd, l)' = Overhead(fd, l)
  BY DEF Overhead
<1>2. Total(ChunkBytes(fd, l))' = Total(ChunkBytes(fd, l)) - old + new
  BY ChunkStep
<1>3. /\ Overhead(fd, l) \in Int
      /\ Total(ChunkBytes(fd, l)) \in Int
      /\ Reservation(fd, l) \in Int
  BY ReservationType, ChunkBytesType, UnitsFinite, VmemdAssumption DEF Overhead, At
<1>4. new \in Int /\ old \in Int
  BY SizeType, SizeTypeNext DEF At
<1> HIDE DEF new, old
<1>5. Held(fd, l)' = Held(fd, l) + (new - old + r)
  BY <1>1, <1>2, <1>3, <1>4 DEF Held
<1> QED
  BY <1>5 DEF new, old

-----------------------------------------------------------------------------
(* One lemma for each handler that changes the counts.                     *)

(* Only a first Hello counts, and it counts the context overhead.          *)
LEMMA HelloAccounts ==
    ASSUME Accounts, Typed', NEW fd \in Fd, Hello(fd), ~hello[fd]
    PROVE  TenantAccounts' /\ GlobalAccounts'
<1> DEFINE delta == [l \in Loc |-> At("Device", l, CtxOverhead)]
<1>1. OthersKeep(fd)
  BY DEF Hello, OthersKeep, Accounts, Typed
<1>2. \A l \in Loc : delta[l] \in Int
  BY VmemdAssumption DEF At
<1>3. UpdateCount(fd, delta)
  BY DEF Hello
<1>4. ASSUME NEW l \in Loc PROVE Held(fd, l)' = Held(fd, l) + delta[l]
  <2>1. Overhead(fd, l) = 0 /\ Overhead(fd, l)' = delta[l]
    BY DEF Overhead, Hello, Accounts, Typed
  <2>2. Reservation(fd, l)' = Reservation(fd, l) /\ ChunkBytes(fd, l)' = ChunkBytes(fd, l)
    BY DEF Hello, Reservation, ChunkBytes
  <2>3. Reservation(fd, l) \in Int /\ Total(ChunkBytes(fd, l)) \in Int
    BY ReservationType, ChunkBytesType, UnitsFinite, VmemdAssumption DEF Accounts
  <2>4. Total(ChunkBytes(fd, l))' = Total(ChunkBytes(fd, l))
    BY <2>2
  <2> HIDE DEF delta
  <2> QED
    BY <1>2, <2>1, <2>2, <2>3, <2>4 DEF Held
<1> HIDE DEF delta
<1> QED
  BY <1>1, <1>2, <1>3, <1>4, Booked

(* An allocation counts where it was placed.                               *)
LEMMA AllocAccounts ==
    ASSUME Accounts, Typed', NEW fd \in Fd, NEW p \in Ptr, NEW n \in Size, Alloc(fd, p, n),
           Record(fd, p, n, Place(n)), UpdateCount(fd, [l \in Loc |-> At(Place(n), l, n)]),
           p \notin Tracked(fd)
    PROVE  TenantAccounts' /\ GlobalAccounts'
<1> DEFINE delta == [l \in Loc |-> At(Place(n), l, n)]
<1>1. OthersKeep(fd)
  BY DEF Alloc, Record, OthersKeep, Accounts, Typed
<1>2. \A l \in Loc : delta[l] \in Int
  BY VmemdAssumption DEF At
<1>3. chunks[fd][p] = NoChunk /\ chunks'[fd][p] = [size |-> n, loc |-> Place(n)]
  BY DEF Tracked, Record, Accounts, Typed
<1>4. ASSUME NEW l \in Loc PROVE Held(fd, l)' = Held(fd, l) + delta[l]
  <2>1. moving'[fd] = moving[fd] /\ moving[fd].ptr # p
    BY MoveType, VmemdAssumption DEF Alloc, Accounts, MovingTracked
  <2>2. \A q \in Ptr \ {p} : chunks'[fd][q] = chunks[fd][q]
    BY DEF Record, Accounts, Typed
  <2>3. Reservation(fd, l)' = Reservation(fd, l)
    BY <2>1, <2>2, ReservationKept DEF Accounts
  <2>4. Reservation(fd, l) \in Int
    BY ReservationType DEF Accounts
  <2>5. Reservation(fd, l)' = Reservation(fd, l) + 0
    BY <2>3, <2>4
  <2>6. Held(fd, l)' = Held(fd, l) + (At(Place(n), l, n) - At("None", l, 0) + 0)
    BY <1>3, <2>2, <2>5, HeldStep DEF Accounts, NoChunk, Alloc
  <2>7. At("None", l, 0) = 0
    BY DEF At
  <2> QED
    BY <1>2, <2>6, <2>7
<1> HIDE DEF delta
<1>5. UpdateCount(fd, delta)
  BY DEF delta
<1> QED
  BY <1>1, <1>2, <1>4, <1>5, Booked

(* AllocFail takes the bytes from the device to the host; a move of the    *)
(* same chunk keeps its reservation.                                       *)
LEMMA AllocFailAccounts ==
    ASSUME Accounts, Typed', NEW fd \in Fd, NEW p \in Ptr, AllocFail(fd, p),
           chunks[fd][p].loc = "Device"
    PROVE  TenantAccounts' /\ GlobalAccounts'
<1> DEFINE n == chunks[fd][p].size
           delta == [l \in Loc |-> At("Host", l, n) - At("Device", l, n)]
<1>1. OthersKeep(fd)
  BY DEF AllocFail, Record, OthersKeep, Accounts, Typed
<1>2. n \in Nat
  BY SizeType DEF Accounts
<1>3. \A l \in Loc : delta[l] \in Int
  BY <1>2 DEF At
<1>4. chunks'[fd][p] = [size |-> n, loc |-> "Host"]
  BY DEF AllocFail, Record, Accounts, Typed
<1>5. ASSUME NEW l \in Loc PROVE Held(fd, l)' = Held(fd, l) + delta[l]
  <2>1. \A q \in Ptr \ {p} : chunks'[fd][q] = chunks[fd][q]
    BY DEF AllocFail, Record, Accounts, Typed
  <2>2. Reservation(fd, l)' = Reservation(fd, l)
    BY <1>4, <2>1, ReservationKept DEF AllocFail, Accounts
  <2>3. Reservation(fd, l) \in Int
    BY ReservationType DEF Accounts
  <2>4. Reservation(fd, l)' = Reservation(fd, l) + 0
    BY <2>2, <2>3
  <2>5. Held(fd, l)' = Held(fd, l) + (At("Host", l, n) - At("Device", l, n) + 0)
    BY <1>4, <2>1, <2>4, HeldStep DEF Accounts, AllocFail
  <2>6. delta[l] + 0 = delta[l]
    BY <1>3
  <2> QED
    BY <2>5, <2>6
<1>6. UpdateCount(fd, delta)
  BY DEF AllocFail
<1> HIDE DEF delta
<1> QED
  BY <1>1, <1>3, <1>5, <1>6, Booked

(* A granted move reserves the chunk's bytes at the target.                *)
LEMMA MoveAccounts ==
    ASSUME Accounts, Typed', NEW fd \in Fd, NEW p \in Ptr, NEW to \in Loc,
           MoveRequest(fd, p, to), moving[fd] = NoMove,
           UpdateCount(fd, [l \in Loc |-> At(to, l, chunks[fd][p].size)]),
           moving' = [moving EXCEPT ![fd] = [ptr |-> p, to |-> to]]
    PROVE  TenantAccounts' /\ GlobalAccounts'
<1> DEFINE n == chunks[fd][p].size
           delta == [l \in Loc |-> At(to, l, n)]
<1>1. OthersKeep(fd)
  BY DEF MoveRequest, OthersKeep, Accounts, Typed
<1>2. n \in Nat
  BY SizeType DEF Accounts
<1>3. \A l \in Loc : delta[l] \in Int
  BY <1>2 DEF At
<1>4. ASSUME NEW l \in Loc PROVE Held(fd, l)' = Held(fd, l) + delta[l]
  <2>1. Overhead(fd, l)' = Overhead(fd, l) /\ ChunkBytes(fd, l)' = ChunkBytes(fd, l)
    BY DEF MoveRequest, Overhead, ChunkBytes
  <2>2. Total(ChunkBytes(fd, l))' = Total(ChunkBytes(fd, l))
    BY <2>1
  <2>3. Reservation(fd, l) = 0
    BY DEF Reservation
  <2>4. Reservation(fd, l)' = delta[l]
    <3>1. moving'[fd] = [ptr |-> p, to |-> to] /\ chunks' = chunks
      BY DEF MoveRequest, Accounts, Typed
    <3>2. moving'[fd] # NoMove
      BY <3>1, VmemdAssumption DEF NoMove
    <3> QED
      BY <3>1, <3>2 DEF Reservation
  <2>5. Overhead(fd, l) \in Int /\ Total(ChunkBytes(fd, l)) \in Int
    BY ChunkBytesType, UnitsFinite, VmemdAssumption DEF Overhead, At, Accounts
  <2> HIDE DEF delta
  <2> QED
    BY <1>3, <2>1, <2>2, <2>3, <2>4, <2>5 DEF Held
<1>5. UpdateCount(fd, delta)
  OBVIOUS
<1> HIDE DEF delta
<1> QED
  BY <1>1, <1>3, <1>4, <1>5, Booked

(* MoveDone releases the reservation, if there was one, and books the      *)
(* chunk where the tenant says it is.                                      *)
LEMMA MoveDoneAccounts ==
    ASSUME Accounts, Typed', NEW fd \in Fd, NEW p \in Ptr, NEW at \in Loc,
           MoveDone(fd, p, at), p \in Tracked(fd)
    PROVE  TenantAccounts' /\ GlobalAccounts'
<1> DEFINE n == chunks[fd][p].size
           from == chunks[fd][p].loc
           released(l) == At(ReservedAt(fd, p), l, n)
           delta == [l \in Loc |-> At(at, l, n) - At(from, l, n) - released(l)]
<1>1. OthersKeep(fd)
  BY DEF MoveDone, Record, DropMove, OthersKeep, Accounts, Typed
<1>2. n \in Nat
  BY SizeType DEF Accounts
<1>3. \A l : At(at, l, n) \in Int /\ At(from, l, n) \in Int /\ released(l) \in Int
  BY <1>2 DEF At
<1>4. chunks'[fd][p] = [size |-> n, loc |-> at]
  BY DEF MoveDone, Record, Accounts, Typed
<1>5. ASSUME NEW l \in Loc PROVE Held(fd, l)' = Held(fd, l) + delta[l]
  <2>1. \A q \in Ptr \ {p} : chunks'[fd][q] = chunks[fd][q]
    BY DEF MoveDone, Record, Accounts, Typed
  <2>2. Reservation(fd, l)' = Reservation(fd, l) - released(l)
    BY <2>1, ReservationDropped DEF MoveDone, Accounts
  <2>3. Reservation(fd, l) \in Int
    BY ReservationType DEF Accounts
  <2> DEFINE r == - released(l)
  <2>4. r \in Int /\ Reservation(fd, l)' = Reservation(fd, l) + r
    BY <1>3, <2>2, <2>3
  <2> HIDE DEF r
  <2>5. Held(fd, l)' = Held(fd, l) + (At(at, l, n) - At(from, l, n) + r)
    BY <1>4, <2>1, <2>4, HeldStep DEF Accounts, MoveDone
  <2>6. At(at, l, n) - At(from, l, n) + r = At(at, l, n) - At(from, l, n) - released(l)
    BY <1>3 DEF r
  <2> QED
    BY <2>5, <2>6
<1>6. \A l \in Loc : delta[l] \in Int
  BY <1>3
<1>7. UpdateCount(fd, delta)
  BY DEF MoveDone
<1> HIDE DEF delta
<1> QED
  BY <1>1, <1>5, <1>6, <1>7, Booked

(* A Resync replaces the entry; a move of the same chunk keeps its         *)
(* reservation, which is why the size must agree.                          *)
LEMMA ResyncAccounts ==
    ASSUME Accounts, Typed', NEW fd \in Fd, NEW p \in Ptr, NEW n \in Size, NEW at \in Loc,
           Resync(fd, p, n, at), SameSize(fd, p, n)
    PROVE  TenantAccounts' /\ GlobalAccounts'
<1> DEFINE old(l) == At(chunks[fd][p].loc, l, chunks[fd][p].size)
           delta == [l \in Loc |-> At(at, l, n) - old(l)]
<1>1. OthersKeep(fd)
  BY DEF Resync, Record, OthersKeep, Accounts, Typed
<1>2. n \in Nat /\ chunks[fd][p].size \in Nat
  BY SizeType, VmemdAssumption DEF Accounts
<1>3. \A l : At(at, l, n) \in Int /\ old(l) \in Int
  BY <1>2 DEF At
<1>4. chunks'[fd][p] = [size |-> n, loc |-> at]
  BY DEF Resync, Record, Accounts, Typed
<1>5. ASSUME NEW l \in Loc PROVE Held(fd, l)' = Held(fd, l) + delta[l]
  <2>1. \A q \in Ptr \ {p} : chunks'[fd][q] = chunks[fd][q]
    BY DEF Resync, Record, Accounts, Typed
  <2>2. Reservation(fd, l)' = Reservation(fd, l)
    BY <1>4, <2>1, ReservationKept DEF Resync, SameSize, Accounts
  <2>3. Reservation(fd, l) \in Int
    BY ReservationType DEF Accounts
  <2>4. Reservation(fd, l)' = Reservation(fd, l) + 0
    BY <2>2, <2>3
  <2>5. Held(fd, l)' = Held(fd, l) + (At(at, l, n) - old(l) + 0)
    BY <1>4, <2>1, <2>4, HeldStep DEF Accounts, Resync
  <2>6. At(at, l, n) - old(l) + 0 = At(at, l, n) - old(l)
    BY <1>3
  <2> QED
    BY <2>5, <2>6
<1>6. \A l \in Loc : delta[l] \in Int
  BY <1>3
<1>7. UpdateCount(fd, delta)
  BY DEF Resync
<1> HIDE DEF delta
<1> QED
  BY <1>1, <1>5, <1>6, <1>7, Booked

(* A Free takes out the chunk and, if it was moving, its reservation.      *)
LEMMA FreeAccounts ==
    ASSUME Accounts, Typed', NEW fd \in Fd, NEW p \in Ptr, Free(fd, p), p \in Tracked(fd)
    PROVE  TenantAccounts' /\ GlobalAccounts'
<1> DEFINE n == chunks[fd][p].size
           from == chunks[fd][p].loc
           released(l) == At(ReservedAt(fd, p), l, n)
           delta == [l \in Loc |-> - At(from, l, n) - released(l)]
<1>1. OthersKeep(fd)
  BY DEF Free, DropMove, OthersKeep, Accounts, Typed
<1>2. n \in Nat
  BY SizeType DEF Accounts
<1>3. \A l : At(from, l, n) \in Int /\ released(l) \in Int
  BY <1>2 DEF At
<1>4. chunks'[fd][p] = NoChunk
  BY DEF Free, Accounts, Typed
<1>5. ASSUME NEW l \in Loc PROVE Held(fd, l)' = Held(fd, l) + delta[l]
  <2>1. \A q \in Ptr \ {p} : chunks'[fd][q] = chunks[fd][q]
    BY DEF Free, Accounts, Typed
  <2>2. Reservation(fd, l)' = Reservation(fd, l) - released(l)
    BY <2>1, ReservationDropped DEF Free, Accounts
  <2>3. Reservation(fd, l) \in Int
    BY ReservationType DEF Accounts
  <2> DEFINE r == - released(l)
  <2>4. r \in Int /\ Reservation(fd, l)' = Reservation(fd, l) + r
    BY <1>3, <2>2, <2>3
  <2> HIDE DEF r
  <2>5. Held(fd, l)' = Held(fd, l) + (At("None", l, 0) - At(from, l, n) + r)
    BY <1>4, <2>1, <2>4, HeldStep DEF Accounts, Free, NoChunk
  <2>6. At("None", l, 0) - At(from, l, n) + r = - At(from, l, n) - released(l)
    BY <1>3 DEF r, At
  <2> QED
    BY <2>5, <2>6
<1>6. \A l \in Loc : delta[l] \in Int
  BY <1>3
<1>7. UpdateCount(fd, delta)
  BY DEF Free
<1> HIDE DEF delta
<1> QED
  BY <1>1, <1>5, <1>6, <1>7, Booked

(* A disconnect takes the tenant's whole share out of the machine's counts. *)
LEMMA DisconnectAccounts ==
    ASSUME Accounts, Typed', NEW fd \in Fd, Disconnect(fd)
    PROVE  TenantAccounts' /\ GlobalAccounts'
<1>1. OthersKeep(fd)
  BY DEF Disconnect, OthersKeep, Accounts, Typed
<1>2. /\ \A d \in Fd \ {fd} : used'[d] = used[d]
      /\ \A l \in Loc : used'[fd][l] = 0
      /\ \A l \in Loc : total'[l] = total[l] - used[fd][l]
  BY DEF Disconnect, Accounts, Typed
<1>3. ASSUME NEW l \in Loc PROVE Held(fd, l)' = 0
  <2>1. Overhead(fd, l)' = 0 /\ Reservation(fd, l)' = 0
    BY DEF Disconnect, Overhead, Reservation, Accounts, Typed
  <2>2. \A p \in Ptr : chunks'[fd][p] = NoChunk
    BY DEF Disconnect, Accounts, Typed
  <2>3. \A p \in DOMAIN ChunkBytes(fd, l)' : ChunkBytes(fd, l)'[p] = 0
    BY <2>2 DEF ChunkBytes, NoChunk, At
  <2>4. Total(ChunkBytes(fd, l)') = 0
    BY <2>3, TotalZero
  <2>5. Total(ChunkBytes(fd, l))' = 0
    BY <2>4
  <2> QED
    BY <2>1, <2>5 DEF Held
<1>4. TenantAccounts'
  <2>1. ASSUME NEW d \in Fd \ {fd}, NEW l \in Loc PROVE used'[d][l] = Held(d, l)'
    BY <1>1, <1>2, OthersHold DEF Accounts, TenantAccounts
  <2> QED
    BY <1>2, <1>3, <2>1 DEF TenantAccounts
<1>5. \A l \in Loc : total'[l] = total[l] - used[fd][l] + used'[fd][l]
  BY <1>2 DEF Accounts, Typed
<1> QED
  BY <1>2, <1>4, <1>5, GlobalStep

-----------------------------------------------------------------------------
(* A tenant whose table and move stay has its move in flight still tracked; *)
(* so it is enough to look at the sender.                                  *)
LEMMA SenderTracked ==
    ASSUME MovingTracked, NEW fd \in Fd, OthersKeep(fd),
           moving'[fd] # NoMove => moving'[fd].ptr \in Tracked(fd)'
    PROVE  MovingTracked'
<1>1. \A d \in Fd \ {fd} : Tracked(d)' = Tracked(d) /\ moving'[d] = moving[d]
  BY DEF OthersKeep, Tracked
<1> QED
  BY <1>1 DEF MovingTracked

(* The move in flight stays tracked while its sender's table only gains or *)
(* rewrites entries.                                                       *)
LEMMA TableGrows ==
    ASSUME Accounts, NEW fd \in Fd, OthersKeep(fd), moving' = moving,
           \A p \in Tracked(fd) : chunks'[fd][p] # NoChunk
    PROVE  MovingTracked'
<1>1. moving'[fd] # NoMove => moving'[fd].ptr \in Tracked(fd)'
  BY DEF Tracked, MovingTracked, Accounts
<1> QED
  BY <1>1, SenderTracked DEF Accounts

(* When the move of p is dropped, any other move in flight is of a chunk   *)
(* the handler did not touch.                                              *)
LEMMA MoveDropped ==
    ASSUME Accounts, NEW fd \in Fd, NEW p \in Ptr, OthersKeep(fd), DropMove(fd, p),
           \A q \in Ptr \ {p} : chunks'[fd][q] = chunks[fd][q]
    PROVE  MovingTracked'
<1>1. CASE moving[fd].ptr = p
  <2>1. moving'[fd] = NoMove
    BY <1>1 DEF DropMove, Accounts, Typed
  <2> QED
    BY <2>1, SenderTracked DEF Accounts
<1>2. CASE moving[fd].ptr # p
  <2>1. moving'[fd] = moving[fd]
    BY <1>2 DEF DropMove
  <2>2. moving'[fd] # NoMove => moving'[fd].ptr \in Tracked(fd)'
    BY <1>2, <2>1 DEF Tracked, MovingTracked, Accounts
  <2> QED
    BY <2>2, SenderTracked DEF Accounts
<1> QED
  BY <1>1, <1>2

(* An entry with a location is not the empty one.                          *)
LEMMA RecordTracked ==
    ASSUME Accounts, NEW fd \in Fd, NEW p \in Ptr, NEW n, NEW l \in Loc, Record(fd, p, n, l)
    PROVE  /\ \A q \in Tracked(fd) : chunks'[fd][q] # NoChunk
           /\ \A q \in Ptr \ {p} : chunks'[fd][q] = chunks[fd][q]
<1>1. chunks'[fd] = [chunks[fd] EXCEPT ![p] = [size |-> n, loc |-> l]]
  BY DEF Record, Accounts, Typed
<1>2. chunks'[fd][p] # NoChunk
  BY <1>1 DEF NoChunk, Loc, Accounts, Typed
<1>3. \A q \in Ptr \ {p} : chunks'[fd][q] = chunks[fd][q]
  BY <1>1 DEF Accounts, Typed
<1> QED
  BY <1>2, <1>3 DEF Tracked

(* No handler leaves a granted move of a chunk the broker has forgotten.   *)
LEMMA MovesStayTracked ==
    ASSUME Accounts, Typed', Next
    PROVE  MovingTracked'
<1>1. ASSUME NEW fd \in Fd, Connect(fd) PROVE MovingTracked'
  BY <1>1 DEF Connect, Accounts, MovingTracked, Tracked
<1>2. ASSUME NEW fd \in Fd, Disconnect(fd) PROVE MovingTracked'
  <2>1. OthersKeep(fd) /\ moving'[fd] = NoMove
    BY <1>2 DEF Disconnect, OthersKeep, Accounts, Typed
  <2> QED
    BY <2>1, SenderTracked DEF Accounts
<1>3. ASSUME NEW fd \in Fd, Hello(fd) PROVE MovingTracked'
  BY <1>3 DEF Hello, Accounts, MovingTracked, Tracked
<1>4. ASSUME NEW fd \in Fd, NEW p \in Ptr, NEW n \in Size, Alloc(fd, p, n) PROVE MovingTracked'
  <2>1. CASE Record(fd, p, n, Place(n)) /\ Place(n) \in Loc
    <3>1. OthersKeep(fd)
      BY <1>4, <2>1 DEF Alloc, Record, OthersKeep, Accounts, Typed
    <3> QED
      BY <1>4, <2>1, <3>1, RecordTracked, TableGrows DEF Alloc
  <2>2. CASE UNCHANGED chunks
    BY <1>4, <2>2 DEF Alloc, Accounts, MovingTracked, Tracked
  <2> QED
    BY <1>4, <2>1, <2>2 DEF Alloc, Place, Loc
<1>5. ASSUME NEW fd \in Fd, NEW p \in Ptr, AllocFail(fd, p) PROVE MovingTracked'
  <2>1. CASE chunks[fd][p].loc = "Device"
    <3>1. OthersKeep(fd)
      BY <1>5, <2>1 DEF AllocFail, Record, OthersKeep, Accounts, Typed
    <3>2. Record(fd, p, chunks[fd][p].size, "Host") /\ moving' = moving
      BY <1>5, <2>1 DEF AllocFail
    <3> QED
      BY <3>1, <3>2, RecordTracked, TableGrows DEF Loc
  <2>2. CASE chunks[fd][p].loc # "Device"
    BY <1>5, <2>2 DEF AllocFail, Accounts, MovingTracked, Tracked
  <2> QED
    BY <2>1, <2>2
<1>6. ASSUME NEW fd \in Fd, NEW p \in Ptr, NEW to \in Loc, MoveRequest(fd, p, to)
      PROVE  MovingTracked'
  <2>1. CASE moving' = moving
    BY <1>6, <2>1 DEF MoveRequest, Accounts, MovingTracked, Tracked
  <2>2. CASE p \in Tracked(fd) /\ moving' = [moving EXCEPT ![fd] = [ptr |-> p, to |-> to]]
    <3>1. OthersKeep(fd) /\ moving'[fd].ptr = p
      BY <1>6, <2>2 DEF MoveRequest, OthersKeep, Accounts, Typed
    <3>2. Tracked(fd)' = Tracked(fd)
      BY <1>6 DEF MoveRequest, Tracked
    <3> QED
      BY <2>2, <3>1, <3>2, SenderTracked DEF Accounts
  <2> QED
    BY <1>6, <2>1, <2>2 DEF MoveRequest
<1>7. ASSUME NEW fd \in Fd, NEW p \in Ptr, NEW at \in Loc, MoveDone(fd, p, at)
      PROVE  MovingTracked'
  <2>1. CASE p \in Tracked(fd)
    <3>1. OthersKeep(fd)
      BY <1>7, <2>1 DEF MoveDone, Record, DropMove, OthersKeep, Accounts, Typed
    <3>2. Record(fd, p, chunks[fd][p].size, at) /\ DropMove(fd, p)
      BY <1>7, <2>1 DEF MoveDone
    <3> QED
      BY <3>1, <3>2, RecordTracked, MoveDropped
  <2>2. CASE p \notin Tracked(fd)
    BY <1>7, <2>2 DEF MoveDone, Accounts, MovingTracked, Tracked
  <2> QED
    BY <2>1, <2>2
<1>8. ASSUME NEW fd \in Fd, NEW p \in Ptr, NEW n \in Size, NEW at \in Loc, Resync(fd, p, n, at)
      PROVE  MovingTracked'
  <2>1. OthersKeep(fd)
    BY <1>8 DEF Resync, Record, OthersKeep, Accounts, Typed
  <2> QED
    BY <1>8, <2>1, RecordTracked, TableGrows DEF Resync
<1>9. ASSUME NEW fd \in Fd, NEW p \in Ptr, Free(fd, p) PROVE MovingTracked'
  <2>1. CASE p \in Tracked(fd)
    <3>1. OthersKeep(fd)
      BY <1>9, <2>1 DEF Free, DropMove, OthersKeep, Accounts, Typed
    <3>2. \A q \in Ptr \ {p} : chunks'[fd][q] = chunks[fd][q]
      BY <1>9, <2>1 DEF Free, Accounts, Typed
    <3> QED
      BY <1>9, <2>1, <3>1, <3>2, MoveDropped DEF Free
  <2>2. CASE p \notin Tracked(fd)
    BY <1>9, <2>2 DEF Free, Accounts, MovingTracked, Tracked
  <2> QED
    BY <2>1, <2>2
<1> QED
  BY <1>1, <1>2, <1>3, <1>4, <1>5, <1>6, <1>7, <1>8, <1>9 DEF Next, Common

-----------------------------------------------------------------------------
(* A broker that starts has empty tables and counts nothing.               *)
LEMMA InitAccounts == Init => Accounts
<1> SUFFICES ASSUME Init PROVE Accounts
  OBVIOUS
<1>1. Typed
  BY TypeInit
<1>2. MovingTracked
  BY DEF Init, MovingTracked
<1>3. TenantAccounts
  <2> SUFFICES ASSUME NEW fd \in Fd, NEW l \in Loc PROVE Held(fd, l) = 0
    BY DEF TenantAccounts, Init
  <2>1. Overhead(fd, l) = 0 /\ Reservation(fd, l) = 0
    BY DEF Init, Overhead, Reservation
  <2>2. \A p \in DOMAIN ChunkBytes(fd, l) : ChunkBytes(fd, l)[p] = 0
    BY DEF Init, ChunkBytes, NoChunk, At
  <2> QED
    BY <2>1, <2>2, TotalZero DEF Held
<1>4. GlobalAccounts
  <2> SUFFICES ASSUME NEW l \in Loc PROVE Total([fd \in Fd |-> used[fd][l]]) = 0
    BY DEF GlobalAccounts, Init
  <2> DEFINE f == [fd \in Fd |-> used[fd][l]]
  <2>1. \A fd \in DOMAIN f : f[fd] = 0
    BY DEF Init
  <2> HIDE DEF f
  <2>2. Total(f) = 0
    BY <2>1, TotalZero
  <2> QED
    BY <2>2 DEF f
<1> QED
  BY <1>1, <1>2, <1>3, <1>4 DEF Accounts

(* Every handler keeps the counts right.                                   *)
LEMMA StepAccounts ==
    ASSUME Accounts, Typed', Next
    PROVE  TenantAccounts' /\ GlobalAccounts'
<1> DEFINE Right == TenantAccounts' /\ GlobalAccounts'
<1>0. ASSUME UNCHANGED <<hello, chunks, moving, used, total>> PROVE Right
  BY <1>0 DEF Accounts, TenantAccounts, GlobalAccounts, Held, Overhead, Reservation, ChunkBytes
<1>1. ASSUME NEW fd \in Fd, Connect(fd) PROVE Right
  BY <1>0, <1>1 DEF Connect
<1>2. ASSUME NEW fd \in Fd, Disconnect(fd) PROVE Right
  BY <1>2, DisconnectAccounts
<1>3. ASSUME NEW fd \in Fd, Hello(fd) PROVE Right
  <2>1. CASE hello[fd]
    BY <1>0, <1>3, <2>1 DEF Hello
  <2>2. CASE ~hello[fd]
    BY <1>3, <2>2, HelloAccounts
  <2> QED
    BY <2>1, <2>2
<1>4. ASSUME NEW fd \in Fd, NEW p \in Ptr, NEW n \in Size, Alloc(fd, p, n) PROVE Right
  <2>1. CASE /\ p \notin Tracked(fd) /\ Record(fd, p, n, Place(n))
             /\ UpdateCount(fd, [l \in Loc |-> At(Place(n), l, n)])
    BY <1>4, <2>1, AllocAccounts
  <2>2. CASE UNCHANGED chunks /\ UnchangedCount
    BY <1>0, <1>4, <2>2 DEF Alloc, UnchangedCount
  <2> QED
    BY <1>4, <2>1, <2>2 DEF Alloc
<1>5. ASSUME NEW fd \in Fd, NEW p \in Ptr, AllocFail(fd, p) PROVE Right
  <2>1. CASE chunks[fd][p].loc = "Device"
    BY <1>5, <2>1, AllocFailAccounts
  <2>2. CASE chunks[fd][p].loc # "Device"
    BY <1>0, <1>5, <2>2 DEF AllocFail, UnchangedCount
  <2> QED
    BY <2>1, <2>2
<1>6. ASSUME NEW fd \in Fd, NEW p \in Ptr, NEW to \in Loc, MoveRequest(fd, p, to) PROVE Right
  <2>1. CASE /\ moving[fd] = NoMove
             /\ UpdateCount(fd, [l \in Loc |-> At(to, l, chunks[fd][p].size)])
             /\ moving' = [moving EXCEPT ![fd] = [ptr |-> p, to |-> to]]
    BY <1>6, <2>1, MoveAccounts
  <2>2. CASE UNCHANGED moving /\ UnchangedCount
    BY <1>0, <1>6, <2>2 DEF MoveRequest, UnchangedCount
  <2> QED
    BY <1>6, <2>1, <2>2 DEF MoveRequest
<1>7. ASSUME NEW fd \in Fd, NEW p \in Ptr, NEW at \in Loc, MoveDone(fd, p, at) PROVE Right
  <2>1. CASE p \in Tracked(fd)
    BY <1>7, <2>1, MoveDoneAccounts
  <2>2. CASE p \notin Tracked(fd)
    BY <1>0, <1>7, <2>2 DEF MoveDone
  <2> QED
    BY <2>1, <2>2
<1>8. ASSUME NEW fd \in Fd, NEW p \in Ptr, NEW n \in Size, NEW at \in Loc,
             SameSize(fd, p, n), Resync(fd, p, n, at)
      PROVE  Right
  BY <1>8, ResyncAccounts
<1>9. ASSUME NEW fd \in Fd, NEW p \in Ptr, Free(fd, p) PROVE Right
  <2>1. CASE p \in Tracked(fd)
    BY <1>9, <2>1, FreeAccounts
  <2>2. CASE p \notin Tracked(fd)
    BY <1>0, <1>9, <2>2 DEF Free
  <2> QED
    BY <2>1, <2>2
<1> HIDE DEF Right
<1>10. Right
  BY <1>1, <1>2, <1>3, <1>4, <1>5, <1>6, <1>7, <1>8, <1>9 DEF Next, Common
<1> QED
  BY <1>10 DEF Right

(* No step of the broker leaves a table and a count apart.                 *)
LEMMA NextAccounts ==
    ASSUME Accounts, [Next]_vars
    PROVE  Accounts'
<1>1. CASE UNCHANGED vars
  BY <1>1 DEF vars, Accounts, Typed, MovingTracked, Tracked, TenantAccounts, GlobalAccounts,
              Held, Overhead, Reservation, ChunkBytes
<1>2. CASE Next
  <2>1. RawNext
    BY <1>2 DEF Next, RawNext
  <2>2. Typed'
    BY <2>1, TypeStep DEF Accounts
  <2> QED
    BY <1>2, <2>2, MovesStayTracked, StepAccounts DEF Accounts
<1> QED
  BY <1>1, <1>2

(* In every state of the broker the tables and the counts agree.           *)
THEOREM AccountsInvariant == Spec => []Accounts
<1>1. Accounts /\ [Next]_vars => Accounts'
  BY NextAccounts
<1> QED
  BY <1>1, InitAccounts, PTL DEF Spec

(* K1: a tenant's running count at a location is its overhead, its chunks  *)
(* there and the bytes its granted move reserves there.  It holds for any  *)
(* messages in any order but one, which Spec leaves out (SameSize): a      *)
(* Resync that gives another size to a chunk with a granted move.  With it *)
(* K1 fails, under RawSpec.                                                *)
THEOREM TenantAccountsCorrect == Spec => []TenantAccounts
  BY AccountsInvariant, PTL DEF Accounts

(* K2: the machine's running counts are the sums over the tenants.         *)
THEOREM GlobalAccountsCorrect == Spec => []GlobalAccounts
  BY AccountsInvariant, PTL DEF Accounts

(* A granted move always names a chunk the broker tracks.                  *)
THEOREM MovingTrackedCorrect == Spec => []MovingTracked
  BY AccountsInvariant, PTL DEF Accounts

(* Accounts that are right are sums of sizes.                              *)
LEMMA AccountsUnsigned == Accounts => Unsigned
<1> SUFFICES ASSUME Accounts PROVE Unsigned
  OBVIOUS
<1>1. \A fd \in Fd, l \in Loc : used[fd][l] \in Nat
  BY HeldType DEF Accounts, TenantAccounts
<1>2. ASSUME NEW l \in Loc PROVE total[l] \in Nat
  <2> DEFINE f == [fd \in Fd |-> used[fd][l]]
  <2>1. DOMAIN f = Fd /\ \A fd \in Fd : f[fd] \in Nat
    BY <1>1
  <2> HIDE DEF f
  <2>2. Total(f) \in Nat
    BY <2>1, UnitsFinite, VmemdAssumption
  <2> QED
    BY <2>2 DEF f, Accounts, GlobalAccounts
<1> QED
  BY <1>1, <1>2 DEF Unsigned

(* No size_t counter is taken below zero by any messages that keep to      *)
(* SameSize.  A raw Resync of another size in a move, and then a Free,     *)
(* does take one below zero.                                               *)
THEOREM UnsignedCorrect == Spec => []Unsigned
  BY AccountsUnsigned, AccountsInvariant, PTL

-----------------------------------------------------------------------------
(* The broker implements module Ledger.  Where the counts agree with the   *)
(* tables, the ledger read off the tables is the counts themselves, and a  *)
(* request that fits by the counts fits by the ledger.                     *)
Share == [fd \in Fd |-> [l \in Loc |-> Held(fd, l)]]

(* The ledger is what the handlers keep in used.                           *)
LEMMA ShareIsUsed == Accounts => Share = used
  BY DEF Accounts, Typed, TenantAccounts, Share

(* fits_limit, which looks at the machine's count, decides by the ledger.  *)
LEMMA RoomFits ==
    ASSUME Accounts, NEW l \in Loc, NEW n
    PROVE  Promise!Room(l, n) <=> Fits(l, n)
<1>1. total[l] = Total([fd \in Fd |-> Share[fd][l]])
  <2>1. [fd \in Fd |-> Share[fd][l]] = [fd \in Fd |-> used[fd][l]]
    BY ShareIsUsed
  <2> QED
    BY <2>1 DEF Accounts, GlobalAccounts
<1>2. ASSUME NEW f PROVE Promise!Total(f) = Total(f)
  BY DEF Promise!Total, Promise!Units, Promise!Cardinality, Total, Units, Cardinality
<1>3. Promise!Total([fd \in Fd |-> Share[fd][l]]) = total[l]
  BY <1>1, <1>2
<1> QED
  BY <1>3 DEF Promise!Room, Fits, Share

(* A message that leaves every count alone is an answer.                   *)
LEMMA OnlyAnswers ==
    ASSUME Share' = Share, NEW fd \in Fd,
           \/ Promise!Said(fd, {"Alloc"}, {"Unsupported"})
           \/ Promise!Said(fd, {"Move"}, {"Ok", "NoMemory"})
           \/ Promise!Said(fd, {"Connect"}, {"None"})
    PROVE  Promise!Answer(fd)
  BY DEF Promise!Answer, Share

(* A new broker owes nobody anything.                                      *)
LEMMA InitPromise == Init => Promise!Init
<1> SUFFICES ASSUME Init PROVE Promise!Init
  OBVIOUS
<1>1. Share = used
  BY InitAccounts, ShareIsUsed
<1>2. used = [fd \in Fd |-> [l \in Loc |-> 0]]
  BY DEF Init
<1> QED
  BY <1>1, <1>2 DEF Init, Share, Promise!Init, Promise!Nothing, Promise!Loc, Loc

(* Granting books exactly the bytes asked for, where they were granted.    *)
LEMMA GrantBooks ==
    ASSUME Accounts, Share = used, Share' = used', NEW fd \in Fd, NEW to \in Loc, NEW n \in Nat,
           UpdateCount(fd, [l \in Loc |-> At(to, l, n)])
    PROVE  Promise!Grown(fd, to, n)
<1> DEFINE row == [used[fd] EXCEPT ![to] = @ + n]
<1>1. used[fd] \in [Loc -> Int]
  BY DEF Accounts, Typed
<1>2. [l \in Loc |-> used[fd][l] + At(to, l, n)] = row
  BY <1>1 DEF At
<1>3. used' = [used EXCEPT ![fd] = row]
  BY <1>2 DEF UpdateCount
<1>4. Share' = [Share EXCEPT ![fd][to] = @ + n]
  BY <1>3
<1> QED
  BY <1>4 DEF Promise!Grown, Share

(* Every event of the broker is a step of the ledger.                      *)
LEMMA StepPromise ==
    ASSUME Accounts, Accounts', Next
    PROVE  Promise!Next
<1> DEFINE Step(fd) == \/ Promise!Answer(fd) \/ Promise!Report(fd) \/ Promise!Release(fd) \/ Promise!Leave(fd)
                       \/ \E n \in Size :
                            \/ Promise!RefuseAlloc(fd, n)
                            \/ \E l \in Loc : Promise!GrantAlloc(fd, l, n) \/ Promise!GrantMove(fd, l, n)
<1>1. Share = used /\ Share' = used'
  <2>1. (Accounts => Share = used)'
    BY ShareIsUsed, PTL
  <2> QED
    BY <2>1, ShareIsUsed
<1>2. ASSUME NEW fd \in Fd, Connect(fd) PROVE Step(fd)
  BY <1>1, <1>2, OnlyAnswers DEF Connect, Logged, Promise!Said
<1>3. ASSUME NEW fd \in Fd, Disconnect(fd) PROVE Step(fd)
  <2>1. Share' = [Share EXCEPT ![fd] = [l \in Loc |-> 0]]
    BY <1>1, <1>3 DEF Disconnect
  <2>2. Promise!Leave(fd)
    BY <1>3, <2>1 DEF Disconnect, Logged, Promise!Said, Promise!Leave, Promise!Nothing, Promise!Loc, Loc, Share
  <2> QED
    BY <2>2
<1>4. ASSUME NEW fd \in Fd, Promise!Said(fd, {"Hello"}, {"Ok"})
                            \/ Promise!Said(fd, {"AllocFail", "MoveDone", "Resync"}, {"None"}),
             \/ UNCHANGED used
             \/ \E row : used' = [used EXCEPT ![fd] = row]
      PROVE  Step(fd)
  <2>1. \A other \in Fd \ {fd} : Share'[other] = Share[other]
    BY <1>1, <1>4 DEF Accounts, Typed
  <2>2. Promise!Report(fd)
    BY <1>4, <2>1 DEF Promise!Report, Share
  <2> QED
    BY <2>2
<1>5. ASSUME NEW fd \in Fd, Hello(fd) PROVE Step(fd)
  BY <1>4, <1>5 DEF Hello, UpdateCount, Logged, Promise!Said
<1>6. ASSUME NEW fd \in Fd, NEW p \in Ptr, AllocFail(fd, p) PROVE Step(fd)
  BY <1>4, <1>6 DEF AllocFail, UpdateCount, UnchangedCount, Logged, Promise!Said
<1>7. ASSUME NEW fd \in Fd, NEW p \in Ptr, NEW at \in Loc, MoveDone(fd, p, at) PROVE Step(fd)
  BY <1>4, <1>7 DEF MoveDone, UpdateCount, Logged, Promise!Said
<1>8. ASSUME NEW fd \in Fd, NEW p \in Ptr, NEW n \in Size, NEW at \in Loc, Resync(fd, p, n, at) PROVE Step(fd)
  BY <1>4, <1>8 DEF Resync, UpdateCount, Logged, Promise!Said
<1>9. ASSUME NEW fd \in Fd, NEW p \in Ptr, Free(fd, p) PROVE Step(fd)
  <2>1. /\ \A l \in Loc : used'[fd][l] <= used[fd][l]
        /\ \A other \in Fd \ {fd} : used'[other] = used[other]
    <3>1. CASE p \in Tracked(fd)
      <4>1. \A l \in Loc : /\ At(chunks[fd][p].loc, l, chunks[fd][p].size) \in Nat
                           /\ At(ReservedAt(fd, p), l, chunks[fd][p].size) \in Nat
        BY SizeType DEF Accounts, At
      <4>2. used \in [Fd -> [Loc -> Int]]
        BY DEF Accounts, Typed
      <4> QED
        BY <1>9, <3>1, <4>1, <4>2 DEF Free, UpdateCount
    <3>2. CASE p \notin Tracked(fd)
      BY <1>9, <3>2 DEF Free, Accounts, Typed
    <3> QED
      BY <3>1, <3>2
  <2>2. Promise!Release(fd)
    BY <1>1, <1>9, <2>1 DEF Free, Logged, Promise!Said, Promise!Release, Promise!Loc, Loc, Share
  <2> QED
    BY <2>2
<1>10. ASSUME NEW fd \in Fd, NEW p \in Ptr, NEW n \in Size, Alloc(fd, p, n) PROVE Step(fd)
  <2>1. CASE Logged("Alloc", fd, n, "Unsupported") /\ UnchangedCount
    BY <1>1, <2>1, OnlyAnswers DEF Logged, UnchangedCount, Promise!Said
  <2>2. CASE Place(n) = "None" /\ Logged("Alloc", fd, n, "NoMemory") /\ UnchangedCount
    <3>1. \A l \in Loc : ~Promise!Room(l, n)
      BY <2>2, RoomFits DEF Place, Loc
    <3>2. Promise!RefuseAlloc(fd, n)
      BY <1>1, <2>2, <3>1
      DEF Logged, UnchangedCount, Promise!Said, Promise!RefuseAlloc, Promise!Loc, Loc, Share
    <3> QED
      BY <3>2
  <2>3. CASE /\ Place(n) # "None" /\ Logged("Alloc", fd, n, "Ok")
             /\ UpdateCount(fd, [l \in Loc |-> At(Place(n), l, n)])
    <3>1. Place(n) \in Loc /\ Promise!Room(Place(n), n)
          /\ (Place(n) = "Host" => ~Promise!Room("Device", n))
      BY <2>3, RoomFits DEF Place, Loc
    <3>2. Promise!Grown(fd, Place(n), n)
      BY <1>1, <2>3, <3>1, GrantBooks, VmemdAssumption
    <3>3. Promise!GrantAlloc(fd, Place(n), n)
      BY <2>3, <3>1, <3>2 DEF Logged, Promise!Said, Promise!GrantAlloc
    <3> QED
      BY <3>1, <3>3
  <2> QED
    BY <1>10, <2>1, <2>2, <2>3 DEF Alloc
<1>11. ASSUME NEW fd \in Fd, NEW p \in Ptr, NEW to \in Loc, MoveRequest(fd, p, to) PROVE Step(fd)
  <2>1. CASE UnchangedCount
    <3>1. Promise!Said(fd, {"Move"}, {"Ok", "NoMemory"})
      BY <1>11 DEF MoveRequest, Logged, Promise!Said
    <3> QED
      BY <1>1, <2>1, <3>1, OnlyAnswers DEF UnchangedCount
  <2>2. CASE /\ p \in Tracked(fd) /\ Fits(to, chunks[fd][p].size)
             /\ UpdateCount(fd, [l \in Loc |-> At(to, l, chunks[fd][p].size)])
             /\ Logged("Move", fd, 0, "Ok")
    <3>1. chunks[fd][p].size \in Size /\ chunks[fd][p].size \in Nat
      BY <2>2, EntryType DEF Accounts
    <3>2. Promise!Room(to, chunks[fd][p].size) /\ Promise!Grown(fd, to, chunks[fd][p].size)
      BY <1>1, <2>2, <3>1, RoomFits, GrantBooks
    <3>3. Promise!GrantMove(fd, to, chunks[fd][p].size)
      BY <2>2, <3>2 DEF Logged, Promise!Said, Promise!GrantMove
    <3> QED
      BY <3>1, <3>3
  <2> QED
    BY <1>11, <2>1, <2>2 DEF MoveRequest
<1>12. PICK fd \in Fd : Common(fd) \/ \E p \in Ptr, n \in Size, l \in Loc : Resync(fd, p, n, l)
  BY DEF Next
<1> HIDE DEF Step
<1>13. Step(fd)
  BY <1>2, <1>3, <1>5, <1>6, <1>7, <1>8, <1>9, <1>10, <1>11, <1>12 DEF Common
<1> QED
  BY <1>13 DEF Step, Promise!Next, Promise!Loc, Loc

(* K3, K4: what the broker grants and refuses is what module Ledger allows *)
(* for the size that was asked: an Alloc of n bytes is granted only where  *)
(* n more fit and refused only where they fit at neither location, for any *)
(* tenants, chunks, sizes and limits and any messages that keep SameSize.  *)
THEOREM PromiseKept == Spec => KeepsPromise
<1>1. Accounts /\ Accounts' /\ [Next]_vars => [Promise!Next]_<<Share, last>>
  <2>1. UNCHANGED vars => UNCHANGED <<Share, last>>
    BY DEF vars, Share, Held, Overhead, Reservation, ChunkBytes
  <2> QED
    BY <2>1, StepPromise
<1> QED
  BY <1>1, InitPromise, AccountsInvariant, PTL DEF Spec, KeepsPromise, Promise!Spec, Share

-----------------------------------------------------------------------------
(* The broker with its tenants. *)

(* What travels on a connection, and the records of the two tables.        *)
Message == {m \in [type : MessageType, ptr : Ptr \cup {Nil}, loc : Loc \cup {"None"}] :
               /\ m.type # "Hello" => m.ptr \in Ptr
               /\ m.type \in {"Move", "MoveDone", "Resync"} => m.loc \in Loc}

Answer == {a \in [type : Reply, ptr : Ptr \cup {Nil}, loc : Loc \cup {"None"},
                  status : {"Ok", "NoMemory", "Unsupported", "None"}] :
               a.type = "Alloc" /\ a.status = "Ok" => a.loc \in Loc}

Connection == [state : {"free", "backlog", "accepted", "dead"},
               end : {"none", "open", "eof", "reset"},
               queue : Seq(Message), reply : Seq(Answer), owner : Client \cup {Nil}]

Process == [pc : {"off", "idle", "dial", "hello", "resync", "ask", "wait", "work"},
            op : {"none", "open", "reconnect", "create", "move", "destroy"},
            ptr : Ptr \cup {Nil}, to : Loc \cup {"None"}, told : BOOLEAN,
            sock : Fd \cup {Nil}, link : {"Local", "Connected", "Broken"}, left : SUBSET Ptr]

Holding == [Ptr -> Loc \cup {"None"}]

Types ==
    /\ Typed
    /\ up \in BOOLEAN /\ crashes \in 0 .. MaxCrash
    /\ net \in [Fd -> Connection]
    /\ backlog \in Seq(Fd) /\ batch \subseteq Fd \cup {Nil}
    /\ proc \in [Client -> Process]
    /\ held \in [Client -> Holding]

(* A client's locals r, with what it holds in h.                           *)
Located(r, h) ==
    /\ r.link = "Connected" <=> r.sock # Nil
    /\ r.pc = "off" => r.sock = Nil
    /\ r.pc \in {"hello", "resync", "wait"} => r.sock # Nil
    /\ r.pc \in {"dial", "hello", "resync"} => r.op \notin {"none", "destroy"}
    /\ r.pc \in {"ask", "wait"} => r.op \in {"create", "move"}
    /\ r.op \in {"create", "move", "destroy"} => r.ptr \in Ptr
    /\ r.op = "move" => r.to \in Loc
    /\ r.op = "move" /\ r.pc # "idle" => h[r.ptr] \in Loc
    /\ r.pc # "resync" => r.left = {}
    /\ \A p \in r.left : h[p] \in Loc

(* The message or reply m is the request r is blocked on, or its answer.   *)
Awaits(r, m) ==
    \/ r.pc = "hello" /\ m.type = "Hello"
    \/ /\ r.pc = "wait" /\ m.ptr = r.ptr
       /\ m.type = IF r.op = "create" THEN "Alloc" ELSE "Move"

(* At most one request of r is under way on n, and nothing behind it.      *)
InOrder(n, r) ==
    /\ \A i \in 1 .. Len(n.queue) : n.queue[i].type \in Reply =>
          i = Len(n.queue) /\ Awaits(r, n.queue[i]) /\ n.reply = <<>>
    /\ n.reply # <<>> => Len(n.reply) = 1 /\ Awaits(r, n.reply[1])

(* A connection that its client has closed carries no more replies.        *)
Socket(n) ==
    /\ Len(n.queue) <= Cap
    /\ n.end = "open" => n.state # "free"
    /\ n.end # "open" => n.reply = <<>>

(* The open connections are the links of the clients, one each.            *)
Owned ==
    /\ \A c \in Client : proc[c].sock # Nil =>
          net[proc[c].sock].end = "open" /\ net[proc[c].sock].owner = c
    /\ \A f \in Fd : net[f].end = "open" =>
          net[f].owner \in Client /\ proc[net[f].owner].sock = f

(* The kernel's queue and the broker's tenants, by descriptor.             *)
Tables ==
    /\ \A f \in Fd : net[f].state = "accepted" <=> f \in tenants
    /\ \A f \in Fd : net[f].state = "backlog" <=> \E i \in 1 .. Len(backlog) : backlog[i] = f
    /\ \A i, j \in 1 .. Len(backlog) : backlog[i] = backlog[j] => i = j

(* A chunk is tracked with the size it was created with.                   *)
Sized == \A f \in Fd, p \in Ptr : p \in Tracked(f) => chunks[f][p].size = SizeOf[p]

Inv ==
    /\ Types
    /\ \A c \in Client : Located(proc[c], held[c])
    /\ \A f \in Fd : Socket(net[f])
    /\ \A c \in Client : proc[c].sock # Nil => InOrder(net[proc[c].sock], proc[c])
    /\ Owned /\ Tables
    /\ batch \subseteq Ready
    /\ Sized /\ Accounts

-----------------------------------------------------------------------------
(* The pieces of the invariant.                                            *)

(* Neither a request nor a reply of the client is under way on n.          *)
Quiet(n) ==
    /\ n.reply = <<>>
    /\ \A i \in 1 .. Len(n.queue) : n.queue[i].type \notin Reply

(* Only a client that waits has a request under way.                       *)
LEMMA QuietUnlessWaiting ==
    ASSUME NEW n, NEW r, InOrder(n, r), n.reply \in Seq(Answer), r.pc \notin {"hello", "wait"}
    PROVE  Quiet(n)
  BY DEF InOrder, Awaits, Quiet

(* Then it may go anywhere.                                                *)
LEMMA QuietInOrder ==
    ASSUME NEW n, NEW r, Quiet(n)
    PROVE  InOrder(n, r)
  BY DEF InOrder, Quiet

(* What is left of a sequence of one.                                      *)
LEMMA TailOfOne ==
    ASSUME NEW S, NEW s \in Seq(S), Len(s) = 1
    PROVE  Tail(s) = <<>>
<1>1. Tail(s) \in Seq(S) /\ Len(Tail(s)) = 0
  OBVIOUS
<1> QED
  BY <1>1, EmptySeq

(* A reply is the last thing under way.                                    *)
LEMMA ReplyIsLast ==
    ASSUME NEW n, NEW r, InOrder(n, r), n.reply \in Seq(Answer), n.queue \in Seq(Message),
           n.reply # <<>>
    PROVE  /\ Tail(n.reply) = <<>>
           /\ \A i \in 1 .. Len(n.queue) : n.queue[i].type \notin Reply
<1>1. Len(n.reply) = 1
  BY DEF InOrder
<1>2. Tail(n.reply) = <<>>
  BY <1>1, TailOfOne
<1>3. \A i \in 1 .. Len(n.queue) : n.queue[i].type \notin Reply
  BY DEF InOrder
<1> QED
  BY <1>2, <1>3

(* What closing a connection leaves of it.                                 *)
LEMMA ClosedConnection ==
    ASSUME NEW n \in Connection, Socket(n), n.end = "open"
    PROVE  /\ Closed(n) \in Connection
           /\ Socket(Closed(n))
           /\ Closed(n).end # "open"
           /\ Closed(n).state = n.state \/ (n.state = "dead" /\ Closed(n).state = "free")
           /\ n.state # "dead" => Closed(n).queue = n.queue
<1>1. CASE n.state = "dead"
  <2>1. Closed(n) = Unused
    BY <1>1 DEF Closed
  <2>2. Unused \in Connection
    BY DEF Unused, Connection
  <2>3. Socket(Unused)
    BY SystemAssumption DEF Unused, Socket
  <2> QED
    BY <1>1, <2>1, <2>2, <2>3 DEF Unused
<1>2. CASE n.state # "dead"
  <2>1. PICK e \in {"eof", "reset"} : Closed(n) = [n EXCEPT !.end = e, !.reply = <<>>]
    BY <1>2 DEF Closed
  <2>2. Closed(n) = [state |-> n.state, end |-> e, queue |-> n.queue, reply |-> <<>>,
                     owner |-> n.owner]
    BY <2>1 DEF Connection
  <2>3. Closed(n) \in Connection
    BY <2>2 DEF Connection
  <2>4. /\ Closed(n).end = e /\ Closed(n).reply = <<>>
        /\ Closed(n).queue = n.queue /\ Closed(n).state = n.state
    BY <2>2
  <2> QED
    BY <2>1, <2>3, <2>4, <1>2 DEF Socket
<1> QED
  BY <1>1, <1>2

(* Both tables at once: what every step needs of the types.                *)
LEMMA StateTypes ==
    ASSUME Inv
    PROVE  /\ \A f \in Fd : net[f] \in Connection /\ Socket(net[f])
           /\ \A c \in Client : /\ proc[c] \in Process /\ held[c] \in Holding
                                /\ Located(proc[c], held[c])
           /\ backlog \in Seq(Fd)
  BY DEF Inv, Types

(* A client's own connection.                                              *)
LEMMA OwnConnection ==
    ASSUME Inv, NEW c \in Client, proc[c].sock # Nil
    PROVE  /\ proc[c].sock \in Fd
           /\ net[proc[c].sock] \in Connection /\ Socket(net[proc[c].sock])
           /\ net[proc[c].sock].end = "open" /\ net[proc[c].sock].owner = c
           /\ net[proc[c].sock].state # "free"
           /\ InOrder(net[proc[c].sock], proc[c])
           /\ proc[c].pc \notin {"hello", "wait"} => Quiet(net[proc[c].sock])
<1>1. proc[c].sock \in Fd
  BY StateTypes DEF Process
<1>2. InOrder(net[proc[c].sock], proc[c])
  BY DEF Inv
<1>3. net[proc[c].sock].end = "open" /\ net[proc[c].sock].owner = c
  BY DEF Inv, Owned
<1>4. net[proc[c].sock] \in Connection /\ Socket(net[proc[c].sock])
  BY <1>1, StateTypes
<1>5. net[proc[c].sock].reply \in Seq(Answer)
  BY <1>4 DEF Connection
<1> QED
  BY <1>1, <1>2, <1>3, <1>4, <1>5, QuietUnlessWaiting DEF Socket

-----------------------------------------------------------------------------
(* Steps of a client.                                                      *)

(* What a client c may do to a connection: nothing to one of another's.    *)
Passes(c, m, n) ==
    /\ Socket(n)
    /\ m.owner # c => n = m
    /\ n.state = m.state \/ (m.state = "dead" /\ n.state = "free")
    /\ m.queue # <<>> => n.queue # <<>> \/ m.state = "dead"
    /\ m.end # "open" => n.end # "open"

(* The broker's part of the invariant reads nothing that a client writes.  *)
LEMMA BrokerKept ==
    ASSUME Inv, UNCHANGED <<vars, up, crashes, batch>>
    PROVE  /\ Typed' /\ Sized' /\ Accounts'
           /\ (up \in BOOLEAN)' /\ (crashes \in 0 .. MaxCrash)' /\ (batch \subseteq Fd \cup {Nil})'
<1>1. Typed' /\ Accounts'
  BY NextAccounts DEF Inv, Accounts
<1>2. Sized'
  BY DEF Inv, Sized, Tracked, vars
<1> QED
  BY <1>1, <1>2 DEF Inv, Types

(* A step of client c, of the link it has, keeps the invariant when its    *)
(* new locals r agree with its chunks h and with the connection.           *)
LEMMA ClientStep ==
    ASSUME Inv, NEW c \in Client, NEW r \in Process, NEW h \in Holding,
           proc' = [proc EXCEPT ![c] = r], held' = [held EXCEPT ![c] = h],
           UNCHANGED broker,
           Located(r, h),
           net' \in [Fd -> Connection],
           \A f \in Fd : Passes(c, net[f], net'[f]),
           r.sock \in {Nil, proc[c].sock},
           r.sock # Nil => /\ net'[r.sock].end = "open" /\ net'[r.sock].owner = c
                           /\ InOrder(net'[r.sock], r),
           r.sock = Nil /\ proc[c].sock # Nil => net'[proc[c].sock].end # "open"
    PROVE  Inv'
<1>1. UNCHANGED <<vars, up, crashes, batch>> /\ UNCHANGED backlog
  BY DEF broker
<1>2. /\ Typed' /\ Sized' /\ Accounts'
      /\ (up \in BOOLEAN)' /\ (crashes \in 0 .. MaxCrash)' /\ (batch \subseteq Fd \cup {Nil})'
  BY <1>1, BrokerKept
<1>3. Types'
  <2>1. proc' \in [Client -> Process] /\ held' \in [Client -> Holding]
    BY DEF Inv, Types
  <2>2. backlog' \in Seq(Fd)
    BY <1>1 DEF Inv, Types
  <2> QED
    BY <1>2, <2>1, <2>2 DEF Types
<1>4. proc'[c] = r /\ held'[c] = h
  BY DEF Inv, Types
<1>5. \A d \in Client \ {c} : proc'[d] = proc[d] /\ held'[d] = held[d]
  BY DEF Inv, Types
<1>6. \A d \in Client : Located(proc'[d], held'[d])
  BY <1>4, <1>5 DEF Inv
<1>7. \A f \in Fd : Socket(net'[f])
  BY DEF Passes
<1>8. \A d \in Client \ {c} : proc[d].sock # Nil =>
         /\ net'[proc[d].sock] = net[proc[d].sock]
         /\ net[proc[d].sock].end = "open" /\ net[proc[d].sock].owner = d
         /\ InOrder(net[proc[d].sock], proc[d])
  BY OwnConnection DEF Passes
<1>9. \A d \in Client : proc'[d].sock # Nil =>
         /\ net'[proc'[d].sock].end = "open" /\ net'[proc'[d].sock].owner = d
         /\ InOrder(net'[proc'[d].sock], proc'[d])
  BY <1>4, <1>5, <1>8
<1>10. ASSUME NEW f \in Fd, net'[f].end = "open"
       PROVE  net'[f].owner \in Client /\ proc'[net'[f].owner].sock = f
  <2>1. net[f].end = "open"
    BY <1>10 DEF Passes
  <2>2. net[f].owner \in Client /\ proc[net[f].owner].sock = f
    BY <2>1 DEF Inv, Owned
  <2>3. CASE net[f].owner = c
    <3>1. r.sock = f
      BY <1>10, <2>2, <2>3, SystemAssumption
    <3> QED
      BY <1>4, <3>1, SystemAssumption
  <2>4. CASE net[f].owner # c
    <3>1. net'[f] = net[f]
      BY <2>4 DEF Passes
    <3> QED
      BY <1>5, <2>2, <2>4, <3>1
  <2> QED
    BY <2>3, <2>4
<1>11. Owned'
  BY <1>9, <1>10 DEF Owned
<1>12. Tables'
  <2>1. \A f \in Fd : /\ net'[f].state = "accepted" <=> net[f].state = "accepted"
                      /\ net'[f].state = "backlog" <=> net[f].state = "backlog"
    BY DEF Passes
  <2>2. tenants' = tenants
    BY <1>1 DEF vars
  <2> QED
    BY <1>1, <2>1, <2>2 DEF Inv, Tables
<1>13. Ready \subseteq Ready'
  BY <1>1 DEF Ready, Passes
<1>14. batch' \subseteq Ready'
  BY <1>1, <1>13 DEF Inv
<1> QED
  BY <1>2, <1>3, <1>6, <1>7, <1>9, <1>11, <1>12, <1>14 DEF Inv

(* A step that leaves the connections alone.                               *)
LEMMA LocalStep ==
    ASSUME Inv, NEW c \in Client, NEW r \in Process, NEW h \in Holding,
           proc' = [proc EXCEPT ![c] = r], held' = [held EXCEPT ![c] = h],
           UNCHANGED <<broker, net>>,
           Located(r, h), r.sock = proc[c].sock,
           r.sock # Nil => InOrder(net[r.sock], r)
    PROVE  Inv'
<1>1. net' \in [Fd -> Connection]
  BY DEF Inv, Types
<1>2. \A f \in Fd : Passes(c, net[f], net'[f])
  BY StateTypes DEF Passes
<1> QED
  BY <1>1, <1>2, OwnConnection, ClientStep

(* A step that makes n of the client's own connection.                     *)
LEMMA OwnStep ==
    ASSUME Inv, NEW c \in Client, NEW r \in Process, NEW h \in Holding, NEW n \in Connection,
           proc' = [proc EXCEPT ![c] = r], held' = [held EXCEPT ![c] = h],
           UNCHANGED broker,
           Located(r, h), r.sock = proc[c].sock, r.sock # Nil,
           net' = [net EXCEPT ![proc[c].sock] = n],
           Socket(n), n.end = "open", n.owner = c, n.state = net[proc[c].sock].state,
           net[proc[c].sock].queue # <<>> => n.queue # <<>>,
           InOrder(n, r)
    PROVE  Inv'
<1>1. net \in [Fd -> Connection]
  BY DEF Inv, Types
<1>2. proc[c].sock \in Fd /\ net[proc[c].sock].owner = c
  BY OwnConnection
<1>3. net' \in [Fd -> Connection] /\ net'[proc[c].sock] = n
  BY <1>1, <1>2
<1>4. Passes(c, net[proc[c].sock], n)
  BY OwnConnection DEF Passes
<1>5. ASSUME NEW f \in Fd, f # proc[c].sock PROVE Passes(c, net[f], net'[f])
  <2>1. net'[f] = net[f]
    BY <1>1, <1>5
  <2> QED
    BY <2>1, StateTypes DEF Passes
<1> QED
  BY <1>3, <1>4, <1>5, ClientStep

(* What closing its link does to the connections.                          *)
LEMMA HangsEffect ==
    ASSUME Inv, NEW c \in Client
    PROVE  /\ Hangs(c, net) \in [Fd -> Connection]
           /\ \A f \in Fd : Passes(c, net[f], Hangs(c, net)[f])
           /\ proc[c].sock # Nil => Hangs(c, net)[proc[c].sock].end # "open"
           /\ \A f \in Fd : f # proc[c].sock => Hangs(c, net)[f] = net[f]
<1>1. net \in [Fd -> Connection]
  BY DEF Inv, Types
<1>2. CASE proc[c].sock = Nil
  <2>1. Hangs(c, net) = net
    BY <1>2 DEF Hangs
  <2> QED
    BY <1>1, <1>2, <2>1, StateTypes DEF Passes
<1>3. CASE proc[c].sock # Nil
  <2> DEFINE s == proc[c].sock
  <2>1. Hangs(c, net) = [net EXCEPT ![s] = Closed(net[s])]
    BY <1>3 DEF Hangs
  <2>2. s \in Fd /\ net[s].owner = c
    BY <1>3, OwnConnection
  <2>3. /\ Closed(net[s]) \in Connection /\ Socket(Closed(net[s]))
        /\ Closed(net[s]).end # "open"
        /\ Closed(net[s]).state = net[s].state
              \/ (net[s].state = "dead" /\ Closed(net[s]).state = "free")
        /\ net[s].state # "dead" => Closed(net[s]).queue = net[s].queue
    BY <1>3, OwnConnection, ClosedConnection
  <2>4. Passes(c, net[s], Closed(net[s]))
    BY <2>2, <2>3 DEF Passes
  <2> HIDE DEF s
  <2>5. Hangs(c, net)[s] = Closed(net[s]) /\ Hangs(c, net) \in [Fd -> Connection]
    BY <1>1, <2>1, <2>2, <2>3
  <2>6. \A f \in Fd : f # s => Hangs(c, net)[f] = net[f]
    BY <1>1, <2>1
  <2>7. \A f \in Fd : f # s => Passes(c, net[f], Hangs(c, net)[f])
    BY <2>6, StateTypes DEF Passes
  <2> QED
    BY <2>3, <2>4, <2>5, <2>6, <2>7 DEF s
<1> QED
  BY <1>2, <1>3

(* A step that gives the link up.                                          *)
LEMMA HangStep ==
    ASSUME Inv, NEW c \in Client, NEW r \in Process, NEW h \in Holding,
           proc' = [proc EXCEPT ![c] = r], held' = [held EXCEPT ![c] = h],
           UNCHANGED broker,
           Located(r, h), r.sock = Nil,
           net' = Hangs(c, net)
    PROVE  Inv'
  BY HangsEffect, ClientStep

(* Messages that may be sent by a client that goes on as r: no request but *)
(* the last.                                                               *)
Sendable(msgs, r) ==
    \A i \in 1 .. Len(msgs) : msgs[i].type \in Reply => i = Len(msgs) /\ Awaits(r, msgs[i])

(* Sent on a connection with nothing under way, they are all there is.     *)
LEMMA SendInOrder ==
    ASSUME NEW n \in Connection, NEW m \in Connection, NEW r, NEW msgs \in Seq(Message),
           Quiet(n), Sendable(msgs, r), m.queue = n.queue \o msgs, m.reply = n.reply
    PROVE  InOrder(m, r)
<1> DEFINE a == n.queue  b == Len(n.queue)
<1>1. a \in Seq(Message) /\ b \in Nat /\ Len(msgs) \in Nat
  BY DEF Connection
<1>2. /\ Len(m.queue) = b + Len(msgs)
      /\ \A i \in 1 .. Len(m.queue) : m.queue[i] = IF i <= b THEN a[i] ELSE msgs[i - b]
  BY <1>1
<1>3. \A i \in 1 .. b : a[i].type \notin Reply
  BY DEF Quiet
<1> HIDE DEF a, b
<1>4. ASSUME NEW i \in 1 .. Len(m.queue), m.queue[i].type \in Reply
      PROVE  i = Len(m.queue) /\ Awaits(r, m.queue[i])
  <2>1. i \in Int /\ i >= 1 /\ i <= b + Len(msgs)
    BY <1>1, <1>2
  <2>2. ~(i <= b)
    BY <1>1, <1>2, <1>3, <1>4, <2>1
  <2>3. i - b \in 1 .. Len(msgs) /\ m.queue[i] = msgs[i - b]
    BY <1>1, <1>2, <2>1, <2>2
  <2>4. i - b = Len(msgs) /\ Awaits(r, msgs[i - b])
    BY <1>4, <2>3 DEF Sendable
  <2> QED
    BY <1>1, <1>2, <2>1, <2>3, <2>4
<1> QED
  BY <1>4 DEF InOrder, Quiet

(* The fields of a link that is given up.                                  *)
LEMMA UnlinkedType ==
    ASSUME NEW r \in Process, NEW l \in {"Local", "Connected", "Broken"}
    PROVE  /\ Unlinked(r, l) \in Process
           /\ Unlinked(r, l).pc = r.pc /\ Unlinked(r, l).op = r.op
           /\ Unlinked(r, l).ptr = r.ptr /\ Unlinked(r, l).to = r.to
           /\ Unlinked(r, l).sock = Nil /\ Unlinked(r, l).link = l
           /\ Unlinked(r, l).left = r.left /\ Unlinked(r, l).told = r.told
  BY DEF Unlinked, Process

(* A client that gives its link up has its other locals in order.          *)
LEMMA UnlinkedLocated ==
    ASSUME NEW r \in Process, NEW h \in Holding, NEW l \in {"Local", "Broken"},
           Located(r, h),
           r.pc \notin {"hello", "resync", "wait"}
    PROVE  Located(Unlinked(r, l), h)
  BY UnlinkedType DEF Located

(* Sending keeps the invariant: without a link, on one that the broker's   *)
(* death has broken, and on one that works.                                *)
LEMMA SendStep ==
    ASSUME Inv, NEW c \in Client, NEW ok \in Process, NEW failed \in Process, NEW h \in Holding,
           NEW msgs \in Seq(Message),
           SendAll(c, msgs, ok, failed),
           held' = [held EXCEPT ![c] = h], UNCHANGED broker,
           proc[c].pc \notin {"hello", "wait"},
           ok.sock = proc[c].sock, ok.link = proc[c].link,
           failed.sock = proc[c].sock, failed.link = proc[c].link,
           msgs = <<>> \/ proc[c].sock # Nil => Located(ok, h),
           msgs # <<>> => Located(failed, h),
           msgs # <<>> => failed.pc \notin {"hello", "resync", "wait"},
           Sendable(msgs, ok)
    PROVE  Inv'
<1> DEFINE f == proc[c].sock
<1>1. f # Nil => /\ f \in Fd /\ net[f] \in Connection /\ Socket(net[f]) /\ net[f].end = "open"
                 /\ net[f].owner = c /\ Quiet(net[f])
  BY OwnConnection
<1>2. proc[c].link = "Connected" <=> f # Nil
  BY StateTypes DEF Located
<1>3. CASE /\ msgs = <<>>
           /\ proc' = [proc EXCEPT ![c] = ok]
           /\ UNCHANGED net
  BY <1>1, <1>3, QuietInOrder, LocalStep
<1>4. CASE /\ msgs # <<>> /\ proc[c].link # "Connected"
           /\ proc' = [proc EXCEPT ![c] = failed]
           /\ UNCHANGED net
  BY <1>2, <1>4, LocalStep
<1>5. CASE /\ msgs # <<>> /\ proc[c].link = "Connected" /\ net[f].state = "dead"
           /\ proc' = [proc EXCEPT ![c] = Unlinked(failed, "Broken")]
           /\ net' = Hangs(c, net)
  <2>1. Unlinked(failed, "Broken") \in Process /\ Unlinked(failed, "Broken").sock = Nil
    BY UnlinkedType
  <2>2. Located(Unlinked(failed, "Broken"), h)
    BY <1>5, UnlinkedLocated
  <2> QED
    BY <1>5, <2>1, <2>2, HangStep
<1>6. CASE /\ msgs # <<>> /\ proc[c].link = "Connected" /\ net[f].state # "dead"
           /\ Len(net[f].queue) + Len(msgs) <= Cap
           /\ proc' = [proc EXCEPT ![c] = ok]
           /\ net' = [net EXCEPT ![f].queue = @ \o msgs]
  <2>1. f \in Fd /\ net[f] \in Connection
    BY <1>1, <1>2, <1>6
  <2>2. PICK q : q = net[f].queue \o msgs
    OBVIOUS
  <2>3. net[f].queue \in Seq(Message)
    BY <2>1 DEF Connection
  <2>4. q \in Seq(Message) /\ Len(q) = Len(net[f].queue) + Len(msgs)
    BY <2>2, <2>3
  <2>5. q # <<>>
    BY <1>6, <2>3, <2>4, EmptySeq
  <2>6. PICK n : n = [net[f] EXCEPT !.queue = q]
    OBVIOUS
  <2>7. n \in Connection
    BY <2>1, <2>4, <2>6 DEF Connection
  <2>8. /\ n.queue = q /\ n.reply = net[f].reply /\ n.state = net[f].state
        /\ n.end = net[f].end /\ n.owner = net[f].owner
    BY <2>1, <2>6 DEF Connection
  <2>9. net' = [net EXCEPT ![f] = n]
    BY <1>6, <2>2, <2>6
  <2>10. Socket(n)
    BY <1>1, <1>2, <1>6, <2>4, <2>8 DEF Socket
  <2>11. InOrder(n, ok)
    BY <1>1, <1>2, <1>6, <2>1, <2>2, <2>7, <2>8, SendInOrder
  <2>12. Located(ok, h)
    BY <1>2, <1>6
  <2> QED
    BY <1>1, <1>2, <1>6, <2>5, <2>7, <2>8, <2>9, <2>10, <2>11, <2>12, OwnStep
<1> QED
  BY <1>3, <1>4, <1>5, <1>6 DEF SendAll

-----------------------------------------------------------------------------
(* The steps of a backend call.                                            *)

(* What a step that moves a client on to pc writes.                        *)
LEMMA GotoType ==
    ASSUME NEW c \in Client, proc[c] \in Process,
           NEW pc \in {"off", "idle", "dial", "hello", "resync", "ask", "wait", "work"}
    PROVE  /\ Goto(c, pc) \in Process
           /\ Goto(c, pc).pc = pc /\ Goto(c, pc).op = proc[c].op
           /\ Goto(c, pc).ptr = proc[c].ptr /\ Goto(c, pc).to = proc[c].to
           /\ Goto(c, pc).sock = proc[c].sock /\ Goto(c, pc).link = proc[c].link
           /\ Goto(c, pc).left = proc[c].left /\ Goto(c, pc).told = proc[c].told
  BY DEF Goto, Process

(* A step that leaves what the clients hold alone.                         *)
LEMMA HeldSame ==
    ASSUME Inv, NEW c \in Client, UNCHANGED held
    PROVE  held' = [held EXCEPT ![c] = held[c]]
  BY DEF Inv, Types

(* A call begins where no request of the client is under way.              *)
LEMMA CallStep ==
    ASSUME Inv, NEW c \in Client,
           NEW op \in {"open", "reconnect", "create", "move", "destroy"},
           NEW p \in Ptr \cup {Nil}, NEW to \in Loc \cup {"None"}, NEW pc \in {"dial", "ask", "work"},
           proc[c].pc \in {"off", "idle"},
           Call(c, op, p, to, pc), UNCHANGED <<broker, net, held>>,
           pc = "dial" => op # "destroy",
           pc = "ask" => op \in {"create", "move"},
           op \in {"create", "move", "destroy"} => p \in Ptr,
           op = "move" => to \in Loc /\ held[c][p] \in Loc
    PROVE  Inv'
<1>1. proc[c] \in Process /\ held[c] \in Holding /\ Located(proc[c], held[c])
  BY StateTypes
<1>2. PICK r : r = [proc[c] EXCEPT !.pc = pc, !.op = op, !.ptr = p, !.to = to, !.told = FALSE]
  OBVIOUS
<1>3. proc' = [proc EXCEPT ![c] = r]
  BY <1>2 DEF Call
<1>4. r \in Process
  BY <1>1, <1>2 DEF Process
<1>5. /\ r.pc = pc /\ r.op = op /\ r.ptr = p /\ r.to = to /\ r.sock = proc[c].sock
      /\ r.link = proc[c].link /\ r.left = proc[c].left
  BY <1>1, <1>2 DEF Process
<1>6. Located(r, held[c])
  BY <1>1, <1>5 DEF Located
<1>7. r.sock # Nil => InOrder(net[r.sock], r)
  BY <1>5, OwnConnection, QuietInOrder
<1> QED
  BY <1>1, <1>3, <1>4, <1>5, <1>6, <1>7, HeldSame, LocalStep

(* open, connect, create, move and destroy begin.                          *)
LEMMA BeginStep ==
    ASSUME Inv, NEW c \in Client, Begin(c)
    PROVE  Inv'
<1>1. held[c] \in Holding
  BY StateTypes
<1>2. UNCHANGED <<broker, net, held>>
  BY DEF Begin
<1>3. FirstStep(c) \in {"dial", "ask"}
  BY DEF FirstStep
<1>4. CASE Where(c, "off") /\ Call(c, "open", Nil, "None", "dial")
  BY <1>2, <1>4, CallStep DEF Where
<1>5. CASE Where(c, "idle") /\ Call(c, "reconnect", Nil, "None", "dial")
  BY <1>2, <1>5, CallStep DEF Where
<1>6. ASSUME NEW p \in Ptr, Where(c, "idle"), Call(c, "create", p, "Device", FirstStep(c))
      PROVE  Inv'
  BY <1>2, <1>3, <1>6, CallStep DEF Where, Loc
<1>7. ASSUME NEW p \in Ptr, Where(c, "idle"), Call(c, "destroy", p, "None", "work")
      PROVE  Inv'
  BY <1>2, <1>7, CallStep DEF Where
<1>8. ASSUME NEW p \in Ptr, NEW to \in Loc \ {held[c][p]}, held[c][p] # "None",
             Where(c, "idle"), Call(c, "move", p, to, FirstStep(c))
      PROVE  Inv'
  <2>1. held[c][p] \in Loc
    BY <1>1, <1>8 DEF Holding
  <2> QED
    BY <1>2, <1>3, <1>8, <2>1, CallStep DEF Where
<1> QED
  BY <1>4, <1>5, <1>6, <1>7, <1>8 DEF Begin

(* An attempt to connect gives the old link up, and fails or leaves a      *)
(* connection with the Hello on it in the listening socket's queue.        *)
LEMMA AfterDialPc ==
    ASSUME NEW c \in Client, NEW h, Located(proc[c], h), proc[c].pc \in {"dial", "hello", "resync"},
           proc[c] \in Process
    PROVE  /\ AfterDial(c) \in {"idle", "ask"}
           /\ AfterDial(c) = "ask" => proc[c].op \in {"create", "move"}
           /\ proc[c].op = "move" => AfterDial(c) = "ask"
  BY DEF AfterDial, Located, Process

(* The way on from an attempt to connect, without a link.                  *)
LEMMA NotConnected ==
    ASSUME Inv, NEW c \in Client, proc[c].pc \in {"dial", "hello"}, NEW l \in {"Local", "Broken"},
           proc' = [proc EXCEPT ![c] = Unlinked(Goto(c, AfterDial(c)), l)],
           net' = Hangs(c, net), UNCHANGED <<broker, held>>
    PROVE  Inv'
<1>1. proc[c] \in Process /\ held[c] \in Holding /\ Located(proc[c], held[c])
  BY StateTypes
<1>2. PICK r : r = Goto(c, AfterDial(c))
  OBVIOUS
<1>3. /\ r \in Process /\ r.pc \in {"idle", "ask"}
      /\ r.op = proc[c].op /\ r.ptr = proc[c].ptr /\ r.to = proc[c].to
      /\ r.sock = proc[c].sock /\ r.link = proc[c].link /\ r.left = proc[c].left
      /\ r.pc = "ask" => r.op \in {"create", "move"}
  BY <1>1, <1>2, AfterDialPc, GotoType
<1>4. Located(r, held[c])
  BY <1>1, <1>3 DEF Located
<1>5. Located(Unlinked(r, l), held[c])
  BY <1>1, <1>3, <1>4, UnlinkedLocated
<1>6. Unlinked(r, l) \in Process /\ Unlinked(r, l).sock = Nil
  BY <1>3, UnlinkedType
<1>7. held' = [held EXCEPT ![c] = held[c]]
  BY HeldSame
<1> QED
  BY <1>1, <1>2, <1>5, <1>6, <1>7, HangStep

(* A new connection at the end of the listening socket's queue.            *)
LEMMA DialUp ==
    ASSUME Inv, NEW c \in Client, Where(c, "dial"), NEW f \in Fd,
           net[f].state = "free", backlog' = Append(backlog, f),
           NEW k, k = [state |-> "backlog", end |-> "open", owner |-> c,
                       queue |-> <<Msg("Hello", Nil, "None")>>, reply |-> <<>>],
           net' = [Hangs(c, net) EXCEPT ![f] = k],
           proc' = [proc EXCEPT ![c] = [Goto(c, "hello") EXCEPT !.sock = f, !.link = "Connected"]],
           UNCHANGED <<vars, up, crashes, batch, held>>
    PROVE  Inv'
<1>1. proc[c] \in Process /\ held[c] \in Holding /\ Located(proc[c], held[c])
  BY StateTypes
<1>2. /\ Typed' /\ Sized' /\ Accounts'
      /\ (up \in BOOLEAN)' /\ (crashes \in 0 .. MaxCrash)' /\ (batch \subseteq Fd \cup {Nil})'
  BY BrokerKept
<1>3. PICK r : r = [Goto(c, "hello") EXCEPT !.sock = f, !.link = "Connected"]
  OBVIOUS
<1>4. /\ r \in Process /\ r.pc = "hello" /\ r.sock = f /\ r.link = "Connected"
      /\ r.op = proc[c].op /\ r.ptr = proc[c].ptr /\ r.to = proc[c].to /\ r.left = proc[c].left
  <2> DEFINE g == Goto(c, "hello")
  <2>1. /\ g \in Process /\ g.pc = "hello" /\ g.op = proc[c].op /\ g.ptr = proc[c].ptr
        /\ g.to = proc[c].to /\ g.left = proc[c].left
    BY <1>1, GotoType
  <2> HIDE DEF g
  <2>2. r = [g EXCEPT !.sock = f, !.link = "Connected"]
    BY <1>3 DEF g
  <2>3. r \in Process
    BY <2>1, <2>2 DEF Process
  <2>4. /\ r.pc = g.pc /\ r.sock = f /\ r.link = "Connected"
        /\ r.op = g.op /\ r.ptr = g.ptr /\ r.to = g.to /\ r.left = g.left
    BY <2>1, <2>2 DEF Process
  <2> QED
    BY <2>1, <2>3, <2>4
<1>5. Located(r, held[c])
  BY <1>1, <1>4, SystemAssumption DEF Located, Where
<1>6. k \in Connection /\ Socket(k) /\ InOrder(k, r)
  <2>1. k.queue = <<Msg("Hello", Nil, "None")>> /\ k.reply = <<>> /\ k.state = "backlog" /\ k.end = "open"
    OBVIOUS
  <2>2. Msg("Hello", Nil, "None") \in Message /\ Msg("Hello", Nil, "None").type = "Hello"
    BY DEF Msg, Message, MessageType
  <2>3. k.queue \in Seq(Message) /\ Len(k.queue) = 1 /\ k.queue[1] = Msg("Hello", Nil, "None")
    BY <2>1, <2>2
  <2>4. k \in Connection
    BY <2>3 DEF Connection
  <2>5. Socket(k)
    BY <2>1, <2>3, SystemAssumption DEF Socket
  <2>6. Awaits(r, k.queue[1])
    BY <1>4, <2>2, <2>3 DEF Awaits
  <2>7. InOrder(k, r)
    BY <2>1, <2>3, <2>6 DEF InOrder
  <2> QED
    BY <2>4, <2>5, <2>7
<1>7. net[f].end # "open"
  BY StateTypes DEF Socket
<1>8. f # proc[c].sock
  BY <1>7, OwnConnection, SystemAssumption
<1>9. \A g \in Fd : Passes(c, net[g], Hangs(c, net)[g])
  BY HangsEffect
<1>10. net' \in [Fd -> Connection] /\ net'[f] = k /\ \A g \in Fd \ {f} : net'[g] = Hangs(c, net)[g]
  BY <1>6, HangsEffect
<1>11. Types'
  <2>1. proc' \in [Client -> Process] /\ held' \in [Client -> Holding]
    BY <1>3, <1>4 DEF Inv, Types
  <2>2. backlog' \in Seq(Fd)
    BY StateTypes
  <2> QED
    BY <1>2, <1>10, <2>1, <2>2 DEF Types
<1>12. proc'[c] = r /\ held'[c] = held[c] /\ \A d \in Client \ {c} : proc'[d] = proc[d] /\ held'[d] = held[d]
  BY <1>3 DEF Inv, Types
<1>13. \A d \in Client : Located(proc'[d], held'[d])
  BY <1>5, <1>12 DEF Inv
<1>14. \A g \in Fd : Socket(net'[g])
  BY <1>6, <1>9, <1>10 DEF Passes
<1>15. ASSUME NEW d \in Client, d # c, proc[d].sock # Nil
       PROVE  /\ net'[proc[d].sock] = net[proc[d].sock]
              /\ net[proc[d].sock].end = "open" /\ net[proc[d].sock].owner = d
              /\ InOrder(net[proc[d].sock], proc[d])
  <2>1. /\ proc[d].sock \in Fd /\ net[proc[d].sock].end = "open" /\ net[proc[d].sock].owner = d
        /\ InOrder(net[proc[d].sock], proc[d])
    BY <1>15, OwnConnection
  <2>2. proc[d].sock # f
    BY <1>7, <2>1
  <2> QED
    BY <1>9, <1>10, <1>15, <2>1, <2>2 DEF Passes
<1>16. ASSUME NEW d \in Client, proc'[d].sock # Nil
       PROVE  /\ net'[proc'[d].sock].end = "open" /\ net'[proc'[d].sock].owner = d
              /\ InOrder(net'[proc'[d].sock], proc'[d])
  <2>1. CASE d = c
    BY <1>4, <1>6, <1>10, <1>12, <2>1
  <2>2. CASE d # c
    BY <1>12, <1>15, <1>16, <2>2
  <2> QED
    BY <2>1, <2>2
<1>17. ASSUME NEW g \in Fd, net'[g].end = "open"
       PROVE  net'[g].owner \in Client /\ proc'[net'[g].owner].sock = g
  <2>1. CASE g = f
    BY <1>4, <1>10, <1>12, <2>1
  <2>2. CASE g # f
    <3>1. net[g].end = "open"
      BY <1>9, <1>10, <1>17, <2>2 DEF Passes
    <3>2. net[g].owner \in Client /\ proc[net[g].owner].sock = g
      BY <3>1 DEF Inv, Owned
    <3>3. net[g].owner # c
      BY <1>10, <1>17, <2>2, <3>2, HangsEffect, SystemAssumption
    <3>4. net'[g] = net[g]
      BY <1>9, <1>10, <2>2, <3>3 DEF Passes
    <3> QED
      BY <1>12, <3>2, <3>3, <3>4
  <2> QED
    BY <2>1, <2>2
<1>18. Owned'
  BY <1>16, <1>17 DEF Owned
<1>19. backlog \in Seq(Fd) /\ Len(backlog) \in Nat
  BY StateTypes
<1>20. /\ backlog' # <<>> /\ Len(backlog') = Len(backlog) + 1 /\ backlog'[Len(backlog) + 1] = f
       /\ \A i \in 1 .. Len(backlog) : backlog'[i] = backlog[i]
  BY <1>19
<1>21. \A i \in 1 .. Len(backlog) : backlog[i] # f
  BY DEF Inv, Tables
<1>22. \A g \in Fd : g # f => /\ net'[g].state = "accepted" <=> net[g].state = "accepted"
                              /\ net'[g].state = "backlog" <=> net[g].state = "backlog"
  BY <1>9, <1>10 DEF Passes
<1>23. Tables'
  <2>1. tenants' = tenants
    BY DEF vars
  <2>2. \A g \in Fd : net'[g].state = "accepted" <=> g \in tenants'
    BY <1>10, <1>22, <2>1 DEF Inv, Tables
  <2>3. ASSUME NEW g \in Fd
        PROVE  net'[g].state = "backlog" <=> \E i \in 1 .. Len(backlog') : backlog'[i] = g
    <3>1. CASE g = f
      BY <1>10, <1>19, <1>20, <3>1
    <3>2. CASE g # f
      <4>1. net[g].state = "backlog" <=> \E i \in 1 .. Len(backlog) : backlog[i] = g
        BY DEF Inv, Tables
      <4>2. (\E i \in 1 .. Len(backlog) : backlog[i] = g)
               <=> \E i \in 1 .. Len(backlog') : backlog'[i] = g
        BY <1>19, <1>20, <3>2
      <4> QED
        BY <1>22, <3>2, <4>1, <4>2
    <3> QED
      BY <3>1, <3>2
  <2>4. ASSUME NEW i \in 1 .. Len(backlog'), NEW j \in 1 .. Len(backlog'), backlog'[i] = backlog'[j]
        PROVE  i = j
    <3>1. \A m, n \in 1 .. Len(backlog) : backlog[m] = backlog[n] => m = n
      BY DEF Inv, Tables
    <3>2. i \in 1 .. Len(backlog) \/ i = Len(backlog) + 1
      BY <1>19, <1>20
    <3>3. j \in 1 .. Len(backlog) \/ j = Len(backlog) + 1
      BY <1>19, <1>20
    <3> QED
      BY <1>20, <1>21, <2>4, <3>1, <3>2, <3>3
  <2> QED
    BY <2>2, <2>3, <2>4 DEF Tables
<1>24. Ready \subseteq Ready'
  <2>1. \A g \in Fd : g \in Ready => g # f
    BY SystemAssumption DEF Ready, Listener
  <2>2. \A g \in Fd : g # f /\ g \in Ready => g \in Ready'
    BY <1>9, <1>10, SystemAssumption DEF Ready, Listener, Passes
  <2>3. Listener \in Ready'
    BY <1>20 DEF Ready
  <2> QED
    BY <2>1, <2>2, <2>3 DEF Ready
<1>25. batch' \subseteq Ready'
  BY <1>24 DEF Inv
<1> QED
  BY <1>2, <1>11, <1>13, <1>14, <1>16, <1>18, <1>23, <1>25 DEF Inv

(* The attempt to connect, whether the broker runs or not.                 *)
LEMMA DialStep ==
    ASSUME Inv, NEW c \in Client, Dial(c)
    PROVE  Inv'
<1>1. CASE up
  <2>1. PICK f \in Fd :
           /\ net[f].state = "free"
           /\ backlog' = Append(backlog, f)
           /\ net' = [Hangs(c, net) EXCEPT ![f] =
                         [state |-> "backlog", end |-> "open", owner |-> c,
                          queue |-> <<Msg("Hello", Nil, "None")>>, reply |-> <<>>]]
           /\ proc' = [proc EXCEPT ![c] = [Goto(c, "hello") EXCEPT !.sock = f, !.link = "Connected"]]
    BY <1>1 DEF Dial
  <2> QED
    BY <2>1, DialUp DEF Dial
<1>2. CASE ~up
  <2>1. /\ UNCHANGED <<broker, held>> /\ net' = Hangs(c, net)
        /\ proc' = [proc EXCEPT ![c] = Unlinked(Goto(c, AfterDial(c)),
                                                IF proc[c].op = "open" THEN "Local" ELSE "Broken")]
    BY <1>2 DEF Dial, broker
  <2>2. proc[c].pc = "dial"
    BY DEF Dial, Where
  <2>3. (IF proc[c].op = "open" THEN "Local" ELSE "Broken") \in {"Local", "Broken"}
    OBVIOUS
  <2> QED
    BY <2>1, <2>2, <2>3, NotConnected
<1> QED
  BY <1>1, <1>2 DEF Dial

(* The one reply a client waits for is read.                               *)
LEMMA ConsumeStep ==
    ASSUME Inv, NEW c \in Client, NEW r \in Process,
           proc[c].sock # Nil, Arrived(c), Consumed(c),
           proc' = [proc EXCEPT ![c] = r], UNCHANGED <<broker, held>>,
           Located(r, held[c]), r.sock = proc[c].sock
    PROVE  Inv'
<1>1. held[c] \in Holding
  BY StateTypes
<1>2. PICK n : n = [net[proc[c].sock] EXCEPT !.reply = Tail(net[proc[c].sock].reply)]
  OBVIOUS
<1>3. net' = [net EXCEPT ![proc[c].sock] = n]
  BY <1>2 DEF Consumed
<1>4. PICK m \in Connection : m = net[proc[c].sock]
  BY OwnConnection
<1>5. Socket(m) /\ m.end = "open" /\ m.owner = c /\ InOrder(m, proc[c]) /\ m.reply # <<>>
  BY <1>4, OwnConnection DEF Arrived
<1>6. m.reply \in Seq(Answer) /\ m.queue \in Seq(Message)
  BY <1>4 DEF Connection
<1>7. Tail(m.reply) = <<>> /\ \A i \in 1 .. Len(m.queue) : m.queue[i].type \notin Reply
  BY <1>5, <1>6, ReplyIsLast
<1>8. n = [m EXCEPT !.reply = <<>>]
  BY <1>2, <1>4, <1>7
<1>9. n \in Connection
  <2>1. n = [state |-> m.state, end |-> m.end, queue |-> m.queue, reply |-> <<>>,
             owner |-> m.owner]
    BY <1>4, <1>8 DEF Connection
  <2> QED
    BY <1>4, <2>1 DEF Connection
<1>10. /\ n.reply = <<>> /\ n.queue = m.queue /\ n.state = m.state /\ n.end = m.end
       /\ n.owner = m.owner
  BY <1>4, <1>8 DEF Connection
<1>11. Quiet(n)
  BY <1>7, <1>10 DEF Quiet
<1>12. Socket(n)
  BY <1>5, <1>10 DEF Socket
<1>13. held' = [held EXCEPT ![c] = held[c]]
  BY HeldSame
<1> QED
  BY <1>1, <1>3, <1>4, <1>5, <1>9, <1>10, <1>11, <1>12, <1>13, QuietInOrder, OwnStep

(* The Hello is answered.                                                  *)
LEMMA HelloAnsweredStep ==
    ASSUME Inv, NEW c \in Client, HelloAnswered(c)
    PROVE  Inv'
<1>1. proc[c] \in Process /\ held[c] \in Holding /\ Located(proc[c], held[c])
  BY StateTypes
<1>2. PICK r : r = [Goto(c, "resync") EXCEPT !.left = {p \in Ptr : held[c][p] # "None"}]
  OBVIOUS
<1>3. /\ r \in Process /\ r.pc = "resync" /\ r.left = {p \in Ptr : held[c][p] # "None"}
      /\ r.op = proc[c].op /\ r.ptr = proc[c].ptr /\ r.to = proc[c].to
      /\ r.sock = proc[c].sock /\ r.link = proc[c].link
  <2>1. Goto(c, "resync") \in Process
    BY <1>1, GotoType
  <2> QED
    BY <1>1, <1>2, <2>1, GotoType DEF Process
<1>4. Located(r, held[c]) /\ proc[c].sock # Nil
  BY <1>1, <1>3 DEF Located, Holding, HelloAnswered, Where
<1> QED
  BY <1>2, <1>3, <1>4, ConsumeStep DEF HelloAnswered

(* The Hello is lost: the call goes on without a link, or open gives up.   *)
LEMMA HelloLostStep ==
    ASSUME Inv, NEW c \in Client, HelloLost(c)
    PROVE  Inv'
<1>1. CASE proc[c].op = "open"
  <2>1. Off \in Process /\ Off.sock = Nil
    BY DEF Off, Process
  <2>2. held[c] \in Holding
    BY StateTypes
  <2>3. Located(Off, held[c])
    BY DEF Off, Located
  <2> QED
    BY <1>1, <2>1, <2>2, <2>3, HeldSame, HangStep DEF HelloLost
<1>2. CASE proc[c].op # "open"
  BY <1>2, NotConnected DEF HelloLost, Where
<1> QED
  BY <1>1, <1>2

(* A message of the client's, by its kind.                                 *)
LEMMA MessageTypes ==
    ASSUME NEW p \in Ptr
    PROVE  /\ \A l \in Loc : /\ Msg("Resync", p, l) \in Message
                             /\ Msg("Move", p, l) \in Message
                             /\ Msg("MoveDone", p, l) \in Message
           /\ Msg("Alloc", p, "None") \in Message
           /\ Msg("AllocFail", p, "None") \in Message
           /\ Msg("Free", p, "None") \in Message
  BY DEF Msg, Message, MessageType, Loc

(* Reports may be sent in any number and go on anywhere.                   *)
LEMMA ReportsSendable ==
    /\ \A r : Sendable(<<>>, r)
    /\ \A r, p, l : /\ Sendable(<<Msg("Resync", p, l)>>, r)
                    /\ Sendable(<<Msg("AllocFail", p, l)>>, r)
                    /\ Sendable(<<Msg("Free", p, l)>>, r)
                    /\ Sendable(<<Msg("MoveDone", p, l)>>, r)
    /\ \A r, p, l : Sendable(<<Msg("AllocFail", p, l), Msg("Free", p, l)>>, r)
  BY DEF Sendable, Msg, Reply

(* One chunk is reported to a broker that has just been connected.         *)
LEMMA ResyncChunkStep ==
    ASSUME Inv, NEW c \in Client, ResyncChunk(c)
    PROVE  Inv'
<1>1. proc[c] \in Process /\ held[c] \in Holding /\ Located(proc[c], held[c]) /\ proc[c].pc = "resync"
  BY StateTypes DEF ResyncChunk, Where
<1>2. PICK p \in proc[c].left :
         SendAll(c, <<Msg("Resync", p, held[c][p])>>,
                 [proc[c] EXCEPT !.left = @ \ {p}],
                 [Goto(c, AfterDial(c)) EXCEPT !.left = {}])
  BY DEF ResyncChunk
<1>3. p \in Ptr /\ held[c][p] \in Loc
  BY <1>1 DEF Located, Process
<1>4. PICK ok : ok = [proc[c] EXCEPT !.left = @ \ {p}]
  OBVIOUS
<1>5. /\ ok \in Process /\ ok.pc = "resync" /\ ok.left = proc[c].left \ {p}
      /\ ok.op = proc[c].op /\ ok.ptr = proc[c].ptr /\ ok.to = proc[c].to
      /\ ok.sock = proc[c].sock /\ ok.link = proc[c].link
  BY <1>1, <1>4 DEF Process
<1>6. PICK failed : failed = [Goto(c, AfterDial(c)) EXCEPT !.left = {}]
  OBVIOUS
<1>7. /\ failed \in Process /\ failed.pc \in {"idle", "ask"} /\ failed.left = {}
      /\ failed.op = proc[c].op /\ failed.ptr = proc[c].ptr /\ failed.to = proc[c].to
      /\ failed.sock = proc[c].sock /\ failed.link = proc[c].link
      /\ failed.pc = "ask" => failed.op \in {"create", "move"}
  <2>1. AfterDial(c) \in {"idle", "ask"} /\ (AfterDial(c) = "ask" => proc[c].op \in {"create", "move"})
    BY <1>1, AfterDialPc
  <2>2. Goto(c, AfterDial(c)) \in Process
    BY <1>1, <2>1, GotoType
  <2>3. failed \in Process /\ failed.left = {} /\ failed.pc = Goto(c, AfterDial(c)).pc
        /\ failed.op = Goto(c, AfterDial(c)).op /\ failed.ptr = Goto(c, AfterDial(c)).ptr
        /\ failed.to = Goto(c, AfterDial(c)).to /\ failed.sock = Goto(c, AfterDial(c)).sock
        /\ failed.link = Goto(c, AfterDial(c)).link
    BY <1>6, <2>2 DEF Process
  <2> QED
    BY <1>1, <2>1, <2>3, GotoType
<1>8. Located(ok, held[c])
  BY <1>1, <1>5 DEF Located
<1>9. Located(failed, held[c])
  BY <1>1, <1>7 DEF Located
<1>10. <<Msg("Resync", p, held[c][p])>> \in Seq(Message) /\ <<Msg("Resync", p, held[c][p])>> # <<>>
  BY <1>3, MessageTypes
<1>11. Sendable(<<Msg("Resync", p, held[c][p])>>, ok)
  BY <1>3, ReportsSendable
<1>12. SendAll(c, <<Msg("Resync", p, held[c][p])>>, ok, failed)
  BY <1>2, <1>4, <1>6
<1>13. UNCHANGED broker /\ held' = [held EXCEPT ![c] = held[c]]
  BY HeldSame DEF ResyncChunk
<1> QED
  BY <1>1, <1>5, <1>7, <1>8, <1>9, <1>10, <1>11, <1>12, <1>13, SendStep

(* Every chunk has been reported.                                          *)
LEMMA ResyncedStep ==
    ASSUME Inv, NEW c \in Client, Resynced(c)
    PROVE  Inv'
<1>1. proc[c] \in Process /\ held[c] \in Holding /\ Located(proc[c], held[c]) /\ proc[c].pc = "resync"
  BY StateTypes DEF Resynced, Where
<1>2. PICK r : r = Goto(c, AfterDial(c))
  OBVIOUS
<1>3. /\ r \in Process /\ r.pc \in {"idle", "ask"}
      /\ r.op = proc[c].op /\ r.ptr = proc[c].ptr /\ r.to = proc[c].to
      /\ r.sock = proc[c].sock /\ r.link = proc[c].link /\ r.left = proc[c].left
      /\ r.pc = "ask" => r.op \in {"create", "move"}
  BY <1>1, <1>2, AfterDialPc, GotoType
<1>4. Located(r, held[c])
  BY <1>1, <1>3 DEF Located, Resynced
<1>5. r.sock # Nil => InOrder(net[r.sock], r)
  BY <1>1, <1>3, OwnConnection, QuietInOrder
<1> QED
  BY <1>1, <1>2, <1>3, <1>4, <1>5, HeldSame, LocalStep DEF Resynced

(* The request of a create or a move, or none without a link.              *)
LEMMA AskStep ==
    ASSUME Inv, NEW c \in Client, Ask(c)
    PROVE  Inv'
<1>1. proc[c] \in Process /\ held[c] \in Holding /\ Located(proc[c], held[c]) /\ proc[c].pc = "ask"
  BY StateTypes DEF Ask, Where
<1>2. proc[c].ptr \in Ptr /\ proc[c].op \in {"create", "move"}
  BY <1>1 DEF Located
<1>3. PICK m : m = IF proc[c].op = "create" THEN Msg("Alloc", proc[c].ptr, "None")
                   ELSE Msg("Move", proc[c].ptr, proc[c].to)
  OBVIOUS
<1>4. PICK ok : ok = Goto(c, "wait")
  OBVIOUS
<1>5. PICK failed : failed = Goto(c, "work")
  OBVIOUS
<1>6. /\ ok \in Process /\ ok.pc = "wait"
      /\ ok.op = proc[c].op /\ ok.ptr = proc[c].ptr /\ ok.to = proc[c].to
      /\ ok.sock = proc[c].sock /\ ok.link = proc[c].link /\ ok.left = proc[c].left
  BY <1>1, <1>4, GotoType
<1>7. /\ failed \in Process /\ failed.pc = "work"
      /\ failed.op = proc[c].op /\ failed.ptr = proc[c].ptr /\ failed.to = proc[c].to
      /\ failed.sock = proc[c].sock /\ failed.link = proc[c].link /\ failed.left = proc[c].left
  BY <1>1, <1>5, GotoType
<1>8. m \in Message
  BY <1>1, <1>2, <1>3, MessageTypes DEF Located
<1>9. Awaits(ok, m)
  BY <1>2, <1>3, <1>6 DEF Awaits, Msg
<1>10. <<m>> \in Seq(Message) /\ <<m>> # <<>> /\ Len(<<m>>) = 1 /\ <<m>>[1] = m
  BY <1>8
<1>11. Sendable(<<m>>, ok)
  BY <1>9, <1>10 DEF Sendable
<1>12. proc[c].sock # Nil => Located(ok, held[c])
  BY <1>1, <1>6 DEF Located
<1>13. Located(failed, held[c])
  BY <1>1, <1>7 DEF Located
<1>14. SendAll(c, <<m>>, ok, failed)
  BY <1>3, <1>4, <1>5 DEF Ask
<1>15. UNCHANGED broker /\ held' = [held EXCEPT ![c] = held[c]]
  BY HeldSame DEF Ask
<1> QED
  BY <1>1, <1>6, <1>7, <1>10, <1>11, <1>12, <1>13, <1>14, <1>15, SendStep

(* The answer: the call goes on as placed or granted, or is refused.       *)
LEMMA AnsweredStep ==
    ASSUME Inv, NEW c \in Client, Answered(c)
    PROVE  Inv'
<1>1. /\ proc[c] \in Process /\ held[c] \in Holding /\ Located(proc[c], held[c])
      /\ proc[c].pc = "wait" /\ proc[c].sock # Nil
  BY StateTypes DEF Answered, Where, Located
<1>2. PICK a : a = Head(net[proc[c].sock].reply)
  OBVIOUS
<1>3. a \in Answer
  <2>1. net[proc[c].sock].reply \in Seq(Answer) /\ net[proc[c].sock].reply # <<>>
    BY <1>1, OwnConnection DEF Connection, Answered, Arrived
  <2> QED
    BY <1>2, <2>1
<1>4. PICK w : w = Goto(c, "work")
  OBVIOUS
<1>5. /\ w \in Process /\ w.pc = "work"
      /\ w.op = proc[c].op /\ w.ptr = proc[c].ptr /\ w.to = proc[c].to
      /\ w.sock = proc[c].sock /\ w.link = proc[c].link /\ w.left = proc[c].left
  BY <1>1, <1>4, GotoType
<1>6. Arrived(c) /\ Consumed(c) /\ UNCHANGED <<broker, held>>
  BY DEF Answered
<1>7. CASE a.status # "Ok"
  <2>1. proc' = [proc EXCEPT ![c] = Goto(c, "idle")]
    BY <1>2, <1>7 DEF Answered
  <2>2. /\ Goto(c, "idle") \in Process /\ Goto(c, "idle").sock = proc[c].sock
        /\ Located(Goto(c, "idle"), held[c])
    BY <1>1, GotoType DEF Located
  <2> QED
    BY <1>1, <1>6, <2>1, <2>2, ConsumeStep
<1>8. CASE a.status = "Ok"
  <2>1. PICK to : to = IF proc[c].op = "create" THEN a.loc ELSE w.to
    OBVIOUS
  <2>2. to \in Loc \cup {"None"} /\ (proc[c].op = "move" => to = proc[c].to)
    BY <1>3, <1>5, <2>1 DEF Answer, Process
  <2>3. PICK r : r = [w EXCEPT !.told = TRUE, !.to = to]
    OBVIOUS
  <2>4. proc' = [proc EXCEPT ![c] = r]
    BY <1>2, <1>4, <1>8, <2>1, <2>3 DEF Answered
  <2>5. r \in Process
    BY <1>5, <2>2, <2>3 DEF Process
  <2>6. /\ r.pc = w.pc /\ r.op = w.op /\ r.ptr = w.ptr /\ r.to = to
        /\ r.sock = w.sock /\ r.link = w.link /\ r.left = w.left
    BY <1>5, <2>3 DEF Process
  <2>7. Located(r, held[c])
    BY <1>1, <1>5, <2>2, <2>6 DEF Located
  <2> QED
    BY <1>1, <1>5, <1>6, <2>4, <2>5, <2>6, <2>7, ConsumeStep
<1> QED
  BY <1>7, <1>8

(* The answer is lost, and the link with it.                               *)
LEMMA AnswerLostStep ==
    ASSUME Inv, NEW c \in Client, AnswerLost(c)
    PROVE  Inv'
<1>1. proc[c] \in Process /\ held[c] \in Holding /\ Located(proc[c], held[c]) /\ proc[c].pc = "wait"
  BY StateTypes DEF AnswerLost, Where
<1>2. PICK r : r = Goto(c, "work")
  OBVIOUS
<1>3. /\ r \in Process /\ r.pc = "work"
      /\ r.op = proc[c].op /\ r.ptr = proc[c].ptr /\ r.to = proc[c].to
      /\ r.sock = proc[c].sock /\ r.link = proc[c].link /\ r.left = proc[c].left
  BY <1>1, <1>2, GotoType
<1>4. Located(r, held[c])
  BY <1>1, <1>3 DEF Located
<1>5. /\ Unlinked(r, "Broken") \in Process /\ Unlinked(r, "Broken").sock = Nil
      /\ Located(Unlinked(r, "Broken"), held[c])
  BY <1>1, <1>3, <1>4, UnlinkedType, UnlinkedLocated
<1> QED
  BY <1>1, <1>2, <1>5, HeldSame, HangStep DEF AnswerLost

(* The end of a call: the chunk is at loc, or gone, and the reports are    *)
(* sent.                                                                   *)
LEMMA FinishStep ==
    ASSUME Inv, NEW c \in Client, NEW loc \in Loc \cup {"None"}, NEW msgs \in Seq(Message),
           proc[c].pc = "work", proc[c].ptr \in Ptr,
           \A r : Sendable(msgs, r),
           Finish(c, loc, msgs)
    PROVE  Inv'
<1>1. proc[c] \in Process /\ held[c] \in Holding /\ Located(proc[c], held[c])
  BY StateTypes
<1>2. PICK h : h = [held[c] EXCEPT ![proc[c].ptr] = loc]
  OBVIOUS
<1>3. h \in Holding
  BY <1>1, <1>2 DEF Holding
<1>4. held' = [held EXCEPT ![c] = h]
  BY <1>2 DEF Finish
<1>5. PICK r : r = Goto(c, "idle")
  OBVIOUS
<1>6. /\ r \in Process /\ r.pc = "idle"
      /\ r.op = proc[c].op /\ r.ptr = proc[c].ptr /\ r.to = proc[c].to
      /\ r.sock = proc[c].sock /\ r.link = proc[c].link /\ r.left = proc[c].left
  BY <1>1, <1>5, GotoType
<1>7. Located(r, h)
  BY <1>1, <1>6 DEF Located
<1>8. SendAll(c, msgs, r, r) /\ UNCHANGED broker
  BY <1>5 DEF Finish
<1> QED
  BY <1>1, <1>3, <1>4, <1>6, <1>7, <1>8, SendStep

(* What a call reports of its chunk p.                                     *)
LEMMA ReportTypes ==
    ASSUME NEW c \in Client, NEW p \in Ptr
    PROVE  /\ <<>> \in Seq(Message) /\ \A r : Sendable(<<>>, r)
           /\ \A msgs \in {<<Msg("AllocFail", p, "None")>>, <<Msg("Free", p, "None")>>,
                           <<Msg("AllocFail", p, "None"), Msg("Free", p, "None")>>}
                          \cup {<<Msg("MoveDone", p, l)>> : l \in Loc} :
                 /\ msgs \in Seq(Message) /\ \A r : Sendable(msgs, r)
                 /\ Told(c, msgs) \in Seq(Message) /\ \A r : Sendable(Told(c, msgs), r)
<1>1. <<>> \in Seq(Message) /\ \A r : Sendable(<<>>, r)
  BY ReportsSendable
<1>2. ASSUME NEW msgs \in {<<Msg("AllocFail", p, "None")>>, <<Msg("Free", p, "None")>>,
                           <<Msg("AllocFail", p, "None"), Msg("Free", p, "None")>>}
                          \cup {<<Msg("MoveDone", p, l)>> : l \in Loc}
      PROVE  msgs \in Seq(Message) /\ \A r : Sendable(msgs, r)
  <2>1. /\ Msg("AllocFail", p, "None") \in Message /\ Msg("Free", p, "None") \in Message
        /\ \A l \in Loc : Msg("MoveDone", p, l) \in Message
    BY MessageTypes
  <2>2. ASSUME NEW l \in Loc, msgs = <<Msg("MoveDone", p, l)>>
        PROVE  msgs \in Seq(Message) /\ \A r : Sendable(msgs, r)
    <3>1. <<Msg("MoveDone", p, l)>> \in Seq(Message)
      BY <2>1
    <3>2. \A r : Sendable(<<Msg("MoveDone", p, l)>>, r)
      BY ReportsSendable
    <3> QED
      BY <2>2, <3>1, <3>2
  <2>3. CASE msgs = <<Msg("AllocFail", p, "None")>>
    <3>1. <<Msg("AllocFail", p, "None")>> \in Seq(Message)
      BY <2>1
    <3>2. \A r : Sendable(<<Msg("AllocFail", p, "None")>>, r)
      BY ReportsSendable
    <3> QED
      BY <2>3, <3>1, <3>2
  <2>4. CASE msgs = <<Msg("Free", p, "None")>>
    <3>1. <<Msg("Free", p, "None")>> \in Seq(Message)
      BY <2>1
    <3>2. \A r : Sendable(<<Msg("Free", p, "None")>>, r)
      BY ReportsSendable
    <3> QED
      BY <2>4, <3>1, <3>2
  <2>5. CASE msgs = <<Msg("AllocFail", p, "None"), Msg("Free", p, "None")>>
    BY <2>1, <2>5, ReportsSendable
  <2> QED
    BY <1>2, <2>2, <2>3, <2>4, <2>5
<1>3. ASSUME NEW msgs PROVE Told(c, msgs) \in {msgs, <<>>}
  BY DEF Told
<1> QED
  BY <1>1, <1>2, <1>3

(* create: as placed, on the host instead, or not at all.                  *)
LEMMA CreateStep ==
    ASSUME Inv, NEW c \in Client, Create(c)
    PROVE  Inv'
<1>1. /\ proc[c] \in Process /\ Located(proc[c], held[c])
      /\ proc[c].pc = "work" /\ proc[c].op = "create"
  BY StateTypes DEF Create, Where
<1>2. proc[c].ptr \in Ptr /\ proc[c].to \in Loc \cup {"None"}
  BY <1>1 DEF Located, Process
<1>3. PICK p \in Ptr : p = proc[c].ptr
  BY <1>2
<1>4. "Host" \in Loc
  BY DEF Loc
<1>5. CASE Finish(c, proc[c].to, <<>>)
  BY <1>1, <1>2, <1>5, ReportTypes, FinishStep
<1>6. CASE Finish(c, "None", Told(c, <<Msg("Free", p, "None")>>))
  BY <1>1, <1>2, <1>6, ReportTypes, FinishStep
<1>7. CASE Finish(c, "Host", Told(c, <<Msg("AllocFail", p, "None")>>))
  BY <1>1, <1>2, <1>4, <1>7, ReportTypes, FinishStep
<1>8. CASE Finish(c, "None", Told(c, <<Msg("AllocFail", p, "None"), Msg("Free", p, "None")>>))
  BY <1>1, <1>2, <1>8, ReportTypes, FinishStep
<1> QED
  BY <1>3, <1>5, <1>6, <1>7, <1>8 DEF Create

(* swap: the chunk is at the target, or where it was.                      *)
LEMMA SwapStep ==
    ASSUME Inv, NEW c \in Client, Swap(c)
    PROVE  Inv'
<1>1. /\ proc[c] \in Process /\ Located(proc[c], held[c])
      /\ proc[c].pc = "work" /\ proc[c].op = "move"
  BY StateTypes DEF Swap, Where
<1>2. proc[c].ptr \in Ptr /\ proc[c].to \in Loc /\ held[c][proc[c].ptr] \in Loc
  BY <1>1 DEF Located
<1>3. PICK at \in {proc[c].to, held[c][proc[c].ptr]} :
         Finish(c, at, Told(c, <<Msg("MoveDone", proc[c].ptr, at)>>))
  BY DEF Swap
<1>4. at \in Loc
  BY <1>2
<1>5. /\ Told(c, <<Msg("MoveDone", proc[c].ptr, at)>>) \in Seq(Message)
      /\ \A r : Sendable(Told(c, <<Msg("MoveDone", proc[c].ptr, at)>>), r)
  BY <1>2, <1>4, ReportTypes
<1> QED
  BY <1>1, <1>2, <1>3, <1>4, <1>5, FinishStep

(* destroy: the chunk is gone and freed, or stays and nothing is sent.     *)
LEMMA DestroyStep ==
    ASSUME Inv, NEW c \in Client, Destroy(c)
    PROVE  Inv'
<1>1. /\ proc[c] \in Process /\ held[c] \in Holding /\ Located(proc[c], held[c])
      /\ proc[c].pc = "work" /\ proc[c].op = "destroy"
  BY StateTypes DEF Destroy, Where
<1>2. proc[c].ptr \in Ptr
  BY <1>1 DEF Located
<1>3. held[c][proc[c].ptr] \in Loc \cup {"None"}
  BY <1>1, <1>2 DEF Holding
<1>4. CASE Finish(c, "None", <<Msg("Free", proc[c].ptr, "None")>>)
  BY <1>1, <1>2, <1>4, ReportTypes, FinishStep
<1>5. CASE Finish(c, held[c][proc[c].ptr], <<>>)
  BY <1>1, <1>2, <1>3, <1>5, ReportTypes, FinishStep
<1> QED
  BY <1>4, <1>5 DEF Destroy

(* The process is gone, and its sockets with it.                           *)
LEMMA ExitStep ==
    ASSUME Inv, NEW c \in Client, Exit(c)
    PROVE  Inv'
<1>1. PICK n : n = Hangs(c, net)
  OBVIOUS
<1>2. /\ n \in [Fd -> Connection] /\ \A f \in Fd : Passes(c, net[f], n[f])
      /\ proc[c].sock # Nil => n[proc[c].sock].end # "open"
  BY <1>1, HangsEffect
<1>3. net' = [f \in Fd |-> IF n[f].owner = c THEN [n[f] EXCEPT !.owner = Nil] ELSE n[f]]
  BY <1>1 DEF Exit
<1>4. ASSUME NEW f \in Fd
      PROVE  /\ net'[f] \in Connection /\ Passes(c, net[f], net'[f])
             /\ net'[f].end = n[f].end
  <2>1. n[f] \in Connection /\ Passes(c, net[f], n[f])
    BY <1>2
  <2>2. CASE n[f].owner = c
    <3>1. PICK m : m = [n[f] EXCEPT !.owner = Nil]
      OBVIOUS
    <3>2. m = [state |-> n[f].state, end |-> n[f].end, queue |-> n[f].queue,
               reply |-> n[f].reply, owner |-> Nil]
      BY <2>1, <3>1 DEF Connection
    <3>3. net'[f] = m
      BY <1>3, <2>2, <3>1
    <3>4. m \in Connection
      BY <2>1, <3>2 DEF Connection
    <3>5. net[f].owner = c
      BY <2>1, <2>2 DEF Passes
    <3>6. Passes(c, net[f], m) /\ m.end = n[f].end
      BY <2>1, <3>2, <3>5 DEF Passes, Socket
    <3> QED
      BY <3>3, <3>4, <3>6
  <2>3. CASE n[f].owner # c
    <3>1. net'[f] = n[f]
      BY <1>3, <2>3
    <3> QED
      BY <2>1, <3>1
  <2> QED
    BY <2>2, <2>3
<1>5. net' \in [Fd -> Connection]
  BY <1>3, <1>4
<1>6. Off \in Process /\ Off.sock = Nil
  BY DEF Off, Process
<1>7. NoChunks \in Holding
  BY DEF NoChunks, Holding
<1>8. Located(Off, NoChunks)
  BY DEF Off, Located
<1>9. proc[c].sock # Nil => net'[proc[c].sock].end # "open"
  BY <1>2, <1>4, OwnConnection
<1> QED
  BY <1>4, <1>5, <1>6, <1>7, <1>8, <1>9, ClientStep DEF Exit

(* Whatever a client does, the invariant is kept.                          *)
LEMMA ClientSteps ==
    ASSUME Inv, NEW c \in Client, Begin(c) \/ Progress(c) \/ Exit(c)
    PROVE  Inv'
  BY BeginStep, DialStep, HelloAnsweredStep, HelloLostStep, ResyncChunkStep, ResyncedStep, AskStep,
     AnsweredStep, AnswerLostStep, CreateStep, SwapStep, DestroyStep, ExitStep DEF Progress

-----------------------------------------------------------------------------
(* Steps of the broker.                                                    *)

(* A turn is given to what epoll_wait found ready.                         *)
LEMMA TurnReady ==
    ASSUME Inv, NEW e, Turn(e)
    PROVE  e \in Ready /\ batch' \subseteq Ready \ {e}
  BY DEF Turn, Inv

(* A step of the broker leaves the clients' locals alone: it keeps the     *)
(* invariant when it keeps the accounts and the open connections in order. *)
LEMMA ServerStep ==
    ASSUME Inv, [Next]_vars, Sized', UNCHANGED <<up, crashes, proc, held>>,
           net' \in [Fd -> Connection], backlog' \in Seq(Fd), batch' \subseteq Ready',
           \A f \in Fd : /\ net'[f].end = "open" => net'[f].owner = net[f].owner
                         /\ net'[f].end = "open" <=> net[f].end = "open",
           \A f \in Fd : Socket(net'[f]),
           \A c \in Client : proc[c].sock # Nil => InOrder(net'[proc[c].sock], proc[c]),
           Tables'
    PROVE  Inv'
<1>1. Accounts' /\ Typed'
  BY NextAccounts DEF Inv, Accounts
<1>2. batch' \subseteq Fd \cup {Nil}
  BY DEF Ready, Listener
<1>3. Types'
  BY <1>1, <1>2 DEF Inv, Types
<1>4. \A c \in Client : proc[c].sock # Nil =>
         proc[c].sock \in Fd /\ net[proc[c].sock].end = "open" /\ net[proc[c].sock].owner = c
  BY OwnConnection
<1>5. \A c \in Client : proc'[c].sock # Nil =>
         net'[proc'[c].sock].end = "open" /\ net'[proc'[c].sock].owner = c
  BY <1>4
<1>6. \A f \in Fd : net'[f].end = "open" =>
         net'[f].owner \in Client /\ proc'[net'[f].owner].sock = f
  BY DEF Inv, Owned
<1>7. Owned'
  BY <1>5, <1>6 DEF Owned
<1>8. \A c \in Client : Located(proc'[c], held'[c])
  BY DEF Inv
<1>9. \A c \in Client : proc'[c].sock # Nil => InOrder(net'[proc'[c].sock], proc'[c])
  OBVIOUS
<1> QED
  BY <1>1, <1>3, <1>7, <1>8, <1>9 DEF Inv

(* What is left of the listening socket's queue.                           *)
LEMMA BacklogTail ==
    ASSUME NEW q \in Seq(Fd), q # <<>>
    PROVE  /\ Head(q) \in Fd /\ Head(q) = q[1] /\ Tail(q) \in Seq(Fd)
           /\ Len(q) \in Nat /\ Len(q) >= 1 /\ Len(Tail(q)) = Len(q) - 1
           /\ \A i \in 1 .. Len(Tail(q)) : Tail(q)[i] = q[i + 1]
  OBVIOUS

(* A connection is taken from the queue and made a tenant.                 *)
LEMMA AcceptStep ==
    ASSUME Inv, Accept
    PROVE  Inv'
<1>1. Listener \in Ready /\ batch' \subseteq Ready \ {Listener}
  BY TurnReady DEF Accept
<1>2. backlog # <<>> /\ backlog \in Seq(Fd)
  BY <1>1, StateTypes, SystemAssumption DEF Ready, Listener
<1>3. PICK f : f = Head(backlog)
  OBVIOUS
<1>4. /\ f \in Fd /\ f = backlog[1] /\ backlog' = Tail(backlog) /\ backlog' \in Seq(Fd)
      /\ Len(backlog) \in Nat /\ Len(backlog) >= 1 /\ Len(backlog') = Len(backlog) - 1
      /\ \A i \in 1 .. Len(backlog') : backlog'[i] = backlog[i + 1]
  BY <1>2, <1>3, BacklogTail DEF Accept
<1>5. net[f].state = "backlog"
  BY <1>4 DEF Inv, Tables
<1>6. PICK n : n = [net[f] EXCEPT !.state = "accepted"]
  OBVIOUS
<1>7. net[f] \in Connection /\ Socket(net[f])
  BY <1>4, StateTypes
<1>8. /\ n \in Connection /\ n.state = "accepted" /\ n.end = net[f].end /\ n.owner = net[f].owner
      /\ n.queue = net[f].queue /\ n.reply = net[f].reply
  BY <1>6, <1>7 DEF Connection
<1>9. Socket(n)
  BY <1>7, <1>8 DEF Socket
<1>10. /\ net' \in [Fd -> Connection] /\ net'[f] = n /\ \A g \in Fd \ {f} : net'[g] = net[g]
  <2>1. net' = [net EXCEPT ![f] = n]
    BY <1>3, <1>6 DEF Accept
  <2> QED
    BY <1>4, <1>8, <2>1 DEF Inv, Types
<1>11. Connect(f) /\ UNCHANGED <<up, crashes, proc, held>>
  BY <1>3 DEF Accept
<1>12. Next
  BY <1>4, <1>11 DEF Next, Common
<1>13. Sized'
  BY <1>11 DEF Inv, Sized, Tracked, Connect
<1>14. \A g \in Fd : Socket(net'[g]) /\ net'[g].owner = net[g].owner
                     /\ (net'[g].end = "open" <=> net[g].end = "open")
  BY <1>8, <1>9, <1>10, StateTypes
<1>15. \A c \in Client : proc[c].sock # Nil => InOrder(net'[proc[c].sock], proc[c])
  <2>1. \A c \in Client : proc[c].sock # Nil =>
           proc[c].sock \in Fd /\ InOrder(net[proc[c].sock], proc[c])
    BY OwnConnection
  <2>2. \A r : InOrder(net[f], r) => InOrder(n, r)
    BY <1>8 DEF InOrder
  <2> QED
    BY <1>10, <2>1, <2>2
<1>16. Tables'
  <2>1. \A g \in Fd : net'[g].state = "accepted" <=> g \in tenants'
    BY <1>8, <1>10, <1>11 DEF Inv, Tables, Connect
  <2>2. \A i, j \in 1 .. Len(backlog) : backlog[i] = backlog[j] => i = j
    BY DEF Inv, Tables
  <2>3. \A i, j \in 1 .. Len(backlog') : backlog'[i] = backlog'[j] => i = j
    <3> SUFFICES ASSUME NEW i \in 1 .. Len(backlog'), NEW j \in 1 .. Len(backlog'),
                        backlog'[i] = backlog'[j]
                 PROVE  i = j
      OBVIOUS
    <3>1. i + 1 \in 1 .. Len(backlog) /\ j + 1 \in 1 .. Len(backlog)
      BY <1>4
    <3> QED
      BY <1>4, <2>2, <3>1
  <2>4. ASSUME NEW g \in Fd
        PROVE  net'[g].state = "backlog" <=> \E i \in 1 .. Len(backlog') : backlog'[i] = g
    <3>1. CASE g = f
      <4>1. ASSUME NEW i \in 1 .. Len(backlog'), backlog'[i] = f PROVE FALSE
        <5>1. i + 1 \in 1 .. Len(backlog) /\ 1 \in 1 .. Len(backlog) /\ i + 1 # 1
          BY <1>4
        <5>2. backlog[i + 1] = backlog[1]
          BY <1>4, <4>1
        <5> QED
          BY <2>2, <5>1, <5>2
      <4> QED
        BY <1>8, <1>10, <3>1, <4>1
    <3>2. CASE g # f
      <4>1. net[g].state = "backlog" <=> \E i \in 1 .. Len(backlog) : backlog[i] = g
        BY DEF Inv, Tables
      <4>2. ASSUME NEW i \in 1 .. Len(backlog), backlog[i] = g
            PROVE  \E k \in 1 .. Len(backlog') : backlog'[k] = g
        <5>1. i # 1
          BY <1>4, <3>2, <4>2
        <5>2. i - 1 \in 1 .. Len(backlog') /\ (i - 1) + 1 = i
          BY <1>4, <5>1
        <5>3. backlog'[i - 1] = backlog[(i - 1) + 1]
          BY <1>4, <5>2
        <5> QED
          BY <4>2, <5>2, <5>3
      <4>3. ASSUME NEW i \in 1 .. Len(backlog'), backlog'[i] = g
            PROVE  \E k \in 1 .. Len(backlog) : backlog[k] = g
        <5>1. i + 1 \in 1 .. Len(backlog)
          BY <1>4
        <5> QED
          BY <1>4, <4>3, <5>1
      <4> QED
        BY <1>10, <3>2, <4>1, <4>2, <4>3
    <3> QED
      BY <3>1, <3>2
  <2> QED
    BY <2>1, <2>3, <2>4 DEF Tables
<1>17. batch' \subseteq Ready'
  <2>1. \A g \in Fd : g \in Ready => g # f /\ net[g].state = "accepted"
                                     /\ (net[g].queue # <<>> \/ net[g].end # "open")
    BY <1>5, SystemAssumption DEF Ready, Listener
  <2>2. \A g \in Fd : g \in Ready => g \in Ready'
    BY <1>10, <2>1 DEF Ready
  <2>3. batch' \subseteq Fd
    BY <1>1 DEF Ready
  <2> QED
    BY <1>1, <2>2, <2>3
<1> QED
  BY <1>4, <1>10, <1>11, <1>12, <1>13, <1>14, <1>15, <1>16, <1>17, ServerStep

(* The tables keep the size a chunk was created with.                      *)
LEMMA RecordSized ==
    ASSUME Typed, Sized, NEW f \in Fd, NEW p \in Ptr, NEW l, Record(f, p, SizeOf[p], l)
    PROVE  Sized'
<1>1. chunks'[f][p].size = SizeOf[p]
  BY DEF Record, Typed
<1>2. \A g \in Fd, q \in Ptr : <<g, q>> # <<f, p>> => chunks'[g][q] = chunks[g][q]
  BY DEF Record, Typed
<1> QED
  BY <1>1, <1>2 DEF Sized, Tracked

(* A client's message is one the broker is specified for: a Resync reports *)
(* the size that the broker has.                                           *)
LEMMA HandleNext ==
    ASSUME Inv, NEW f \in Fd, NEW m \in Message, Handle(f, m)
    PROVE  Next /\ Sized' /\ tenants' = tenants /\ f \in tenants
<1> DEFINE Good == Next /\ Sized' /\ tenants' = tenants /\ f \in tenants
<1>1. Typed /\ Sized /\ MovingTracked
  BY DEF Inv, Accounts
<1>2. /\ m.type # "Hello" => m.ptr \in Ptr
      /\ m.type \in {"Move", "MoveDone", "Resync"} => m.loc \in Loc
  BY DEF Message
<1>3. ASSUME UNCHANGED chunks PROVE Sized'
  BY <1>1, <1>3 DEF Sized, Tracked
<1>4. ASSUME Hello(f) PROVE Good
  BY <1>3, <1>4 DEF Next, Common, Hello
<1>5. ASSUME NEW p \in Ptr, Alloc(f, p, SizeOf[p]) PROVE Good
  <2>1. SizeOf[p] \in Size
    BY SystemAssumption
  <2>2. Sized'
    BY <1>1, <1>3, <1>5, RecordSized DEF Alloc
  <2> QED
    BY <1>5, <2>1, <2>2 DEF Next, Common, Alloc
<1>6. ASSUME NEW p \in Ptr, AllocFail(f, p) PROVE Good
  <2>1. CASE chunks[f][p].loc = "Device"
    <3>1. p \in Tracked(f)
      BY <2>1 DEF Tracked, NoChunk
    <3>2. chunks[f][p].size = SizeOf[p]
      BY <1>1, <3>1 DEF Sized
    <3>3. Sized'
      BY <1>1, <1>6, <2>1, <3>2, RecordSized DEF AllocFail
    <3> QED
      BY <1>6, <3>3 DEF Next, Common, AllocFail
  <2>2. CASE chunks[f][p].loc # "Device"
    BY <1>3, <1>6, <2>2 DEF Next, Common, AllocFail
  <2> QED
    BY <2>1, <2>2
<1>7. ASSUME NEW p \in Ptr, Free(f, p) PROVE Good
  <2>1. Sized'
    <3>1. CASE p \in Tracked(f)
      <4>1. chunks' = [chunks EXCEPT ![f][p] = NoChunk]
        BY <1>7, <3>1 DEF Free
      <4>2. \A g \in Fd, q \in Ptr : chunks'[g][q] = NoChunk \/ chunks'[g][q] = chunks[g][q]
        BY <1>1, <4>1 DEF Typed
      <4> QED
        BY <1>1, <4>2 DEF Sized, Tracked
    <3>2. CASE p \notin Tracked(f)
      BY <1>3, <1>7, <3>2 DEF Free
    <3> QED
      BY <3>1, <3>2
  <2> QED
    BY <1>7, <2>1 DEF Next, Common, Free
<1>8. ASSUME NEW p \in Ptr, NEW l \in Loc, MoveRequest(f, p, l) PROVE Good
  BY <1>3, <1>8 DEF Next, Common, MoveRequest
<1>9. ASSUME NEW p \in Ptr, NEW l \in Loc, MoveDone(f, p, l) PROVE Good
  <2>1. Sized'
    <3>1. CASE p \in Tracked(f)
      <4>1. chunks[f][p].size = SizeOf[p]
        BY <1>1, <3>1 DEF Sized
      <4> QED
        BY <1>1, <1>9, <3>1, <4>1, RecordSized DEF MoveDone
    <3>2. CASE p \notin Tracked(f)
      BY <1>3, <1>9, <3>2 DEF MoveDone
    <3> QED
      BY <3>1, <3>2
  <2> QED
    BY <1>9, <2>1 DEF Next, Common, MoveDone
<1>10. ASSUME NEW p \in Ptr, NEW l \in Loc, Resync(f, p, SizeOf[p], l) PROVE Good
  <2>1. SizeOf[p] \in Size
    BY SystemAssumption
  <2>2. SameSize(f, p, SizeOf[p])
    <3>1. ASSUME moving[f].ptr = p PROVE p \in Tracked(f)
      BY <1>1, <3>1, MoveType, VmemdAssumption DEF MovingTracked
    <3> QED
      BY <1>1, <3>1 DEF Sized, SameSize
  <2>3. Sized'
    BY <1>1, <1>10, RecordSized DEF Resync
  <2> QED
    BY <1>10, <2>1, <2>2, <2>3 DEF Next, Resync
<1> HIDE DEF Good
<1>11. Good
  BY <1>2, <1>4, <1>5, <1>6, <1>7, <1>8, <1>9, <1>10 DEF Handle
<1> QED
  BY <1>11 DEF Good

(* The head of a queue handled, the rest moves up.                         *)
LEMMA QueueTail ==
    ASSUME NEW q \in Seq(Message), q # <<>>
    PROVE  /\ Head(q) \in Message /\ Head(q) = q[1] /\ Tail(q) \in Seq(Message)
           /\ Len(q) \in Nat /\ Len(q) >= 1 /\ Len(Tail(q)) = Len(q) - 1
           /\ \A i \in 1 .. Len(Tail(q)) : Tail(q)[i] = q[i + 1]
  OBVIOUS

(* The first reply put on a connection.                                    *)
LEMMA FirstReply ==
    ASSUME NEW S, NEW a \in S, NEW s \in Seq(S), s = <<>>
    PROVE  Len(Append(s, a)) = 1 /\ Append(s, a)[1] = a
  OBVIOUS

(* The answer alone under way.                                             *)
LEMMA AnsweredInOrder ==
    ASSUME NEW n, NEW r, Len(n.queue) = 0, Len(n.reply) = 1, Awaits(r, n.reply[1])
    PROVE  InOrder(n, r)
  BY DEF InOrder

(* One message is handled and, when it is a request, answered: it was the  *)
(* last thing its client sent, and no other answer is on the way.          *)
LEMMA AnswerInOrder ==
    ASSUME NEW n \in Connection, NEW k \in Connection, NEW r, InOrder(n, r), n.queue # <<>>,
           k.queue = Tail(n.queue),
           NEW a, a.type = Head(n.queue).type, a.ptr = Head(n.queue).ptr,
           k.reply = IF Head(n.queue).type \in Reply THEN Append(n.reply, a) ELSE n.reply,
           Head(n.queue).type \in Reply => a \in Answer
    PROVE  InOrder(k, r)
<1> DEFINE q == n.queue
<1>1. q \in Seq(Message) /\ n.reply \in Seq(Answer)
  BY DEF Connection
<1>2. /\ Head(q) = q[1] /\ Len(q) \in Nat /\ Len(q) >= 1 /\ Len(k.queue) = Len(q) - 1
      /\ \A i \in 1 .. Len(k.queue) : k.queue[i] = q[i + 1]
  BY <1>1, QueueTail
<1>3. \A i \in 1 .. Len(q) : q[i].type \in Reply =>
         i = Len(q) /\ Awaits(r, q[i]) /\ n.reply = <<>>
  BY DEF InOrder
<1> HIDE DEF q
<1>4. CASE Head(q).type \in Reply
  <2>1. Len(q) = 1 /\ Awaits(r, q[1]) /\ n.reply = <<>>
    <3>1. 1 \in 1 .. Len(q) /\ q[1].type \in Reply
      BY <1>2, <1>4
    <3> QED
      BY <1>3, <3>1
  <2>2. k.reply = Append(n.reply, a)
    BY <1>4 DEF q
  <2>3. Len(k.reply) = 1 /\ k.reply[1] = a
    <3>1. Len(Append(n.reply, a)) = 1 /\ Append(n.reply, a)[1] = a
      BY <1>1, <1>4, <2>1, FirstReply DEF q
    <3> QED
      BY <2>2, <3>1
  <2>4. Awaits(r, a)
    BY <1>2, <2>1 DEF Awaits, q
  <2>5. Len(k.queue) = 0
    BY <1>2, <2>1
  <2> QED
    BY <2>3, <2>4, <2>5, AnsweredInOrder
<1>5. CASE Head(q).type \notin Reply
  <2>1. k.reply = n.reply
    BY <1>5 DEF q
  <2>2. ASSUME NEW i \in 1 .. Len(k.queue), k.queue[i].type \in Reply
        PROVE  i = Len(k.queue) /\ Awaits(r, k.queue[i]) /\ k.reply = <<>>
    <3>1. i + 1 \in 1 .. Len(q) /\ k.queue[i] = q[i + 1]
      BY <1>2
    <3>2. i + 1 = Len(q) /\ Awaits(r, q[i + 1]) /\ n.reply = <<>>
      BY <1>3, <2>2, <3>1
    <3>3. i = Len(q) - 1
      BY <1>2, <3>2
    <3> QED
      BY <1>2, <2>1, <3>1, <3>2, <3>3
  <2>3. k.reply # <<>> => Len(k.reply) = 1 /\ Awaits(r, k.reply[1])
    BY <2>1 DEF InOrder
  <2> QED
    BY <2>2, <2>3 DEF InOrder
<1> QED
  BY <1>4, <1>5

(* An Alloc that is granted has put its chunk somewhere.                   *)
LEMMA PlacedSomewhere ==
    ASSUME Typed, NEW f \in Fd, NEW m \in Message, Handle(f, m), m.type = "Alloc", last'.status = "Ok"
    PROVE  chunks'[f][m.ptr].loc \in Loc
<1>1. m.ptr \in Ptr /\ Alloc(f, m.ptr, SizeOf[m.ptr])
  BY DEF Handle, Message
<1>2. Record(f, m.ptr, SizeOf[m.ptr], Place(SizeOf[m.ptr])) /\ Place(SizeOf[m.ptr]) # "None"
  BY <1>1 DEF Alloc, Logged
<1>3. chunks'[f][m.ptr].loc = Place(SizeOf[m.ptr])
  BY <1>1, <1>2 DEF Record, Typed
<1> QED
  BY <1>2, <1>3 DEF Place, Loc

(* One message of a tenant.                                                *)
LEMMA ReceiveStep ==
    ASSUME Inv, NEW f \in Fd, Receive(f)
    PROVE  Inv'
<1>1. f \in Ready /\ batch' \subseteq Ready \ {f}
  BY TurnReady DEF Receive
<1>2. PICK n \in Connection : n = net[f]
  BY StateTypes
<1>3. Socket(n) /\ n.queue # <<>> /\ n.queue \in Seq(Message) /\ n.reply \in Seq(Answer)
  BY <1>2, StateTypes DEF Receive, Connection
<1>4. PICK m : m = Head(n.queue)
  OBVIOUS
<1>5. /\ m \in Message /\ Tail(n.queue) \in Seq(Message)
      /\ Len(n.queue) \in Nat /\ Len(Tail(n.queue)) = Len(n.queue) - 1
  BY <1>3, <1>4, QueueTail
<1>6. Handle(f, m) /\ UNCHANGED <<up, crashes, proc, held>> /\ backlog' = backlog
  BY <1>2, <1>4 DEF Receive
<1>7. Next /\ Sized' /\ tenants' = tenants /\ f \in tenants
  BY <1>5, <1>6, HandleNext
<1>8. Typed'
  BY <1>7, NextAccounts DEF Inv, Accounts
<1>9. PICK loc : loc = IF m.type = "Alloc" THEN chunks'[f][m.ptr].loc ELSE "Device"
  OBVIOUS
<1>10. loc \in Loc \cup {"None"}
  <2>1. CASE m.type = "Alloc"
    <3>1. m.ptr \in Ptr
      BY <1>5, <2>1 DEF Message
    <3>2. chunks'[f][m.ptr] \in Chunk \cup {NoChunk}
      BY <1>8, <3>1 DEF Typed
    <3> QED
      BY <1>9, <2>1, <3>2 DEF Chunk, NoChunk
  <2>2. CASE m.type # "Alloc"
    BY <1>9, <2>2 DEF Loc
  <2> QED
    BY <2>1, <2>2
<1>11. last'.status \in {"Ok", "NoMemory", "Unsupported", "None"}
  BY <1>8 DEF Typed, Event
<1>12. PICK a : a = [type |-> m.type, ptr |-> m.ptr, status |-> last'.status, loc |-> loc]
  OBVIOUS
<1>13. a.type = m.type /\ a.ptr = m.ptr /\ (m.type \in Reply => a \in Answer)
  <2>1. m.type = "Alloc" /\ last'.status = "Ok" => loc \in Loc
    BY <1>5, <1>6, <1>9, PlacedSomewhere DEF Inv, Types
  <2>2. a.type = m.type /\ a.ptr = m.ptr /\ a.status = last'.status /\ a.loc = loc
    BY <1>12
  <2>3. m.type \in Reply =>
           a \in [type : Reply, ptr : Ptr \cup {Nil}, loc : Loc \cup {"None"},
                  status : {"Ok", "NoMemory", "Unsupported", "None"}]
    BY <1>5, <1>10, <1>11, <1>12 DEF Message
  <2> QED
    BY <2>1, <2>2, <2>3 DEF Answer
<1>14. PICK b : b = IF m.type \in Reply /\ n.end = "open" THEN Append(n.reply, a) ELSE n.reply
  OBVIOUS
<1>15. b \in Seq(Answer)
  <2>1. CASE m.type \in Reply
    BY <1>3, <1>13, <1>14, <2>1
  <2>2. CASE m.type \notin Reply
    BY <1>3, <1>14, <2>2
  <2> QED
    BY <2>1, <2>2
<1>16. PICK t : t = Tail(n.queue)
  OBVIOUS
<1>17. PICK k : k = [n EXCEPT !.queue = t, !.reply = b]
  OBVIOUS
<1>18. net' = [net EXCEPT ![f] = k]
  BY <1>2, <1>4, <1>9, <1>12, <1>14, <1>16, <1>17 DEF Receive
<1>19. k \in Connection
  <2>1. t \in Seq(Message)
    BY <1>5, <1>16
  <2> QED
    BY <1>2, <1>15, <1>17, <2>1 DEF Connection
<1>20. /\ k.state = n.state /\ k.end = n.end /\ k.queue = t /\ k.reply = b
       /\ k.owner = n.owner
  BY <1>2, <1>17 DEF Connection
<1>21. Socket(k)
  <2>1. Len(t) <= Cap
    BY <1>3, <1>5, <1>16, SystemAssumption DEF Socket
  <2> QED
    BY <1>3, <1>14, <1>20, <2>1 DEF Socket
<1>22. net' \in [Fd -> Connection] /\ net'[f] = k /\ \A g \in Fd \ {f} : net'[g] = net[g]
  BY <1>18, <1>19 DEF Inv, Types
<1>23. \A g \in Fd : /\ Socket(net'[g])
                     /\ net'[g].owner = net[g].owner /\ net'[g].end = net[g].end
                     /\ net'[g].state = net[g].state
  BY <1>2, <1>20, <1>21, <1>22, StateTypes
<1>24. ASSUME NEW c \in Client, proc[c].sock # Nil
       PROVE  InOrder(net'[proc[c].sock], proc[c])
  <2>1. /\ proc[c].sock \in Fd /\ net[proc[c].sock].end = "open"
        /\ InOrder(net[proc[c].sock], proc[c])
    BY <1>24, OwnConnection
  <2>2. CASE proc[c].sock = f
    <3>1. InOrder(n, proc[c]) /\ n.end = "open"
      BY <1>2, <2>1, <2>2
    <3>2. k.reply = IF m.type \in Reply THEN Append(n.reply, a) ELSE n.reply
      BY <1>14, <1>20, <3>1
    <3> QED
      BY <1>3, <1>4, <1>13, <1>16, <1>19, <1>20, <1>22, <2>2, <3>1, <3>2, AnswerInOrder
  <2>3. CASE proc[c].sock # f
    BY <1>22, <2>1, <2>3
  <2> QED
    BY <2>2, <2>3
<1>25. Tables'
  BY <1>6, <1>7, <1>23 DEF Inv, Tables
<1>26. batch' \subseteq Ready'
  <2>1. \A g \in Fd \ {f} : g \in Ready => g \in Ready'
    BY <1>22, SystemAssumption DEF Ready, Listener
  <2>2. Listener \in Ready => Listener \in Ready'
    BY <1>6, SystemAssumption DEF Ready, Listener
  <2> QED
    BY <1>1, <2>1, <2>2 DEF Ready
<1> QED
  BY <1>6, <1>7, <1>22, <1>23, <1>24, <1>25, <1>26, StateTypes, ServerStep

(* A connection its client has closed is dropped.                          *)
LEMMA HangupStep ==
    ASSUME Inv, NEW f \in Fd, Hangup(f)
    PROVE  Inv'
<1>1. f \in Ready /\ batch' \subseteq Ready \ {f}
  BY TurnReady DEF Hangup
<1>2. net[f].end # "open" /\ Disconnect(f)
  BY DEF Hangup
<1>3. UNCHANGED <<up, crashes, proc, held>> /\ backlog' = backlog
  BY DEF Hangup
<1>4. Next
  BY <1>2 DEF Next, Common
<1>5. Sized'
  <2>1. chunks \in [Fd -> [Ptr -> Chunk \cup {NoChunk}]]
    BY DEF Inv, Types, Typed
  <2>2. \A g \in Fd, p \in Ptr : chunks'[g][p] = NoChunk \/ chunks'[g][p] = chunks[g][p]
    BY <1>2, <2>1 DEF Disconnect
  <2> QED
    BY <2>2 DEF Inv, Sized, Tracked
<1>6. Unused \in Connection /\ Socket(Unused) /\ Unused.state = "free" /\ Unused.end = "none"
  BY SystemAssumption DEF Unused, Connection, Socket
<1>7. net' \in [Fd -> Connection] /\ net'[f] = Unused /\ \A g \in Fd \ {f} : net'[g] = net[g]
  <2>1. net' = [net EXCEPT ![f] = Unused]
    BY DEF Hangup
  <2> QED
    BY <1>6, <2>1 DEF Inv, Types
<1>8. \A g \in Fd : /\ Socket(net'[g])
                    /\ net'[g].end = "open" => net'[g].owner = net[g].owner
                    /\ net'[g].end = "open" <=> net[g].end = "open"
  BY <1>2, <1>6, <1>7, StateTypes
<1>9. \A c \in Client : proc[c].sock # Nil => InOrder(net'[proc[c].sock], proc[c])
  <2>1. \A c \in Client : proc[c].sock # Nil =>
           /\ proc[c].sock \in Fd /\ net[proc[c].sock].end = "open"
           /\ InOrder(net[proc[c].sock], proc[c])
    BY OwnConnection
  <2> QED
    BY <1>2, <1>7, <2>1
<1>10. net[f].state = "accepted"
  BY <1>1, SystemAssumption DEF Ready, Listener
<1>11. Tables'
  <2>1. \A g \in Fd : net'[g].state = "accepted" <=> g \in tenants'
    BY <1>2, <1>6, <1>7 DEF Inv, Tables, Disconnect
  <2>2. \A g \in Fd : net'[g].state = "backlog" <=> net[g].state = "backlog"
    BY <1>6, <1>7, <1>10
  <2> QED
    BY <1>3, <2>1, <2>2 DEF Inv, Tables
<1>12. batch' \subseteq Ready'
  <2>1. \A g \in Fd \ {f} : g \in Ready => g \in Ready'
    BY <1>7, SystemAssumption DEF Ready, Listener
  <2>2. Listener \in Ready => Listener \in Ready'
    BY <1>3, SystemAssumption DEF Ready, Listener
  <2> QED
    BY <1>1, <2>1, <2>2 DEF Ready
<1> QED
  BY <1>3, <1>4, <1>5, <1>7, <1>8, <1>9, <1>11, <1>12, StateTypes, ServerStep

(* The broker dies: its tables are those of a broker that starts, and an   *)
(* open connection is left with its client, dead and empty.                *)
LEMMA CrashStep ==
    ASSUME Inv, Crash
    PROVE  Inv'
<1>1. (Init => Accounts)'
  BY InitAccounts, PTL
<1>2. Accounts'
  BY <1>1 DEF Crash, Init
<1>3. \A f \in Fd, p \in Ptr : p \notin Tracked(f)'
  BY DEF Crash, Tracked
<1>4. Sized'
  BY <1>3 DEF Sized
<1>5. Unused \in Connection /\ Socket(Unused) /\ Unused.state = "free" /\ Unused.end = "none"
  BY SystemAssumption DEF Unused, Connection, Socket
<1>6. ASSUME NEW f \in Fd, net[f].end # "open"
      PROVE  net'[f] = Unused
  BY <1>6 DEF Crash
<1>7. ASSUME NEW f \in Fd, net[f].end = "open"
      PROVE  /\ net'[f] \in Connection
             /\ net'[f].state = "dead" /\ net'[f].end = "open" /\ net'[f].queue = <<>>
             /\ net'[f].reply = net[f].reply /\ net'[f].owner = net[f].owner
  <2>1. net[f] \in Connection
    BY StateTypes
  <2>2. PICK n : n = [net[f] EXCEPT !.state = "dead", !.queue = <<>>]
    OBVIOUS
  <2>3. net'[f] = n
    BY <1>7, <2>2 DEF Crash
  <2>4. <<>> \in Seq(Message)
    OBVIOUS
  <2>5. n \in Connection
    BY <2>1, <2>2, <2>4 DEF Connection
  <2>6. /\ n.state = "dead" /\ n.end = net[f].end /\ n.queue = <<>>
        /\ n.reply = net[f].reply /\ n.owner = net[f].owner
    BY <2>1, <2>2 DEF Connection
  <2> QED
    BY <1>7, <2>3, <2>5, <2>6
<1>8. net' \in [Fd -> Connection]
  <2>1. \A f \in Fd : net'[f] \in Connection
    BY <1>5, <1>6, <1>7
  <2>2. net' = [f \in Fd |-> net'[f]]
    BY DEF Crash
  <2> QED
    BY <2>1, <2>2
<1>9. \A f \in Fd : net'[f].end = "open" <=> net[f].end = "open"
  BY <1>5, <1>6, <1>7
<1>10. \A f \in Fd : Socket(net'[f])
  <2>1. ASSUME NEW f \in Fd, net[f].end = "open" PROVE Socket(net'[f])
    <3>1. net'[f].state # "free" /\ net'[f].end = "open" /\ Len(net'[f].queue) = 0
      BY <1>7, <2>1
    <3> QED
      BY <3>1, SystemAssumption DEF Socket
  <2> QED
    BY <1>5, <1>6, <2>1
<1>11. UNCHANGED <<proc, held>> /\ backlog' = <<>> /\ batch' = {} /\ tenants' = {}
  BY DEF Crash
<1>12. Types'
  <2>1. Typed'
    BY <1>2 DEF Accounts
  <2>2. (up \in BOOLEAN)' /\ (crashes \in 0 .. MaxCrash)'
    <3>1. crashes \in 0 .. MaxCrash
      BY DEF Inv, Types
    <3>2. crashes < MaxCrash /\ crashes' = crashes + 1
      BY DEF Crash
    <3>3. (crashes \in 0 .. MaxCrash)'
      BY <3>1, <3>2, SystemAssumption
    <3>4. (up \in BOOLEAN)'
      BY DEF Crash
    <3> QED
      BY <3>3, <3>4
  <2>3. (backlog \in Seq(Fd))' /\ (batch \subseteq Fd \cup {Nil})'
    BY <1>11
  <2> QED
    BY <1>8, <1>11, <2>1, <2>2, <2>3 DEF Inv, Types
<1>13. \A c \in Client : Located(proc'[c], held'[c])
  BY <1>11 DEF Inv
<1>14. ASSUME NEW c \in Client, proc[c].sock # Nil
       PROVE  /\ net'[proc[c].sock].end = "open" /\ net'[proc[c].sock].owner = c
              /\ InOrder(net'[proc[c].sock], proc[c])
  <2>1. PICK f \in Fd : f = proc[c].sock
    BY <1>14, OwnConnection
  <2>2. net[f].end = "open" /\ net[f].owner = c /\ InOrder(net[f], proc[c])
    BY <1>14, <2>1, OwnConnection
  <2>3. /\ net'[f].end = "open" /\ net'[f].queue = <<>>
        /\ net'[f].reply = net[f].reply /\ net'[f].owner = c
    BY <1>7, <2>2
  <2>4. Len(net'[f].queue) = 0
    BY <2>3
  <2>5. InOrder(net'[f], proc[c])
    BY <2>2, <2>3, <2>4 DEF InOrder
  <2> QED
    BY <2>1, <2>3, <2>5
<1>15. Owned'
  <2>1. \A f \in Fd : net'[f].end = "open" =>
           net'[f].owner \in Client /\ proc[net'[f].owner].sock = f
    BY <1>7, <1>9 DEF Inv, Owned
  <2> QED
    BY <1>11, <1>14, <2>1 DEF Owned
<1>16. Tables'
  <2>1. \A f \in Fd : net'[f].state \in {"free", "dead"}
    BY <1>5, <1>6, <1>7
  <2>2. Len(backlog') = 0
    BY <1>11
  <2> QED
    BY <1>11, <2>1, <2>2 DEF Tables
<1> QED
  BY <1>2, <1>4, <1>10, <1>11, <1>12, <1>13, <1>14, <1>15, <1>16 DEF Inv

(* A new broker finds nothing of the old one.                              *)
LEMMA RestartStep ==
    ASSUME Inv, Restart
    PROVE  Inv'
<1>1. UNCHANGED <<vars, crashes, net, backlog, batch, proc, held>> /\ up' = TRUE
  BY DEF Restart
<1>2. Typed' /\ Accounts'
  BY <1>1, NextAccounts DEF Inv, Accounts
<1>3. Sized' /\ Tables' /\ Owned' /\ Ready' = Ready
  BY <1>1 DEF Inv, Sized, Tracked, Tables, Owned, Ready, vars
<1>4. Types'
  BY <1>1, <1>2 DEF Inv, Types
<1> QED
  BY <1>1, <1>2, <1>3, <1>4 DEF Inv

-----------------------------------------------------------------------------
(* The system as it starts.                                                *)
LEMMA InitInv == SysInit => Inv
<1> SUFFICES ASSUME SysInit PROVE Inv
  OBVIOUS
<1>1. Accounts /\ Typed
  BY InitAccounts DEF SysInit, Accounts
<1>2. Unused \in Connection /\ Socket(Unused) /\ Unused.state = "free" /\ Unused.end = "none"
  BY SystemAssumption DEF Unused, Connection, Socket
<1>3. Off \in Process /\ Off.sock = Nil
  BY DEF Off, Process
<1>4. NoChunks \in Holding /\ Located(Off, NoChunks)
  BY DEF NoChunks, Holding, Off, Located
<1>5. \A f \in Fd : net[f] = Unused
  BY DEF SysInit
<1>6. \A c \in Client : proc[c] = Off /\ held[c] = NoChunks
  BY DEF SysInit
<1>7. Types
  <2>1. backlog \in Seq(Fd) /\ batch \subseteq Fd \cup {Nil}
    BY DEF SysInit
  <2>2. net \in [Fd -> Connection] /\ proc \in [Client -> Process] /\ held \in [Client -> Holding]
    BY <1>2, <1>3, <1>4 DEF SysInit
  <2> QED
    BY <1>1, <2>1, <2>2, SystemAssumption DEF SysInit, Types
<1>8. Sized
  BY DEF SysInit, Init, Sized, Tracked
<1>9. Owned
  BY <1>2, <1>3, <1>5, <1>6 DEF Owned
<1>10. Tables
  <2>1. Len(backlog) = 0 /\ tenants = {}
    BY DEF SysInit, Init
  <2> QED
    BY <1>2, <1>5, <2>1 DEF Tables
<1>11. batch \subseteq Ready
  BY DEF SysInit
<1> QED
  BY <1>1, <1>2, <1>3, <1>4, <1>5, <1>6, <1>7, <1>8, <1>9, <1>10, <1>11 DEF Inv

(* Every step of the system keeps the invariant.                           *)
LEMMA StepInv ==
    ASSUME Inv, [SysNext]_sysVars
    PROVE  Inv'
<1>1. CASE UNCHANGED sysVars
  <2>1. UNCHANGED <<vars, up, crashes, batch>> /\ UNCHANGED <<backlog, net, proc, held>>
    BY <1>1 DEF sysVars, broker
  <2>2. Typed' /\ Accounts'
    BY <2>1, NextAccounts DEF Inv, Accounts
  <2>3. Sized' /\ Tables' /\ Owned' /\ Ready' = Ready
    BY <2>1 DEF Inv, Sized, Tracked, Tables, Owned, Ready, vars
  <2>4. Types'
    BY <2>1, <2>2 DEF Inv, Types
  <2> QED
    BY <2>1, <2>2, <2>3, <2>4 DEF Inv
<1>2. ASSUME NEW c \in Client, Begin(c) \/ Progress(c) \/ Exit(c) PROVE Inv'
  BY <1>2, ClientSteps
<1>3. CASE Serve
  BY <1>3, AcceptStep, ReceiveStep, HangupStep DEF Serve
<1>4. CASE Crash \/ Restart
  BY <1>4, CrashStep, RestartStep
<1> QED
  BY <1>1, <1>2, <1>3, <1>4 DEF SysNext

(* The invariant holds throughout, through timeouts, reconnects, exits and *)
(* the broker's deaths.                                                    *)
THEOREM SystemInvariant == SysSpec => []Inv
<1>1. Inv /\ [SysNext]_sysVars => Inv'
  BY StepInv
<1> QED
  BY <1>1, InitInv, PTL DEF SysSpec

(* The sockets and the clients are typed; a descriptor is a tenant of the  *)
(* broker exactly when its connection is accepted, and what epoll_wait     *)
(* reported is still ready when its turn comes.                            *)
THEOREM SystemTypes == SysSpec => []SysTypeOK
<1>1. Inv => SysTypeOK
  <2> SUFFICES ASSUME Inv PROVE SysTypeOK
    OBVIOUS
  <2>1. ASSUME NEW f \in Fd
        PROVE  /\ net[f].state \in {"free", "backlog", "accepted", "dead"}
               /\ net[f].end \in {"none", "open", "eof", "reset"}
               /\ net[f].owner \in Client \cup {Nil}
               /\ Len(net[f].queue) <= Cap
    BY StateTypes DEF Connection, Socket
  <2>2. ToSet(backlog) = {backlog[i] : i \in 1 .. Len(backlog)}
    BY StateTypes DEF ToSet
  <2>3. \A f \in Fd : /\ net[f].state = "accepted" <=> f \in tenants
                      /\ net[f].state = "backlog" <=> f \in ToSet(backlog)
    BY <2>2 DEF Inv, Tables
  <2>4. ASSUME NEW c \in Client
        PROVE  /\ proc[c].pc \in {"off", "idle", "dial", "hello", "resync", "ask", "wait", "work"}
               /\ proc[c].link \in {"Local", "Connected", "Broken"}
               /\ proc[c].link = "Connected" <=> proc[c].sock # Nil
               /\ held[c] \in [Ptr -> Loc \cup {"None"}]
    BY StateTypes DEF Process, Holding, Located
  <2>5. up \in BOOLEAN /\ crashes \in 0 .. MaxCrash /\ batch \subseteq Ready
    BY DEF Inv, Types
  <2> QED
    BY <2>1, <2>3, <2>4, <2>5 DEF SysTypeOK
<1> QED
  BY <1>1, SystemInvariant, PTL

(* No path through timeouts, reconnects, exits and crashes leaves an open  *)
(* connection behind that no live client owns.                             *)
THEOREM NoConnectionOrphaned == SysSpec => []NoOrphans
<1>1. Inv => NoOrphans
  BY DEF Inv, Owned, NoOrphans
<1> QED
  BY <1>1, SystemInvariant, PTL

(* A reply that waits at a client is the only one and answers the request  *)
(* the client is blocked on.                                               *)
THEOREM RepliesMatch == SysSpec => []AnswersMatch
<1>1. Inv => AnswersMatch
  <2> SUFFICES ASSUME Inv, NEW f \in Fd, net[f].reply # <<>>
               PROVE  LET r == Head(net[f].reply)
                          c == net[f].owner
                      IN  /\ Len(net[f].reply) = 1
                          /\ proc[c].sock = f
                          /\ \/ proc[c].pc = "hello" /\ r.type = "Hello"
                             \/ /\ proc[c].pc = "wait" /\ r.ptr = proc[c].ptr
                                /\ r.type = IF proc[c].op = "create" THEN "Alloc" ELSE "Move"
    BY DEF AnswersMatch
  <2>1. net[f].end = "open" /\ net[f].reply \in Seq(Answer)
    BY StateTypes DEF Socket, Connection
  <2>2. PICK c \in Client : c = net[f].owner /\ proc[c].sock = f
    BY <2>1 DEF Inv, Owned
  <2>3. InOrder(net[f], proc[c])
    BY <2>2, SystemAssumption DEF Inv
  <2>4. Len(net[f].reply) = 1 /\ Awaits(proc[c], net[f].reply[1])
    BY <2>3 DEF InOrder
  <2>5. Head(net[f].reply) = net[f].reply[1]
    BY <2>1
  <2> QED
    BY <2>2, <2>4, <2>5 DEF Awaits
<1> QED
  BY <1>1, SystemInvariant, PTL

(* With real clients too, and across the broker's deaths, the running      *)
(* counts are what the tables and the granted moves add up to, and no move *)
(* is granted for a chunk the broker does not track.                       *)
THEOREM SystemAccounts == SysSpec => [](TenantAccounts /\ GlobalAccounts /\ MovingTracked)
<1>1. Inv => TenantAccounts /\ GlobalAccounts /\ MovingTracked
  BY DEF Inv, Accounts
<1> QED
  BY <1>1, SystemInvariant, PTL

(* Nor does a real client, which reports the sizes its chunks have, take a *)
(* size_t counter of the broker below zero, whatever it does and whenever  *)
(* the broker dies.                                                        *)
THEOREM SystemUnsigned == SysSpec => []Unsigned
<1>1. Inv => Accounts
  BY DEF Inv
<1> QED
  BY <1>1, AccountsUnsigned, SystemInvariant, PTL

-----------------------------------------------------------------------------
(* Reports.                                                                *)
(*                                                                         *)
(* What the broker has in its tables for a tenant, and what the client     *)
(* has, differ by what is still under way.  The messages in a queue lead   *)
(* from the one to the other, each of them expected where it is handled.   *)

(* A tenant as its entry in the broker's tables, in the client's terms.    *)
Entry == [hello : BOOLEAN, table : Holding, moving : Ptr \cup {Nil}]

Tenant(f) == [hello |-> hello[f], table |-> [p \in Ptr |-> chunks[f][p].loc],
              moving |-> moving[f].ptr]

Blank == [hello |-> FALSE, table |-> NoChunks, moving |-> Nil]

(* The handler of m finds v as the client thinks it is.                    *)
Expected(v, m) ==
    /\ m.type = "Hello" <=> ~v.hello
    /\ m.type \in {"Alloc", "Resync"} => v.table[m.ptr] = "None"
    /\ m.type = "AllocFail" => v.table[m.ptr] = "Device"
    /\ m.type = "Move" => v.moving = Nil /\ v.table[m.ptr] \in Loc \ {m.loc}
    /\ m.type = "MoveDone" => v.moving = m.ptr /\ v.table[m.ptr] \in Loc
    /\ m.type = "Free" => v.moving # m.ptr /\ v.table[m.ptr] \in Loc

(* What a report makes of it; what a request does is for its answer to say. *)
Apply(table, m) == IF m.type \in Reply THEN table ELSE [table EXCEPT ![m.ptr] = Said(m)]

After(v, m) == [hello  |-> v.hello, table |-> Apply(v.table, m),
                moving |-> IF m.type = "MoveDone" THEN Nil ELSE v.moving]

(* q takes a tenant from v to w: t has the views between its messages.  A  *)
(* request is the last of them, a move granted in v is granted in w or is  *)
(* done in q, and a chunk is in w where its last report in q says.         *)
Path(t, q) ==
    \A i \in 1 .. Len(q) : /\ Expected(t[i - 1], q[i])
                           /\ t[i] = After(t[i - 1], q[i])
                           /\ q[i].type \in Reply => i = Len(q)

Closes(q, p) == \E i \in 1 .. Len(q) : q[i].type = "MoveDone" /\ q[i].ptr = p

Leads(v, q, w) ==
    /\ \E t \in [0 .. Len(q) -> Entry] : t[0] = v /\ t[Len(q)] = w /\ Path(t, q)
    /\ v.moving # Nil => w.moving = v.moving \/ Closes(q, v.moving)
    /\ \A p \in Ptr : LastSaid(q, p, v.table[p], w.table[p])

(* What the client takes its entry to be, its messages handled.            *)
Placed(r, h) ==
    IF r.pc = "work" /\ r.told /\ r.op = "create" THEN [h EXCEPT ![r.ptr] = r.to]
    ELSE [p \in Ptr |-> IF p \in r.left THEN "None" ELSE h[p]]

Granted(r) == IF r.pc = "work" /\ r.told /\ r.op = "move" THEN r.ptr ELSE Nil

Believed(r, h) ==
    IF r.pc = "hello" THEN Blank
    ELSE [hello |-> TRUE, table |-> Placed(r, h), moving |-> Granted(r)]

(* What the answer a makes of it.                                          *)
Outcome(r, h, a) ==
    [hello  |-> TRUE,
     table  |-> IF r.pc = "hello" THEN NoChunks
                ELSE IF r.op = "create" /\ a.status = "Ok" THEN [h EXCEPT ![r.ptr] = a.loc] ELSE h,
     moving |-> IF r.pc = "wait" /\ r.op = "move" /\ a.status = "Ok" THEN r.ptr ELSE Nil]

Agrees(w, n, r, h) ==
    /\ n.reply = <<>> => w = Believed(r, h)
    /\ n.reply # <<>> => n.queue = <<>> /\ w = Outcome(r, h, n.reply[1])

(* A client's locals know its chunks and whether it was told.              *)
Knows(r, h) ==
    /\ r.pc \in {"dial", "hello", "resync", "ask", "wait"} => ~r.told
    /\ r.op = "create" /\ r.pc # "idle" => h[r.ptr] = "None"
    /\ r.op = "create" /\ r.pc = "work" /\ r.told => r.to \in Loc
    /\ r.op = "move" /\ r.pc \in {"dial", "hello", "resync", "ask", "wait"} => r.to # h[r.ptr]
    /\ r.op = "destroy" /\ r.pc # "idle" => h[r.ptr] \in Loc
    /\ r.op \in {"create", "move"} /\ r.pc = "work" /\ r.sock # Nil => r.told

Lives(n) == n.state \in {"backlog", "accepted"}

Reports ==
    /\ \A c \in Client : Knows(proc[c], held[c])
    /\ \A f \in Fd \ tenants : Tenant(f) = Blank
    /\ \A f \in Fd : Lives(net[f]) => \E w \in Entry :
          /\ Leads(Tenant(f), net[f].queue, w)
          /\ net[f].end = "open" => Agrees(w, net[f], proc[net[f].owner], held[net[f].owner])

(* What a report makes of an entry is one, and a request leaves it.        *)
LEMMA AfterType ==
    ASSUME NEW v \in Entry, NEW m \in Message
    PROVE  /\ After(v, m) \in Entry
           /\ m.type \in Reply => After(v, m) = v
<1>1. v.table \in Holding /\ v.hello \in BOOLEAN /\ v.moving \in Ptr \cup {Nil}
  BY DEF Entry
<1>2. /\ m.type # "Hello" => m.ptr \in Ptr
      /\ m.type \in {"Move", "MoveDone", "Resync"} => m.loc \in Loc
  BY DEF Message
<1>3. Apply(v.table, m) \in Holding
  <2>1. CASE m.type \in Reply
    BY <1>1, <2>1 DEF Apply
  <2>2. CASE m.type \notin Reply
    <3>1. m.ptr \in Ptr /\ Said(m) \in Loc \cup {"None"}
      BY <1>2, <2>2 DEF Said, Reply, Loc, Message, MessageType
    <3> QED
      BY <1>1, <2>2, <3>1 DEF Apply, Holding
  <2> QED
    BY <2>1, <2>2
<1>4. After(v, m) \in Entry
  BY <1>1, <1>3 DEF After, Entry
<1>5. ASSUME m.type \in Reply PROVE After(v, m) = v
  <2>1. Apply(v.table, m) = v.table
    BY <1>5 DEF Apply, Reply
  <2>2. After(v, m) = [hello |-> v.hello, table |-> v.table, moving |-> v.moving]
    BY <1>5, <2>1 DEF After, Reply
  <2> QED
    BY <2>2 DEF Entry
<1> QED
  BY <1>4, <1>5

(* Nothing under way leads nowhere else.                                   *)
LEMMA LeadsNone ==
    ASSUME NEW v \in Entry, NEW w, Leads(v, <<>>, w)
    PROVE  v = w
<1>1. Len(<<>>) = 0
  OBVIOUS
<1> QED
  BY <1>1 DEF Leads

(* Nor does it keep from anything.                                         *)
LEMMA NoneLeads ==
    ASSUME NEW v \in Entry
    PROVE  Leads(v, <<>>, v)
<1> DEFINE t == [i \in 0 .. 0 |-> v]
<1>1. Len(<<>>) = 0
  OBVIOUS
<1>2. t \in [0 .. Len(<<>>) -> Entry] /\ t[0] = v /\ t[Len(<<>>)] = v
  BY <1>1
<1>3. Path(t, <<>>)
  BY <1>1 DEF Path
<1>4. \A p \in Ptr : LastSaid(<<>>, p, v.table[p], v.table[p])
  BY <1>1 DEF LastSaid
<1> QED
  BY <1>2, <1>3, <1>4 DEF Leads

(* One message, expected where it is handled.                              *)
LEMMA OneLeads ==
    ASSUME NEW v \in Entry, NEW m \in Message, Expected(v, m)
    PROVE  Leads(v, <<m>>, After(v, m))
<1> DEFINE t == [i \in 0 .. 1 |-> IF i = 0 THEN v ELSE After(v, m)]
           q == <<m>>
<1>1. Len(q) = 1 /\ q[1] = m
  OBVIOUS
<1>2. t \in [0 .. 1 -> Entry] /\ t[0] = v /\ t[1] = After(v, m)
  BY AfterType
<1> HIDE DEF t, q
<1>3. Path(t, q)
  BY <1>1, <1>2 DEF Path
<1>4. ASSUME v.moving # Nil PROVE After(v, m).moving = v.moving \/ Closes(q, v.moving)
  <2>1. CASE m.type = "MoveDone"
    <3>1. m.ptr = v.moving
      BY <2>1 DEF Expected
    <3> QED
      BY <1>1, <2>1, <3>1 DEF Closes
  <2>2. CASE m.type # "MoveDone"
    BY <2>2 DEF After
  <2> QED
    BY <2>1, <2>2
<1>5. ASSUME NEW p \in Ptr PROVE LastSaid(q, p, v.table[p], After(v, m).table[p])
  <2>1. v.table \in Holding /\ After(v, m).table = Apply(v.table, m)
    BY DEF Entry, After
  <2>2. CASE Tells(m, p)
    <3>1. After(v, m).table[p] = Said(m)
      BY <2>1, <2>2 DEF Apply, Tells, Holding
    <3> QED
      BY <1>1, <2>2, <3>1 DEF LastSaid
  <2>3. CASE ~Tells(m, p)
    <3>1. After(v, m).table[p] = v.table[p]
      BY <2>1, <2>3 DEF Apply, Tells, Holding
    <3> QED
      BY <1>1, <2>3, <3>1 DEF LastSaid
  <2> QED
    BY <2>2, <2>3
<1>6. Leads(v, q, After(v, m))
  BY <1>1, <1>2, <1>3, <1>4, <1>5 DEF Leads
<1> QED
  BY <1>6 DEF q

(* The last report of p in a queue and what is sent after it.              *)
LEMMA LastJoin ==
    ASSUME NEW q \in Seq(Message), NEW s \in Seq(Message), NEW p, NEW x, NEW y, NEW z,
           LastSaid(q, p, x, y), LastSaid(s, p, y, z)
    PROVE  LastSaid(q \o s, p, x, z)
<1>1. PICK a \in Nat : a = Len(q)
  OBVIOUS
<1>2. PICK b \in Nat : b = Len(s)
  OBVIOUS
<1>3. PICK u : u = q \o s
  OBVIOUS
<1>4. /\ Len(u) = a + b
      /\ \A i \in 1 .. a : u[i] = q[i] /\ i \in 1 .. a + b
      /\ \A i \in 1 .. b : u[a + i] = s[i] /\ a + i \in 1 .. a + b
  BY <1>1, <1>2, <1>3
<1>5. \A i \in 1 .. a + b : i \in 1 .. a \/ (i - a \in 1 .. b /\ a + (i - a) = i)
  BY <1>1, <1>2
<1>6. CASE \A i \in 1 .. b : ~Tells(s[i], p)
  <2>1. y = z
    BY <1>2, <1>6 DEF LastSaid
  <2>2. CASE x = y /\ \A i \in 1 .. a : ~Tells(q[i], p)
    <3>1. \A i \in 1 .. Len(u) : ~Tells(u[i], p)
      BY <1>4, <1>5, <1>6, <2>2
    <3> QED
      BY <1>3, <2>1, <2>2, <3>1 DEF LastSaid
  <2>3. ASSUME NEW i \in 1 .. a, Tells(q[i], p), Said(q[i]) = y,
               \A j \in i + 1 .. a : ~Tells(q[j], p)
        PROVE  LastSaid(u, p, x, z)
    <3>1. ASSUME NEW j \in i + 1 .. Len(u) PROVE ~Tells(u[j], p)
      <4>1. j \in 1 .. a + b /\ (j \in 1 .. a => j \in i + 1 .. a)
        BY <1>4
      <4> QED
        BY <1>4, <1>5, <1>6, <2>3, <4>1
    <3>2. i \in 1 .. Len(u) /\ u[i] = q[i]
      BY <1>4
    <3> QED
      BY <2>1, <2>3, <3>1, <3>2 DEF LastSaid
  <2> QED
    BY <1>1, <1>3, <2>2, <2>3 DEF LastSaid
<1>7. ASSUME NEW i \in 1 .. b, Tells(s[i], p), Said(s[i]) = z,
             \A j \in i + 1 .. b : ~Tells(s[j], p)
      PROVE  LastSaid(u, p, x, z)
  <2>1. PICK k : k = a + i
    OBVIOUS
  <2>2. k \in 1 .. Len(u) /\ u[k] = s[i]
    BY <1>4, <2>1
  <2>3. ASSUME NEW j \in k + 1 .. Len(u) PROVE ~Tells(u[j], p)
    <3>1. j - a \in i + 1 .. b /\ j - a \in 1 .. b /\ a + (j - a) = j
      BY <1>4, <2>1
    <3>2. u[j] = s[j - a]
      BY <1>4, <3>1
    <3> QED
      BY <1>7, <3>1, <3>2
  <2> QED
    BY <1>7, <2>2, <2>3 DEF LastSaid
<1> QED
  BY <1>2, <1>3, <1>6, <1>7 DEF LastSaid

(* Its first message handled, a queue says the same of p.                  *)
LEMMA LastTail ==
    ASSUME NEW q \in Seq(Message), q # <<>>, NEW p, NEW x, NEW y, LastSaid(q, p, x, y)
    PROVE  LastSaid(Tail(q), p, IF Tells(Head(q), p) THEN Said(Head(q)) ELSE x, y)
<1>1. PICK a \in Nat : a = Len(q)
  OBVIOUS
<1>2. PICK u : u = Tail(q)
  OBVIOUS
<1>3. /\ Head(q) = q[1] /\ a >= 1 /\ Len(u) = a - 1
      /\ \A i \in 1 .. a - 1 : u[i] = q[i + 1] /\ i + 1 \in 1 .. a
  BY <1>1, <1>2, QueueTail
<1>4. PICK here : here = IF Tells(q[1], p) THEN Said(q[1]) ELSE x
  OBVIOUS
<1>5. CASE x = y /\ \A i \in 1 .. a : ~Tells(q[i], p)
  <2>1. here = y
    BY <1>3, <1>4, <1>5
  <2>2. \A i \in 1 .. Len(u) : ~Tells(u[i], p)
    BY <1>3, <1>5
  <2> QED
    BY <1>2, <1>3, <1>4, <2>1, <2>2 DEF LastSaid
<1>6. ASSUME NEW i \in 1 .. a, Tells(q[i], p), Said(q[i]) = y,
             \A j \in i + 1 .. a : ~Tells(q[j], p)
      PROVE  LastSaid(u, p, here, y)
  <2>1. ASSUME NEW k \in i .. a - 1, k >= 1 PROVE ~Tells(u[k], p)
    <3>1. k + 1 \in i + 1 .. a /\ k \in 1 .. a - 1
      OBVIOUS
    <3> QED
      BY <1>3, <1>6, <3>1
  <2>2. CASE i = 1
    <3>1. here = y
      BY <1>4, <1>6, <2>2
    <3>2. \A j \in 1 .. Len(u) : ~Tells(u[j], p)
      BY <1>3, <2>1, <2>2
    <3> QED
      BY <3>1, <3>2 DEF LastSaid
  <2>3. CASE i # 1
    <3>1. PICK k : k = i - 1
      OBVIOUS
    <3>2. k \in 1 .. Len(u) /\ k + 1 = i /\ k \in 1 .. a - 1
      BY <1>3, <2>3, <3>1
    <3>3. u[k] = q[i]
      BY <1>3, <3>2
    <3>4. \A j \in k + 1 .. Len(u) : j \in i .. a - 1 /\ j >= 1
      BY <1>3, <3>2
    <3>5. \A j \in k + 1 .. Len(u) : ~Tells(u[j], p)
      BY <2>1, <3>4
    <3> QED
      BY <1>6, <3>2, <3>3, <3>5 DEF LastSaid
  <2> QED
    BY <2>2, <2>3
<1> QED
  BY <1>1, <1>2, <1>3, <1>4, <1>5, <1>6 DEF LastSaid

(* Messages sent on a queue without a request are handled where the queue  *)
(* has led.                                                                *)
LEMMA LeadsJoin ==
    ASSUME NEW v \in Entry, NEW w \in Entry, NEW x \in Entry,
           NEW q \in Seq(Message), NEW s \in Seq(Message),
           Leads(v, q, w), Leads(w, s, x),
           \A i \in 1 .. Len(q) : q[i].type \notin Reply
    PROVE  Leads(v, q \o s, x)
<1> DEFINE a == Len(q)  b == Len(s)
<1>1. a \in Nat /\ b \in Nat
  OBVIOUS
<1>2. PICK z : z = q \o s
  OBVIOUS
<1>3. /\ z \in Seq(Message) /\ Len(z) = a + b
      /\ \A i \in 1 .. Len(z) : z[i] = IF i <= a THEN q[i] ELSE s[i - a]
  BY <1>2
<1>4. PICK t \in [0 .. a -> Entry] : t[0] = v /\ t[a] = w /\ Path(t, q)
  BY DEF Leads
<1>5. PICK u \in [0 .. b -> Entry] : u[0] = w /\ u[b] = x /\ Path(u, s)
  BY DEF Leads
<1> DEFINE y == [i \in 0 .. a + b |-> IF i <= a THEN t[i] ELSE u[i - a]]
<1>6. \A i \in 1 .. a : /\ Expected(t[i - 1], q[i]) /\ t[i] = After(t[i - 1], q[i])
                        /\ q[i].type \notin Reply
  BY <1>4 DEF Path
<1>7. \A i \in 1 .. b : /\ Expected(u[i - 1], s[i]) /\ u[i] = After(u[i - 1], s[i])
                        /\ s[i].type \in Reply => i = b
  BY <1>5 DEF Path
<1>8. y \in [0 .. a + b -> Entry]
  <2>1. ASSUME NEW i \in 0 .. a + b PROVE y[i] \in Entry
    <3>1. CASE i <= a
      <4>1. i \in 0 .. a
        BY <1>1, <3>1
      <4> QED
        BY <3>1, <4>1
    <3>2. CASE ~(i <= a)
      <4>1. i - a \in 0 .. b
        BY <1>1, <3>2
      <4> QED
        BY <3>2, <4>1
    <3> QED
      BY <3>1, <3>2
  <2> QED
    BY <2>1
<1>9. /\ \A i \in 0 .. a : y[i] = t[i]
      /\ \A i \in 0 .. b : y[a + i] = u[i]
  <2>1. ASSUME NEW i \in 0 .. a PROVE y[i] = t[i]
    <3>1. i \in 0 .. a + b /\ i <= a
      BY <1>1
    <3> QED
      BY <3>1
  <2>2. ASSUME NEW i \in 0 .. b PROVE y[a + i] = u[i]
    <3>1. CASE i = 0
      BY <1>1, <1>4, <1>5, <2>1, <3>1
    <3>2. CASE i # 0
      <4>1. a + i \in 0 .. a + b /\ ~(a + i <= a) /\ (a + i) - a = i
        BY <1>1, <3>2
      <4> QED
        BY <4>1
    <3> QED
      BY <3>1, <3>2
  <2> QED
    BY <2>1, <2>2
<1> HIDE DEF y
<1>10. Path(y, z)
  <2> SUFFICES ASSUME NEW i \in 1 .. Len(z)
               PROVE  /\ Expected(y[i - 1], z[i])
                      /\ y[i] = After(y[i - 1], z[i])
                      /\ z[i].type \in Reply => i = Len(z)
    BY DEF Path
  <2>1. i \in 1 .. a + b
    BY <1>3
  <2>2. CASE i <= a
    <3>1. i \in 1 .. a /\ i \in 0 .. a /\ i - 1 \in 0 .. a /\ z[i] = q[i]
      BY <1>1, <1>3, <2>1, <2>2
    <3>2. y[i] = t[i] /\ y[i - 1] = t[i - 1]
      BY <1>9, <3>1
    <3> QED
      BY <1>6, <3>1, <3>2
  <2>3. CASE ~(i <= a)
    <3>1. PICK j : j = i - a
      OBVIOUS
    <3>2. j \in 1 .. b /\ j \in 0 .. b /\ j - 1 \in 0 .. b /\ a + j = i /\ a + (j - 1) = i - 1 /\ z[i] = s[j]
      BY <1>1, <1>3, <2>1, <2>3, <3>1
    <3>3. y[i] = u[j] /\ y[i - 1] = u[j - 1]
      BY <1>9, <3>2
    <3>4. /\ Expected(u[j - 1], s[j]) /\ u[j] = After(u[j - 1], s[j])
          /\ s[j].type \in Reply => j = b
      BY <1>7, <3>2
    <3>5. j = b => i = Len(z)
      BY <1>1, <1>3, <3>1, <3>2
    <3> QED
      BY <3>2, <3>3, <3>4, <3>5
  <2> QED
    BY <2>2, <2>3
<1>11. y[0] = v /\ y[Len(z)] = x
  <2>1. 0 \in 0 .. a /\ b \in 0 .. b
    BY <1>1
  <2> QED
    BY <1>3, <1>4, <1>5, <1>9, <2>1
<1>12. ASSUME v.moving # Nil PROVE x.moving = v.moving \/ Closes(z, v.moving)
  <2>1. CASE Closes(q, v.moving)
    <3>1. PICK i \in 1 .. a : q[i].type = "MoveDone" /\ q[i].ptr = v.moving
      BY <2>1 DEF Closes
    <3>2. i \in 1 .. Len(z) /\ z[i] = q[i]
      BY <1>1, <1>3
    <3> QED
      BY <3>1, <3>2 DEF Closes
  <2>2. CASE w.moving = v.moving /\ Closes(s, v.moving)
    <3>1. PICK j \in 1 .. b : s[j].type = "MoveDone" /\ s[j].ptr = v.moving
      BY <2>2 DEF Closes
    <3>2. a + j \in 1 .. Len(z) /\ ~(a + j <= a) /\ (a + j) - a = j
      BY <1>1, <1>3
    <3>3. z[a + j] = s[j]
      BY <1>3, <3>2
    <3> QED
      BY <3>1, <3>2, <3>3 DEF Closes
  <2> QED
    BY <1>12, <2>1, <2>2 DEF Leads
<1>13. y \in [0 .. Len(z) -> Entry]
  BY <1>3, <1>8
<1>14. \A p \in Ptr : LastSaid(z, p, v.table[p], x.table[p])
  BY <1>2, LastJoin DEF Leads
<1>15. Leads(v, z, x)
  BY <1>10, <1>11, <1>12, <1>13, <1>14 DEF Leads
<1> QED
  BY <1>2, <1>15

(* The message at the head is expected, and the rest goes on from there.   *)
LEMMA LeadsTail ==
    ASSUME NEW v \in Entry, NEW w \in Entry, NEW q \in Seq(Message), Leads(v, q, w), q # <<>>
    PROVE  /\ Expected(v, Head(q))
           /\ Leads(After(v, Head(q)), Tail(q), w)
           /\ Head(q).type \in Reply => Tail(q) = <<>> /\ w = v
<1> DEFINE a == Len(q)
<1>1. /\ Head(q) = q[1] /\ Head(q) \in Message /\ Tail(q) \in Seq(Message)
      /\ a \in Nat /\ a >= 1 /\ Len(Tail(q)) = a - 1
      /\ \A i \in 1 .. Len(Tail(q)) : Tail(q)[i] = q[i + 1]
  BY QueueTail
<1>2. PICK t \in [0 .. a -> Entry] : t[0] = v /\ t[a] = w /\ Path(t, q)
  BY DEF Leads
<1>3. \A i \in 1 .. a : /\ Expected(t[i - 1], q[i]) /\ t[i] = After(t[i - 1], q[i])
                        /\ q[i].type \in Reply => i = a
  BY <1>2 DEF Path
<1>4. PICK m \in Message : m = Head(q)
  BY <1>1
<1>5. PICK z \in Seq(Message) : z = Tail(q)
  BY <1>1
<1>6. 1 \in 1 .. a /\ 1 - 1 = 0 /\ q[1] = m
  BY <1>1, <1>4
<1>7. Expected(v, m) /\ t[1] = After(v, m) /\ (m.type \in Reply => a = 1)
  BY <1>2, <1>3, <1>6
<1>8. Len(z) = a - 1 /\ \A i \in 1 .. Len(z) : z[i] = q[i + 1]
  BY <1>1, <1>5
<1> DEFINE u == [i \in 0 .. a - 1 |-> t[i + 1]]
<1>9. u \in [0 .. a - 1 -> Entry]
  BY <1>1
<1>10. \A i \in 0 .. a - 1 : u[i] = t[i + 1]
  OBVIOUS
<1> HIDE DEF u
<1>11. Path(u, z)
  <2> SUFFICES ASSUME NEW i \in 1 .. Len(z)
               PROVE  /\ Expected(u[i - 1], z[i])
                      /\ u[i] = After(u[i - 1], z[i])
                      /\ z[i].type \in Reply => i = Len(z)
    BY DEF Path
  <2>1. PICK j \in 1 .. a : j = i + 1
    BY <1>1, <1>8
  <2>2. i \in 0 .. a - 1 /\ i - 1 \in 0 .. a - 1 /\ (i - 1) + 1 = j - 1 /\ z[i] = q[j]
    BY <1>1, <1>8, <2>1
  <2>3. u[i] = t[j] /\ u[i - 1] = t[j - 1]
    BY <1>10, <2>1, <2>2
  <2>4. j = a => i = Len(z)
    <3>1. i \in Int /\ Len(z) \in Int /\ a \in Int
      BY <1>1, <1>8
    <3> HIDE DEF a
    <3> QED
      BY <1>8, <2>1, <3>1
  <2> QED
    BY <1>3, <2>2, <2>3, <2>4
<1>12. u[0] = After(v, m) /\ u[Len(z)] = w
  <2>1. 0 \in 0 .. a - 1 /\ a - 1 \in 0 .. a - 1 /\ 0 + 1 = 1 /\ (a - 1) + 1 = a
    BY <1>1
  <2>2. u[0] = t[1] /\ u[a - 1] = t[a]
    BY <1>10, <2>1
  <2> QED
    BY <1>2, <1>7, <1>8, <2>2
<1>13. ASSUME After(v, m).moving # Nil
       PROVE  w.moving = After(v, m).moving \/ Closes(z, After(v, m).moving)
  <2>1. m.type # "MoveDone" /\ After(v, m).moving = v.moving
    BY <1>13 DEF After
  <2>2. ASSUME Closes(q, v.moving) PROVE Closes(z, v.moving)
    <3>1. PICK i \in 1 .. a : q[i].type = "MoveDone" /\ q[i].ptr = v.moving
      BY <2>2 DEF Closes
    <3>2. i # 1
      BY <1>6, <2>1, <3>1
    <3>3. i - 1 \in 1 .. Len(z) /\ (i - 1) + 1 = i
      BY <1>1, <1>8, <3>2
    <3>4. z[i - 1] = q[i]
      BY <1>8, <3>3
    <3> QED
      BY <3>1, <3>3, <3>4 DEF Closes
  <2> QED
    BY <1>13, <2>1, <2>2 DEF Leads
<1>14. Leads(After(v, m), z, w)
  <2>1. u \in [0 .. Len(z) -> Entry]
    BY <1>8, <1>9
  <2>2. ASSUME NEW p \in Ptr PROVE LastSaid(z, p, After(v, m).table[p], w.table[p])
    <3>1. LastSaid(z, p, IF Tells(m, p) THEN Said(m) ELSE v.table[p], w.table[p])
      BY <1>4, <1>5, LastTail DEF Leads
    <3>2. v.table \in Holding /\ After(v, m).table = Apply(v.table, m)
      BY DEF Entry, After
    <3>3. After(v, m).table[p] = IF Tells(m, p) THEN Said(m) ELSE v.table[p]
      BY <3>2 DEF Apply, Tells, Holding
    <3> QED
      BY <3>1, <3>3
  <2> QED
    BY <1>11, <1>12, <1>13, <2>1, <2>2 DEF Leads
<1>15. ASSUME m.type \in Reply PROVE z = <<>> /\ w = v
  <2>1. Len(z) = 0 /\ a = 1
    BY <1>7, <1>8, <1>15
  <2>2. z = <<>>
    BY <2>1, EmptySeq
  <2>3. w = After(v, m)
    BY <1>2, <1>7, <2>1
  <2> QED
    BY <1>15, <2>2, <2>3, AfterType
<1> QED
  BY <1>4, <1>5, <1>7, <1>14, <1>15

-----------------------------------------------------------------------------
(* Reports of the clients.                                                 *)

(* A step of client c that leaves each connection as it was, closed by its *)
(* client, or agreeing with the new locals r.                              *)
LEMMA ClientReports ==
    ASSUME Inv, Reports, NEW c \in Client, NEW r \in Process, NEW h \in Holding,
           proc' = [proc EXCEPT ![c] = r], held' = [held EXCEPT ![c] = h],
           UNCHANGED vars,
           Knows(r, h),
           \A f \in Fd : Lives(net'[f]) =>
              \/ f # proc[c].sock /\ net'[f] = net[f]
              \/ Lives(net[f]) /\ net'[f].end # "open" /\ net'[f].queue = net[f].queue
              \/ /\ net'[f].owner = c
                 /\ \E w \in Entry : Leads(Tenant(f), net'[f].queue, w) /\ Agrees(w, net'[f], r, h)
    PROVE  Reports'
<1>1. /\ proc'[c] = r /\ held'[c] = h
      /\ \A d \in Client \ {c} : proc'[d] = proc[d] /\ held'[d] = held[d]
  BY DEF Inv, Types
<1>2. \A d \in Client : Knows(proc'[d], held'[d])
  BY <1>1 DEF Reports
<1>3. tenants' = tenants /\ \A f \in Fd : Tenant(f)' = Tenant(f)
  BY DEF Tenant, vars
<1>4. \A f \in Fd \ tenants' : Tenant(f)' = Blank
  BY <1>3 DEF Reports
<1>5. ASSUME NEW f \in Fd, Lives(net'[f])
      PROVE  \E w \in Entry :
                /\ Leads(Tenant(f), net'[f].queue, w)
                /\ net'[f].end = "open" => Agrees(w, net'[f], proc'[net'[f].owner], held'[net'[f].owner])
  <2>1. CASE f # proc[c].sock /\ net'[f] = net[f]
    <3>1. PICK w \in Entry :
             /\ Leads(Tenant(f), net[f].queue, w)
             /\ net[f].end = "open" => Agrees(w, net[f], proc[net[f].owner], held[net[f].owner])
      BY <1>5, <2>1 DEF Reports
    <3>2. ASSUME net[f].end = "open" PROVE net[f].owner \in Client \ {c}
      BY <2>1, <3>2 DEF Inv, Owned
    <3> QED
      BY <1>1, <2>1, <3>1, <3>2
  <2>2. CASE Lives(net[f]) /\ net'[f].end # "open" /\ net'[f].queue = net[f].queue
    BY <2>2 DEF Reports
  <2>3. CASE /\ net'[f].owner = c
             /\ \E w \in Entry : Leads(Tenant(f), net'[f].queue, w) /\ Agrees(w, net'[f], r, h)
    BY <1>1, <2>3
  <2> QED
    BY <1>5, <2>1, <2>2, <2>3
<1>6. \A f \in Fd : Lives(net'[f]) => \E w \in Entry :
         /\ Leads(Tenant(f)', net'[f].queue, w)
         /\ net'[f].end = "open" => Agrees(w, net'[f], proc'[net'[f].owner], held'[net'[f].owner])
  BY <1>3, <1>5
<1> QED
  BY <1>2, <1>4, <1>6 DEF Reports

(* What the reports say of a client's own connection.                      *)
LEMMA OwnReports ==
    ASSUME Inv, Reports, NEW c \in Client, proc[c].sock # Nil, Lives(net[proc[c].sock])
    PROVE  \E w \in Entry : /\ Leads(Tenant(proc[c].sock), net[proc[c].sock].queue, w)
                            /\ Agrees(w, net[proc[c].sock], proc[c], held[c])
  BY OwnConnection DEF Reports

(* A connection that is not free and whose broker runs is alive.           *)
LEMMA AliveUnlessDead ==
    ASSUME NEW n \in Connection, n.state # "free", n.state # "dead"
    PROVE  Lives(n)
  BY DEF Connection, Lives

(* A step that leaves the connections alone, and the client's view too.    *)
LEMMA LocalReports ==
    ASSUME Inv, Reports, NEW c \in Client, NEW r \in Process, NEW h \in Holding,
           proc' = [proc EXCEPT ![c] = r], held' = [held EXCEPT ![c] = h],
           UNCHANGED <<broker, net>>,
           proc[c].pc \notin {"hello", "wait"},
           Knows(r, h),
           proc[c].sock # Nil => Believed(r, h) = Believed(proc[c], held[c])
    PROVE  Reports'
<1>1. UNCHANGED vars
  BY DEF broker
<1>2. ASSUME NEW f \in Fd, Lives(net'[f]), f = proc[c].sock
      PROVE  /\ net'[f].owner = c
             /\ \E w \in Entry : Leads(Tenant(f), net'[f].queue, w) /\ Agrees(w, net'[f], r, h)
  <2>1. net'[f] = net[f] /\ f # Nil
    BY <1>2, SystemAssumption
  <2>2. net[f].owner = c /\ net[f].reply = <<>>
    BY <1>2, <2>1, OwnConnection DEF Quiet
  <2>3. PICK w \in Entry : Leads(Tenant(f), net[f].queue, w) /\ Agrees(w, net[f], proc[c], held[c])
    BY <1>2, <2>1, OwnReports
  <2>4. Agrees(w, net[f], r, h)
    BY <1>2, <2>1, <2>2, <2>3 DEF Agrees
  <2> QED
    BY <2>1, <2>2, <2>3, <2>4
<1> QED
  BY <1>1, <1>2, ClientReports

(* A connection given up is dead, or what was sent on it stays.            *)
LEMMA HangQueue ==
    ASSUME Inv, NEW c \in Client, NEW f \in Fd, Lives(Hangs(c, net)[f])
    PROVE  \/ f # proc[c].sock /\ Hangs(c, net)[f] = net[f]
           \/ /\ Lives(net[f]) /\ Hangs(c, net)[f].end # "open"
              /\ Hangs(c, net)[f].queue = net[f].queue
<1>1. CASE f # proc[c].sock
  BY <1>1, HangsEffect
<1>2. CASE f = proc[c].sock
  <2>1. f # Nil
    BY SystemAssumption
  <2>2. net[f] \in Connection /\ Socket(net[f]) /\ net[f].end = "open"
    BY <1>2, <2>1, OwnConnection
  <2>3. Hangs(c, net)[f] = Closed(net[f])
    <3>1. net \in [Fd -> Connection]
      BY DEF Inv, Types
    <3>2. Hangs(c, net) = [net EXCEPT ![f] = Closed(net[f])]
      BY <1>2, <2>1 DEF Hangs
    <3> QED
      BY <3>1, <3>2
  <2>4. /\ Closed(net[f]).end # "open"
        /\ Closed(net[f]).state = net[f].state
              \/ (net[f].state = "dead" /\ Closed(net[f]).state = "free")
        /\ net[f].state # "dead" => Closed(net[f]).queue = net[f].queue
    BY <2>2, ClosedConnection
  <2> QED
    BY <2>3, <2>4 DEF Lives
<1> QED
  BY <1>1, <1>2

(* A tenant's entry in the tables is one.                                  *)
LEMMA TenantType ==
    ASSUME Inv, NEW f \in Fd
    PROVE  Tenant(f) \in Entry
<1>1. Typed
  BY DEF Inv, Types
<1>2. hello[f] \in BOOLEAN
  BY <1>1 DEF Typed
<1>3. \A p \in Ptr : chunks[f][p].loc \in Loc \cup {"None"}
  BY <1>1 DEF Typed, Chunk, NoChunk
<1>4. moving[f].ptr \in Ptr \cup {Nil}
  BY <1>1 DEF Typed, Move, NoMove
<1> QED
  BY <1>2, <1>3, <1>4 DEF Tenant, Entry, Holding

(* A step that gives the link up: what was sent on it is still handled.    *)
LEMMA HangReports ==
    ASSUME Inv, Reports, NEW c \in Client, NEW r \in Process, NEW h \in Holding,
           proc' = [proc EXCEPT ![c] = r], held' = [held EXCEPT ![c] = h],
           UNCHANGED vars,
           Knows(r, h),
           net' = Hangs(c, net)
    PROVE  Reports'
<1>1. ASSUME NEW f \in Fd, Lives(net'[f])
      PROVE  \/ f # proc[c].sock /\ net'[f] = net[f]
             \/ Lives(net[f]) /\ net'[f].end # "open" /\ net'[f].queue = net[f].queue
  BY <1>1, HangQueue
<1> QED
  BY <1>1, ClientReports

(* The client's end of the send: it holds the view of what it has sent.    *)
LEMMA SendReports ==
    ASSUME Inv, Reports, NEW c \in Client, NEW ok \in Process, NEW failed \in Process,
           NEW h \in Holding, NEW msgs \in Seq(Message),
           SendAll(c, msgs, ok, failed),
           held' = [held EXCEPT ![c] = h], UNCHANGED broker,
           proc[c].pc \notin {"hello", "wait"},
           msgs = <<>> \/ proc[c].sock # Nil => Knows(ok, h),
           msgs # <<>> /\ proc[c].sock = Nil => Knows(failed, h),
           msgs # <<>> => Knows(Unlinked(failed, "Broken"), h),
           proc[c].sock # Nil => /\ Believed(proc[c], held[c]) \in Entry /\ Believed(ok, h) \in Entry
                                 /\ Leads(Believed(proc[c], held[c]), msgs, Believed(ok, h))
    PROVE  Reports'
<1> DEFINE f == proc[c].sock
<1>1. f # Nil => /\ f \in Fd /\ net[f] \in Connection /\ net[f].end = "open"
                 /\ net[f].owner = c /\ net[f].state # "free" /\ Quiet(net[f])
  BY OwnConnection
<1>2. proc[c].link = "Connected" <=> f # Nil
  BY StateTypes DEF Located
<1>3. UNCHANGED vars
  BY DEF broker
<1>4. CASE /\ msgs = <<>>
           /\ proc' = [proc EXCEPT ![c] = ok]
           /\ UNCHANGED net
  <2>1. f # Nil => Believed(ok, h) = Believed(proc[c], held[c])
    BY <1>4, LeadsNone
  <2> QED
    BY <1>4, <2>1, LocalReports
<1>5. CASE /\ msgs # <<>> /\ proc[c].link # "Connected"
           /\ proc' = [proc EXCEPT ![c] = failed]
           /\ UNCHANGED net
  BY <1>2, <1>5, LocalReports
<1>6. CASE /\ msgs # <<>> /\ proc[c].link = "Connected" /\ net[f].state = "dead"
           /\ proc' = [proc EXCEPT ![c] = Unlinked(failed, "Broken")]
           /\ net' = Hangs(c, net)
  <2>1. Unlinked(failed, "Broken") \in Process
    BY UnlinkedType
  <2> QED
    BY <1>3, <1>6, <2>1, HangReports
<1>7. CASE /\ msgs # <<>> /\ proc[c].link = "Connected" /\ net[f].state # "dead"
           /\ Len(net[f].queue) + Len(msgs) <= Cap
           /\ proc' = [proc EXCEPT ![c] = ok]
           /\ net' = [net EXCEPT ![f].queue = @ \o msgs]
  <2>1. f \in Fd /\ net[f] \in Connection /\ f # Nil /\ Quiet(net[f]) /\ net[f].owner = c
    BY <1>1, <1>2, <1>7
  <2>2. Lives(net[f])
    BY <1>1, <1>2, <1>7, AliveUnlessDead
  <2>3. net \in [Fd -> Connection]
    BY DEF Inv, Types
  <2>4. PICK n : n = [net[f] EXCEPT !.queue = net[f].queue \o msgs]
    OBVIOUS
  <2>5. n.queue = net[f].queue \o msgs /\ n.reply = <<>> /\ n.owner = c
    BY <2>1, <2>4 DEF Connection, Quiet
  <2>6. net'[f] = n /\ \A g \in Fd \ {f} : net'[g] = net[g]
    BY <1>7, <2>1, <2>3, <2>4
  <2>7. PICK w \in Entry : Leads(Tenant(f), net[f].queue, w) /\ Agrees(w, net[f], proc[c], held[c])
    BY <2>1, <2>2, OwnReports
  <2>8. w = Believed(proc[c], held[c])
    BY <2>1, <2>7 DEF Agrees, Quiet
  <2>9. Tenant(f) \in Entry
    BY <2>1, TenantType
  <2>10. net[f].queue \in Seq(Message) /\ \A i \in 1 .. Len(net[f].queue) : net[f].queue[i].type \notin Reply
    BY <2>1 DEF Connection, Quiet
  <2>11. Leads(Tenant(f), n.queue, Believed(ok, h))
    BY <2>1, <2>5, <2>7, <2>8, <2>9, <2>10, LeadsJoin
  <2>12. Agrees(Believed(ok, h), n, ok, h)
    BY <2>5 DEF Agrees
  <2>13. Knows(ok, h) /\ Believed(ok, h) \in Entry
    BY <2>1
  <2>14. ASSUME NEW g \in Fd, Lives(net'[g])
         PROVE  \/ g # proc[c].sock /\ net'[g] = net[g]
                \/ /\ net'[g].owner = c
                   /\ \E x \in Entry : Leads(Tenant(g), net'[g].queue, x) /\ Agrees(x, net'[g], ok, h)
    <3>1. CASE g = f
      BY <2>5, <2>6, <2>11, <2>12, <2>13, <3>1
    <3>2. CASE g # f
      BY <2>6, <3>2
    <3> QED
      BY <3>1, <3>2
  <2> QED
    BY <1>3, <1>7, <2>13, <2>14, ClientReports
<1> QED
  BY <1>4, <1>5, <1>6, <1>7 DEF SendAll

(* The answer that the client waits for settles what it takes its entry to *)
(* be.                                                                     *)
LEMMA ConsumeReports ==
    ASSUME Inv, Reports, NEW c \in Client, NEW r \in Process,
           proc[c].sock # Nil, Arrived(c), Consumed(c),
           proc' = [proc EXCEPT ![c] = r], UNCHANGED <<broker, held>>,
           Knows(r, held[c]),
           Lives(net[proc[c].sock]) =>
              Believed(r, held[c]) = Outcome(proc[c], held[c], net[proc[c].sock].reply[1])
    PROVE  Reports'
<1>1. PICK f \in Fd : f = proc[c].sock
  BY OwnConnection
<1>2. net[f] \in Connection /\ net[f].owner = c /\ net[f].reply # <<>> /\ InOrder(net[f], proc[c])
  BY <1>1, OwnConnection DEF Arrived
<1>3. net[f].reply \in Seq(Answer) /\ net[f].queue \in Seq(Message)
  BY <1>2 DEF Connection
<1>4. Tail(net[f].reply) = <<>>
  BY <1>2, <1>3, ReplyIsLast
<1>5. PICK n : n = [net[f] EXCEPT !.reply = <<>>]
  OBVIOUS
<1>6. /\ n.reply = <<>> /\ n.queue = net[f].queue /\ n.state = net[f].state /\ n.owner = c
  BY <1>2, <1>5 DEF Connection
<1>7. net' = [net EXCEPT ![f] = n]
  BY <1>1, <1>4, <1>5 DEF Consumed
<1>8. net'[f] = n /\ \A g \in Fd \ {f} : net'[g] = net[g]
  BY <1>7 DEF Inv, Types
<1>9. ASSUME Lives(n)
      PROVE  \E w \in Entry : Leads(Tenant(f), n.queue, w) /\ Agrees(w, n, r, held[c])
  <2>1. Lives(net[f])
    BY <1>6, <1>9 DEF Lives
  <2>2. PICK w \in Entry : Leads(Tenant(f), net[f].queue, w) /\ Agrees(w, net[f], proc[c], held[c])
    BY <1>1, <2>1, OwnReports
  <2>3. w = Believed(r, held[c])
    BY <1>1, <1>2, <2>1, <2>2 DEF Agrees
  <2>4. Agrees(w, n, r, held[c])
    BY <1>6, <2>3 DEF Agrees
  <2> QED
    BY <1>6, <2>2, <2>4
<1>10. held' = [held EXCEPT ![c] = held[c]] /\ held[c] \in Holding
  BY HeldSame, StateTypes
<1>11. UNCHANGED vars
  BY DEF broker
<1>12. ASSUME NEW g \in Fd, Lives(net'[g])
       PROVE  \/ g # proc[c].sock /\ net'[g] = net[g]
              \/ /\ net'[g].owner = c
                 /\ \E w \in Entry : Leads(Tenant(g), net'[g].queue, w) /\ Agrees(w, net'[g], r, held[c])
  BY <1>1, <1>6, <1>8, <1>9, <1>12
<1> QED
  BY <1>10, <1>11, <1>12, ClientReports

-----------------------------------------------------------------------------
(* What the clients' steps make of the reports.                            *)

(* A client that is linked and has nothing to be told of or to report.     *)
Linked(h) == [hello |-> TRUE, table |-> h, moving |-> Nil]

(* It is the view of a client outside a hello, a resync and a granted call. *)
LEMMA BelievesWhatItHolds ==
    ASSUME NEW r \in Process, NEW h \in Holding, Located(r, h), r.pc \notin {"hello", "resync"},
           r.pc = "work" /\ r.told => r.op \notin {"create", "move"}
    PROVE  Believed(r, h) = Linked(h) /\ Linked(h) \in Entry
<1>1. r.left = {}
  BY DEF Located
<1>2. [p \in Ptr |-> IF p \in r.left THEN "None" ELSE h[p]] = h
  BY <1>1 DEF Holding
<1>3. Placed(r, h) = h /\ Granted(r) = Nil
  BY <1>2 DEF Placed, Granted
<1>4. Believed(r, h) = Linked(h)
  BY <1>3 DEF Believed, Linked
<1>5. Linked(h) \in Entry
  BY DEF Linked, Entry
<1> QED
  BY <1>4, <1>5

(* What a client knows stays so until it is told or its link is given up.  *)
LEMMA StillKnows ==
    ASSUME NEW r \in Process, NEW s \in Process, NEW h, Knows(r, h),
           s.op = r.op, s.ptr = r.ptr, s.to = r.to, s.told = r.told,
           r.pc \in {"dial", "hello", "resync", "ask", "wait"},
           s.pc \in {"idle", "hello", "resync", "ask", "wait"} \/ (s.pc = "work" /\ s.sock = Nil)
    PROVE  Knows(s, h)
  BY DEF Knows

(* Between calls there is nothing to know.                                 *)
LEMMA IdleKnows ==
    ASSUME NEW r, NEW h, r.pc = "idle"
    PROVE  Knows(r, h)
  BY DEF Knows

(* A call begins: it sends nothing.                                        *)
LEMMA CallReports ==
    ASSUME Inv, Reports, NEW c \in Client,
           NEW op \in {"open", "reconnect", "create", "move", "destroy"},
           NEW p \in Ptr \cup {Nil}, NEW to \in Loc \cup {"None"}, NEW pc \in {"dial", "ask", "work"},
           proc[c].pc \in {"off", "idle"},
           Call(c, op, p, to, pc), UNCHANGED <<broker, net, held>>,
           pc = "dial" => op # "destroy",
           pc = "ask" => op \in {"create", "move"},
           pc = "work" => op = "destroy",
           op \in {"create", "move", "destroy"} => p \in Ptr,
           op = "create" => held[c][p] = "None",
           op = "destroy" => held[c][p] \in Loc,
           op = "move" => to \in Loc \ {held[c][p]} /\ held[c][p] \in Loc
    PROVE  Reports'
<1>1. proc[c] \in Process /\ held[c] \in Holding /\ Located(proc[c], held[c])
  BY StateTypes
<1>2. PICK r : r = [proc[c] EXCEPT !.pc = pc, !.op = op, !.ptr = p, !.to = to, !.told = FALSE]
  OBVIOUS
<1>3. proc' = [proc EXCEPT ![c] = r]
  BY <1>2 DEF Call
<1>4. r \in Process
  BY <1>1, <1>2 DEF Process
<1>5. /\ r.pc = pc /\ r.op = op /\ r.ptr = p /\ r.to = to /\ r.sock = proc[c].sock
      /\ r.link = proc[c].link /\ r.left = proc[c].left /\ r.told = FALSE
  BY <1>1, <1>2 DEF Process
<1>6. Located(r, held[c])
  BY <1>1, <1>5 DEF Located
<1>7. Believed(r, held[c]) = Linked(held[c])
  BY <1>1, <1>4, <1>5, <1>6, BelievesWhatItHolds
<1>8. Believed(proc[c], held[c]) = Linked(held[c])
  BY <1>1, BelievesWhatItHolds
<1>9. Knows(r, held[c])
  BY <1>5 DEF Knows
<1> QED
  BY <1>1, <1>3, <1>4, <1>7, <1>8, <1>9, HeldSame, LocalReports

(* open, connect, create, move and destroy begin.                          *)
LEMMA BeginReports ==
    ASSUME Inv, Reports, NEW c \in Client, Begin(c)
    PROVE  Reports'
<1>1. held[c] \in Holding
  BY StateTypes
<1>2. UNCHANGED <<broker, net, held>>
  BY DEF Begin
<1>3. FirstStep(c) \in {"dial", "ask"}
  BY DEF FirstStep
<1>4. CASE Where(c, "off") /\ Call(c, "open", Nil, "None", "dial")
  BY <1>2, <1>4, CallReports DEF Where
<1>5. CASE Where(c, "idle") /\ Call(c, "reconnect", Nil, "None", "dial")
  BY <1>2, <1>5, CallReports DEF Where
<1>6. ASSUME NEW p \in Ptr, Where(c, "idle"), held[c][p] = "None",
             Call(c, "create", p, "Device", FirstStep(c))
      PROVE  Reports'
  BY <1>2, <1>3, <1>6, CallReports DEF Where, Loc
<1>7. ASSUME NEW p \in Ptr, Where(c, "idle"), held[c][p] # "None",
             Call(c, "destroy", p, "None", "work")
      PROVE  Reports'
  <2>1. held[c][p] \in Loc
    BY <1>1, <1>7 DEF Holding
  <2> QED
    BY <1>2, <1>7, <2>1, CallReports DEF Where
<1>8. ASSUME NEW p \in Ptr, NEW to \in Loc \ {held[c][p]}, held[c][p] # "None",
             Where(c, "idle"), Call(c, "move", p, to, FirstStep(c))
      PROVE  Reports'
  <2>1. held[c][p] \in Loc
    BY <1>1, <1>8 DEF Holding
  <2> QED
    BY <1>2, <1>3, <1>8, <2>1, CallReports DEF Where
<1> QED
  BY <1>4, <1>5, <1>6, <1>7, <1>8 DEF Begin

(* A call goes on without a link.                                          *)
LEMMA UnlinkReports ==
    ASSUME Inv, Reports, NEW c \in Client, NEW pc \in {"idle", "ask", "work"}, NEW l \in {"Local", "Broken"},
           proc[c].pc \in {"dial", "hello", "wait"},
           proc' = [proc EXCEPT ![c] = Unlinked(Goto(c, pc), l)],
           net' = Hangs(c, net), UNCHANGED <<broker, held>>
    PROVE  Reports'
<1>1. proc[c] \in Process /\ held[c] \in Holding /\ Knows(proc[c], held[c])
  BY StateTypes DEF Reports
<1>2. PICK g : g = Goto(c, pc)
  OBVIOUS
<1>3. /\ g \in Process /\ g.pc = pc /\ g.op = proc[c].op /\ g.ptr = proc[c].ptr
      /\ g.to = proc[c].to /\ g.told = proc[c].told
  BY <1>1, <1>2, GotoType
<1>4. PICK r : r = Unlinked(g, l)
  OBVIOUS
<1>5. /\ r \in Process /\ r.pc = pc /\ r.op = proc[c].op /\ r.ptr = proc[c].ptr
      /\ r.to = proc[c].to /\ r.told = proc[c].told /\ r.sock = Nil
  BY <1>3, <1>4, UnlinkedType
<1>6. Knows(r, held[c])
  BY <1>1, <1>5, StillKnows
<1>7. proc' = [proc EXCEPT ![c] = r] /\ held' = [held EXCEPT ![c] = held[c]] /\ UNCHANGED vars
  BY <1>2, <1>4, HeldSame DEF broker
<1> QED
  BY <1>1, <1>5, <1>6, <1>7, HangReports

(* A new connection, with the Hello on it; or none.                        *)
LEMMA DialReports ==
    ASSUME Inv, Reports, NEW c \in Client, Dial(c)
    PROVE  Reports'
<1>1. proc[c] \in Process /\ held[c] \in Holding /\ Located(proc[c], held[c]) /\ Knows(proc[c], held[c])
  BY StateTypes DEF Reports
<1>2. proc[c].pc = "dial"
  BY DEF Dial, Where
<1>3. ASSUME NEW f \in Fd, net[f].state = "free",
             NEW k, k = [state |-> "backlog", end |-> "open", owner |-> c,
                         queue |-> <<Msg("Hello", Nil, "None")>>, reply |-> <<>>],
             net' = [Hangs(c, net) EXCEPT ![f] = k],
             proc' = [proc EXCEPT ![c] = [Goto(c, "hello") EXCEPT !.sock = f, !.link = "Connected"]],
             UNCHANGED vars, UNCHANGED held
      PROVE  Reports'
  <2>1. PICK g : g = Goto(c, "hello")
    OBVIOUS
  <2>2. /\ g \in Process /\ g.pc = "hello" /\ g.op = proc[c].op /\ g.ptr = proc[c].ptr
        /\ g.to = proc[c].to /\ g.told = proc[c].told
    BY <1>1, <2>1, GotoType
  <2>3. PICK r : r = [g EXCEPT !.sock = f, !.link = "Connected"]
    OBVIOUS
  <2>4. r \in Process
    BY <2>2, <2>3 DEF Process
  <2>5. /\ r.pc = g.pc /\ r.op = g.op /\ r.ptr = g.ptr /\ r.to = g.to /\ r.told = g.told
    BY <2>2, <2>3 DEF Process
  <2>6. Knows(r, held[c])
    BY <1>1, <1>2, <2>2, <2>4, <2>5, StillKnows
  <2>7. PICK m : m = Msg("Hello", Nil, "None")
    OBVIOUS
  <2>8. m \in Message /\ m.type = "Hello"
    BY <2>7 DEF Msg, Message, MessageType
  <2>9. Blank \in Entry
    BY DEF Blank, Entry, NoChunks, Holding
  <2>10. Leads(Blank, <<m>>, Blank)
    <3>1. Expected(Blank, m)
      BY <2>8 DEF Expected, Blank
    <3>2. After(Blank, m) = Blank
      BY <2>8, <2>9, AfterType DEF Reply
    <3> QED
      BY <2>8, <2>9, <3>1, <3>2, OneLeads
  <2>11. Believed(r, held[c]) = Blank
    BY <2>2, <2>5 DEF Believed
  <2>12. Tenant(f) = Blank
    <3>1. f \notin tenants
      BY <1>3 DEF Inv, Tables
    <3> QED
      BY <3>1 DEF Reports
  <2>13. /\ k.owner = c /\ k.queue = <<m>> /\ k.reply = <<>>
    BY <1>3, <2>7
  <2>14. Agrees(Blank, k, r, held[c])
    BY <2>11, <2>13 DEF Agrees
  <2>15. net'[f] = k /\ \A x \in Fd \ {f} : net'[x] = Hangs(c, net)[x]
    BY <1>3, HangsEffect
  <2>16. ASSUME NEW x \in Fd, Lives(net'[x])
         PROVE  \/ x # proc[c].sock /\ net'[x] = net[x]
                \/ Lives(net[x]) /\ net'[x].end # "open" /\ net'[x].queue = net[x].queue
                \/ /\ net'[x].owner = c
                   /\ \E w \in Entry : Leads(Tenant(x), net'[x].queue, w) /\ Agrees(w, net'[x], r, held[c])
    <3>1. CASE x = f
      BY <2>9, <2>10, <2>12, <2>13, <2>14, <2>15, <3>1
    <3>2. CASE x # f
      <4>1. net'[x] = Hangs(c, net)[x]
        BY <2>15, <3>2
      <4> QED
        BY <2>16, <4>1, HangQueue
    <3> QED
      BY <3>1, <3>2
  <2>17. proc' = [proc EXCEPT ![c] = r] /\ held' = [held EXCEPT ![c] = held[c]]
    BY <1>3, <2>1, <2>3, HeldSame
  <2> QED
    BY <1>1, <1>3, <2>4, <2>6, <2>16, <2>17, ClientReports
<1>4. CASE up
  <2>1. PICK f \in Fd :
           /\ net[f].state = "free"
           /\ net' = [Hangs(c, net) EXCEPT ![f] =
                         [state |-> "backlog", end |-> "open", owner |-> c,
                          queue |-> <<Msg("Hello", Nil, "None")>>, reply |-> <<>>]]
           /\ proc' = [proc EXCEPT ![c] = [Goto(c, "hello") EXCEPT !.sock = f, !.link = "Connected"]]
    BY <1>4 DEF Dial
  <2>2. UNCHANGED vars /\ UNCHANGED held
    BY DEF Dial
  <2> QED
    BY <1>3, <2>1, <2>2
<1>5. CASE ~up
  <2>1. /\ UNCHANGED <<broker, held>> /\ net' = Hangs(c, net)
        /\ proc' = [proc EXCEPT ![c] = Unlinked(Goto(c, AfterDial(c)),
                                                IF proc[c].op = "open" THEN "Local" ELSE "Broken")]
    BY <1>5 DEF Dial, broker
  <2>2. AfterDial(c) \in {"idle", "ask", "work"}
    BY DEF AfterDial
  <2>3. (IF proc[c].op = "open" THEN "Local" ELSE "Broken") \in {"Local", "Broken"}
    OBVIOUS
  <2> QED
    BY <1>2, <2>1, <2>2, <2>3, UnlinkReports
<1> QED
  BY <1>4, <1>5

(* The answer to the Hello: an empty table, that every chunk is left to be *)
(* reported to.                                                            *)
LEMMA HelloAnsweredReports ==
    ASSUME Inv, Reports, NEW c \in Client, HelloAnswered(c)
    PROVE  Reports'
<1>1. /\ proc[c] \in Process /\ held[c] \in Holding /\ Located(proc[c], held[c])
      /\ Knows(proc[c], held[c]) /\ proc[c].pc = "hello"
  BY StateTypes DEF Reports, HelloAnswered, Where
<1>2. PICK g : g = Goto(c, "resync")
  OBVIOUS
<1>3. /\ g \in Process /\ g.pc = "resync" /\ g.op = proc[c].op /\ g.ptr = proc[c].ptr
      /\ g.to = proc[c].to /\ g.told = proc[c].told
  BY <1>1, <1>2, GotoType
<1>4. PICK r : r = [g EXCEPT !.left = {p \in Ptr : held[c][p] # "None"}]
  OBVIOUS
<1>5. r \in Process
  BY <1>3, <1>4 DEF Process
<1>6. /\ r.pc = "resync" /\ r.op = proc[c].op /\ r.ptr = proc[c].ptr /\ r.to = proc[c].to
      /\ r.told = proc[c].told /\ r.left = {p \in Ptr : held[c][p] # "None"}
  BY <1>3, <1>4 DEF Process
<1>7. Knows(r, held[c])
  BY <1>1, <1>5, <1>6, StillKnows
<1>8. PICK a : a = net[proc[c].sock].reply[1]
  OBVIOUS
<1>9. Believed(r, held[c]) = Outcome(proc[c], held[c], a)
  <2>1. \A p \in Ptr : (IF p \in r.left THEN "None" ELSE held[c][p]) = "None"
    BY <1>6
  <2>2. [p \in Ptr |-> IF p \in r.left THEN "None" ELSE held[c][p]] = NoChunks
    BY <2>1 DEF NoChunks
  <2>3. Placed(r, held[c]) = NoChunks /\ Granted(r) = Nil
    BY <1>6, <2>2 DEF Placed, Granted
  <2>4. Believed(r, held[c]) = [hello |-> TRUE, table |-> NoChunks, moving |-> Nil]
    BY <1>6, <2>3 DEF Believed
  <2> QED
    BY <1>1, <2>4 DEF Outcome
<1>10. proc' = [proc EXCEPT ![c] = r] /\ Arrived(c) /\ Consumed(c) /\ UNCHANGED <<broker, held>>
  BY <1>2, <1>4 DEF HelloAnswered
<1>11. proc[c].sock # Nil
  BY <1>1 DEF Located
<1> QED
  BY <1>5, <1>7, <1>8, <1>9, <1>10, <1>11, ConsumeReports

(* The answer to the Hello is lost.                                        *)
LEMMA HelloLostReports ==
    ASSUME Inv, Reports, NEW c \in Client, HelloLost(c)
    PROVE  Reports'
<1>1. proc[c].pc = "hello" /\ net' = Hangs(c, net) /\ UNCHANGED <<broker, held>>
  BY DEF HelloLost, Where
<1>2. CASE proc[c].op = "open"
  <2>1. Off \in Process /\ held[c] \in Holding /\ Knows(Off, held[c])
    BY StateTypes DEF Off, Process, Knows
  <2>2. proc' = [proc EXCEPT ![c] = Off] /\ held' = [held EXCEPT ![c] = held[c]] /\ UNCHANGED vars
    BY <1>1, <1>2, HeldSame DEF HelloLost, broker
  <2> QED
    BY <1>1, <2>1, <2>2, HangReports
<1>3. CASE proc[c].op # "open"
  <2>1. AfterDial(c) \in {"idle", "ask", "work"}
    BY DEF AfterDial
  <2> QED
    BY <1>1, <1>3, <2>1, UnlinkReports DEF HelloLost
<1> QED
  BY <1>2, <1>3

(* The answer to a request is lost.                                        *)
LEMMA AnswerLostReports ==
    ASSUME Inv, Reports, NEW c \in Client, AnswerLost(c)
    PROVE  Reports'
  BY UnlinkReports DEF AnswerLost, Where

(* One chunk is reported: the broker has it nowhere yet.                   *)
LEMMA ResyncChunkReports ==
    ASSUME Inv, Reports, NEW c \in Client, ResyncChunk(c)
    PROVE  Reports'
<1>1. /\ proc[c] \in Process /\ held[c] \in Holding /\ Located(proc[c], held[c])
      /\ Knows(proc[c], held[c]) /\ proc[c].pc = "resync"
  BY StateTypes DEF Reports, ResyncChunk, Where
<1>2. PICK h \in Holding : h = held[c]
  BY <1>1
<1>3. PICK p \in proc[c].left :
         SendAll(c, <<Msg("Resync", p, h[p])>>,
                 [proc[c] EXCEPT !.left = @ \ {p}],
                 [Goto(c, AfterDial(c)) EXCEPT !.left = {}])
  BY <1>2 DEF ResyncChunk
<1>4. p \in Ptr /\ h[p] \in Loc
  BY <1>1, <1>2 DEF Located, Process
<1>5. PICK ok : ok = [proc[c] EXCEPT !.left = @ \ {p}]
  OBVIOUS
<1>6. /\ ok \in Process /\ ok.pc = "resync" /\ ok.left = proc[c].left \ {p}
      /\ ok.op = proc[c].op /\ ok.ptr = proc[c].ptr /\ ok.to = proc[c].to /\ ok.told = proc[c].told
  BY <1>1, <1>5 DEF Process
<1>7. PICK g : g = Goto(c, AfterDial(c))
  OBVIOUS
<1>8. AfterDial(c) \in {"idle", "ask"}
  BY DEF AfterDial
<1>9. /\ g \in Process /\ g.pc \in {"idle", "ask"} /\ g.op = proc[c].op /\ g.ptr = proc[c].ptr
      /\ g.to = proc[c].to /\ g.told = proc[c].told
  BY <1>1, <1>7, <1>8, GotoType
<1>10. PICK failed : failed = [g EXCEPT !.left = {}]
  OBVIOUS
<1>11. failed \in Process
  BY <1>9, <1>10 DEF Process
<1>12. /\ failed.pc = g.pc /\ failed.op = g.op /\ failed.ptr = g.ptr
       /\ failed.to = g.to /\ failed.told = g.told
  BY <1>9, <1>10 DEF Process
<1>13. PICK broken : broken = Unlinked(failed, "Broken")
  OBVIOUS
<1>14. /\ broken \in Process /\ broken.pc = failed.pc /\ broken.op = failed.op
       /\ broken.ptr = failed.ptr /\ broken.to = failed.to /\ broken.told = failed.told
  BY <1>11, <1>13, UnlinkedType
<1>15. Knows(ok, h) /\ Knows(failed, h) /\ Knows(broken, h)
  BY <1>1, <1>2, <1>6, <1>9, <1>11, <1>12, <1>14, StillKnows
<1>16. PICK m : m = Msg("Resync", p, h[p])
  OBVIOUS
<1>17. m \in Message /\ m.type = "Resync" /\ m.ptr = p /\ m.loc = h[p]
  <2>1. Msg("Resync", p, h[p]) \in Message
    BY <1>4, MessageTypes
  <2> QED
    BY <1>16, <2>1 DEF Msg
<1>18. PICK v : v = Believed(proc[c], h)
  OBVIOUS
<1>19. PICK w : w = Believed(ok, h)
  OBVIOUS
<1>20. PICK t : t = [x \in Ptr |-> IF x \in proc[c].left THEN "None" ELSE h[x]]
  OBVIOUS
<1>21. PICK u : u = [x \in Ptr |-> IF x \in ok.left THEN "None" ELSE h[x]]
  OBVIOUS
<1>22. t \in Holding /\ u \in Holding /\ t[p] = "None" /\ u = [t EXCEPT ![p] = h[p]]
  <2>1. t \in Holding /\ u \in Holding
    BY <1>20, <1>21 DEF Holding
  <2>2. t[p] = "None" /\ u[p] = h[p]
    BY <1>4, <1>6, <1>20, <1>21
  <2>3. \A x \in Ptr : x # p => u[x] = t[x]
    BY <1>6, <1>20, <1>21
  <2> QED
    BY <1>20, <1>21, <2>1, <2>2, <2>3
<1>23. v = Linked(t) /\ w = Linked(u)
  BY <1>1, <1>6, <1>18, <1>19, <1>20, <1>21 DEF Believed, Placed, Granted, Linked
<1>24. v \in Entry /\ w \in Entry
  BY <1>22, <1>23 DEF Linked, Entry
<1>25. Expected(v, m)
  BY <1>17, <1>22, <1>23 DEF Expected, Linked
<1>26. After(v, m) = w
  BY <1>17, <1>22, <1>23 DEF After, Apply, Said, Linked, Reply
<1>27. Leads(v, <<m>>, w)
  BY <1>17, <1>24, <1>25, <1>26, OneLeads
<1>28. <<m>> \in Seq(Message) /\ <<m>> # <<>>
  BY <1>17
<1>29. SendAll(c, <<m>>, ok, failed)
  BY <1>3, <1>5, <1>7, <1>10, <1>16
<1>30. held' = [held EXCEPT ![c] = h] /\ UNCHANGED broker
  BY <1>2, HeldSame DEF ResyncChunk
<1> QED
  BY <1>1, <1>2, <1>6, <1>11, <1>13, <1>15, <1>18, <1>19, <1>24, <1>27, <1>28, <1>29, <1>30, SendReports

(* Every chunk is reported: the broker has what the client holds.          *)
LEMMA ResyncedReports ==
    ASSUME Inv, Reports, NEW c \in Client, Resynced(c)
    PROVE  Reports'
<1>1. /\ proc[c] \in Process /\ held[c] \in Holding /\ Located(proc[c], held[c])
      /\ Knows(proc[c], held[c]) /\ proc[c].pc = "resync" /\ proc[c].left = {}
  BY StateTypes DEF Reports, Resynced, Where
<1>2. PICK r : r = Goto(c, AfterDial(c))
  OBVIOUS
<1>3. AfterDial(c) \in {"idle", "ask"}
  BY DEF AfterDial
<1>4. /\ r \in Process /\ r.pc \in {"idle", "ask"} /\ r.op = proc[c].op /\ r.ptr = proc[c].ptr
      /\ r.to = proc[c].to /\ r.told = proc[c].told /\ r.left = {}
  BY <1>1, <1>2, <1>3, GotoType
<1>5. Knows(r, held[c])
  BY <1>1, <1>4, StillKnows
<1>6. Believed(r, held[c]) = Believed(proc[c], held[c])
  BY <1>1, <1>4 DEF Believed, Placed, Granted
<1>7. proc' = [proc EXCEPT ![c] = r] /\ UNCHANGED <<broker, net>> /\ held' = [held EXCEPT ![c] = held[c]]
  BY <1>2, HeldSame DEF Resynced
<1> QED
  BY <1>1, <1>4, <1>5, <1>6, <1>7, LocalReports

(* A request changes nothing by itself.                                    *)
LEMMA AskReports ==
    ASSUME Inv, Reports, NEW c \in Client, Ask(c)
    PROVE  Reports'
<1>1. /\ proc[c] \in Process /\ held[c] \in Holding /\ Located(proc[c], held[c])
      /\ Knows(proc[c], held[c]) /\ proc[c].pc = "ask"
  BY StateTypes DEF Reports, Ask, Where
<1>2. proc[c].ptr \in Ptr /\ proc[c].op \in {"create", "move"}
  BY <1>1 DEF Located
<1>3. PICK m : m = IF proc[c].op = "create" THEN Msg("Alloc", proc[c].ptr, "None")
                   ELSE Msg("Move", proc[c].ptr, proc[c].to)
  OBVIOUS
<1>4. m \in Message /\ m.ptr = proc[c].ptr
  BY <1>1, <1>2, <1>3, MessageTypes DEF Located, Msg
<1>5. \/ proc[c].op = "create" /\ m.type = "Alloc"
      \/ proc[c].op = "move" /\ m.type = "Move" /\ m.loc = proc[c].to
  BY <1>2, <1>3 DEF Msg
<1>6. PICK ok : ok = Goto(c, "wait")
  OBVIOUS
<1>7. PICK failed : failed = Goto(c, "work")
  OBVIOUS
<1>8. /\ ok \in Process /\ ok.pc = "wait" /\ ok.op = proc[c].op /\ ok.ptr = proc[c].ptr
      /\ ok.to = proc[c].to /\ ok.told = proc[c].told /\ ok.sock = proc[c].sock
      /\ ok.link = proc[c].link /\ ok.left = proc[c].left
  BY <1>1, <1>6, GotoType
<1>9. /\ failed \in Process /\ failed.pc = "work" /\ failed.op = proc[c].op
      /\ failed.ptr = proc[c].ptr /\ failed.to = proc[c].to /\ failed.told = proc[c].told
      /\ failed.sock = proc[c].sock
  BY <1>1, <1>7, GotoType
<1>10. PICK broken : broken = Unlinked(failed, "Broken")
  OBVIOUS
<1>11. /\ broken \in Process /\ broken.pc = "work" /\ broken.op = proc[c].op
       /\ broken.ptr = proc[c].ptr /\ broken.to = proc[c].to /\ broken.told = proc[c].told
       /\ broken.sock = Nil
  BY <1>9, <1>10, UnlinkedType
<1>12. Knows(ok, held[c]) /\ (proc[c].sock = Nil => Knows(failed, held[c])) /\ Knows(broken, held[c])
  BY <1>1, <1>8, <1>9, <1>11, StillKnows
<1>13. proc[c].sock # Nil => Located(ok, held[c])
  BY <1>1, <1>8 DEF Located
<1>14. PICK v : v = Linked(held[c])
  OBVIOUS
<1>15. Believed(proc[c], held[c]) = v /\ v \in Entry
  BY <1>1, <1>14, BelievesWhatItHolds
<1>16. proc[c].sock # Nil => Believed(ok, held[c]) = v
  BY <1>1, <1>8, <1>13, <1>14, BelievesWhatItHolds
<1>17. Expected(v, m)
  BY <1>1, <1>2, <1>4, <1>5, <1>14 DEF Expected, Linked, Knows, Located
<1>18. After(v, m) = v
  BY <1>4, <1>5, <1>15, AfterType DEF Reply
<1>19. Leads(v, <<m>>, v)
  BY <1>4, <1>15, <1>17, <1>18, OneLeads
<1>20. <<m>> \in Seq(Message) /\ <<m>> # <<>>
  BY <1>4
<1>21. SendAll(c, <<m>>, ok, failed)
  BY <1>3, <1>6, <1>7 DEF Ask
<1>22. held' = [held EXCEPT ![c] = held[c]] /\ UNCHANGED broker
  BY HeldSame DEF Ask
<1> QED
  BY <1>1, <1>8, <1>9, <1>10, <1>12, <1>15, <1>16, <1>19, <1>20, <1>21, <1>22, SendReports

(* The answer to a request: what the broker has recorded, the client goes  *)
(* by.                                                                     *)
LEMMA AnsweredReports ==
    ASSUME Inv, Reports, NEW c \in Client, Answered(c)
    PROVE  Reports'
<1>1. /\ proc[c] \in Process /\ held[c] \in Holding /\ Located(proc[c], held[c])
      /\ Knows(proc[c], held[c]) /\ proc[c].pc = "wait" /\ proc[c].sock # Nil
      /\ proc[c].op \in {"create", "move"} /\ proc[c].ptr \in Ptr /\ proc[c].left = {}
  BY StateTypes DEF Reports, Answered, Where, Located
<1>2. PICK n \in Connection : n = net[proc[c].sock]
  BY <1>1, OwnConnection
<1>3. n.reply \in Seq(Answer) /\ n.reply # <<>> /\ InOrder(n, proc[c])
  BY <1>1, <1>2, OwnConnection DEF Connection, Answered, Arrived
<1>4. PICK a : a = n.reply[1]
  OBVIOUS
<1>5. a = Head(n.reply) /\ a \in Answer /\ Awaits(proc[c], a)
  BY <1>3, <1>4 DEF InOrder
<1>6. PICK h \in Holding : h = held[c]
  BY <1>1
<1>7. /\ Arrived(c) /\ Consumed(c) /\ UNCHANGED <<broker, held>>
  BY DEF Answered
<1>8. [p \in Ptr |-> h[p]] = h
  BY DEF Holding
<1>9. CASE a.status # "Ok"
  <2>1. PICK r : r = Goto(c, "idle")
    OBVIOUS
  <2>2. proc' = [proc EXCEPT ![c] = r]
    BY <1>2, <1>5, <1>9, <2>1 DEF Answered
  <2>3. r \in Process /\ r.pc = "idle" /\ r.left = {}
    BY <1>1, <2>1, GotoType
  <2>4. Believed(r, h) = [hello |-> TRUE, table |-> h, moving |-> Nil]
    <3>1. [p \in Ptr |-> IF p \in r.left THEN "None" ELSE h[p]] = h
      BY <1>8, <2>3
    <3>2. Placed(r, h) = h /\ Granted(r) = Nil
      BY <2>3, <3>1 DEF Placed, Granted
    <3> QED
      BY <2>3, <3>2 DEF Believed
  <2>5. Outcome(proc[c], h, a) = [hello |-> TRUE, table |-> h, moving |-> Nil]
    BY <1>1, <1>9 DEF Outcome
  <2>6. Knows(r, h)
    BY <2>3, IdleKnows
  <2> QED
    BY <1>1, <1>2, <1>4, <1>6, <1>7, <2>2, <2>3, <2>4, <2>5, <2>6, ConsumeReports
<1>10. CASE a.status = "Ok"
  <2>1. PICK g : g = Goto(c, "work")
    OBVIOUS
  <2>2. /\ g \in Process /\ g.pc = "work" /\ g.op = proc[c].op /\ g.ptr = proc[c].ptr
        /\ g.to = proc[c].to /\ g.left = {}
    BY <1>1, <2>1, GotoType
  <2>3. PICK to : to = IF proc[c].op = "create" THEN a.loc ELSE g.to
    OBVIOUS
  <2>4. to \in Loc \cup {"None"}
    BY <1>5, <2>2, <2>3 DEF Answer, Process
  <2>5. PICK r : r = [g EXCEPT !.told = TRUE, !.to = to]
    OBVIOUS
  <2>6. proc' = [proc EXCEPT ![c] = r]
    BY <1>2, <1>5, <1>10, <2>1, <2>3, <2>5 DEF Answered
  <2>7. r \in Process
    BY <2>2, <2>4, <2>5 DEF Process
  <2>8. /\ r.pc = "work" /\ r.op = proc[c].op /\ r.ptr = proc[c].ptr /\ r.to = to
        /\ r.told /\ r.left = {}
    BY <2>2, <2>5 DEF Process
  <2>9. Believed(r, h) = Outcome(proc[c], h, a)
    <3>1. CASE proc[c].op = "create"
      <4>1. Placed(r, h) = [h EXCEPT ![r.ptr] = a.loc] /\ Granted(r) = Nil
        BY <2>3, <2>8, <3>1 DEF Placed, Granted
      <4> QED
        BY <1>1, <1>10, <2>8, <3>1, <4>1 DEF Believed, Outcome
    <3>2. CASE proc[c].op = "move"
      <4>1. [p \in Ptr |-> IF p \in r.left THEN "None" ELSE h[p]] = h
        BY <1>8, <2>8
      <4>2. Placed(r, h) = h /\ Granted(r) = proc[c].ptr
        BY <2>8, <3>2, <4>1 DEF Placed, Granted
      <4> QED
        BY <1>1, <1>10, <2>8, <3>2, <4>2 DEF Believed, Outcome
    <3> QED
      BY <1>1, <3>1, <3>2
  <2>10. Knows(r, h)
    <3>1. proc[c].op = "create" => a.type = "Alloc"
      BY <1>1, <1>5 DEF Awaits
    <3>2. proc[c].op = "create" => a.loc \in Loc
      BY <1>5, <1>10, <3>1 DEF Answer
    <3> QED
      BY <1>1, <1>6, <2>3, <2>8, <3>2 DEF Knows
  <2> QED
    BY <1>1, <1>2, <1>4, <1>6, <1>7, <2>6, <2>7, <2>9, <2>10, ConsumeReports
<1> QED
  BY <1>9, <1>10

(* The end of a call: its reports lead from what the client was granted to *)
(* what it has made of it.                                                 *)
LEMMA FinishReports ==
    ASSUME Inv, Reports, NEW c \in Client, NEW loc \in Loc \cup {"None"}, NEW msgs \in Seq(Message),
           proc[c].pc = "work", proc[c].ptr \in Ptr,
           Finish(c, loc, msgs),
           proc[c].sock # Nil =>
              /\ Believed(proc[c], held[c]) \in Entry
              /\ Leads(Believed(proc[c], held[c]), msgs, Linked([held[c] EXCEPT ![proc[c].ptr] = loc]))
    PROVE  Reports'
<1>1. proc[c] \in Process /\ held[c] \in Holding /\ Located(proc[c], held[c])
  BY StateTypes
<1>2. PICK h : h = [held[c] EXCEPT ![proc[c].ptr] = loc]
  OBVIOUS
<1>3. h \in Holding
  BY <1>1, <1>2 DEF Holding
<1>4. held' = [held EXCEPT ![c] = h]
  BY <1>2 DEF Finish
<1>5. PICK r : r = Goto(c, "idle")
  OBVIOUS
<1>6. /\ r \in Process /\ r.pc = "idle"
      /\ r.op = proc[c].op /\ r.ptr = proc[c].ptr /\ r.to = proc[c].to
      /\ r.sock = proc[c].sock /\ r.link = proc[c].link /\ r.left = proc[c].left
  BY <1>1, <1>5, GotoType
<1>7. Located(r, h)
  BY <1>1, <1>6 DEF Located
<1>8. Believed(r, h) = Linked(h) /\ Linked(h) \in Entry
  BY <1>3, <1>6, <1>7, BelievesWhatItHolds
<1>9. Unlinked(r, "Broken").pc = "idle"
  BY <1>6, UnlinkedType
<1>10. Knows(r, h) /\ Knows(Unlinked(r, "Broken"), h)
  BY <1>6, <1>9, IdleKnows
<1>11. SendAll(c, msgs, r, r) /\ UNCHANGED broker
  BY <1>5 DEF Finish
<1>12. proc[c].sock # Nil => /\ Believed(proc[c], held[c]) \in Entry
                             /\ Leads(Believed(proc[c], held[c]), msgs, Believed(r, h))
  BY <1>2, <1>8
<1> QED
  BY <1>3, <1>4, <1>6, <1>8, <1>10, <1>11, <1>12, SendReports

(* What one report makes of a client's view of its chunks.                 *)
LEMMA ReportOne ==
    ASSUME NEW v \in Entry, NEW m \in Message, m.type \notin Reply, Expected(v, m),
           NEW w, w = Linked([v.table EXCEPT ![m.ptr] = Said(m)]),
           m.type # "MoveDone" => v.moving = Nil
    PROVE  Leads(v, <<m>>, w) /\ w \in Entry
<1>1. After(v, m) = w
  BY DEF After, Apply, Expected, Linked, Reply
<1> QED
  BY <1>1, AfterType, OneLeads

(* The reports of a call, and what each of them says.                      *)
LEMMA ReportKinds ==
    ASSUME NEW p \in Ptr
    PROVE  /\ \A l \in Loc : LET m == Msg("MoveDone", p, l)
                             IN  m \in Message /\ m.type = "MoveDone" /\ m.ptr = p /\ Said(m) = l
           /\ LET m == Msg("AllocFail", p, "None")
              IN  m \in Message /\ m.type = "AllocFail" /\ m.ptr = p /\ Said(m) = "Host"
           /\ LET m == Msg("Free", p, "None")
              IN  m \in Message /\ m.type = "Free" /\ m.ptr = p /\ Said(m) = "None"
  BY MessageTypes DEF Msg, Said

(* Two reports, one after the other.                                       *)
LEMMA TwoReports ==
    ASSUME NEW a \in Message, NEW b \in Message
    PROVE  <<a>> \o <<b>> = <<a, b>>
<1>1. PICK s : s = <<a>> \o <<b>>
  OBVIOUS
<1>2. PICK t : t = <<a, b>>
  OBVIOUS
<1>3. s \in Seq(Message) /\ Len(s) = 2 /\ s[1] = a /\ s[2] = b
  <2>1. <<a>> \in Seq(Message) /\ <<b>> \in Seq(Message) /\ Len(<<a>>) = 1 /\ Len(<<b>>) = 1
    OBVIOUS
  <2> QED
    BY <1>1, <2>1, ConcatProperties
<1>4. t \in Seq(Message) /\ Len(t) = 2 /\ t[1] = a /\ t[2] = b
  BY <1>2
<1>5. \A i \in 1 .. 2 : s[i] = t[i]
  BY <1>3, <1>4
<1> QED
  BY <1>1, <1>2, <1>3, <1>4, <1>5, SeqEqual

(* create: as placed, on the host instead, or not at all.                  *)
LEMMA CreateReports ==
    ASSUME Inv, Reports, NEW c \in Client, Create(c)
    PROVE  Reports'
<1>1. /\ proc[c] \in Process /\ held[c] \in Holding /\ Located(proc[c], held[c])
      /\ Knows(proc[c], held[c]) /\ proc[c].pc = "work" /\ proc[c].op = "create"
  BY StateTypes DEF Reports, Create, Where
<1>2. PICK p \in Ptr : p = proc[c].ptr
  BY <1>1 DEF Located
<1>3. PICK h \in Holding : h = held[c]
  BY <1>1
<1>4. PICK to : to = proc[c].to
  OBVIOUS
<1>5. to \in Loc \cup {"None"} /\ h[p] = "None"
  BY <1>1, <1>2, <1>3, <1>4 DEF Process, Knows
<1>6. PICK v : v = Believed(proc[c], held[c])
  OBVIOUS
<1>7. ASSUME proc[c].sock # Nil
      PROVE  /\ proc[c].told /\ to \in Loc
             /\ v = Linked([h EXCEPT ![p] = to]) /\ v \in Entry
             /\ v.table = [h EXCEPT ![p] = to] /\ v.table[p] = to /\ v.moving = Nil /\ v.hello
  <2>1. proc[c].told /\ to \in Loc
    BY <1>1, <1>4, <1>7 DEF Knows
  <2>2. Placed(proc[c], held[c]) = [h EXCEPT ![p] = to] /\ Granted(proc[c]) = Nil
    BY <1>1, <1>2, <1>3, <1>4, <2>1 DEF Placed, Granted
  <2>3. v = Linked([h EXCEPT ![p] = to])
    BY <1>1, <1>6, <2>2 DEF Believed, Linked
  <2>4. PICK t \in Holding : t = [h EXCEPT ![p] = to]
    BY <2>1 DEF Holding
  <2>5. v \in Entry /\ v.table = t /\ v.moving = Nil /\ v.hello
    BY <2>3, <2>4 DEF Linked, Entry
  <2>6. t[p] = to
    BY <2>4 DEF Holding
  <2> QED
    BY <2>1, <2>3, <2>4, <2>5, <2>6
<1>8. \A l : [[h EXCEPT ![p] = to] EXCEPT ![p] = l] = [h EXCEPT ![p] = l]
  BY DEF Holding
<1>9. PICK fail \in Message : fail = Msg("AllocFail", p, "None")
  BY ReportKinds
<1>10. PICK free \in Message : free = Msg("Free", p, "None")
  BY ReportKinds
<1>11. /\ fail.type = "AllocFail" /\ fail.ptr = p /\ Said(fail) = "Host"
       /\ free.type = "Free" /\ free.ptr = p /\ Said(free) = "None"
  BY <1>9, <1>10, ReportKinds
<1>12. /\ <<>> \in Seq(Message) /\ <<fail>> \in Seq(Message) /\ <<free>> \in Seq(Message)
       /\ <<fail, free>> \in Seq(Message)
  OBVIOUS
<1>13. \A s : s \in Seq(Message) => /\ Told(c, s) \in Seq(Message)
                                    /\ proc[c].sock # Nil => Told(c, s) = s
  BY <1>7 DEF Told
<1>14. "Host" \in Loc
  BY DEF Loc
<1>15. Nil # p
  BY VmemdAssumption
<1>16. CASE Finish(c, to, <<>>)
  <2>1. proc[c].sock # Nil => v \in Entry /\ Leads(v, <<>>, Linked([h EXCEPT ![p] = to]))
    BY <1>7, NoneLeads
  <2> QED
    BY <1>1, <1>2, <1>3, <1>5, <1>6, <1>12, <1>16, <2>1, FinishReports
<1>17. CASE Finish(c, "None", Told(c, <<free>>))
  <2>1. ASSUME proc[c].sock # Nil
        PROVE  v \in Entry /\ Leads(v, <<free>>, Linked([h EXCEPT ![p] = "None"]))
    <3>1. Expected(v, free)
      BY <1>7, <1>11, <1>15, <2>1 DEF Expected
    <3>2. Linked([h EXCEPT ![p] = "None"]) = Linked([v.table EXCEPT ![free.ptr] = Said(free)])
      BY <1>7, <1>8, <1>11, <2>1
    <3> QED
      BY <1>7, <1>11, <2>1, <3>1, <3>2, ReportOne DEF Reply
  <2> QED
    BY <1>1, <1>2, <1>3, <1>6, <1>12, <1>13, <1>17, <2>1, FinishReports
<1>18. CASE to = "Device" /\ Finish(c, "Host", Told(c, <<fail>>))
  <2>1. ASSUME proc[c].sock # Nil
        PROVE  v \in Entry /\ Leads(v, <<fail>>, Linked([h EXCEPT ![p] = "Host"]))
    <3>1. Expected(v, fail)
      BY <1>7, <1>11, <1>18, <2>1 DEF Expected
    <3>2. Linked([h EXCEPT ![p] = "Host"]) = Linked([v.table EXCEPT ![fail.ptr] = Said(fail)])
      BY <1>7, <1>8, <1>11, <2>1
    <3> QED
      BY <1>7, <1>11, <2>1, <3>1, <3>2, ReportOne DEF Reply
  <2> QED
    BY <1>1, <1>2, <1>3, <1>6, <1>12, <1>13, <1>14, <1>18, <2>1, FinishReports
<1>19. CASE to = "Device" /\ Finish(c, "None", Told(c, <<fail, free>>))
  <2>1. ASSUME proc[c].sock # Nil
        PROVE  v \in Entry /\ Leads(v, <<fail, free>>, Linked([h EXCEPT ![p] = "None"]))
    <3>1. PICK g \in Holding : g = [h EXCEPT ![p] = "Host"]
      BY <1>14 DEF Holding
    <3>2. PICK w : w = Linked(g)
      OBVIOUS
    <3>3. /\ w.hello /\ w.table = g /\ w.moving = Nil /\ g[p] = "Host"
          /\ [g EXCEPT ![p] = "None"] = [h EXCEPT ![p] = "None"]
      BY <3>1, <3>2 DEF Linked, Holding
    <3>4. Expected(v, fail)
      BY <1>7, <1>11, <1>19, <2>1 DEF Expected
    <3>5. w = Linked([v.table EXCEPT ![fail.ptr] = Said(fail)])
      BY <1>7, <1>8, <1>11, <2>1, <3>1, <3>2
    <3>6. Leads(v, <<fail>>, w) /\ w \in Entry
      BY <1>7, <1>11, <2>1, <3>4, <3>5, ReportOne DEF Reply
    <3>7. Expected(w, free)
      BY <1>11, <1>14, <1>15, <3>3 DEF Expected
    <3>8. PICK x : x = Linked([h EXCEPT ![p] = "None"])
      OBVIOUS
    <3>9. Leads(w, <<free>>, x) /\ x \in Entry
      BY <1>11, <3>3, <3>6, <3>7, <3>8, ReportOne DEF Reply
    <3>10. \A i \in 1 .. Len(<<fail>>) : <<fail>>[i].type \notin Reply
      BY <1>11 DEF Reply
    <3>11. <<fail>> \o <<free>> = <<fail, free>>
      BY TwoReports
    <3>12. Leads(v, <<fail>> \o <<free>>, x)
      BY <1>7, <1>12, <2>1, <3>6, <3>9, <3>10, LeadsJoin
    <3> QED
      BY <1>7, <2>1, <3>8, <3>11, <3>12
  <2> QED
    BY <1>1, <1>2, <1>3, <1>6, <1>12, <1>13, <1>19, <2>1, FinishReports
<1> QED
  BY <1>2, <1>4, <1>9, <1>10, <1>16, <1>17, <1>18, <1>19 DEF Create

(* swap: at the target, or where it was; the grant is over.                *)
LEMMA SwapReports ==
    ASSUME Inv, Reports, NEW c \in Client, Swap(c)
    PROVE  Reports'
<1>1. /\ proc[c] \in Process /\ held[c] \in Holding /\ Located(proc[c], held[c])
      /\ Knows(proc[c], held[c]) /\ proc[c].pc = "work" /\ proc[c].op = "move"
      /\ proc[c].left = {}
  BY StateTypes DEF Reports, Swap, Where, Located
<1>2. PICK p \in Ptr : p = proc[c].ptr
  BY <1>1 DEF Located
<1>3. PICK h \in Holding : h = held[c]
  BY <1>1
<1>4. h[p] \in Loc /\ proc[c].to \in Loc
  BY <1>1, <1>2, <1>3 DEF Located
<1>5. PICK at \in {proc[c].to, h[p]} : Finish(c, at, Told(c, <<Msg("MoveDone", p, at)>>))
  BY <1>2, <1>3 DEF Swap
<1>6. at \in Loc
  BY <1>4
<1>7. PICK m \in Message : m = Msg("MoveDone", p, at)
  BY <1>6, ReportKinds
<1>8. m.type = "MoveDone" /\ m.ptr = p /\ Said(m) = at
  BY <1>6, <1>7, ReportKinds
<1>9. Told(c, <<m>>) \in Seq(Message)
  BY DEF Told
<1>10. ASSUME proc[c].sock # Nil
       PROVE  /\ Believed(proc[c], held[c]) \in Entry
              /\ Leads(Believed(proc[c], held[c]), Told(c, <<m>>), Linked([h EXCEPT ![p] = at]))
  <2>1. proc[c].told
    BY <1>1, <1>10 DEF Knows
  <2>2. [x \in Ptr |-> IF x \in proc[c].left THEN "None" ELSE h[x]] = h
    BY <1>1 DEF Holding
  <2>3. Placed(proc[c], held[c]) = h /\ Granted(proc[c]) = p
    BY <1>1, <1>2, <1>3, <2>1, <2>2 DEF Placed, Granted
  <2>4. PICK v : v = [hello |-> TRUE, table |-> h, moving |-> p]
    OBVIOUS
  <2>5. v \in Entry /\ v.hello /\ v.table = h /\ v.moving = p
    BY <2>4 DEF Entry
  <2>6. Believed(proc[c], held[c]) = v
    BY <1>1, <2>3, <2>4 DEF Believed
  <2>7. Expected(v, m)
    BY <1>4, <1>8, <2>5 DEF Expected
  <2>8. PICK w : w = Linked([h EXCEPT ![p] = at])
    OBVIOUS
  <2>9. Leads(v, <<m>>, w)
    BY <1>8, <2>5, <2>7, <2>8, ReportOne DEF Reply
  <2>10. Told(c, <<m>>) = <<m>>
    BY <2>1 DEF Told
  <2> QED
    BY <2>5, <2>6, <2>8, <2>9, <2>10
<1> QED
  BY <1>1, <1>2, <1>3, <1>5, <1>6, <1>7, <1>9, <1>10, FinishReports

(* destroy: the chunk is gone and freed, or stays and nothing is sent.     *)
LEMMA DestroyReports ==
    ASSUME Inv, Reports, NEW c \in Client, Destroy(c)
    PROVE  Reports'
<1>1. /\ proc[c] \in Process /\ held[c] \in Holding /\ Located(proc[c], held[c])
      /\ Knows(proc[c], held[c]) /\ proc[c].pc = "work" /\ proc[c].op = "destroy"
  BY StateTypes DEF Reports, Destroy, Where
<1>2. PICK p \in Ptr : p = proc[c].ptr
  BY <1>1 DEF Located
<1>3. PICK h \in Holding : h = held[c]
  BY <1>1
<1>4. h[p] \in Loc /\ Nil # p
  BY <1>1, <1>2, <1>3, VmemdAssumption DEF Knows
<1>5. PICK v : v = Linked(h)
  OBVIOUS
<1>6. Believed(proc[c], held[c]) = v /\ v \in Entry
  BY <1>1, <1>3, <1>5, BelievesWhatItHolds
<1>7. v.hello /\ v.table = h /\ v.moving = Nil
  BY <1>5 DEF Linked
<1>8. PICK m \in Message : m = Msg("Free", p, "None")
  BY ReportKinds
<1>9. m.type = "Free" /\ m.ptr = p /\ Said(m) = "None"
  BY <1>8, ReportKinds
<1>10. <<>> \in Seq(Message) /\ <<m>> \in Seq(Message)
  OBVIOUS
<1>11. CASE Finish(c, "None", <<m>>)
  <2>1. Expected(v, m)
    BY <1>4, <1>7, <1>9 DEF Expected
  <2>2. PICK w : w = Linked([h EXCEPT ![p] = "None"])
    OBVIOUS
  <2>3. Leads(v, <<m>>, w)
    BY <1>6, <1>7, <1>9, <2>1, <2>2, ReportOne DEF Reply
  <2> QED
    BY <1>1, <1>2, <1>3, <1>6, <1>10, <1>11, <2>2, <2>3, FinishReports
<1>12. CASE Finish(c, h[p], <<>>)
  <2>1. [h EXCEPT ![p] = h[p]] = h
    BY DEF Holding
  <2>2. Leads(v, <<>>, Linked([h EXCEPT ![p] = h[p]]))
    BY <1>5, <1>6, <2>1, NoneLeads
  <2> QED
    BY <1>1, <1>2, <1>3, <1>4, <1>6, <1>10, <1>12, <2>2, FinishReports
<1> QED
  BY <1>2, <1>3, <1>8, <1>11, <1>12 DEF Destroy

(* The process is gone; what it has sent is still handled.                 *)
LEMMA ExitReports ==
    ASSUME Inv, Reports, NEW c \in Client, Exit(c)
    PROVE  Reports'
<1>1. PICK n : n = Hangs(c, net)
  OBVIOUS
<1>2. net' = [f \in Fd |-> IF n[f].owner = c THEN [n[f] EXCEPT !.owner = Nil] ELSE n[f]]
  BY <1>1 DEF Exit
<1>3. /\ n \in [Fd -> Connection] /\ \A f \in Fd : Passes(c, net[f], n[f])
      /\ \A f \in Fd : f # proc[c].sock => n[f] = net[f]
      /\ proc[c].sock # Nil => n[proc[c].sock].end # "open"
  BY <1>1, HangsEffect
<1>4. ASSUME NEW f \in Fd
      PROVE  /\ net'[f].state = n[f].state /\ net'[f].queue = n[f].queue /\ net'[f].end = n[f].end
             /\ n[f].owner # c => net'[f] = n[f]
  <2>1. n[f] \in Connection
    BY <1>3
  <2> QED
    BY <1>2, <2>1 DEF Connection
<1>5. ASSUME NEW f \in Fd, Lives(net'[f])
      PROVE  \/ f # proc[c].sock /\ net'[f] = net[f]
             \/ Lives(net[f]) /\ net'[f].end # "open" /\ net'[f].queue = net[f].queue
  <2>1. Lives(n[f])
    BY <1>4, <1>5 DEF Lives
  <2>2. CASE f = proc[c].sock
    <3>1. Lives(net[f]) /\ n[f].end # "open" /\ n[f].queue = net[f].queue
      BY <1>1, <2>1, <2>2, HangQueue
    <3> QED
      BY <1>4, <3>1
  <2>3. CASE f # proc[c].sock
    <3>1. n[f] = net[f]
      BY <1>3, <2>3
    <3>2. CASE net[f].owner # c
      BY <1>4, <2>3, <3>1, <3>2
    <3>3. CASE net[f].owner = c
      <4>1. net[f].end # "open"
        BY <2>3, <3>3 DEF Inv, Owned
      <4> QED
        BY <1>4, <2>1, <3>1, <4>1
    <3> QED
      BY <3>2, <3>3
  <2> QED
    BY <2>2, <2>3
<1>6. Off \in Process /\ NoChunks \in Holding /\ Knows(Off, NoChunks)
  BY DEF Off, Process, NoChunks, Holding, Knows
<1>7. /\ proc' = [proc EXCEPT ![c] = Off] /\ held' = [held EXCEPT ![c] = NoChunks]
      /\ UNCHANGED vars
  BY DEF Exit, broker
<1> QED
  BY <1>5, <1>6, <1>7, ClientReports

(* Whatever a client does.                                                 *)
LEMMA ClientsReport ==
    ASSUME Inv, Reports, NEW c \in Client, Begin(c) \/ Progress(c) \/ Exit(c)
    PROVE  Reports'
  BY BeginReports, DialReports, HelloAnsweredReports, HelloLostReports, ResyncChunkReports,
     ResyncedReports, AskReports, AnsweredReports, AnswerLostReports, CreateReports, SwapReports,
     DestroyReports, ExitReports DEF Progress

-----------------------------------------------------------------------------
(* What the broker makes of them.                                          *)

(* A step of the broker at one descriptor.                                 *)
LEMMA ServerReports ==
    ASSUME Inv, Reports, UNCHANGED <<proc, held>>, NEW f \in Fd,
           \A g \in Fd \ {f} : /\ Tenant(g)' = Tenant(g) /\ net'[g] = net[g]
                               /\ g \in tenants => g \in tenants',
           f \notin tenants' => Tenant(f)' = Blank,
           Lives(net'[f]) => \E w \in Entry :
              /\ Leads(Tenant(f)', net'[f].queue, w)
              /\ net'[f].end = "open" => Agrees(w, net'[f], proc[net'[f].owner], held[net'[f].owner])
    PROVE  Reports'
<1>1. \A c \in Client : Knows(proc'[c], held'[c])
  BY DEF Reports
<1>2. \A g \in Fd \ tenants' : Tenant(g)' = Blank
  BY DEF Reports
<1>3. ASSUME NEW g \in Fd, Lives(net'[g])
      PROVE  \E w \in Entry :
                /\ Leads(Tenant(g)', net'[g].queue, w)
                /\ net'[g].end = "open" => Agrees(w, net'[g], proc'[net'[g].owner], held'[net'[g].owner])
  <2>1. CASE g = f
    BY <1>3, <2>1
  <2>2. CASE g # f
    <3>1. Lives(net[g]) /\ net'[g] = net[g] /\ Tenant(g)' = Tenant(g)
      BY <1>3, <2>2
    <3> QED
      BY <3>1 DEF Reports
  <2> QED
    BY <2>1, <2>2
<1> QED
  BY <1>1, <1>2, <1>3 DEF Reports

(* Where a recorded chunk is, and that the others stay.                    *)
LEMMA RecordTable ==
    ASSUME Typed, NEW f \in Fd, NEW p \in Ptr, NEW x, chunks' = [chunks EXCEPT ![f][p] = x]
    PROVE  /\ [q \in Ptr |-> chunks'[f][q].loc] = [[q \in Ptr |-> chunks[f][q].loc] EXCEPT ![p] = x.loc]
           /\ \A g \in Fd \ {f} : chunks'[g] = chunks[g]
<1>1. chunks \in [Fd -> [Ptr -> Chunk \cup {NoChunk}]]
  BY DEF Typed
<1>2. chunks'[f][p] = x /\ \A q \in Ptr \ {p} : chunks'[f][q] = chunks[f][q]
  BY <1>1
<1>3. \A g \in Fd \ {f} : chunks'[g] = chunks[g]
  BY <1>1
<1>4. PICK t : t = [q \in Ptr |-> chunks'[f][q].loc]
  OBVIOUS
<1>5. PICK u : u = [q \in Ptr |-> chunks[f][q].loc]
  OBVIOUS
<1>6. \A q \in Ptr : t[q] = IF q = p THEN x.loc ELSE u[q]
  BY <1>2, <1>4, <1>5
<1>7. t = [u EXCEPT ![p] = x.loc]
  BY <1>4, <1>5, <1>6
<1> QED
  BY <1>3, <1>4, <1>5, <1>7

(* A handler touches only the tenant whose message it handles.             *)
LEMMA OthersKept ==
    ASSUME Typed, NEW f \in Fd,
           UNCHANGED hello \/ \E b : hello' = [hello EXCEPT ![f] = b],
           UNCHANGED chunks \/ \E p \in Ptr : \E x : chunks' = [chunks EXCEPT ![f][p] = x],
           UNCHANGED moving \/ \E x : moving' = [moving EXCEPT ![f] = x]
    PROVE  \A g \in Fd \ {f} : Tenant(g)' = Tenant(g)
<1>1. \A g \in Fd \ {f} : hello'[g] = hello[g]
  BY DEF Typed
<1>2. \A g \in Fd \ {f} : chunks'[g] = chunks[g]
  BY RecordTable
<1>3. \A g \in Fd \ {f} : moving'[g] = moving[g]
  BY DEF Typed
<1> QED
  BY <1>1, <1>2, <1>3 DEF Tenant

(* A chunk that is not tracked is nowhere.                                 *)
LEMMA TrackedSomewhere ==
    ASSUME Typed, NEW f \in Fd, NEW p \in Ptr
    PROVE  /\ p \in Tracked(f) <=> Tenant(f).table[p] # "None"
           /\ Tenant(f).table[p] = chunks[f][p].loc
           /\ Tenant(f).hello = hello[f]
           /\ Tenant(f).moving = moving[f].ptr
           /\ moving[f] = NoMove <=> moving[f].ptr = Nil
<1>1. chunks[f][p] \in Chunk \cup {NoChunk} /\ moving[f] \in Move \cup {NoMove}
  BY DEF Typed
<1>2. /\ Tenant(f).table[p] = chunks[f][p].loc
      /\ Tenant(f).hello = hello[f] /\ Tenant(f).moving = moving[f].ptr
  BY DEF Tenant
<1>3. chunks[f][p] = NoChunk <=> chunks[f][p].loc = "None"
  BY <1>1 DEF Chunk, NoChunk, Loc
<1>4. moving[f] = NoMove <=> moving[f].ptr = Nil
  BY <1>1, VmemdAssumption DEF Move, NoMove
<1> QED
  BY <1>2, <1>3, <1>4 DEF Tracked

(* What the handler of a report makes of the tenant's entry, when it finds *)
(* what it expects.                                                        *)
LEMMA ReportHandled ==
    ASSUME Typed, NEW f \in Fd, NEW m \in Message, Handle(f, m), m.type \notin Reply,
           Expected(Tenant(f), m)
    PROVE  /\ Tenant(f)' = After(Tenant(f), m)
           /\ \A g \in Fd \ {f} : Tenant(g)' = Tenant(g)
<1> DEFINE Good == /\ Tenant(f)' = After(Tenant(f), m)
                   /\ \A g \in Fd \ {f} : Tenant(g)' = Tenant(g)
<1>1. /\ m.type \in {"AllocFail", "Free", "MoveDone", "Resync"}
      /\ m.ptr \in Ptr
  BY DEF Message, MessageType, Reply
<1>2. PICK p \in Ptr : p = m.ptr
  BY <1>1
<1>3. /\ p \in Tracked(f) <=> Tenant(f).table[p] # "None"
      /\ Tenant(f).table[p] = chunks[f][p].loc
      /\ Tenant(f).hello = hello[f] /\ Tenant(f).moving = moving[f].ptr
      /\ moving[f] = NoMove <=> moving[f].ptr = Nil
  BY TrackedSomewhere
<1>4. ASSUME NEW l, NEW n, Record(f, p, n, l), Said(m) = l, UNCHANGED hello,
             m.type # "MoveDone" => UNCHANGED moving,
             m.type = "MoveDone" => moving' = [moving EXCEPT ![f] = NoMove]
      PROVE  Good
  <2>1. chunks' = [chunks EXCEPT ![f][p] = [size |-> n, loc |-> l]]
    BY <1>4 DEF Record
  <2>2. [q \in Ptr |-> chunks'[f][q].loc] = [[q \in Ptr |-> chunks[f][q].loc] EXCEPT ![p] = l]
    <3>1. PICK x : x = [size |-> n, loc |-> l]
      OBVIOUS
    <3>2. x.loc = l /\ chunks' = [chunks EXCEPT ![f][p] = x]
      BY <2>1, <3>1
    <3>3. [q \in Ptr |-> chunks'[f][q].loc] = [[q \in Ptr |-> chunks[f][q].loc] EXCEPT ![p] = x.loc]
      BY <3>2, RecordTable
    <3> QED
      BY <3>2, <3>3
  <2>3. moving'[f].ptr = IF m.type = "MoveDone" THEN Nil ELSE moving[f].ptr
    BY <1>4 DEF Typed, NoMove
  <2>4. Tenant(f)' = After(Tenant(f), m)
    BY <1>1, <1>2, <1>4, <2>2, <2>3 DEF Tenant, After, Apply, Reply
  <2>5. \A g \in Fd \ {f} : Tenant(g)' = Tenant(g)
    BY <1>4, <2>1, OthersKept
  <2> QED
    BY <2>4, <2>5
<1>5. CASE m.type = "AllocFail"
  <2>1. chunks[f][p].loc = "Device" /\ Said(m) = "Host"
    BY <1>2, <1>3, <1>5 DEF Expected, Said
  <2>2. AllocFail(f, p)
    BY <1>2, <1>5 DEF Handle
  <2> QED
    BY <1>4, <1>5, <2>1, <2>2 DEF AllocFail
<1>6. CASE m.type = "Resync"
  <2>1. Resync(f, p, SizeOf[p], m.loc) /\ Said(m) = m.loc
    BY <1>2, <1>6 DEF Handle, Said
  <2> QED
    BY <1>4, <1>6, <2>1 DEF Resync
<1>7. CASE m.type = "MoveDone"
  <2>1. MoveDone(f, p, m.loc) /\ Said(m) = m.loc
    BY <1>2, <1>7 DEF Handle, Said
  <2>2. p \in Tracked(f) /\ moving[f].ptr = p
    BY <1>2, <1>3, <1>7 DEF Expected, Loc
  <2>3. Record(f, p, chunks[f][p].size, m.loc) /\ DropMove(f, p) /\ UNCHANGED hello
    BY <2>1, <2>2 DEF MoveDone
  <2>4. moving' = [moving EXCEPT ![f] = NoMove]
    BY <2>2, <2>3 DEF DropMove
  <2> QED
    BY <1>4, <1>7, <2>1, <2>3, <2>4
<1>8. CASE m.type = "Free"
  <2>1. Free(f, p) /\ Said(m) = "None"
    BY <1>2, <1>8 DEF Handle, Said
  <2>2. p \in Tracked(f) /\ moving[f].ptr # p
    BY <1>2, <1>3, <1>8 DEF Expected, Loc
  <2>3. chunks' = [chunks EXCEPT ![f][p] = NoChunk] /\ DropMove(f, p) /\ UNCHANGED hello
    BY <2>1, <2>2 DEF Free
  <2>4. Record(f, p, 0, "None") /\ UNCHANGED moving
    BY <2>2, <2>3 DEF Record, NoChunk, DropMove
  <2> QED
    BY <1>4, <1>8, <2>1, <2>3, <2>4
<1> QED
  BY <1>1, <1>5, <1>6, <1>7, <1>8

(* What the handler of a request makes of it, by the status of its answer. *)
LEMMA RequestHandled ==
    ASSUME Typed, NEW f \in Fd, NEW m \in Message, Handle(f, m), m.type \in Reply,
           NEW v, v = Tenant(f), Expected(v, m)
    PROVE  /\ \A g \in Fd \ {f} : Tenant(g)' = Tenant(g)
           /\ Tenant(f)' =
                 [hello  |-> TRUE,
                  table  |-> IF m.type = "Alloc" /\ last'.status = "Ok"
                             THEN [v.table EXCEPT ![m.ptr] = chunks'[f][m.ptr].loc] ELSE v.table,
                  moving |-> IF m.type = "Move" /\ last'.status = "Ok" THEN m.ptr ELSE v.moving]
<1>1. v = [hello |-> hello[f], table |-> [p \in Ptr |-> chunks[f][p].loc], moving |-> moving[f].ptr]
  BY DEF Tenant
<1>2. /\ v.hello = hello[f] /\ v.table = [p \in Ptr |-> chunks[f][p].loc]
      /\ v.moving = moving[f].ptr
  BY <1>1
<1>3. CASE m.type = "Hello"
  <2>1. Hello(f) /\ ~hello[f]
    BY <1>2, <1>3 DEF Handle, Expected
  <2>2. hello' = [hello EXCEPT ![f] = TRUE] /\ UNCHANGED <<chunks, moving>>
    BY <2>1 DEF Hello
  <2>3. hello'[f] = TRUE
    BY <2>2 DEF Typed
  <2>4. \A g \in Fd \ {f} : Tenant(g)' = Tenant(g)
    BY <2>2, OthersKept
  <2> QED
    BY <1>2, <1>3, <2>2, <2>3, <2>4 DEF Tenant
<1>4. CASE m.type = "Alloc"
  <2>1. m.ptr \in Ptr
    BY <1>4 DEF Message
  <2>2. PICK p \in Ptr : p = m.ptr
    BY <2>1
  <2>3. Alloc(f, p, SizeOf[p]) /\ hello[f] /\ UNCHANGED <<hello, moving>>
    BY <1>2, <1>4, <2>2 DEF Handle, Expected, Alloc
  <2>4. p \notin Tracked(f)
    BY <1>4, <2>2, TrackedSomewhere DEF Expected
  <2>5. CASE Logged("Alloc", f, SizeOf[p], "NoMemory") /\ UNCHANGED chunks
    <3>1. last'.status # "Ok"
      BY <2>5 DEF Logged
    <3>2. \A g \in Fd \ {f} : Tenant(g)' = Tenant(g)
      BY <2>3, <2>5, OthersKept
    <3> QED
      BY <1>2, <1>4, <2>3, <2>5, <3>1, <3>2 DEF Tenant
  <2>6. CASE /\ Record(f, p, SizeOf[p], Place(SizeOf[p]))
             /\ Logged("Alloc", f, SizeOf[p], "Ok")
    <3>1. last'.status = "Ok"
      BY <2>6 DEF Logged
    <3>2. PICK l : l = Place(SizeOf[p])
      OBVIOUS
    <3>3. chunks' = [chunks EXCEPT ![f][p] = [size |-> SizeOf[p], loc |-> l]]
      BY <2>6, <3>2 DEF Record
    <3>4. [q \in Ptr |-> chunks'[f][q].loc] = [v.table EXCEPT ![p] = l]
      <4>1. PICK x : x = [size |-> SizeOf[p], loc |-> l]
        OBVIOUS
      <4>2. x.loc = l /\ chunks' = [chunks EXCEPT ![f][p] = x]
        BY <3>3, <4>1
      <4>3. [q \in Ptr |-> chunks'[f][q].loc]
               = [[q \in Ptr |-> chunks[f][q].loc] EXCEPT ![p] = x.loc]
        BY <4>2, RecordTable
      <4> QED
        BY <1>2, <4>2, <4>3
    <3>5. chunks'[f][p].loc = l
      BY <3>3 DEF Typed
    <3>6. \A g \in Fd \ {f} : Tenant(g)' = Tenant(g)
      BY <2>3, <3>3, OthersKept
    <3> QED
      BY <1>2, <1>4, <2>2, <2>3, <3>1, <3>4, <3>5, <3>6 DEF Tenant
  <2> QED
    BY <2>3, <2>4, <2>5, <2>6 DEF Alloc
<1>5. CASE m.type = "Move"
  <2>1. m.ptr \in Ptr
    BY <1>5 DEF Message
  <2>2. PICK p \in Ptr : p = m.ptr
    BY <2>1
  <2>3. MoveRequest(f, p, m.loc) /\ hello[f] /\ UNCHANGED <<hello, chunks>>
    BY <1>2, <1>5, <2>2 DEF Handle, Expected, MoveRequest
  <2>4. chunks[f][p].loc # m.loc
    BY <1>5, <2>2, TrackedSomewhere DEF Expected
  <2>5. CASE Logged("Move", f, 0, "NoMemory") /\ UNCHANGED moving
    <3>1. last'.status # "Ok"
      BY <2>5 DEF Logged
    <3>2. \A g \in Fd \ {f} : Tenant(g)' = Tenant(g)
      BY <2>3, <2>5, OthersKept
    <3> QED
      BY <1>2, <1>5, <2>3, <2>5, <3>1, <3>2 DEF Tenant
  <2>6. CASE moving' = [moving EXCEPT ![f] = [ptr |-> p, to |-> m.loc]] /\ Logged("Move", f, 0, "Ok")
    <3>1. last'.status = "Ok"
      BY <2>6 DEF Logged
    <3>2. moving'[f].ptr = p
      BY <2>6 DEF Typed
    <3>3. \A g \in Fd \ {f} : Tenant(g)' = Tenant(g)
      BY <2>3, <2>6, OthersKept
    <3> QED
      BY <1>2, <1>5, <2>2, <2>3, <3>1, <3>2, <3>3 DEF Tenant
  <2> QED
    BY <2>3, <2>4, <2>5, <2>6 DEF MoveRequest
<1> QED
  BY <1>3, <1>4, <1>5 DEF Reply

(* One message: a report makes of the entry what its client expects, and   *)
(* the answer to a request says what it has made.                          *)
LEMMA ReceiveReports ==
    ASSUME Inv, Inv', Reports, NEW f \in Fd, Receive(f)
    PROVE  Reports'
<1>1. Typed
  BY DEF Inv, Types
<1>2. PICK n \in Connection : n = net[f]
  BY StateTypes
<1>3. /\ n.queue # <<>> /\ n.queue \in Seq(Message) /\ n.reply \in Seq(Answer) /\ Socket(n)
  BY <1>2, StateTypes DEF Receive, Connection
<1>4. PICK m \in Message : m = Head(n.queue)
  BY <1>3, QueueTail
<1>5. PICK t : t = Tail(n.queue)
  OBVIOUS
<1>6. Handle(f, m) /\ UNCHANGED <<proc, held>>
  BY <1>2, <1>4 DEF Receive
<1>7. n.state = "accepted" /\ Lives(n)
  BY <1>2, TurnReady, SystemAssumption DEF Receive, Ready, Listener, Lives
<1>8. f \in tenants /\ tenants' = tenants
  BY <1>6, HandleNext
<1>9. PICK v \in Entry : v = Tenant(f)
  BY TenantType
<1>10. PICK w \in Entry :
          /\ Leads(v, n.queue, w)
          /\ n.end = "open" => Agrees(w, n, proc[n.owner], held[n.owner])
  BY <1>2, <1>7, <1>9 DEF Reports
<1>11. /\ Expected(v, m) /\ Leads(After(v, m), t, w)
       /\ m.type \in Reply => t = <<>> /\ w = v
  BY <1>3, <1>4, <1>5, <1>10, LeadsTail
<1>12. PICK a : a = [type |-> m.type, ptr |-> m.ptr, status |-> last'.status,
                     loc |-> IF m.type = "Alloc" THEN chunks'[f][m.ptr].loc ELSE "Device"]
  OBVIOUS
<1>13. PICK b : b = IF m.type \in Reply /\ n.end = "open" THEN Append(n.reply, a) ELSE n.reply
  OBVIOUS
<1>14. PICK k : k = [n EXCEPT !.queue = t, !.reply = b]
  OBVIOUS
<1>15. net' = [net EXCEPT ![f] = k]
  BY <1>2, <1>4, <1>5, <1>12, <1>13, <1>14 DEF Receive
<1>16. k.queue = t /\ k.reply = b /\ k.state = n.state /\ k.end = n.end /\ k.owner = n.owner
  BY <1>2, <1>14 DEF Connection
<1>17. net'[f] = k /\ \A g \in Fd \ {f} : net'[g] = net[g]
  BY <1>15 DEF Inv, Types
<1>18. ASSUME n.end = "open"
       PROVE  /\ n.owner \in Client /\ proc[n.owner].sock = f /\ InOrder(n, proc[n.owner])
              /\ n.reply = <<>> /\ w = Believed(proc[n.owner], held[n.owner])
  <2>1. n.owner \in Client /\ proc[n.owner].sock = f
    BY <1>2, <1>18 DEF Inv, Owned
  <2>2. InOrder(n, proc[n.owner])
    BY <1>2, <2>1, SystemAssumption DEF Inv
  <2>3. n.reply = <<>>
    BY <1>3, <1>10, <1>18 DEF Agrees
  <2> QED
    BY <1>10, <1>18, <2>1, <2>2, <2>3 DEF Agrees
<1>19. CASE m.type \notin Reply
  <2>1. /\ Tenant(f)' = After(v, m)
        /\ \A g \in Fd \ {f} : Tenant(g)' = Tenant(g)
    BY <1>1, <1>6, <1>9, <1>11, <1>19, ReportHandled
  <2>2. b = n.reply
    BY <1>13, <1>19
  <2>3. k.end = "open" => Agrees(w, k, proc[k.owner], held[k.owner])
    BY <1>16, <1>18, <2>2 DEF Agrees
  <2>4. Leads(Tenant(f)', net'[f].queue, w)
    BY <1>11, <1>16, <1>17, <2>1
  <2> QED
    BY <1>6, <1>8, <1>16, <1>17, <2>1, <2>3, <2>4, ServerReports
<1>20. CASE m.type \in Reply
  <2>1. \A g \in Fd \ {f} : Tenant(g)' = Tenant(g)
    BY <1>1, <1>6, <1>9, <1>11, <1>20, RequestHandled
  <2>2. PICK x : x = Tenant(f)'
    OBVIOUS
  <2>3. x = [hello  |-> TRUE,
             table  |-> IF m.type = "Alloc" /\ a.status = "Ok"
                        THEN [v.table EXCEPT ![m.ptr] = a.loc] ELSE v.table,
             moving |-> IF m.type = "Move" /\ a.status = "Ok" THEN m.ptr ELSE v.moving]
    BY <1>1, <1>6, <1>9, <1>11, <1>12, <1>20, <2>2, RequestHandled
  <2>4. x \in Entry
    <3>1. (Inv => Tenant(f) \in Entry)'
      BY TenantType, PTL
    <3> QED
      BY <2>2, <3>1
  <2>5. Leads(x, t, x)
    BY <1>11, <1>20, <2>4, NoneLeads
  <2>6. ASSUME n.end = "open"
        PROVE  Agrees(x, k, proc[k.owner], held[k.owner])
    <3>1. PICK c \in Client : c = n.owner
      BY <1>18, <2>6
    <3>2. PICK r \in Process : r = proc[c]
      BY StateTypes
    <3>3. PICK h \in Holding : h = held[c]
      BY StateTypes
    <3>4. Located(r, h)
      BY <3>2, <3>3, StateTypes
    <3>5. Awaits(r, m)
      <4>1. n.queue[1] = m /\ 1 \in 1 .. Len(n.queue)
        BY <1>3, <1>4, QueueTail
      <4> QED
        BY <1>18, <1>20, <2>6, <3>1, <3>2, <4>1 DEF InOrder
    <3>6. v = Believed(r, h)
      BY <1>11, <1>18, <1>20, <2>6, <3>1, <3>2, <3>3
    <3>7. Len(b) = 1 /\ b[1] = a /\ b # <<>>
      <4>1. b = Append(n.reply, a) /\ n.reply = <<>>
        BY <1>13, <1>18, <1>20, <2>6
      <4> QED
        BY <4>1
    <3>8. x = Outcome(r, h, a)
      <4>1. CASE r.pc = "hello" /\ m.type = "Hello"
        <5>1. v.table = NoChunks /\ v.moving = Nil
          BY <3>6, <4>1 DEF Believed, Blank
        <5> QED
          BY <2>3, <4>1, <5>1 DEF Outcome
      <4>2. CASE /\ r.pc = "wait" /\ m.ptr = r.ptr
                 /\ m.type = IF r.op = "create" THEN "Alloc" ELSE "Move"
        <5>1. v = Linked(h)
          BY <3>4, <3>6, <4>2, BelievesWhatItHolds
        <5>2. v.table = h /\ v.moving = Nil
          BY <5>1 DEF Linked
        <5>3. r.op \in {"create", "move"}
          BY <3>4, <4>2 DEF Located
        <5>4. CASE r.op = "create"
          BY <2>3, <4>2, <5>2, <5>4 DEF Outcome
        <5>5. CASE r.op = "move"
          BY <2>3, <4>2, <5>2, <5>5 DEF Outcome
        <5> QED
          BY <5>3, <5>4, <5>5
      <4> QED
        BY <3>5, <4>1, <4>2 DEF Awaits
    <3>9. k.queue = <<>> /\ k.reply # <<>> /\ k.reply[1] = a
      BY <1>11, <1>16, <1>20, <3>7
    <3>10. k.owner = c
      BY <1>16, <3>1
    <3> QED
      BY <3>2, <3>3, <3>8, <3>9, <3>10 DEF Agrees
  <2>7. Leads(Tenant(f)', net'[f].queue, x)
    BY <1>16, <1>17, <2>2, <2>5
  <2> QED
    BY <1>6, <1>8, <1>16, <1>17, <2>1, <2>4, <2>6, <2>7, ServerReports
<1> QED
  BY <1>19, <1>20

(* A connection accepted is a tenant with an empty entry, as before.       *)
LEMMA AcceptReports ==
    ASSUME Inv, Reports, Accept
    PROVE  Reports'
<1>1. backlog # <<>> /\ backlog \in Seq(Fd)
  BY TurnReady, StateTypes, SystemAssumption DEF Accept, Ready, Listener
<1>2. PICK f : f = Head(backlog)
  OBVIOUS
<1>3. f \in Fd /\ f = backlog[1] /\ Len(backlog) >= 1 /\ Len(backlog) \in Nat
  BY <1>1, <1>2, BacklogTail
<1>4. net[f].state = "backlog"
  BY <1>3 DEF Inv, Tables
<1>5. net[f] \in Connection
  BY <1>3, StateTypes
<1>6. PICK n : n = [net[f] EXCEPT !.state = "accepted"]
  OBVIOUS
<1>7. n.end = net[f].end /\ n.owner = net[f].owner /\ n.queue = net[f].queue /\ n.reply = net[f].reply
  BY <1>5, <1>6 DEF Connection
<1>8. net'[f] = n /\ \A g \in Fd \ {f} : net'[g] = net[g]
  <2>1. net' = [net EXCEPT ![f] = n]
    BY <1>2, <1>6 DEF Accept
  <2> QED
    BY <1>3, <2>1 DEF Inv, Types
<1>9. /\ \A g \in Fd : Tenant(g)' = Tenant(g)
      /\ tenants' = tenants \cup {f} /\ UNCHANGED <<proc, held>>
  BY <1>2 DEF Accept, Connect, Tenant
<1>10. PICK w \in Entry :
          /\ Leads(Tenant(f), net[f].queue, w)
          /\ net[f].end = "open" => Agrees(w, net[f], proc[net[f].owner], held[net[f].owner])
  BY <1>3, <1>4 DEF Reports, Lives
<1>11. n.end = "open" => Agrees(w, n, proc[n.owner], held[n.owner])
  BY <1>7, <1>10 DEF Agrees
<1> QED
  BY <1>3, <1>7, <1>8, <1>9, <1>10, <1>11, ServerReports

(* A tenant that hangs up leaves an empty entry behind.                    *)
LEMMA HangupReports ==
    ASSUME Inv, Reports, NEW f \in Fd, Hangup(f)
    PROVE  Reports'
<1>1. Typed
  BY DEF Inv, Types
<1>2. Disconnect(f) /\ UNCHANGED <<proc, held>>
  BY DEF Hangup
<1>3. /\ hello' = [hello EXCEPT ![f] = FALSE]
      /\ chunks' = [chunks EXCEPT ![f] = [p \in Ptr |-> NoChunk]]
      /\ moving' = [moving EXCEPT ![f] = NoMove]
      /\ tenants' = tenants \ {f}
  BY <1>2 DEF Disconnect
<1>4. Tenant(f)' = Blank
  <2>1. /\ hello'[f] = FALSE /\ chunks'[f] = [p \in Ptr |-> NoChunk]
        /\ moving'[f] = NoMove
    BY <1>1, <1>3 DEF Typed
  <2>2. [p \in Ptr |-> chunks'[f][p].loc] = NoChunks
    BY <2>1 DEF NoChunks, NoChunk
  <2>3. moving'[f].ptr = Nil
    BY <2>1 DEF NoMove
  <2> QED
    BY <2>1, <2>2, <2>3 DEF Tenant, Blank
<1>5. \A g \in Fd \ {f} : Tenant(g)' = Tenant(g) /\ (g \in tenants => g \in tenants')
  BY <1>1, <1>3 DEF Typed, Tenant
<1>6. net'[f] = Unused /\ \A g \in Fd \ {f} : net'[g] = net[g]
  BY DEF Hangup, Inv, Types
<1>7. ~Lives(net'[f])
  BY <1>6 DEF Unused, Lives
<1> QED
  BY <1>2, <1>4, <1>5, <1>6, <1>7, ServerReports

(* The broker dies: no connection lives, no entry is left.                 *)
LEMMA CrashReports ==
    ASSUME Inv, Reports, Crash
    PROVE  Reports'
<1>1. \A f \in Fd : Tenant(f)' = Blank
  <2>1. ASSUME NEW f \in Fd PROVE Tenant(f)' = Blank
    <3>1. /\ hello'[f] = FALSE /\ moving'[f] = NoMove
          /\ \A p \in Ptr : chunks'[f][p] = NoChunk
      BY DEF Crash
    <3>2. [p \in Ptr |-> chunks'[f][p].loc] = NoChunks
      BY <3>1 DEF NoChunks, NoChunk
    <3>3. moving'[f].ptr = Nil
      BY <3>1 DEF NoMove
    <3> QED
      BY <3>1, <3>2, <3>3 DEF Tenant, Blank
  <2> QED
    BY <2>1
<1>2. \A f \in Fd : ~Lives(net'[f])
  <2>1. ASSUME NEW f \in Fd, net[f].end = "open" PROVE ~Lives(net'[f])
    <3>1. net[f] \in Connection
      BY StateTypes
    <3>2. net'[f] = [net[f] EXCEPT !.state = "dead", !.queue = <<>>]
      BY <2>1 DEF Crash
    <3>3. net'[f].state = "dead"
      BY <3>1, <3>2 DEF Connection
    <3> QED
      BY <3>3 DEF Lives
  <2>2. ASSUME NEW f \in Fd, net[f].end # "open" PROVE ~Lives(net'[f])
    BY <2>2 DEF Crash, Unused, Lives
  <2> QED
    BY <2>1, <2>2
<1>3. UNCHANGED <<proc, held>>
  BY DEF Crash
<1> QED
  BY <1>1, <1>2, <1>3 DEF Reports

(* Nothing that the reports are about changes.                             *)
LEMMA SameReports ==
    ASSUME Reports, UNCHANGED <<vars, net, proc, held>>
    PROVE  Reports'
<1>1. tenants' = tenants /\ \A f \in Fd : Tenant(f)' = Tenant(f)
  BY DEF Tenant, vars
<1> QED
  BY <1>1 DEF Reports

(* At the start no connection is alive and no entry is there.              *)
LEMMA InitReports == SysInit => Reports
<1> SUFFICES ASSUME SysInit PROVE Reports
  OBVIOUS
<1>1. \A c \in Client : Knows(proc[c], held[c])
  BY DEF SysInit, Off, Knows
<1>2. ASSUME NEW f \in Fd PROVE Tenant(f) = Blank
  <2>1. hello[f] = FALSE /\ moving[f] = NoMove /\ \A p \in Ptr : chunks[f][p] = NoChunk
    BY DEF SysInit, Init
  <2>2. [p \in Ptr |-> chunks[f][p].loc] = NoChunks
    BY <2>1 DEF NoChunks, NoChunk
  <2>3. moving[f].ptr = Nil
    BY <2>1 DEF NoMove
  <2> QED
    BY <2>1, <2>2, <2>3 DEF Tenant, Blank
<1>3. \A f \in Fd : ~Lives(net[f])
  BY DEF SysInit, Unused, Lives
<1> QED
  BY <1>1, <1>2, <1>3 DEF Reports

(* Every step keeps the reports in order.                                  *)
LEMMA StepReports ==
    ASSUME Inv, Inv', Reports, [SysNext]_sysVars
    PROVE  Reports'
<1>1. CASE UNCHANGED sysVars
  BY <1>1, SameReports DEF sysVars, broker
<1>2. ASSUME NEW c \in Client, Begin(c) \/ Progress(c) \/ Exit(c) PROVE Reports'
  BY <1>2, ClientsReport
<1>3. CASE Serve
  BY <1>3, AcceptReports, ReceiveReports, HangupReports DEF Serve
<1>4. CASE Crash
  BY <1>4, CrashReports
<1>5. CASE Restart
  BY <1>5, SameReports DEF Restart
<1> QED
  BY <1>1, <1>2, <1>3, <1>4, <1>5 DEF SysNext

(* At any time, what the broker has of a client and what the client takes  *)
(* it to have differ by the messages under way, and each of these finds    *)
(* the entry that its handler expects.                                     *)
THEOREM ReportsInvariant == SysSpec => []Reports
<1>1. Inv /\ Inv' /\ Reports /\ [SysNext]_sysVars => Reports'
  BY StepReports
<1> QED
  BY <1>1, InitReports, SystemInvariant, PTL DEF SysSpec

(* No client of the library makes the broker take a branch that it logs as *)
(* a client's bug, whatever times out, breaks or crashes on the way.       *)
THEOREM EveryMessageExpected == SysSpec => []ClientsBehave
<1>1. Inv /\ Reports => ClientsBehave
  <2> SUFFICES ASSUME Inv, Reports, NEW f \in tenants, net[f].queue # <<>>,
                      NEW m, m = Head(net[f].queue)
               PROVE  IF m.type = "Hello" THEN ~hello[f]
                      ELSE /\ hello[f]
                           /\ m.type \in {"Alloc", "Resync"} <=> m.ptr \notin Tracked(f)
                           /\ m.type = "AllocFail" => chunks[f][m.ptr].loc = "Device"
                           /\ m.type = "Move" => moving[f] = NoMove /\ chunks[f][m.ptr].loc # m.loc
                           /\ m.type = "MoveDone" => moving[f].ptr = m.ptr
                           /\ m.type = "Free" => moving[f].ptr # m.ptr
    BY DEF ClientsBehave
  <2>1. Typed /\ f \in Fd
    BY DEF Inv, Types, Typed
  <2>2. net[f] \in Connection /\ Lives(net[f])
    BY <2>1, StateTypes DEF Inv, Tables, Lives
  <2>3. net[f].queue \in Seq(Message) /\ m \in Message
    BY <2>2, QueueTail DEF Connection
  <2>4. PICK w \in Entry : Leads(Tenant(f), net[f].queue, w)
    BY <2>1, <2>2 DEF Reports
  <2>5. Expected(Tenant(f), m)
    BY <2>1, <2>3, <2>4, TenantType, LeadsTail
  <2>6. CASE m.type = "Hello"
    BY <2>5, <2>6 DEF Expected, Tenant
  <2>7. CASE m.type # "Hello"
    <3>1. PICK p \in Ptr : p = m.ptr
      BY <2>3, <2>7 DEF Message
    <3>2. /\ p \in Tracked(f) <=> Tenant(f).table[p] # "None"
          /\ Tenant(f).table[p] = chunks[f][p].loc
          /\ Tenant(f).hello = hello[f]
          /\ Tenant(f).moving = moving[f].ptr
          /\ moving[f] = NoMove <=> moving[f].ptr = Nil
      BY <2>1, TrackedSomewhere
    <3>3. m.type \in {"Alloc", "AllocFail", "Free", "Move", "MoveDone", "Resync"}
      BY <2>3, <2>7 DEF Message, MessageType
    <3> QED
      BY <2>5, <2>7, <3>1, <3>2, <3>3 DEF Expected, Loc
  <2> QED
    BY <2>6, <2>7
<1> QED
  BY <1>1, SystemInvariant, ReportsInvariant, PTL

(* What the reports say of a client that is linked and between calls.      *)
LEMMA BetweenCalls ==
    ASSUME Inv, Reports, NEW c \in Client, NEW f, f = proc[c].sock,
           proc[c].pc = "idle", f # Nil, net[f].state = "accepted"
    PROVE  f \in Fd /\ Leads(Tenant(f), net[f].queue, Linked(held[c]))
<1>1. f \in Fd /\ Quiet(net[f]) /\ Lives(net[f])
  BY OwnConnection DEF Lives
<1>2. PICK w \in Entry : /\ Leads(Tenant(f), net[f].queue, w)
                         /\ Agrees(w, net[f], proc[c], held[c])
  BY <1>1, OwnReports
<1>3. w = Believed(proc[c], held[c])
  BY <1>1, <1>2 DEF Agrees, Quiet
<1>4. Believed(proc[c], held[c]) = Linked(held[c])
  BY StateTypes, BelievesWhatItHolds
<1> QED
  BY <1>1, <1>2, <1>3, <1>4

(* Between calls a granted move is done: its MoveDone is on the way.       *)
THEOREM EveryGrantClosed == SysSpec => []GrantsClosed
<1>1. Inv /\ Reports => GrantsClosed
  <2> SUFFICES ASSUME Inv, Reports, NEW c \in Client, NEW f, f = proc[c].sock,
                      proc[c].pc = "idle", f # Nil, net[f].state = "accepted", moving[f] # NoMove
               PROVE  \E i \in 1 .. Len(net[f].queue) :
                         net[f].queue[i].type = "MoveDone" /\ net[f].queue[i].ptr = moving[f].ptr
    BY DEF GrantsClosed
  <2>1. f \in Fd /\ Leads(Tenant(f), net[f].queue, Linked(held[c]))
    BY BetweenCalls
  <2>2. Tenant(f).moving = moving[f].ptr
    BY DEF Tenant
  <2>3. moving[f].ptr # Nil
    <3>1. moving[f] \in Move \cup {NoMove}
      BY <2>1 DEF Inv, Types, Typed
    <3> QED
      BY <3>1, VmemdAssumption DEF Move
  <2>4. Closes(net[f].queue, moving[f].ptr)
    BY <2>1, <2>2, <2>3 DEF Leads, Linked
  <2> QED
    BY <2>4 DEF Closes
<1> QED
  BY <1>1, SystemInvariant, ReportsInvariant, PTL

(* B5 of daemon/README.md: between calls a linked client's chunks are in   *)
(* the broker's table where the client has them, the reports under way     *)
(* handled.                                                                *)
THEOREM TablesAgree == SysSpec => []TableMatches
<1>1. Inv /\ Reports => TableMatches
  <2> SUFFICES ASSUME Inv, Reports, NEW c \in Client, NEW f, f = proc[c].sock,
                      proc[c].pc = "idle", f # Nil, net[f].state = "accepted", NEW p \in Ptr
               PROVE  LastSaid(net[f].queue, p, chunks[f][p].loc, held[c][p])
    BY DEF TableMatches
  <2>1. f \in Fd /\ Leads(Tenant(f), net[f].queue, Linked(held[c]))
    BY BetweenCalls
  <2>2. Tenant(f).table[p] = chunks[f][p].loc /\ Linked(held[c]).table[p] = held[c][p]
    BY DEF Tenant, Linked
  <2> QED
    BY <2>1, <2>2 DEF Leads
<1> QED
  BY <1>1, SystemInvariant, ReportsInvariant, PTL
=============================================================================
