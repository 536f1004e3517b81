------------------------- MODULE VmemBackendProofs -------------------------
(***************************************************************************)
(* TypeOK, MappingsLive, ChunksExact and BrokerExact for any address       *)
(* ranges, handles and chunk sizes.                                        *)
(*                                                                         *)
(* ChunksExact and BrokerExact speak of the moments between calls only;    *)
(* what carries them through a call is Working, which says at each of its  *)
(* steps which reservation, handle, mapping and report the call has made   *)
(* or undone so far.  A call that has been fatal leaves no more than       *)
(* MappingsLive, and no call follows it.                                   *)
(***************************************************************************)
EXTENDS VmemBackend, TotalsProofs, TLAPS

(* The bytes each address has at a location.                               *)
Bytes(l) == [va \in Va |-> IF chunks[va].loc = l THEN chunks[va].size ELSE 0]
UsedExact == \A l \in Loc : used[l] = Total(Bytes(l))

(* The steps of the three calls.                                           *)
Creating == pc \in {"place", "create", "map", "permit"}
Moving == pc \in {"ask", "new", "scratch", "mapScratch", "permitScratch", "copy",
                  "unmap", "swapIn", "permitNew", "putBack", "permitBack"}
Destroying == pc \in {"drop", "release", "unreserve"}

(* The old handle is unmapped at the call's address and, when Gone, freed. *)
Unplugged == pc \in {"swapIn", "permitNew", "putBack", "permitBack", "release", "unreserve"}
Gone == pc = "unreserve"

(* The local variables of the call under way, step by step.                *)
Locals ==
    /\ pc = "idle" => k = Idle
    /\ pc = "reserve" => k.va = Nil
    /\ pc = "reserve" \/ Creating => k.size \in Size
    /\ pc \in {"reserve", "place"} => ~k.asked
    /\ Creating => k.va \in Va \ Live
    /\ pc \in {"create", "map", "permit"} => k.loc \in Loc /\ (linked => k.asked)
    /\ Moving => k.va \in Live /\ k.loc \in Loc \ {chunks[k.va].loc}
    /\ Moving /\ pc # "ask" /\ linked => k.asked
    /\ Destroying => k.va \in Live
    /\ k.h # Nil <=> pc \in {"map", "permit"} \/ (Moving /\ pc \notin {"ask", "new"})
    /\ k.tmp # Nil <=> pc \in {"mapScratch", "permitScratch", "copy"}
    /\ k.tmp \notin Live

(* The handle mapped at an address.                                        *)
BackingAt(va) ==
    IF va = k.va /\ pc \in {"swapIn", "putBack", "release", "unreserve"} THEN Nil
    ELSE IF \/ va = k.va /\ pc \in {"permit", "permitNew"}
            \/ va = k.tmp /\ pc \in {"permitScratch", "copy"}
         THEN k.h
    ELSE chunks[va].h

(* Reservations, mappings and permissions.                                 *)
Driver ==
    /\ reserved = Live \cup (IF Creating THEN {k.va} ELSE {}) \cup ({k.tmp} \ {Nil})
    /\ \A va \in Va : backing[va] = BackingAt(va)
    /\ \A va \in Va : va \in access <=> \/ va \in Live /\ ~(va = k.va /\ Unplugged)
                                        \/ va = k.tmp /\ pc = "copy"

(* Every handle is a live chunk's or the one the call has created.         *)
Memory ==
    /\ \A h \in Handle : memory[h] # Unallocated <=>
          h = k.h \/ \E va \in Live : chunks[va].h = h /\ ~(va = k.va /\ Gone)
    /\ \A va \in Live : ~(va = k.va /\ Gone) =>
          memory[chunks[va].h] = [loc |-> chunks[va].loc, data |-> va]
    /\ \A va, wa \in Live : chunks[va].h = chunks[wa].h => va = wa
    /\ k.h # Nil =>
          /\ \A va \in Live : chunks[va].h # k.h
          /\ memory[k.h].loc = k.loc
          /\ pc \in {"unmap", "swapIn", "permitNew"} => memory[k.h].data = k.va

(* What the broker has been told of the call's address, and of the others. *)
Broker == linked =>
    /\ \A va \in Va : ~(va = k.va /\ Creating) => recorded[va] = chunks[va].loc
    /\ Creating => IF k.asked THEN pc \in {"map", "permit"} => recorded[k.va] = k.loc
                   ELSE recorded[k.va] = "None"

Working == Locals /\ Driver /\ Memory /\ Broker

(* The call that is not under way is a call record.                        *)
LEMMA IdleCall == Idle \in Call
  BY DEF Idle, Call, Failure

ChunksTyped ==
    /\ \A va \in Live : /\ chunks[va] \in [h : Handle, size : Size, loc : Loc]
                        /\ va \in Va /\ chunks[va].h \in Handle /\ chunks[va].h # Nil
                        /\ chunks[va].size \in Nat /\ chunks[va].loc \in Loc
    /\ \A va \in Va \ Live : chunks[va] = NoChunk /\ chunks[va].h = Nil

(* A live chunk has all its fields, and any other entry of chunks_ none.   *)
LEMMA ChunkType == TypeOK => ChunksTyped
<1> SUFFICES ASSUME TypeOK PROVE ChunksTyped
  OBVIOUS
<1>1. ASSUME NEW va \in Live
      PROVE  /\ chunks[va] \in [h : Handle, size : Size, loc : Loc]
             /\ va \in Va
  BY <1>1 DEF TypeOK, Live
<1>2. ASSUME NEW va \in Live
      PROVE  /\ chunks[va].h \in Handle /\ chunks[va].size \in Size /\ chunks[va].loc \in Loc
  BY <1>1
<1>3. \A va \in Va \ Live : chunks[va] = NoChunk
  BY DEF Live
<1>4. NoChunk.h = Nil
  BY DEF NoChunk
<1>5. QED
  BY <1>1, <1>2, <1>3, <1>4, BackendAssumption DEF ChunksTyped

(* While no call has been fatal, every mapping has its reservation and     *)
(* handle.                                                                 *)
LEMMA WorkingMappings ==
    ASSUME TypeOK, Working
    PROVE  MappingsLive
<1> USE BackendAssumption
<1> SUFFICES ASSUME NEW va \in Va
             PROVE  /\ backing[va] # Nil => va \in reserved /\ memory[backing[va]] # Unallocated
                    /\ va \in access => backing[va] # Nil
  BY DEF MappingsLive
<1>1. /\ backing[va] = BackingAt(va)
      /\ va \in access <=> \/ va \in Live /\ ~(va = k.va /\ Unplugged)
                           \/ va = k.tmp /\ pc = "copy"
      /\ va \in Live => va \in reserved
      /\ Creating => k.va \in reserved
      /\ k.tmp # Nil => k.tmp \in reserved
  BY DEF Working, Driver
<1>2. k.h # Nil => k.h \in Handle /\ memory[k.h] # Unallocated
  BY DEF Working, Memory, TypeOK, Call
<1>3. ASSUME va \in Live, ~(va = k.va /\ Gone)
      PROVE  chunks[va].h # Nil /\ memory[chunks[va].h] # Unallocated
  BY <1>3, ChunkType DEF ChunksTyped, Working, Memory
<1>4. k.tmp # Nil => k.tmp \notin Live
  BY DEF Working, Locals
<1>5. CASE va = k.va
  <2>1. CASE pc \in {"swapIn", "putBack", "release", "unreserve"}
    BY <1>1, <1>5, <2>1 DEF BackingAt, Working, Locals, Unplugged, Moving, Destroying
  <2>2. CASE pc \in {"permit", "permitNew"}
    BY <1>1, <1>2, <1>5, <2>2 DEF BackingAt, Working, Locals, Unplugged, Moving, Creating
  <2>3. CASE pc \notin {"swapIn", "putBack", "release", "unreserve", "permit", "permitNew"}
    BY <1>1, <1>2, <1>3, <1>4, <1>5, <2>3, ChunkType
    DEF ChunksTyped, BackingAt, Working, Locals, Unplugged, Moving, Creating, Gone
  <2>4. QED
    BY <2>1, <2>2, <2>3
<1>6. CASE va # k.va
  BY <1>1, <1>2, <1>3, <1>4, <1>6, ChunkType DEF ChunksTyped, BackingAt, Working, Locals, Moving, Creating
<1>7. QED
  BY <1>5, <1>6

(* The results of a call that has ended but not fatally. *)
Exact ==
    /\ reserved = Live /\ access = Live
    /\ \A va \in Va : backing[va] = chunks[va].h
    /\ \A h \in Handle : memory[h] # Unallocated <=> \E va \in Live : chunks[va].h = h
    /\ \A va \in Live : memory[chunks[va].h] = [loc |-> chunks[va].loc, data |-> va]
    /\ \A va, wa \in Live : chunks[va].h = chunks[wa].h => va = wa
    /\ linked => \A va \in Va : recorded[va] = chunks[va].loc

(* Between calls the invariant says just that the driver holds what        *)
(* chunks_ says.                                                           *)
LEMMA ExactWorking == TypeOK /\ pc = "idle" /\ k = Idle => (Working <=> Exact)
<1> SUFFICES ASSUME pc = "idle", k = Idle, TypeOK PROVE Working <=> Exact
  OBVIOUS
<1>1. k.va = Nil /\ k.tmp = Nil /\ k.h = Nil
  BY DEF Idle
<1>2. Nil \notin Live /\ Nil \notin Va
  BY BackendAssumption DEF Live
<1>3. Locals
  BY <1>1, <1>2 DEF Locals, Creating, Moving, Destroying
<1>4. Driver <=> reserved = Live /\ access = Live /\ \A va \in Va : backing[va] = chunks[va].h
  BY <1>1, <1>2 DEF Driver, BackingAt, Creating, Unplugged, TypeOK, Live
<1>5. Memory <=> /\ \A h \in Handle : memory[h] # Unallocated <=> \E va \in Live : chunks[va].h = h
                 /\ \A va \in Live : memory[chunks[va].h] = [loc |-> chunks[va].loc, data |-> va]
                 /\ \A va, wa \in Live : chunks[va].h = chunks[wa].h => va = wa
  BY <1>1, <1>2, BackendAssumption DEF Memory, Gone
<1>6. Broker <=> (linked => \A va \in Va : recorded[va] = chunks[va].loc)
  BY <1>1, <1>2 DEF Broker, Creating
<1>7. QED
  BY <1>3, <1>4, <1>5, <1>6 DEF Working, Exact

(* What every step keeps: after Fatal, which no call follows, only that no *)
(* mapping dangles.                                                        *)
Kept == /\ TypeOK
        /\ Working \/ (status = "Fatal" /\ MappingsLive)
        /\ status = "Fatal" => pc = "idle"

(* A call that ends with the driver as chunks_ has it keeps the invariant. *)
LEMMA Ending ==
    ASSUME TypeOK', pc' = "idle", k' = Idle, Exact' PROVE Kept'
<1>1. (TypeOK /\ pc = "idle" /\ k = Idle => (Working <=> Exact))'
  BY ExactWorking, PTL
<1>2. QED
  BY <1>1 DEF Kept

(* A call is under way, or may start.                                      *)
Active == TypeOK /\ Working /\ status # "Fatal"

(* The address range is reserved, or there is nothing to undo.             *)
LEMMA ReserveVaStep == ASSUME Active, ReserveVa PROVE Kept'
<1> USE BackendAssumption DEF Active
<1>1. ASSUME NEW va \in Va \ reserved, reserved' = reserved \cup {va}, k' = [k EXCEPT !.va = va],
             pc = "reserve", pc' = "place",
             UNCHANGED <<memory, backing, access, chunks, used, linked, recorded, status>>
      PROVE  Kept'
  <2>1. k' \in Call
    BY <1>1 DEF Call, TypeOK
  <2>2. /\ k'.va = va /\ k'.h = k.h /\ k'.tmp = k.tmp /\ k'.size = k.size
        /\ k'.asked = k.asked
    BY <1>1 DEF TypeOK, Call
  <2>3. k.h = Nil /\ k.tmp = Nil /\ k.va = Nil /\ k.size \in Size /\ ~k.asked
    BY <1>1 DEF Working, Locals, Moving
  <2>4. TypeOK'
    BY <1>1, <2>1 DEF TypeOK, Pc
  <2>5. Live' = Live /\ va \notin Live /\ Nil \notin Live
    BY <1>1, <2>3 DEF Live, Working, Driver
  <2>6. Locals'
    BY <1>1, <2>2, <2>3, <2>5 DEF Locals, Creating, Moving, Destroying
  <2>7. Driver'
    BY <1>1, <2>2, <2>3, <2>5 DEF Working, Driver, Creating, Unplugged, BackingAt, Live
  <2>8. Memory'
    BY <1>1, <2>2, <2>3, <2>5 DEF Working, Memory, Gone
  <2>9. Broker'
    BY <1>1, <2>2, <2>3, <2>5 DEF Working, Broker, Creating, Live, NoChunk
  <2>10. QED
    BY <1>1, <2>4, <2>6, <2>7, <2>8, <2>9 DEF Kept, Working
<1>2. ASSUME NEW s \in Failure, pc = "reserve", Return(s),
             UNCHANGED <<cuda, chunks, used, linked, recorded>>
      PROVE  Kept'
  <2>1. TypeOK'
    BY <1>2, IdleCall DEF TypeOK, Return, cuda, Pc
  <2>2. k.h = Nil /\ k.tmp = Nil /\ k.va = Nil
    BY <1>2 DEF Working, Locals, Moving
  <2>3. Exact
    BY <1>2, <2>2 DEF Working, Driver, Memory, Broker, Creating, Unplugged, BackingAt, Gone,
                      Exact, Live, TypeOK
  <2>4. Exact'
    BY <1>2, <2>3 DEF Exact, cuda, Live
  <2>5. QED
    BY <1>2, <2>1, <2>4, Ending DEF Return
<1>3. QED
  BY <1>1, <1>2 DEF ReserveVa, Goto, cuda

(* Placed locally or by the broker, or refused and the range given back.   *)
LEMMA PlaceStep == ASSUME Active, Place PROVE Kept'
<1> USE BackendAssumption DEF Active
<1>1. /\ k.h = Nil /\ k.tmp = Nil /\ k.va \in Va \ Live /\ k.size \in Size
      /\ k.asked = FALSE /\ linked \in BOOLEAN /\ pc = "place"
  BY DEF Place, Working, Locals, Moving, Creating, TypeOK, Call
<1>2. ASSUME NEW l \in Loc, NEW asked \in BOOLEAN, k' = [k EXCEPT !.loc = l, !.asked = asked],
             linked' => asked, linked' \in BOOLEAN,
             recorded' \in [Va -> Loc \cup {"None"}],
             linked' => \A va \in Va \ {k.va} : recorded'[va] = recorded[va],
             linked' => linked, pc' = "create", UNCHANGED <<cuda, chunks, used, status>>
      PROVE  Kept'
  <2>1. k' \in Call
    BY <1>2 DEF Call, TypeOK
  <2>2. /\ k'.va = k.va /\ k'.h = k.h /\ k'.tmp = k.tmp /\ k'.size = k.size
        /\ k'.asked = asked /\ k'.loc = l
    BY <1>2 DEF TypeOK, Call
  <2>3. TypeOK'
    BY <1>2, <2>1 DEF TypeOK, Pc, cuda
  <2>4. Live' = Live /\ Nil \notin Live
    BY <1>2 DEF Live
  <2>5. Locals'
    BY <1>1, <1>2, <2>2, <2>4 DEF Locals, Creating, Moving, Destroying
  <2>6. Driver'
    BY <1>1, <1>2, <2>2, <2>4 DEF Working, Driver, Creating, Unplugged, BackingAt, Live, cuda
  <2>7. Memory'
    BY <1>1, <1>2, <2>2, <2>4 DEF Working, Memory, Gone, cuda
  <2>8. Broker'
    BY <1>1, <1>2, <2>2, <2>4 DEF Working, Broker, Creating
  <2>9. QED
    BY <1>2, <2>3, <2>5, <2>6, <2>7, <2>8 DEF Kept, Working
<1>3. ASSUME linked, reserved' = reserved \ {k.va}, Return("NoMemory"),
             UNCHANGED <<memory, backing, access, linked, recorded, chunks, used>>
      PROVE  Kept'
  <2>1. TypeOK'
    BY <1>3, IdleCall DEF TypeOK, Return, Pc, Failure
  <2>2. Live' = Live
    BY <1>3 DEF Live
  <2>3. reserved' = Live /\ access = Live
    BY <1>1, <1>3 DEF Working, Driver, Creating, Unplugged, TypeOK, Live
  <2>4. \A va \in Va : backing[va] = chunks[va].h
    BY <1>1, <1>3 DEF Working, Driver, BackingAt
  <2>5. /\ \A h \in Handle : memory[h] # Unallocated <=> \E va \in Live : chunks[va].h = h
        /\ \A va \in Live : memory[chunks[va].h] = [loc |-> chunks[va].loc, data |-> va]
        /\ \A va, wa \in Live : chunks[va].h = chunks[wa].h => va = wa
    BY <1>1 DEF Working, Memory, Gone
  <2>6. linked => \A va \in Va : recorded[va] = chunks[va].loc
    BY <1>1 DEF Working, Broker, Creating, Live, NoChunk
  <2>7. Exact'
    BY <1>3, <2>2, <2>3, <2>4, <2>5, <2>6 DEF Exact
  <2>8. QED
    BY <1>3, <2>1, <2>7, Ending DEF Return
<1>4. QED
  <2>1. CASE ~linked /\ k' = [k EXCEPT !.loc = "Device"] /\ Goto("create") /\ UNCHANGED <<cuda, linked, recorded, chunks, used>>
    BY <1>1, <1>2, <2>1 DEF Goto, TypeOK, Loc
  <2>2. CASE linked /\ LinkLost /\ k' = [k EXCEPT !.loc = "Device"] /\ Goto("create") /\ UNCHANGED <<cuda, chunks, used>>
    BY <1>1, <1>2, <2>2 DEF Goto, TypeOK, Loc, LinkLost
  <2>3. ASSUME NEW l \in Loc, linked, k' = [k EXCEPT !.loc = l, !.asked = TRUE],
               recorded' = [recorded EXCEPT ![k.va] = l], Goto("create"), UNCHANGED <<cuda, linked, chunks, used>>
        PROVE Kept'
    BY <1>1, <1>2, <2>3 DEF Goto, TypeOK
  <2>4. QED
    BY <1>3, <2>1, <2>2, <2>3 DEF Place

(* The three helpers of the way out keep the types of what they write.     *)
LEMMA ReleaseType ==
    ASSUME TypeOK, NEW hs, Release(hs)
    PROVE  memory' \in [Handle -> [loc : Loc \cup {"None"}, data : Va \cup {Nil}]]
<1>1. Unallocated \in [loc : Loc \cup {"None"}, data : Va \cup {Nil}]
  BY DEF Unallocated
<1>2. QED
  BY <1>1 DEF TypeOK, Release

(* Unmap keeps the types of the mappings.                                  *)
LEMMA UnmapType ==
    ASSUME TypeOK, NEW vas, Unmap(vas)
    PROVE  backing' \in [Va -> Handle \cup {Nil}] /\ access' \subseteq Va
  BY DEF TypeOK, Unmap

(* Report keeps the type of what the broker records.                       *)
LEMMA ReportType ==
    ASSUME TypeOK, NEW l \in Loc \cup {"None"}, Report(l)
    PROVE  recorded' \in [Va -> Loc \cup {"None"}]
  BY DEF TypeOK, Report

(* What holds from the placement to the end of a create.                   *)
LEMMA CreateFacts ==
    ASSUME Active, pc \in {"create", "map", "permit"}
    PROVE  /\ k.va \in Va \ Live /\ k.va # Nil /\ k.loc \in Loc /\ k.size \in Size /\ k.tmp = Nil
           /\ chunks[k.va] = NoChunk /\ chunks[k.va].loc = "None" /\ chunks[k.va].h = Nil
           /\ k.h \in Handle \cup {Nil} /\ (k.h = Nil <=> pc = "create")
           /\ (linked => k.asked) /\ k.asked \in BOOLEAN /\ linked \in BOOLEAN
           /\ reserved = Live \cup {k.va} /\ access = Live
           /\ \A va \in Va \ {k.va} : backing[va] = chunks[va].h
           /\ \A h \in Handle : memory[h] # Unallocated <=> h = k.h \/ \E va \in Live : chunks[va].h = h
           /\ \A va \in Live : chunks[va].h # Nil /\ chunks[va].h \in Handle
           /\ \A va \in Live : memory[chunks[va].h] = [loc |-> chunks[va].loc, data |-> va]
           /\ \A va, wa \in Live : chunks[va].h = chunks[wa].h => va = wa
           /\ linked => \A va \in Va \ {k.va} : recorded[va] = chunks[va].loc
<1> USE BackendAssumption DEF Active, Working
<1>1. /\ k.va \in Va \ Live /\ k.va # Nil /\ k.loc \in Loc /\ k.size \in Size /\ k.tmp = Nil
      /\ (k.h = Nil <=> pc = "create")
      /\ (linked => k.asked)
  BY DEF Locals, Creating, Moving
<1>2. k.h \in Handle \cup {Nil} /\ k.asked \in BOOLEAN /\ linked \in BOOLEAN
  BY DEF TypeOK, Call
<1>3. chunks[k.va] = NoChunk /\ chunks[k.va].loc = "None" /\ chunks[k.va].h = Nil
  BY <1>1 DEF Live, NoChunk
<1>4. reserved = Live \cup {k.va} /\ access = Live
  BY <1>1 DEF Driver, Creating, Unplugged, TypeOK, Live
<1>5. \A va \in Va \ {k.va} : backing[va] = chunks[va].h
  BY <1>1 DEF Driver, BackingAt
<1>6. /\ \A h \in Handle : memory[h] # Unallocated <=> h = k.h \/ \E va \in Live : chunks[va].h = h
      /\ \A va \in Live : memory[chunks[va].h] = [loc |-> chunks[va].loc, data |-> va]
      /\ \A va, wa \in Live : chunks[va].h = chunks[wa].h => va = wa
  BY DEF Memory, Gone
<1>7. linked => \A va \in Va \ {k.va} : recorded[va] = chunks[va].loc
  BY DEF Broker
<1>8. \A va \in Live : chunks[va].h # Nil /\ chunks[va].h \in Handle
  BY ChunkType DEF ChunksTyped
<1>9. QED
  BY <1>1, <1>2, <1>3, <1>4, <1>5, <1>6, <1>7, <1>8

(* The way out of create undoes exactly what the call has done so far.     *)
LEMMA CreateFailsStep ==
    ASSUME Active, pc \in {"create", "map", "permit"}, NEW s \in Failure, CreateFails(s)
    PROVE  Kept'
<1> USE BackendAssumption
<1>1. UNCHANGED <<chunks, used, linked>> /\ pc' = "idle" /\ k' = Idle /\ status' = s
  BY DEF CreateFails, Return
<1>2. TypeOK'
  <2>1. TypeOK /\ reserved' \subseteq Va
    BY DEF CreateFails, Active, TypeOK
  <2>2. memory' \in [Handle -> [loc : Loc \cup {"None"}, data : Va \cup {Nil}]]
    BY <2>1, ReleaseType DEF CreateFails
  <2>3. backing' \in [Va -> Handle \cup {Nil}] /\ access' \subseteq Va
    BY <2>1, UnmapType DEF CreateFails
  <2>4. recorded' \in [Va -> Loc \cup {"None"}]
    BY <2>1, ReportType DEF CreateFails
  <2>5. QED
    BY <1>1, <2>1, <2>2, <2>3, <2>4, IdleCall DEF TypeOK, Pc
<1>3. Live' = Live
  BY <1>1 DEF Live
<1>4. reserved' = Live /\ access' = Live
  BY CreateFacts DEF CreateFails, Unmap
<1>5. \A va \in Va : backing'[va] = chunks[va].h
  BY CreateFacts DEF CreateFails, Unmap
<1>6. \A h \in Handle : memory'[h] = IF h = k.h THEN Unallocated ELSE memory[h]
  BY DEF CreateFails, Release
<1>7. \A h \in Handle : memory'[h] # Unallocated <=> \E va \in Live : chunks[va].h = h
  <2>1. \A va \in Live : chunks[va].h # k.h
    BY CreateFacts DEF Active, Working, Memory
  <2>2. QED
    BY <1>6, <2>1, CreateFacts
<1>8. \A va \in Live : memory'[chunks[va].h] = [loc |-> chunks[va].loc, data |-> va]
  BY <1>6, CreateFacts DEF Active, Working, Memory
<1>9. linked => \A va \in Va : recorded'[va] = chunks[va].loc
  BY CreateFacts DEF CreateFails, Report, Active, TypeOK
<1>10. Exact'
  BY <1>1, <1>3, <1>4, <1>5, <1>7, <1>8, <1>9, CreateFacts DEF Exact
<1>11. QED
  BY <1>1, <1>2, <1>10, Ending

(* A handle where it was asked for, or the host tried next, or the way     *)
(* out.                                                                    *)
LEMMA CreateHandleStep == ASSUME Active, CreateHandle PROVE Kept'
<1> USE BackendAssumption
<1> pc = "create" /\ TypeOK /\ Nil \notin Live
  BY DEF CreateHandle, Active, Live
<1>1. ASSUME NEW h \in Handle, Allocate(k.loc, h), k' = [k EXCEPT !.h = h], Report(k.loc), Goto("map"),
             UNCHANGED <<reserved, backing, access, chunks, used, linked>>
      PROVE  Kept'
  <2>1. /\ k' \in Call /\ k'.va = k.va /\ k'.h = h /\ k'.tmp = k.tmp /\ k'.size = k.size
        /\ k'.asked = k.asked /\ k'.loc = k.loc
    BY <1>1 DEF TypeOK, Call
  <2>2. /\ pc' = "map" /\ UNCHANGED status /\ k.h = Nil /\ memory[h] = Unallocated /\ h # Nil
        /\ memory' \in [Handle -> [loc : Loc \cup {"None"}, data : Va \cup {Nil}]]
        /\ memory'[h] # Unallocated /\ memory'[h].loc = k.loc
        /\ \A g \in Handle \ {h} : memory'[g] = memory[g]
    BY <1>1, CreateFacts DEF Goto, Allocate, TypeOK, Unallocated, Loc
  <2>3. TypeOK'
    BY <1>1, <2>1, <2>2, ReportType, CreateFacts DEF TypeOK, Pc
  <2>4. Live' = Live
    BY <1>1 DEF Live
  <2>5. Locals'
    BY <1>1, <2>1, <2>2, <2>4, CreateFacts DEF Locals, Creating, Moving, Destroying
  <2>6. Driver'
    BY <1>1, <2>1, <2>2, <2>4, CreateFacts DEF Active, Working, Driver, BackingAt, Creating, Unplugged, Live
  <2>7. \A va \in Live : chunks[va].h # h
    BY <2>2, CreateFacts
  <2>8. Memory'
    BY <1>1, <2>1, <2>2, <2>4, <2>7, CreateFacts DEF Memory, Gone
  <2>9. Broker'
    BY <1>1, <2>1, <2>2, CreateFacts DEF Broker, Creating, Report, TypeOK
  <2>10. QED
    BY <2>2, <2>3, <2>5, <2>6, <2>8, <2>9 DEF Kept, Working, Active
<1>2. ASSUME k.loc = "Device", k' = [k EXCEPT !.loc = "Host"],
             UNCHANGED <<cuda, chunks, used, linked, recorded, pc, status>>
      PROVE  Kept'
  <2>1. /\ k' \in Call /\ k'.va = k.va /\ k'.h = k.h /\ k'.tmp = k.tmp /\ k'.size = k.size
        /\ k'.asked = k.asked /\ k'.loc = "Host"
    BY <1>2 DEF TypeOK, Call, Loc
  <2>2. TypeOK' /\ Live' = Live /\ k.h = Nil
    BY <1>2, <2>1, CreateFacts DEF TypeOK, cuda, Live
  <2>3. Locals'
    BY <1>2, <2>1, <2>2, CreateFacts DEF Locals, Creating, Moving, Destroying, Loc
  <2>4. Driver'
    BY <1>2, <2>1, <2>2, CreateFacts DEF Active, Working, Driver, BackingAt, Creating, Unplugged, Live, cuda
  <2>5. Memory'
    BY <1>2, <2>1, <2>2, CreateFacts DEF Memory, Gone, cuda
  <2>6. Broker'
    BY <1>2, <2>1, <2>2, CreateFacts DEF Broker, Creating
  <2>7. QED
    BY <1>2, <2>2, <2>3, <2>4, <2>5, <2>6 DEF Kept, Working, Active
<1>3. QED
  BY <1>1, <1>2, CreateFailsStep DEF CreateHandle

(* The new handle is mapped, or the way out.                               *)
LEMMA MapChunkStep == ASSUME Active, MapChunk PROVE Kept'
<1> USE BackendAssumption
<1> pc = "map" /\ TypeOK /\ Nil \notin Live
  BY DEF MapChunk, Active, Live
<1>1. ASSUME MapAt(k.va, k.h), Goto("permit"),
             UNCHANGED <<reserved, memory, access, chunks, used, linked, recorded, k>>
      PROVE  Kept'
  <2>1. /\ pc' = "permit" /\ UNCHANGED status /\ Live' = Live /\ k.h \in Handle
        /\ backing' = [backing EXCEPT ![k.va] = k.h]
    BY <1>1, CreateFacts DEF Goto, MapAt, Live
  <2>2. TypeOK'
    BY <1>1, <2>1 DEF TypeOK, Pc
  <2>3. Locals'
    BY <1>1, <2>1, CreateFacts DEF Locals, Creating, Moving, Destroying
  <2>4. Driver'
    BY <1>1, <2>1, CreateFacts DEF Driver, BackingAt, Creating, Unplugged, Live, TypeOK
  <2>5. Memory'
    BY <1>1, <2>1, CreateFacts DEF Memory, Gone, Active, Working
  <2>6. Broker'
    BY <1>1, <2>1, CreateFacts DEF Broker, Creating, Active, Working
  <2>7. QED
    BY <2>1, <2>2, <2>3, <2>4, <2>5, <2>6 DEF Kept, Working, Active
<1>2. QED
  BY <1>1, CreateFailsStep DEF MapChunk

(* The chunk goes live with its handle, mapping and contents in place.     *)
LEMMA PermitChunkStep == ASSUME Active, PermitChunk PROVE Kept'
<1> USE BackendAssumption
<1> DEFINE new == [h |-> k.h, size |-> k.size, loc |-> k.loc]
<1> pc = "permit" /\ TypeOK /\ Nil \notin Live
  BY DEF PermitChunk, Active, Live
<1>1. ASSUME Permit(k.va), memory' = [memory EXCEPT ![k.h].data = k.va],
             chunks' = [chunks EXCEPT ![k.va] = new],
             used' = [used EXCEPT ![k.loc] = @ + k.size],
             Return("Ok"), UNCHANGED <<reserved, backing, linked, recorded>>
      PROVE  Kept'
  <2>1. /\ pc' = "idle" /\ k' = Idle /\ status' = "Ok" /\ access' = access \cup {k.va}
        /\ k.h \in Handle /\ k.h # Nil /\ k.size \in Nat
    BY <1>1, CreateFacts DEF Return, Permit
  <2>2. /\ chunks' \in [Va -> [h : Handle, size : Size, loc : Loc] \cup {NoChunk}]
        /\ chunks'[k.va] = new /\ new # NoChunk /\ \A va \in Va \ {k.va} : chunks'[va] = chunks[va]
    BY <1>1, <2>1, CreateFacts DEF TypeOK, NoChunk
  <2>3. Live' = Live \cup {k.va}
    BY <1>1, <2>2, CreateFacts DEF Live
  <2>4. memory[k.h].loc = k.loc /\ \A va \in Live : chunks[va].h # k.h
    BY <2>1 DEF Active, Working, Memory
  <2>5. /\ memory' \in [Handle -> [loc : Loc \cup {"None"}, data : Va \cup {Nil}]]
        /\ memory'[k.h] = [loc |-> k.loc, data |-> k.va]
        /\ \A h \in Handle \ {k.h} : memory'[h] = memory[h]
    BY <1>1, <2>1, <2>4, CreateFacts DEF TypeOK
  <2>6. TypeOK'
    <3>1. used' \in [Loc -> Int]
      BY <1>1, <2>1, CreateFacts DEF TypeOK
    <3>2. QED
      BY <1>1, <2>1, <2>2, <2>5, <3>1, IdleCall, CreateFacts DEF TypeOK, Pc
  <2>7. reserved' = Live' /\ access' = Live'
    BY <1>1, <2>1, <2>3, CreateFacts
  <2>8. \A va \in Va : backing'[va] = chunks'[va].h
    BY <1>1, <2>1, <2>2, CreateFacts DEF Active, Working, Driver, BackingAt
  <2>9. \A h \in Handle : memory'[h] # Unallocated <=> \E va \in Live' : chunks'[va].h = h
    <3>1. memory'[k.h] # Unallocated /\ k.va \in Live' /\ chunks'[k.va].h = k.h
      BY <2>2, <2>3, <2>5, CreateFacts DEF Unallocated
    <3>2. ASSUME NEW h \in Handle \ {k.h}
          PROVE  memory'[h] # Unallocated <=> \E va \in Live' : chunks'[va].h = h
      <4>1. memory[h] # Unallocated <=> \E va \in Live : chunks[va].h = h
        BY <3>2, CreateFacts
      <4>2. \A va \in Live : chunks'[va] = chunks[va]
        BY <2>2, CreateFacts DEF Live
      <4>3. QED
        BY <2>2, <2>3, <2>5, <3>2, <4>1, <4>2
    <3>3. QED
      BY <3>1, <3>2
  <2>10. \A va \in Live' : memory'[chunks'[va].h] = [loc |-> chunks'[va].loc, data |-> va]
    <3>1. ASSUME NEW va \in Live
          PROVE  memory'[chunks'[va].h] = [loc |-> chunks'[va].loc, data |-> va]
      BY <2>2, <2>4, <2>5, CreateFacts DEF Live
    <3>2. QED
      BY <2>2, <2>3, <2>5, <3>1
  <2>11. \A va, wa \in Live' : chunks'[va].h = chunks'[wa].h => va = wa
    BY <2>2, <2>3, <2>4, CreateFacts DEF Live
  <2>12. linked' => \A va \in Va : recorded'[va] = chunks'[va].loc
    BY <1>1, <2>2, CreateFacts DEF Active, Working, Broker, Creating
  <2>13. Exact'
    BY <2>7, <2>8, <2>9, <2>10, <2>11, <2>12 DEF Exact
  <2>14. QED
    BY <2>1, <2>6, <2>13, Ending
<1>2. QED
  BY <1>1, CreateFailsStep DEF PermitChunk

(* What holds at every step of a move.                                     *)
LEMMA MoveFacts ==
    ASSUME Active, Moving
    PROVE  /\ k.va \in Live /\ k.va # Nil /\ k.loc \in Loc /\ k.loc # chunks[k.va].loc
           /\ k.tmp \in (Va \ Live) \cup {Nil} /\ k.h \in Handle \cup {Nil} /\ k.tmp # k.va
           /\ (k.h = Nil <=> pc \in {"ask", "new"})
           /\ (k.tmp = Nil <=> pc \notin {"mapScratch", "permitScratch", "copy"})
           /\ (linked /\ pc # "ask" => k.asked) /\ k.asked \in BOOLEAN /\ linked \in BOOLEAN
           /\ reserved = Live \cup ({k.tmp} \ {Nil})
           /\ \A va \in Va : backing[va] = BackingAt(va)
           /\ \A va \in Va \ {k.va, k.tmp} : backing[va] = chunks[va].h /\ (va \in access <=> va \in Live)
           /\ \A h \in Handle : memory[h] # Unallocated <=> h = k.h \/ \E va \in Live : chunks[va].h = h
           /\ \A va \in Live : chunks[va].h # Nil /\ chunks[va].h \in Handle /\ chunks[va].h # k.h
           /\ \A va \in Live : memory[chunks[va].h] = [loc |-> chunks[va].loc, data |-> va]
           /\ \A va, wa \in Live : chunks[va].h = chunks[wa].h => va = wa
           /\ linked => \A va \in Va : recorded[va] = chunks[va].loc
<1> USE BackendAssumption DEF Active, Working
<1> Nil \notin Live
  BY DEF Live
<1>1. /\ k.va \in Live /\ k.va # Nil /\ k.loc \in Loc /\ k.loc # chunks[k.va].loc /\ k.tmp \notin Live
      /\ k.tmp # k.va
      /\ (k.h = Nil <=> pc \in {"ask", "new"})
      /\ (k.tmp = Nil <=> pc \notin {"mapScratch", "permitScratch", "copy"})
      /\ (linked /\ pc # "ask" => k.asked)
  BY DEF Locals, Creating, Moving
<1>2. /\ k.h \in Handle \cup {Nil} /\ k.asked \in BOOLEAN /\ linked \in BOOLEAN
      /\ k.tmp \in (Va \ Live) \cup {Nil}
  BY <1>1 DEF TypeOK, Call
<1>3. reserved = Live \cup ({k.tmp} \ {Nil}) /\ \A va \in Va : backing[va] = BackingAt(va)
  BY DEF Driver, Creating, Moving
<1>4. \A va \in Va \ {k.va, k.tmp} : backing[va] = chunks[va].h /\ (va \in access <=> va \in Live)
  BY DEF Driver, BackingAt
<1>5. /\ \A h \in Handle : memory[h] # Unallocated <=> h = k.h \/ \E va \in Live : chunks[va].h = h
      /\ \A va \in Live : memory[chunks[va].h] = [loc |-> chunks[va].loc, data |-> va]
      /\ \A va, wa \in Live : chunks[va].h = chunks[wa].h => va = wa
  BY DEF Memory, Gone, Moving
<1>6. linked => \A va \in Va : recorded[va] = chunks[va].loc
  BY DEF Broker, Moving, Creating
<1>7. \A va \in Live : chunks[va].h # Nil /\ chunks[va].h \in Handle /\ chunks[va].h # k.h
  BY ChunkType DEF ChunksTyped, Memory
<1>8. QED
  BY <1>1, <1>2, <1>3, <1>4, <1>5, <1>6, <1>7

(* A move that fails where the old handle is still mapped. *)
LEMMA MoveFailsStep ==
    ASSUME Active, Moving, pc \notin {"ask", "swapIn", "permitNew", "putBack", "permitBack"},
           NEW s \in Failure, MoveFails(s)
    PROVE  Kept'
<1> USE BackendAssumption
<1> TypeOK /\ Nil \notin Live /\ Live \subseteq Va
  BY DEF Active, Live
<1>1. UNCHANGED <<chunks, used, linked>> /\ pc' = "idle" /\ k' = Idle /\ status' = s /\ Live' = Live
  BY DEF MoveFails, Return, Live
<1>2. TypeOK'
  <2>1. reserved' \subseteq Va
    BY DEF MoveFails, TypeOK
  <2>2. memory' \in [Handle -> [loc : Loc \cup {"None"}, data : Va \cup {Nil}]]
    BY ReleaseType DEF MoveFails
  <2>3. backing' \in [Va -> Handle \cup {Nil}] /\ access' \subseteq Va
    BY UnmapType DEF MoveFails
  <2>4. Old.loc \in Loc
    BY ChunkType, MoveFacts DEF ChunksTyped, Old
  <2>5. recorded' \in [Va -> Loc \cup {"None"}]
    BY <2>4, ReportType DEF MoveFails
  <2>6. QED
    BY <1>1, <2>1, <2>2, <2>3, <2>5, IdleCall DEF TypeOK, Pc
<1>3. reserved' = Live
  BY MoveFacts DEF MoveFails
<1>4. \A va \in Va \ {k.tmp} : backing[va] = chunks[va].h /\ (va \in access <=> va \in Live)
  BY MoveFacts DEF Active, Working, Driver, BackingAt, Unplugged, Moving
<1>5. access' = Live
  BY <1>4, MoveFacts DEF MoveFails, Unmap, TypeOK
<1>6. \A va \in Va : backing'[va] = chunks[va].h
  BY <1>4, MoveFacts, ChunkType DEF MoveFails, Unmap, ChunksTyped
<1>7. \A h \in Handle : memory'[h] = IF h = k.h THEN Unallocated ELSE memory[h]
  BY DEF MoveFails, Release
<1>8. \A h \in Handle : memory'[h] # Unallocated <=> \E va \in Live : chunks[va].h = h
  BY <1>7, MoveFacts
<1>9. \A va \in Live : memory'[chunks[va].h] = [loc |-> chunks[va].loc, data |-> va]
  BY <1>7, MoveFacts
<1>10. linked => \A va \in Va : recorded'[va] = chunks[va].loc
  BY MoveFacts DEF MoveFails, Report, TypeOK, Old
<1>11. Exact'
  BY <1>1, <1>3, <1>5, <1>6, <1>8, <1>9, <1>10, MoveFacts DEF Exact
<1>12. QED
  BY <1>1, <1>2, <1>11, Ending

(* The broker agrees, is not there, or refuses before anything was done.   *)
LEMMA AskMoveStep == ASSUME Active, AskMove PROVE Kept'
<1> USE BackendAssumption
<1> pc = "ask" /\ Moving /\ TypeOK /\ Nil \notin Live /\ Live' = Live
  BY DEF AskMove, Active, Live, Moving, cuda
<1>1. ASSUME NEW asked \in BOOLEAN, linked' => asked, linked' => linked /\ UNCHANGED recorded, linked' \in BOOLEAN,
             recorded' \in [Va -> Loc \cup {"None"}], k' = [k EXCEPT !.asked = asked], Goto("new"),
             UNCHANGED <<cuda, chunks, used>>
      PROVE  Kept'
  <2>1. /\ k' \in Call /\ k'.va = k.va /\ k'.h = k.h /\ k'.tmp = k.tmp /\ k'.size = k.size
        /\ k'.asked = asked /\ k'.loc = k.loc /\ pc' = "new" /\ UNCHANGED status
    BY <1>1 DEF TypeOK, Call, Goto
  <2>2. TypeOK'
    BY <1>1, <2>1 DEF TypeOK, Pc, cuda
  <2>3. Locals'
    BY <1>1, <2>1, MoveFacts DEF Locals, Creating, Moving, Destroying
  <2>4. Driver'
    BY <1>1, <2>1, MoveFacts DEF Active, Working, Driver, BackingAt, Creating, Unplugged, cuda
  <2>5. Memory'
    BY <1>1, <2>1, MoveFacts DEF Memory, Gone, cuda
  <2>6. Broker'
    BY <1>1, <2>1, MoveFacts DEF Broker, Creating
  <2>7. QED
    BY <2>1, <2>2, <2>3, <2>4, <2>5, <2>6 DEF Kept, Working, Active
<1>2. ASSUME linked, Return("NoMemory"), UNCHANGED <<cuda, chunks, used, linked, recorded>>
      PROVE  Kept'
  <2>1. pc' = "idle" /\ k' = Idle
    BY <1>2 DEF Return
  <2>2. TypeOK'
    BY <1>2, IdleCall DEF TypeOK, Return, Pc, cuda, Failure
  <2>3. k.tmp = Nil /\ k.h = Nil
    BY MoveFacts
  <2>4. reserved = Live /\ access = Live /\ \A va \in Va : backing[va] = chunks[va].h
    BY <2>3, MoveFacts DEF Active, Working, Driver, BackingAt, Unplugged, TypeOK, Live
  <2>5. \A h \in Handle : memory[h] # Unallocated <=> \E va \in Live : chunks[va].h = h
    BY <2>3, MoveFacts
  <2>6. Exact'
    BY <1>2, <2>4, <2>5, MoveFacts DEF Exact, cuda
  <2>7. QED
    BY <2>1, <2>2, <2>6, Ending
<1>3. QED
  <2>1. CASE ~linked /\ Goto("new") /\ UNCHANGED <<cuda, chunks, used, linked, recorded, k>>
    <3>1. k' = [k EXCEPT !.asked = k.asked] /\ k.asked \in BOOLEAN
      BY <2>1 DEF TypeOK, Call
    <3>2. QED
      BY <1>1, <2>1, <3>1 DEF TypeOK
  <2>2. CASE linked /\ LinkLost /\ Goto("new") /\ UNCHANGED <<cuda, chunks, used, k>>
    <3>1. k' = [k EXCEPT !.asked = k.asked] /\ k.asked \in BOOLEAN
      BY <2>2 DEF TypeOK, Call
    <3>2. QED
      BY <1>1, <2>2, <3>1 DEF TypeOK, LinkLost
  <2>3. CASE linked /\ Goto("new") /\ k' = [k EXCEPT !.asked = TRUE] /\ UNCHANGED <<cuda, chunks, used, linked, recorded>>
    BY <1>1, <2>3 DEF TypeOK
  <2>4. QED
    BY <1>2, <2>1, <2>2, <2>3 DEF AskMove

(* The second handle belongs to no chunk.                                  *)
LEMMA NewHandleStep == ASSUME Active, NewHandle PROVE Kept'
<1> USE BackendAssumption
<1> pc = "new" /\ Moving /\ TypeOK /\ Nil \notin Live
  BY DEF NewHandle, Active, Live, Moving
<1>1. ASSUME NEW h \in Handle, Allocate(k.loc, h), k' = [k EXCEPT !.h = h], Goto("scratch"),
             UNCHANGED <<reserved, backing, access, chunks, used, linked, recorded>>
      PROVE  Kept'
  <2>1. /\ k' \in Call /\ k'.va = k.va /\ k'.h = h /\ k'.tmp = k.tmp /\ k'.size = k.size
        /\ k'.asked = k.asked /\ k'.loc = k.loc /\ pc' = "scratch" /\ UNCHANGED status
    BY <1>1 DEF TypeOK, Call, Goto
  <2>2. /\ k.h = Nil /\ k.tmp = Nil /\ memory[h] = Unallocated /\ h # Nil
        /\ memory' \in [Handle -> [loc : Loc \cup {"None"}, data : Va \cup {Nil}]]
        /\ memory'[h] # Unallocated /\ memory'[h].loc = k.loc
        /\ \A g \in Handle \ {h} : memory'[g] = memory[g]
    BY <1>1, MoveFacts DEF Allocate, TypeOK, Unallocated, Loc
  <2>3. TypeOK' /\ Live' = Live
    BY <1>1, <2>1, <2>2 DEF TypeOK, Pc, Live
  <2>4. Locals'
    BY <1>1, <2>1, <2>2, <2>3, MoveFacts DEF Locals, Creating, Moving, Destroying
  <2>5. Driver'
    BY <1>1, <2>1, <2>2, <2>3, MoveFacts DEF Active, Working, Driver, BackingAt, Creating, Unplugged
  <2>6. \A va \in Live : chunks[va].h # h
    BY <2>2, MoveFacts
  <2>7. Memory'
    BY <1>1, <2>1, <2>2, <2>3, <2>6, MoveFacts DEF Memory, Gone
  <2>8. Broker'
    BY <1>1, <2>1, MoveFacts DEF Broker, Creating
  <2>9. QED
    BY <2>1, <2>3, <2>4, <2>5, <2>7, <2>8 DEF Kept, Working, Active
<1>2. QED
  BY <1>1, MoveFailsStep DEF NewHandle

(* The scratch range is no chunk's.                                        *)
LEMMA ReserveScratchStep == ASSUME Active, ReserveScratch PROVE Kept'
<1> USE BackendAssumption
<1> pc = "scratch" /\ Moving /\ TypeOK /\ Nil \notin Live
  BY DEF ReserveScratch, Active, Live, Moving
<1>1. ASSUME NEW va \in Va \ reserved, reserved' = reserved \cup {va}, k' = [k EXCEPT !.tmp = va],
             Goto("mapScratch"), UNCHANGED <<memory, backing, access, chunks, used, linked, recorded>>
      PROVE  Kept'
  <2>1. /\ k' \in Call /\ k'.va = k.va /\ k'.h = k.h /\ k'.tmp = va /\ k'.size = k.size
        /\ k'.asked = k.asked /\ k'.loc = k.loc /\ pc' = "mapScratch" /\ UNCHANGED status
    BY <1>1 DEF TypeOK, Call, Goto
  <2>2. k.tmp = Nil /\ va # Nil /\ va \notin Live /\ k.h # Nil
    BY <1>1, MoveFacts
  <2>3. TypeOK' /\ Live' = Live
    BY <1>1, <2>1 DEF TypeOK, Pc, Live
  <2>4. Locals'
    BY <1>1, <2>1, <2>2, <2>3, MoveFacts DEF Locals, Creating, Moving, Destroying
  <2>5. Driver'
    BY <1>1, <2>1, <2>2, <2>3, MoveFacts DEF Active, Working, Driver, BackingAt, Creating, Unplugged
  <2>6. Memory'
    BY <1>1, <2>1, <2>2, <2>3, MoveFacts DEF Memory, Gone, Active, Working
  <2>7. Broker'
    BY <1>1, <2>1, MoveFacts DEF Broker, Creating
  <2>8. QED
    BY <2>1, <2>3, <2>4, <2>5, <2>6, <2>7 DEF Kept, Working, Active
<1>2. QED
  BY <1>1, MoveFailsStep DEF ReserveScratch

(* The new handle is mapped at the scratch range.                          *)
LEMMA MapScratchStep == ASSUME Active, MapScratch PROVE Kept'
<1> USE BackendAssumption
<1> pc = "mapScratch" /\ Moving /\ TypeOK /\ Nil \notin Live
  BY DEF MapScratch, Active, Live, Moving
<1>1. ASSUME MapAt(k.tmp, k.h), Goto("permitScratch"),
             UNCHANGED <<reserved, memory, access, chunks, used, linked, recorded, k>>
      PROVE  Kept'
  <2>1. /\ pc' = "permitScratch" /\ UNCHANGED status /\ Live' = Live
        /\ backing' = [backing EXCEPT ![k.tmp] = k.h]
    BY <1>1 DEF Goto, MapAt, Live
  <2>2. TypeOK' /\ k.tmp \in Va /\ k.tmp # Nil /\ k.h \in Handle /\ k.h # Nil /\ k.tmp \notin Live
    BY <1>1, <2>1, MoveFacts DEF TypeOK, Pc
  <2>3. Locals'
    BY <1>1, <2>1, <2>2, MoveFacts DEF Locals, Creating, Moving, Destroying
  <2>4. Driver'
    BY <1>1, <2>1, <2>2, MoveFacts DEF Active, Working, Driver, BackingAt, Creating, Unplugged, TypeOK
  <2>5. Memory'
    BY <1>1, <2>1, <2>2, MoveFacts DEF Memory, Gone, Active, Working
  <2>6. Broker'
    BY <1>1, <2>1, MoveFacts DEF Broker, Creating
  <2>7. QED
    BY <2>1, <2>2, <2>3, <2>4, <2>5, <2>6 DEF Kept, Working, Active
<1>2. QED
  BY <1>1, MoveFailsStep DEF MapScratch

(* The scratch range becomes accessible.                                   *)
LEMMA PermitScratchStep == ASSUME Active, PermitScratch PROVE Kept'
<1> USE BackendAssumption
<1> pc = "permitScratch" /\ Moving /\ TypeOK /\ Nil \notin Live
  BY DEF PermitScratch, Active, Live, Moving
<1>1. ASSUME Permit(k.tmp), Goto("copy"),
             UNCHANGED <<reserved, memory, backing, chunks, used, linked, recorded, k>>
      PROVE  Kept'
  <2>1. pc' = "copy" /\ UNCHANGED status /\ Live' = Live /\ access' = access \cup {k.tmp}
    BY <1>1 DEF Goto, Permit, Live
  <2>2. TypeOK' /\ k.tmp \in Va /\ k.tmp # Nil /\ k.h \in Handle /\ k.h # Nil /\ k.tmp \notin Live
    BY <1>1, <2>1, MoveFacts DEF TypeOK, Pc
  <2>3. Locals'
    BY <1>1, <2>1, <2>2, MoveFacts DEF Locals, Creating, Moving, Destroying
  <2>4. Driver'
    BY <1>1, <2>1, <2>2, MoveFacts DEF Active, Working, Driver, BackingAt, Creating, Unplugged, TypeOK
  <2>5. Memory'
    BY <1>1, <2>1, <2>2, MoveFacts DEF Memory, Gone, Active, Working
  <2>6. Broker'
    BY <1>1, <2>1, MoveFacts DEF Broker, Creating
  <2>7. QED
    BY <2>1, <2>2, <2>3, <2>4, <2>5, <2>6 DEF Kept, Working, Active
<1>2. QED
  BY <1>1, MoveFailsStep DEF PermitScratch

(* The contents are copied and the scratch range is gone.                  *)
LEMMA CopyStep == ASSUME Active, Copy PROVE Kept'
<1> USE BackendAssumption
<1> pc = "copy" /\ Moving /\ TypeOK /\ Nil \notin Live
  BY DEF Copy, Active, Live, Moving
<1>1. ASSUME memory' = [memory EXCEPT ![k.h].data = memory[backing[k.va]].data], Unmap({k.tmp}),
             reserved' = reserved \ {k.tmp}, k' = [k EXCEPT !.tmp = Nil], Goto("unmap"),
             UNCHANGED <<chunks, used, linked, recorded>>
      PROVE  Kept'
  <2>1. /\ k' \in Call /\ k'.va = k.va /\ k'.h = k.h /\ k'.tmp = Nil /\ k'.size = k.size
        /\ k'.asked = k.asked /\ k'.loc = k.loc /\ pc' = "unmap" /\ UNCHANGED status /\ Live' = Live
    BY <1>1 DEF TypeOK, Call, Goto, Live
  <2>2. /\ k.tmp \in Va /\ k.tmp # Nil /\ k.tmp # k.va /\ k.h \in Handle /\ k.h # Nil
        /\ k.tmp \notin Live /\ k.va \in Va
    BY MoveFacts DEF Live
  <2>3. backing[k.va] = chunks[k.va].h /\ memory[chunks[k.va].h].data = k.va
    <3>1. backing[k.va] = BackingAt(k.va) /\ memory[chunks[k.va].h] = [loc |-> chunks[k.va].loc, data |-> k.va]
      BY <2>2, MoveFacts
    <3>2. QED
      BY <2>2, <3>1 DEF BackingAt
  <2>4. /\ memory' \in [Handle -> [loc : Loc \cup {"None"}, data : Va \cup {Nil}]]
        /\ memory'[k.h].loc = memory[k.h].loc /\ memory'[k.h].data = k.va
        /\ \A h \in Handle \ {k.h} : memory'[h] = memory[h]
    BY <1>1, <2>2, <2>3 DEF TypeOK
  <2>5. memory[k.h].loc = k.loc /\ memory'[k.h] # Unallocated
    BY <2>2, <2>4 DEF Active, Working, Memory, Unallocated
  <2>6. TypeOK'
    <3>1. backing' \in [Va -> Handle \cup {Nil}] /\ access' \subseteq Va
      BY <1>1, UnmapType
    <3>2. QED
      BY <1>1, <2>1, <2>4, <3>1 DEF TypeOK, Pc
  <2>7. Locals'
    BY <1>1, <2>1, <2>2, MoveFacts DEF Locals, Creating, Moving, Destroying
  <2>8. Driver'
    <3>1. reserved' = Live
      BY <1>1, <2>2, MoveFacts
    <3>2. \A va \in Va : backing'[va] = chunks[va].h
      <4>1. chunks[k.tmp].h = Nil
        BY <2>2, ChunkType DEF ChunksTyped
      <4>2. QED
        BY <1>1, <2>2, <2>3, <4>1, MoveFacts DEF Unmap
    <3>3. \A va \in Va : va \in access' <=> va \in Live
      BY <1>1, <2>2 DEF Unmap, Active, Working, Driver, Unplugged
    <3>4. QED
      BY <1>1, <2>1, <3>1, <3>2, <3>3 DEF Driver, Creating, Unplugged, BackingAt
  <2>9. Memory'
    BY <1>1, <2>1, <2>2, <2>4, <2>5, MoveFacts DEF Memory, Gone
  <2>10. Broker'
    BY <1>1, <2>1, MoveFacts DEF Broker, Creating
  <2>11. QED
    BY <2>1, <2>6, <2>7, <2>8, <2>9, <2>10 DEF Kept, Working, Active
<1>2. QED
  BY <1>1, MoveFailsStep DEF Copy

(* The old handle is unmapped; its contents are in the new one.            *)
LEMMA UnmapOldStep == ASSUME Active, UnmapOld PROVE Kept'
<1> USE BackendAssumption
<1> pc = "unmap" /\ Moving /\ TypeOK /\ Nil \notin Live
  BY DEF UnmapOld, Active, Live, Moving
<1>1. ASSUME Unmap({k.va}), Goto("swapIn"),
             UNCHANGED <<reserved, memory, chunks, used, linked, recorded, k>>
      PROVE  Kept'
  <2>1. pc' = "swapIn" /\ UNCHANGED status /\ Live' = Live
    BY <1>1 DEF Goto, Live
  <2>2. TypeOK' /\ k.tmp = Nil /\ k.h \in Handle /\ k.h # Nil /\ k.va \in Va
    BY <1>1, <2>1, MoveFacts, UnmapType DEF TypeOK, Pc, Live
  <2>3. Locals'
    BY <1>1, <2>1, <2>2, MoveFacts DEF Locals, Creating, Moving, Destroying
  <2>4. Driver'
    BY <1>1, <2>1, <2>2, MoveFacts
    DEF Active, Working, Driver, BackingAt, Creating, Unplugged, TypeOK, Unmap
  <2>5. Memory'
    BY <1>1, <2>1, <2>2, MoveFacts DEF Memory, Gone, Active, Working
  <2>6. Broker'
    BY <1>1, <2>1, MoveFacts DEF Broker, Creating
  <2>7. QED
    BY <2>1, <2>2, <2>3, <2>4, <2>5, <2>6 DEF Kept, Working, Active
<1>2. QED
  BY <1>1, MoveFailsStep DEF UnmapOld

(* From the moment the old handle is unmapped to the end of the call. *)
LEMMA SwapFacts ==
    ASSUME Active, pc \in {"swapIn", "permitNew", "putBack", "permitBack"}
    PROVE  /\ Moving /\ k.va \in Va /\ k.tmp = Nil /\ k.h \in Handle /\ k.h # Nil
           /\ reserved = Live /\ access = Live \ {k.va}
           /\ \A va \in Va \ {k.va} : backing[va] = chunks[va].h
           /\ backing[k.va] = IF pc = "permitNew" THEN k.h
                              ELSE IF pc = "permitBack" THEN chunks[k.va].h ELSE Nil
           /\ (linked => k.asked) /\ memory[k.h].loc = k.loc
           /\ pc \in {"swapIn", "permitNew"} => memory[k.h].data = k.va
<1> USE BackendAssumption
<1>1. Moving
  BY DEF Moving
<1>2. /\ k.va \in Va /\ k.tmp = Nil /\ k.h \in Handle /\ k.h # Nil
      /\ reserved = Live /\ (linked => k.asked)
  BY <1>1, MoveFacts DEF Live
<1>3. access = Live \ {k.va}
  BY <1>2 DEF Active, Working, Driver, Unplugged, TypeOK, Live
<1>4. \A va \in Va \ {k.va} : backing[va] = chunks[va].h
  BY <1>1, <1>2, MoveFacts
<1>5. backing[k.va] = BackingAt(k.va)
  BY <1>1, <1>2, MoveFacts
<1>6. backing[k.va] = IF pc = "permitNew" THEN k.h
                      ELSE IF pc = "permitBack" THEN chunks[k.va].h ELSE Nil
  BY <1>2, <1>5 DEF BackingAt
<1>7. memory[k.h].loc = k.loc /\ (pc \in {"swapIn", "permitNew"} => memory[k.h].data = k.va)
  BY <1>2 DEF Active, Working, Memory
<1>8. QED
  BY <1>1, <1>2, <1>3, <1>4, <1>6, <1>7

(* The new handle did not map: the call turns back.                        *)
LEMMA FallBackStep ==
    ASSUME Active, pc \in {"swapIn", "permitNew"}, NEW s \in Failure, FallBack(s)
    PROVE  Kept'
<1> USE BackendAssumption
<1> TypeOK /\ Moving /\ Nil \notin Live
  BY SwapFacts DEF Active, Live
<1>1. /\ k' = [k EXCEPT !.error = s] /\ pc' = "putBack"
      /\ UNCHANGED <<status, reserved, memory, chunks, used, linked, recorded>> /\ Live' = Live
  BY DEF FallBack, Goto, Live
<1>2. /\ k' \in Call /\ k'.va = k.va /\ k'.h = k.h /\ k'.tmp = k.tmp /\ k'.size = k.size
      /\ k'.asked = k.asked /\ k'.loc = k.loc
  BY <1>1 DEF TypeOK, Call
<1>3. TypeOK'
  <2>1. backing' \in [Va -> Handle \cup {Nil}] /\ access' \subseteq Va
    BY UnmapType DEF FallBack
  <2>2. QED
    BY <1>1, <1>2, <2>1 DEF TypeOK, Pc
<1>4. Locals'
  BY <1>1, <1>2, SwapFacts, MoveFacts DEF Locals, Creating, Moving, Destroying
<1>5. Driver'
  BY <1>1, <1>2, SwapFacts, MoveFacts DEF FallBack, Driver, BackingAt, Creating, Unplugged, Unmap
<1>6. Memory'
  BY <1>1, <1>2, SwapFacts, MoveFacts DEF Memory, Gone
<1>7. Broker'
  BY <1>1, <1>2, MoveFacts DEF Broker, Creating
<1>8. QED
  BY <1>1, <1>3, <1>4, <1>5, <1>6, <1>7 DEF Kept, Working, Active

(* The new handle is mapped at the chunk's address.                        *)
LEMMA MapNewStep == ASSUME Active, MapNew PROVE Kept'
<1> USE BackendAssumption
<1> pc = "swapIn" /\ Moving /\ TypeOK /\ Nil \notin Live
  BY DEF MapNew, Active, Live, Moving
<1>1. ASSUME MapAt(k.va, k.h), Goto("permitNew"),
             UNCHANGED <<reserved, memory, access, chunks, used, linked, recorded, k>>
      PROVE  Kept'
  <2>1. /\ pc' = "permitNew" /\ UNCHANGED status /\ Live' = Live
        /\ backing' = [backing EXCEPT ![k.va] = k.h]
    BY <1>1 DEF Goto, MapAt, Live
  <2>2. TypeOK'
    BY <1>1, <2>1, SwapFacts DEF TypeOK, Pc
  <2>3. Locals'
    BY <1>1, <2>1, SwapFacts, MoveFacts DEF Locals, Creating, Moving, Destroying
  <2>4. Driver'
    BY <1>1, <2>1, SwapFacts, MoveFacts DEF Driver, BackingAt, Creating, Unplugged, TypeOK
  <2>5. Memory'
    BY <1>1, <2>1, SwapFacts, MoveFacts DEF Memory, Gone
  <2>6. Broker'
    BY <1>1, <2>1, MoveFacts DEF Broker, Creating
  <2>7. QED
    BY <2>1, <2>2, <2>3, <2>4, <2>5, <2>6 DEF Kept, Working, Active
<1>2. QED
  BY <1>1, FallBackStep DEF MapNew

(* The old handle is mapped again, or the chunk is lost with no mapping    *)
(* left.                                                                   *)
LEMMA MapBackStep == ASSUME Active, MapBack PROVE Kept'
<1> USE BackendAssumption
<1> pc = "putBack" /\ Moving /\ TypeOK /\ Nil \notin Live
  BY DEF MapBack, Active, Live, Moving
<1>1. ASSUME MapAt(k.va, Old.h), Goto("permitBack"),
             UNCHANGED <<reserved, memory, access, chunks, used, linked, recorded, k>>
      PROVE  Kept'
  <2>1. /\ pc' = "permitBack" /\ UNCHANGED status /\ Live' = Live
        /\ backing' = [backing EXCEPT ![k.va] = chunks[k.va].h]
    BY <1>1 DEF Goto, MapAt, Live, Old
  <2>2. TypeOK'
    BY <1>1, <2>1, SwapFacts, MoveFacts DEF TypeOK, Pc
  <2>3. Locals'
    BY <1>1, <2>1, SwapFacts, MoveFacts DEF Locals, Creating, Moving, Destroying
  <2>4. Driver'
    BY <1>1, <2>1, SwapFacts, MoveFacts DEF Driver, BackingAt, Creating, Unplugged, TypeOK
  <2>5. Memory'
    BY <1>1, <2>1, SwapFacts, MoveFacts DEF Memory, Gone
  <2>6. Broker'
    BY <1>1, <2>1, MoveFacts DEF Broker, Creating
  <2>7. QED
    BY <2>1, <2>2, <2>3, <2>4, <2>5, <2>6 DEF Kept, Working, Active
<1>2. ASSUME MoveFails("Fatal") PROVE Kept'
  <2>1. UNCHANGED <<chunks, used, linked>> /\ pc' = "idle" /\ k' = Idle /\ status' = "Fatal"
    BY <1>2 DEF MoveFails, Return
  <2>2. TypeOK'
    <3>1. Old.loc \in Loc /\ reserved' \subseteq Va
      BY <1>2, ChunkType, MoveFacts DEF ChunksTyped, Old, MoveFails, TypeOK
    <3>2. recorded' \in [Va -> Loc \cup {"None"}]
      BY <1>2, <3>1, ReportType DEF MoveFails
    <3>3. backing' \in [Va -> Handle \cup {Nil}] /\ access' \subseteq Va
      BY <1>2, UnmapType DEF MoveFails
    <3>4. memory' \in [Handle -> [loc : Loc \cup {"None"}, data : Va \cup {Nil}]]
      BY <1>2, ReleaseType DEF MoveFails
    <3>5. QED
      BY <2>1, <3>1, <3>2, <3>3, <3>4, IdleCall DEF TypeOK, Pc, Failure
  <2>3. MappingsLive'
    <3>1. /\ reserved' = Live
          /\ \A va \in Va : backing'[va] = IF va = k.va THEN Nil ELSE chunks[va].h
          /\ access' = Live \ {k.va}
      BY <1>2, SwapFacts DEF MoveFails, Unmap
    <3>2. \A va \in Live : chunks[va].h # Nil /\ memory'[chunks[va].h] # Unallocated
      BY <1>2, MoveFacts DEF MoveFails, Release
    <3>3. \A va \in Va \ Live : chunks[va].h = Nil
      BY ChunkType DEF ChunksTyped
    <3>4. QED
      BY <3>1, <3>2, <3>3 DEF MappingsLive
  <2>4. QED
    BY <2>1, <2>2, <2>3 DEF Kept
<1>3. QED
  BY <1>1, <1>2 DEF MapBack

(* The old mapping is whole again, or the chunk is lost with no mapping    *)
(* left.                                                                   *)
LEMMA PermitBackStep == ASSUME Active, PermitBack PROVE Kept'
<1> USE BackendAssumption
<1> pc = "permitBack" /\ Moving /\ TypeOK /\ Nil \notin Live
  BY DEF PermitBack, Active, Live, Moving
<1>1. Release({k.h}) /\ Report(Old.loc) /\ UNCHANGED <<reserved, chunks, used, linked>> /\ Live' = Live
  BY DEF PermitBack, Live
<1>2. /\ memory' \in [Handle -> [loc : Loc \cup {"None"}, data : Va \cup {Nil}]]
      /\ recorded' \in [Va -> Loc \cup {"None"}]
  BY <1>1, ReleaseType, ReportType, ChunkType, MoveFacts DEF ChunksTyped, Old
<1>3. \A h \in Handle : memory'[h] = IF h = k.h THEN Unallocated ELSE memory[h]
  BY <1>1 DEF Release
<1>4. ASSUME Permit(k.va), Return(k.error), UNCHANGED backing PROVE Kept'
  <2>1. pc' = "idle" /\ k' = Idle /\ status' \in Failure \cup {"Ok"}
    BY <1>4 DEF Return, TypeOK, Call
  <2>2. reserved' = Live /\ access' = Live /\ \A va \in Va : backing'[va] = chunks[va].h
    BY <1>1, <1>4, SwapFacts, MoveFacts DEF Permit
  <2>3. TypeOK'
    BY <1>1, <1>2, <1>4, <2>1, <2>2, IdleCall DEF TypeOK, Pc, Live
  <2>4. \A h \in Handle : memory'[h] # Unallocated <=> \E va \in Live : chunks[va].h = h
    BY <1>3, MoveFacts
  <2>5. \A va \in Live : memory'[chunks[va].h] = [loc |-> chunks[va].loc, data |-> va]
    BY <1>3, MoveFacts
  <2>6. linked => \A va \in Va : recorded'[va] = chunks[va].loc
    BY <1>1, MoveFacts DEF Report, TypeOK, Old
  <2>7. Exact'
    BY <1>1, <2>2, <2>4, <2>5, <2>6, MoveFacts DEF Exact
  <2>8. QED
    BY <2>1, <2>3, <2>7, Ending
<1>5. ASSUME Unmap({k.va}), Return("Fatal") PROVE Kept'
  <2>1. pc' = "idle" /\ k' = Idle /\ status' = "Fatal"
    BY <1>5 DEF Return
  <2>2. TypeOK'
    <3>1. backing' \in [Va -> Handle \cup {Nil}] /\ access' \subseteq Va
      BY <1>5, UnmapType
    <3>2. QED
      BY <1>1, <1>2, <2>1, <3>1, IdleCall DEF TypeOK, Pc, Failure
  <2>3. MappingsLive'
    <3>1. /\ reserved' = Live
          /\ \A va \in Va : backing'[va] = IF va = k.va THEN Nil ELSE chunks[va].h
          /\ access' = Live \ {k.va}
      BY <1>1, <1>5, SwapFacts DEF Unmap
    <3>2. \A va \in Live : chunks[va].h # Nil /\ memory'[chunks[va].h] # Unallocated
      BY <1>3, MoveFacts
    <3>3. \A va \in Va \ Live : chunks[va].h = Nil
      BY ChunkType DEF ChunksTyped
    <3>4. QED
      BY <3>1, <3>2, <3>3 DEF MappingsLive
  <2>4. QED
    BY <2>1, <2>2, <2>3 DEF Kept
<1>6. QED
  BY <1>4, <1>5 DEF PermitBack

(* The chunk changes handle and location in one step.                      *)
LEMMA PermitNewStep == ASSUME Active, PermitNew PROVE Kept'
<1> USE BackendAssumption
<1> DEFINE new == [h |-> k.h, size |-> Old.size, loc |-> k.loc]
           gone == chunks[k.va].h
<1> pc = "permitNew" /\ Moving /\ TypeOK /\ Nil \notin Live
  BY DEF PermitNew, Active, Live, Moving
<1>1. ASSUME Permit(k.va), Release({Old.h}), chunks' = [chunks EXCEPT ![k.va] = new],
             used' = [l \in Loc |-> IF l = k.loc THEN used[l] + Old.size ELSE used[l] - Old.size],
             Report(k.loc), Return("Ok"), UNCHANGED <<reserved, backing, linked>>
      PROVE  Kept'
  <2>1. /\ pc' = "idle" /\ k' = Idle /\ status' = "Ok" /\ access' = access \cup {k.va}
        /\ k.va \in Live /\ k.va \in Va /\ k.h \in Handle /\ k.h # Nil /\ k.h # gone /\ gone \in Handle
    BY <1>1, SwapFacts, MoveFacts DEF Return, Permit
  <2>2. Old.size \in Size /\ Old.size \in Int
    BY <2>1, ChunkType DEF Old, ChunksTyped
  <2>3. /\ chunks' \in [Va -> [h : Handle, size : Size, loc : Loc] \cup {NoChunk}]
        /\ chunks'[k.va] = new /\ new # NoChunk /\ \A va \in Va \ {k.va} : chunks'[va] = chunks[va]
    BY <1>1, <2>1, <2>2, MoveFacts DEF TypeOK, NoChunk
  <2>4. Live' = Live /\ Live \subseteq Va
    BY <2>1, <2>3 DEF Live
  <2>5. /\ memory' \in [Handle -> [loc : Loc \cup {"None"}, data : Va \cup {Nil}]]
        /\ \A h \in Handle : memory'[h] = IF h = gone THEN Unallocated ELSE memory[h]
    BY <1>1, ReleaseType DEF Old, Release
  <2>6. TypeOK'
    <3>1. used' \in [Loc -> Int]
      BY <1>1, <2>2 DEF TypeOK
    <3>2. recorded' \in [Va -> Loc \cup {"None"}]
      BY <1>1, ReportType, MoveFacts
    <3>3. QED
      BY <1>1, <2>1, <2>3, <2>5, <3>1, <3>2, IdleCall DEF TypeOK, Pc
  <2>7. reserved' = Live' /\ access' = Live'
    BY <1>1, <2>1, <2>4, SwapFacts
  <2>8. \A va \in Va : backing'[va] = chunks'[va].h
    BY <1>1, <2>3, SwapFacts
  <2>9. /\ memory[k.h] # Unallocated
        /\ memory[k.h] = [loc |-> k.loc, data |-> k.va]
    BY <2>1, SwapFacts, MoveFacts DEF TypeOK
  <2>10. \A h \in Handle : memory'[h] # Unallocated <=> \E va \in Live' : chunks'[va].h = h
    <3>1. \A va \in Live \ {k.va} : chunks'[va].h = chunks[va].h /\ chunks[va].h # gone /\ chunks[va].h # k.h
      BY <2>1, <2>3, <2>4, MoveFacts
    <3>2. \A h \in Handle \ {gone, k.h} : memory[h] # Unallocated <=> \E va \in Live \ {k.va} : chunks[va].h = h
      BY MoveFacts
    <3>3. QED
      BY <2>1, <2>3, <2>4, <2>5, <2>9, <3>1, <3>2
  <2>11. \A va \in Live' : memory'[chunks'[va].h] = [loc |-> chunks'[va].loc, data |-> va]
    <3>1. ASSUME NEW va \in Live \ {k.va}
          PROVE  memory'[chunks'[va].h] = [loc |-> chunks'[va].loc, data |-> va]
      BY <2>1, <2>3, <2>4, <2>5, MoveFacts
    <3>2. memory'[chunks'[k.va].h] = [loc |-> chunks'[k.va].loc, data |-> k.va]
      BY <2>1, <2>3, <2>5, <2>9
    <3>3. QED
      BY <2>4, <3>1, <3>2
  <2>12. \A va, wa \in Live' : chunks'[va].h = chunks'[wa].h => va = wa
    BY <2>3, <2>4, MoveFacts
  <2>13. linked' => \A va \in Va : recorded'[va] = chunks'[va].loc
    BY <1>1, <2>3, SwapFacts, MoveFacts DEF Report, TypeOK
  <2>14. Exact'
    BY <2>7, <2>8, <2>10, <2>11, <2>12, <2>13 DEF Exact
  <2>15. QED
    BY <2>1, <2>6, <2>14, Ending
<1>2. QED
  BY <1>1, FallBackStep DEF PermitNew

(* A destroy that fails leaves whatever was mapped still backed.           *)
LEMMA DestroyFailsStep == ASSUME Active, DestroyFails, UNCHANGED cuda PROVE Kept'
<1>1. pc' = "idle" /\ k' = Idle /\ status' = "Fatal"
  BY DEF DestroyFails, Return
<1>2. TypeOK'
  BY <1>1, IdleCall DEF Active, TypeOK, Pc, Failure, DestroyFails, cuda
<1>3. MappingsLive'
  BY WorkingMappings DEF Active, MappingsLive, cuda
<1>4. QED
  BY <1>1, <1>2, <1>3 DEF Kept

(* What holds at every step of a destroy.                                  *)
LEMMA DestroyFacts ==
    ASSUME Active, Destroying
    PROVE  /\ k.va \in Live /\ k.va \in Va /\ k.h = Nil /\ k.tmp = Nil
           /\ reserved = Live
           /\ \A va \in Va \ {k.va} : backing[va] = chunks[va].h /\ (va \in access <=> va \in Live)
           /\ backing[k.va] = (IF pc = "drop" THEN chunks[k.va].h ELSE Nil)
           /\ (k.va \in access <=> pc = "drop")
           /\ \A va \in Live : chunks[va].h # Nil /\ chunks[va].h \in Handle
           /\ \A va, wa \in Live : chunks[va].h = chunks[wa].h => va = wa
           /\ linked => \A va \in Va : recorded[va] = chunks[va].loc
<1> USE BackendAssumption DEF Active, Working
<1> Nil \notin Live
  BY DEF Live
<1>1. k.va \in Live /\ k.va \in Va /\ k.h = Nil /\ k.tmp = Nil
  BY DEF Locals, Creating, Moving, Destroying, Live
<1>2. reserved = Live
  BY <1>1 DEF Driver, Creating, Destroying
<1>3. \A va \in Va \ {k.va} : backing[va] = chunks[va].h /\ (va \in access <=> va \in Live)
  BY <1>1 DEF Driver, BackingAt
<1>4. /\ backing[k.va] = (IF pc = "drop" THEN chunks[k.va].h ELSE Nil)
      /\ (k.va \in access <=> pc = "drop")
  BY <1>1 DEF Driver, BackingAt, Destroying, Unplugged
<1>5. \A va \in Live : chunks[va].h # Nil /\ chunks[va].h \in Handle
  BY ChunkType DEF ChunksTyped
<1>6. \A va, wa \in Live : chunks[va].h = chunks[wa].h => va = wa
  BY DEF Memory
<1>7. linked => \A va \in Va : recorded[va] = chunks[va].loc
  BY DEF Broker, Destroying, Creating
<1>8. QED
  BY <1>1, <1>2, <1>3, <1>4, <1>5, <1>6, <1>7

(* The chunk is unmapped and still has its handle.                         *)
LEMMA UnmapChunkStep == ASSUME Active, UnmapChunk PROVE Kept'
<1> USE BackendAssumption
<1> pc = "drop" /\ Destroying /\ TypeOK /\ Nil \notin Live
  BY DEF UnmapChunk, Active, Live, Destroying
<1>1. ASSUME Unmap({k.va}), Goto("release"),
             UNCHANGED <<reserved, memory, chunks, used, linked, recorded, k>>
      PROVE  Kept'
  <2>1. pc' = "release" /\ UNCHANGED status /\ Live' = Live
    BY <1>1 DEF Goto, Live
  <2>2. TypeOK'
    BY <1>1, <2>1, UnmapType DEF TypeOK, Pc
  <2>3. Locals'
    BY <1>1, <2>1, DestroyFacts DEF Locals, Creating, Moving, Destroying
  <2>4. Driver'
    BY <1>1, <2>1, DestroyFacts DEF Driver, BackingAt, Creating, Unplugged, Unmap
  <2>5. Memory'
    BY <1>1, <2>1 DEF Memory, Gone, Active, Working
  <2>6. Broker'
    BY <1>1, <2>1, DestroyFacts DEF Broker, Creating
  <2>7. QED
    BY <2>1, <2>2, <2>3, <2>4, <2>5, <2>6 DEF Kept, Working, Active
<1>2. QED
  BY <1>1, DestroyFailsStep DEF UnmapChunk, cuda

(* The handle of an unmapped chunk is released.                            *)
LEMMA ReleaseChunkStep == ASSUME Active, ReleaseChunk PROVE Kept'
<1> USE BackendAssumption
<1> pc = "release" /\ Destroying /\ TypeOK /\ Nil \notin Live
  BY DEF ReleaseChunk, Active, Live, Destroying
<1>1. ASSUME Release({Old.h}), Goto("unreserve"),
             UNCHANGED <<reserved, backing, access, chunks, used, linked, recorded, k>>
      PROVE  Kept'
  <2>1. pc' = "unreserve" /\ UNCHANGED status /\ Live' = Live
    BY <1>1 DEF Goto, Live
  <2>2. TypeOK'
    BY <1>1, <2>1, ReleaseType DEF TypeOK, Pc
  <2>3. Locals'
    BY <1>1, <2>1, DestroyFacts DEF Locals, Creating, Moving, Destroying
  <2>4. Driver'
    BY <1>1, <2>1, DestroyFacts DEF Driver, BackingAt, Creating, Unplugged
  <2>5. \A h \in Handle : memory'[h] = IF h = chunks[k.va].h THEN Unallocated ELSE memory[h]
    BY <1>1 DEF Release, Old
  <2>6. Memory'
    <3>1. \A h \in Handle : memory[h] # Unallocated <=> \E va \in Live : chunks[va].h = h
      BY DestroyFacts DEF Active, Working, Memory, Gone
    <3>2. \A va \in Live : memory[chunks[va].h] = [loc |-> chunks[va].loc, data |-> va]
      BY DEF Active, Working, Memory, Gone
    <3>3. QED
      BY <1>1, <2>1, <2>5, <3>1, <3>2, DestroyFacts DEF Memory, Gone
  <2>7. Broker'
    BY <1>1, <2>1, DestroyFacts DEF Broker, Creating
  <2>8. QED
    BY <2>1, <2>2, <2>3, <2>4, <2>6, <2>7 DEF Kept, Working, Active
<1>2. QED
  BY <1>1, DestroyFailsStep DEF ReleaseChunk, cuda

(* The chunk is gone, with its range and what the broker had of it.        *)
LEMMA FreeVaStep == ASSUME Active, FreeVa PROVE Kept'
<1> USE BackendAssumption
<1> pc = "unreserve" /\ Destroying /\ TypeOK /\ Nil \notin Live
  BY DEF FreeVa, Active, Live, Destroying
<1>1. ASSUME reserved' = reserved \ {k.va}, chunks' = [chunks EXCEPT ![k.va] = NoChunk],
             used' = [used EXCEPT ![Old.loc] = @ - Old.size],
             recorded' = [recorded EXCEPT ![k.va] = "None"], Return("Ok"),
             UNCHANGED <<linked, memory, backing, access>>
      PROVE  Kept'
  <2>1. /\ pc' = "idle" /\ k' = Idle /\ status' = "Ok" /\ k.va \in Live /\ k.va \in Va
        /\ Old.loc \in Loc /\ Old.size \in Int
    BY <1>1, DestroyFacts, ChunkType DEF Return, ChunksTyped, Old
  <2>2. /\ chunks' \in [Va -> [h : Handle, size : Size, loc : Loc] \cup {NoChunk}]
        /\ chunks'[k.va] = NoChunk /\ \A va \in Va \ {k.va} : chunks'[va] = chunks[va]
        /\ NoChunk.h = Nil /\ NoChunk.loc = "None"
    BY <1>1, <2>1 DEF TypeOK, NoChunk
  <2>3. Live' = Live \ {k.va} /\ Live \subseteq Va
    BY <2>1, <2>2 DEF Live
  <2>4. TypeOK'
    <3>1. used' \in [Loc -> Int]
      BY <1>1, <2>1 DEF TypeOK
    <3>2. recorded' \in [Va -> Loc \cup {"None"}] /\ reserved' \subseteq Va
      BY <1>1 DEF TypeOK
    <3>3. QED
      BY <1>1, <2>1, <2>2, <3>1, <3>2, IdleCall DEF TypeOK, Pc
  <2>5. reserved' = Live' /\ access' = Live'
    BY <1>1, <2>3, DestroyFacts DEF TypeOK
  <2>6. \A va \in Va : backing'[va] = chunks'[va].h
    BY <1>1, <2>2, DestroyFacts
  <2>7. \A va \in Live' : chunks'[va] = chunks[va]
    BY <2>2, <2>3
  <2>8. \A h \in Handle : memory'[h] # Unallocated <=> \E va \in Live' : chunks'[va].h = h
    BY <1>1, <2>3, <2>7, DestroyFacts DEF Active, Working, Memory, Gone
  <2>9. \A va \in Live' : memory'[chunks'[va].h] = [loc |-> chunks'[va].loc, data |-> va]
    BY <1>1, <2>3, <2>7 DEF Active, Working, Memory
  <2>10. \A va, wa \in Live' : chunks'[va].h = chunks'[wa].h => va = wa
    BY <2>3, <2>7, DestroyFacts
  <2>11. linked' => \A va \in Va : recorded'[va] = chunks'[va].loc
    BY <1>1, <2>2, DestroyFacts DEF TypeOK
  <2>12. Exact'
    BY <2>5, <2>6, <2>8, <2>9, <2>10, <2>11 DEF Exact
  <2>13. QED
    BY <2>1, <2>4, <2>12, Ending
<1>2. QED
  BY <1>1, DestroyFailsStep DEF FreeVa, cuda

(* A call starts from an exact state, with locals to match.                *)
LEMMA BeginStep == ASSUME Active, Begin PROVE Kept'
<1> USE BackendAssumption
<1> pc = "idle" /\ TypeOK /\ Nil \notin Live /\ Live' = Live /\ k = Idle
  BY DEF Begin, Start, Active, Live, Working, Locals
<1>1. UNCHANGED <<cuda, chunks, used, linked, recorded, status>>
  BY DEF Begin, Start
<1>2. Exact
  BY ExactWorking DEF Active
<1>3. ASSUME NEW n \in Size, pc' = "reserve", k' = [[Idle EXCEPT !.size = n] EXCEPT !.op = "create"]
      PROVE  Kept'
  <2>1. /\ k' \in Call /\ k'.va = Nil /\ k'.h = Nil /\ k'.tmp = Nil /\ k'.size = n /\ ~k'.asked
    BY <1>3 DEF Idle, Call, Failure
  <2>2. TypeOK'
    BY <1>1, <1>3, <2>1 DEF TypeOK, Pc, cuda
  <2>3. Locals' /\ Driver' /\ Memory' /\ Broker'
    BY <1>1, <1>2, <1>3, <2>1 DEF Exact, Locals, Driver, BackingAt, Memory, Broker, Creating, Moving,
                                  Destroying, Unplugged, Gone, cuda
  <2>4. QED
    BY <1>1, <2>2, <2>3 DEF Kept, Working, Active
<1>4. ASSUME NEW va \in Live, pc' = "drop", k' = [[Idle EXCEPT !.va = va] EXCEPT !.op = "destroy"]
      PROVE  Kept'
  <2>1. /\ k' \in Call /\ k'.va = va /\ k'.h = Nil /\ k'.tmp = Nil /\ va \in Va /\ va # Nil
    BY <1>4 DEF Idle, Call, Failure, Live
  <2>2. TypeOK'
    BY <1>1, <1>4, <2>1 DEF TypeOK, Pc, cuda
  <2>3. Locals' /\ Driver' /\ Memory' /\ Broker'
    BY <1>1, <1>2, <1>4, <2>1 DEF Exact, Locals, Driver, BackingAt, Memory, Broker, Creating, Moving,
                                  Destroying, Unplugged, Gone, cuda
  <2>4. QED
    BY <1>1, <2>2, <2>3 DEF Kept, Working, Active
<1>5. ASSUME NEW va \in Live, NEW to \in Loc \ {chunks[va].loc}, pc' = "ask",
             k' = [[Idle EXCEPT !.va = va, !.loc = to] EXCEPT !.op = "move"]
      PROVE  Kept'
  <2>1. /\ k' \in Call /\ k'.va = va /\ k'.h = Nil /\ k'.tmp = Nil /\ k'.loc = to /\ va \in Va /\ va # Nil
    BY <1>5 DEF Idle, Call, Failure, Live
  <2>2. TypeOK'
    BY <1>1, <1>5, <2>1 DEF TypeOK, Pc, cuda
  <2>3. Locals' /\ Driver' /\ Memory' /\ Broker'
    BY <1>1, <1>2, <1>5, <2>1 DEF Exact, Locals, Driver, BackingAt, Memory, Broker, Creating, Moving,
                                  Destroying, Unplugged, Gone, cuda
  <2>4. QED
    BY <1>1, <2>2, <2>3 DEF Kept, Working, Active
<1>6. QED
  BY <1>3, <1>4, <1>5 DEF Begin, Start

(* The link may break, and be made again, whatever the last call returned. *)
LEMMA LinkStep == ASSUME Kept, BreakLink \/ Reconnect PROVE Kept'
<1> USE BackendAssumption DEF Kept
<1>1. UNCHANGED <<cuda, chunks, used, pc, k, status>> /\ Live' = Live
  BY DEF BreakLink, Reconnect, Live
<1>2. TypeOK'
  <2>1. \A va \in Va : chunks[va].loc \in Loc \cup {"None"}
    BY ChunkType DEF ChunksTyped, NoChunk
  <2>2. linked' \in BOOLEAN /\ recorded' \in [Va -> Loc \cup {"None"}]
    BY <2>1 DEF BreakLink, LinkLost, Reconnect
  <2>3. QED
    BY <1>1, <2>2 DEF TypeOK, cuda
<1>3. ASSUME status = "Fatal", MappingsLive PROVE Kept'
  BY <1>1, <1>2, <1>3 DEF MappingsLive, cuda
<1>4. ASSUME Working PROVE Kept'
  <2>1. Driver' /\ Memory'
    BY <1>1, <1>4 DEF Working, Driver, BackingAt, Memory, Gone, Creating, Unplugged, cuda
  <2>2. linked' => pc \in {"idle", "place", "ask"}
    BY DEF BreakLink, LinkLost, Reconnect
  <2>3. Locals'
    BY <1>1, <1>4, <2>2 DEF Working, Locals, Creating, Moving, Destroying
  <2>4. Broker'
    <3>1. linked' => \A va \in Va : recorded'[va] = chunks[va].loc
      BY DEF BreakLink, LinkLost, Reconnect
    <3>2. linked' /\ Creating => k.va \in Va \ Live /\ ~k.asked
      BY <1>4, <2>2 DEF Working, Locals, Creating
    <3>3. QED
      BY <1>1, <3>1, <3>2 DEF Broker, Creating, Live, NoChunk
  <2>5. QED
    BY <1>1, <1>2, <1>4, <2>1, <2>3, <2>4 DEF Working
<1>5. QED
  BY <1>3, <1>4

(* Every step but the last of a successful call leaves chunks_ and used_   *)
(* alone, and those change the bytes at one address.                       *)
LEMMA UsedChange ==
    ASSUME TypeOK, TypeOK', UsedExact, NEW x \in Va,
           \A va \in Va \ {x} : chunks'[va] = chunks[va],
           \A l \in Loc : used'[l] = used[l] - Bytes(l)[x] + Bytes(l)'[x]
    PROVE  UsedExact'
<1> USE BackendAssumption
<1>1. \A va \in Va : chunks[va].size \in Nat
  BY ChunkType DEF ChunksTyped, NoChunk
<1>2. (TypeOK => ChunksTyped)'
  BY ChunkType, PTL
<1>3. \A va \in Va : chunks'[va].size \in Nat
  BY <1>2 DEF ChunksTyped, NoChunk
<1>4. ASSUME NEW l \in Loc PROVE used'[l] = Total(Bytes(l)')
  <2> DEFINE f == Bytes(l)
             g == Bytes(l)'
  <2>1. /\ DOMAIN f = Va /\ DOMAIN g = Va
        /\ \A va \in Va : f[va] \in Nat /\ g[va] \in Nat
        /\ \A va \in Va \ {x} : g[va] = f[va]
    BY <1>1, <1>3 DEF Bytes
  <2>2. used[l] = Total(f) /\ used'[l] = used[l] - f[x] + g[x]
    BY DEF UsedExact
  <2> HIDE DEF f, g
  <2>3. Total(g) = Total(f) - f[x] + g[x]
    BY <2>1, TotalChange
  <2>4. QED
    BY <2>2, <2>3 DEF g
<1>5. QED
  BY <1>4 DEF UsedExact

(* A step that leaves chunks_ and used_ alone.                             *)
LEMMA UsedKept ==
    ASSUME UsedExact, UNCHANGED <<chunks, used>>
    PROVE  UsedExact'
  BY DEF UsedExact, Bytes

(* create adds the size at the location the chunk got.                     *)
LEMMA PermitChunkUsed == ASSUME Active, UsedExact, PermitChunk, TypeOK' PROVE UsedExact'
<1> USE BackendAssumption
<1> DEFINE new == [h |-> k.h, size |-> k.size, loc |-> k.loc]
<1> pc = "permit" /\ TypeOK
  BY DEF PermitChunk, Active
<1>1. ASSUME chunks' = [chunks EXCEPT ![k.va] = new], used' = [used EXCEPT ![k.loc] = @ + k.size]
      PROVE  UsedExact'
  <2>1. /\ k.va \in Va /\ k.loc \in Loc /\ k.size \in Nat /\ chunks[k.va].loc = "None"
        /\ \A va \in Va \ {k.va} : chunks'[va] = chunks[va]
        /\ chunks'[k.va].loc = k.loc /\ chunks'[k.va].size = k.size
    <3>1. k.va \in Va /\ k.loc \in Loc /\ k.size \in Nat /\ chunks[k.va].loc = "None"
      BY CreateFacts
    <3>2. chunks' = [chunks EXCEPT ![k.va] = new] /\ DOMAIN chunks = Va
      BY <1>1 DEF TypeOK
    <3>3. chunks'[k.va] = new /\ \A va \in Va \ {k.va} : chunks'[va] = chunks[va]
      BY <3>1, <3>2
    <3>4. QED
      BY <3>1, <3>3
  <2>2. ASSUME NEW l \in Loc
        PROVE  used'[l] = used[l] - Bytes(l)[k.va] + Bytes(l)'[k.va]
    <3>1. Bytes(l)[k.va] = 0
      BY <2>1, <2>2 DEF Bytes, Loc
    <3>2. Bytes(l)'[k.va] = IF l = k.loc THEN k.size ELSE 0
      BY <2>1, <2>2 DEF Bytes
    <3>3. used'[l] = (IF l = k.loc THEN used[l] + k.size ELSE used[l]) /\ used[l] \in Int
      BY <1>1, <2>1, <2>2 DEF TypeOK
    <3>4. QED
      BY <2>1, <3>1, <3>2, <3>3
  <2>3. QED
    BY <2>1, <2>2, UsedChange
<1>2. QED
  BY <1>1, UsedKept DEF PermitChunk, CreateFails

(* move takes the size from the old location to the new one.               *)
LEMMA PermitNewUsed == ASSUME Active, UsedExact, PermitNew, TypeOK' PROVE UsedExact'
<1> USE BackendAssumption
<1> DEFINE new == [h |-> k.h, size |-> Old.size, loc |-> k.loc]
<1> pc = "permitNew" /\ Moving /\ TypeOK
  BY DEF PermitNew, Active, Moving
<1>1. ASSUME chunks' = [chunks EXCEPT ![k.va] = new],
             used' = [l \in Loc |-> IF l = k.loc THEN used[l] + Old.size ELSE used[l] - Old.size]
      PROVE  UsedExact'
  <2>1. /\ k.va \in Va /\ k.loc \in Loc /\ chunks[k.va].loc \in Loc /\ chunks[k.va].loc # k.loc
        /\ Old.size = chunks[k.va].size /\ Old.size \in Nat
        /\ \A va \in Va \ {k.va} : chunks'[va] = chunks[va]
        /\ chunks'[k.va].loc = k.loc /\ chunks'[k.va].size = Old.size
    BY <1>1, SwapFacts, MoveFacts, ChunkType DEF TypeOK, Old, ChunksTyped
  <2>2. ASSUME NEW l \in Loc
        PROVE  used'[l] = used[l] - Bytes(l)[k.va] + Bytes(l)'[k.va]
    <3>1. Bytes(l)[k.va] = IF l = k.loc THEN 0 ELSE Old.size
      BY <2>1, <2>2 DEF Bytes, Loc
    <3>2. Bytes(l)'[k.va] = IF l = k.loc THEN Old.size ELSE 0
      BY <2>1, <2>2 DEF Bytes
    <3>3. /\ used'[l] = (IF l = k.loc THEN used[l] + Old.size ELSE used[l] - Old.size)
          /\ used[l] \in Int
      BY <1>1, <2>2 DEF TypeOK
    <3>4. QED
      BY <2>1, <3>1, <3>2, <3>3
  <2>3. QED
    BY <2>1, <2>2, UsedChange
<1>2. QED
  BY <1>1, UsedKept DEF PermitNew, FallBack

(* destroy takes the size from where the chunk was.                        *)
LEMMA FreeVaUsed == ASSUME Active, UsedExact, FreeVa, TypeOK' PROVE UsedExact'
<1> USE BackendAssumption
<1> pc = "unreserve" /\ Destroying /\ TypeOK
  BY DEF FreeVa, Active, Destroying
<1>1. ASSUME chunks' = [chunks EXCEPT ![k.va] = NoChunk],
             used' = [used EXCEPT ![Old.loc] = @ - Old.size]
      PROVE  UsedExact'
  <2>1. /\ k.va \in Va /\ Old.loc \in Loc /\ chunks[k.va].loc = Old.loc
        /\ Old.size = chunks[k.va].size /\ Old.size \in Nat
        /\ \A va \in Va \ {k.va} : chunks'[va] = chunks[va]
        /\ chunks'[k.va].loc = "None"
    BY <1>1, DestroyFacts, ChunkType DEF TypeOK, Old, ChunksTyped, NoChunk
  <2>2. ASSUME NEW l \in Loc
        PROVE  used'[l] = used[l] - Bytes(l)[k.va] + Bytes(l)'[k.va]
    <3>1. Bytes(l)[k.va] = IF l = Old.loc THEN Old.size ELSE 0
      BY <2>1, <2>2 DEF Bytes
    <3>2. Bytes(l)'[k.va] = 0
      BY <2>1, <2>2 DEF Bytes, Loc
    <3>3. used'[l] = (IF l = Old.loc THEN used[l] - Old.size ELSE used[l]) /\ used[l] \in Int
      BY <1>1, <2>1, <2>2 DEF TypeOK
    <3>4. QED
      BY <2>1, <3>1, <3>2, <3>3
  <2>3. QED
    BY <2>1, <2>2, UsedChange
<1>2. QED
  BY <1>1, UsedKept DEF FreeVa, DestroyFails

-----------------------------------------------------------------------------
(* The inductive invariant.                                                *)
IInv == Kept /\ UsedExact

(* The invariant holds when the backend is made.                           *)
LEMMA InitIInv == Init => IInv
<1> USE BackendAssumption
<1> SUFFICES ASSUME Init PROVE IInv
  OBVIOUS
<1>1. TypeOK
  BY IdleCall DEF Init, TypeOK, Pc, Unallocated
<1>2. Live = {} /\ \A va \in Va : chunks[va].h = Nil /\ chunks[va].loc = "None"
  BY DEF Init, Live, NoChunk
<1>3. Exact
  BY <1>2 DEF Init, Exact
<1>4. Working
  BY <1>1, <1>3, ExactWorking DEF Init
<1>5. ASSUME NEW l \in Loc PROVE used[l] = Total(Bytes(l))
  <2>1. \A va \in DOMAIN Bytes(l) : Bytes(l)[va] = 0
    BY <1>2, <1>5 DEF Bytes, Loc
  <2>2. Total(Bytes(l)) = 0
    BY <2>1, TotalZero
  <2>3. QED
    BY <1>5, <2>2 DEF Init
<1>6. QED
  BY <1>1, <1>4, <1>5 DEF IInv, Kept, UsedExact, Init

(* Every step of every call, and of the link, keeps it.                    *)
LEMMA NextIInv == IInv /\ [Next]_vars => IInv'
<1> SUFFICES ASSUME IInv, [Next]_vars PROVE IInv'
  OBVIOUS
<1> USE DEF IInv
<1>1. CASE UNCHANGED vars
  <2>1. Kept'
    BY <1>1 DEF vars, cuda, Kept, TypeOK, Working, Locals, Driver, Memory, Broker, MappingsLive, BackingAt,
                Live, Creating, Moving, Destroying, Unplugged, Gone
  <2>2. QED
    BY <1>1, <2>1, UsedKept DEF vars
<1>2. CASE BreakLink \/ Reconnect
  <2>1. UNCHANGED <<chunks, used>>
    BY <1>2 DEF BreakLink, Reconnect
  <2>2. QED
    BY <1>2, <2>1, LinkStep, UsedKept
<1>3. ASSUME Next, ~(BreakLink \/ Reconnect) PROVE IInv'
  <2>1. Active
    <3>1. status # "Fatal"
      BY <1>3 DEF Kept, Next, Begin, Start, ReserveVa, Place, CreateHandle, MapChunk, PermitChunk,
                  AskMove, NewHandle, ReserveScratch, MapScratch, PermitScratch, Copy, UnmapOld,
                  MapNew, PermitNew, MapBack, PermitBack, UnmapChunk, ReleaseChunk, FreeVa
    <3>2. QED
      BY <3>1 DEF Kept, Active
  <2>2. Kept'
    BY <1>3, <2>1, BeginStep, ReserveVaStep, PlaceStep, CreateHandleStep, MapChunkStep, PermitChunkStep,
       AskMoveStep, NewHandleStep, ReserveScratchStep, MapScratchStep, PermitScratchStep, CopyStep,
       UnmapOldStep, MapNewStep, PermitNewStep, MapBackStep, PermitBackStep, UnmapChunkStep,
       ReleaseChunkStep, FreeVaStep DEF Next
  <2>3. TypeOK'
    BY <2>2 DEF Kept
  <2>4. CASE PermitChunk \/ PermitNew \/ FreeVa
    BY <2>1, <2>2, <2>3, <2>4, PermitChunkUsed, PermitNewUsed, FreeVaUsed
  <2>5. ASSUME ~(PermitChunk \/ PermitNew \/ FreeVa) PROVE UNCHANGED <<chunks, used>>
    BY <1>3, <2>5 DEF Next, Begin, Start, ReserveVa, Place, CreateHandle, MapChunk, CreateFails,
                AskMove, NewHandle, ReserveScratch, MapScratch, PermitScratch, Copy, UnmapOld, MoveFails,
                MapNew, FallBack, MapBack, PermitBack, UnmapChunk, ReleaseChunk, DestroyFails, cuda
  <2>6. QED
    BY <2>2, <2>4, <2>5, UsedKept
<1>4. QED
  BY <1>1, <1>2, <1>3

(* The inductive invariant, for any addresses, handles and sizes.          *)
THEOREM IInvInvariant == Spec => []IInv
  BY InitIInv, NextIInv, PTL DEF Spec

(* create, move and destroy keep the types of the driver's objects.        *)
THEOREM TypeInvariant == Spec => []TypeOK
<1>1. IInv => TypeOK
  BY DEF IInv, Kept
<1>2. QED
  BY <1>1, IInvInvariant, PTL

(* At no CUDA call of any call, failed or not, is an address mapped        *)
(* without a reservation or to a released handle, or accessible without a  *)
(* mapping (MappingsLive).                                                 *)
THEOREM MappingsInvariant == Spec => []MappingsLive
<1>1. IInv => MappingsLive
  BY WorkingMappings DEF IInv, Kept
<1>2. QED
  BY <1>1, IInvInvariant, PTL

(* Between calls, none of them fatal, the driver is as chunks_ has it.     *)
LEMMA QuietExact ==
    ASSUME IInv, Quiet
    PROVE  Exact
<1>1. TypeOK /\ Working /\ pc = "idle" /\ k = Idle
  BY DEF IInv, Kept, Quiet, Working, Locals
<1>2. QED
  BY <1>1, ExactWorking

(* Whatever calls failed, between calls the driver holds exactly the live  *)
(* chunks, and used_ is at every step the sum of their sizes               *)
(* (ChunksExact).                                                          *)
THEOREM ChunksInvariant == Spec => []ChunksExact
<1>1. ASSUME IInv PROVE ChunksExact
  <2>1. Quiet => Exact
    BY <1>1, QuietExact
  <2>2. UsedExact
    BY <1>1 DEF IInv
  <2>3. QED
    BY <2>1, <2>2 DEF ChunksExact, Exact, UsedExact, Bytes
<1>2. QED
  BY <1>1, IInvInvariant, PTL

(* Whatever a call reported on its way out, a linked broker has every      *)
(* chunk where it is (BrokerExact).                                        *)
THEOREM BrokerInvariant == Spec => []BrokerExact
<1>1. ASSUME IInv PROVE BrokerExact
  <2>1. Quiet => Exact
    BY <1>1, QuietExact
  <2>2. QED
    BY <2>1 DEF BrokerExact, Exact
<1>2. QED
  BY <1>1, IInvInvariant, PTL
=============================================================================
