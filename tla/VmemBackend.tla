---------------------------- MODULE VmemBackend ----------------------------
(***************************************************************************)
(* create, move and destroy of libvmem/src/backends/vmem.h, one step per   *)
(* CUDA call, down to reservations, handles and mappings.  Every call of   *)
(* the driver whose result the code looks at may fail, for lack of memory  *)
(* or otherwise; those whose result it ignores, all of them on the way     *)
(* out of a failed call, succeed.                                          *)
(*                                                                         *)
(* A process makes one call at a time.  The broker is reduced to what it   *)
(* records for this tenant and whether the link to it stands; how messages *)
(* travel is the subject of VmemSystem.                                    *)
(***************************************************************************)
EXTENDS Totals

CONSTANTS
    Va,      \* address ranges cuMemAddressReserve may return
    Handle,  \* handles cuMemCreate may return
    Size,    \* chunk sizes
    Nil      \* neither of these

Loc == {"Device", "Host"}

ASSUME BackendAssumption ==
    /\ IsFiniteSet(Va)
    /\ Nil \notin Va \cup Handle
    /\ Size \subseteq Nat

VARIABLES
    reserved,  \* address ranges held
    memory,    \* each handle's location and contents, NoMemory if it is not allocated
    backing,   \* the handle mapped at an address
    access,    \* addresses the device may read and write
    chunks,    \* chunks_
    used,      \* used_
    linked,    \* link_ is Connected
    recorded,  \* where the broker has the chunk at an address
    pc,        \* the step the running call is at
    k,         \* its local variables
    status     \* what the last call returned

cuda == <<reserved, memory, backing, access>>
vars == <<cuda, chunks, used, linked, recorded, pc, k, status>>

Failure == {"NoMemory", "Fatal"}
Unallocated == [loc |-> "None", data |-> Nil]
NoChunk == [h |-> Nil, size |-> 0, loc |-> "None"]
Idle == [op |-> "none", va |-> Nil, size |-> 0, loc |-> "None", h |-> Nil, tmp |-> Nil,
         asked |-> FALSE, error |-> "Ok"]

Init ==
    /\ reserved = {} /\ access = {}
    /\ memory = [h \in Handle |-> Unallocated]
    /\ backing = [va \in Va |-> Nil]
    /\ chunks = [va \in Va |-> NoChunk]
    /\ used = [l \in Loc |-> 0]
    /\ linked \in BOOLEAN
    /\ recorded = [va \in Va |-> "None"]
    /\ pc = "idle" /\ k = Idle /\ status = "Ok"

Live == {va \in Va : chunks[va] # NoChunk}

-----------------------------------------------------------------------------
(* Steps and returns. *)

\* After Fatal the allocator makes no further call.
Start(op, first, call) ==
    /\ pc = "idle" /\ status # "Fatal"
    /\ pc' = first
    /\ k' = [call EXCEPT !.op = op]
    /\ UNCHANGED <<cuda, chunks, used, linked, recorded, status>>

Goto(next) == pc' = next /\ UNCHANGED status
Return(s) == pc' = "idle" /\ k' = Idle /\ status' = s

\* A likely slip, for the mutant runs: the location asked for instead of the outcome.
ReportTarget(l) ==
    recorded' = IF k.asked /\ linked THEN [recorded EXCEPT ![k.va] = k.loc] ELSE recorded

\* A message about the call's chunk, sent when the broker has been asked about it.
Report(l) == recorded' = IF k.asked /\ linked THEN [recorded EXCEPT ![k.va] = l] ELSE recorded

Release(hs) == memory' = [h \in Handle |-> IF h \in hs THEN Unallocated ELSE memory[h]]

\* A likely slip: the mapping outlives its handle.
UnmapForgotten(vas) == UNCHANGED <<backing, access>>

Unmap(vas) ==
    /\ backing' = [va \in Va |-> IF va \in vas THEN Nil ELSE backing[va]]
    /\ access' = access \ vas

LinkLost == linked' = FALSE /\ recorded' = [va \in Va |-> "None"]

\* cuMemCreate
Allocate(l, h) == memory[h] = Unallocated /\ memory' = [memory EXCEPT ![h].loc = l]

\* cuMemMap and cuMemSetAccess, the two halves of map.
MapAt(va, h) == backing' = [backing EXCEPT ![va] = h]
Permit(va) == access' = access \cup {va}

-----------------------------------------------------------------------------
(* create *)

CreateFails(s) ==
    /\ Release({k.h})
    /\ Unmap({k.va})
    /\ reserved' = reserved \ {k.va}
    /\ Report("None")
    /\ Return(s)
    /\ UNCHANGED <<chunks, used, linked>>

ReserveVa ==
    /\ pc = "reserve"
    /\ \/ \E va \in Va \ reserved :
             /\ reserved' = reserved \cup {va}
             /\ k' = [k EXCEPT !.va = va]
             /\ Goto("place")
       \/ \E s \in Failure : Return(s) /\ UNCHANGED reserved
    /\ UNCHANGED <<memory, backing, access, chunks, used, linked, recorded>>

\* decide_place: locally, or as the broker answers, refuses or is lost.
Place ==
    /\ pc = "place"
    /\ \/ /\ ~linked
          /\ k' = [k EXCEPT !.loc = "Device"]
          /\ Goto("create") /\ UNCHANGED <<cuda, linked, recorded>>
       \/ /\ linked /\ LinkLost
          /\ k' = [k EXCEPT !.loc = "Device"]
          /\ Goto("create") /\ UNCHANGED cuda
       \/ \E l \in Loc :
             /\ linked
             /\ k' = [k EXCEPT !.loc = l, !.asked = TRUE]
             /\ recorded' = [recorded EXCEPT ![k.va] = l]
             /\ Goto("create") /\ UNCHANGED <<cuda, linked>>
       \/ /\ linked
          /\ reserved' = reserved \ {k.va}
          /\ Return("NoMemory")
          /\ UNCHANGED <<memory, backing, access, linked, recorded>>
    /\ UNCHANGED <<chunks, used>>

CreateHandle ==
    /\ pc = "create"
    /\ \/ \E h \in Handle :
             /\ Allocate(k.loc, h)
             /\ k' = [k EXCEPT !.h = h]
             /\ Report(k.loc)
             /\ Goto("map")
             /\ UNCHANGED <<reserved, backing, access, chunks, used, linked>>
       \/ /\ k.loc = "Device"   \* no room: once more, on the host
          /\ k' = [k EXCEPT !.loc = "Host"]
          /\ UNCHANGED <<cuda, chunks, used, linked, recorded, pc, status>>
       \/ \E s \in Failure : (s = "NoMemory" => k.loc = "Host") /\ CreateFails(s)

MapChunk ==
    /\ pc = "map"
    /\ \/ /\ MapAt(k.va, k.h)
          /\ Goto("permit")
          /\ UNCHANGED <<reserved, memory, access, chunks, used, linked, recorded, k>>
       \/ \E s \in Failure : CreateFails(s)

\* The application fills the chunk at once.
PermitChunk ==
    /\ pc = "permit"
    /\ \/ /\ Permit(k.va)
          /\ memory' = [memory EXCEPT ![k.h].data = k.va]
          /\ chunks' = [chunks EXCEPT ![k.va] = [h |-> k.h, size |-> k.size, loc |-> k.loc]]
          /\ used' = [used EXCEPT ![k.loc] = @ + k.size]
          /\ Return("Ok")
          /\ UNCHANGED <<reserved, backing, linked, recorded>>
       \/ \E s \in Failure : CreateFails(s)

-----------------------------------------------------------------------------
(* move *)

Old == chunks[k.va]

\* A likely slip: the new handle is leaked.
MoveFailsLeaking(s) ==
    /\ Unmap({k.tmp})
    /\ reserved' = reserved \ {k.tmp}
    /\ Report(Old.loc)
    /\ Return(s)
    /\ UNCHANGED <<memory, chunks, used, linked>>

MoveFails(s) ==
    /\ Release({k.h})
    /\ Unmap({k.tmp})
    /\ reserved' = reserved \ {k.tmp}
    /\ Report(Old.loc)
    /\ Return(s)
    /\ UNCHANGED <<chunks, used, linked>>

AskMove ==
    /\ pc = "ask"
    /\ \/ ~linked /\ Goto("new") /\ UNCHANGED <<linked, recorded, k>>
       \/ linked /\ LinkLost /\ Goto("new") /\ UNCHANGED k
       \/ /\ linked /\ Goto("new")
          /\ k' = [k EXCEPT !.asked = TRUE]
          /\ UNCHANGED <<linked, recorded>>
       \/ linked /\ Return("NoMemory") /\ UNCHANGED <<linked, recorded>>
    /\ UNCHANGED <<cuda, chunks, used>>

NewHandle ==
    /\ pc = "new"
    /\ \/ \E h \in Handle :
             /\ Allocate(k.loc, h)
             /\ k' = [k EXCEPT !.h = h]
             /\ Goto("scratch")
             /\ UNCHANGED <<reserved, backing, access, chunks, used, linked, recorded>>
       \/ \E s \in Failure : MoveFails(s)

\* copy_into: a scratch range, mapped for the copy only.
ReserveScratch ==
    /\ pc = "scratch"
    /\ \/ \E va \in Va \ reserved :
             /\ reserved' = reserved \cup {va}
             /\ k' = [k EXCEPT !.tmp = va]
             /\ Goto("mapScratch")
             /\ UNCHANGED <<memory, backing, access, chunks, used, linked, recorded>>
       \/ \E s \in Failure : MoveFails(s)

MapScratch ==
    /\ pc = "mapScratch"
    /\ \/ /\ MapAt(k.tmp, k.h)
          /\ Goto("permitScratch")
          /\ UNCHANGED <<reserved, memory, access, chunks, used, linked, recorded, k>>
       \/ \E s \in Failure : MoveFails(s)

PermitScratch ==
    /\ pc = "permitScratch"
    /\ \/ /\ Permit(k.tmp)
          /\ Goto("copy")
          /\ UNCHANGED <<reserved, memory, backing, chunks, used, linked, recorded, k>>
       \/ \E s \in Failure : MoveFails(s)

Copy ==
    /\ pc = "copy"
    /\ \/ /\ memory' = [memory EXCEPT ![k.h].data = memory[backing[k.va]].data]
          /\ Unmap({k.tmp})
          /\ reserved' = reserved \ {k.tmp}
          /\ k' = [k EXCEPT !.tmp = Nil]
          /\ Goto("unmap")
          /\ UNCHANGED <<chunks, used, linked, recorded>>
       \/ \E s \in Failure : MoveFails(s)

\* replace_backing
UnmapOld ==
    /\ pc = "unmap"
    /\ \/ /\ Unmap({k.va})
          /\ Goto("swapIn")
          /\ UNCHANGED <<reserved, memory, chunks, used, linked, recorded, k>>
       \/ \E s \in Failure : MoveFails(s)

\* The new handle does not map: put the old one back.
FallBack(s) ==
    /\ Unmap({k.va})
    /\ k' = [k EXCEPT !.error = s]
    /\ Goto("putBack")
    /\ UNCHANGED <<reserved, memory, chunks, used, linked, recorded>>

MapNew ==
    /\ pc = "swapIn"
    /\ \/ /\ MapAt(k.va, k.h)
          /\ Goto("permitNew")
          /\ UNCHANGED <<reserved, memory, access, chunks, used, linked, recorded, k>>
       \/ \E s \in Failure : FallBack(s)

PermitNew ==
    /\ pc = "permitNew"
    /\ \/ /\ Permit(k.va)
          /\ Release({Old.h})
          /\ chunks' = [chunks EXCEPT ![k.va] = [h |-> k.h, size |-> Old.size, loc |-> k.loc]]
          /\ used' = [l \in Loc |-> IF l = k.loc THEN used[l] + Old.size ELSE used[l] - Old.size]
          /\ Report(k.loc)
          /\ Return("Ok")
          /\ UNCHANGED <<reserved, backing, linked>>
       \/ \E s \in Failure : FallBack(s)

MapBack ==
    /\ pc = "putBack"
    /\ \/ /\ MapAt(k.va, Old.h)
          /\ Goto("permitBack")
          /\ UNCHANGED <<reserved, memory, access, chunks, used, linked, recorded, k>>
       \/ MoveFails("Fatal")

PermitBack ==
    /\ pc = "permitBack"
    /\ \/ /\ Permit(k.va)
          /\ Release({k.h})
          /\ Report(Old.loc)
          /\ Return(k.error)
          /\ UNCHANGED <<reserved, backing, chunks, used, linked>>
       \/ /\ Release({k.h})
          /\ Unmap({k.va})
          /\ Report(Old.loc)
          /\ Return("Fatal")
          /\ UNCHANGED <<reserved, chunks, used, linked>>

-----------------------------------------------------------------------------
(* destroy: unmap, release, give the address back; a failure is Fatal.     *)

DestroyFails == Return("Fatal") /\ UNCHANGED <<chunks, used, linked, recorded>>

UnmapChunk ==
    /\ pc = "drop"
    /\ \/ /\ Unmap({k.va})
          /\ Goto("release")
          /\ UNCHANGED <<chunks, used, linked, recorded, k>>
       \/ DestroyFails /\ UNCHANGED <<backing, access>>
    /\ UNCHANGED <<reserved, memory>>

ReleaseChunk ==
    /\ pc = "release"
    /\ \/ /\ Release({Old.h})
          /\ Goto("unreserve")
          /\ UNCHANGED <<chunks, used, linked, recorded, k>>
       \/ DestroyFails /\ UNCHANGED memory
    /\ UNCHANGED <<reserved, backing, access>>

\* A likely slip: the chunk is reset to its defaults first, and its bytes never go.
FreeVaAfterReset ==
    /\ pc = "unreserve"
    /\ reserved' = reserved \ {k.va}
    /\ chunks' = [chunks EXCEPT ![k.va] = [NoChunk EXCEPT !.loc = "Device"]]
    /\ recorded' = [recorded EXCEPT ![k.va] = "None"]
    /\ Return("Ok")
    /\ UNCHANGED <<memory, backing, access, used, linked>>

FreeVa ==
    /\ pc = "unreserve"
    /\ \/ /\ reserved' = reserved \ {k.va}
          /\ chunks' = [chunks EXCEPT ![k.va] = NoChunk]
          /\ used' = [used EXCEPT ![Old.loc] = @ - Old.size]
          /\ recorded' = [recorded EXCEPT ![k.va] = "None"]
          /\ Return("Ok")
          /\ UNCHANGED linked
       \/ DestroyFails /\ UNCHANGED reserved
    /\ UNCHANGED <<memory, backing, access>>

-----------------------------------------------------------------------------
Begin ==
    \/ \E n \in Size : Start("create", "reserve", [Idle EXCEPT !.size = n])
    \/ \E va \in Live :
          \/ Start("destroy", "drop", [Idle EXCEPT !.va = va])
          \/ \E to \in Loc \ {chunks[va].loc} :
                Start("move", "ask", [Idle EXCEPT !.va = va, !.loc = to])

\* The link breaks at a send; reconnect, called by the application or on the way
\* into create and move, reports every live chunk.
BreakLink == linked /\ LinkLost /\ UNCHANGED <<cuda, chunks, used, pc, k, status>>

Reconnect ==
    /\ pc \in {"idle", "place", "ask"} /\ ~linked
    /\ linked' = TRUE
    /\ recorded' = [va \in Va |-> chunks[va].loc]
    /\ UNCHANGED <<cuda, chunks, used, pc, k, status>>

Next ==
    \/ Begin \/ BreakLink \/ Reconnect
    \/ ReserveVa \/ Place \/ CreateHandle \/ MapChunk \/ PermitChunk
    \/ AskMove \/ NewHandle \/ ReserveScratch \/ MapScratch \/ PermitScratch \/ Copy
    \/ UnmapOld \/ MapNew \/ PermitNew \/ MapBack \/ PermitBack
    \/ UnmapChunk \/ ReleaseChunk \/ FreeVa

Spec == Init /\ [][Next]_vars

-----------------------------------------------------------------------------
Call == [op : {"none", "create", "move", "destroy"}, va : Va \cup {Nil}, size : Size \cup {0},
         loc : Loc \cup {"None"}, h : Handle \cup {Nil}, tmp : Va \cup {Nil}, asked : BOOLEAN,
         error : Failure \cup {"Ok"}]

Pc == {"idle", "reserve", "place", "create", "map", "permit",
       "ask", "new", "scratch", "mapScratch", "permitScratch", "copy",
       "unmap", "swapIn", "permitNew", "putBack", "permitBack",
       "drop", "release", "unreserve"}

(* Types of the driver's objects and of the call under way.                *)
TypeOK ==
    /\ reserved \subseteq Va /\ access \subseteq Va
    /\ memory \in [Handle -> [loc : Loc \cup {"None"}, data : Va \cup {Nil}]]
    /\ backing \in [Va -> Handle \cup {Nil}]
    /\ chunks \in [Va -> [h : Handle, size : Size, loc : Loc] \cup {NoChunk}]
    /\ used \in [Loc -> Int]
    /\ linked \in BOOLEAN
    /\ recorded \in [Va -> Loc \cup {"None"}]
    /\ pc \in Pc
    /\ k \in Call
    /\ status \in Failure \cup {"Ok"}

(* At no step is an address mapped that is not reserved, or to a handle    *)
(* that has been released, or made accessible without a mapping.           *)
MappingsLive == \A va \in Va :
    /\ backing[va] # Nil => va \in reserved /\ memory[backing[va]] # Unallocated
    /\ va \in access => backing[va] # Nil

(* B1, B2, B3: between calls, unless one was Fatal, the driver's state is  *)
(* exactly what chunks_ says.  Every chunk is mapped by its own handle, at *)
(* its location, accessible, and holds what the application wrote; and no  *)
(* failed call left a handle, a mapping or an address range behind.        *)
(* At every step used(Loc) is the sum of the sizes of the chunks there.    *)
Quiet == pc = "idle" /\ status # "Fatal"
ChunksExact ==
    /\ \A l \in Loc :
          used[l] = Total([va \in Va |-> IF chunks[va].loc = l THEN chunks[va].size ELSE 0])
    /\ Quiet =>
          /\ reserved = Live
          /\ access = Live
          /\ \A va \in Va : backing[va] = chunks[va].h
          /\ \A va \in Live : memory[chunks[va].h] = [loc |-> chunks[va].loc, data |-> va]
          /\ \A h \in Handle : memory[h] # Unallocated => \E va \in Live : chunks[va].h = h

(* B5, down to each exit of a call: what the reports of a call leave at    *)
(* the broker is where the chunk is, or nothing if there is none.          *)
BrokerExact == Quiet /\ linked => \A va \in Va : recorded[va] = chunks[va].loc
=============================================================================
