---------------------------- MODULE RemapShared ----------------------------
(***************************************************************************)
(* experiments/VMMRemapShared: an owner process shares a segment of GPU    *)
(* memory with subscribers that map the same chunks at addresses of their  *)
(* own, allocate from one bump pointer in shared memory, and give up and   *)
(* take back their mapping of a chunk while the owner moves it to the host *)
(* and back.                                                               *)
(*                                                                         *)
(* Every message is answered with the same one-byte ack.  Any process may  *)
(* exit at any point, as CU_CHECK and die make it do; nothing recovers.    *)
(* Offsets count regions, all of one length.                               *)
(***************************************************************************)
EXTENDS SequencesExt, Naturals, FiniteSets

CONSTANTS
    Sub,         \* subscribers; their number is the owner's first argument
    Owner,       \* the owner
    NChunk,      \* initial chunks, the owner's second argument
    ChunkSizes,  \* possible sizes of a chunk, in regions: its third argument
    MaxDeath,    \* processes that may exit early
    Nil

ASSUME RemapAssumption ==
    /\ Owner \notin Sub /\ Nil \notin Sub \cup {Owner}
    /\ IsFiniteSet(Sub) /\ Sub # {}
    /\ NChunk \in Nat \ {0} /\ MaxDeath \in Nat
    /\ ChunkSizes \subseteq Nat \ {0}

Chunk == 0 .. NChunk          \* the last one is the growth
Process == Sub \cup {Owner}

VARIABLES
    memory,   \* every physical allocation made so far: location and contents
    shm,      \* the shared state: lock, bump, total, allocs
    chan,     \* messages to each subscriber
    acks,     \* acks of each subscriber the owner has not read
    owner,    \* program counter, index into cs, remap phase
    cs,       \* connections in the order of accept
    waiting,  \* subscribers in the listen queue
    pc,       \* each subscriber's program counter
    maps,     \* for each process and chunk, the allocation mapped there, 0 for none
    fds,      \* for each process, allocations it holds a file descriptor of
    size,     \* g_chunk
    deaths

vars == <<memory, shm, chan, acks, owner, cs, waiting, pc, maps, fds, size, deaths>>
links == <<chan, acks, cs, waiting>>

Init ==
    /\ memory = <<>>
    /\ shm = [lock |-> Nil, bump |-> 0, total |-> 0, allocs |-> <<>>]
    /\ chan = [s \in Sub |-> <<>>] /\ acks = [s \in Sub |-> 0]
    /\ owner = [pc |-> "start", i |-> 1, phase |-> 1]
    /\ cs = <<>> /\ waiting = {}
    /\ pc = [s \in Sub |-> "start"]
    /\ maps = [p \in Process |-> [c \in Chunk |-> 0]]
    /\ fds = [p \in Process |-> {}]
    /\ size \in ChunkSizes
    /\ deaths = 0

Ended == {"passed", "failed", "dead"}
OwnerEnded == owner.pc \in Ended

\* The memory of a process that exits is unmapped and its descriptors are closed.
Exits(p) ==
    /\ maps' = [maps EXCEPT ![p] = [c \in Chunk |-> 0]]
    /\ fds' = [fds EXCEPT ![p] = {}]

OwnerDies ==
    /\ owner' = [owner EXCEPT !.pc = "dead"]
    /\ Exits(Owner)
    /\ UNCHANGED <<memory, shm, links, pc, size, deaths>>

SubDies(s) ==
    /\ pc' = [pc EXCEPT ![s] = "dead"]
    /\ Exits(s)
    /\ UNCHANGED <<memory, shm, links, owner, size, deaths>>

-----------------------------------------------------------------------------
(* The owner's messages *)

\* broadcast, one subscriber at a time; to one that has exited it is fatal.
Broadcast(m, next) ==
    LET s == cs[owner.i]
    IN  \/ /\ pc[s] \notin Ended
           /\ chan' = [chan EXCEPT ![s] = Append(@, m)]
           /\ IF owner.i < Len(cs)
              THEN owner' = [owner EXCEPT !.i = @ + 1] /\ UNCHANGED fds
              ELSE /\ owner' = [owner EXCEPT !.i = 1, !.pc = next]
                   /\ fds' = [fds EXCEPT ![Owner] = @ \ m.fds]
           /\ UNCHANGED <<memory, shm, acks, cs, waiting, pc, maps, size, deaths>>
        \/ pc[s] \in Ended /\ OwnerDies

\* A likely slip, for the mutant runs: the owner goes on after the first ack.
BarrierOfFirst(next) ==
    LET s == cs[owner.i]
    IN  /\ acks[s] > 0
        /\ acks' = [acks EXCEPT ![s] = @ - 1]
        /\ owner' = [owner EXCEPT !.i = 1, !.pc = next]
        /\ UNCHANGED <<memory, shm, chan, cs, waiting, pc, maps, fds, size, deaths>>

\* A likely slip: the owner waits for one who will not answer.
BarrierForever(next) ==
    LET s == cs[owner.i]
    IN  /\ acks[s] > 0
        /\ acks' = [acks EXCEPT ![s] = @ - 1]
        /\ owner' = IF owner.i < Len(cs) THEN [owner EXCEPT !.i = @ + 1]
                    ELSE [owner EXCEPT !.i = 1, !.pc = next]
        /\ UNCHANGED <<memory, shm, chan, cs, waiting, pc, maps, fds, size, deaths>>

\* barrier, in the order of cs; the end of a connection is fatal.
Barrier(next) ==
    LET s == cs[owner.i]
    IN  \/ /\ acks[s] > 0
           /\ acks' = [acks EXCEPT ![s] = @ - 1]
           /\ owner' = IF owner.i < Len(cs) THEN [owner EXCEPT !.i = @ + 1]
                       ELSE [owner EXCEPT !.i = 1, !.pc = next]
           /\ UNCHANGED <<memory, shm, chan, cs, waiting, pc, maps, fds, size, deaths>>
        \/ acks[s] = 0 /\ pc[s] \in Ended /\ OwnerDies

Message(type, c, ms) == [type |-> type, idx |-> c, fds |-> ms]

-----------------------------------------------------------------------------
(* The owner's program *)

Fresh(l) == [loc |-> l, data |-> [k \in 0 .. size - 1 |-> Nil]]

\* Shared memory and the initial chunks; their descriptors stay open.
OwnerStart ==
    /\ owner.pc = "start"
    /\ memory' = [i \in 1 .. NChunk |-> Fresh("Device")]
    /\ maps' = [maps EXCEPT ![Owner] = [c \in Chunk |-> IF c < NChunk THEN c + 1 ELSE 0]]
    /\ fds' = [fds EXCEPT ![Owner] = 1 .. NChunk]
    /\ shm' = [shm EXCEPT !.total = size * NChunk]
    /\ owner' = [owner EXCEPT !.pc = "bind"]
    /\ UNCHANGED <<links, pc, size, deaths>>

Listen ==
    /\ owner.pc = "bind"
    /\ owner' = [owner EXCEPT !.pc = "accept"]
    /\ UNCHANGED <<memory, shm, links, pc, maps, fds, size, deaths>>

Accept ==
    /\ owner.pc = "accept"
    /\ \E s \in waiting :
          \/ /\ pc[s] \notin Ended
             /\ waiting' = waiting \ {s}
             /\ cs' = Append(cs, s)
             /\ chan' = [chan EXCEPT ![s] = Append(@, Message("HEADER", 0, 1 .. NChunk))]
             /\ owner' = [owner EXCEPT !.pc = IF Len(cs') = Cardinality(Sub)
                                              THEN "pass1" ELSE "accept"]
             /\ UNCHANGED <<memory, shm, acks, pc, maps, fds, size, deaths>>
          \/ pc[s] \in Ended /\ OwnerDies

\* A likely slip: the bump pointer stays in the initial chunks.
GrowKeepingBump ==
    /\ owner.pc = "grow" /\ shm.lock = Nil
    /\ memory' = Append(memory, Fresh("Device"))
    /\ maps' = [maps EXCEPT ![Owner][NChunk] = Len(memory')]
    /\ fds' = [fds EXCEPT ![Owner] = @ \cup {Len(memory')}]
    /\ shm' = [shm EXCEPT !.total = size * (NChunk + 1), !.bump = 0]
    /\ owner' = [owner EXCEPT !.pc = "add"]
    /\ UNCHANGED <<links, pc, size, deaths>>

\* One more chunk; allocations continue in it.
Grow ==
    /\ owner.pc = "grow" /\ shm.lock = Nil
    /\ memory' = Append(memory, Fresh("Device"))
    /\ maps' = [maps EXCEPT ![Owner][NChunk] = Len(memory')]
    /\ fds' = [fds EXCEPT ![Owner] = @ \cup {Len(memory')}]
    /\ shm' = [shm EXCEPT !.total = size * (NChunk + 1), !.bump = size * NChunk]
    /\ owner' = [owner EXCEPT !.pc = "add"]
    /\ UNCHANGED <<links, pc, size, deaths>>

\* A likely slip: the new memory is mapped without the copy.
CopyForgotten ==
    /\ owner.pc = "copy"
    /\ memory' = Append(memory, Fresh(IF owner.phase = 1 THEN "Host" ELSE "Device"))
    /\ owner' = [owner EXCEPT !.pc = "swap"]
    /\ UNCHANGED <<shm, links, pc, maps, fds, size, deaths>>

\* remap_backing of chunk 0: the new memory and the copy, through a scratch mapping.
CopyOut ==
    /\ owner.pc = "copy"
    /\ memory' = Append(memory, [loc |-> IF owner.phase = 1 THEN "Host" ELSE "Device",
                                 data |-> memory[maps[Owner][0]].data])
    /\ owner' = [owner EXCEPT !.pc = "swap"]
    /\ UNCHANGED <<shm, links, pc, maps, fds, size, deaths>>

\* The new memory under the old address; the entry in shared memory; the export.
SwapIn ==
    /\ owner.pc = "swap" /\ shm.lock = Nil
    /\ maps' = [maps EXCEPT ![Owner][0] = Len(memory)]
    /\ fds' = [fds EXCEPT ![Owner] = @ \cup {Len(memory)}]
    /\ owner' = [owner EXCEPT !.pc = "remap", !.phase = @ + 1]
    /\ UNCHANGED <<memory, shm, links, pc, size, deaths>>

\* Every region's tag is where the table says, in what p has mapped.
Tag(a) == <<a.sub, a.pass>>
Intact(p) == \A i \in DOMAIN shm.allocs :
    LET a == shm.allocs[i]
        c == a.off \div size
    IN  /\ c \in Chunk /\ maps[p][c] # 0
        /\ memory[maps[p][c]].data[a.off % size] = Tag(a)

OwnerLocks ==
    /\ owner.pc = "verify" /\ shm.lock = Nil
    /\ shm' = [shm EXCEPT !.lock = Owner]
    /\ owner' = [owner EXCEPT !.pc = "verifying"]
    /\ UNCHANGED <<memory, links, pc, maps, fds, size, deaths>>

OwnerVerifies ==
    /\ owner.pc = "verifying"
    /\ shm' = [shm EXCEPT !.lock = Nil]
    /\ owner' = [owner EXCEPT !.pc = IF Intact(Owner) THEN "passed" ELSE "failed"]
    /\ Exits(Owner)
    /\ UNCHANGED <<memory, links, pc, size, deaths>>

OwnerStep ==
    \/ OwnerStart \/ Listen \/ Accept
    \/ owner.pc = "pass1" /\ Barrier("grow")
    \/ Grow
    \/ owner.pc = "add" /\ Broadcast(Message("ADD_CHUNK", NChunk, {NChunk + 1}), "pass2")
    \/ owner.pc = "pass2" /\ Barrier("revoke")
    \/ owner.pc = "revoke" /\ Broadcast(Message("REVOKE", 0, {}), "revoked")
    \/ owner.pc = "revoked" /\ Barrier("copy")
    \/ CopyOut \/ SwapIn
    \/ owner.pc = "remap" /\ Broadcast(Message("REMAP", 0, {Len(memory)}), "remapped")
    \/ owner.pc = "remapped" /\ Barrier(IF owner.phase = 2 THEN "revoke" ELSE "go")
    \/ owner.pc = "go" /\ Broadcast(Message("GO", 0, {}), "verify")
    \/ OwnerLocks \/ OwnerVerifies

-----------------------------------------------------------------------------
(* A subscriber's program *)

Goto(s, next) == pc' = [pc EXCEPT ![s] = next]

\* It retries for two seconds each until there is shared memory and a listener.
Attach(s) ==
    /\ pc[s] = "start" /\ owner.pc # "start" /\ ~OwnerEnded
    /\ Goto(s, "attached")
    /\ UNCHANGED <<memory, shm, links, owner, maps, fds, size, deaths>>

Dial(s) ==
    /\ pc[s] = "attached" /\ owner.pc = "accept"
    /\ waiting' = waiting \cup {s}
    /\ Goto(s, "header")
    /\ UNCHANGED <<memory, shm, chan, acks, cs, owner, maps, fds, size, deaths>>

GivesUp(s) ==
    /\ \/ pc[s] = "start" /\ owner.pc \in {"start"} \cup Ended
       \/ pc[s] = "attached" /\ owner.pc \in {"bind"} \cup Ended
    /\ SubDies(s)

\* An ack is one byte, the same for all; writing it to an owner that is gone is fatal.
Acked(s) == acks' = [acks EXCEPT ![s] = @ + 1]

\* A likely slip: one chunk more than the header carries.
MappedOneMore(s, m) ==
    /\ maps' = [maps EXCEPT ![s] = [c \in Chunk |->
           IF m.type = "HEADER" THEN c + 1
           ELSE IF c = m.idx THEN CHOOSE x \in m.fds : TRUE ELSE @[c]]]
    /\ fds' = [fds EXCEPT ![s] = @ \cup m.fds]

\* map_chunk, for each descriptor received; the descriptors stay open.
Mapped(s, m) ==
    /\ maps' = [maps EXCEPT ![s] = [c \in Chunk |->
           IF m.type = "HEADER" THEN IF c < NChunk THEN c + 1 ELSE 0
           ELSE IF c = m.idx THEN CHOOSE x \in m.fds : TRUE ELSE @[c]]]
    /\ fds' = [fds EXCEPT ![s] = @ \cup m.fds]

\* A likely slip: a revoked chunk stays mapped.
RevokedOnPaper(s, m) ==
    /\ m.type = "REVOKE"
    /\ Acked(s) /\ UNCHANGED <<pc, maps, fds>>

\* unmap_chunk
Revoked(s, m) ==
    /\ m.type = "REVOKE"
    /\ maps' = [maps EXCEPT ![s][m.idx] = 0]
    /\ Acked(s) /\ UNCHANGED <<pc, fds>>

Serve(s, m) ==
    \/ m.type = "GO" /\ Goto(s, "verify") /\ UNCHANGED <<acks, maps, fds>>
    \/ ~OwnerEnded /\ Revoked(s, m)
    \/ ~OwnerEnded /\ m.type = "REMAP" /\ Mapped(s, m) /\ Acked(s) /\ UNCHANGED pc

\* One recvmsg and what the program does with the message it expects there.
Receive(s) ==
    /\ chan[s] # <<>>
    /\ LET m == Head(chan[s])
       IN  /\ \/ /\ pc[s] = "header" /\ m.type = "HEADER"
                 /\ Mapped(s, m) /\ Goto(s, "alloc1") /\ UNCHANGED acks
              \/ /\ pc[s] = "add" /\ m.type = "ADD_CHUNK"
                 /\ Mapped(s, m) /\ Goto(s, "alloc2") /\ UNCHANGED acks
              \/ /\ pc[s] = "serve" /\ Serve(s, m)
    /\ chan' = [chan EXCEPT ![s] = Tail(@)]
    /\ UNCHANGED <<memory, shm, owner, cs, waiting, size, deaths>>

Expected(s) ==
    IF pc[s] = "header" THEN {"HEADER"} ELSE IF pc[s] = "add" THEN {"ADD_CHUNK"}
    ELSE IF OwnerEnded THEN {"GO"} ELSE {"REVOKE", "REMAP", "GO"}

\* The end of the connection, a message it does not expect, or an ack nobody reads.
ReceiveDies(s) ==
    /\ pc[s] \in {"header", "add", "serve"}
    /\ \/ chan[s] = <<>> /\ OwnerEnded
       \/ chan[s] # <<>> /\ Head(chan[s]).type \notin Expected(s)
    /\ SubDies(s)

Pass(s) == IF pc[s] \in {"alloc1", "tag1"} THEN 1 ELSE 2

\* alloc_and_tag: a region from the bump pointer, under the lock.
Allocate(s) ==
    /\ pc[s] \in {"alloc1", "alloc2"} /\ shm.lock = Nil
    /\ \/ /\ shm.bump + 1 <= shm.total
          /\ shm' = [shm EXCEPT !.bump = @ + 1,
                        !.allocs = Append(@, [off |-> shm.bump, sub |-> s, pass |-> Pass(s)])]
          /\ Goto(s, IF Pass(s) = 1 THEN "tag1" ELSE "tag2")
          /\ UNCHANGED <<memory, links, owner, maps, fds, size, deaths>>
       \/ shm.bump + 1 > shm.total /\ SubDies(s)

Mine(s) == CHOOSE a \in ToSet(shm.allocs) : Tag(a) = <<s, Pass(s)>>

\* The write to the GPU through the subscriber's own mapping, then the ack.
WriteTag(s) ==
    /\ pc[s] \in {"tag1", "tag2"}
    /\ LET a == Mine(s)
           at == maps[s][a.off \div size]
       IN  IF at = 0 \/ OwnerEnded THEN SubDies(s)
           ELSE /\ memory' = [memory EXCEPT ![at].data[a.off % size] = Tag(a)]
                /\ Acked(s)
                /\ Goto(s, IF Pass(s) = 1 THEN "add" ELSE "serve")
                /\ UNCHANGED <<shm, chan, cs, waiting, owner, maps, fds, size, deaths>>

SubLocks(s) ==
    /\ pc[s] = "verify" /\ shm.lock = Nil
    /\ shm' = [shm EXCEPT !.lock = s]
    /\ Goto(s, "verifying")
    /\ UNCHANGED <<memory, links, owner, maps, fds, size, deaths>>

\* It also wants four regions: two tenants, two passes.
SubVerifies(s) ==
    /\ pc[s] = "verifying"
    /\ shm' = [shm EXCEPT !.lock = Nil]
    /\ Goto(s, IF Intact(s) /\ Len(shm.allocs) >= 4 THEN "passed" ELSE "failed")
    /\ Exits(s)
    /\ UNCHANGED <<memory, links, owner, size, deaths>>

SubStep(s) ==
    \/ Attach(s) \/ Dial(s) \/ GivesUp(s)
    \/ Receive(s) \/ ReceiveDies(s)
    \/ Allocate(s) \/ WriteTag(s)
    \/ SubLocks(s) \/ SubVerifies(s)

-----------------------------------------------------------------------------
\* A CUDA call or system call fails, or the process is killed outside alloc's lock.
Dies ==
    /\ deaths < MaxDeath /\ deaths' = deaths + 1
    /\ \/ /\ ~OwnerEnded /\ owner' = [owner EXCEPT !.pc = "dead"]
          /\ Exits(Owner) /\ UNCHANGED pc
       \/ \E s \in Sub :
             /\ pc[s] \notin Ended /\ Goto(s, "dead")
             /\ Exits(s) /\ UNCHANGED owner
    /\ UNCHANGED <<memory, shm, links, size>>

AllEnded == OwnerEnded /\ \A s \in Sub : pc[s] \in Ended

Next ==
    \/ OwnerStep
    \/ \E s \in Sub : SubStep(s)
    \/ Dies

Spec == Init /\ [][Next]_vars

\* Every process is scheduled.
FairSpec == Spec /\ WF_vars(OwnerStep) /\ \A s \in Sub : WF_vars(SubStep(s))

-----------------------------------------------------------------------------
(* Types; mapped and shared allocations exist.                             *)
TypeOK ==
    /\ \A m \in DOMAIN memory : memory[m].loc \in {"Device", "Host"}
    /\ shm.lock \in Process \cup {Nil} /\ shm.bump \in Nat /\ shm.total \in Nat
    /\ ToSet(shm.allocs) \subseteq [off : Nat, sub : Sub, pass : {1, 2}]
    /\ acks \in [Sub -> Nat] /\ ToSet(cs) \subseteq Sub /\ waiting \subseteq Sub
    /\ owner.i \in 1 .. Cardinality(Sub) /\ owner.phase \in 1 .. 3
    /\ maps \in [Process -> [Chunk -> 0 .. Len(memory)]]
    /\ fds \in [Process -> SUBSET DOMAIN memory]

(* While the owner copies a chunk and swaps its memory, no subscriber has  *)
(* the chunk mapped, so nothing can be written that the copy misses, and   *)
(* none is left reading the memory of before.                              *)
OwnerAlone == owner.pc \in {"copy", "swap"} => \A s \in Sub : maps[s][0] = 0

(* What a subscriber has mapped for a chunk is the memory the owner has,   *)
(* whatever was moved in between: none works on memory that was replaced.  *)
SameMemory == ~OwnerEnded => \A s \in Sub : \A c \in Chunk :
    maps[s][c] \in {0, maps[Owner][c]}

(* No two regions overlap and each is inside the segment, across the       *)
(* growth, which moves the bump pointer.                                   *)
RegionsApart ==
    /\ \A i, j \in DOMAIN shm.allocs : i # j => shm.allocs[i].off # shm.allocs[j].off
    /\ \A i \in DOMAIN shm.allocs : shm.allocs[i].off < shm.total

(* Whoever gets as far as verifying finds every region's tag, through its  *)
(* own mapping, after two moves of the memory under it.                    *)
AllVerified == owner.pc # "failed" /\ \A s \in Sub : pc[s] # "failed"

(* Every process comes to an end, whoever dies on the way: the end of a    *)
(* connection is noticed on both sides.  Two cases are left out, where the *)
(* code does wait for ever: one who dies with the lock, and one who never  *)
(* connects.                                                               *)
DiedUnconnected == \E s \in Sub : pc[s] = "dead" /\ s \notin ToSet(cs) \cup waiting
DiedLocked == \/ shm.lock = Owner /\ owner.pc = "dead"
              \/ \E s \in Sub : shm.lock = s /\ pc[s] = "dead"
Ends == <>[](AllEnded \/ DiedUnconnected \/ DiedLocked)
=============================================================================
