------------------------- MODULE RemapSharedProofs -------------------------
(***************************************************************************)
(* The shared segment, for any number of subscribers, chunks and exits:    *)
(* TypeOK, OwnerAlone, SameMemory, RegionsApart and AllVerified.  The      *)
(* argument is about the one message that may be under way to each         *)
(* subscriber: in a round the owner has Asked some subscribers and not the *)
(* others, which Rest, or has the acks of some and not of the others.      *)
(***************************************************************************)
EXTENDS RemapShared, FiniteSetTheorems, TLAPS

(* The states of a subscriber, and of the owner before and after it grows. *)
SubPc == {"start", "attached", "header", "alloc1", "tag1", "add", "alloc2", "tag2",
          "serve", "verify", "verifying"} \cup Ended
Early == {"bind", "accept", "pass1", "grow"}
Late == {"add", "pass2", "revoke", "revoked", "copy", "swap", "remap", "remapped", "go",
         "verify", "verifying"}
OwnerPc == {"start"} \cup Early \cup Late \cup Ended
Rounds == {"pass1", "add", "pass2", "revoke", "revoked", "remap", "remapped", "go"}

Header == Message("HEADER", 0, 1 .. NChunk)
AddChunk == Message("ADD_CHUNK", NChunk, {NChunk + 1})
Revoke == Message("REVOKE", 0, {})
Remap(x) == Message("REMAP", 0, {x})
Go == Message("GO", 0, {})

(* At most one message is on its way, and what it names exists.            *)
Post(s) ==
    \/ chan[s] = <<>>
    \/ chan[s] = <<Header>> /\ NChunk <= Len(memory)
    \/ chan[s] = <<AddChunk>> /\ NChunk + 1 <= Len(memory)
    \/ chan[s] = <<Revoke>> \/ chan[s] = <<Go>>
    \/ \E x \in DOMAIN memory : chan[s] = <<Remap(x)>>

Tags == Sub \X {1, 2}
Contents == [0 .. size - 1 -> Tags \cup {Nil}]

Types ==
    /\ memory \in Seq([loc : {"Device", "Host"}, data : Contents])
    /\ shm \in [lock : Process \cup {Nil}, bump : Nat, total : Nat,
                allocs : Seq([off : Nat, sub : Sub, pass : {1, 2}])]
    /\ DOMAIN chan = Sub /\ \A s \in Sub : Post(s)
    /\ acks \in [Sub -> Nat]
    /\ owner \in [pc : OwnerPc, i : 1 .. Cardinality(Sub), phase : 1 .. 3]
    /\ cs \in Seq(Sub) /\ waiting \subseteq Sub
    /\ pc \in [Sub -> SubPc]
    /\ maps \in [Process -> [Chunk -> 0 .. Len(memory)]]
    /\ fds \in [Process -> SUBSET DOMAIN memory]
    /\ size \in ChunkSizes /\ deaths \in Nat

(* The bump pointer stays in the segment and what it has passed is taken:  *)
(* by the first pass before the growth, by the second one after it.        *)
Offsets ==
    /\ shm.total \in {0, size * NChunk, size * (NChunk + 1)}
    /\ shm.bump <= shm.total
    /\ shm.total = size * (NChunk + 1) => size * NChunk <= shm.bump
    /\ \A i \in DOMAIN shm.allocs :
          /\ shm.allocs[i].off < shm.bump
          /\ shm.allocs[i].pass = 1 <=> shm.allocs[i].off < size * NChunk
    /\ \A i, j \in DOMAIN shm.allocs : i # j =>
          /\ shm.allocs[i].off # shm.allocs[j].off
          /\ Tag(shm.allocs[i]) # Tag(shm.allocs[j])

(* What a subscriber's place in its program says of the table.             *)
Has(s, p) == \E i \in DOMAIN shm.allocs : Tag(shm.allocs[i]) = <<s, p>>
Given(s, m) == chan[s] = <<m>>
Before(s) ==
    /\ pc[s] \in {"start", "attached", "header", "alloc1"} => ~Has(s, 1)
    /\ pc[s] \in {"start", "attached", "header", "alloc1", "tag1", "add", "alloc2"} =>
          ~Has(s, 2)
    /\ pc[s] = "tag1" => Has(s, 1)
    /\ pc[s] = "tag2" => Has(s, 2)
    /\ pc[s] \in {"alloc1", "tag1"} \/ (pc[s] = "header" /\ Given(s, Header)) =>
          shm.total = size * NChunk
    /\ pc[s] = "alloc2" \/ (pc[s] = "add" /\ Given(s, AddChunk)) =>
          shm.total = size * (NChunk + 1)
    /\ pc[s] \in Ended => maps[s] = [c \in Chunk |-> 0]

(* Who has been told to go finds every tag, and nobody writes any more.    *)
Told(s) == pc[s] \in {"verify", "verifying"} \/ (pc[s] = "serve" /\ Given(s, Go))
Quiet ==
    /\ owner.pc \in {"go", "verify", "verifying"} \cup Ended
    /\ \A s \in Sub : pc[s] \in {"serve", "verify", "verifying"} \cup Ended
Everyone == \A s \in Sub : Has(s, 1) /\ Has(s, 2)
Ready == \A s \in Sub : Told(s) => Intact(s) /\ Quiet /\ Everyone

-----------------------------------------------------------------------------
(* While the owner lives.                                                  *)

(* What it has mapped itself.                                              *)
Mapping ==
    /\ owner.pc = "start" => /\ memory = <<>> /\ shm.total = 0
    /\ owner.pc \in {"start"} \cup Early => maps[Owner][NChunk] = 0
    /\ owner.pc \in Early =>
          /\ Len(memory) = NChunk /\ shm.total = size * NChunk
          /\ \A c \in 0 .. NChunk - 1 : maps[Owner][c] = c + 1
    /\ owner.pc \in Late =>
          /\ shm.total = size * (NChunk + 1)
          /\ maps[Owner][NChunk] = NChunk + 1
          /\ \A c \in Chunk : maps[Owner][c] # 0
          /\ \A c, d \in Chunk : c # d => maps[Owner][c] # maps[Owner][d]
    /\ owner.pc = "swap" =>
          /\ \A c \in Chunk : maps[Owner][c] # Len(memory)
          /\ memory[Len(memory)].data = memory[maps[Owner][0]].data
    /\ owner.pc = "remap" => maps[Owner][0] = Len(memory)
    /\ owner.pc \in {"revoke", "revoked", "copy", "swap"} => owner.phase \in {1, 2}
    /\ owner.pc \in {"remap", "remapped"} => owner.phase \in {2, 3}
    /\ owner.pc \in {"start", "add", "pass2"} \cup Early => owner.phase = 1
    /\ owner.pc \notin Rounds => owner.i = 1

(* The region of s in pass p has its tag, in the owner's memory.           *)
Written(i) ==
    LET a == shm.allocs[i]
        c == a.off \div size
    IN  /\ c \in Chunk /\ maps[Owner][c] # 0
        /\ memory[maps[Owner][c]].data[a.off % size] = Tag(a)
Done(s, p) == \E i \in DOMAIN shm.allocs : Tag(shm.allocs[i]) = <<s, p>> /\ Written(i)

(* A subscriber has mapped what the owner has, for the chunks C.           *)
Sees(s, C) == \A c \in Chunk : maps[s][c] = IF c \in C THEN maps[Owner][c] ELSE 0

First == 0 .. NChunk - 1
At(s, p, C) == pc[s] \in {p} \cup Ended /\ (pc[s] = p => Sees(s, C))

(* Between two rounds: nothing under way, and the tags written.            *)
Rest(s, x) ==
    /\ chan[s] = <<>> /\ acks[s] = 0 /\ Done(s, 1)
    /\ x = "first" => At(s, "add", First)
    /\ x = "all" => At(s, "serve", Chunk) /\ Done(s, 2)
    /\ x = "revoked" => At(s, "serve", Chunk \ {0}) /\ Done(s, 2)

(* In a round: the message is on its way, or is acted on, or answered.     *)
Sent(s, m) == chan[s] = <<m>> /\ acks[s] = 0
Working(s) == chan[s] = <<>> /\ acks[s] = 0
Answered(s) == chan[s] = <<>> /\ acks[s] = 1

AskedHeader(s) ==
    \/ Sent(s, Header) /\ At(s, "header", {})
    \/ Working(s) /\ (At(s, "alloc1", First) \/ At(s, "tag1", First))
    \/ Answered(s) /\ At(s, "add", First) /\ Done(s, 1)
AskedAdd(s) ==
    /\ Done(s, 1)
    /\ \/ Sent(s, AddChunk) /\ At(s, "add", First)
       \/ Working(s) /\ (At(s, "alloc2", Chunk) \/ At(s, "tag2", Chunk))
       \/ Answered(s) /\ At(s, "serve", Chunk) /\ Done(s, 2)
AskedRevoke(s) ==
    /\ Done(s, 1) /\ Done(s, 2)
    /\ \/ Sent(s, Revoke) /\ At(s, "serve", Chunk)
       \/ Working(s) /\ pc[s] \in Ended
       \/ Answered(s) /\ At(s, "serve", Chunk \ {0})
AskedRemap(s) ==
    /\ Done(s, 1) /\ Done(s, 2)
    /\ \/ Sent(s, Remap(maps[Owner][0])) /\ At(s, "serve", Chunk \ {0})
       \/ Working(s) /\ pc[s] \in Ended
       \/ Answered(s) /\ At(s, "serve", Chunk)
AskedGo(s) ==
    /\ Done(s, 1) /\ Done(s, 2)
    /\ \/ Sent(s, Go) /\ At(s, "serve", Chunk)
       \/ Working(s) /\ (At(s, "verify", Chunk) \/ At(s, "verifying", Chunk))

(* The k-th connection, by how far the owner is.                           *)
Link(k) ==
    LET s == cs[k]
    IN  /\ owner.pc = "accept" => AskedHeader(s)
        /\ owner.pc = "pass1" => IF k < owner.i THEN Rest(s, "first") ELSE AskedHeader(s)
        /\ owner.pc = "grow" => Rest(s, "first")
        /\ owner.pc = "add" => IF k < owner.i THEN AskedAdd(s) ELSE Rest(s, "first")
        /\ owner.pc = "pass2" => IF k < owner.i THEN Rest(s, "all") ELSE AskedAdd(s)
        /\ owner.pc = "revoke" => IF k < owner.i THEN AskedRevoke(s) ELSE Rest(s, "all")
        /\ owner.pc = "revoked" => IF k < owner.i THEN Rest(s, "revoked") ELSE AskedRevoke(s)
        /\ owner.pc \in {"copy", "swap"} => Rest(s, "revoked")
        /\ owner.pc = "remap" => IF k < owner.i THEN AskedRemap(s) ELSE Rest(s, "revoked")
        /\ owner.pc = "remapped" => IF k < owner.i THEN Rest(s, "all") ELSE AskedRemap(s)
        /\ owner.pc = "go" => IF k < owner.i THEN AskedGo(s) ELSE Rest(s, "all")
        /\ owner.pc \in {"verify", "verifying"} => AskedGo(s)

(* Who is connected, each once, and who is not yet.                        *)
Stranger(s) ==
    /\ chan[s] = <<>> /\ acks[s] = 0 /\ Sees(s, {})
    /\ pc[s] \in {"start", "attached", "header"} \cup Ended
    /\ s \in waiting => pc[s] \in {"header"} \cup Ended
Connected ==
    /\ \A j, k \in DOMAIN cs : j # k => cs[j] # cs[k]
    /\ Cardinality(ToSet(cs)) = Len(cs) /\ waiting \cap ToSet(cs) = {}
    /\ owner.pc \in {"start", "bind"} => cs = <<>>
    /\ owner.pc = "accept" => Len(cs) < Cardinality(Sub)
    /\ owner.pc \notin {"start", "bind", "accept"} => Len(cs) = Cardinality(Sub)
    /\ \A s \in Sub \ ToSet(cs) : Stranger(s)

Alive == Mapping /\ Connected /\ \A k \in DOMAIN cs : Link(k)

IInv ==
    /\ Types /\ Offsets /\ (\A s \in Sub : Before(s)) /\ Ready
    /\ ~OwnerEnded => Alive

-----------------------------------------------------------------------------
(* Numbers and sequences.                                                  *)

(* Chunks and processes.                                                   *)
LEMMA Names ==
    /\ NChunk \in Nat \ {0} /\ 0 \in Chunk /\ NChunk \in Chunk /\ First = Chunk \ {NChunk}
    /\ First \subseteq Chunk /\ \A c \in Chunk : c \in Nat
    /\ Owner \notin Sub /\ Owner \in Process /\ Sub \subseteq Process
    /\ \A p \in Process : p = Owner \/ p \in Sub
  BY RemapAssumption DEF Chunk, First, Process

(* Quotient and remainder.                                                 *)
LEMMA Quotient ==
    ASSUME NEW a \in Nat, NEW d \in Nat \ {0}
    PROVE  /\ a \div d \in Nat /\ a % d \in 0 .. d - 1
           /\ a = d * (a \div d) + (a % d)
  OBVIOUS

(* Chunks of a size are numbered from the beginning.                       *)
LEMMA Multiples ==
    ASSUME NEW d \in Nat \ {0}, NEW n \in Nat \ {0}
    PROVE  /\ d * n \in Nat \ {0} /\ d * (n + 1) = d * n + d /\ d * (n + 1) \in Nat \ {0}
           /\ d * n < d * (n + 1) /\ d * n # 0
  OBVIOUS

(* An offset below the n-th multiple lies in one of the first n chunks,    *)
(* one between it and the next in the n-th.                                *)
LEMMA Located ==
    ASSUME NEW d \in Nat \ {0}, NEW n \in Nat, NEW a \in Nat
    PROVE  /\ a < d * n => a \div d \in 0 .. n - 1
           /\ d * n <= a /\ a < d * (n + 1) => a \div d = n
<1> DEFINE q == a \div d
<1>1. q \in Nat /\ a % d \in 0 .. d - 1 /\ a = d * q + (a % d)
  BY Quotient
<1>2. PICK r \in 0 .. d - 1 : a = d * q + r
  BY <1>1
<1> HIDE DEF q
<1>3. ASSUME a < d * n PROVE q < n
  <2> SUFFICES ASSUME n <= q PROVE FALSE
    BY <1>1
  <2>1. PICK k \in Nat : q = n + k
    <3>1. q - n \in Nat /\ q = n + (q - n)
      BY <1>1
    <3> QED
      BY <3>1
  <2>2. d * q = d * n + d * k /\ d * k \in Nat /\ d * n \in Nat
    BY <2>1
  <2> QED
    BY <2>2, <1>2, <1>3
<1>4. ASSUME d * n <= a, a < d * (n + 1) PROVE q = n
  <2>1. CASE q < n
    <3>1. PICK k \in Nat : n = q + 1 + k
      <4>1. n - q - 1 \in Nat /\ n = q + 1 + (n - q - 1)
        BY <1>1, <2>1
      <4> QED
        BY <4>1
    <3>2. d * n = d * q + d + d * k /\ d * k \in Nat /\ d * q \in Nat
      BY <1>1, <3>1
    <3> QED
      BY <3>2, <1>2, <1>4
  <2>2. CASE n < q
    <3>1. PICK k \in Nat : q = n + 1 + k
      <4>1. q - n - 1 \in Nat /\ q = n + 1 + (q - n - 1)
        BY <1>1, <2>2
      <4> QED
        BY <4>1
    <3>2. d * q = d * (n + 1) + d * k /\ d * k \in Nat /\ d * (n + 1) \in Nat
      BY <1>1, <3>1
    <3> QED
      BY <3>2, <1>2, <1>4
  <2> QED
    BY <1>1, <2>1, <2>2
<1> QED
  BY <1>1, <1>3, <1>4 DEF q

(* Two offsets in the same place of the same chunk are one.                *)
LEMMA SamePlace ==
    ASSUME NEW d \in Nat \ {0}, NEW a \in Nat, NEW b \in Nat,
           a \div d = b \div d, a % d = b % d
    PROVE  a = b
  BY Quotient

(* A sequence of one message.                                              *)
LEMMA One ==
    ASSUME NEW m
    PROVE  /\ <<m>> # <<>> /\ Head(<<m>>) = m /\ Tail(<<m>>) = <<>>
           /\ Append(<<>>, m) = <<m>>
           /\ \A n : <<m>> = <<n>> <=> m = n
  OBVIOUS

(* One element of a sequence.                                              *)
LEMMA Element == ASSUME NEW S, NEW q \in Seq(S), NEW i \in DOMAIN q PROVE q[i] \in S
  OBVIOUS

(* One element more.                                                       *)
LEMMA Appended ==
    ASSUME NEW S, NEW q \in Seq(S), NEW e \in S
    PROVE  /\ Append(q, e) \in Seq(S) /\ Len(Append(q, e)) = Len(q) + 1
           /\ DOMAIN Append(q, e) = DOMAIN q \cup {Len(q) + 1}
           /\ DOMAIN q = 1 .. Len(q) /\ Len(q) \in Nat
           /\ \A i \in DOMAIN q : Append(q, e)[i] = q[i] /\ q[i] \in S
           /\ Append(q, e)[Len(q) + 1] = e
           /\ ToSet(Append(q, e)) = ToSet(q) \cup {e}
<1>1. /\ Append(q, e) \in Seq(S) /\ Len(Append(q, e)) = Len(q) + 1
      /\ DOMAIN q = 1 .. Len(q) /\ Len(q) \in Nat
      /\ \A i \in DOMAIN q : Append(q, e)[i] = q[i] /\ q[i] \in S
      /\ Append(q, e)[Len(q) + 1] = e
  OBVIOUS
<1>2. DOMAIN Append(q, e) = DOMAIN q \cup {Len(q) + 1}
  BY <1>1
<1>3. ToSet(Append(q, e)) = ToSet(q) \cup {e}
  <2>1. \A x : x \in ToSet(Append(q, e)) <=> x \in ToSet(q) \cup {e}
    BY <1>1, <1>2 DEF ToSet
  <2> QED
    BY <2>1
<1> QED
  BY <1>1, <1>2, <1>3

(* The kinds of message are told apart by their type.                      *)
LEMMA Kinds ==
    /\ Header.type = "HEADER" /\ AddChunk.type = "ADD_CHUNK" /\ Revoke.type = "REVOKE"
    /\ Go.type = "GO" /\ \A x : Remap(x).type = "REMAP"
    /\ Header.fds = 1 .. NChunk /\ AddChunk.fds = {NChunk + 1} /\ Revoke.fds = {} /\ Go.fds = {}
    /\ AddChunk.idx = NChunk /\ Revoke.idx = 0
    /\ \A x : Remap(x).idx = 0 /\ Remap(x).fds = {x}
  BY DEF Header, AddChunk, Revoke, Go, Remap, Message

-----------------------------------------------------------------------------
(* What a step leaves alone.                                               *)

(* The memory and the table stay; the lock may change hands.               *)
Calm ==
    /\ memory' = memory /\ size' = size
    /\ shm'.bump = shm.bump /\ shm'.total = shm.total /\ shm'.allocs = shm.allocs
    /\ shm' \in [lock : Process \cup {Nil}, bump : Nat, total : Nat,
                 allocs : Seq([off : Nat, sub : Sub, pass : {1, 2}])]

(* One subscriber is in the state it was in.                               *)
Same(s) == chan'[s] = chan[s] /\ acks'[s] = acks[s] /\ pc'[s] = pc[s] /\ maps'[s] = maps[s]

(* Wherever it is in the protocol, it still is.                            *)
Keeps(s) ==
    /\ \A x \in {"first", "all", "revoked"} : Rest(s, x) => Rest(s, x)'
    /\ AskedHeader(s) => AskedHeader(s)'
    /\ AskedAdd(s) => AskedAdd(s)'
    /\ AskedRevoke(s) => AskedRevoke(s)'
    /\ AskedRemap(s) => AskedRemap(s)'
    /\ AskedGo(s) => AskedGo(s)'

(* Tags stay where they are when memory and table only grow.               *)
LEMMA TagsStay ==
    ASSUME Types, size' = size,
           \A c \in Chunk : maps[Owner][c] # 0 => maps'[Owner][c] = maps[Owner][c],
           \A m \in DOMAIN memory : m \in DOMAIN memory' /\ memory'[m] = memory[m],
           \A i \in DOMAIN shm.allocs : i \in DOMAIN shm'.allocs /\ shm'.allocs[i] = shm.allocs[i],
           NEW s \in Sub, NEW p \in {1, 2}
    PROVE  (Done(s, p) => Done(s, p)') /\ (Has(s, p) => Has(s, p)')
<1>1. ASSUME NEW i \in DOMAIN shm.allocs, Written(i) PROVE Written(i)'
  <2>1. PICK a : a = shm.allocs[i]
    OBVIOUS
  <2>2. PICK c : c = a.off \div size
    OBVIOUS
  <2>3. PICK m : m = maps[Owner][c]
    OBVIOUS
  <2>4. c \in Chunk /\ m # 0 /\ memory[m].data[a.off % size] = Tag(a)
    BY <1>1, <2>1, <2>2, <2>3 DEF Written
  <2>5. m \in DOMAIN memory
    BY <2>3, <2>4, Names DEF Types
  <2> QED
    BY <2>1, <2>2, <2>3, <2>4, <2>5 DEF Written, Tag
<1>2. Done(s, p) => Done(s, p)'
  BY <1>1 DEF Done, Tag
<1>3. Has(s, p) => Has(s, p)'
  BY DEF Has, Tag
<1> QED
  BY <1>2, <1>3

(* Who is left alone, and keeps its tags, is where it was.                 *)
LEMMA SameKeeps ==
    ASSUME NEW s, Same(s), maps'[Owner] = maps[Owner],
           Done(s, 1) => Done(s, 1)', Done(s, 2) => Done(s, 2)'
    PROVE  Keeps(s) /\ \A C : Sees(s, C) <=> Sees(s, C)'
<1>1. \A C : Sees(s, C) <=> Sees(s, C)'
  BY DEF Sees, Same
<1>2. \A p, C : At(s, p, C) => At(s, p, C)'
  BY <1>1 DEF At, Same
<1>3. \A m : Sent(s, m) => Sent(s, m)'
  BY DEF Sent, Same
<1>4. (Working(s) => Working(s)') /\ (Answered(s) => Answered(s)')
  BY DEF Working, Answered, Same
<1>5. \A x : Rest(s, x) => Rest(s, x)'
  BY <1>2 DEF Rest, Same
<1>6. AskedHeader(s) => AskedHeader(s)'
  BY <1>2, <1>3, <1>4 DEF AskedHeader
<1>7. AskedAdd(s) => AskedAdd(s)'
  BY <1>2, <1>3, <1>4 DEF AskedAdd
<1>8. AskedRevoke(s) => AskedRevoke(s)'
  BY <1>2, <1>3, <1>4 DEF AskedRevoke, Same
<1>9. AskedRemap(s) => AskedRemap(s)'
  BY <1>2, <1>3, <1>4 DEF AskedRemap, Same
<1>10. AskedGo(s) => AskedGo(s)'
  BY <1>2, <1>3, <1>4 DEF AskedGo
<1> QED
  BY <1>1, <1>5, <1>6, <1>7, <1>8, <1>9, <1>10 DEF Keeps

(* The connections of an owner that does not move.                         *)
LEMMA LinksKept ==
    ASSUME owner' = owner, cs' = cs, \A k \in DOMAIN cs : Link(k),
           \A k \in DOMAIN cs : Keeps(cs[k])
    PROVE  (\A k \in DOMAIN cs : Link(k))'
<1> SUFFICES ASSUME NEW k \in DOMAIN cs PROVE Link(k)'
  OBVIOUS
<1>1. PICK s : s = cs[k]
  OBVIOUS
<1>2. Keeps(s) /\ Link(k)
  BY <1>1
<1> QED
  BY <1>1, <1>2 DEF Link, Keeps

(* Ready when nobody else is told, and nothing has moved.                  *)
LEMMA ReadyKept ==
    ASSUME IInv, Calm,
           \A s \in Sub : Told(s)' => Told(s) /\ maps'[s] = maps[s],
           Quiet => Quiet'
    PROVE  Ready'
<1> SUFFICES ASSUME NEW s \in Sub, Told(s)' PROVE Intact(s)' /\ Quiet' /\ Everyone'
  BY DEF Ready
<1>1. Told(s) /\ maps'[s] = maps[s]
  OBVIOUS
<1>2. Intact(s) /\ Quiet /\ Everyone
  BY <1>1 DEF IInv, Ready
<1>3. Intact(s)'
  BY <1>1, <1>2 DEF Intact, Calm, Tag
<1>4. Everyone'
  <2>1. \A i \in DOMAIN shm.allocs : i \in DOMAIN shm'.allocs /\ Tag(shm.allocs[i])' = Tag(shm.allocs[i])
    BY DEF Calm, Tag
  <2>2. ASSUME NEW t \in Sub, NEW p \in {1, 2}, Has(t, p) PROVE Has(t, p)'
    BY <2>1, <2>2 DEF Has
  <2> QED
    BY <1>2, <2>2 DEF Everyone
<1> QED
  BY <1>2, <1>3, <1>4

(* Ready when nobody has been told.                                        *)
LEMMA NobodyTold ==
    ASSUME IInv, ~Quiet, \A s \in Sub : Told(s)' => Told(s)
    PROVE  Ready'
  BY DEF IInv, Ready

-----------------------------------------------------------------------------
(* The subscribers.                                                        *)

(* What has been said of a subscriber still holds if it stays as it is.    *)
LEMMA SamePlaceKept ==
    ASSUME NEW t, Same(t), Calm
    PROVE  /\ Post(t) => Post(t)'
           /\ Before(t) => Before(t)'
           /\ Told(t)' <=> Told(t)
           /\ \A p : Has(t, p)' <=> Has(t, p)
<1>1. \A i \in DOMAIN shm.allocs : i \in DOMAIN shm'.allocs /\ Tag(shm.allocs[i])' = Tag(shm.allocs[i])
  BY DEF Calm, Tag
<1>2. \A p : Has(t, p)' <=> Has(t, p)
  BY <1>1 DEF Has, Calm
<1>3. Post(t) => Post(t)'
  BY DEF Post, Same, Calm
<1>4. Told(t)' <=> Told(t)
  BY DEF Told, Given, Same
<1>5. \A m : Given(t, m)' <=> Given(t, m)
  BY DEF Given, Same
<1>6. Before(t) => Before(t)'
  BY <1>2, <1>5 DEF Before, Same, Calm
<1> QED
  BY <1>2, <1>3, <1>4, <1>6

(* The offsets speak of the table alone.                                   *)
LEMMA CalmOffsets == Offsets /\ Calm => Offsets'
  BY DEF Offsets, Calm, Tag

(* No tag moves.                                                           *)
LEMMA CalmTags ==
    ASSUME Types, Calm, maps'[Owner] = maps[Owner], NEW s \in Sub
    PROVE  (Done(s, 1) => Done(s, 1)') /\ (Done(s, 2) => Done(s, 2)')
<1>1. \A m \in DOMAIN memory : m \in DOMAIN memory' /\ memory'[m] = memory[m]
  BY DEF Calm
<1>2. \A i \in DOMAIN shm.allocs : i \in DOMAIN shm'.allocs /\ shm'.allocs[i] = shm.allocs[i]
  BY DEF Calm
<1>3. size' = size /\ \A c \in Chunk : maps[Owner][c] # 0 => maps'[Owner][c] = maps[Owner][c]
  BY DEF Calm
<1> QED
  BY <1>1, <1>2, <1>3, TagsStay

(* A step of one subscriber that writes nothing.                           *)
LEMMA SubCalm ==
    ASSUME IInv, NEW s \in Sub, Calm, owner' = owner, cs' = cs,
           DOMAIN chan' = Sub, acks' \in [Sub -> Nat], pc' \in [Sub -> SubPc],
           maps' \in [Process -> [Chunk -> 0 .. Len(memory)]],
           fds' \in [Process -> SUBSET DOMAIN memory], waiting' \subseteq Sub, deaths' \in Nat,
           \A t \in Sub \ {s} : Same(t) /\ (t \in waiting' <=> t \in waiting),
           maps'[Owner] = maps[Owner],
           Post(s)', Before(s)', Told(s)' => Told(s) /\ maps'[s] = maps[s],
           Quiet => pc'[s] \in {"serve", "verify", "verifying"} \cup Ended,
           ~OwnerEnded => IF s \in ToSet(cs) THEN Keeps(s) /\ s \notin waiting'
                                             ELSE Stranger(s)'
    PROVE  IInv'
<1> USE DEF IInv
<1>1. Types'
  <2>1. \A t \in Sub : Post(t)'
    BY SamePlaceKept DEF Types
  <2>2. /\ memory' \in Seq([loc : {"Device", "Host"}, data : Contents'])
        /\ maps' \in [Process -> [Chunk -> 0 .. Len(memory')]]
        /\ fds' \in [Process -> SUBSET DOMAIN memory']
    BY DEF Types, Calm, Contents
  <2>3. /\ owner' \in [pc : OwnerPc, i : 1 .. Cardinality(Sub), phase : 1 .. 3]
        /\ cs' \in Seq(Sub) /\ size' \in ChunkSizes
    BY DEF Types, Calm
  <2> QED
    BY <2>1, <2>2, <2>3 DEF Types, Calm
<1>2. Offsets'
  BY CalmOffsets
<1>3. (\A t \in Sub : Before(t))'
  BY SamePlaceKept
<1>4. Ready'
  <2>1. Quiet => Quiet'
    BY DEF Quiet, Same
  <2>2. ASSUME NEW t \in Sub, Told(t)' PROVE Told(t) /\ maps'[t] = maps[t]
    BY <2>2, SamePlaceKept DEF Same
  <2> QED
    BY <2>1, <2>2, ReadyKept
<1>5. ASSUME ~OwnerEnded PROVE Alive'
  <2>1. Alive
    BY <1>5
  <2>2. \A t \in Sub : (Done(t, 1) => Done(t, 1)') /\ (Done(t, 2) => Done(t, 2)')
    BY CalmTags
  <2>3. \A t \in Sub \ {s} : Keeps(t) /\ (Sees(t, {}) <=> Sees(t, {})')
    BY <2>2, SameKeeps
  <2>4. Mapping'
    BY <2>1 DEF Alive, Mapping, Calm
  <2>5. \A k \in DOMAIN cs : cs[k] \in Sub /\ cs[k] \in ToSet(cs)
    BY DEF Types, ToSet
  <2>6. (\A k \in DOMAIN cs : Link(k))'
    <3>1. \A k \in DOMAIN cs : Keeps(cs[k])
      BY <1>5, <2>3, <2>5
    <3> QED
      BY <3>1, <2>1, LinksKept DEF Alive
  <2>7. Connected'
    <3>1. \A t \in Sub \ ToSet(cs) : Stranger(t)'
      BY <1>5, <2>1, <2>3 DEF Alive, Connected, Stranger, Same
    <3>2. waiting' \cap ToSet(cs) = {}
      BY <1>5, <2>1 DEF Alive, Connected
    <3> QED
      BY <2>1, <3>1, <3>2 DEF Alive, Connected
  <2> QED
    BY <2>4, <2>6, <2>7 DEF Alive
<1>6. ~OwnerEnded' => Alive'
  BY <1>5 DEF OwnerEnded
<1> QED
  BY <1>1, <1>2, <1>3, <1>4, <1>6

(* The end of a subscriber.                                                *)
LEMMA SubEnds ==
    ASSUME IInv, NEW s \in Sub, NEW p \in Ended, Calm, deaths' \in Nat,
           pc' = [pc EXCEPT ![s] = p], Exits(s), UNCHANGED <<links, owner>>
    PROVE  IInv'
<1>1. chan' = chan /\ acks' = acks /\ cs' = cs /\ waiting' = waiting /\ owner' = owner
  BY DEF links
<1>2. /\ pc' \in [Sub -> SubPc] /\ pc'[s] = p
      /\ maps' \in [Process -> [Chunk -> 0 .. Len(memory)]]
      /\ maps'[s] = [c \in Chunk |-> 0] /\ maps'[Owner] = maps[Owner]
      /\ fds' \in [Process -> SUBSET DOMAIN memory]
  BY Names DEF IInv, Types, Exits, SubPc
<1>3. \A t \in Sub \ {s} : Same(t) /\ (t \in waiting' <=> t \in waiting)
  BY <1>1, Names DEF Same, Exits, IInv, Types
<1>4. DOMAIN chan' = Sub /\ acks' \in [Sub -> Nat] /\ waiting' \subseteq Sub
  BY <1>1 DEF IInv, Types
<1>5. Post(s)'
  BY <1>1 DEF IInv, Types, Post, Calm
<1>6. p \notin {"start", "attached", "header", "alloc1", "tag1", "add", "alloc2", "tag2",
                "serve", "verify", "verifying"}
  BY DEF Ended
<1>7. Before(s)' /\ ~Told(s)'
  BY <1>2, <1>6 DEF Before, Told
<1>8. Keeps(s)
  <2>1. \A q, C : At(s, q, C) /\ q \notin Ended => At(s, q, C)'
    BY <1>2 DEF At
  <2>2. \A q \in {"add", "header", "alloc1", "tag1", "alloc2", "tag2", "serve", "verify", "verifying"} : q \notin Ended
    BY DEF Ended
  <2>3. (Done(s, 1) => Done(s, 1)') /\ (Done(s, 2) => Done(s, 2)')
    BY <1>2, CalmTags DEF IInv
  <2>4. maps'[Owner] = maps[Owner]
    BY <1>2
  <2>5. \A x \in {"first", "all", "revoked"} : Rest(s, x) => Rest(s, x)'
    BY <1>1, <2>1, <2>2, <2>3 DEF Rest
  <2>6. /\ AskedHeader(s) => AskedHeader(s)'
        /\ AskedAdd(s) => AskedAdd(s)'
    BY <1>1, <2>1, <2>2, <2>3 DEF AskedHeader, AskedAdd, Sent, Working, Answered
  <2>7. /\ AskedRevoke(s) => AskedRevoke(s)'
        /\ AskedRemap(s) => AskedRemap(s)'
        /\ AskedGo(s) => AskedGo(s)'
    BY <1>1, <1>2, <2>1, <2>2, <2>3 DEF AskedRevoke, AskedRemap, AskedGo, Sent, Working, Answered
  <2> QED
    BY <2>5, <2>6, <2>7 DEF Keeps
<1>9. ASSUME ~OwnerEnded, s \notin ToSet(cs) PROVE Stranger(s)'
  BY <1>1, <1>2, <1>9 DEF IInv, Alive, Connected, Stranger, Sees
<1>10. ASSUME ~OwnerEnded, s \in ToSet(cs) PROVE s \notin waiting'
  BY <1>1, <1>10 DEF IInv, Alive, Connected
<1> QED
  BY <1>1, <1>2, <1>3, <1>4, <1>5, <1>7, <1>8, <1>9, <1>10, SubCalm

(* Where a connected subscriber is, and the owner with it.                 *)
LEMMA Where ==
    ASSUME IInv, ~OwnerEnded, NEW s \in ToSet(cs)
    PROVE  \/ AskedHeader(s) /\ owner.pc \in Early
           \/ Rest(s, "first")
           \/ AskedAdd(s) /\ owner.pc \in Late
           \/ Rest(s, "all") \/ Rest(s, "revoked")
           \/ AskedRevoke(s) \/ AskedRemap(s) \/ AskedGo(s)
<1>1. PICK k \in DOMAIN cs : cs[k] = s
  BY DEF ToSet
<1>2. Link(k) /\ Connected
  BY DEF IInv, Alive
<1>3. owner.pc \in OwnerPc \ ({"start", "bind"} \cup Ended)
  BY <1>1, <1>2 DEF IInv, Types, Connected, OwnerEnded
<1> QED
  BY <1>1, <1>2, <1>3 DEF Link, OwnerPc, Early, Late

(* Who has not gone far is not connected, and who has is.                  *)
LEMMA HowFar ==
    ASSUME IInv, ~OwnerEnded, NEW s \in Sub
    PROVE  /\ pc[s] \in {"start", "attached"} => s \notin ToSet(cs)
           /\ pc[s] \in SubPc \ ({"start", "attached", "header"} \cup Ended) => s \in ToSet(cs)
<1>1. pc[s] \in {"start", "attached"} => s \notin ToSet(cs)
  <2> SUFFICES ASSUME pc[s] \in {"start", "attached"}, s \in ToSet(cs) PROVE FALSE
    OBVIOUS
  <2> QED
    BY Where DEF AskedHeader, AskedAdd, AskedRevoke, AskedRemap, AskedGo, Rest, At, Ended
<1>2. pc[s] \in SubPc \ ({"start", "attached", "header"} \cup Ended) => s \in ToSet(cs)
  BY DEF IInv, Alive, Connected, Stranger
<1> QED
  BY <1>1, <1>2

(* The end of a subscriber, when its own step brings it.                   *)
LEMMA SubDiesKeeps ==
    ASSUME IInv, NEW s \in Sub, SubDies(s)
    PROVE  IInv'
<1>1. Calm
  BY DEF SubDies, Calm, IInv, Types
<1>2. pc' = [pc EXCEPT ![s] = "dead"] /\ Exits(s) /\ UNCHANGED <<links, owner, deaths>>
  BY DEF SubDies
<1>3. "dead" \in Ended /\ deaths' \in Nat
  BY <1>2 DEF Ended, IInv, Types
<1> QED
  BY <1>1, <1>2, <1>3, SubEnds

(* A step of one subscriber that changes its place alone.                  *)
LEMMA SubMoves ==
    ASSUME IInv, NEW s \in Sub, NEW p \in SubPc, pc' = [pc EXCEPT ![s] = p],
           Calm, UNCHANGED <<chan, acks, cs, owner, maps, fds, deaths>>,
           waiting' \in SUBSET Sub, \A t \in Sub \ {s} : t \in waiting' <=> t \in waiting,
           Before(s)', Told(s)' => Told(s), Quiet => p \in {"serve", "verify", "verifying"} \cup Ended,
           ~OwnerEnded => IF s \in ToSet(cs) THEN Keeps(s) /\ waiting' = waiting
                                             ELSE Stranger(s)'
    PROVE  IInv'
<1>1. chan' = chan /\ acks' = acks /\ cs' = cs /\ owner' = owner /\ maps' = maps
  OBVIOUS
<1>2. /\ DOMAIN chan' = Sub /\ acks' \in [Sub -> Nat] /\ pc' \in [Sub -> SubPc] /\ pc'[s] = p
      /\ maps' \in [Process -> [Chunk -> 0 .. Len(memory)]]
      /\ fds' \in [Process -> SUBSET DOMAIN memory] /\ deaths' \in Nat
  BY DEF IInv, Types
<1>3. \A t \in Sub \ {s} : Same(t) /\ (t \in waiting' <=> t \in waiting)
  BY DEF Same, IInv, Types
<1>4. Post(s)'
  BY DEF IInv, Types, Post, Calm
<1>5. ASSUME ~OwnerEnded, s \in ToSet(cs) PROVE s \notin waiting'
  BY <1>5 DEF IInv, Alive, Connected
<1>6. waiting' \subseteq Sub /\ maps'[Owner] = maps[Owner] /\ maps'[s] = maps[s]
  BY <1>1
<1>7. Quiet => pc'[s] \in {"serve", "verify", "verifying"} \cup Ended
  BY <1>2
<1>8. ~OwnerEnded => IF s \in ToSet(cs) THEN Keeps(s) /\ s \notin waiting' ELSE Stranger(s)'
  BY <1>5
<1> QED
  BY <1>1, <1>2, <1>3, <1>4, <1>6, <1>7, <1>8, SubCalm

(* Before it connects.                                                     *)
LEMMA AttachKeeps == ASSUME IInv, NEW s \in Sub, Attach(s) PROVE IInv'
<1>1. /\ Calm /\ UNCHANGED <<chan, acks, cs, owner, maps, fds, deaths>> /\ waiting' = waiting
      /\ pc[s] = "start" /\ pc' = [pc EXCEPT ![s] = "attached"] /\ pc'[s] = "attached"
  BY DEF Attach, Goto, Calm, IInv, Types, links
<1>2. Before(s)' /\ ~Told(s)'
  BY <1>1 DEF IInv, Before, Told, Calm, Has, Ended, Given, Tag
<1>3. ~Quiet
  BY <1>1 DEF Quiet, Ended
<1>4. ASSUME ~OwnerEnded PROVE s \notin ToSet(cs) /\ Stranger(s)'
  <2>1. s \notin ToSet(cs)
    BY <1>1, <1>4, HowFar
  <2>2. Stranger(s)
    BY <1>4, <2>1 DEF IInv, Alive, Connected
  <2> QED
    BY <1>1, <2>1, <2>2 DEF Stranger, Sees, Ended
<1>5. "attached" \in SubPc /\ waiting' \in SUBSET Sub /\ \A t \in Sub \ {s} : t \in waiting' <=> t \in waiting
  BY <1>1 DEF SubPc, IInv, Types
<1> QED
  BY <1>1, <1>2, <1>3, <1>4, <1>5, SubMoves

(* It joins the listen queue.                                              *)
LEMMA DialKeeps == ASSUME IInv, NEW s \in Sub, Dial(s) PROVE IInv'
<1>1. /\ Calm /\ UNCHANGED <<chan, acks, cs, owner, maps, fds, deaths>> /\ waiting' = waiting \cup {s}
      /\ pc[s] = "attached" /\ pc' = [pc EXCEPT ![s] = "header"] /\ pc'[s] = "header"
      /\ owner.pc = "accept"
  BY DEF Dial, Goto, Calm, IInv, Types
<1>2. s \notin ToSet(cs) /\ Stranger(s)
  BY <1>1, HowFar DEF OwnerEnded, Ended, IInv, Alive, Connected
<1>3. chan[s] = <<>>
  BY <1>2 DEF Stranger
<1>4. Before(s)' /\ ~Told(s)'
  BY <1>1, <1>3, One DEF IInv, Before, Told, Calm, Has, Ended, Given, Tag
<1>5. ~Quiet
  BY <1>1 DEF Quiet, Ended
<1>6. Stranger(s)'
  BY <1>1, <1>2 DEF Stranger, Sees, Ended
<1>7. "header" \in SubPc /\ waiting' \in SUBSET Sub /\ \A t \in Sub \ {s} : t \in waiting' <=> t \in waiting
  BY <1>1 DEF SubPc, IInv, Types
<1> QED
  BY <1>1, <1>2, <1>4, <1>5, <1>6, <1>7, SubMoves

(* The lock, and the verdict.                                              *)
LEMMA SubLocksKeeps == ASSUME IInv, NEW s \in Sub, SubLocks(s) PROVE IInv'
<1>1. /\ Calm /\ UNCHANGED <<chan, acks, cs, owner, maps, fds, deaths>> /\ waiting' = waiting
      /\ pc[s] = "verify" /\ pc' = [pc EXCEPT ![s] = "verifying"] /\ pc'[s] = "verifying"
  BY Names DEF SubLocks, Goto, Calm, IInv, Types, links
<1>2. Before(s)' /\ Told(s)
  BY <1>1 DEF IInv, Before, Told, Calm, Has, Ended, Given, Tag
<1>3. ASSUME ~OwnerEnded PROVE s \in ToSet(cs) /\ Keeps(s)
  <2>1. s \in ToSet(cs)
    BY <1>1, <1>3, HowFar DEF SubPc, Ended
  <2>2. (Done(s, 1) => Done(s, 1)') /\ (Done(s, 2) => Done(s, 2)')
    BY <1>1, CalmTags DEF IInv
  <2>3. AskedGo(s) => AskedGo(s)'
    BY <1>1, <2>2 DEF AskedGo, At, Sees, Sent, Working, Ended
  <2> QED
    BY <1>1, <2>1, <2>3 DEF Keeps, AskedHeader, AskedAdd, AskedRevoke, AskedRemap, Rest, At, Ended
<1>4. "verifying" \in SubPc /\ waiting' \in SUBSET Sub /\ \A t \in Sub \ {s} : t \in waiting' <=> t \in waiting
  BY <1>1 DEF SubPc, IInv, Types
<1> QED
  BY <1>1, <1>2, <1>3, <1>4, SubMoves

(* The check of a subscriber, passed or failed, ends it.                   *)
LEMMA SubVerifiesKeeps == ASSUME IInv, NEW s \in Sub, SubVerifies(s) PROVE IInv'
<1>1. Calm /\ UNCHANGED <<links, owner>> /\ Exits(s) /\ deaths' \in Nat
  BY DEF SubVerifies, Calm, IInv, Types
<1>2. PICK p \in Ended : pc' = [pc EXCEPT ![s] = p]
  BY DEF SubVerifies, Goto, Ended
<1> QED
  BY <1>1, <1>2, SubEnds

(* What is first in the queue is all there is.                             *)
LEMMA FirstIsAll ==
    ASSUME IInv, NEW s \in Sub, chan[s] # <<>>
    PROVE  /\ chan[s] = <<Head(chan[s])>> /\ Tail(chan[s]) = <<>>
           /\ Head(chan[s]).type = "HEADER" => chan[s] = <<Header>> /\ NChunk <= Len(memory)
           /\ Head(chan[s]).type = "ADD_CHUNK" => chan[s] = <<AddChunk>> /\ NChunk + 1 <= Len(memory)
           /\ Head(chan[s]).type = "REVOKE" => chan[s] = <<Revoke>>
           /\ Head(chan[s]).type = "GO" => chan[s] = <<Go>>
           /\ Head(chan[s]).type = "REMAP" => \E x \in DOMAIN memory : chan[s] = <<Remap(x)>>
<1> DEFINE Result(q) ==
           /\ q = <<Head(q)>> /\ Tail(q) = <<>>
           /\ Head(q).type = "HEADER" => q = <<Header>> /\ NChunk <= Len(memory)
           /\ Head(q).type = "ADD_CHUNK" => q = <<AddChunk>> /\ NChunk + 1 <= Len(memory)
           /\ Head(q).type = "REVOKE" => q = <<Revoke>>
           /\ Head(q).type = "GO" => q = <<Go>>
           /\ Head(q).type = "REMAP" => \E x \in DOMAIN memory : q = <<Remap(x)>>
<1>1. Post(s)
  BY DEF IInv, Types
<1>2. CASE chan[s] = <<Header>> /\ NChunk <= Len(memory)
  <2>1. Head(<<Header>>) = Header /\ Tail(<<Header>>) = <<>> /\ Header.type = "HEADER"
    BY One, Kinds
  <2>2. Result(<<Header>>)
    BY <1>2, <2>1
  <2> QED
    BY <1>2, <2>2
<1>3. CASE chan[s] = <<AddChunk>> /\ NChunk + 1 <= Len(memory)
  <2>1. Head(<<AddChunk>>) = AddChunk /\ Tail(<<AddChunk>>) = <<>> /\ AddChunk.type = "ADD_CHUNK"
    BY One, Kinds
  <2>2. Result(<<AddChunk>>)
    BY <1>3, <2>1
  <2> QED
    BY <1>3, <2>2
<1>4. CASE chan[s] = <<Revoke>>
  <2>1. Head(<<Revoke>>) = Revoke /\ Tail(<<Revoke>>) = <<>> /\ Revoke.type = "REVOKE"
    BY One, Kinds
  <2>2. Result(<<Revoke>>)
    BY <2>1
  <2> QED
    BY <1>4, <2>2
<1>5. CASE chan[s] = <<Go>>
  <2>1. Head(<<Go>>) = Go /\ Tail(<<Go>>) = <<>> /\ Go.type = "GO"
    BY One, Kinds
  <2>2. Result(<<Go>>)
    BY <2>1
  <2> QED
    BY <1>5, <2>2
<1>6. CASE \E x \in DOMAIN memory : chan[s] = <<Remap(x)>>
  <2>1. PICK x \in DOMAIN memory : chan[s] = <<Remap(x)>>
    BY <1>6
  <2>2. Head(<<Remap(x)>>) = Remap(x) /\ Tail(<<Remap(x)>>) = <<>> /\ Remap(x).type = "REMAP"
    BY One, Kinds
  <2>3. Result(<<Remap(x)>>)
    BY <2>2
  <2> QED
    BY <2>1, <2>3
<1> QED
  BY <1>1, <1>2, <1>3, <1>4, <1>5, <1>6 DEF Post

(* Who has a message is connected, and the message tells the round.        *)
LEMMA Round ==
    ASSUME IInv, ~OwnerEnded, NEW s \in Sub, chan[s] # <<>>
    PROVE  /\ s \in ToSet(cs)
           /\ pc[s] = "header" => AskedHeader(s) /\ owner.pc \in Early
           /\ pc[s] = "add" => AskedAdd(s) /\ owner.pc \in Late
           /\ ~ Rest(s, "first") /\ ~ Rest(s, "all") /\ ~ Rest(s, "revoked")
<1>1. s \in ToSet(cs)
  BY DEF IInv, Alive, Connected, Stranger
<1>2. ~ Rest(s, "first") /\ ~ Rest(s, "all") /\ ~ Rest(s, "revoked")
  BY DEF Rest
<1>3. pc[s] = "header" => ~AskedAdd(s) /\ ~AskedRevoke(s) /\ ~AskedRemap(s) /\ ~AskedGo(s)
  BY DEF AskedAdd, AskedRevoke, AskedRemap, AskedGo, At, Ended
<1>4. pc[s] = "add" => ~AskedRevoke(s) /\ ~AskedRemap(s) /\ ~AskedGo(s) /\ ~AskedHeader(s)
  BY DEF AskedHeader, AskedRevoke, AskedRemap, AskedGo, At, Ended, Answered
<1> QED
  BY <1>1, <1>2, <1>3, <1>4, Where

(* A message is received: what is left is about the receiver.              *)
LEMMA SubReceives ==
    ASSUME IInv, NEW s \in Sub, chan[s] # <<>>, NEW p \in SubPc, NEW a \in Nat,
           NEW seen \in [Chunk -> 0 .. Len(memory)], NEW open \in SUBSET DOMAIN memory,
           chan' = [chan EXCEPT ![s] = Tail(@)], pc' = [pc EXCEPT ![s] = p],
           acks' = [acks EXCEPT ![s] = a], maps' = [maps EXCEPT ![s] = seen],
           fds' = [fds EXCEPT ![s] = open],
           UNCHANGED <<memory, shm, owner, cs, waiting, size, deaths>>,
           Before(s)', Told(s)' => Told(s) /\ maps'[s] = maps[s],
           Quiet => p \in {"serve", "verify", "verifying"} \cup Ended,
           ~OwnerEnded => Keeps(s)
    PROVE  IInv'
<1>1. Calm
  BY DEF Calm, IInv, Types
<1>2. chan'[s] = <<>> /\ DOMAIN chan' = Sub
  BY FirstIsAll DEF IInv, Types
<1>3. /\ acks' \in [Sub -> Nat] /\ pc' \in [Sub -> SubPc] /\ pc'[s] = p
      /\ maps' \in [Process -> [Chunk -> 0 .. Len(memory)]] /\ maps'[Owner] = maps[Owner]
      /\ fds' \in [Process -> SUBSET DOMAIN memory]
      /\ waiting' \subseteq Sub /\ deaths' \in Nat
  BY Names DEF IInv, Types
<1>4. \A t \in Sub \ {s} : Same(t) /\ (t \in waiting' <=> t \in waiting)
  BY Names DEF Same, IInv, Types
<1>5. Post(s)'
  BY <1>2 DEF Post
<1>6. ~OwnerEnded => s \in ToSet(cs) /\ s \notin waiting'
  BY Round DEF IInv, Alive, Connected
<1> QED
  BY <1>1, <1>2, <1>3, <1>4, <1>5, <1>6, SubCalm

(* The only element of a set.                                              *)
LEMMA Only == ASSUME NEW x PROVE (CHOOSE y \in {x} : TRUE) = x
  OBVIOUS

(* The header.                                                             *)
LEMMA HeaderKeeps ==
    ASSUME IInv, NEW s \in Sub, Receive(s), pc[s] = "header"
    PROVE  IInv'
<1>1. /\ chan[s] # <<>> /\ Head(chan[s]).type = "HEADER"
      /\ Mapped(s, Head(chan[s])) /\ Goto(s, "alloc1") /\ UNCHANGED acks
      /\ chan' = [chan EXCEPT ![s] = Tail(@)]
      /\ UNCHANGED <<memory, shm, owner, cs, waiting, size, deaths>>
  BY DEF Receive
<1>2. chan[s] = <<Header>> /\ NChunk <= Len(memory) /\ Head(chan[s]) = Header
  BY <1>1, FirstIsAll, One
<1> DEFINE seen == [c \in Chunk |-> IF c < NChunk THEN c + 1 ELSE 0]
           open == fds[s] \cup 1 .. NChunk
<1>3. /\ maps' = [maps EXCEPT ![s] = seen] /\ fds' = [fds EXCEPT ![s] = open]
      /\ pc' = [pc EXCEPT ![s] = "alloc1"] /\ acks' = [acks EXCEPT ![s] = acks[s]]
      /\ pc'[s] = "alloc1" /\ maps'[s] = seen /\ acks'[s] = acks[s] /\ chan'[s] = <<>>
      /\ maps'[Owner] = maps[Owner]
  BY <1>1, <1>2, Kinds, FirstIsAll, Names DEF Mapped, Goto, IInv, Types
<1>4. Len(memory) \in Nat /\ DOMAIN memory = 1 .. Len(memory)
  BY DEF IInv, Types
<1>5. seen \in [Chunk -> 0 .. Len(memory)]
  BY <1>2, <1>4, Names
<1>6. open \in SUBSET DOMAIN memory
  BY <1>2, <1>4, Names DEF IInv, Types
<1>7. Before(s)' /\ ~Told(s)'
  BY <1>1, <1>2, <1>3 DEF IInv, Before, Told, Given, Has, Ended, Tag
<1>8. ASSUME ~OwnerEnded PROVE Keeps(s)
  <2>1. AskedHeader(s) /\ owner.pc \in Early
    BY <1>1, <1>8, Round
  <2>2. \A c \in First : maps[Owner][c] = c + 1
    BY <1>8, <2>1 DEF IInv, Alive, Mapping, First
  <2>3. Sees(s, First)'
    BY <1>3, <2>2, Names DEF Sees, First
  <2>4. acks[s] = 0
    BY <1>1, <2>1 DEF AskedHeader, Sent, Working, Answered
  <2>5. AskedHeader(s)'
    BY <1>3, <2>3, <2>4 DEF AskedHeader, Working, At
  <2>6. ~AskedAdd(s) /\ ~AskedRevoke(s) /\ ~AskedRemap(s) /\ ~AskedGo(s)
    BY DEF AskedAdd, AskedRevoke, AskedRemap, AskedGo, At, Ended
  <2>7. \A x \in {"first", "all", "revoked"} : ~Rest(s, x)
    BY <1>1 DEF Rest
  <2> QED
    BY <2>5, <2>6, <2>7 DEF Keeps
<1>9. ~Quiet
  BY DEF Quiet, Ended
<1>10. "alloc1" \in SubPc /\ acks[s] \in Nat
  BY DEF SubPc, IInv, Types
<1> HIDE DEF seen, open
<1> QED
  BY <1>1, <1>3, <1>5, <1>6, <1>7, <1>8, <1>9, <1>10, SubReceives

(* The growth.                                                             *)
LEMMA AddKeeps ==
    ASSUME IInv, NEW s \in Sub, Receive(s), pc[s] = "add"
    PROVE  IInv'
<1>1. /\ chan[s] # <<>> /\ Head(chan[s]).type = "ADD_CHUNK"
      /\ Mapped(s, Head(chan[s])) /\ Goto(s, "alloc2") /\ UNCHANGED acks
      /\ chan' = [chan EXCEPT ![s] = Tail(@)]
      /\ UNCHANGED <<memory, shm, owner, cs, waiting, size, deaths>>
  BY DEF Receive
<1>2. chan[s] = <<AddChunk>> /\ NChunk + 1 <= Len(memory) /\ Head(chan[s]) = AddChunk
  BY <1>1, FirstIsAll, One
<1> DEFINE seen == [c \in Chunk |-> IF c = NChunk THEN NChunk + 1 ELSE maps[s][c]]
           open == fds[s] \cup {NChunk + 1}
<1>3. /\ maps' = [maps EXCEPT ![s] = seen] /\ fds' = [fds EXCEPT ![s] = open]
      /\ pc' = [pc EXCEPT ![s] = "alloc2"] /\ acks' = [acks EXCEPT ![s] = acks[s]]
      /\ pc'[s] = "alloc2" /\ maps'[s] = seen /\ acks'[s] = acks[s] /\ chan'[s] = <<>>
      /\ maps'[Owner] = maps[Owner]
  <2>1. /\ maps' = [maps EXCEPT ![s] = [c \in Chunk |->
              IF AddChunk.type = "HEADER" THEN IF c < NChunk THEN c + 1 ELSE 0
              ELSE IF c = AddChunk.idx THEN CHOOSE x \in AddChunk.fds : TRUE ELSE maps[s][c]]]
        /\ fds' = [fds EXCEPT ![s] = fds[s] \cup AddChunk.fds]
    BY <1>1, <1>2 DEF Mapped
  <2>2. /\ AddChunk.type # "HEADER" /\ AddChunk.idx = NChunk /\ AddChunk.fds = {NChunk + 1}
        /\ (CHOOSE x \in AddChunk.fds : TRUE) = NChunk + 1
    BY Kinds, Only
  <2>3. maps' = [maps EXCEPT ![s] = seen] /\ fds' = [fds EXCEPT ![s] = open]
    BY <2>1, <2>2
  <2> HIDE DEF seen, open
  <2> QED
    BY <1>1, <2>3, FirstIsAll, Names DEF Goto, IInv, Types
<1>4. Len(memory) \in Nat /\ DOMAIN memory = 1 .. Len(memory)
  BY DEF IInv, Types
<1>5. seen \in [Chunk -> 0 .. Len(memory)]
  BY <1>2, <1>4, Names DEF IInv, Types
<1>6. open \in SUBSET DOMAIN memory
  BY <1>2, <1>4, Names DEF IInv, Types
<1>7. Before(s)' /\ ~Told(s)'
  BY <1>1, <1>2, <1>3 DEF IInv, Before, Told, Given, Has, Ended, Tag
<1>8. ASSUME ~OwnerEnded PROVE Keeps(s)
  <2>1. AskedAdd(s) /\ owner.pc \in Late
    BY <1>1, <1>8, Round
  <2>2. maps[Owner][NChunk] = NChunk + 1
    BY <1>8, <2>1 DEF IInv, Alive, Mapping
  <2>3. acks[s] = 0 /\ Sees(s, First) /\ Done(s, 1)
    BY <1>1, <2>1 DEF AskedAdd, Sent, Working, Answered, At, Ended
  <2>4. Sees(s, Chunk)'
    BY <1>3, <2>2, <2>3, Names DEF Sees
  <2>5. Done(s, 1)'
    BY <1>1, <1>3, <2>3, CalmTags DEF IInv, Types, Calm
  <2>6. AskedAdd(s)'
    BY <1>3, <2>3, <2>4, <2>5 DEF AskedAdd, Working, At
  <2>7. ~AskedHeader(s) /\ ~AskedRevoke(s) /\ ~AskedRemap(s) /\ ~AskedGo(s)
    BY <1>1 DEF AskedHeader, AskedRevoke, AskedRemap, AskedGo, At, Ended, Answered
  <2>8. \A x \in {"first", "all", "revoked"} : ~Rest(s, x)
    BY <1>1 DEF Rest
  <2> QED
    BY <2>6, <2>7, <2>8 DEF Keeps
<1>9. ~Quiet
  BY DEF Quiet, Ended
<1>10. "alloc2" \in SubPc /\ acks[s] \in Nat
  BY DEF SubPc, IInv, Types
<1> HIDE DEF seen, open
<1> QED
  BY <1>1, <1>3, <1>5, <1>6, <1>7, <1>8, <1>9, <1>10, SubReceives

(* The end of the moves.                                                   *)
LEMMA GoKeeps ==
    ASSUME IInv, NEW s \in Sub, Receive(s), pc[s] = "serve", Head(chan[s]).type = "GO"
    PROVE  IInv'
<1>1. /\ chan[s] # <<>> /\ Goto(s, "verify") /\ UNCHANGED <<acks, maps, fds>>
      /\ chan' = [chan EXCEPT ![s] = Tail(@)]
      /\ UNCHANGED <<memory, shm, owner, cs, waiting, size, deaths>>
  BY DEF Receive, Serve, Revoked
<1>2. chan[s] = <<Go>>
  BY <1>1, FirstIsAll
<1>3. /\ maps' = [maps EXCEPT ![s] = maps[s]] /\ fds' = [fds EXCEPT ![s] = fds[s]]
      /\ pc' = [pc EXCEPT ![s] = "verify"] /\ acks' = [acks EXCEPT ![s] = acks[s]]
      /\ pc'[s] = "verify" /\ maps'[s] = maps[s] /\ acks'[s] = acks[s] /\ chan'[s] = <<>>
      /\ maps'[Owner] = maps[Owner]
  BY <1>1, FirstIsAll, Names DEF Goto, IInv, Types
<1>4. Told(s)
  BY <1>2 DEF Told, Given
<1>5. Before(s)'
  BY <1>3, Names DEF Before, Ended
<1>6. ASSUME ~OwnerEnded PROVE Keeps(s)
  <2>1. \A x \in {"first", "all", "revoked"} : ~Rest(s, x)
    BY <1>1 DEF Rest
  <2>2. Go # Header /\ Go # AddChunk /\ Go # Revoke /\ \A x : Go # Remap(x)
    BY Kinds
  <2>3. ~AskedHeader(s) /\ ~AskedAdd(s) /\ ~AskedRevoke(s) /\ ~AskedRemap(s)
    BY <1>2, <2>2, One DEF AskedHeader, AskedAdd, AskedRevoke, AskedRemap, At, Ended, Sent, Answered, Working
  <2>4. (Done(s, 1) => Done(s, 1)') /\ (Done(s, 2) => Done(s, 2)')
    BY <1>1, <1>3, CalmTags DEF IInv, Types, Calm
  <2>5. AskedGo(s) => AskedGo(s)'
    BY <1>2, <1>3, <2>4, One DEF AskedGo, At, Sees, Sent, Working, Ended
  <2> QED
    BY <2>1, <2>3, <2>5 DEF Keeps
<1>7. "verify" \in SubPc /\ acks[s] \in Nat /\ fds[s] \in SUBSET DOMAIN memory
      /\ maps[s] \in [Chunk -> 0 .. Len(memory)]
  BY Names DEF SubPc, IInv, Types
<1> QED
  BY <1>1, <1>3, <1>4, <1>5, <1>6, <1>7, SubReceives

(* A chunk is given up.                                                    *)
LEMMA RevokeKeeps ==
    ASSUME IInv, NEW s \in Sub, Receive(s), pc[s] = "serve", Head(chan[s]).type = "REVOKE"
    PROVE  IInv'
<1>1. /\ chan[s] # <<>> /\ ~OwnerEnded /\ Revoked(s, Head(chan[s]))
      /\ chan' = [chan EXCEPT ![s] = Tail(@)]
      /\ UNCHANGED <<memory, shm, owner, cs, waiting, size, deaths>>
  BY DEF Receive, Serve
<1>2. chan[s] = <<Revoke>> /\ Head(chan[s]) = Revoke
  BY <1>1, FirstIsAll, One
<1> DEFINE seen == [maps[s] EXCEPT ![0] = 0]
<1>3. /\ maps' = [maps EXCEPT ![s] = seen] /\ fds' = [fds EXCEPT ![s] = fds[s]]
      /\ pc' = [pc EXCEPT ![s] = "serve"] /\ acks' = [acks EXCEPT ![s] = acks[s] + 1]
  BY <1>1, <1>2, Kinds, Names DEF Revoked, Acked, IInv, Types
<1>4. /\ pc'[s] = "serve" /\ maps'[s] = seen /\ acks'[s] = acks[s] + 1 /\ chan'[s] = <<>>
      /\ maps'[Owner] = maps[Owner]
  BY <1>1, <1>3, FirstIsAll, Names DEF IInv, Types
<1>5. seen \in [Chunk -> 0 .. Len(memory)] /\ seen[0] = 0 /\ \A c \in Chunk \ {0} : seen[c] = maps[s][c]
  BY Names DEF IInv, Types
<1>6. Before(s)' /\ ~Told(s)'
  BY <1>4, One DEF Before, Told, Given, Ended
<1>7. Keeps(s)
  <2>1. \A x \in {"first", "all", "revoked"} : ~Rest(s, x)
    BY <1>1 DEF Rest
  <2>2. Revoke # Header /\ Revoke # AddChunk /\ Revoke # Go /\ \A x : Revoke # Remap(x)
    BY Kinds
  <2>3. ~AskedHeader(s) /\ ~AskedAdd(s) /\ ~AskedGo(s) /\ ~AskedRemap(s)
    BY <1>2, <2>2, One DEF AskedHeader, AskedAdd, AskedGo, AskedRemap, At, Ended, Sent, Answered, Working
  <2>4. (Done(s, 1) => Done(s, 1)') /\ (Done(s, 2) => Done(s, 2)')
    BY <1>1, <1>4, CalmTags DEF IInv, Types, Calm
  <2>5. ASSUME AskedRevoke(s) PROVE AskedRevoke(s)'
    <3>1. acks[s] = 0 /\ Sees(s, Chunk)
      BY <1>2, <2>5, One DEF AskedRevoke, At, Sent, Working, Answered, Ended
    <3>2. Sees(s, Chunk \ {0})'
      BY <1>4, <1>5, <3>1 DEF Sees
    <3> QED
      BY <1>4, <2>4, <2>5, <3>1, <3>2 DEF AskedRevoke, Answered, At
  <2> QED
    BY <2>1, <2>3, <2>5 DEF Keeps
<1> HIDE DEF seen
<1>8. "serve" \in SubPc /\ acks[s] + 1 \in Nat /\ fds[s] \in SUBSET DOMAIN memory
  <2>1. s \in Process /\ "serve" \in SubPc
    BY Names DEF SubPc
  <2>2. acks[s] \in Nat /\ fds[s] \in SUBSET DOMAIN memory
    BY <2>1 DEF IInv, Types
  <2> QED
    BY <2>1, <2>2
<1> QED
  BY <1>1, <1>3, <1>5, <1>6, <1>7, <1>8, SubReceives

(* And taken back.                                                         *)
LEMMA RemapKeeps ==
    ASSUME IInv, NEW s \in Sub, Receive(s), pc[s] = "serve", Head(chan[s]).type = "REMAP"
    PROVE  IInv'
<1>1. /\ chan[s] # <<>> /\ ~OwnerEnded /\ Mapped(s, Head(chan[s])) /\ Acked(s) /\ UNCHANGED pc
      /\ chan' = [chan EXCEPT ![s] = Tail(@)]
      /\ UNCHANGED <<memory, shm, owner, cs, waiting, size, deaths>>
  BY DEF Receive, Serve, Revoked
<1>2. PICK x \in DOMAIN memory : chan[s] = <<Remap(x)>> /\ Head(chan[s]) = Remap(x)
  BY <1>1, FirstIsAll, One
<1> DEFINE seen == [c \in Chunk |-> IF c = 0 THEN x ELSE maps[s][c]]
           open == fds[s] \cup {x}
<1>3. /\ maps' = [maps EXCEPT ![s] = seen] /\ fds' = [fds EXCEPT ![s] = open]
      /\ pc' = [pc EXCEPT ![s] = "serve"] /\ acks' = [acks EXCEPT ![s] = acks[s] + 1]
  <2>1. /\ maps' = [maps EXCEPT ![s] = [c \in Chunk |->
              IF Remap(x).type = "HEADER" THEN IF c < NChunk THEN c + 1 ELSE 0
              ELSE IF c = Remap(x).idx THEN CHOOSE y \in Remap(x).fds : TRUE ELSE maps[s][c]]]
        /\ fds' = [fds EXCEPT ![s] = fds[s] \cup Remap(x).fds]
    BY <1>1, <1>2 DEF Mapped
  <2>2. /\ Remap(x).type # "HEADER" /\ Remap(x).idx = 0 /\ Remap(x).fds = {x}
        /\ (CHOOSE y \in Remap(x).fds : TRUE) = x
    BY Kinds, Only
  <2>3. maps' = [maps EXCEPT ![s] = seen] /\ fds' = [fds EXCEPT ![s] = open]
    BY <2>1, <2>2
  <2> HIDE DEF seen, open
  <2> QED
    BY <1>1, <2>3 DEF Acked, IInv, Types
<1>4. /\ pc'[s] = "serve" /\ maps'[s] = seen /\ acks'[s] = acks[s] + 1 /\ chan'[s] = <<>>
      /\ maps'[Owner] = maps[Owner]
  BY <1>1, <1>3, FirstIsAll, Names DEF IInv, Types
<1>5. /\ seen \in [Chunk -> 0 .. Len(memory)] /\ seen[0] = x
      /\ \A c \in Chunk \ {0} : seen[c] = maps[s][c]
  <2>1. x \in 0 .. Len(memory)
    BY DEF IInv, Types
  <2> QED
    BY <2>1, Names DEF IInv, Types
<1>6. Before(s)' /\ ~Told(s)'
  BY <1>4, One DEF Before, Told, Given, Ended
<1>7. Keeps(s)
  <2>1. \A y \in {"first", "all", "revoked"} : ~Rest(s, y)
    BY <1>1 DEF Rest
  <2>2. Remap(x) # Header /\ Remap(x) # AddChunk /\ Remap(x) # Go /\ Remap(x) # Revoke
    BY Kinds
  <2>3. ~AskedHeader(s) /\ ~AskedAdd(s) /\ ~AskedGo(s) /\ ~AskedRevoke(s)
    BY <1>2, <2>2, One DEF AskedHeader, AskedAdd, AskedGo, AskedRevoke, At, Ended, Sent, Answered, Working
  <2>4. (Done(s, 1) => Done(s, 1)') /\ (Done(s, 2) => Done(s, 2)')
    BY <1>1, <1>4, CalmTags DEF IInv, Types, Calm
  <2>5. ASSUME AskedRemap(s) PROVE AskedRemap(s)'
    <3>1. acks[s] = 0 /\ Sees(s, Chunk \ {0}) /\ Remap(x) = Remap(maps[Owner][0])
      BY <1>2, <2>5, One DEF AskedRemap, At, Sent, Working, Answered, Ended
    <3>2. x = maps[Owner][0]
      <4>1. Remap(x).fds = {x} /\ Remap(maps[Owner][0]).fds = {maps[Owner][0]}
        BY Kinds
      <4> QED
        BY <3>1, <4>1
    <3>3. Sees(s, Chunk)'
      BY <1>4, <1>5, <3>1, <3>2 DEF Sees
    <3> QED
      BY <1>4, <2>4, <2>5, <3>1, <3>3 DEF AskedRemap, Answered, At
  <2> QED
    BY <2>1, <2>3, <2>5 DEF Keeps
<1>8. "serve" \in SubPc /\ acks[s] + 1 \in Nat /\ open \in SUBSET DOMAIN memory
  BY Names DEF SubPc, IInv, Types
<1> HIDE DEF seen, open
<1> QED
  BY <1>1, <1>3, <1>5, <1>6, <1>7, <1>8, SubReceives

(* What it may receive.                                                    *)
LEMMA ReceiveKeeps == ASSUME IInv, NEW s \in Sub, Receive(s) PROVE IInv'
<1>1. \/ pc[s] \in {"header", "add"}
      \/ pc[s] = "serve" /\ Head(chan[s]).type \in {"GO", "REVOKE", "REMAP"}
  BY DEF Receive, Serve, Revoked
<1> QED
  BY <1>1, HeaderKeeps, AddKeeps, GoKeeps, RevokeKeeps, RemapKeeps

-----------------------------------------------------------------------------
(* The table and the tags.                                                 *)

(* The bump pointer's place is of the pass that allocates.                 *)
LEMMA Room ==
    ASSUME IInv, NEW s \in Sub, pc[s] \in {"alloc1", "alloc2"}, shm.bump + 1 <= shm.total
    PROVE  /\ ~Has(s, Pass(s))
           /\ Pass(s) = 1 <=> shm.bump < size * NChunk
           /\ Pass(s) \in {1, 2}
<1>1. /\ shm.bump \in Nat /\ shm.total \in Nat /\ size \in Nat \ {0}
      /\ size * NChunk \in Nat
  BY RemapAssumption DEF IInv, Types
<1>2. CASE pc[s] = "alloc1"
  <2>1. Pass(s) = 1 /\ shm.total = size * NChunk /\ ~Has(s, 1)
    BY <1>2 DEF IInv, Before, Pass
  <2> QED
    BY <1>1, <2>1
<1>3. CASE pc[s] = "alloc2"
  <2>1. Pass(s) = 2 /\ shm.total = size * (NChunk + 1) /\ ~Has(s, 2)
    BY <1>3 DEF IInv, Before, Pass
  <2>2. size * NChunk <= shm.bump
    BY <2>1 DEF IInv, Offsets
  <2> QED
    BY <1>1, <2>1, <2>2
<1> QED
  BY <1>2, <1>3

(* A region is taken.                                                      *)
LEMMA AllocateKeeps == ASSUME IInv, NEW s \in Sub, Allocate(s) PROVE IInv'
<1>1. CASE SubDies(s)
  BY <1>1, SubDiesKeeps
<1>2. SUFFICES ASSUME ~SubDies(s) PROVE IInv'
  BY <1>1
<1>3. PICK w, e, n, p :
         /\ w = Pass(s) /\ e = [off |-> shm.bump, sub |-> s, pass |-> w]
         /\ n = Len(shm.allocs) + 1 /\ p = (IF w = 1 THEN "tag1" ELSE "tag2")
  OBVIOUS
<1>4. /\ pc[s] \in {"alloc1", "alloc2"} /\ shm.bump + 1 <= shm.total
      /\ shm' = [shm EXCEPT !.bump = shm.bump + 1, !.allocs = Append(shm.allocs, e)]
      /\ pc' = [pc EXCEPT ![s] = p]
      /\ UNCHANGED <<memory, chan, acks, cs, waiting, owner, maps, fds, size, deaths>>
  BY <1>2, <1>3 DEF Allocate, Goto, links
<1>5. /\ shm.bump \in Nat /\ shm.total \in Nat /\ shm.lock \in Process \cup {Nil}
      /\ shm.allocs \in Seq([off : Nat, sub : Sub, pass : {1, 2}])
  BY DEF IInv, Types
<1>6. ~Has(s, w) /\ (w = 1 <=> shm.bump < size * NChunk) /\ w \in {1, 2}
  BY <1>3, <1>4, Room
<1>7. e \in [off : Nat, sub : Sub, pass : {1, 2}]
      /\ e.off = shm.bump /\ e.pass = w /\ Tag(e) = <<s, w>> /\ Tag(e)' = <<s, w>>
  BY <1>3, <1>5, <1>6 DEF Tag
<1>8. /\ shm'.bump = shm.bump + 1 /\ shm'.total = shm.total /\ shm'.lock = shm.lock
      /\ shm'.allocs = Append(shm.allocs, e)
      /\ shm' \in [lock : Process \cup {Nil}, bump : Nat, total : Nat,
                   allocs : Seq([off : Nat, sub : Sub, pass : {1, 2}])]
  <2>1. Append(shm.allocs, e) \in Seq([off : Nat, sub : Sub, pass : {1, 2}])
    BY <1>5, <1>7, Appended
  <2>2. PICK q : q = Append(shm.allocs, e)
    OBVIOUS
  <2>3. shm' = [lock |-> shm.lock, bump |-> shm.bump + 1, total |-> shm.total, allocs |-> q]
    BY <1>4, <2>2 DEF IInv, Types
  <2> QED
    BY <1>5, <2>1, <2>2, <2>3
<1>9. /\ n \in Nat /\ n \notin DOMAIN shm.allocs
      /\ DOMAIN shm'.allocs = DOMAIN shm.allocs \cup {n} /\ shm'.allocs[n] = e
      /\ \A i \in DOMAIN shm.allocs :
            /\ shm'.allocs[i] = shm.allocs[i]
            /\ shm.allocs[i].off \in Nat /\ Tag(shm.allocs[i])' = Tag(shm.allocs[i])
  <2> DEFINE S == [off : Nat, sub : Sub, pass : {1, 2}]
  <2>0. shm.allocs \in Seq(S) /\ e \in S
    BY <1>5, <1>7
  <2> HIDE DEF S
  <2>1. /\ n \in Nat /\ n \notin DOMAIN shm.allocs
        /\ DOMAIN shm'.allocs = DOMAIN shm.allocs \cup {n} /\ shm'.allocs[n] = e
        /\ \A i \in DOMAIN shm.allocs :
              /\ shm'.allocs[i] = shm.allocs[i]
              /\ shm.allocs[i] \in S
    BY <1>3, <1>8, <2>0, Appended
  <2> QED
    BY <2>1 DEF Tag, S
<1>10. size' = size /\ size * NChunk \in Nat
  BY <1>4, RemapAssumption DEF IInv, Types
<1>11. pc'[s] = p /\ pc' \in [Sub -> SubPc] /\ p \in {"tag1", "tag2"}
  BY <1>3, <1>4 DEF IInv, Types, SubPc
<1>12. Types'
  <2>1. \A t \in Sub : Post(t)'
    BY <1>4 DEF IInv, Types, Post
  <2> QED
    BY <1>4, <1>8, <1>11, <2>1 DEF IInv, Types, Contents
<1>13. Offsets'
  <2>1. ASSUME NEW i \in DOMAIN shm'.allocs
        PROVE  /\ shm'.allocs[i].off < shm'.bump
               /\ shm'.allocs[i].pass = 1 <=> shm'.allocs[i].off < size' * NChunk
    <3>0. shm.bump < shm'.bump
      BY <1>5, <1>8
    <3>1. CASE i = n
      <4>1. shm'.allocs[i] = e
        BY <1>9, <3>1
      <4> QED
        BY <4>1, <3>0, <1>6, <1>7, <1>10
    <3>2. CASE i \in DOMAIN shm.allocs
      <4>1. shm.allocs[i].off < shm.bump /\ (shm.allocs[i].pass = 1 <=> shm.allocs[i].off < size * NChunk)
        BY <3>2 DEF IInv, Offsets
      <4>2. PICK o \in Nat : o = shm.allocs[i].off
        BY <1>9, <3>2
      <4>3. o < shm'.bump
        <5>1. o < shm.bump
          BY <4>1, <4>2
        <5>2. shm.bump \in Nat /\ shm'.bump = shm.bump + 1
          BY <1>5, <1>8
        <5> QED
          BY <5>1, <5>2
      <4>4. shm'.allocs[i] = shm.allocs[i]
        BY <1>9, <3>2
      <4> QED
        BY <1>10, <4>1, <4>2, <4>3, <4>4
    <3> QED
      BY <1>9, <3>1, <3>2
  <2>2. ASSUME NEW i \in DOMAIN shm.allocs
        PROVE  shm.allocs[i].off # e.off /\ Tag(shm.allocs[i]) # <<s, w>>
    <3>1. shm.allocs[i].off < shm.bump /\ shm.allocs[i].off \in Nat
      BY <1>9 DEF IInv, Offsets
    <3>2. Tag(shm.allocs[i]) # <<s, w>>
      BY <1>6 DEF Has
    <3> QED
      BY <1>5, <1>7, <3>1, <3>2
  <2>3. ASSUME NEW i \in DOMAIN shm'.allocs, NEW j \in DOMAIN shm'.allocs, i # j
        PROVE  shm'.allocs[i].off # shm'.allocs[j].off /\ Tag(shm.allocs[i])' # Tag(shm.allocs[j])'
    <3>1. Tag(shm.allocs[n])' = <<s, w>>
      BY <1>7, <1>9 DEF Tag
    <3>2. CASE i = n
      BY <1>9, <2>2, <2>3, <3>1, <3>2
    <3>3. CASE j = n
      BY <1>9, <2>2, <2>3, <3>1, <3>3
    <3>4. CASE i # n /\ j # n
      <4>1. i \in DOMAIN shm.allocs /\ j \in DOMAIN shm.allocs
        BY <1>9, <3>4
      <4>2. shm.allocs[i].off # shm.allocs[j].off /\ Tag(shm.allocs[i]) # Tag(shm.allocs[j])
        BY <4>1, <2>3 DEF IInv, Offsets
      <4> QED
        BY <1>9, <4>1, <4>2
    <3> QED
      BY <3>2, <3>3, <3>4
  <2>4. /\ shm'.total \in {0, size' * NChunk, size' * (NChunk + 1)}
        /\ shm'.bump <= shm'.total
        /\ shm'.total = size' * (NChunk + 1) => size' * NChunk <= shm'.bump
    BY <1>4, <1>5, <1>8, <1>10 DEF IInv, Offsets
  <2> QED
    BY <2>1, <2>3, <2>4 DEF Offsets
<1>14. ASSUME NEW t \in Sub, NEW q \in {1, 2}
       PROVE  Has(t, q)' <=> Has(t, q) \/ <<t, q>> = <<s, w>>
  <2>1. Tag(shm.allocs[n])' = <<s, w>>
    BY <1>7, <1>9 DEF Tag
  <2> QED
    BY <1>9, <2>1 DEF Has
<1>15. ASSUME NEW t \in Sub PROVE Before(t)'
  <2>1. CASE t = s
    <3>1. CASE w = 1
      <4>1. pc[s] = "alloc1" /\ pc'[s] = "tag1"
        BY <1>3, <1>4, <1>11, <3>1 DEF Pass
      <4> QED
        BY <1>4, <1>8, <1>14, <4>1, <2>1, <3>1 DEF IInv, Before, Ended
    <3>2. CASE w = 2
      <4>1. pc'[s] = "tag2"
        BY <1>3, <1>11, <3>2
      <4> QED
        BY <1>14, <4>1, <2>1, <3>2 DEF Before, Ended
    <3> QED
      BY <1>6, <3>1, <3>2
  <2>2. CASE t # s
    <3>1. pc'[t] = pc[t] /\ chan' = chan /\ maps' = maps /\ size' = size /\ shm'.total = shm.total
      BY <1>4, <1>8, <2>2 DEF IInv, Types
    <3>2. (Has(t, 1)' <=> Has(t, 1)) /\ (Has(t, 2)' <=> Has(t, 2))
      BY <1>14, <2>2
    <3>3. Before(t)
      BY DEF IInv
    <3> QED
      BY <3>1, <3>2, <3>3 DEF Before, Given
  <2> QED
    BY <2>1, <2>2
<1>16. Ready'
  <2>1. ~Quiet
    BY <1>4 DEF Quiet, Ended
  <2>2. \A t \in Sub : Told(t)' => Told(t)
    BY <1>4, <1>11 DEF Told, Given, IInv, Types
  <2> QED
    BY <2>1, <2>2, NobodyTold
<1>17. ASSUME ~OwnerEnded PROVE Alive'
  <2>1. Alive
    BY <1>17 DEF IInv
  <2>2. Mapping'
    BY <1>4, <1>8, <2>1 DEF Alive, Mapping
  <2>3. \A t \in Sub : (Done(t, 1) => Done(t, 1)') /\ (Done(t, 2) => Done(t, 2)')
    <3>1. \A m \in DOMAIN memory : m \in DOMAIN memory' /\ memory'[m] = memory[m]
      BY <1>4
    <3>2. \A i \in DOMAIN shm.allocs : i \in DOMAIN shm'.allocs /\ shm'.allocs[i] = shm.allocs[i]
      BY <1>9
    <3>3. Types /\ \A c \in Chunk : maps[Owner][c] # 0 => maps'[Owner][c] = maps[Owner][c]
      BY <1>4 DEF IInv
    <3> QED
      BY <1>10, <3>1, <3>2, <3>3, TagsStay
  <2>4. \A t \in Sub \ {s} : Same(t) /\ maps'[Owner] = maps[Owner]
    BY <1>4 DEF Same, IInv, Types
  <2>5. \A t \in Sub \ {s} : Keeps(t) /\ (Sees(t, {}) <=> Sees(t, {})')
    BY <2>3, <2>4, SameKeeps
  <2>6. s \in ToSet(cs)
    BY <1>4, <1>17, HowFar DEF SubPc, Ended
  <2>7. Keeps(s)
    <3>1. \/ pc[s] = "alloc1" /\ pc'[s] = "tag1"
          \/ pc[s] = "alloc2" /\ pc'[s] = "tag2"
      BY <1>3, <1>4, <1>11 DEF Pass
    <3>2. \A C : Sees(s, C) <=> Sees(s, C)'
      BY <1>4 DEF Sees
    <3>3. AskedHeader(s) => AskedHeader(s)'
      BY <1>4, <3>1, <3>2 DEF AskedHeader, At, Sent, Working, Answered, Ended
    <3>4. AskedAdd(s) => AskedAdd(s)'
      BY <1>4, <2>3, <3>1, <3>2 DEF AskedAdd, At, Sent, Working, Answered, Ended
    <3> QED
      BY <1>4, <3>3, <3>4 DEF Keeps, Rest, AskedRevoke, AskedRemap, AskedGo, At, Ended
  <2>8. (\A k \in DOMAIN cs : Link(k))'
    <3>1. \A k \in DOMAIN cs : Keeps(cs[k])
      BY <2>5, <2>7 DEF IInv, Types, ToSet
    <3> QED
      BY <1>4, <3>1, <2>1, LinksKept DEF Alive
  <2>9. Connected'
    <3>1. \A t \in Sub \ ToSet(cs) : Stranger(t)'
      BY <1>4, <2>1, <2>4, <2>5, <2>6 DEF Alive, Connected, Stranger, Same
    <3> QED
      BY <1>4, <2>1, <3>1 DEF Alive, Connected
  <2> QED
    BY <2>2, <2>8, <2>9 DEF Alive
<1> QED
  BY <1>4, <1>12, <1>13, <1>15, <1>16, <1>17 DEF IInv, OwnerEnded

(* The writing of one region of one allocation.                            *)
LEMMA Update ==
    ASSUME Types, NEW m \in DOMAIN memory, NEW k \in 0 .. size - 1, NEW v \in Tags,
           memory' = [memory EXCEPT ![m].data[k] = v]
    PROVE  /\ memory' \in Seq([loc : {"Device", "Host"}, data : Contents])
           /\ DOMAIN memory' = DOMAIN memory /\ Len(memory') = Len(memory)
           /\ \A x \in DOMAIN memory \ {m} : memory'[x] = memory[x]
           /\ memory'[m].data[k] = v
           /\ \A j \in (0 .. size - 1) \ {k} : memory'[m].data[j] = memory[m].data[j]
<1> DEFINE B == [loc : {"Device", "Host"}, data : Contents]
<1>1. PICK d : d = [memory[m].data EXCEPT ![k] = v]
  OBVIOUS
<1>2. PICK b : b = [memory[m] EXCEPT !.data = d]
  OBVIOUS
<1>3. memory' = [memory EXCEPT ![m] = b]
  BY <1>1, <1>2
<1>4. memory \in Seq(B)
  BY DEF Types
<1>5. memory[m] \in B
  BY <1>4, Element
<1>6. d \in Contents /\ d[k] = v /\ \A j \in (0 .. size - 1) \ {k} : d[j] = memory[m].data[j]
  BY <1>1, <1>5 DEF Contents
<1>7. b \in B /\ b.data = d
  BY <1>2, <1>5, <1>6
<1> HIDE DEF B
<1>8. PICK q, r : q = memory /\ r = memory'
  OBVIOUS
<1>9. /\ r \in Seq(B) /\ DOMAIN r = DOMAIN q /\ Len(r) = Len(q)
      /\ \A x \in DOMAIN q \ {m} : r[x] = q[x]
      /\ r[m] = b
  <2>1. q \in Seq(B) /\ m \in DOMAIN q /\ r = [q EXCEPT ![m] = b]
    BY <1>3, <1>4, <1>8
  <2> QED
    BY <1>7, <2>1
<1> QED
  BY <1>6, <1>7, <1>8, <1>9 DEF B

(* Each allocation is mapped once by the owner.                            *)
LEMMA Once ==
    ASSUME IInv, ~OwnerEnded, cs # <<>>, NEW c \in Chunk, NEW d \in Chunk,
           maps[Owner][c] = maps[Owner][d], maps[Owner][c] # 0
    PROVE  c = d
<1>1. Mapping /\ owner.pc \in Early \cup Late
  BY DEF IInv, Alive, Connected, Types, OwnerPc, OwnerEnded
<1>2. CASE owner.pc \in Late
  BY <1>1, <1>2 DEF Mapping
<1>3. CASE owner.pc \in Early
  <2>1. c \in First /\ d \in First
    BY <1>1, <1>3, Names DEF Mapping
  <2>2. maps[Owner][c] = c + 1 /\ maps[Owner][d] = d + 1
    BY <1>1, <1>3, <2>1 DEF Mapping, First
  <2>3. c \in Nat /\ d \in Nat
    BY Names
  <2> QED
    <3>1. c + 1 = d + 1
      BY <2>2
    <3> QED
      BY <2>3, <3>1
<1> QED
  BY <1>1, <1>2, <1>3

(* While the owner copies, nobody is about to write.                       *)
LEMMA Resting ==
    ASSUME IInv, NEW s \in ToSet(cs), owner.pc \in {"copy", "swap"}
    PROVE  Rest(s, "revoked")
<1>1. ~OwnerEnded
  BY DEF OwnerEnded, Ended
<1>2. PICK k \in DOMAIN cs : cs[k] = s
  BY DEF ToSet
<1>3. Link(k)
  BY <1>1, <1>2 DEF IInv, Alive
<1> QED
  BY <1>2, <1>3 DEF Link

(* The region a subscriber is to write, and where.                         *)
LEMMA MineIs ==
    ASSUME IInv, NEW s \in Sub, pc[s] \in {"tag1", "tag2"}
    PROVE  \E i \in DOMAIN shm.allocs :
              /\ Mine(s) = shm.allocs[i] /\ Tag(shm.allocs[i]) = <<s, Pass(s)>>
              /\ shm.allocs[i].off \in Nat
              /\ shm.allocs[i].off \div size \in Chunk
              /\ shm.allocs[i].off % size \in 0 .. size - 1
<1>1. Has(s, Pass(s))
  BY DEF IInv, Before, Pass
<1>2. \E a \in ToSet(shm.allocs) : Tag(a) = <<s, Pass(s)>>
  BY <1>1 DEF Has, ToSet
<1>3. Mine(s) \in ToSet(shm.allocs) /\ Tag(Mine(s)) = <<s, Pass(s)>>
  BY <1>2 DEF Mine
<1>4. PICK i \in DOMAIN shm.allocs : Mine(s) = shm.allocs[i]
  BY <1>3 DEF ToSet
<1>5. shm.allocs[i].off \in Nat
  <2> DEFINE S == [off : Nat, sub : Sub, pass : {1, 2}]
  <2>1. shm.allocs \in Seq(S)
    BY DEF IInv, Types
  <2> HIDE DEF S
  <2>2. shm.allocs[i] \in S
    BY <2>1
  <2> QED
    BY <2>2 DEF S
<1>6. size \in Nat \ {0} /\ NChunk \in Nat \ {0} /\ shm.total \in Nat /\ shm.bump \in Nat
  BY RemapAssumption DEF IInv, Types
<1>7. shm.allocs[i].off < size * (NChunk + 1)
  <2>1. PICK o \in Nat : o = shm.allocs[i].off
    BY <1>5
  <2>2. o < shm.bump /\ shm.bump <= shm.total
    BY <2>1 DEF IInv, Offsets
  <2>3. shm.total <= size * (NChunk + 1)
    <3>1. 0 < size * (NChunk + 1) /\ size * NChunk < size * (NChunk + 1)
          /\ size * NChunk \in Nat /\ size * (NChunk + 1) \in Nat
      BY <1>6, Multiples
    <3> QED
      BY <3>1 DEF IInv, Offsets
  <2>4. size * (NChunk + 1) \in Nat
    BY <1>6, Multiples
  <2> QED
    BY <1>6, <2>1, <2>2, <2>3, <2>4
<1>8. shm.allocs[i].off \div size \in Chunk
  <2>1. PICK n \in Nat : n = NChunk + 1
    BY <1>6
  <2>2. shm.allocs[i].off < size * n
    BY <1>7, <2>1
  <2>3. shm.allocs[i].off \div size \in 0 .. n - 1
    BY <1>5, <1>6, <2>2, Located
  <2>4. n - 1 = NChunk
    BY <1>6, <2>1
  <2> QED
    BY <2>3, <2>4 DEF Chunk
<1>9. shm.allocs[i].off % size \in 0 .. size - 1
  BY <1>5, <1>6, Quotient
<1> QED
  BY <1>3, <1>4, <1>5, <1>8, <1>9

(* The tag is written through the subscriber's own mapping.                *)
LEMMA WriteTagKeeps == ASSUME IInv, NEW s \in Sub, WriteTag(s) PROVE IInv'
<1>1. CASE SubDies(s)
  BY <1>1, SubDiesKeeps
<1>2. SUFFICES ASSUME ~SubDies(s) PROVE IInv'
  BY <1>1
<1>3. PICK i \in DOMAIN shm.allocs :
         /\ Mine(s) = shm.allocs[i] /\ Tag(shm.allocs[i]) = <<s, Pass(s)>>
         /\ shm.allocs[i].off \in Nat
         /\ shm.allocs[i].off \div size \in Chunk
         /\ shm.allocs[i].off % size \in 0 .. size - 1
  BY MineIs DEF WriteTag
<1>4. PICK a, c, k, at, w, p :
         /\ a = shm.allocs[i] /\ c = a.off \div size /\ k = a.off % size /\ at = maps[s][c]
         /\ w = Pass(s) /\ p = (IF w = 1 THEN "add" ELSE "serve")
  OBVIOUS
<1>5. /\ pc[s] \in {"tag1", "tag2"} /\ at # 0 /\ ~OwnerEnded
      /\ memory' = [memory EXCEPT ![at].data[k] = <<s, w>>]
      /\ acks' = [acks EXCEPT ![s] = @ + 1]
      /\ pc' = [pc EXCEPT ![s] = p]
      /\ UNCHANGED <<shm, chan, cs, waiting, owner, maps, fds, size, deaths>>
  BY <1>2, <1>3, <1>4 DEF WriteTag, Acked, Goto
<1>6. /\ w \in {1, 2} /\ c \in Chunk /\ k \in 0 .. size - 1 /\ size \in Nat \ {0}
      /\ \/ pc[s] = "tag1" /\ w = 1 /\ p = "add"
         \/ pc[s] = "tag2" /\ w = 2 /\ p = "serve"
  <2>1. \/ pc[s] = "tag1" /\ w = 1 /\ p = "add"
        \/ pc[s] = "tag2" /\ w = 2 /\ p = "serve"
    <3>1. CASE pc[s] = "tag1"
      BY <1>4, <3>1 DEF Pass
    <3>2. CASE pc[s] = "tag2"
      BY <1>4, <3>2 DEF Pass
    <3> QED
      BY <1>5, <3>1, <3>2
  <2>2. c \in Chunk /\ k \in 0 .. size - 1 /\ size \in Nat \ {0}
    BY <1>3, <1>4, RemapAssumption DEF IInv, Types
  <2> QED
    BY <2>1, <2>2
<1>7. s \in ToSet(cs) /\ cs # <<>>
  BY <1>5, HowFar DEF SubPc, Ended, ToSet
<1>8. /\ \/ pc[s] = "tag1" /\ AskedHeader(s) /\ Sees(s, First)
         \/ pc[s] = "tag2" /\ AskedAdd(s) /\ Sees(s, Chunk) /\ Done(s, 1)
      /\ chan[s] = <<>> /\ acks[s] = 0
  BY <1>5, <1>7, Where DEF AskedHeader, AskedAdd, AskedRevoke, AskedRemap, AskedGo, Rest, At, Ended,
                           Working, Sent, Answered
<1>9. at = maps[Owner][c] /\ at \in DOMAIN memory
  <2>1. at = maps[Owner][c]
    BY <1>4, <1>5, <1>6, <1>8 DEF Sees
  <2>2. at \in 0 .. Len(memory)
    BY <1>6, <2>1, Names DEF IInv, Types
  <2>3. DOMAIN memory = 1 .. Len(memory) /\ Len(memory) \in Nat
    BY DEF IInv, Types
  <2> QED
    BY <1>5, <2>1, <2>2, <2>3
<1>10. /\ memory' \in Seq([loc : {"Device", "Host"}, data : Contents])
       /\ DOMAIN memory' = DOMAIN memory /\ Len(memory') = Len(memory)
       /\ \A x \in DOMAIN memory \ {at} : memory'[x] = memory[x]
       /\ memory'[at].data[k] = <<s, w>>
       /\ \A j \in (0 .. size - 1) \ {k} : memory'[at].data[j] = memory[at].data[j]
  <2>1. <<s, w>> \in Tags
    BY <1>6 DEF Tags
  <2>2. PICK v \in Tags : v = <<s, w>>
    BY <2>1
  <2>3. memory' = [memory EXCEPT ![at].data[k] = v]
    BY <1>5, <2>2
  <2>4. Types
    BY DEF IInv
  <2>5. at \in DOMAIN memory /\ k \in 0 .. size - 1
    BY <1>6, <1>9
  <2>6. /\ memory' \in Seq([loc : {"Device", "Host"}, data : Contents])
        /\ DOMAIN memory' = DOMAIN memory /\ Len(memory') = Len(memory)
        /\ \A x \in DOMAIN memory \ {at} : memory'[x] = memory[x]
        /\ memory'[at].data[k] = v
        /\ \A j \in (0 .. size - 1) \ {k} : memory'[at].data[j] = memory[at].data[j]
    BY <2>3, <2>4, <2>5, Update
  <2> QED
    BY <2>2, <2>6
<1>11. ASSUME NEW j \in DOMAIN shm.allocs, Written(j), j # i PROVE Written(j)'
  <2>1. PICK b, d, x : b = shm.allocs[j] /\ d = b.off \div size /\ x = b.off % size
    OBVIOUS
  <2>2. d \in Chunk /\ maps[Owner][d] # 0 /\ memory[maps[Owner][d]].data[x] = Tag(b)
    BY <1>11, <2>1 DEF Written
  <2>3. b.off \in Nat /\ x \in 0 .. size - 1
    <3> DEFINE S == [off : Nat, sub : Sub, pass : {1, 2}]
    <3>1. shm.allocs \in Seq(S)
      BY DEF IInv, Types
    <3> HIDE DEF S
    <3>2. b \in S
      BY <2>1, <3>1
    <3>3. b.off \in Nat
      BY <3>2 DEF S
    <3> QED
      BY <1>6, <2>1, <3>3, Quotient
  <2>4. memory'[maps[Owner][d]].data[x] = Tag(b)
    <3>1. maps[Owner][d] \in DOMAIN memory
      BY <2>2, Names DEF IInv, Types
    <3>2. CASE maps[Owner][d] = at
      <4>1. d = c
        BY <1>5, <1>6, <1>7, <1>9, <2>2, <3>2, Once
      <4>2. b.off # a.off
        BY <1>4, <1>11, <2>1 DEF IInv, Offsets
      <4>3. x # k
        BY <1>3, <1>4, <1>6, <2>1, <2>3, <4>1, <4>2, SamePlace
      <4> QED
        BY <1>10, <2>2, <2>3, <3>2, <4>3
    <3>3. CASE maps[Owner][d] # at
      BY <1>10, <2>2, <3>1, <3>3
    <3> QED
      BY <3>2, <3>3
  <2> QED
    BY <1>5, <2>1, <2>2, <2>4 DEF Written, Tag
<1>12. Written(i)'
  BY <1>3, <1>4, <1>5, <1>6, <1>9, <1>10 DEF Written, Tag
<1>13. Done(s, w)' /\ \A t \in Sub, q \in {1, 2} : Done(t, q) => Done(t, q)'
  <2>1. \A j \in DOMAIN shm.allocs : Written(j) => Written(j)'
    BY <1>11, <1>12
  <2>2. \A j \in DOMAIN shm.allocs : Tag(shm.allocs[j])' = Tag(shm.allocs[j])
    BY <1>5 DEF Tag
  <2>3. Done(s, w)'
    BY <1>3, <1>4, <1>5, <1>12, <2>2 DEF Done
  <2> QED
    BY <1>5, <2>1, <2>2, <2>3 DEF Done
<1>14. Types'
  <2>1. \A t \in Sub : Post(t)'
    BY <1>5, <1>10 DEF IInv, Types, Post
  <2>2. acks' \in [Sub -> Nat] /\ pc' \in [Sub -> SubPc]
    <3>1. acks' = [acks EXCEPT ![s] = 1] /\ p \in SubPc
      BY <1>5, <1>6, <1>8 DEF IInv, Types, SubPc
    <3> QED
      BY <1>5, <3>1 DEF IInv, Types
  <2>3. memory' \in Seq([loc : {"Device", "Host"}, data : Contents'])
    BY <1>5, <1>10 DEF Contents
  <2> QED
    BY <1>5, <1>10, <2>1, <2>2, <2>3 DEF IInv, Types
<1>15. Offsets'
  BY <1>5 DEF IInv, Offsets, Tag
<1>16. pc'[s] = p /\ acks'[s] = 1
  BY <1>5, <1>8 DEF IInv, Types
<1>17. ASSUME NEW t \in Sub, NEW q PROVE Has(t, q)' <=> Has(t, q)
  BY <1>5 DEF Has, Tag
<1>18. ASSUME NEW t \in Sub PROVE Before(t)'
  <2>1. CASE t = s
    <3>1. pc'[t] = p /\ chan'[t] = <<>> /\ Before(t)
      BY <1>5, <1>8, <1>16, <2>1 DEF IInv
    <3>2. CASE w = 1
      <4>1. p = "add" /\ pc[t] = "tag1"
        BY <1>6, <2>1, <3>2
      <4> QED
        BY <1>17, <3>1, <4>1, One DEF Before, Ended, Given
    <3>3. CASE w = 2
      <4>1. p = "serve"
        BY <1>6, <3>3
      <4> QED
        BY <3>1, <4>1 DEF Before, Ended
    <3> QED
      BY <1>6, <3>2, <3>3
  <2>2. CASE t # s
    <3>1. pc'[t] = pc[t] /\ chan' = chan /\ maps' = maps /\ size' = size /\ shm' = shm
      BY <1>5, <2>2 DEF IInv, Types
    <3>2. Before(t)
      BY DEF IInv
    <3> QED
      BY <1>17, <3>1, <3>2 DEF Before, Given
  <2> QED
    BY <2>1, <2>2
<1>19. Ready'
  <2>1. ~Quiet
    BY <1>5 DEF Quiet, Ended
  <2>2. ASSUME NEW t \in Sub, Told(t)' PROVE Told(t)
    <3>1. CASE t = s
      <4>1. pc'[s] \in {"add", "serve"} /\ chan'[s] = <<>>
        BY <1>5, <1>6, <1>8, <1>16
      <4> QED
        BY <2>2, <3>1, <4>1, One DEF Told, Given
    <3>2. CASE t # s
      BY <1>5, <2>2, <3>2 DEF Told, Given, IInv, Types
    <3> QED
      BY <3>1, <3>2
  <2> QED
    BY <2>1, <2>2, NobodyTold
<1>20. Alive'
  <2>1. Alive
    BY <1>5 DEF IInv
  <2>2. owner.pc \notin {"start", "swap"}
    <3>1. owner.pc # "swap"
      BY <1>5, <1>7, Resting DEF Rest, At, Ended
    <3> QED
      BY <1>7, <2>1, <3>1 DEF Alive, Connected
  <2>3. Mapping'
    BY <1>5, <1>10, <2>1, <2>2 DEF Alive, Mapping
  <2>4. \A t \in Sub \ {s} : Same(t) /\ maps'[Owner] = maps[Owner]
    BY <1>5 DEF Same, IInv, Types
  <2>5. \A t \in Sub \ {s} : Keeps(t) /\ (Sees(t, {}) <=> Sees(t, {})')
    BY <1>13, <2>4, SameKeeps
  <2>6. Keeps(s)
    <3>1. \A C : Sees(s, C) <=> Sees(s, C)'
      BY <1>5 DEF Sees
    <3>2. chan'[s] = <<>> /\ Answered(s)'
      BY <1>5, <1>8, <1>16 DEF Answered
    <3>3. CASE w = 1
      <4>1. pc[s] = "tag1" /\ p = "add" /\ Sees(s, First)'
        BY <1>6, <1>8, <3>1, <3>3
      <4>2. AskedHeader(s)'
        BY <1>13, <1>16, <3>2, <3>3, <4>1 DEF AskedHeader, At
      <4> QED
        BY <4>1, <4>2 DEF Keeps, Rest, AskedAdd, AskedRevoke, AskedRemap, AskedGo, At, Ended
    <3>4. CASE w = 2
      <4>1. pc[s] = "tag2" /\ p = "serve" /\ Sees(s, Chunk)' /\ Done(s, 1)
        BY <1>6, <1>8, <3>1, <3>4
      <4>2. Done(s, 1)' /\ Done(s, 2)'
        BY <1>13, <3>4, <4>1
      <4>3. AskedAdd(s)'
        BY <1>16, <3>2, <4>1, <4>2 DEF AskedAdd, At
      <4> QED
        BY <4>1, <4>3 DEF Keeps, Rest, AskedHeader, AskedRevoke, AskedRemap, AskedGo, At, Ended
    <3> QED
      BY <1>6, <3>3, <3>4
  <2>7. (\A x \in DOMAIN cs : Link(x))'
    <3>1. \A x \in DOMAIN cs : Keeps(cs[x])
      BY <2>5, <2>6 DEF IInv, Types, ToSet
    <3> QED
      BY <1>5, <3>1, <2>1, LinksKept DEF Alive
  <2>8. Connected'
    <3>1. \A t \in Sub \ ToSet(cs) : Stranger(t)'
      BY <1>5, <1>7, <2>1, <2>4, <2>5 DEF Alive, Connected, Stranger, Same
    <3> QED
      BY <1>5, <2>1, <3>1 DEF Alive, Connected
  <2> QED
    BY <2>3, <2>7, <2>8 DEF Alive
<1> QED
  BY <1>14, <1>15, <1>18, <1>19, <1>20 DEF IInv

(* A step of a subscriber.                                                 *)
LEMMA SubStepKeeps == ASSUME IInv, NEW s \in Sub, SubStep(s) PROVE IInv'
  BY AttachKeeps, DialKeeps, ReceiveKeeps, AllocateKeeps, WriteTagKeeps, SubLocksKeeps,
     SubVerifiesKeeps, SubDiesKeeps DEF SubStep, GivesUp, ReceiveDies

-----------------------------------------------------------------------------
(* The owner.                                                              *)

(* The end of the owner.                                                   *)
LEMMA OwnerEnds ==
    ASSUME IInv, Calm, NEW p \in Ended, owner' = [owner EXCEPT !.pc = p], Exits(Owner),
           UNCHANGED <<links, pc>>, deaths' \in Nat
    PROVE  IInv'
<1>1. chan' = chan /\ acks' = acks /\ cs' = cs /\ waiting' = waiting /\ pc' = pc
  BY DEF links
<1>2. owner'.pc = p /\ owner' \in [pc : OwnerPc, i : 1 .. Cardinality(Sub), phase : 1 .. 3]
  BY DEF IInv, Types, OwnerPc
<1>3. /\ maps' \in [Process -> [Chunk -> 0 .. Len(memory)]]
      /\ fds' \in [Process -> SUBSET DOMAIN memory]
      /\ \A s \in Sub : maps'[s] = maps[s]
  BY Names DEF IInv, Types, Exits
<1>4. \A s \in Sub : Same(s)
  BY <1>1, <1>3 DEF Same
<1>5. Types'
  <2>1. \A s \in Sub : Post(s)'
    BY <1>4, SamePlaceKept DEF IInv, Types
  <2>2. /\ memory' \in Seq([loc : {"Device", "Host"}, data : Contents'])
        /\ maps' \in [Process -> [Chunk -> 0 .. Len(memory')]]
        /\ fds' \in [Process -> SUBSET DOMAIN memory']
    BY <1>3 DEF IInv, Types, Calm, Contents
  <2> QED
    BY <1>1, <1>2, <2>1, <2>2 DEF IInv, Types, Calm
<1>6. Offsets'
  BY CalmOffsets DEF IInv
<1>7. (\A s \in Sub : Before(s))'
  BY <1>4, SamePlaceKept DEF IInv
<1>8. Ready'
  <2>1. Quiet => Quiet'
    BY <1>1, <1>2 DEF Quiet
  <2>2. \A s \in Sub : Told(s)' => Told(s) /\ maps'[s] = maps[s]
    BY <1>3, <1>4, SamePlaceKept
  <2> QED
    BY <2>1, <2>2, ReadyKept
<1> QED
  BY <1>2, <1>5, <1>6, <1>7, <1>8 DEF IInv, OwnerEnded

(* The owner exits.                                                        *)
LEMMA OwnerDiesKeeps == IInv /\ OwnerDies => IInv'
<1> SUFFICES ASSUME IInv, OwnerDies PROVE IInv'
  OBVIOUS
<1>1. Calm
  BY DEF OwnerDies, Calm, IInv, Types
<1>2. "dead" \in Ended /\ deaths' \in Nat
  BY DEF Ended, OwnerDies, IInv, Types
<1> QED
  BY <1>1, <1>2, OwnerEnds DEF OwnerDies

(* A step of the owner that moves messages only.                           *)
LEMMA OwnerCalm ==
    ASSUME IInv, Calm, UNCHANGED <<pc, maps, deaths>>,
           owner' \in [pc : OwnerPc, i : 1 .. Cardinality(Sub), phase : 1 .. 3],
           DOMAIN chan' = Sub, acks' \in [Sub -> Nat], cs' \in Seq(Sub), waiting' \subseteq Sub,
           fds' \in [Process -> SUBSET DOMAIN memory],
           \A s \in Sub : Post(s)',
           \A s \in Sub : Given(s, Header)' => Given(s, Header) \/ shm.total = size * NChunk,
           \A s \in Sub : Given(s, AddChunk)' =>
                             Given(s, AddChunk) \/ shm.total = size * (NChunk + 1),
           Ready', Alive'
    PROVE  IInv'
<1>1. Types'
  <2>1. /\ memory' \in Seq([loc : {"Device", "Host"}, data : Contents'])
        /\ maps' \in [Process -> [Chunk -> 0 .. Len(memory')]]
        /\ fds' \in [Process -> SUBSET DOMAIN memory']
    BY DEF IInv, Types, Calm, Contents
  <2>2. pc' \in [Sub -> SubPc] /\ size' \in ChunkSizes /\ deaths' \in Nat
    BY DEF IInv, Types, Calm
  <2> QED
    BY <2>1, <2>2 DEF IInv, Types, Calm
<1>2. Offsets'
  BY CalmOffsets DEF IInv
<1>3. ASSUME NEW s \in Sub PROVE Before(s)'
  <2>1. \A p \in {1, 2} : Has(s, p)' <=> Has(s, p)
    BY DEF Has, Calm, Tag
  <2>2. /\ Before(s) /\ pc'[s] = pc[s] /\ maps'[s] = maps[s]
        /\ shm'.total = shm.total /\ size' = size
    BY DEF IInv, Calm
  <2> QED
    BY <2>1, <2>2 DEF Before
<1> QED
  BY <1>1, <1>2, <1>3 DEF IInv

(* When as many have connected as there are, all have.                     *)
LEMMA AllConnected ==
    ASSUME IInv, ~OwnerEnded, owner.pc \notin {"start", "bind", "accept"}
    PROVE  ToSet(cs) = Sub /\ DOMAIN cs = 1 .. Cardinality(Sub) /\ cs # <<>>
           /\ Len(cs) = Cardinality(Sub) /\ owner.i \in DOMAIN cs
<1>1. Cardinality(ToSet(cs)) = Len(cs) /\ Len(cs) = Cardinality(Sub)
  BY DEF IInv, Alive, Connected
<1>2. cs \in Seq(Sub) /\ ToSet(cs) \subseteq Sub
  BY DEF IInv, Types, ToSet
<1>3. IsFiniteSet(Sub) /\ Sub # {}
  BY RemapAssumption
<1>4. ToSet(cs) = Sub
  BY <1>1, <1>2, <1>3, FS_Subset
<1>5. DOMAIN cs = 1 .. Cardinality(Sub) /\ owner.i \in 1 .. Cardinality(Sub)
  BY <1>1, <1>2 DEF IInv, Types
<1>6. cs # <<>>
  BY <1>3, <1>4 DEF ToSet
<1> QED
  BY <1>1, <1>4, <1>5, <1>6

(* The first chunks.                                                       *)
LEMMA OwnerStartKeeps == IInv /\ OwnerStart => IInv'
<1> SUFFICES ASSUME IInv, OwnerStart PROVE IInv'
  OBVIOUS
<1>1. /\ owner.pc = "start" /\ ~OwnerEnded
      /\ memory' = [i \in 1 .. NChunk |-> Fresh("Device")]
      /\ maps' = [maps EXCEPT ![Owner] = [c \in Chunk |-> IF c < NChunk THEN c + 1 ELSE 0]]
      /\ fds' = [fds EXCEPT ![Owner] = 1 .. NChunk]
      /\ shm' = [shm EXCEPT !.total = size * NChunk]
      /\ owner' = [owner EXCEPT !.pc = "bind"]
      /\ UNCHANGED <<chan, acks, cs, waiting, pc, size, deaths>>
  BY DEF OwnerStart, links, OwnerEnded, Ended
<1>2. Alive
  BY <1>1 DEF IInv
<1>3. memory = <<>> /\ shm.total = 0 /\ cs = <<>> /\ owner.phase = 1 /\ owner.i = 1
  BY <1>1, <1>2 DEF Alive, Mapping, Connected, Rounds
<1>4. \A s \in Sub : Stranger(s)
  BY <1>2, <1>3 DEF Alive, Connected, ToSet
<1>5. /\ owner'.pc = "bind" /\ owner'.phase = 1 /\ owner'.i = 1
      /\ owner' \in [pc : OwnerPc, i : 1 .. Cardinality(Sub), phase : 1 .. 3]
  BY <1>1, <1>3 DEF IInv, Types, OwnerPc, Early
<1>6. size \in Nat \ {0} /\ NChunk \in Nat \ {0}
  BY RemapAssumption DEF IInv, Types
<1>7. /\ size * NChunk \in Nat \ {0} /\ size * NChunk < size * (NChunk + 1)
      /\ size * (NChunk + 1) \in Nat
  BY <1>6, Multiples
<1>8. /\ memory' \in Seq([loc : {"Device", "Host"}, data : Contents'])
      /\ Len(memory') = NChunk /\ DOMAIN memory' = 1 .. NChunk
  <2>1. PICK f : f = Fresh("Device")
    OBVIOUS
  <2> DEFINE B == [loc : {"Device", "Host"}, data : Contents']
  <2>2. f \in B
    BY <1>1, <2>1 DEF Fresh, Contents
  <2>3. memory' = [i \in 1 .. NChunk |-> f]
    BY <1>1, <2>1
  <2> HIDE DEF B
  <2>4. memory' \in Seq(B) /\ Len(memory') = NChunk /\ DOMAIN memory' = 1 .. NChunk
    BY <1>6, <2>2, <2>3
  <2> QED
    BY <2>4 DEF B
<1>9. /\ maps' \in [Process -> [Chunk -> 0 .. Len(memory')]]
      /\ maps'[Owner] = [c \in Chunk |-> IF c < NChunk THEN c + 1 ELSE 0]
      /\ \A s \in Sub : maps'[s] = maps[s]
  <2>1. [c \in Chunk |-> IF c < NChunk THEN c + 1 ELSE 0] \in [Chunk -> 0 .. NChunk]
    BY <1>6, Names
  <2>2. Len(memory) = 0
    BY <1>3
  <2>3. maps \in [Process -> [Chunk -> 0 .. NChunk]]
    <3>1. 0 .. Len(memory) \subseteq 0 .. NChunk
      BY <1>6, <2>2
    <3>2. maps \in [Process -> [Chunk -> 0 .. Len(memory)]]
      BY DEF IInv, Types
    <3> QED
      BY <3>1, <3>2
  <2>4. maps' \in [Process -> [Chunk -> 0 .. NChunk]]
    BY <1>1, <2>1, <2>3
  <2> QED
    BY <1>1, <1>8, <2>3, <2>4, Names
<1>10. fds' \in [Process -> SUBSET DOMAIN memory']
  <2>1. \A p \in Process : fds[p] \subseteq DOMAIN memory'
    BY <1>3 DEF IInv, Types
  <2>2. DOMAIN fds = Process
    BY DEF IInv, Types
  <2> QED
    BY <1>1, <1>8, <2>1, <2>2
<1>11. /\ shm'.total = size * NChunk /\ shm'.bump = shm.bump /\ shm'.allocs = shm.allocs
       /\ shm' \in [lock : Process \cup {Nil}, bump : Nat, total : Nat,
                    allocs : Seq([off : Nat, sub : Sub, pass : {1, 2}])]
  BY <1>1, <1>7 DEF IInv, Types
<1>12. Types'
  <2>1. \A s \in Sub : Post(s)'
    BY <1>1, <1>4 DEF Stranger, Post
  <2> QED
    BY <1>1, <1>5, <1>8, <1>9, <1>10, <1>11, <2>1 DEF IInv, Types
<1>13. Offsets'
  <2>1. shm.bump = 0
    BY <1>3 DEF IInv, Offsets, Types
  <2>2. /\ shm'.total \in {0, size' * NChunk, size' * (NChunk + 1)}
        /\ shm'.bump <= shm'.total
        /\ shm'.total = size' * (NChunk + 1) => size' * NChunk <= shm'.bump
    BY <1>1, <1>7, <1>11, <2>1
  <2> QED
    BY <1>1, <1>11, <2>2 DEF IInv, Offsets, Tag
<1>14. ASSUME NEW s \in Sub PROVE Before(s)'
  <2>1. /\ chan'[s] = <<>> /\ pc'[s] = pc[s] /\ maps'[s] = maps[s] /\ Before(s)
        /\ pc[s] \in {"start", "attached", "header"} \cup Ended
    BY <1>1, <1>4, <1>9 DEF Stranger, IInv
  <2>2. \A p \in {1, 2} : Has(s, p)' <=> Has(s, p)
    BY <1>11 DEF Has, Tag
  <2> QED
    BY <2>1, <2>2, One DEF Before, Given, Ended
<1>15. Ready'
  <2>1. \A s \in Sub : ~Told(s)'
    BY <1>1, <1>4 DEF Told, Stranger, Ended
  <2> QED
    BY <2>1 DEF Ready
<1>16. Alive'
  <2>1. maps'[Owner][NChunk] = 0 /\ \A c \in First : maps'[Owner][c] = c + 1
    BY <1>6, <1>9, Names DEF First
  <2>2. Mapping'
    BY <1>1, <1>5, <1>8, <1>11, <2>1 DEF Mapping, Early, Late, Rounds, First
  <2>3. Connected'
    <3>1. \A s \in Sub : Stranger(s)'
      BY <1>1, <1>4, <1>9 DEF Stranger, Sees
    <3> QED
      BY <1>1, <1>2, <1>3, <1>5, <3>1 DEF Alive, Connected
  <2>4. (\A k \in DOMAIN cs : Link(k))'
    BY <1>1, <1>3
  <2> QED
    BY <2>2, <2>3, <2>4 DEF Alive
<1> QED
  BY <1>12, <1>13, <1>14, <1>15, <1>16 DEF IInv

(* The socket.                                                             *)
LEMMA ListenKeeps == IInv /\ Listen => IInv'
<1> SUFFICES ASSUME IInv, Listen PROVE IInv'
  OBVIOUS
<1>1. /\ owner.pc = "bind" /\ ~OwnerEnded /\ owner' = [owner EXCEPT !.pc = "accept"]
      /\ UNCHANGED <<memory, shm, chan, acks, cs, waiting, pc, maps, fds, size, deaths>>
  BY DEF Listen, links, OwnerEnded, Ended
<1>2. Calm
  BY <1>1 DEF Calm, IInv, Types
<1>3. /\ owner'.pc = "accept" /\ owner'.phase = owner.phase /\ owner'.i = owner.i
      /\ owner' \in [pc : OwnerPc, i : 1 .. Cardinality(Sub), phase : 1 .. 3]
  BY <1>1 DEF IInv, Types, OwnerPc, Early
<1>4. Alive /\ cs = <<>>
  BY <1>1 DEF IInv, Alive, Connected
<1>5. Mapping'
  BY <1>1, <1>3, <1>4 DEF Alive, Mapping, Early, Late, Rounds
<1>6. Connected'
  <2>1. 0 < Cardinality(Sub)
    BY RemapAssumption, FS_CardinalityType, FS_EmptySet
  <2>2. \A s \in Sub : Stranger(s) => Stranger(s)'
    BY <1>1 DEF Stranger, Sees
  <2> QED
    BY <1>1, <1>3, <1>4, <2>1, <2>2 DEF Alive, Connected
<1>7. (\A k \in DOMAIN cs : Link(k))'
  BY <1>1, <1>4
<1>8. Ready'
  <2>1. ~Quiet
    BY <1>1 DEF Quiet, Ended
  <2>2. \A s \in Sub : Told(s)' => Told(s)
    BY <1>1 DEF Told, Given
  <2> QED
    BY <2>1, <2>2, NobodyTold
<1>9. \A s \in Sub : Post(s)'
  BY <1>1 DEF IInv, Types, Post
<1>10. \A s \in Sub : \A m : Given(s, m)' => Given(s, m)
  BY <1>1 DEF Given
<1>11. DOMAIN chan' = Sub /\ acks' \in [Sub -> Nat] /\ cs' \in Seq(Sub) /\ waiting' \subseteq Sub
       /\ fds' \in [Process -> SUBSET DOMAIN memory]
  BY <1>1 DEF IInv, Types
<1>12. Alive'
  BY <1>5, <1>6, <1>7 DEF Alive
<1>13. UNCHANGED <<pc, maps, deaths>>
  BY <1>1
<1> QED
  BY <1>2, <1>3, <1>8, <1>9, <1>10, <1>11, <1>12, <1>13, OwnerCalm

(* Another subscriber connects.                                            *)
LEMMA AcceptKeeps == IInv /\ Accept => IInv'
<1> SUFFICES ASSUME IInv, Accept PROVE IInv'
  OBVIOUS
<1>1. CASE OwnerDies
  BY <1>1, OwnerDiesKeeps
<1>2. SUFFICES ASSUME ~OwnerDies PROVE IInv'
  BY <1>1
<1>3. owner.pc = "accept" /\ ~OwnerEnded
  BY DEF Accept, OwnerEnded, Ended
<1>4. PICK s \in waiting :
         /\ pc[s] \notin Ended /\ waiting' = waiting \ {s} /\ cs' = Append(cs, s)
         /\ chan' = [chan EXCEPT ![s] = Append(@, Header)]
         /\ owner' = [owner EXCEPT !.pc = IF Len(cs') = Cardinality(Sub) THEN "pass1" ELSE "accept"]
         /\ UNCHANGED <<memory, shm, acks, pc, maps, fds, size, deaths>>
  BY <1>2 DEF Accept, Header
<1>5. Calm
  BY <1>4 DEF Calm, IInv, Types
<1>6. Alive
  BY <1>3 DEF IInv
<1>7. s \in Sub /\ s \notin ToSet(cs) /\ Stranger(s) /\ pc[s] = "header"
  BY <1>4, <1>6 DEF Alive, Connected, Stranger, IInv, Types
<1>8. chan[s] = <<>> /\ acks[s] = 0 /\ Sees(s, {})
  BY <1>7 DEF Stranger
<1>9. /\ chan'[s] = <<Header>> /\ DOMAIN chan' = Sub /\ \A t \in Sub \ {s} : chan'[t] = chan[t]
  <2>1. chan' = [chan EXCEPT ![s] = <<Header>>]
    BY <1>4, <1>8, One
  <2> QED
    BY <1>7, <2>1 DEF IInv, Types
<1>10. /\ cs' \in Seq(Sub) /\ Len(cs') = Len(cs) + 1 /\ DOMAIN cs' = DOMAIN cs \cup {Len(cs) + 1}
       /\ \A i \in DOMAIN cs : cs'[i] = cs[i] /\ cs[i] \in Sub
       /\ cs'[Len(cs) + 1] = s /\ ToSet(cs') = ToSet(cs) \cup {s} /\ Len(cs) \in Nat
       /\ DOMAIN cs = 1 .. Len(cs)
  BY <1>4, <1>7, Appended DEF IInv, Types
<1>11. /\ owner' \in [pc : OwnerPc, i : 1 .. Cardinality(Sub), phase : 1 .. 3]
       /\ owner'.phase = owner.phase /\ owner'.i = owner.i
       /\ owner'.pc = IF Len(cs') = Cardinality(Sub) THEN "pass1" ELSE "accept"
       /\ owner'.pc \in {"pass1", "accept"}
  <2>1. PICK p : p = IF Len(cs') = Cardinality(Sub) THEN "pass1" ELSE "accept"
    OBVIOUS
  <2>2. p \in OwnerPc /\ owner' = [owner EXCEPT !.pc = p] /\ p \in {"pass1", "accept"}
    BY <1>4, <2>1 DEF OwnerPc, Early
  <2> QED
    BY <2>1, <2>2 DEF IInv, Types
<1>12. Mapping'
  <2>1. owner.phase = 1 /\ owner.i = 1 /\ owner.pc \in Early /\ owner'.pc \in Early
    BY <1>3, <1>6, <1>11 DEF Alive, Mapping, Early, Rounds
  <2> QED
    BY <1>3, <1>4, <1>6, <1>11, <2>1 DEF Alive, Mapping, Early, Late, Rounds
<1>13. maps' = maps /\ acks' = acks /\ pc' = pc /\ fds' = fds /\ deaths' = deaths
  BY <1>4
<1>14. \A t \in Sub \ {s} : Same(t)
  BY <1>9, <1>13 DEF Same
<1>15. \A t \in Sub \ {s} : Keeps(t) /\ (Sees(t, {}) <=> Sees(t, {})')
  <2>1. \A t \in Sub : (Done(t, 1) => Done(t, 1)') /\ (Done(t, 2) => Done(t, 2)')
    BY <1>5, <1>13, CalmTags DEF IInv
  <2> QED
    BY <1>13, <1>14, <2>1, SameKeeps
<1>16. Connected'
  <2>1. \A j, k \in DOMAIN cs' : j # k => cs'[j] # cs'[k]
    <3>1. \A j \in DOMAIN cs : cs[j] # s
      BY <1>7 DEF ToSet
    <3>2. \A j, k \in DOMAIN cs : j # k => cs[j] # cs[k]
      BY <1>6 DEF Alive, Connected
    <3> QED
      BY <1>10, <3>1, <3>2
  <2>2. Cardinality(ToSet(cs')) = Len(cs')
    <3>1. IsFiniteSet(ToSet(cs))
      <4>1. ToSet(cs) \subseteq Sub
        BY <1>10 DEF ToSet
      <4> QED
        BY <4>1, RemapAssumption, FS_Subset
    <3>2. Cardinality(ToSet(cs) \cup {s}) = Cardinality(ToSet(cs)) + 1
      BY <1>7, <3>1, FS_AddElement
    <3> QED
      BY <1>6, <1>10, <3>2 DEF Alive, Connected
  <2>3. waiting' \cap ToSet(cs') = {}
    BY <1>4, <1>6, <1>10 DEF Alive, Connected
  <2>4. Len(cs') <= Cardinality(Sub)
    <3>1. Len(cs) < Cardinality(Sub) /\ Cardinality(Sub) \in Nat
      BY <1>3, <1>6, RemapAssumption, FS_CardinalityType DEF Alive, Connected
    <3> QED
      BY <1>10, <3>1
  <2>5. /\ owner'.pc = "accept" => Len(cs') < Cardinality(Sub)
        /\ owner'.pc = "pass1" => Len(cs') = Cardinality(Sub)
    <3>1. Cardinality(Sub) \in Nat /\ Len(cs') \in Nat
      BY <1>10, RemapAssumption, FS_CardinalityType
    <3> QED
      BY <1>11, <2>4, <3>1
  <2>6. \A t \in Sub \ ToSet(cs') : Stranger(t)'
    BY <1>4, <1>6, <1>10, <1>14, <1>15 DEF Alive, Connected, Stranger, Same
  <2> QED
    BY <1>11, <2>1, <2>2, <2>3, <2>5, <2>6 DEF Connected
<1>17. (\A k \in DOMAIN cs : Link(k))'
  <2>1. AskedHeader(s)'
    <3>1. Sees(s, {})'
      BY <1>8, <1>13 DEF Sees
    <3> QED
      BY <1>7, <1>8, <1>9, <1>13, <3>1 DEF AskedHeader, Sent, At
  <2>2. ASSUME NEW t \in ToSet(cs') PROVE AskedHeader(t)'
    <3>1. CASE t = s
      BY <2>1, <3>1
    <3>2. CASE t # s
      <4>1. PICK k \in DOMAIN cs : cs[k] = t
        BY <1>10, <2>2, <3>2 DEF ToSet
      <4>2. AskedHeader(t)
        BY <1>3, <1>6, <4>1 DEF Alive, Link
      <4> QED
        BY <1>10, <1>15, <3>2, <4>1, <4>2 DEF Keeps
    <3> QED
      BY <3>1, <3>2
  <2>3. ASSUME NEW k \in DOMAIN cs' PROVE cs'[k] \in ToSet(cs')
    BY DEF ToSet
  <2>4. owner.i = 1
    BY <1>3, <1>6 DEF Alive, Mapping, Rounds
  <2>5. \A k \in DOMAIN cs' : ~(k < owner'.i)
    BY <1>10, <1>11, <2>4
  <2>6. ASSUME NEW k \in DOMAIN cs' PROVE Link(k)'
    <3>1. PICK t \in ToSet(cs') : t = cs'[k]
      BY <2>3
    <3>2. AskedHeader(t)' /\ ~(k < owner'.i)
      BY <2>2, <2>5
    <3> QED
      BY <1>11, <3>1, <3>2 DEF Link
  <2> QED
    BY <2>6
<1>18. Ready'
  <2>1. ~Quiet
    BY <1>3 DEF Quiet, Ended
  <2>2. \A t \in Sub : Told(t)' => Told(t)
    BY <1>7, <1>9, <1>13 DEF Told, Given
  <2> QED
    BY <2>1, <2>2, NobodyTold
<1>19. shm.total = size * NChunk /\ Len(memory) = NChunk
  BY <1>3, <1>6 DEF Alive, Mapping, Early
<1>20. \A t \in Sub : Post(t)'
  <2>1. Post(s)'
    BY <1>4, <1>9, <1>19, Names DEF Post
  <2>2. \A t \in Sub \ {s} : Post(t)'
    BY <1>5, <1>14, SamePlaceKept DEF IInv, Types
  <2> QED
    BY <2>1, <2>2
<1>21. \A t \in Sub : Given(t, AddChunk)' => Given(t, AddChunk)
  <2>1. Header # AddChunk
    BY Kinds
  <2> QED
    BY <1>7, <1>9, <2>1, One DEF Given
<1>22. /\ acks' \in [Sub -> Nat] /\ waiting' \subseteq Sub /\ fds' \in [Process -> SUBSET DOMAIN memory]
  BY <1>4, <1>13 DEF IInv, Types
<1>23. Alive'
  BY <1>12, <1>16, <1>17 DEF Alive
<1> QED
  BY <1>5, <1>9, <1>10, <1>11, <1>13, <1>18, <1>19, <1>20, <1>21, <1>22, <1>23, OwnerCalm

(* Every subscriber rests while the owner works.                           *)
LEMMA AllRest ==
    ASSUME IInv, owner.pc \in {"grow", "copy", "swap"}, NEW s \in Sub
    PROVE  /\ owner.pc = "grow" => Rest(s, "first")
           /\ owner.pc # "grow" => Rest(s, "revoked")
<1>1. ~OwnerEnded
  BY DEF OwnerEnded, Ended
<1>2. ToSet(cs) = Sub
  BY <1>1, AllConnected
<1>3. PICK k \in DOMAIN cs : cs[k] = s
  BY <1>2 DEF ToSet
<1>4. Link(k)
  BY <1>1 DEF IInv, Alive
<1> QED
  BY <1>3, <1>4 DEF Link

(* The owner's work, while nothing is under way.                           *)
LEMMA OwnerWorks ==
    ASSUME IInv, owner.pc \in {"grow", "copy", "swap"},
           UNCHANGED <<chan, acks, cs, waiting, pc, size, deaths>>,
           memory' \in Seq([loc : {"Device", "Host"}, data : Contents]),
           shm' \in [lock : Process \cup {Nil}, bump : Nat, total : Nat,
                     allocs : Seq([off : Nat, sub : Sub, pass : {1, 2}])],
           shm'.allocs = shm.allocs,
           owner' \in [pc : OwnerPc, i : 1 .. Cardinality(Sub), phase : 1 .. 3],
           owner'.pc \in {"add", "swap", "remap"},
           maps' \in [Process -> [Chunk -> 0 .. Len(memory')]],
           \A s \in Sub : maps'[s] = maps[s],
           fds' \in [Process -> SUBSET DOMAIN memory'],
           Offsets', Mapping', (\A k \in DOMAIN cs : Link(k))'
    PROVE  IInv'
<1>1. ~OwnerEnded
  BY DEF OwnerEnded, Ended
<1>2. ASSUME NEW s \in Sub
      PROVE  chan[s] = <<>> /\ pc[s] \in {"add", "serve"} \cup Ended
  BY AllRest DEF Rest, At
<1>3. Types'
  <2>1. \A s \in Sub : Post(s)'
    BY <1>2 DEF Post
  <2>2. memory' \in Seq([loc : {"Device", "Host"}, data : Contents'])
    BY DEF Contents
  <2> QED
    BY <2>1, <2>2 DEF IInv, Types
<1>4. ASSUME NEW s \in Sub PROVE Before(s)' /\ ~Told(s)'
  <2>1. \A p \in {1, 2} : Has(s, p)' <=> Has(s, p)
    BY DEF Has, Tag
  <2>2. /\ Before(s) /\ pc'[s] = pc[s] /\ chan'[s] = <<>> /\ maps'[s] = maps[s]
        /\ pc[s] \in {"add", "serve"} \cup Ended
    BY <1>2 DEF IInv
  <2>3. \A m : ~Given(s, m)'
    BY <2>2, One DEF Given
  <2>4. ~Told(s)'
    BY <2>2, <2>3 DEF Told, Ended
  <2>5. Before(s)'
    BY <2>1, <2>2, <2>3 DEF Before, Ended
  <2> QED
    BY <2>4, <2>5
<1>5. Ready'
  BY <1>4 DEF Ready
<1>6. Connected'
  <2>1. ToSet(cs) = Sub
    BY <1>1, AllConnected
  <2>2. Connected
    BY <1>1 DEF IInv, Alive
  <2> QED
    BY <2>1, <2>2 DEF Connected
<1> QED
  BY <1>3, <1>4, <1>5, <1>6 DEF IInv, Alive

(* One chunk more.                                                         *)
LEMMA GrowKeeps == IInv /\ Grow => IInv'
<1> SUFFICES ASSUME IInv, Grow PROVE IInv'
  OBVIOUS
<1>1. /\ owner.pc = "grow" /\ ~OwnerEnded
      /\ memory' = Append(memory, Fresh("Device"))
      /\ maps' = [maps EXCEPT ![Owner][NChunk] = Len(memory')]
      /\ fds' = [fds EXCEPT ![Owner] = @ \cup {Len(memory')}]
      /\ shm' = [shm EXCEPT !.total = size * (NChunk + 1), !.bump = size * NChunk]
      /\ owner' = [owner EXCEPT !.pc = "add"]
      /\ UNCHANGED <<chan, acks, cs, waiting, pc, size, deaths>>
  BY DEF Grow, links, OwnerEnded, Ended
<1>2. Alive
  BY <1>1 DEF IInv
<1>3. /\ Len(memory) = NChunk /\ shm.total = size * NChunk /\ owner.phase = 1 /\ owner.i = 1
      /\ \A c \in First : maps[Owner][c] = c + 1
      /\ maps[Owner][NChunk] = 0
  BY <1>1, <1>2 DEF Alive, Mapping, Early, Rounds, First
<1>4. size \in Nat \ {0} /\ NChunk \in Nat \ {0}
  BY RemapAssumption DEF IInv, Types
<1>5. /\ size * NChunk \in Nat \ {0} /\ size * NChunk < size * (NChunk + 1)
      /\ size * (NChunk + 1) \in Nat \ {0}
  BY <1>4, Multiples
<1>6. /\ memory' \in Seq([loc : {"Device", "Host"}, data : Contents])
      /\ Len(memory') = NChunk + 1 /\ DOMAIN memory' = DOMAIN memory \cup {NChunk + 1}
      /\ DOMAIN memory = 1 .. NChunk
      /\ \A m \in DOMAIN memory : memory'[m] = memory[m]
  <2> DEFINE B == [loc : {"Device", "Host"}, data : Contents]
  <2>1. PICK f : f = Fresh("Device")
    OBVIOUS
  <2>2. f \in B /\ memory \in Seq(B)
    BY <2>1 DEF Fresh, Contents, IInv, Types
  <2>3. memory' = Append(memory, f)
    BY <1>1, <2>1
  <2> HIDE DEF B
  <2>4. /\ memory' \in Seq(B) /\ Len(memory') = Len(memory) + 1
        /\ DOMAIN memory' = DOMAIN memory \cup {Len(memory) + 1}
        /\ DOMAIN memory = 1 .. Len(memory)
        /\ \A m \in DOMAIN memory : memory'[m] = memory[m]
    BY <2>2, <2>3, Appended
  <2> QED
    BY <1>3, <2>4 DEF B
<1>7. PICK mine : mine = [maps[Owner] EXCEPT ![NChunk] = NChunk + 1]
  OBVIOUS
<1>8. /\ mine \in [Chunk -> 0 .. NChunk + 1] /\ mine[NChunk] = NChunk + 1
      /\ \A c \in First : mine[c] = maps[Owner][c]
  <2>1. maps[Owner] \in [Chunk -> 0 .. NChunk]
    BY <1>3, Names DEF IInv, Types
  <2> QED
    BY <1>4, <1>7, <2>1, Names
<1>9. maps' = [maps EXCEPT ![Owner] = mine]
  BY <1>1, <1>6, <1>7
<1>10. /\ maps' \in [Process -> [Chunk -> 0 .. Len(memory')]] /\ maps'[Owner] = mine
       /\ \A s \in Sub : maps'[s] = maps[s]
  <2>1. maps \in [Process -> [Chunk -> 0 .. NChunk + 1]]
    <3>1. maps \in [Process -> [Chunk -> 0 .. NChunk]]
      BY <1>3 DEF IInv, Types
    <3>2. 0 .. NChunk \subseteq 0 .. NChunk + 1
      BY <1>4
    <3> QED
      BY <3>1, <3>2
  <2>2. maps' \in [Process -> [Chunk -> 0 .. NChunk + 1]]
    BY <1>8, <1>9, <2>1
  <2> QED
    BY <1>6, <1>9, <2>1, <2>2, Names
<1>11. fds' \in [Process -> SUBSET DOMAIN memory']
  <2>1. \A p \in Process : fds[p] \subseteq DOMAIN memory' /\ DOMAIN fds = Process
    BY <1>6 DEF IInv, Types
  <2>2. Len(memory') \in DOMAIN memory'
    BY <1>6
  <2> QED
    BY <1>1, <2>1, <2>2, Names
<1>12. /\ shm'.total = size * (NChunk + 1) /\ shm'.bump = size * NChunk /\ shm'.allocs = shm.allocs
       /\ shm' \in [lock : Process \cup {Nil}, bump : Nat, total : Nat,
                    allocs : Seq([off : Nat, sub : Sub, pass : {1, 2}])]
  <2>1. PICK x, y \in Nat : x = size * (NChunk + 1) /\ y = size * NChunk
    BY <1>5
  <2>2. shm' = [lock |-> shm.lock, bump |-> y, total |-> x, allocs |-> shm.allocs]
    BY <1>1, <2>1 DEF IInv, Types
  <2> QED
    BY <2>1, <2>2 DEF IInv, Types
<1>13. /\ owner' \in [pc : OwnerPc, i : 1 .. Cardinality(Sub), phase : 1 .. 3]
       /\ owner'.pc = "add" /\ owner'.phase = 1 /\ owner'.i = 1
  BY <1>1, <1>3 DEF IInv, Types, OwnerPc, Late
<1>14. Offsets'
  <2>1. /\ shm'.total \in {0, size' * NChunk, size' * (NChunk + 1)}
        /\ shm'.bump <= shm'.total
        /\ shm'.total = size' * (NChunk + 1) => size' * NChunk <= shm'.bump
    BY <1>1, <1>5, <1>12
  <2>2. ASSUME NEW i \in DOMAIN shm.allocs
        PROVE  /\ shm.allocs[i].off < shm'.bump
               /\ shm.allocs[i].pass = 1 <=> shm.allocs[i].off < size * NChunk
    <3>1. shm.allocs \in Seq([off : Nat, sub : Sub, pass : {1, 2}]) /\ shm.bump \in Nat
      BY DEF IInv, Types
    <3>2. PICK a \in [off : Nat, sub : Sub, pass : {1, 2}] : a = shm.allocs[i]
      <4> DEFINE S == [off : Nat, sub : Sub, pass : {1, 2}]
      <4>1. shm.allocs \in Seq(S)
        BY <3>1
      <4> HIDE DEF S
      <4>2. shm.allocs[i] \in S
        BY <4>1, Element
      <4> QED
        BY <4>2 DEF S
    <3>3. /\ a.off < shm.bump /\ shm.bump <= size * NChunk
          /\ (a.pass = 1 <=> a.off < size * NChunk)
      BY <1>3, <3>2 DEF IInv, Offsets
    <3>4. PICK o, n, b \in Nat : o = a.off /\ n = size * NChunk /\ b = shm.bump
      BY <1>5, <3>1
    <3>5. o < n
      BY <3>3, <3>4
    <3> QED
      BY <1>12, <3>2, <3>3, <3>4, <3>5
  <2> QED
    BY <1>1, <1>12, <2>1, <2>2 DEF IInv, Offsets, Tag
<1>15. Mapping'
  <2>1. \A c \in Chunk : mine[c] = c + 1
    BY <1>3, <1>8, Names
  <2>2. /\ \A c \in Chunk : mine[c] # 0
        /\ \A c, d \in Chunk : c # d => mine[c] # mine[d]
    <3>1. ASSUME NEW c \in Chunk, NEW d \in Chunk, c # d PROVE mine[c] # 0 /\ mine[c] # mine[d]
      <4>1. c \in Nat /\ d \in Nat /\ mine[c] = c + 1 /\ mine[d] = d + 1
        BY <2>1, Names
      <4> QED
        BY <3>1, <4>1
    <3>2. ASSUME NEW c \in Chunk PROVE mine[c] # 0
      <4>1. c \in Nat /\ mine[c] = c + 1
        BY <2>1, Names
      <4> QED
        BY <4>1
    <3> QED
      BY <3>1, <3>2
  <2> QED
    BY <1>1, <1>8, <1>10, <1>12, <1>13, <2>2 DEF Mapping, Early, Late, Rounds
<1>16. ASSUME NEW s \in Sub PROVE Rest(s, "first")'
  <2>1. Rest(s, "first")
    BY <1>1, AllRest
  <2>2. Done(s, 1)'
    <3>1. \A c \in Chunk : maps[Owner][c] # 0 => maps'[Owner][c] = maps[Owner][c]
      BY <1>3, <1>8, <1>10, Names
    <3>2. \A m \in DOMAIN memory : m \in DOMAIN memory' /\ memory'[m] = memory[m]
      BY <1>6
    <3>3. \A i \in DOMAIN shm.allocs : i \in DOMAIN shm'.allocs /\ shm'.allocs[i] = shm.allocs[i]
      BY <1>12
    <3>4. Types /\ size' = size /\ Done(s, 1)
      BY <1>1, <2>1 DEF IInv, Rest
    <3> QED
      BY <3>1, <3>2, <3>3, <3>4, TagsStay
  <2>3. Sees(s, First) => Sees(s, First)'
    BY <1>8, <1>10, Names DEF Sees
  <2> QED
    BY <1>1, <2>1, <2>2, <2>3 DEF Rest, At
<1>17. (\A k \in DOMAIN cs : Link(k))'
  <2> SUFFICES ASSUME NEW k \in DOMAIN cs PROVE Link(k)'
    BY <1>1
  <2>1. PICK s \in Sub : s = cs[k] /\ s = cs'[k]
    BY <1>1, Element DEF IInv, Types
  <2>2. Rest(s, "first")' /\ ~(k < owner'.i)
    <3>1. DOMAIN cs = 1 .. Cardinality(Sub)
      BY <1>1, AllConnected
    <3> QED
      BY <1>13, <1>16, <3>1
  <2> QED
    BY <1>13, <2>1, <2>2 DEF Link
<1>18. /\ owner.pc \in {"grow", "copy", "swap"} /\ owner'.pc \in {"add", "swap", "remap"}
       /\ UNCHANGED <<chan, acks, cs, waiting, pc, size, deaths>>
  BY <1>1, <1>13
<1> QED
  BY <1>6, <1>10, <1>11, <1>12, <1>13, <1>14, <1>15, <1>17, <1>18, OwnerWorks

(* Chunk 0 is copied, with the tags that are in it.                        *)
LEMMA CopyOutKeeps == IInv /\ CopyOut => IInv'
<1> SUFFICES ASSUME IInv, CopyOut PROVE IInv'
  OBVIOUS
<1>1. PICK e : e = [loc |-> IF owner.phase = 1 THEN "Host" ELSE "Device",
                    data |-> memory[maps[Owner][0]].data]
  OBVIOUS
<1>2. /\ owner.pc = "copy" /\ ~OwnerEnded /\ memory' = Append(memory, e)
      /\ owner' = [owner EXCEPT !.pc = "swap"] /\ UNCHANGED <<shm, maps, fds>>
      /\ UNCHANGED <<chan, acks, cs, waiting, pc, size, deaths>>
  BY <1>1 DEF CopyOut, links, OwnerEnded, Ended
<1>3. Alive
  BY <1>2 DEF IInv
<1>4. /\ owner.phase \in {1, 2} /\ owner.i = 1 /\ shm.total = size * (NChunk + 1)
      /\ maps[Owner][NChunk] = NChunk + 1
      /\ \A c \in Chunk : maps[Owner][c] # 0
      /\ \A c, d \in Chunk : c # d => maps[Owner][c] # maps[Owner][d]
  BY <1>2, <1>3 DEF Alive, Mapping, Late, Rounds
<1>5. Len(memory) \in Nat /\ DOMAIN memory = 1 .. Len(memory)
  BY DEF IInv, Types
<1>6. \A c \in Chunk : maps[Owner][c] \in DOMAIN memory
  BY <1>4, <1>5, Names DEF IInv, Types
<1>7. /\ memory' \in Seq([loc : {"Device", "Host"}, data : Contents])
      /\ Len(memory') = Len(memory) + 1 /\ DOMAIN memory' = DOMAIN memory \cup {Len(memory) + 1}
      /\ \A m \in DOMAIN memory : memory'[m] = memory[m]
      /\ memory'[Len(memory) + 1] = e
  <2> DEFINE B == [loc : {"Device", "Host"}, data : Contents]
  <2>1. memory \in Seq(B)
    BY DEF IInv, Types
  <2>2. memory[maps[Owner][0]] \in B
    <3> HIDE DEF B
    <3> QED
      BY <1>6, <2>1, Names, Element
  <2>3. e \in B
    <3>1. PICK x \in Contents : x = memory[maps[Owner][0]].data
      BY <2>2
    <3>2. PICK y \in {"Device", "Host"} : y = IF owner.phase = 1 THEN "Host" ELSE "Device"
      OBVIOUS
    <3> QED
      BY <1>1, <3>1, <3>2
  <2> HIDE DEF B
  <2>4. /\ memory' \in Seq(B) /\ Len(memory') = Len(memory) + 1
        /\ DOMAIN memory' = DOMAIN memory \cup {Len(memory) + 1}
        /\ \A m \in DOMAIN memory : memory'[m] = memory[m]
        /\ memory'[Len(memory) + 1] = e
    BY <1>2, <2>1, <2>3, Appended
  <2> QED
    BY <2>4 DEF B
<1>8. maps' \in [Process -> [Chunk -> 0 .. Len(memory')]]
  <2>1. 0 .. Len(memory) \subseteq 0 .. Len(memory')
    BY <1>5, <1>7
  <2> QED
    BY <1>2, <2>1 DEF IInv, Types
<1>9. fds' \in [Process -> SUBSET DOMAIN memory']
  BY <1>2, <1>7 DEF IInv, Types
<1>10. /\ owner' \in [pc : OwnerPc, i : 1 .. Cardinality(Sub), phase : 1 .. 3]
       /\ owner'.pc = "swap" /\ owner'.phase = owner.phase /\ owner'.i = 1
  BY <1>2, <1>4 DEF IInv, Types, OwnerPc, Late
<1>11. Offsets'
  BY <1>2 DEF IInv, Offsets, Tag
<1>12. Mapping'
  <2>1. ASSUME NEW c \in Chunk PROVE maps[Owner][c] # Len(memory')
    <3>1. maps[Owner][c] \in 1 .. Len(memory)
      BY <1>5, <1>6
    <3> QED
      BY <1>5, <1>7, <3>1
  <2>2. memory'[Len(memory')].data = memory'[maps[Owner][0]].data
    BY <1>1, <1>6, <1>7, Names
  <2>3. maps' = maps /\ shm' = shm /\ size' = size
    BY <1>2
  <2> QED
    BY <1>4, <1>10, <2>1, <2>2, <2>3 DEF Mapping, Early, Late, Rounds
<1>13. ASSUME NEW s \in Sub PROVE Rest(s, "revoked")'
  <2>1. Rest(s, "revoked") /\ Types
    BY <1>2, AllRest DEF IInv
  <2>2. \A c \in Chunk : maps[Owner][c] # 0 => maps'[Owner][c] = maps[Owner][c]
    BY <1>2
  <2>3. \A m \in DOMAIN memory : m \in DOMAIN memory' /\ memory'[m] = memory[m]
    BY <1>7
  <2>4. \A i \in DOMAIN shm.allocs : i \in DOMAIN shm'.allocs /\ shm'.allocs[i] = shm.allocs[i]
    BY <1>2
  <2>5. (Done(s, 1) => Done(s, 1)') /\ (Done(s, 2) => Done(s, 2)')
    BY <1>2, <2>1, <2>2, <2>3, <2>4, TagsStay
  <2> QED
    BY <1>2, <2>1, <2>5 DEF Rest, At, Sees
<1>14. (\A k \in DOMAIN cs : Link(k))'
  <2> SUFFICES ASSUME NEW k \in DOMAIN cs PROVE Link(k)'
    BY <1>2
  <2>1. PICK s \in Sub : s = cs[k] /\ s = cs'[k]
    BY <1>2, Element DEF IInv, Types
  <2> QED
    BY <1>10, <1>13, <2>1 DEF Link
<1>15. /\ owner.pc \in {"grow", "copy", "swap"} /\ owner'.pc \in {"add", "swap", "remap"}
       /\ shm'.allocs = shm.allocs /\ \A s \in Sub : maps'[s] = maps[s]
       /\ shm' \in [lock : Process \cup {Nil}, bump : Nat, total : Nat,
                    allocs : Seq([off : Nat, sub : Sub, pass : {1, 2}])]
       /\ UNCHANGED <<chan, acks, cs, waiting, pc, size, deaths>>
  BY <1>2, <1>10 DEF IInv, Types
<1> QED
  BY <1>7, <1>8, <1>9, <1>10, <1>11, <1>12, <1>14, <1>15, OwnerWorks

(* The copy takes the place of chunk 0.                                    *)
LEMMA SwapInKeeps == IInv /\ SwapIn => IInv'
<1> SUFFICES ASSUME IInv, SwapIn PROVE IInv'
  OBVIOUS
<1>1. PICK n : n = Len(memory)
  OBVIOUS
<1>2. PICK mine : mine = [maps[Owner] EXCEPT ![0] = n]
  OBVIOUS
<1>3. /\ owner.pc = "swap" /\ ~OwnerEnded
      /\ maps' = [maps EXCEPT ![Owner] = mine]
      /\ fds' = [fds EXCEPT ![Owner] = @ \cup {n}]
      /\ owner' = [owner EXCEPT !.pc = "remap", !.phase = owner.phase + 1]
      /\ UNCHANGED <<memory, shm>>
      /\ UNCHANGED <<chan, acks, cs, waiting, pc, size, deaths>>
  BY <1>1, <1>2 DEF SwapIn, links, OwnerEnded, Ended
<1>4. Alive
  BY <1>3 DEF IInv
<1>5. /\ owner.phase \in {1, 2} /\ owner.i = 1 /\ shm.total = size * (NChunk + 1)
      /\ maps[Owner][NChunk] = NChunk + 1
      /\ \A c \in Chunk : maps[Owner][c] # 0 /\ maps[Owner][c] # n
      /\ \A c, d \in Chunk : c # d => maps[Owner][c] # maps[Owner][d]
      /\ memory[n].data = memory[maps[Owner][0]].data
  BY <1>1, <1>3, <1>4 DEF Alive, Mapping, Late, Rounds
<1>6. n \in DOMAIN memory /\ n \in 0 .. Len(memory) /\ n # 0
  <2>1. maps[Owner][0] \in 0 .. Len(memory) /\ maps[Owner][0] # 0 /\ Len(memory) \in Nat
    BY <1>5, Names DEF IInv, Types
  <2> QED
    BY <1>1, <2>1 DEF IInv, Types
<1>7. /\ mine \in [Chunk -> 0 .. Len(memory)] /\ mine[0] = n
      /\ \A c \in Chunk \ {0} : mine[c] = maps[Owner][c]
  BY <1>2, <1>6, Names DEF IInv, Types
<1>8. /\ maps' \in [Process -> [Chunk -> 0 .. Len(memory')]] /\ maps'[Owner] = mine
      /\ \A s \in Sub : maps'[s] = maps[s]
  BY <1>3, <1>7, Names DEF IInv, Types
<1>9. fds' \in [Process -> SUBSET DOMAIN memory']
  BY <1>3, <1>6, Names DEF IInv, Types
<1>10. /\ owner' \in [pc : OwnerPc, i : 1 .. Cardinality(Sub), phase : 1 .. 3]
       /\ owner'.pc = "remap" /\ owner'.phase \in {2, 3} /\ owner'.i = 1
  <2>1. PICK p \in {2, 3} : p = owner.phase + 1
    BY <1>5
  <2>2. owner' = [pc |-> "remap", i |-> 1, phase |-> p]
    BY <1>3, <1>5, <2>1 DEF IInv, Types
  <2>3. 1 \in 1 .. Cardinality(Sub)
    BY <1>5 DEF IInv, Types
  <2>4. p \in 1 .. 3
    BY <2>1
  <2> QED
    BY <2>1, <2>2, <2>3, <2>4 DEF OwnerPc, Late
<1>11. Offsets'
  BY <1>3 DEF IInv, Offsets, Tag
<1>12. Mapping'
  <2>1. maps'[Owner] = mine /\ shm' = shm /\ size' = size /\ memory' = memory
    BY <1>3, <1>8
  <2>2. mine[NChunk] = NChunk + 1
    BY <1>5, <1>7, Names
  <2>3. \A c \in Chunk : mine[c] # 0
    BY <1>5, <1>6, <1>7
  <2>4. \A c, d \in Chunk : c # d => mine[c] # mine[d]
    BY <1>5, <1>7
  <2>5. mine[0] = Len(memory)
    BY <1>1, <1>7
  <2> QED
    BY <1>5, <1>10, <2>1, <2>2, <2>3, <2>4, <2>5 DEF Mapping, Early, Late, Rounds
<1>13. ASSUME NEW i \in DOMAIN shm.allocs, Written(i) PROVE Written(i)'
  <2>1. PICK a : a = shm.allocs[i]
    OBVIOUS
  <2>2. PICK c : c = a.off \div size
    OBVIOUS
  <2>3. c \in Chunk /\ memory[maps[Owner][c]].data[a.off % size] = Tag(a)
    BY <1>13, <2>1, <2>2 DEF Written
  <2>4. mine[c] # 0 /\ memory[mine[c]].data[a.off % size] = Tag(a)
    BY <1>5, <1>6, <1>7, <2>3
  <2> QED
    BY <1>3, <1>8, <2>1, <2>2, <2>3, <2>4 DEF Written, Tag
<1>14. ASSUME NEW s \in Sub PROVE Rest(s, "revoked")'
  <2>1. Rest(s, "revoked")
    BY <1>3, AllRest
  <2>2. (Done(s, 1) => Done(s, 1)') /\ (Done(s, 2) => Done(s, 2)')
    BY <1>3, <1>13 DEF Done, Tag
  <2>3. Sees(s, Chunk \ {0}) => Sees(s, Chunk \ {0})'
    BY <1>7, <1>8 DEF Sees
  <2> QED
    BY <1>3, <2>1, <2>2, <2>3 DEF Rest, At
<1>15. (\A k \in DOMAIN cs : Link(k))'
  <2> SUFFICES ASSUME NEW k \in DOMAIN cs PROVE Link(k)'
    BY <1>3
  <2>1. PICK s \in Sub : s = cs[k] /\ s = cs'[k]
    BY <1>3, Element DEF IInv, Types
  <2>2. Rest(s, "revoked")' /\ ~(k < owner'.i)
    <3>1. DOMAIN cs = 1 .. Cardinality(Sub)
      BY <1>3, AllConnected
    <3> QED
      BY <1>10, <1>14, <3>1
  <2> QED
    BY <1>10, <2>1, <2>2 DEF Link
<1>16. /\ owner.pc \in {"grow", "copy", "swap"} /\ owner'.pc \in {"add", "swap", "remap"}
       /\ memory' \in Seq([loc : {"Device", "Host"}, data : Contents])
       /\ shm'.allocs = shm.allocs
       /\ shm' \in [lock : Process \cup {Nil}, bump : Nat, total : Nat,
                    allocs : Seq([off : Nat, sub : Sub, pass : {1, 2}])]
       /\ UNCHANGED <<chan, acks, cs, waiting, pc, size, deaths>>
  BY <1>3, <1>10 DEF IInv, Types
<1> QED
  BY <1>8, <1>9, <1>10, <1>11, <1>12, <1>15, <1>16, OwnerWorks

-----------------------------------------------------------------------------
(* The owner's rounds.                                                     *)

(* In round p, whose turn is still to come, and whose turn is over.        *)
Due(p, s) ==
    /\ p = "pass1" => AskedHeader(s)
    /\ p = "add" => Rest(s, "first")
    /\ p = "pass2" => AskedAdd(s)
    /\ p \in {"revoke", "go"} => Rest(s, "all")
    /\ p = "revoked" => AskedRevoke(s)
    /\ p = "remap" => Rest(s, "revoked")
    /\ p = "remapped" => AskedRemap(s)
Over(p, s) ==
    /\ p = "pass1" => Rest(s, "first")
    /\ p = "add" => AskedAdd(s)
    /\ p \in {"pass2", "remapped"} => Rest(s, "all")
    /\ p = "revoke" => AskedRevoke(s)
    /\ p = "revoked" => Rest(s, "revoked")
    /\ p = "remap" => AskedRemap(s)
    /\ p = "go" => AskedGo(s)

(* What comes after round p.                                               *)
Follows(p, next) ==
    \/ p = "pass1" /\ next = "grow"
    \/ p = "add" /\ next = "pass2"
    \/ p = "pass2" /\ next = "revoke"
    \/ p = "revoke" /\ next = "revoked"
    \/ p = "revoked" /\ next = "copy"
    \/ p = "remap" /\ next = "remapped"
    \/ p = "remapped" /\ next = (IF owner.phase = 2 THEN "revoke" ELSE "go")
    \/ p = "go" /\ next = "verify"

(* The turns of a round.                                                   *)
LEMMA Turns ==
    ASSUME NEW p \in Rounds, owner.pc = p, NEW k
    PROVE  Link(k) <=> IF k < owner.i THEN Over(p, cs[k]) ELSE Due(p, cs[k])
<1>1. PICK s : s = cs[k]
  OBVIOUS
<1> QED
  BY <1>1 DEF Link, Over, Due, Rounds

(* The next round begins where the last one ends.                          *)
LEMMA NextRound ==
    ASSUME NEW p \in Rounds, NEW next, Follows(p, next), NEW s, Over(p, s),
           NEW k, s = cs[k], owner.pc = next, ~(k < owner.i)
    PROVE  Link(k)
  BY DEF Link, Over, Follows

(* A subscriber stays in its turn as long as it keeps its place.           *)
LEMMA TurnKept ==
    ASSUME NEW p, NEW s, Keeps(s)
    PROVE  (Over(p, s) => Over(p, s)') /\ (Due(p, s) => Due(p, s)')
  BY DEF Keeps, Over, Due

(* One turn: that of s is over after it, and nobody else takes part.       *)
LEMMA Turn ==
    ASSUME IInv, NEW p \in Rounds, owner.pc = p, NEW next \in OwnerPc, Follows(p, next),
           NEW s \in Sub, s = cs[owner.i],
           Calm, UNCHANGED <<cs, waiting, pc, maps, deaths>>,
           owner' = IF owner.i < Len(cs) THEN [owner EXCEPT !.i = @ + 1]
                    ELSE [owner EXCEPT !.i = 1, !.pc = next],
           DOMAIN chan' = Sub, acks' \in [Sub -> Nat], fds' \in [Process -> SUBSET DOMAIN memory],
           \A t \in Sub \ {s} : Same(t),
           Over(p, s)', Post(s)', ~Given(s, Header)', Given(s, AddChunk)' => p = "add",
           Ready'
    PROVE  IInv'
<1>1. ~OwnerEnded /\ owner.pc \notin {"start", "bind", "accept"}
  BY DEF Rounds, OwnerEnded, Ended
<1>2. Alive /\ Types
  BY <1>1 DEF IInv
<1>3. /\ ToSet(cs) = Sub /\ DOMAIN cs = 1 .. Cardinality(Sub) /\ Len(cs) = Cardinality(Sub)
      /\ owner.i \in DOMAIN cs
  BY <1>1, AllConnected
<1>4. /\ owner' \in [pc : OwnerPc, i : 1 .. Cardinality(Sub), phase : 1 .. 3]
      /\ owner'.phase = owner.phase
      /\ \/ /\ owner.i < Len(cs) /\ owner'.pc = p /\ owner'.i = owner.i + 1
         \/ /\ owner.i = Len(cs) /\ owner'.pc = next /\ owner'.i = 1
  <2>1. owner.i \in 1 .. Cardinality(Sub) /\ Cardinality(Sub) \in Nat
    BY <1>3, RemapAssumption, FS_CardinalityType
  <2>2. CASE owner.i < Len(cs)
    <3>1. PICK i \in 1 .. Cardinality(Sub) : i = owner.i + 1
      BY <1>3, <2>1, <2>2
    <3>2. owner' = [pc |-> p, i |-> i, phase |-> owner.phase]
      BY <1>2, <2>2, <3>1 DEF Types
    <3>3. p \in OwnerPc /\ owner.phase \in 1 .. 3
      BY <1>2 DEF Types
    <3> QED
      BY <2>2, <3>1, <3>2, <3>3
  <2>3. CASE ~(owner.i < Len(cs))
    <3>1. owner.i = Len(cs)
      BY <1>3, <2>1, <2>3
    <3>2. PICK i \in 1 .. Cardinality(Sub) : i = 1
      BY <2>1
    <3>3. owner' = [pc |-> next, i |-> i, phase |-> owner.phase]
      BY <1>2, <2>3, <3>2 DEF Types
    <3>4. owner.phase \in 1 .. 3
      BY <1>2 DEF Types
    <3>5. owner' \in [pc : OwnerPc, i : 1 .. Cardinality(Sub), phase : 1 .. 3]
      <4>1. \A j \in 1 .. Cardinality(Sub), f \in 1 .. 3 :
               [pc |-> next, i |-> j, phase |-> f]
                 \in [pc : OwnerPc, i : 1 .. Cardinality(Sub), phase : 1 .. 3]
        OBVIOUS
      <4>2. [pc |-> next, i |-> i, phase |-> owner.phase]
                 \in [pc : OwnerPc, i : 1 .. Cardinality(Sub), phase : 1 .. 3]
        BY <3>4, <4>1
      <4> HIDE <4>1
      <4> QED
        BY <3>3, <4>2
    <3> QED
      BY <3>1, <3>2, <3>3, <3>5
  <2> QED
    BY <2>2, <2>3
<1>5. \A t \in Sub : t # s => Keeps(t)
  <2>1. \A t \in Sub : (Done(t, 1) => Done(t, 1)') /\ (Done(t, 2) => Done(t, 2)')
    BY <1>2, CalmTags
  <2> QED
    BY <2>1, SameKeeps
<1>6. \A j, k \in DOMAIN cs : j # k => cs[j] # cs[k]
  BY <1>2 DEF Alive, Connected
<1>7. ASSUME NEW k \in DOMAIN cs, k # owner.i
      PROVE  IF k < owner.i THEN Over(p, cs[k])' ELSE Due(p, cs[k])'
  <2>1. PICK t \in Sub : t = cs[k] /\ t = cs'[k]
    BY <1>2, Element DEF Types
  <2>2. t # s
    BY <1>3, <1>6, <1>7, <2>1
  <2>3. IF k < owner.i THEN Over(p, t) ELSE Due(p, t)
    BY <1>2, <2>1, Turns DEF Alive
  <2>4. IF k < owner.i THEN Over(p, t)' ELSE Due(p, t)'
    BY <1>5, <2>2, <2>3, TurnKept
  <2>5. (Over(p, t)' <=> Over(p, cs[k])') /\ (Due(p, t)' <=> Due(p, cs[k])')
    BY <2>1
  <2> QED
    BY <2>4, <2>5
<1>8. ASSUME NEW k \in DOMAIN cs PROVE Link(k)'
  <2>1. PICK t \in Sub : t = cs[k] /\ t = cs'[k]
    BY <1>2, Element DEF Types
  <2>2. k \in Nat /\ owner.i \in Nat /\ k <= Len(cs)
    BY <1>3, RemapAssumption, FS_CardinalityType
  <2>3. k < owner.i + 1 => Over(p, t)'
    <3>1. CASE k = owner.i
      BY <2>1, <3>1
    <3>2. CASE k # owner.i
      BY <1>7, <2>1, <2>2, <3>2
    <3> QED
      BY <3>1, <3>2
  <2>4. ~(k < owner.i + 1) => Due(p, t)'
    BY <1>7, <2>1, <2>2
  <2>5. CASE owner'.pc = p /\ owner'.i = owner.i + 1
    <3>1. IF k < owner'.i THEN Over(p, t)' ELSE Due(p, t)'
      BY <2>3, <2>4, <2>5
    <3> QED
      BY <2>1, <2>5, <3>1 DEF Link, Over, Due, Rounds
  <2>6. CASE owner.i = Len(cs) /\ owner'.pc = next /\ owner'.i = 1
    <3>1. Over(p, t)' /\ ~(k < 1)
      BY <1>3, <2>2, <2>3, <2>6
    <3>2. Follows(p, next)'
      BY <1>4 DEF Follows
    <3> QED
      BY <2>1, <2>6, <3>1, <3>2, NextRound DEF Link, Over, Follows
  <2> QED
    BY <1>4, <2>5, <2>6
<1>9. Mapping'
  <2>1. Mapping
    BY <1>2 DEF Alive
  <2>2. owner'.pc \notin Rounds => owner'.i = 1
    BY <1>4
  <2>3. CASE owner'.pc = p
    BY <1>4, <2>1, <2>2, <2>3 DEF Mapping, Calm, Rounds, Early, Late
  <2>4. CASE owner'.pc = next
    BY <1>4, <2>1, <2>2, <2>4 DEF Mapping, Calm, Rounds, Early, Late, Follows
  <2> QED
    BY <1>4, <2>3, <2>4
<1>10. Connected'
  <2>1. owner'.pc \notin {"start", "bind", "accept"}
    BY <1>1, <1>4 DEF Follows
  <2> QED
    BY <1>2, <1>3, <2>1 DEF Alive, Connected
<1>11. Alive'
  BY <1>8, <1>9, <1>10 DEF Alive
<1>12. \A t \in Sub : Post(t)'
  BY <1>2, SamePlaceKept DEF Types
<1>13. /\ \A t \in Sub : Given(t, Header)' => Given(t, Header)
       /\ \A t \in Sub : Given(t, AddChunk)' => Given(t, AddChunk) \/ p = "add"
  BY DEF Given, Same
<1>14. p = "add" => shm.total = size * (NChunk + 1)
  BY <1>2 DEF Alive, Mapping, Late
<1>15. cs' \in Seq(Sub) /\ waiting' \subseteq Sub
  BY <1>2 DEF Types
<1> QED
  BY <1>4, <1>11, <1>12, <1>13, <1>14, <1>15, OwnerCalm

(* When every subscriber has been through both passes, every tag is there  *)
(* in the owner's memory, which is that of whoever sees all of it.         *)
LEMMA AllTagged ==
    ASSUME IInv, owner.pc \in {"go", "verify", "verifying"}
    PROVE  /\ Quiet /\ Everyone /\ Intact(Owner)
           /\ \A s \in Sub : Sees(s, Chunk) => Intact(s)
<1>1. ~OwnerEnded
  BY DEF OwnerEnded, Ended
<1>2. ASSUME NEW s \in Sub PROVE Rest(s, "all") \/ AskedGo(s)
  <2>1. PICK k \in DOMAIN cs : cs[k] = s
    BY <1>1, AllConnected DEF ToSet
  <2>2. Link(k)
    BY <1>1 DEF IInv, Alive
  <2> QED
    BY <2>1, <2>2 DEF Link
<1>3. \A s \in Sub : Done(s, 1) /\ Done(s, 2)
  BY <1>2 DEF Rest, AskedGo
<1>4. Quiet
  BY <1>2 DEF Quiet, Rest, AskedGo, At
<1>5. Everyone
  BY <1>3 DEF Everyone, Done, Has
<1>6. ASSUME NEW i \in DOMAIN shm.allocs PROVE Written(i)
  <2>1. shm.allocs[i].sub \in Sub /\ shm.allocs[i].pass \in {1, 2}
    <3> DEFINE S == [off : Nat, sub : Sub, pass : {1, 2}]
    <3>1. shm.allocs \in Seq(S)
      BY DEF IInv, Types
    <3> HIDE DEF S
    <3>2. shm.allocs[i] \in S
      BY <3>1, Element
    <3> QED
      BY <3>2 DEF S
  <2>2. PICK j \in DOMAIN shm.allocs : Tag(shm.allocs[j]) = Tag(shm.allocs[i]) /\ Written(j)
    BY <1>3, <2>1 DEF Done, Tag
  <2>3. j = i
    BY <2>2 DEF IInv, Offsets
  <2> QED
    BY <2>2, <2>3
<1>7. Intact(Owner)
  BY <1>6 DEF Intact, Written
<1>8. ASSUME NEW s \in Sub, Sees(s, Chunk) PROVE Intact(s)
  BY <1>7, <1>8 DEF Intact, Sees
<1> QED
  BY <1>4, <1>5, <1>7, <1>8

(* The owner's messages, one subscriber at a time.                         *)
LEMMA BroadcastKeeps ==
    ASSUME IInv, NEW p \in Rounds, owner.pc = p, NEW next \in OwnerPc, Follows(p, next),
           NEW m, Broadcast(m, next),
           \/ p = "add" /\ m = AddChunk
           \/ p = "revoke" /\ m = Revoke
           \/ p = "remap" /\ m = Remap(maps[Owner][0])
           \/ p = "go" /\ m = Go
    PROVE  IInv'
<1>1. CASE OwnerDies
  BY <1>1, OwnerDiesKeeps
<1>2. SUFFICES ASSUME ~OwnerDies PROVE IInv'
  BY <1>1
<1>3. ~OwnerEnded /\ owner.pc \notin {"start", "bind", "accept"}
  BY DEF Rounds, OwnerEnded, Ended
<1>4. Alive /\ Types
  BY <1>3 DEF IInv
<1>5. PICK s : s = cs[owner.i]
  OBVIOUS
<1>6. s \in Sub
  BY <1>3, <1>4, <1>5, AllConnected, Element DEF Types
<1>7. /\ pc[s] \notin Ended
      /\ chan' = [chan EXCEPT ![s] = Append(@, m)]
      /\ owner' = IF owner.i < Len(cs) THEN [owner EXCEPT !.i = @ + 1]
                  ELSE [owner EXCEPT !.i = 1, !.pc = next]
      /\ fds' = fds \/ fds' = [fds EXCEPT ![Owner] = @ \ m.fds]
      /\ UNCHANGED <<memory, shm, acks, cs, waiting, pc, maps, size, deaths>>
  BY <1>2, <1>5 DEF Broadcast
<1>8. Due(p, s)
  <2>1. Link(owner.i) /\ ~(owner.i < owner.i)
    BY <1>3, <1>4, AllConnected, RemapAssumption, FS_CardinalityType DEF Alive
  <2> QED
    BY <1>5, <2>1, Turns
<1>9. chan[s] = <<>> /\ acks[s] = 0
  BY <1>8 DEF Due, Rest
<1>10. /\ chan'[s] = <<m>> /\ DOMAIN chan' = Sub /\ \A t \in Sub \ {s} : chan'[t] = chan[t]
  <2>1. chan' = [chan EXCEPT ![s] = <<m>>]
    BY <1>7, <1>9, One
  <2> QED
    BY <1>4, <1>6, <2>1 DEF Types
<1>11. Calm
  BY <1>4, <1>7 DEF Calm, Types
<1>12. /\ acks' \in [Sub -> Nat] /\ fds' \in [Process -> SUBSET DOMAIN memory]
       /\ \A t \in Sub \ {s} : Same(t)
  <2>1. acks' \in [Sub -> Nat] /\ \A t \in Sub \ {s} : Same(t)
    BY <1>4, <1>7, <1>10 DEF Types, Same
  <2>2. fds' \in [Process -> SUBSET DOMAIN memory]
    <3>1. PICK x : x = fds[Owner] \ m.fds
      OBVIOUS
    <3>2. fds \in [Process -> SUBSET DOMAIN memory] /\ x \in SUBSET DOMAIN memory
      BY <1>4, <3>1, Names DEF Types
    <3>3. fds' = fds \/ fds' = [fds EXCEPT ![Owner] = x]
      BY <1>7, <3>1
    <3> QED
      BY <3>2, <3>3
  <2> QED
    BY <2>1, <2>2
<1>13. \A x : m = x => (Sent(s, x)' /\ Given(s, x)')
  BY <1>7, <1>9, <1>10 DEF Sent, Given
<1>14. (Done(s, 1) => Done(s, 1)') /\ (Done(s, 2) => Done(s, 2)')
  BY <1>4, <1>6, <1>7, <1>11, CalmTags
<1>15. \A q, C : At(s, q, C) => At(s, q, C)'
  BY <1>7 DEF At, Sees
<1>16. Over(p, s)'
  <2>1. CASE p = "add" /\ m = AddChunk
    BY <1>8, <1>13, <1>14, <1>15, <2>1 DEF Due, Over, Rest, AskedAdd
  <2>2. CASE p = "revoke" /\ m = Revoke
    BY <1>8, <1>13, <1>14, <1>15, <2>2 DEF Due, Over, Rest, AskedRevoke
  <2>3. CASE p = "remap" /\ m = Remap(maps[Owner][0])
    <3>1. Sent(s, Remap(maps[Owner][0]))'
      BY <1>7, <1>13, <2>3
    <3> QED
      BY <1>8, <1>14, <1>15, <2>3, <3>1 DEF Due, Over, Rest, AskedRemap
  <2>4. CASE p = "go" /\ m = Go
    BY <1>8, <1>13, <1>14, <1>15, <2>4 DEF Due, Over, Rest, AskedGo
  <2> QED
    BY <2>1, <2>2, <2>3, <2>4
<1>17. Post(s)'
  <2>1. CASE p = "add" /\ m = AddChunk
    <3>1. maps[Owner][NChunk] = NChunk + 1 /\ maps[Owner][NChunk] \in 0 .. Len(memory)
      BY <1>4, <2>1, Names DEF Alive, Mapping, Late, Types
    <3>2. NChunk + 1 <= Len(memory')
      BY <1>4, <1>7, <3>1 DEF Types
    <3> QED
      BY <1>10, <2>1, <3>2 DEF Post
  <2>2. CASE p = "remap" /\ m = Remap(maps[Owner][0])
    <3>1. maps[Owner][0] \in 0 .. Len(memory) /\ maps[Owner][0] # 0
      BY <1>4, <2>2, Names DEF Alive, Mapping, Late, Types
    <3>2. maps[Owner][0] \in DOMAIN memory'
      BY <1>4, <1>7, <3>1 DEF Types
    <3> QED
      BY <1>10, <2>2, <3>2 DEF Post
  <2> QED
    BY <1>10, <2>1, <2>2 DEF Post
<1>18. ~Given(s, Header)' /\ (Given(s, AddChunk)' => p = "add")
  <2>1. m # Header /\ (m = AddChunk => p = "add")
    BY Kinds
  <2> QED
    BY <1>10, <2>1, One DEF Given
<1>19. Ready'
  <2>1. CASE p # "go"
    <3>1. ~Quiet
      BY <2>1 DEF Quiet, Rounds, Ended
    <3>2. m # Go
      BY <2>1, Kinds
    <3>3. \A t \in Sub : Told(t)' => Told(t)
      BY <1>7, <1>10, <3>2, One DEF Told, Given
    <3> QED
      BY <3>1, <3>3, NobodyTold
  <2>2. CASE p = "go"
    <3>1. Quiet /\ Everyone /\ (Sees(s, Chunk) => Intact(s))
      BY <1>6, <2>2, AllTagged
    <3>2. Intact(s)
      <4>1. Sees(s, Chunk)
        BY <1>7, <1>8, <2>2 DEF Due, Rest, At
      <4> QED
        BY <3>1, <4>1
    <3>3. Everyone'
      BY <1>7, <3>1 DEF Everyone, Has, Tag
    <3>4. Quiet'
      <4>1. next = "verify"
        BY <2>2 DEF Follows
      <4>2. owner'.pc \in {"go", "verify"}
        BY <1>4, <1>7, <2>2, <4>1 DEF Types
      <4> QED
        BY <1>7, <3>1, <4>2 DEF Quiet
    <3>5. ASSUME NEW t \in Sub, Told(t)' PROVE Intact(t)
      <4>1. CASE t = s
        BY <3>2, <4>1
      <4>2. CASE t # s
        <5>1. Told(t)
          BY <1>7, <1>10, <3>5, <4>2 DEF Told, Given
        <5> QED
          BY <5>1 DEF IInv, Ready
      <4> QED
        BY <4>1, <4>2
    <3>6. \A t \in Sub : Intact(t) => Intact(t)'
      BY <1>7 DEF Intact, Tag
    <3> QED
      BY <3>3, <3>4, <3>5, <3>6 DEF Ready
  <2> QED
    BY <2>1, <2>2
<1>20. UNCHANGED <<cs, waiting, pc, maps, deaths>>
  BY <1>7
<1> QED
  BY <1>5, <1>6, <1>7, <1>10, <1>11, <1>12, <1>16, <1>17, <1>18, <1>19, <1>20, Turn

(* The acks, in the order of the connections.                              *)
LEMMA BarrierKeeps ==
    ASSUME IInv, NEW p \in {"pass1", "pass2", "revoked", "remapped"}, owner.pc = p,
           NEW next \in OwnerPc, Follows(p, next), Barrier(next)
    PROVE  IInv'
<1>1. CASE OwnerDies
  BY <1>1, OwnerDiesKeeps
<1>2. SUFFICES ASSUME ~OwnerDies PROVE IInv'
  BY <1>1
<1>3. ~OwnerEnded /\ owner.pc \notin {"start", "bind", "accept"} /\ p \in Rounds
  BY DEF Rounds, OwnerEnded, Ended
<1>4. Alive /\ Types
  BY <1>3 DEF IInv
<1>5. PICK s : s = cs[owner.i]
  OBVIOUS
<1>6. s \in Sub
  BY <1>3, <1>4, <1>5, AllConnected, Element DEF Types
<1>7. /\ acks[s] > 0 /\ acks' = [acks EXCEPT ![s] = @ - 1]
      /\ owner' = IF owner.i < Len(cs) THEN [owner EXCEPT !.i = @ + 1]
                  ELSE [owner EXCEPT !.i = 1, !.pc = next]
      /\ UNCHANGED <<memory, shm, chan, cs, waiting, pc, maps, fds, size, deaths>>
  BY <1>2, <1>5 DEF Barrier
<1>8. Due(p, s)
  <2>1. Link(owner.i) /\ ~(owner.i < owner.i)
    BY <1>3, <1>4, AllConnected, RemapAssumption, FS_CardinalityType DEF Alive
  <2> QED
    BY <1>3, <1>5, <2>1, Turns
<1>9. ~(acks[s] = 0)
  BY <1>7
<1>10. /\ Answered(s)
       /\ p = "pass1" => At(s, "add", First) /\ Done(s, 1)
       /\ p = "pass2" => At(s, "serve", Chunk) /\ Done(s, 1) /\ Done(s, 2)
       /\ p = "revoked" => At(s, "serve", Chunk \ {0}) /\ Done(s, 1) /\ Done(s, 2)
       /\ p = "remapped" => At(s, "serve", Chunk) /\ Done(s, 1) /\ Done(s, 2)
  BY <1>8, <1>9 DEF Due, AskedHeader, AskedAdd, AskedRevoke, AskedRemap, Sent, Working
<1>11. /\ acks'[s] = 0 /\ acks' \in [Sub -> Nat] /\ \A t \in Sub \ {s} : acks'[t] = acks[t]
  <2>1. acks[s] - 1 = 0
    BY <1>10 DEF Answered
  <2>2. acks' = [acks EXCEPT ![s] = 0]
    BY <1>7, <2>1
  <2> QED
    BY <1>4, <1>6, <2>2 DEF Types
<1>12. Calm /\ DOMAIN chan' = Sub /\ fds' \in [Process -> SUBSET DOMAIN memory]
  BY <1>4, <1>7 DEF Calm, Types
<1>13. \A t \in Sub \ {s} : Same(t)
  BY <1>7, <1>11 DEF Same
<1>14. (Done(s, 1) => Done(s, 1)') /\ (Done(s, 2) => Done(s, 2)')
  BY <1>4, <1>6, <1>7, <1>12, CalmTags
<1>15. \A q, C : At(s, q, C) => At(s, q, C)'
  BY <1>7 DEF At, Sees
<1>16. chan'[s] = <<>>
  BY <1>7, <1>10 DEF Answered
<1>17. Over(p, s)'
  BY <1>10, <1>11, <1>14, <1>15, <1>16 DEF Over, Rest
<1>18. Post(s)' /\ ~Given(s, Header)' /\ ~Given(s, AddChunk)'
  BY <1>16, One DEF Post, Given
<1>19. Ready'
  <2>1. ~Quiet
    BY DEF Quiet, Ended
  <2>2. \A t \in Sub : Told(t)' => Told(t)
    BY <1>7 DEF Told, Given
  <2> QED
    BY <2>1, <2>2, NobodyTold
<1>20. UNCHANGED <<cs, waiting, pc, maps, deaths>>
  BY <1>7
<1> QED
  BY <1>3, <1>5, <1>6, <1>7, <1>11, <1>12, <1>13, <1>17, <1>18, <1>19, <1>20, Turn

(* The owner takes the lock for the last check.                            *)
LEMMA OwnerLocksKeeps == IInv /\ OwnerLocks => IInv'
<1> SUFFICES ASSUME IInv, OwnerLocks PROVE IInv'
  OBVIOUS
<1>1. /\ owner.pc = "verify" /\ ~OwnerEnded /\ shm' = [shm EXCEPT !.lock = Owner]
      /\ owner' = [owner EXCEPT !.pc = "verifying"]
      /\ UNCHANGED <<memory, chan, acks, cs, waiting, pc, maps, fds, size, deaths>>
  BY DEF OwnerLocks, links, OwnerEnded, Ended
<1>2. Alive /\ Types
  BY <1>1 DEF IInv
<1>3. Calm
  BY <1>1, <1>2, Names DEF Calm, Types
<1>4. /\ owner' \in [pc : OwnerPc, i : 1 .. Cardinality(Sub), phase : 1 .. 3]
      /\ owner'.pc = "verifying" /\ owner'.i = owner.i /\ owner'.phase = owner.phase
  BY <1>1, <1>2 DEF Types, OwnerPc, Late
<1>5. \A s \in Sub : Same(s)
  BY <1>1 DEF Same
<1>6. \A s \in Sub : Keeps(s)
  <2>1. \A s \in Sub : (Done(s, 1) => Done(s, 1)') /\ (Done(s, 2) => Done(s, 2)')
    BY <1>1, <1>2, <1>3, CalmTags
  <2> QED
    BY <1>1, <1>5, <2>1, SameKeeps
<1>7. Ready'
  <2>1. Quiet => Quiet'
    BY <1>1, <1>4 DEF Quiet
  <2>2. \A s \in Sub : Told(s)' => Told(s) /\ maps'[s] = maps[s]
    BY <1>1 DEF Told, Given
  <2> QED
    BY <1>3, <2>1, <2>2, ReadyKept
<1>8. (\A k \in DOMAIN cs : Link(k))'
  <2> SUFFICES ASSUME NEW k \in DOMAIN cs PROVE Link(k)'
    BY <1>1
  <2>1. PICK s \in Sub : s = cs[k] /\ s = cs'[k]
    BY <1>1, <1>2, Element DEF Types
  <2>2. AskedGo(s)
    BY <1>1, <1>2, <2>1 DEF Alive, Link
  <2>3. AskedGo(s)'
    BY <1>6, <2>2 DEF Keeps
  <2> QED
    BY <1>4, <2>1, <2>3 DEF Link
<1>9. Mapping'
  BY <1>1, <1>2, <1>4 DEF Alive, Mapping, Early, Late, Rounds
<1>10. Connected'
  <2>1. Sub \ ToSet(cs) = {}
    BY <1>1, AllConnected
  <2> QED
    BY <1>1, <1>2, <1>4, <2>1 DEF Alive, Connected
<1>11. \A s \in Sub : Post(s)'
  BY <1>2, <1>3, <1>5, SamePlaceKept DEF Types
<1>12. \A s \in Sub : \A m : Given(s, m)' => Given(s, m)
  BY <1>1 DEF Given
<1>13. /\ DOMAIN chan' = Sub /\ acks' \in [Sub -> Nat] /\ cs' \in Seq(Sub) /\ waiting' \subseteq Sub
       /\ fds' \in [Process -> SUBSET DOMAIN memory] /\ UNCHANGED <<pc, maps, deaths>>
  BY <1>1, <1>2 DEF Types
<1>14. Alive'
  BY <1>8, <1>9, <1>10 DEF Alive
<1> QED
  BY <1>3, <1>4, <1>7, <1>11, <1>12, <1>13, <1>14, OwnerCalm

(* The owner's last check.                                                 *)
LEMMA OwnerVerifiesKeeps == IInv /\ OwnerVerifies => IInv'
<1> SUFFICES ASSUME IInv, OwnerVerifies PROVE IInv'
  OBVIOUS
<1>1. Calm /\ UNCHANGED <<links, pc>> /\ Exits(Owner) /\ deaths' \in Nat
  BY DEF OwnerVerifies, Calm, IInv, Types
<1>2. PICK p \in Ended : owner' = [owner EXCEPT !.pc = p]
  BY DEF OwnerVerifies, Ended
<1> QED
  BY <1>1, <1>2, OwnerEnds

(* Every step of the owner.                                                *)
LEMMA OwnerStepKeeps == IInv /\ OwnerStep => IInv'
<1> SUFFICES ASSUME IInv, OwnerStep PROVE IInv'
  OBVIOUS
<1>1. {"pass1", "add", "pass2", "revoke", "revoked", "remap", "remapped", "go"} \subseteq Rounds
      /\ {"grow", "pass2", "revoke", "revoked", "copy", "remapped", "go", "verify"} \subseteq OwnerPc
  BY DEF Rounds, OwnerPc, Early, Late
<1>2. CASE OwnerStart \/ Listen \/ Accept \/ Grow
  BY <1>2, OwnerStartKeeps, ListenKeeps, AcceptKeeps, GrowKeeps
<1>3. CASE CopyOut \/ SwapIn \/ OwnerLocks \/ OwnerVerifies
  BY <1>3, CopyOutKeeps, SwapInKeeps, OwnerLocksKeeps, OwnerVerifiesKeeps
<1>4. CASE owner.pc = "pass1" /\ Barrier("grow")
  BY <1>1, <1>4, BarrierKeeps DEF Follows
<1>5. CASE owner.pc = "add" /\ Broadcast(Message("ADD_CHUNK", NChunk, {NChunk + 1}), "pass2")
  <2>1. Broadcast(AddChunk, "pass2") /\ Follows("add", "pass2")
    BY <1>5 DEF AddChunk, Follows
  <2> QED
    BY <1>1, <1>5, <2>1, BroadcastKeeps
<1>6. CASE owner.pc = "pass2" /\ Barrier("revoke")
  BY <1>1, <1>6, BarrierKeeps DEF Follows
<1>7. CASE owner.pc = "revoke" /\ Broadcast(Message("REVOKE", 0, {}), "revoked")
  <2>1. Broadcast(Revoke, "revoked") /\ Follows("revoke", "revoked")
    BY <1>7 DEF Revoke, Follows
  <2> QED
    BY <1>1, <1>7, <2>1, BroadcastKeeps
<1>8. CASE owner.pc = "revoked" /\ Barrier("copy")
  BY <1>1, <1>8, BarrierKeeps DEF Follows
<1>9. CASE owner.pc = "remap" /\ Broadcast(Message("REMAP", 0, {Len(memory)}), "remapped")
  <2>1. maps[Owner][0] = Len(memory)
    BY <1>9 DEF IInv, Alive, Mapping, OwnerEnded, Ended
  <2>2. Broadcast(Remap(maps[Owner][0]), "remapped") /\ Follows("remap", "remapped")
    BY <1>9, <2>1 DEF Remap, Follows
  <2> QED
    BY <1>1, <1>9, <2>2, BroadcastKeeps
<1>10. CASE owner.pc = "remapped" /\ Barrier(IF owner.phase = 2 THEN "revoke" ELSE "go")
  <2>1. PICK next : next = IF owner.phase = 2 THEN "revoke" ELSE "go"
    OBVIOUS
  <2>2. next \in OwnerPc /\ Follows("remapped", next) /\ Barrier(next)
    BY <1>1, <1>10, <2>1 DEF Follows
  <2> QED
    BY <1>10, <2>2, BarrierKeeps
<1>11. CASE owner.pc = "go" /\ Broadcast(Message("GO", 0, {}), "verify")
  <2>1. Broadcast(Go, "verify") /\ Follows("go", "verify")
    BY <1>11 DEF Go, Follows
  <2> QED
    BY <1>1, <1>11, <2>1, BroadcastKeeps
<1> QED
  BY <1>2, <1>3, <1>4, <1>5, <1>6, <1>7, <1>8, <1>9, <1>10, <1>11 DEF OwnerStep

(* Any process may exit.                                                   *)
LEMMA DiesKeeps == IInv /\ Dies => IInv'
<1> SUFFICES ASSUME IInv, Dies PROVE IInv'
  OBVIOUS
<1>1. Calm /\ UNCHANGED links /\ deaths' \in Nat /\ "dead" \in Ended
  BY DEF Dies, Calm, IInv, Types, Ended
<1>2. CASE owner' = [owner EXCEPT !.pc = "dead"] /\ Exits(Owner) /\ UNCHANGED pc
  BY <1>1, <1>2, OwnerEnds
<1>3. ASSUME NEW s \in Sub, Goto(s, "dead"), Exits(s), UNCHANGED owner PROVE IInv'
  BY <1>1, <1>3, SubEnds DEF Goto
<1> QED
  BY <1>2, <1>3 DEF Dies

-----------------------------------------------------------------------------
(* The theorems.                                                           *)

(* In the beginning.                                                       *)
LEMMA InitInv == Init => IInv
<1> SUFFICES ASSUME Init PROVE IInv
  OBVIOUS
<1>1. owner.pc = "start" /\ ~OwnerEnded
  BY DEF Init, OwnerEnded, Ended
<1>2. Types
  <2>1. 1 \in 1 .. Cardinality(Sub)
    <3>1. Cardinality(Sub) \in Nat /\ Cardinality(Sub) # 0
      BY RemapAssumption, FS_CardinalityType, FS_EmptySet
    <3> QED
      BY <3>1
  <2>2. size \in ChunkSizes /\ memory \in Seq([loc : {"Device", "Host"}, data : Contents])
    BY DEF Init
  <2>3. maps \in [Process -> [Chunk -> 0 .. Len(memory)]] /\ fds \in [Process -> SUBSET DOMAIN memory]
    BY DEF Init
  <2>4. shm \in [lock : Process \cup {Nil}, bump : Nat, total : Nat,
                 allocs : Seq([off : Nat, sub : Sub, pass : {1, 2}])]
    BY DEF Init
  <2>5. owner \in [pc : OwnerPc, i : 1 .. Cardinality(Sub), phase : 1 .. 3]
    BY <2>1 DEF Init, OwnerPc
  <2> QED
    BY <2>2, <2>3, <2>4, <2>5 DEF Init, Types, Post, SubPc
<1>3. Offsets
  <2>1. /\ shm.bump = 0 /\ shm.total = 0 /\ shm.allocs = <<>>
        /\ size * (NChunk + 1) # 0
    BY <1>2, Multiples, RemapAssumption DEF Init, Types
  <2> QED
    BY <2>1 DEF Offsets
<1>4. \A s \in Sub : Before(s) /\ ~Told(s)
  BY DEF Init, Before, Told, Has, Ended
<1>5. Ready
  BY <1>4 DEF Ready
<1>6. Mapping
  BY <1>1, Names DEF Init, Mapping, Early, Late
<1>7. Connected /\ \A k \in DOMAIN cs : Link(k)
  <2>1. cs = <<>> /\ ToSet(cs) = {} /\ Len(cs) = 0 /\ waiting = {} /\ DOMAIN cs = {}
    BY DEF Init, ToSet
  <2>2. \A s \in Sub : Stranger(s)
    BY Names DEF Init, Stranger, Sees
  <2> QED
    BY <1>1, <2>1, <2>2, FS_EmptySet DEF Connected
<1> QED
  BY <1>2, <1>3, <1>4, <1>5, <1>6, <1>7 DEF IInv, Alive

(* A step that changes nothing.                                            *)
LEMMA NothingHappens == IInv /\ UNCHANGED vars => IInv'
<1> SUFFICES ASSUME IInv, UNCHANGED vars PROVE IInv'
  OBVIOUS
<1>1. /\ UNCHANGED <<memory, shm, chan, acks, owner, cs>>
      /\ UNCHANGED <<waiting, pc, maps, fds, size, deaths>>
  BY DEF vars
<1>2. Calm /\ \A s \in Sub : Same(s)
  BY <1>1 DEF Calm, Same, IInv, Types
<1>3. Types'
  <2>1. \A s \in Sub : Post(s)'
    BY <1>2, SamePlaceKept DEF IInv, Types
  <2>2. memory' \in Seq([loc : {"Device", "Host"}, data : Contents'])
    BY <1>1 DEF IInv, Types, Contents
  <2> QED
    BY <1>1, <2>1, <2>2 DEF IInv, Types
<1>4. Offsets' /\ \A s \in Sub : Before(s)'
  BY <1>2, CalmOffsets, SamePlaceKept DEF IInv
<1>5. Ready'
  <2>1. Quiet => Quiet'
    BY <1>1 DEF Quiet
  <2>2. \A s \in Sub : Told(s)' => Told(s) /\ maps'[s] = maps[s]
    BY <1>1 DEF Told, Given
  <2> QED
    BY <1>2, <2>1, <2>2, ReadyKept
<1>6. ASSUME ~OwnerEnded PROVE Alive'
  <2>1. \A s \in Sub : (Done(s, 1) => Done(s, 1)') /\ (Done(s, 2) => Done(s, 2)')
    BY <1>1, <1>2, CalmTags DEF IInv
  <2>2. \A s \in Sub : Keeps(s) /\ (Sees(s, {}) <=> Sees(s, {})')
    BY <1>1, <1>2, <2>1, SameKeeps
  <2>3. \A k \in DOMAIN cs : cs[k] \in Sub
    BY DEF IInv, Types
  <2>4. (\A k \in DOMAIN cs : Link(k))'
    BY <1>1, <1>6, <2>2, <2>3, LinksKept DEF IInv, Alive
  <2>5. Mapping'
    BY <1>1, <1>6 DEF IInv, Alive, Mapping
  <2>6. Connected'
    BY <1>1, <1>6, <2>2 DEF IInv, Alive, Connected, Stranger
  <2> QED
    BY <2>4, <2>5, <2>6 DEF Alive
<1> QED
  BY <1>1, <1>3, <1>4, <1>5, <1>6 DEF IInv, OwnerEnded

(* The segment, the protocol and the tags are as IInv says, always.        *)
THEOREM SegmentInvariant == Spec => []IInv
<1>1. IInv /\ [Next]_vars => IInv'
  <2> SUFFICES ASSUME IInv, [Next]_vars PROVE IInv'
    OBVIOUS
  <2> QED
    BY OwnerStepKeeps, SubStepKeeps, DiesKeeps, NothingHappens DEF Next
<1> QED
  BY InitInv, <1>1, PTL DEF Spec

(* TypeOK: every mapping and descriptor is of memory that exists.          *)
THEOREM Typed == Spec => []TypeOK
<1>1. IInv => TypeOK
  <2> SUFFICES ASSUME IInv PROVE TypeOK
    OBVIOUS
  <2>1. Types
    BY DEF IInv
  <2>2. \A m \in DOMAIN memory : memory[m].loc \in {"Device", "Host"}
    <3> DEFINE B == [loc : {"Device", "Host"}, data : Contents]
    <3>1. memory \in Seq(B)
      BY <2>1 DEF Types
    <3>2. \A m \in DOMAIN memory : memory[m] \in B
      <4> HIDE DEF B
      <4> QED
        BY <3>1, Element
    <3> QED
      BY <3>2
  <2>3. ToSet(shm.allocs) \subseteq [off : Nat, sub : Sub, pass : {1, 2}]
    <3> DEFINE S == [off : Nat, sub : Sub, pass : {1, 2}]
    <3>1. shm.allocs \in Seq(S)
      BY <2>1 DEF Types
    <3> HIDE DEF S
    <3>2. ToSet(shm.allocs) \subseteq S
      BY <3>1, Element DEF ToSet
    <3> QED
      BY <3>2 DEF S
  <2>4. ToSet(cs) \subseteq Sub
    BY <2>1 DEF Types, ToSet
  <2> QED
    BY <2>1, <2>2, <2>3, <2>4 DEF TypeOK, Types
<1> QED
  BY SegmentInvariant, <1>1, PTL

(* OwnerAlone: while the owner copies a chunk and swaps its memory, no     *)
(* subscriber has the chunk mapped.                                        *)
THEOREM OwnerAloneCorrect == Spec => []OwnerAlone
<1>1. IInv => OwnerAlone
  <2> SUFFICES ASSUME IInv, owner.pc \in {"copy", "swap"}, NEW s \in Sub PROVE maps[s][0] = 0
    BY DEF OwnerAlone
  <2>1. Rest(s, "revoked")
    BY AllRest
  <2>2. CASE pc[s] \in Ended
    BY <2>2, Names DEF IInv, Before
  <2>3. CASE pc[s] \notin Ended
    BY <2>1, <2>3, Names DEF Rest, At, Sees
  <2> QED
    BY <2>2, <2>3
<1> QED
  BY SegmentInvariant, <1>1, PTL

(* SameMemory: what a subscriber has mapped is what the owner has.         *)
THEOREM SameMemoryCorrect == Spec => []SameMemory
<1>1. IInv => SameMemory
  <2> SUFFICES ASSUME IInv, ~OwnerEnded, NEW s \in Sub, NEW c \in Chunk
               PROVE  maps[s][c] \in {0, maps[Owner][c]}
    BY DEF SameMemory
  <2>1. CASE pc[s] \in Ended
    BY <2>1 DEF IInv, Before
  <2>2. CASE pc[s] \notin Ended
    <3>1. CASE s \in ToSet(cs)
      <4>1. \E C : Sees(s, C)
        BY <2>2, <3>1, Where DEF AskedHeader, AskedAdd, AskedRevoke, AskedRemap, AskedGo, Rest, At
      <4> QED
        BY <4>1 DEF Sees
    <3>2. CASE s \notin ToSet(cs)
      BY <3>2 DEF IInv, Alive, Connected, Stranger, Sees
    <3> QED
      BY <3>1, <3>2
  <2> QED
    BY <2>1, <2>2
<1> QED
  BY SegmentInvariant, <1>1, PTL

(* RegionsApart: across the growth, which moves the bump pointer, no two   *)
(* regions overlap and none is outside the segment.                        *)
THEOREM RegionsApartCorrect == Spec => []RegionsApart
<1>1. IInv => RegionsApart
  <2> SUFFICES ASSUME IInv PROVE RegionsApart
    OBVIOUS
  <2>1. ASSUME NEW i \in DOMAIN shm.allocs PROVE shm.allocs[i].off < shm.total
    <3>1. PICK x : x = shm.allocs[i].off
      OBVIOUS
    <3>2. x \in Nat
      <4> DEFINE S == [off : Nat, sub : Sub, pass : {1, 2}]
      <4>1. shm.allocs \in Seq(S)
        BY DEF IInv, Types
      <4> HIDE DEF S
      <4>2. shm.allocs[i] \in S
        BY <4>1, Element
      <4> QED
        BY <3>1, <4>2 DEF S
    <3>3. PICK b, t \in Nat : b = shm.bump /\ t = shm.total
      BY DEF IInv, Types
    <3>4. x < b /\ b <= t
      BY <3>1, <3>3 DEF IInv, Offsets
    <3> QED
      BY <3>1, <3>2, <3>3, <3>4
  <2>2. \A i, j \in DOMAIN shm.allocs : i # j => shm.allocs[i].off # shm.allocs[j].off
    BY DEF IInv, Offsets
  <2> QED
    BY <2>1, <2>2 DEF RegionsApart
<1> QED
  BY SegmentInvariant, <1>1, PTL

(* Two subscribers who have been through both passes have four regions.    *)
LEMMA FourRegions ==
    ASSUME IInv, Everyone, NEW a \in Sub, NEW b \in Sub, a # b
    PROVE  Len(shm.allocs) >= 4
<1>1. PICK w, x, y, z \in DOMAIN shm.allocs :
         /\ Tag(shm.allocs[w]) = <<a, 1>> /\ Tag(shm.allocs[x]) = <<a, 2>>
         /\ Tag(shm.allocs[y]) = <<b, 1>> /\ Tag(shm.allocs[z]) = <<b, 2>>
  BY DEF Everyone, Has
<1>2. PICK t : t = [i \in DOMAIN shm.allocs |-> Tag(shm.allocs[i])]
  OBVIOUS
<1>3. t[w] = <<a, 1>> /\ t[x] = <<a, 2>> /\ t[y] = <<b, 1>> /\ t[z] = <<b, 2>>
  BY <1>1, <1>2
<1>4. w # x /\ w # y /\ w # z /\ x # y /\ x # z /\ y # z
  BY <1>3
<1>5. DOMAIN shm.allocs = 1 .. Len(shm.allocs) /\ Len(shm.allocs) \in Nat
  BY DEF IInv, Types
<1>6. w \in 1 .. Len(shm.allocs) /\ x \in 1 .. Len(shm.allocs)
      /\ y \in 1 .. Len(shm.allocs) /\ z \in 1 .. Len(shm.allocs)
  BY <1>5
<1> QED
  BY <1>4, <1>5, <1>6

(* AllVerified: whoever gets as far as checking finds every tag, with two  *)
(* subscribers at least, as the test program's count of regions demands.   *)
THEOREM AllVerifiedCorrect == Cardinality(Sub) >= 2 /\ Spec => []AllVerified
<1> SUFFICES ASSUME Cardinality(Sub) >= 2 PROVE Spec => []AllVerified
  OBVIOUS
<1>1. PICK a, b \in Sub : a # b
  <2>1. PICK a \in Sub : TRUE
    BY RemapAssumption
  <2>2. Sub # {a}
    BY FS_Singleton
  <2> QED
    BY <2>1, <2>2
<1>2. Init => AllVerified
  BY DEF Init, AllVerified
<1>3. IInv /\ AllVerified /\ [Next]_vars => AllVerified'
  <2> SUFFICES ASSUME IInv, AllVerified, [Next]_vars PROVE AllVerified'
    OBVIOUS
  <2>1. CASE OwnerVerifies
    <3>1. Intact(Owner)
      BY <2>1, AllTagged DEF OwnerVerifies
    <3>2. owner'.pc = "passed" /\ pc' = pc
      BY <2>1, <3>1 DEF OwnerVerifies, IInv, Types
    <3> QED
      BY <3>2 DEF AllVerified
  <2>2. ASSUME NEW s \in Sub, SubVerifies(s) PROVE AllVerified'
    <3>1. Intact(s) /\ Everyone
      BY <2>2 DEF SubVerifies, IInv, Ready, Told
    <3>2. Len(shm.allocs) >= 4
      BY <1>1, <3>1, FourRegions
    <3>3. pc' = [pc EXCEPT ![s] = "passed"] /\ owner' = owner
      BY <2>2, <3>1, <3>2 DEF SubVerifies, Goto
    <3> QED
      BY <3>3 DEF AllVerified, IInv, Types
  <2>3. CASE OwnerStep /\ ~OwnerVerifies
    <3>1. pc' = pc
      BY <2>3 DEF OwnerStep, OwnerStart, Listen, Accept, Barrier, Broadcast, Grow, CopyOut, SwapIn,
                  OwnerLocks, OwnerDies
    <3>2. owner'.pc # "failed"
      BY <2>3 DEF OwnerStep, OwnerStart, Listen, Accept, Barrier, Broadcast, Grow, CopyOut, SwapIn,
                  OwnerLocks, OwnerDies, IInv, Types, AllVerified
    <3> QED
      BY <3>1, <3>2 DEF AllVerified
  <2>4. ASSUME NEW s \in Sub, SubStep(s), ~SubVerifies(s) PROVE AllVerified'
    <3>1. owner' = owner
      BY <2>4 DEF SubStep, Attach, Dial, GivesUp, Receive, ReceiveDies, Allocate, WriteTag, SubLocks,
                  SubDies
    <3>2. pc' = pc \/ \E p : p # "failed" /\ pc' = [pc EXCEPT ![s] = p]
      BY <2>4 DEF SubStep, Attach, Dial, GivesUp, Receive, ReceiveDies, Allocate, WriteTag, SubLocks,
                  SubDies, Goto, Serve, Revoked, Mapped
    <3> QED
      BY <3>1, <3>2 DEF AllVerified, IInv, Types
  <2>5. CASE Dies
    BY <2>5 DEF Dies, Goto, AllVerified, IInv, Types
  <2>6. CASE UNCHANGED vars
    BY <2>6 DEF vars, AllVerified
  <2> QED
    BY <2>1, <2>2, <2>3, <2>4, <2>5, <2>6 DEF Next
<1> QED
  BY SegmentInvariant, <1>2, <1>3, PTL DEF Spec
=============================================================================
