---------------------------- MODULE RunnerProofs ----------------------------
(***************************************************************************)
(* Every program of the runner, for any address space, any sizes and any   *)
(* number of chunks, variables and driver failures: all the properties the *)
(* run checks.                                                             *)
(*                                                                         *)
(*   Sound    the driver's state by itself, and what each driver call does *)
(*   Fits, Kept, Ready, Values                                             *)
(*            ranges, chunks and variables, whatever fails: RunTypeOK,     *)
(*            Placed and StaleStays follow                                 *)
(*   Exactly  the memory, ranges and mappings of the records and no other, *)
(*            until a driver call fails without cause: Exact               *)
(*   FilledKept                                                            *)
(*            a chunk's contents through every call: ContentsKept          *)
(*   Reported no failure without a failed statement or a report of the     *)
(*            destructor: with Exact's invariant, CleanExit                *)
(***************************************************************************)
EXTENDS Runner, TLAPS

(* The driver's state has its type, a mapping leads into its memory, access *)
(* is given to mapped granules only, and a range lies in the address space. *)
Sound(d) ==
    /\ d = [ranges |-> d.ranges, memory |-> d.memory, at |-> d.at]
    /\ d.ranges \in [Va -> Nat] /\ d.memory \in [Handle -> Memory] /\ d.at \in [Va -> Entry]
    /\ \A v \in Va : Cells(v, d.ranges[v]) \subseteq Va
    /\ \A a \in Va : d.at[a].rw => d.at[a].h # 0
    /\ \A a \in Va : d.at[a].h # 0 => d.at[a].off < Len(d.memory[d.at[a].h].data)

(* A state is no refusal. *)
LEMMA SoundState == ASSUME NEW d, Sound(d) PROVE d # Nil
BY RefusalAssumption DEF Sound, Driver

(* Memory by its fields. *)
LEMMA MemoryType ==
    /\ \A m \in Memory : /\ m = [loc |-> m.loc, data |-> m.data, open |-> m.open]
                         /\ m.loc \in Loc \cup {"None"} /\ m.data \in Seq(Datum)
                         /\ m.open \in BOOLEAN /\ Len(m.data) \in Nat
    /\ \A l \in Loc \cup {"None"}, s \in Seq(Datum), o \in BOOLEAN :
          [loc |-> l, data |-> s, open |-> o] \in Memory
    /\ NoMemory \in Memory /\ ~NoMemory.open /\ Len(NoMemory.data) = 0
<1>1. <<>> \in Seq(Datum) /\ Len(<<>>) = 0
  OBVIOUS
<1>2. \A s \in Seq(Datum) : Len(s) \in Nat
  OBVIOUS
<1>3. QED
  BY <1>1, <1>2 DEF Memory, NoMemory

(* cuMemCreate under a handle that is free. *)
LEMMA CreateState ==
    ASSUME NEW d, Sound(d), NEW h \in Handle, d.memory[h] = NoMemory, NEW n \in Nat, NEW l \in Loc
    PROVE  /\ Sound(MemCreate(d, h, n, l)) /\ MemCreate(d, h, n, l) # Nil
           /\ MemCreate(d, h, n, l).ranges = d.ranges /\ MemCreate(d, h, n, l).at = d.at
           /\ \A k \in Handle \ {h} : MemCreate(d, h, n, l).memory[k] = d.memory[k]
           /\ MemCreate(d, h, n, l).memory[h].open /\ MemCreate(d, h, n, l).memory[h].loc = l
           /\ Len(MemCreate(d, h, n, l).memory[h].data) = n
<1>1. PICK data : data = [g \in 1 .. n |-> Nil]
  OBVIOUS
<1>2. data \in Seq(Datum) /\ Len(data) = n
  BY <1>1 DEF Datum
<1>3. PICK m : m = [loc |-> l, data |-> data, open |-> TRUE]
  OBVIOUS
<1>4. m \in Memory /\ m.open /\ m.loc = l /\ m.data = data
  BY <1>2, <1>3, MemoryType
<1>5. PICK e : e = [d EXCEPT !.memory[h] = m]
  OBVIOUS
<1>6. e = MemCreate(d, h, n, l)
  BY <1>1, <1>3, <1>5, SoundState DEF MemCreate
<1>7. /\ e = [ranges |-> e.ranges, memory |-> e.memory, at |-> e.at]
      /\ e.ranges = d.ranges /\ e.at = d.at /\ e.memory \in [Handle -> Memory]
      /\ e.memory[h] = m /\ \A k \in Handle \ {h} : e.memory[k] = d.memory[k]
  BY <1>4, <1>5 DEF Sound
<1>8. \A a \in Va : d.at[a].h # h
  <2> SUFFICES ASSUME NEW a \in Va, d.at[a].h = h PROVE FALSE
    OBVIOUS
  <2>1. d.at[a].off \in Nat /\ d.at[a].h # 0
    BY DEF Sound, Entry, Handle
  <2>2. d.at[a].off < Len(NoMemory.data)
    BY <2>1 DEF Sound
  <2>3. QED
    BY <2>1, <2>2, MemoryType
<1>9. Sound(e)
  BY <1>7, <1>8 DEF Sound, Entry
<1>10. QED
  BY <1>2, <1>4, <1>6, <1>7, <1>9, SoundState

(* cuMemAddressReserve. *)
LEMMA ReserveState ==
    ASSUME NEW d, Sound(d), NEW v \in Va, NEW n \in Nat, Reservable(d, v, n)
    PROVE  /\ Sound(AddressReserve(d, v, n)) /\ AddressReserve(d, v, n) # Nil
           /\ AddressReserve(d, v, n).memory = d.memory /\ AddressReserve(d, v, n).at = d.at
           /\ AddressReserve(d, v, n).ranges = [d.ranges EXCEPT ![v] = n]
<1>1. PICK e : e = [d EXCEPT !.ranges[v] = n]
  OBVIOUS
<1>2. e = AddressReserve(d, v, n)
  BY <1>1, SoundState DEF AddressReserve
<1>3. /\ e = [ranges |-> e.ranges, memory |-> e.memory, at |-> e.at]
      /\ e.at = d.at /\ e.memory = d.memory /\ e.ranges \in [Va -> Nat]
      /\ e.ranges = [d.ranges EXCEPT ![v] = n]
  BY <1>1 DEF Sound
<1>4. \A w \in Va : Cells(w, e.ranges[w]) \subseteq Va
  BY <1>3 DEF Sound, Reservable
<1>5. Sound(e)
  BY <1>3, <1>4 DEF Sound
<1>6. QED
  BY <1>2, <1>3, <1>5, SoundState

(* cuMemAddressFree. *)
LEMMA FreeState ==
    ASSUME NEW d, Sound(d), NEW v \in Va, NEW n, d.ranges[v] = n,
           \A a \in Cells(v, n) : d.at[a] = Unmapped
    PROVE  /\ Sound(AddressFree(d, v, n)) /\ AddressFree(d, v, n) # Nil
           /\ AddressFree(d, v, n).memory = d.memory /\ AddressFree(d, v, n).at = d.at
           /\ AddressFree(d, v, n).ranges = [d.ranges EXCEPT ![v] = 0]
<1>1. PICK e : e = [d EXCEPT !.ranges[v] = 0]
  OBVIOUS
<1>2. e = AddressFree(d, v, n)
  BY <1>1, SoundState DEF AddressFree
<1>3. /\ e = [ranges |-> e.ranges, memory |-> e.memory, at |-> e.at]
      /\ e.at = d.at /\ e.memory = d.memory /\ e.ranges \in [Va -> Nat]
      /\ e.ranges = [d.ranges EXCEPT ![v] = 0]
  BY <1>1 DEF Sound
<1>4. v \in Nat
  BY ManagerAssumption
<1>5. \A w \in Va : Cells(w, e.ranges[w]) \subseteq Va
  BY <1>3, <1>4 DEF Sound, Cells
<1>6. Sound(e)
  BY <1>3, <1>5 DEF Sound
<1>7. QED
  BY <1>2, <1>3, <1>6, SoundState

(* The driver's state with other mappings. *)
LEMMA AtState ==
    ASSUME NEW d, Sound(d), NEW at \in [Va -> Entry],
           \A a \in Va : at[a].rw => at[a].h # 0,
           \A a \in Va : at[a].h # 0 => at[a].off < Len(d.memory[at[a].h].data),
           NEW e, e = [d EXCEPT !.at = at]
    PROVE  Sound(e) /\ e # Nil /\ e.ranges = d.ranges /\ e.memory = d.memory /\ e.at = at
<1>1. /\ e = [ranges |-> e.ranges, memory |-> e.memory, at |-> e.at]
      /\ e.at = at /\ e.memory = d.memory /\ e.ranges = d.ranges
  BY DEF Sound
<1>2. Sound(e)
  BY <1>1 DEF Sound
<1>3. QED
  BY <1>1, <1>2, SoundState

(* cuMemMap. *)
LEMMA MapState ==
    ASSUME NEW d, Sound(d), NEW v \in Nat, NEW h \in Handle, Mappable(d, v, h)
    PROVE  /\ Sound(MemMap(d, v, h)) /\ MemMap(d, v, h) # Nil
           /\ MemMap(d, v, h).ranges = d.ranges /\ MemMap(d, v, h).memory = d.memory
           /\ \A a \in Va : MemMap(d, v, h).at[a] =
                 IF a \in Cells(v, Len(d.memory[h].data))
                 THEN [h |-> h, off |-> a - v, rw |-> FALSE] ELSE d.at[a]
<1>1. PICK n : n = Len(d.memory[h].data)
  OBVIOUS
<1>2. n \in Nat
  BY <1>1, MemoryType DEF Sound
<1>3. PICK at : at = [a \in Va |->
             IF a \in Cells(v, n) THEN [h |-> h, off |-> a - v, rw |-> FALSE] ELSE d.at[a]]
  OBVIOUS
<1>4. MemMap(d, v, h) = [d EXCEPT !.at = at]
  BY <1>1, <1>3, SoundState DEF MemMap
<1>5. \A a \in Va : a \in Cells(v, n) => a - v \in Nat /\ a - v < n
  BY <1>2, ManagerAssumption DEF Cells
<1>6. \A a \in Va : /\ at[a] \in Entry /\ (at[a].rw => at[a].h # 0)
                    /\ at[a].h # 0 => at[a].off < Len(d.memory[at[a].h].data)
  <2> SUFFICES ASSUME NEW a \in Va
               PROVE  /\ at[a] \in Entry /\ (at[a].rw => at[a].h # 0)
                      /\ at[a].h # 0 => at[a].off < Len(d.memory[at[a].h].data)
    OBVIOUS
  <2>1. CASE a \in Cells(v, n)
    BY <1>1, <1>3, <1>5, <2>1 DEF Entry
  <2>2. CASE a \notin Cells(v, n)
    BY <1>3, <2>2 DEF Sound
  <2>3. QED
    BY <2>1, <2>2
<1>7. at \in [Va -> Entry]
  BY <1>3, <1>6
<1>8. PICK e : e = MemMap(d, v, h)
  OBVIOUS
<1>9. Sound(e) /\ e # Nil /\ e.ranges = d.ranges /\ e.memory = d.memory /\ e.at = at
  <2>1. e = [d EXCEPT !.at = at]
    BY <1>4, <1>8
  <2>2. QED
    BY <2>1, <1>6, <1>7, AtState
<1>10. QED
  BY <1>1, <1>3, <1>8, <1>9

(* cuMemSetAccess. *)
LEMMA AccessState ==
    ASSUME NEW d, Sound(d), NEW v, NEW n,
           \A a \in Cells(v, n) : a \in Va /\ d.at[a].h # 0
    PROVE  /\ Sound(SetAccess(d, v, n)) /\ SetAccess(d, v, n) # Nil
           /\ SetAccess(d, v, n).ranges = d.ranges /\ SetAccess(d, v, n).memory = d.memory
           /\ \A a \in Va : SetAccess(d, v, n).at[a] =
                 IF a \in Cells(v, n) THEN [h |-> d.at[a].h, off |-> d.at[a].off, rw |-> TRUE]
                 ELSE d.at[a]
<1>1. PICK at : at = [a \in Va |->
             IF a \in Cells(v, n) THEN [d.at[a] EXCEPT !.rw = TRUE] ELSE d.at[a]]
  OBVIOUS
<1>2. SetAccess(d, v, n) = [d EXCEPT !.at = at]
  BY <1>1, SoundState DEF SetAccess
<1>3. \A a \in Va : /\ at[a] \in Entry /\ (at[a].rw => at[a].h # 0)
                    /\ at[a].h # 0 => at[a].off < Len(d.memory[at[a].h].data)
  <2> SUFFICES ASSUME NEW a \in Va
               PROVE  /\ at[a] \in Entry /\ (at[a].rw => at[a].h # 0)
                      /\ at[a].h # 0 => at[a].off < Len(d.memory[at[a].h].data)
    OBVIOUS
  <2>1. PICK x : x = d.at[a]
    OBVIOUS
  <2>2. x \in Entry /\ (x.rw => x.h # 0) /\ (x.h # 0 => x.off < Len(d.memory[x.h].data))
    BY <2>1 DEF Sound
  <2>3. CASE a \in Cells(v, n)
    <3>1. at[a] = [x EXCEPT !.rw = TRUE] /\ x.h # 0
      BY <1>1, <2>1, <2>3
    <3>2. at[a] \in Entry /\ at[a].h = x.h /\ at[a].off = x.off
      BY <2>2, <3>1 DEF Entry
    <3>3. QED
      BY <2>2, <3>1, <3>2
  <2>4. CASE a \notin Cells(v, n)
    BY <1>1, <2>1, <2>2, <2>4
  <2>5. QED
    BY <2>3, <2>4
<1>4. at \in [Va -> Entry]
  BY <1>1, <1>3
<1>5. PICK e : e = SetAccess(d, v, n)
  OBVIOUS
<1>6. Sound(e) /\ e # Nil /\ e.ranges = d.ranges /\ e.memory = d.memory /\ e.at = at
  <2>1. e = [d EXCEPT !.at = at]
    BY <1>2, <1>5
  <2>2. QED
    BY <2>1, <1>3, <1>4, AtState
<1>7. \A x \in Entry : [x EXCEPT !.rw = TRUE] = [h |-> x.h, off |-> x.off, rw |-> TRUE]
  <2> SUFFICES ASSUME NEW x \in Entry, NEW y, y = [x EXCEPT !.rw = TRUE]
               PROVE  y = [h |-> x.h, off |-> x.off, rw |-> TRUE]
    OBVIOUS
  <2>1. QED
    BY DEF Entry
<1>8. QED
  BY <1>1, <1>5, <1>6, <1>7 DEF Sound

(* The driver's state with other memory, no shorter where it is mapped. *)
LEMMA MemoryState ==
    ASSUME NEW d, Sound(d), NEW mem \in [Handle -> Memory],
           \A a \in Va : d.at[a].h # 0 => Len(mem[d.at[a].h].data) >= Len(d.memory[d.at[a].h].data),
           NEW e, e = [d EXCEPT !.memory = mem]
    PROVE  Sound(e) /\ e # Nil /\ e.ranges = d.ranges /\ e.at = d.at /\ e.memory = mem
<1>2. /\ e = [ranges |-> e.ranges, memory |-> e.memory, at |-> e.at]
      /\ e.at = d.at /\ e.memory = mem /\ e.ranges = d.ranges
  BY DEF Sound
<1>3. \A a \in Va : e.at[a].h # 0 => e.at[a].off < Len(e.memory[e.at[a].h].data)
  <2> SUFFICES ASSUME NEW a \in Va, d.at[a].h # 0
               PROVE  d.at[a].off < Len(mem[d.at[a].h].data)
    BY <1>2
  <2>1. d.at[a].h \in Handle /\ d.at[a].off \in Nat /\ d.at[a].off < Len(d.memory[d.at[a].h].data)
    BY DEF Sound, Entry
  <2>2. Len(mem[d.at[a].h].data) \in Nat /\ Len(d.memory[d.at[a].h].data) \in Nat
    BY <2>1, MemoryType DEF Sound
  <2>3. \A x, y, z \in Nat : x < y /\ z >= y => x < z
    OBVIOUS
  <2>4. Len(mem[d.at[a].h].data) >= Len(d.memory[d.at[a].h].data)
    OBVIOUS
  <2>5. QED
    BY <2>1, <2>2, <2>3, <2>4
<1>4. Sound(e)
  BY <1>2, <1>3 DEF Sound
<1>5. QED
  BY <1>2, <1>4, SoundState

(* Memory goes with its last reference: what is mapped stays. *)
LEMMA ReclaimedState ==
    ASSUME NEW d, Sound(d)
    PROVE  /\ Sound(Reclaimed(d)) /\ Reclaimed(d).ranges = d.ranges /\ Reclaimed(d).at = d.at
           /\ \A h \in Handle : Reclaimed(d).memory[h] =
                 IF d.memory[h].open \/ \E a \in Va : d.at[a].h = h THEN d.memory[h] ELSE NoMemory
<1>1. PICK mem : mem = [h \in Handle |->
         IF d.memory[h].open \/ \E a \in Va : d.at[a].h = h THEN d.memory[h] ELSE NoMemory]
  OBVIOUS
<1>2. Reclaimed(d) = [d EXCEPT !.memory = mem]
  BY <1>1 DEF Reclaimed
<1>3. mem \in [Handle -> Memory]
  BY <1>1, MemoryType DEF Sound
<1>4. \A a \in Va : d.at[a].h # 0 => Len(mem[d.at[a].h].data) >= Len(d.memory[d.at[a].h].data)
  <2> SUFFICES ASSUME NEW a \in Va, d.at[a].h # 0
               PROVE  Len(mem[d.at[a].h].data) >= Len(d.memory[d.at[a].h].data)
    OBVIOUS
  <2>1. d.at[a].h \in Handle
    BY DEF Sound, Entry
  <2>2. mem[d.at[a].h] = d.memory[d.at[a].h]
    BY <1>1, <2>1
  <2>3. Len(d.memory[d.at[a].h].data) \in Nat
    BY <2>1, MemoryType DEF Sound
  <2>4. QED
    BY <2>2, <2>3
<1>5. PICK e : e = [d EXCEPT !.memory = mem]
  OBVIOUS
<1>6. Sound(e) /\ e.ranges = d.ranges /\ e.at = d.at /\ e.memory = mem
  BY <1>3, <1>4, <1>5, MemoryState
<1>7. e = Reclaimed(d)
  BY <1>2, <1>5
<1>8. \A h \in Handle : mem[h] =
         IF d.memory[h].open \/ \E a \in Va : d.at[a].h = h THEN d.memory[h] ELSE NoMemory
  BY <1>1
<1>9. QED
  BY <1>6, <1>7, <1>8

(* cuMemRelease. *)
LEMMA ReleaseState ==
    ASSUME NEW d, Sound(d), NEW h \in Handle, d.memory[h].open
    PROVE  /\ Sound(MemRelease(d, h)) /\ MemRelease(d, h) # Nil
           /\ MemRelease(d, h).ranges = d.ranges /\ MemRelease(d, h).at = d.at
           /\ \A k \in Handle \ {h} :
                 /\ MemRelease(d, h).memory[k] \in {d.memory[k], NoMemory}
                 /\ d.memory[k].open => MemRelease(d, h).memory[k] = d.memory[k]
           /\ (\A a \in Va : d.at[a].h # h) => MemRelease(d, h).memory[h] = NoMemory
<1>1. PICK m : m = [d.memory[h] EXCEPT !.open = FALSE]
  OBVIOUS
<1>2. m \in Memory /\ ~m.open /\ m.data = d.memory[h].data
  <2>1. PICK x : x = d.memory[h]
    OBVIOUS
  <2>2. x \in Memory
    BY <2>1 DEF Sound
  <2>3. m = [loc |-> x.loc, data |-> x.data, open |-> FALSE]
    BY <1>1, <2>1, <2>2 DEF Memory
  <2>4. QED
    BY <2>1, <2>2, <2>3, MemoryType
<1>3. PICK mem : mem = [d.memory EXCEPT ![h] = m]
  OBVIOUS
<1>4. PICK e : e = [d EXCEPT !.memory = mem]
  OBVIOUS
<1>5. PICK f : f = MemRelease(d, h)
  OBVIOUS
<1>6. f = Reclaimed(e)
  <2>1. e = [d EXCEPT !.memory[h].open = FALSE]
    BY <1>1, <1>3, <1>4
  <2>2. QED
    BY <1>5, <2>1, SoundState DEF MemRelease
<1>7. mem \in [Handle -> Memory] /\ mem[h] = m /\ \A k \in Handle \ {h} : mem[k] = d.memory[k]
  BY <1>2, <1>3 DEF Sound
<1>8. \A a \in Va : d.at[a].h # 0 => Len(mem[d.at[a].h].data) >= Len(d.memory[d.at[a].h].data)
  <2> SUFFICES ASSUME NEW a \in Va, d.at[a].h # 0
               PROVE  Len(mem[d.at[a].h].data) >= Len(d.memory[d.at[a].h].data)
    OBVIOUS
  <2>1. d.at[a].h \in Handle
    BY DEF Sound, Entry
  <2>2. mem[d.at[a].h].data = d.memory[d.at[a].h].data
    BY <1>2, <1>7, <2>1
  <2>3. Len(d.memory[d.at[a].h].data) \in Nat
    BY <2>1, MemoryType DEF Sound
  <2>4. QED
    BY <2>2, <2>3
<1>9. Sound(e) /\ e.ranges = d.ranges /\ e.at = d.at /\ e.memory = mem
  BY <1>4, <1>7, <1>8, MemoryState
<1>10. Sound(f) /\ f.ranges = d.ranges /\ f.at = d.at
       /\ \A k \in Handle : f.memory[k] =
             IF mem[k].open \/ \E a \in Va : d.at[a].h = k THEN mem[k] ELSE NoMemory
  BY <1>6, <1>9, ReclaimedState
<1>11. QED
  BY <1>2, <1>5, <1>7, <1>10, SoundState

(* cuMemUnmap of a mapping as a whole. *)
LEMMA UnmapState ==
    ASSUME NEW d, Sound(d), NEW v \in Va, NEW n, d.at[v].h # 0, d.at[v].off = 0,
           Len(d.memory[d.at[v].h].data) = n
    PROVE  /\ Sound(MemUnmap(d, v, n)) /\ MemUnmap(d, v, n) # Nil
           /\ MemUnmap(d, v, n).ranges = d.ranges
           /\ \A a \in Va : MemUnmap(d, v, n).at[a] =
                 IF a \in Cells(v, n) THEN Unmapped ELSE d.at[a]
           /\ \A k \in Handle :
                 /\ MemUnmap(d, v, n).memory[k] \in {d.memory[k], NoMemory}
                 /\ d.memory[k].open => MemUnmap(d, v, n).memory[k] = d.memory[k]
<1>1. PICK at : at = [a \in Va |-> IF a \in Cells(v, n) THEN Unmapped ELSE d.at[a]]
  OBVIOUS
<1>2. PICK e : e = [d EXCEPT !.at = at]
  OBVIOUS
<1>3. PICK f : f = MemUnmap(d, v, n)
  OBVIOUS
<1>4. f = Reclaimed(e)
  BY <1>1, <1>2, <1>3, SoundState DEF MemUnmap
<1>5. \A a \in Va : /\ at[a] \in Entry /\ (at[a].rw => at[a].h # 0)
                    /\ at[a].h # 0 => at[a].off < Len(d.memory[at[a].h].data)
  BY <1>1 DEF Sound, Entry, Unmapped
<1>6. at \in [Va -> Entry]
  BY <1>1, <1>5
<1>7. Sound(e) /\ e.ranges = d.ranges /\ e.at = at /\ e.memory = d.memory
  BY <1>2, <1>5, <1>6, AtState
<1>8. Sound(f) /\ f.ranges = d.ranges /\ f.at = at
      /\ \A k \in Handle : f.memory[k] =
            IF d.memory[k].open \/ \E a \in Va : at[a].h = k THEN d.memory[k] ELSE NoMemory
  BY <1>4, <1>7, ReclaimedState
<1>9. QED
  BY <1>1, <1>3, <1>8, SoundState

(* A write by the device: each granule of memory has what was written to the *)
(* one address of the write that leads there, or what it had.                *)
LEMMA WrittenState ==
    ASSUME NEW d, Sound(d), NEW v, NEW n, NEW val, \A a \in Cells(v, n) : val[a] \in Datum
    PROVE  LET e == Written(d, v, n, val)
               Leads(a, h, g) == d.at[a].h = h /\ d.at[a].off + 1 = g
           IN  /\ Sound(e) /\ e # Nil /\ e.ranges = d.ranges /\ e.at = d.at
               /\ \A h \in Handle :
                     /\ e.memory[h].open = d.memory[h].open /\ e.memory[h].loc = d.memory[h].loc
                     /\ Len(e.memory[h].data) = Len(d.memory[h].data)
                     /\ d.memory[h] = NoMemory => e.memory[h] = NoMemory
                     /\ \A g \in 1 .. Len(d.memory[h].data) :
                           /\ (\A a \in Cells(v, n) : ~Leads(a, h, g))
                                 => e.memory[h].data[g] = d.memory[h].data[g]
                           /\ \A a \in Cells(v, n) :
                                 Leads(a, h, g) /\ (\A b \in Cells(v, n) : Leads(b, h, g) => b = a)
                                    => e.memory[h].data[g] = val[a]
<1> DEFINE Leads(a, h, g) == d.at[a].h = h /\ d.at[a].off + 1 = g
<1>1. PICK mem : mem = [h \in Handle |->
                           [d.memory[h] EXCEPT !.data = Overwritten(d, h, v, n, val)]]
  OBVIOUS
<1>2. PICK e : e = Written(d, v, n, val)
  OBVIOUS
<1>3. e = [d EXCEPT !.memory = mem]
  BY <1>1, <1>2 DEF Written
<1>4. ASSUME NEW h \in Handle
      PROVE  /\ mem[h] \in Memory
             /\ mem[h].open = d.memory[h].open /\ mem[h].loc = d.memory[h].loc
             /\ Len(mem[h].data) = Len(d.memory[h].data) /\ Len(mem[h].data) \in Nat
             /\ d.memory[h] = NoMemory => mem[h] = NoMemory
             /\ \A g \in 1 .. Len(d.memory[h].data) :
                   /\ (\A a \in Cells(v, n) : ~Leads(a, h, g))
                         => mem[h].data[g] = d.memory[h].data[g]
                   /\ \A a \in Cells(v, n) :
                         Leads(a, h, g) /\ (\A b \in Cells(v, n) : Leads(b, h, g) => b = a)
                            => mem[h].data[g] = val[a]
  <2>1. PICK x : x = d.memory[h]
    OBVIOUS
  <2>2. x \in Memory /\ Len(x.data) \in Nat /\ x.data \in Seq(Datum)
    BY <2>1, MemoryType DEF Sound
  <2>3. PICK s : s = Overwritten(d, h, v, n, val)
    OBVIOUS
  <2>4. ASSUME NEW g \in 1 .. Len(x.data)
        PROVE  /\ s[g] \in Datum
               /\ (\A a \in Cells(v, n) : ~Leads(a, h, g)) => s[g] = x.data[g]
               /\ \A a \in Cells(v, n) :
                     Leads(a, h, g) /\ (\A b \in Cells(v, n) : Leads(b, h, g) => b = a)
                        => s[g] = val[a]
    <3>1. PICK as : as = {a \in Cells(v, n) : Leads(a, h, g)}
      OBVIOUS
    <3>2. s[g] = IF as = {} THEN x.data[g] ELSE val[CHOOSE a \in as : TRUE]
      BY <2>1, <2>3, <3>1 DEF Overwritten
    <3>3. x.data[g] \in Datum
      BY <2>2
    <3>4. as # {} => (CHOOSE a \in as : TRUE) \in as
      OBVIOUS
    <3>5. QED
      BY <3>1, <3>2, <3>3, <3>4
  <2>5. DOMAIN s = 1 .. Len(x.data) /\ s = [g \in 1 .. Len(x.data) |-> s[g]]
    BY <2>1, <2>3 DEF Overwritten
  <2>6. s \in Seq(Datum) /\ Len(s) = Len(x.data)
    <3>1. s \in [1 .. Len(x.data) -> Datum]
      BY <2>4, <2>5
    <3>2. PICK k \in Nat : k = Len(x.data)
      BY <2>2
    <3>3. QED
      BY <3>1, <3>2
  <2>7. mem[h] = [loc |-> x.loc, data |-> s, open |-> x.open]
    BY <1>1, <2>1, <2>2, <2>3, MemoryType
  <2>8. x = NoMemory => s = <<>>
    BY <2>5, <2>6, MemoryType
  <2>9. x = NoMemory => mem[h] = NoMemory
    BY <2>7, <2>8 DEF NoMemory
  <2>10. /\ mem[h] \in Memory /\ mem[h].open = x.open /\ mem[h].loc = x.loc
         /\ mem[h].data = s
    BY <2>2, <2>6, <2>7, MemoryType
  <2>11. QED
    BY <2>1, <2>2, <2>4, <2>6, <2>9, <2>10
<1>5. mem \in [Handle -> Memory]
  BY <1>1, <1>4
<1>6. \A a \in Va : d.at[a].h # 0 => Len(mem[d.at[a].h].data) >= Len(d.memory[d.at[a].h].data)
  BY <1>4 DEF Sound, Entry
<1>7. Sound(e) /\ e # Nil /\ e.ranges = d.ranges /\ e.at = d.at /\ e.memory = mem
  BY <1>3, <1>5, <1>6, MemoryState
<1>8. QED
  BY <1>2, <1>4, <1>7

(* What the device reads where it has access. *)
LEMMA ReadType ==
    ASSUME NEW d, Sound(d), NEW a \in Va, d.at[a].rw PROVE Read(d, a) \in Datum
<1>1. PICK h, off : h = d.at[a].h /\ off = d.at[a].off
  OBVIOUS
<1>2. h \in Handle /\ off \in Nat /\ off < Len(d.memory[h].data)
  BY <1>1 DEF Sound, Entry
<1>3. PICK s : s = d.memory[h].data
  OBVIOUS
<1>4. s \in Seq(Datum) /\ Len(s) \in Nat
  BY <1>2, <1>3, MemoryType DEF Sound
<1>5. s[off + 1] \in Datum
  <2>1. off + 1 \in 1 .. Len(s)
    BY <1>2, <1>3, <1>4
  <2>2. QED
    BY <1>4, <2>1
<1>6. QED
  BY <1>1, <1>3, <1>5 DEF Read

(* cuMemcpyDtoDAsync writes what it reads. *)
LEMMA MemcpyState ==
    ASSUME NEW d, Sound(d), NEW to \in Nat, NEW from \in Nat, NEW n \in Nat,
           Cells(from, n) \subseteq Va, Accessible(d, from, n), Accessible(d, to, n)
    PROVE  /\ Memcpy(d, to, from, n) =
                Written(d, to, n, [a \in Cells(to, n) |-> Read(d, from + a - to)])
           /\ \A a \in Cells(to, n) : Read(d, from + a - to) \in Datum
<1>1. \A a \in Cells(to, n) : from + a - to \in Cells(from, n)
  BY DEF Cells
<1>2. \A a \in Cells(to, n) : Read(d, from + a - to) \in Datum
  BY <1>1, ReadType DEF Accessible
<1>3. QED
  BY <1>2, SoundState DEF Memcpy

-----------------------------------------------------------------------------
(* The driver while every call succeeds. *)

\* Handle h is mapped at v, as a whole and with access.
MappedAs(d, h, v) ==
    /\ d.memory[h].open /\ Len(d.memory[h].data) > 0
    /\ \A a \in Cells(v, Len(d.memory[h].data)) :
          a \in Va /\ d.at[a] = [h |-> h, off |-> a - v, rw |-> TRUE]

(* The mappings are those of M, pairs of a handle and an address, each in  *)
(* ranges of address space; memory has its handle.                         *)
Neat(d, M) ==
    /\ \A h \in Handle : d.memory[h] = NoMemory \/ d.memory[h].open
    /\ \A h \in Handle, v \in Va : <<h, v>> \in M => MappedAs(d, h, v)
    /\ \A a \in Va : d.at[a] # Unmapped =>
          /\ \E w \in Va : a \in Cells(w, d.ranges[w])
          /\ \E h \in Handle, v \in Va : <<h, v>> \in M /\ a \in Cells(v, Len(d.memory[h].data))

Tidy(d, M) == Sound(d) /\ Neat(d, M)

\* N has one mapping more, or one less, than M.
With(N, M, h, v) == \A k \in Handle, x \in Va :
    <<k, x>> \in N <=> (k = h /\ x = v) \/ <<k, x>> \in M
Without(N, M, h, v) == \A k \in Handle, x \in Va :
    <<k, x>> \in N <=> (k # h \/ x # v) /\ <<k, x>> \in M

(* New memory is mapped nowhere. *)
LEMMA TidyCreate ==
    ASSUME NEW d, NEW M, Tidy(d, M), NEW h \in Handle, d.memory[h] = NoMemory,
           NEW n \in Nat, NEW l \in Loc, NEW e, e = MemCreate(d, h, n, l)
    PROVE  /\ Tidy(e, M) /\ e # Nil /\ e.ranges = d.ranges /\ e.at = d.at
           /\ \A k \in Handle \ {h} : e.memory[k] = d.memory[k]
           /\ e.memory[h].open /\ e.memory[h].loc = l /\ Len(e.memory[h].data) = n
<1>1. /\ Sound(e) /\ e # Nil /\ e.ranges = d.ranges /\ e.at = d.at
      /\ \A k \in Handle \ {h} : e.memory[k] = d.memory[k]
      /\ e.memory[h].open /\ e.memory[h].loc = l /\ Len(e.memory[h].data) = n
  BY CreateState DEF Tidy
<1>2. \A v \in Va : <<h, v>> \notin M
  BY MemoryType DEF Tidy, Neat, MappedAs
<1>3. \A k \in Handle, v \in Va : <<k, v>> \in M => e.memory[k] = d.memory[k]
  BY <1>1, <1>2
<1>4. \A k \in Handle, v \in Va : <<k, v>> \in M => MappedAs(e, k, v)
  BY <1>1, <1>3 DEF Tidy, Neat, MappedAs
<1>5. \A a \in Va : e.at[a] # Unmapped =>
         /\ \E w \in Va : a \in Cells(w, e.ranges[w])
         /\ \E k \in Handle, v \in Va : <<k, v>> \in M /\ a \in Cells(v, Len(e.memory[k].data))
  BY <1>1, <1>3 DEF Tidy, Neat
<1>6. \A k \in Handle : e.memory[k] = NoMemory \/ e.memory[k].open
  BY <1>1 DEF Tidy, Neat
<1>7. QED
  BY <1>1, <1>4, <1>5, <1>6 DEF Tidy, Neat

(* Nothing is mapped in what can be reserved. *)
LEMMA TidyReserve ==
    ASSUME NEW d, NEW M, Tidy(d, M), NEW v \in Va, NEW n \in Nat, Reservable(d, v, n),
           NEW e, e = AddressReserve(d, v, n)
    PROVE  /\ Tidy(e, M) /\ e # Nil /\ e.memory = d.memory /\ e.at = d.at
           /\ e.ranges = [d.ranges EXCEPT ![v] = n] /\ d.ranges[v] = 0
           /\ \A a \in Cells(v, n) : d.at[a] = Unmapped
<1>1. /\ Sound(e) /\ e # Nil /\ e.memory = d.memory /\ e.at = d.at
      /\ e.ranges = [d.ranges EXCEPT ![v] = n]
  BY ReserveState DEF Tidy
<1>2. d.ranges[v] = 0
  <2>1. d.ranges[v] \in Nat /\ v \in Nat /\ n > 0 /\ Cells(v, d.ranges[v]) \cap Cells(v, n) = {}
    BY ManagerAssumption DEF Tidy, Sound, Reservable
  <2>2. QED
    BY <2>1 DEF Cells
<1>3. \A a \in Va : d.at[a] # Unmapped => \E w \in Va : a \in Cells(w, e.ranges[w])
  <2> SUFFICES ASSUME NEW a \in Va, NEW w \in Va, a \in Cells(w, d.ranges[w])
               PROVE  \E x \in Va : a \in Cells(x, e.ranges[x])
    BY DEF Tidy, Neat
  <2>1. w # v
    BY <1>2, ManagerAssumption DEF Cells
  <2>2. QED
    BY <1>1, <2>1 DEF Tidy, Sound
<1>4. \A a \in Cells(v, n) : d.at[a] = Unmapped
  BY DEF Tidy, Neat, Reservable
<1>5. \A k \in Handle, w \in Va : <<k, w>> \in M => MappedAs(e, k, w)
  BY <1>1 DEF Tidy, Neat, MappedAs
<1>6. Neat(e, M)
  BY <1>1, <1>3, <1>5 DEF Tidy, Neat
<1>7. QED
  BY <1>1, <1>2, <1>4, <1>6 DEF Tidy

(* A range with nothing mapped in it can be freed. *)
LEMMA TidyFree ==
    ASSUME NEW d, NEW M, Tidy(d, M), NEW v \in Va, NEW n, d.ranges[v] = n,
           \A a \in Cells(v, n) : d.at[a] = Unmapped, NEW e, e = AddressFree(d, v, n)
    PROVE  /\ Tidy(e, M) /\ e # Nil /\ e.memory = d.memory /\ e.at = d.at
           /\ e.ranges = [d.ranges EXCEPT ![v] = 0]
<1>1. /\ Sound(e) /\ e # Nil /\ e.memory = d.memory /\ e.at = d.at
      /\ e.ranges = [d.ranges EXCEPT ![v] = 0]
  BY FreeState DEF Tidy
<1>2. \A a \in Va : d.at[a] # Unmapped => \E w \in Va : a \in Cells(w, e.ranges[w])
  BY <1>1 DEF Tidy, Neat, Sound
<1>3. \A h \in Handle, w \in Va : <<h, w>> \in M => MappedAs(e, h, w)
  BY <1>1 DEF Tidy, Neat, MappedAs
<1>4. Neat(e, M)
  BY <1>1, <1>2, <1>3 DEF Tidy, Neat
<1>5. QED
  BY <1>1, <1>4 DEF Tidy

(* Memory can be mapped in a range, where nothing is mapped, and made accessible. *)
LEMMA TidyMap ==
    ASSUME NEW d, NEW M, Tidy(d, M), NEW h \in Handle, d.memory[h].open, NEW n,
           n = Len(d.memory[h].data), n > 0, NEW v \in Va,
           \A a \in Cells(v, n) : a \in Va /\ d.at[a] = Unmapped,
           NEW w \in Va, Cells(v, n) \subseteq Cells(w, d.ranges[w]),
           NEW m, m = MemMap(d, v, h), NEW e, e = SetAccess(m, v, n), NEW N,
           With(N, M, h, v)
    PROVE  /\ m # Nil /\ Tidy(e, N) /\ e # Nil
           /\ e.ranges = d.ranges /\ e.memory = d.memory
           /\ \A a \in Va \ Cells(v, n) : e.at[a] = d.at[a]
<1>1. n \in Nat /\ v \in Nat
  BY MemoryType, ManagerAssumption DEF Tidy, Sound
<1>2. Mappable(d, v, h)
  BY DEF Mappable
<1>3. /\ Sound(m) /\ m # Nil /\ m.ranges = d.ranges /\ m.memory = d.memory
      /\ \A a \in Va : m.at[a] = IF a \in Cells(v, n)
                                THEN [h |-> h, off |-> a - v, rw |-> FALSE] ELSE d.at[a]
  BY <1>1, <1>2, MapState DEF Tidy
<1>4. h # 0 /\ \A a \in Cells(v, n) : a \in Va /\ m.at[a].h = h /\ m.at[a].off = a - v
  <2>1. h # 0
    BY ManagerAssumption DEF Handle
  <2>2. ASSUME NEW a \in Cells(v, n)
        PROVE  a \in Va /\ m.at[a].h = h /\ m.at[a].off = a - v
    <3>1. a \in Va /\ m.at[a] = [h |-> h, off |-> a - v, rw |-> FALSE]
      BY <1>3
    <3>2. QED
      BY <3>1
  <2>3. QED
    BY <2>1, <2>2
<1>5. /\ Sound(e) /\ e # Nil /\ e.ranges = d.ranges /\ e.memory = d.memory
      /\ \A a \in Va : e.at[a] = IF a \in Cells(v, n)
                                THEN [h |-> m.at[a].h, off |-> m.at[a].off, rw |-> TRUE]
                                ELSE m.at[a]
  BY <1>3, <1>4, AccessState
<1>6. \A a \in Va : /\ a \in Cells(v, n) => e.at[a] = [h |-> h, off |-> a - v, rw |-> TRUE]
                    /\ a \notin Cells(v, n) => e.at[a] = d.at[a]
  <2> SUFFICES ASSUME NEW a \in Va
               PROVE  /\ a \in Cells(v, n) => e.at[a] = [h |-> h, off |-> a - v, rw |-> TRUE]
                      /\ a \notin Cells(v, n) => e.at[a] = d.at[a]
    OBVIOUS
  <2>1. CASE a \in Cells(v, n)
    <3>1. e.at[a] = [h |-> m.at[a].h, off |-> m.at[a].off, rw |-> TRUE]
      BY <1>5, <2>1
    <3>2. QED
      BY <1>4, <2>1, <3>1
  <2>2. CASE a \notin Cells(v, n)
    BY <1>3, <1>5, <2>2
  <2>3. QED
    BY <2>1, <2>2
<1>7. \A k \in Handle, x \in Va : <<k, x>> \in M => MappedAs(e, k, x)
  <2> SUFFICES ASSUME NEW k \in Handle, NEW x \in Va, <<k, x>> \in M PROVE MappedAs(e, k, x)
    OBVIOUS
  <2>1. MappedAs(d, k, x)
    BY DEF Tidy, Neat
  <2>2. ASSUME NEW a \in Cells(x, Len(d.memory[k].data)), a \in Cells(v, n) PROVE FALSE
    <3>1. d.at[a] = [h |-> k, off |-> a - x, rw |-> TRUE] /\ d.at[a] = Unmapped
      BY <2>1, <2>2 DEF MappedAs
    <3>2. d.at[a].h = k /\ d.at[a].h = 0 /\ k # 0
      BY <3>1, ManagerAssumption DEF Handle, Unmapped
    <3>3. QED
      BY <3>2
  <2>3. \A a \in Cells(x, Len(d.memory[k].data)) :
           a \in Va /\ e.at[a] = [h |-> k, off |-> a - x, rw |-> TRUE]
    BY <1>6, <2>1, <2>2 DEF MappedAs
  <2>4. QED
    BY <1>5, <2>1, <2>3 DEF MappedAs
<1>8. MappedAs(e, h, v)
  BY <1>5, <1>6 DEF MappedAs
<1>9. \A a \in Va : e.at[a] # Unmapped =>
         /\ \E x \in Va : a \in Cells(x, e.ranges[x])
         /\ \E k \in Handle, x \in Va : <<k, x>> \in N /\ a \in Cells(x, Len(e.memory[k].data))
  BY <1>5, <1>6 DEF Tidy, Neat, With
<1>10. Neat(e, N)
  BY <1>5, <1>7, <1>8, <1>9 DEF Tidy, Neat, With
<1>11. QED
  BY <1>3, <1>5, <1>6, <1>10 DEF Tidy

(* What the device writes maps nothing. *)
LEMMA TidyWritten ==
    ASSUME NEW d, NEW M, Tidy(d, M), NEW v, NEW n, NEW val,
           \A a \in Cells(v, n) : val[a] \in Datum, NEW e, e = Written(d, v, n, val)
    PROVE  /\ Tidy(e, M) /\ e # Nil /\ e.ranges = d.ranges /\ e.at = d.at
           /\ \A h \in Handle :
                 /\ e.memory[h].open = d.memory[h].open /\ e.memory[h].loc = d.memory[h].loc
                 /\ Len(e.memory[h].data) = Len(d.memory[h].data)
                 /\ d.memory[h] = NoMemory => e.memory[h] = NoMemory
<1>1. /\ Sound(e) /\ e # Nil /\ e.ranges = d.ranges /\ e.at = d.at
      /\ \A h \in Handle :
            /\ e.memory[h].open = d.memory[h].open /\ e.memory[h].loc = d.memory[h].loc
            /\ Len(e.memory[h].data) = Len(d.memory[h].data)
            /\ d.memory[h] = NoMemory => e.memory[h] = NoMemory
  BY WrittenState DEF Tidy
<1>2. \A h \in Handle, w \in Va : <<h, w>> \in M => MappedAs(e, h, w)
  BY <1>1 DEF Tidy, Neat, MappedAs
<1>3. \A a \in Va : e.at[a] # Unmapped =>
         /\ \E w \in Va : a \in Cells(w, e.ranges[w])
         /\ \E h \in Handle, w \in Va : <<h, w>> \in M /\ a \in Cells(w, Len(e.memory[h].data))
  BY <1>1 DEF Tidy, Neat
<1>4. Neat(e, M)
  BY <1>1, <1>2, <1>3 DEF Tidy, Neat
<1>5. QED
  BY <1>1, <1>4 DEF Tidy

(* What is mapped can be unmapped; its memory has its handle and stays. *)
LEMMA TidyUnmap ==
    ASSUME NEW d, NEW M, Tidy(d, M), NEW h \in Handle, NEW v \in Va, <<h, v>> \in M,
           NEW n, n = Len(d.memory[h].data), NEW e, e = MemUnmap(d, v, n), NEW N,
           Without(N, M, h, v)
    PROVE  /\ Tidy(e, N) /\ e # Nil
           /\ e.ranges = d.ranges /\ \A k \in Handle : e.memory[k] = d.memory[k]
           /\ \A a \in Va : e.at[a] = IF a \in Cells(v, n) THEN Unmapped ELSE d.at[a]
<1>1. n \in Nat /\ n > 0 /\ v \in Nat /\ MappedAs(d, h, v)
  BY MemoryType, ManagerAssumption DEF Tidy, Sound, Neat, MappedAs
<1>2. v \in Cells(v, n)
  BY <1>1 DEF Cells
<1>3. d.at[v] = [h |-> h, off |-> v - v, rw |-> TRUE]
  BY <1>1, <1>2 DEF MappedAs
<1>4. d.at[v].h = h /\ h # 0 /\ d.at[v].off = 0
  BY <1>1, <1>3, ManagerAssumption DEF Handle
<1>5. /\ Sound(e) /\ e # Nil /\ e.ranges = d.ranges
      /\ \A a \in Va : e.at[a] = IF a \in Cells(v, n) THEN Unmapped ELSE d.at[a]
      /\ \A k \in Handle : /\ e.memory[k] \in {d.memory[k], NoMemory}
                           /\ d.memory[k].open => e.memory[k] = d.memory[k]
  BY <1>4, UnmapState DEF Tidy
<1>6. \A k \in Handle : e.memory[k] = d.memory[k]
  BY <1>5 DEF Tidy, Neat
<1>7. ASSUME NEW k \in Handle, NEW x \in Va, <<k, x>> \in N PROVE MappedAs(e, k, x)
  <2>1. MappedAs(d, k, x) /\ x \in Nat
    BY <1>7, ManagerAssumption DEF Tidy, Neat, Without
  <2>2. ASSUME NEW a \in Cells(x, Len(d.memory[k].data)), a \in Cells(v, n) PROVE FALSE
    <3>1. [h |-> h, off |-> a - v, rw |-> TRUE] = [h |-> k, off |-> a - x, rw |-> TRUE]
      BY <1>1, <2>1, <2>2 DEF MappedAs
    <3>2. h = k /\ a - v = a - x /\ a \in Nat
      BY <1>1, <2>1, <2>2, <3>1, ManagerAssumption DEF MappedAs
    <3>3. v = x
      BY <1>1, <2>1, <3>2
    <3>4. QED
      BY <1>7, <3>2, <3>3 DEF Without
  <2>3. QED
    BY <1>5, <1>6, <2>1, <2>2 DEF MappedAs
<1>8. ASSUME NEW a \in Va, e.at[a] # Unmapped
      PROVE  /\ \E w \in Va : a \in Cells(w, e.ranges[w])
             /\ \E k \in Handle, x \in Va : <<k, x>> \in N /\ a \in Cells(x, Len(e.memory[k].data))
  <2>1. a \notin Cells(v, n) /\ d.at[a] # Unmapped
    BY <1>5, <1>8
  <2>2. PICK k \in Handle, x \in Va : <<k, x>> \in M /\ a \in Cells(x, Len(d.memory[k].data))
    BY <2>1 DEF Tidy, Neat
  <2>3. k # h \/ x # v
    BY <2>1, <2>2
  <2>4. \E w \in Va : a \in Cells(w, e.ranges[w])
    BY <1>5, <2>1 DEF Tidy, Neat
  <2>5. QED
    BY <1>6, <2>2, <2>3, <2>4 DEF Without
<1>9. Neat(e, N)
  BY <1>6, <1>7, <1>8 DEF Tidy, Neat
<1>10. QED
  BY <1>5, <1>6, <1>9 DEF Tidy

(* Memory mapped nowhere goes with its handle. *)
LEMMA TidyRelease ==
    ASSUME NEW d, NEW M, Tidy(d, M), NEW h \in Handle, d.memory[h].open,
           \A v \in Va : <<h, v>> \notin M, NEW e, e = MemRelease(d, h)
    PROVE  /\ Tidy(e, M) /\ e # Nil /\ e.ranges = d.ranges /\ e.at = d.at
           /\ e.memory[h] = NoMemory /\ \A k \in Handle \ {h} : e.memory[k] = d.memory[k]
<1>1. /\ Sound(e) /\ e # Nil /\ e.ranges = d.ranges /\ e.at = d.at
      /\ \A k \in Handle \ {h} : /\ e.memory[k] \in {d.memory[k], NoMemory}
                                 /\ d.memory[k].open => e.memory[k] = d.memory[k]
      /\ (\A a \in Va : d.at[a].h # h) => e.memory[h] = NoMemory
  BY ReleaseState DEF Tidy
<1>2. \A a \in Va : d.at[a].h # h
  <2> SUFFICES ASSUME NEW a \in Va, d.at[a].h = h PROVE FALSE
    OBVIOUS
  <2>1. d.at[a] # Unmapped
    BY ManagerAssumption DEF Unmapped, Handle
  <2>2. PICK k \in Handle, x \in Va : <<k, x>> \in M /\ a \in Cells(x, Len(d.memory[k].data))
    BY <2>1 DEF Tidy, Neat
  <2>3. d.at[a] = [h |-> k, off |-> a - x, rw |-> TRUE]
    BY <2>2 DEF Tidy, Neat, MappedAs
  <2>4. QED
    BY <2>2, <2>3
<1>3. e.memory[h] = NoMemory /\ \A k \in Handle \ {h} : e.memory[k] = d.memory[k]
  BY <1>1, <1>2 DEF Tidy, Neat
<1>4. \A k \in Handle, x \in Va : <<k, x>> \in M => MappedAs(e, k, x) /\ e.memory[k] = d.memory[k]
  BY <1>1, <1>3 DEF Tidy, Neat, MappedAs
<1>5. \A a \in Va : e.at[a] # Unmapped =>
         /\ \E w \in Va : a \in Cells(w, e.ranges[w])
         /\ \E k \in Handle, x \in Va : <<k, x>> \in M /\ a \in Cells(x, Len(e.memory[k].data))
  BY <1>1, <1>4 DEF Tidy, Neat
<1>6. \A k \in Handle : e.memory[k] = NoMemory \/ e.memory[k].open
  BY <1>3 DEF Tidy, Neat
<1>7. QED
  BY <1>1, <1>3, <1>4, <1>5, <1>6 DEF Tidy, Neat

IsChunk(c) ==
    /\ c = [size |-> c.size, loc |-> c.loc, h |-> c.h, va |-> c.va]
    /\ c.size \in Nat \ {0} /\ c.loc \in Loc /\ c.h \in Handle /\ c.va \in {0} \cup Va

LiveIn(ch) == {i \in Id : ch[i] # NoChunk}

Typed(ch) == ch = [i \in Id |-> ch[i]] /\ \A i \in LiveIn(ch) : IsChunk(ch[i])

(* The Manager's records have their types; every id is below next_id_. *)
Records ==
    /\ reservations \in [Va -> Nat] /\ Typed(chunks)
    /\ next \in 0 .. MaxId /\ \A i \in Live : i < next

(* A variable of kind chunk holds the id of a chunk that was once created. *)
Values ==
    /\ vals \in [Name -> [kind : Kind \cup {"None"}, num : Nat]]
    /\ kinds \in [Name -> Kind \cup {"None"}]
    /\ \A n \in Name : vals[n].kind = "Chunk" => vals[n].num \in Id /\ vals[n].num < next

(* Failures of the driver with no cause, and what they may have left. *)
Counters == faults \in 0 .. MaxFault /\ broken \in BOOLEAN

(* The driver holds every range that the Manager has a record of. *)
Fits(d) == Sound(d) /\ \A v \in Va : reservations[v] > 0 => d.ranges[v] = reservations[v]

-----------------------------------------------------------------------------
(* cuMemAddressReserve gives no range on record; only a free takes one.    *)
LEMMA ReserveFits ==
    ASSUME Records, NEW d, d # Nil => Fits(d), NEW v \in Va, NEW n \in Nat,
           AddressReserve(d, v, n) # Nil
    PROVE  Fits(AddressReserve(d, v, n)) /\ reservations[v] = 0 /\ n > 0
<1>1. d # Nil /\ Fits(d) /\ Reservable(d, v, n)
  BY DEF AddressReserve
<1>2. d.ranges[v] \in Nat /\ v \in Nat /\ n > 0 /\ Cells(v, d.ranges[v]) \cap Cells(v, n) = {}
  BY <1>1, ManagerAssumption DEF Fits, Sound, Reservable
<1>3. d.ranges[v] = 0
  BY <1>2 DEF Cells
<1>4. reservations[v] = 0
  BY <1>1, <1>3, Z3 DEF Fits, Records
<1>5. PICK e : e = AddressReserve(d, v, n)
  OBVIOUS
<1>6. Sound(e) /\ e.ranges = [d.ranges EXCEPT ![v] = n]
  BY <1>1, <1>5, ReserveState DEF Fits
<1>7. Fits(e)
  BY <1>1, <1>4, <1>6 DEF Fits, Sound
<1>8. QED
  BY <1>2, <1>4, <1>5, <1>7

(* cuMemAddressFree of a range that is not on record. *)
LEMMA FreeFits ==
    ASSUME Records, NEW d, d # Nil => Fits(d), NEW v \in Va, NEW n, reservations[v] = 0,
           AddressFree(d, v, n) # Nil
    PROVE  Fits(AddressFree(d, v, n))
<1>1. Fits(d) /\ d.ranges[v] = n /\ \A a \in Cells(v, n) : d.at[a] = Unmapped
  BY DEF AddressFree
<1>2. PICK e : e = AddressFree(d, v, n)
  OBVIOUS
<1>3. Sound(e) /\ e.ranges = [d.ranges EXCEPT ![v] = 0]
  BY <1>1, <1>2, FreeState DEF Fits
<1>4. QED
  BY <1>1, <1>2, <1>3 DEF Fits, Sound

(* The calls that keep the ranges. *)
LEMMA SameRangesFits ==
    ASSUME NEW d, Fits(d), NEW e, Sound(e), e.ranges = d.ranges PROVE Fits(e)
BY DEF Fits

(* cuMemCreate. *)
LEMMA CreateFits ==
    ASSUME NEW d, d # Nil => Fits(d), NEW h \in Handle, d.memory[h] = NoMemory,
           NEW n \in Nat, NEW l \in Loc, MemCreate(d, h, n, l) # Nil
    PROVE  Fits(MemCreate(d, h, n, l))
<1>1. Fits(d)
  BY DEF MemCreate
<1>2. QED
  BY <1>1, CreateState, SameRangesFits DEF Fits

(* cuMemMap. *)
LEMMA MapFits ==
    ASSUME NEW d, d # Nil => Fits(d), NEW v \in Nat, NEW h \in Handle, MemMap(d, v, h) # Nil
    PROVE  Fits(MemMap(d, v, h))
<1>1. Fits(d) /\ Mappable(d, v, h)
  BY DEF MemMap
<1>2. QED
  BY <1>1, MapState, SameRangesFits DEF Fits

(* cuMemSetAccess. *)
LEMMA AccessFits ==
    ASSUME NEW d, d # Nil => Fits(d), NEW v, NEW n, SetAccess(d, v, n) # Nil
    PROVE  Fits(SetAccess(d, v, n))
<1>1. Fits(d) /\ \A a \in Cells(v, n) : a \in Va /\ d.at[a].h # 0
  BY DEF SetAccess
<1>2. QED
  BY <1>1, AccessState, SameRangesFits DEF Fits

(* cuMemRelease. *)
LEMMA ReleaseFits ==
    ASSUME NEW d, d # Nil => Fits(d), NEW h \in Handle, MemRelease(d, h) # Nil
    PROVE  Fits(MemRelease(d, h))
<1>1. Fits(d) /\ d.memory[h].open
  BY DEF MemRelease
<1>2. QED
  BY <1>1, ReleaseState, SameRangesFits DEF Fits

(* cuMemUnmap. *)
LEMMA UnmapFits ==
    ASSUME NEW d, d # Nil => Fits(d), NEW v \in Va, NEW n, MemUnmap(d, v, n) # Nil
    PROVE  Fits(MemUnmap(d, v, n))
<1>1. Fits(d) /\ d.at[v].h # 0 /\ d.at[v].off = 0 /\ Len(d.memory[d.at[v].h].data) = n
  BY DEF MemUnmap
<1>2. QED
  BY <1>1, UnmapState, SameRangesFits DEF Fits

(* A write by the device. *)
LEMMA WrittenFits ==
    ASSUME NEW d, Fits(d), NEW v, NEW n, NEW val, \A a \in Cells(v, n) : val[a] \in Datum
    PROVE  Fits(Written(d, v, n, val))
<1>1. Sound(Written(d, v, n, val)) /\ Written(d, v, n, val).ranges = d.ranges
  BY WrittenState DEF Fits
<1>2. QED
  BY <1>1, SameRangesFits

(* A copy by the device. *)
LEMMA MemcpyFits ==
    ASSUME NEW d, d # Nil => Fits(d), NEW to \in Nat, NEW from \in Nat, NEW n \in Nat,
           Cells(from, n) \subseteq Va, Memcpy(d, to, from, n) # Nil
    PROVE  Fits(Memcpy(d, to, from, n))
<1>1. Fits(d) /\ Accessible(d, from, n) /\ Accessible(d, to, n)
  BY DEF Memcpy
<1>2. PICK val : val = [a \in Cells(to, n) |-> Read(d, from + a - to)]
  OBVIOUS
<1>3. Memcpy(d, to, from, n) = Written(d, to, n, val) /\ \A a \in Cells(to, n) : val[a] \in Datum
  BY <1>1, <1>2, MemcpyState DEF Fits
<1>4. QED
  BY <1>1, <1>3, WrittenFits

(* Wherever a sequence of driver calls stops. *)
LEMMA CallsFit ==
    ASSUME Counters, NEW ds, Len(ds) \in Nat \ {0},
           \A i \in 1 .. Len(ds) : ds[i] # Nil => Fits(ds[i]),
           Works(ds) \/ Stops(ds), reservations' = reservations
    PROVE  Fits(driver)' /\ Counters' /\ (Works(ds) => UNCHANGED faults)
<1>1. PICK i \in 1 .. Len(ds) : ds[i] # Nil /\ driver' = ds[i]
  BY DEF Works, Stops
<1>2. Fits(driver)'
  BY <1>1 DEF Fits, Sound
<1>3. Quiet \/ Fault
  BY DEF Works, Stops
<1>4. Counters'
  BY <1>3, ManagerAssumption DEF Counters, Quiet, Fault
<1>5. QED
  BY <1>2, <1>4 DEF Works, Quiet

-----------------------------------------------------------------------------
(* What every call keeps, and what it returns for a variable of kind k.    *)
Kept(k, r) ==
    /\ Records' /\ Fits(driver)' /\ Placed' /\ Counters'
    /\ next' >= next /\ (r # Failed => UNCHANGED faults)
    /\ \A i \in Id : i < next /\ chunks[i] = NoChunk => chunks'[i] = NoChunk
    /\ r # Failed => r \in Nat /\ (k = "Chunk" => r \in Id /\ r < next')

Ready == Records /\ Fits(driver) /\ Placed /\ Counters

(* A call that is refused, or only looks. *)
LEMMA SameKept ==
    ASSUME Ready, UNCHANGED vars, NEW k, NEW r, r = Failed \/ (r \in Nat /\ k # "Chunk")
    PROVE  Kept(k, r)
<1>1. Records'
  BY DEF Ready, vars, records, Records, Typed, LiveIn, Live
<1>2. Fits(driver)'
  BY DEF Ready, vars, records, Fits, Sound
<1>3. Placed' /\ Counters'
  BY DEF Ready, vars, records, Placed, Live, Counters
<1>4. next' >= next /\ (\A i \in Id : chunks'[i] = chunks[i]) /\ UNCHANGED faults
  BY DEF Ready, vars, records, Records
<1>5. QED
  BY <1>1, <1>2, <1>3, <1>4 DEF Kept

(* Calls that leave the records alone, wherever they stop. *)
LEMMA SameRecordsKept ==
    ASSUME Ready, UNCHANGED records, Fits(driver)', Counters', NEW k, NEW r,
           r = Failed \/ (r \in Nat /\ k # "Chunk" /\ UNCHANGED faults)
    PROVE  Kept(k, r)
BY DEF Ready, records, Kept, Records, Typed, LiveIn, Live, Placed

(* The driver reserves a range that meets no other, so not one on record. *)
LEMMA ReserveKept ==
    ASSUME Ready, NEW n \in Nat, NEW r, Reserve(n, r) PROVE Kept("Addr", r)
<1> DEFINE d == AddressReserve(driver, r, n)
<1>1. CASE /\ r \in Va /\ Works(<<driver, d>>)
           /\ reservations' = [reservations EXCEPT ![r] = n] /\ UNCHANGED <<chunks, next>>
  <2>1. d # Nil /\ driver' = d /\ Quiet
    BY <1>1 DEF Works
  <2>2. Fits(d) /\ reservations[r] = 0 /\ n > 0
    BY <1>1, <2>1, ReserveFits DEF Ready
  <2>3. d = [driver EXCEPT !.ranges[r] = n]
    BY <2>1 DEF AddressReserve
  <2>4. Fits(driver)'
    <3>1. Sound(driver')
      BY <2>1, <2>2 DEF Fits
    <3>2. driver'.ranges = [driver.ranges EXCEPT ![r] = n]
      BY <2>1, <2>3 DEF Ready, Fits, Sound
    <3>3. QED
      BY <1>1, <3>1, <3>2 DEF Fits, Sound, Ready, Records
  <2>5. Placed'
    BY <1>1, <2>2 DEF Ready, Placed, Live, Records, Cells
  <2>6. Records'
    BY <1>1 DEF Ready, Records, Typed, LiveIn, Live
  <2>7. Counters' /\ UNCHANGED faults
    BY <2>1 DEF Ready, Counters, Quiet
  <2>8. QED
    BY <1>1, <2>4, <2>5, <2>6, <2>7, ManagerAssumption DEF Kept, Ready, Records, Failed
<1>2. CASE r = Failed /\ UNCHANGED <<records, driver>> /\ (Quiet \/ Fault)
  <2>1. Fits(driver)'
    BY <1>2 DEF Ready, Fits, Sound, records
  <2>2. Counters'
    BY <1>2, ManagerAssumption DEF Ready, Counters, Quiet, Fault
  <2>3. QED
    BY <1>2, <2>1, <2>2, SameRecordsKept
<1>3. QED
  BY <1>1, <1>2 DEF Reserve, records

(* create takes the next id and gives an unmapped chunk. *)
LEMMA CreateKept ==
    ASSUME Ready, NEW n \in Nat, NEW l \in Loc, NEW r, Create(n, l, r) PROVE Kept("Chunk", r)
<1>1. CASE Refused(r)
  BY <1>1, SameKept DEF Refused
<1>2. ASSUME NEW h \in Fresh, NEW ds, ds = <<driver, MemCreate(driver, h, n, l)>>,
             Works(ds) \/ Stops(ds), reservations' = reservations
      PROVE  Fits(driver)' /\ Counters' /\ (Works(ds) => UNCHANGED faults)
  <2>1. MemCreate(driver, h, n, l) # Nil => Fits(MemCreate(driver, h, n, l))
    BY CreateFits DEF Ready, Fresh
  <2>2. Len(ds) \in Nat \ {0} /\ \A i \in 1 .. Len(ds) : ds[i] # Nil => Fits(ds[i])
    BY <1>2, <2>1 DEF Ready
  <2>3. QED
    BY <1>2, <2>2, CallsFit DEF Ready
<1>3. ASSUME NEW h \in Fresh, r = Failed, Stops(<<driver, MemCreate(driver, h, n, l)>>),
             UNCHANGED records
      PROVE  Kept("Chunk", r)
  BY <1>2, <1>3, SameRecordsKept DEF records
<1>4. ASSUME NEW h \in Fresh, n > 0, next < MaxId, r = next, NEW c,
             c = [size |-> n, loc |-> l, h |-> h, va |-> 0],
             Works(<<driver, MemCreate(driver, h, n, l)>>),
             chunks' = [chunks EXCEPT ![r] = c], next' = next + 1, UNCHANGED reservations
      PROVE  Kept("Chunk", r)
  <2>1. Fits(driver)' /\ Counters' /\ UNCHANGED faults
    BY <1>2, <1>4
  <2>2. next \in Id /\ next' \in 0 .. MaxId /\ next' > next
    BY <1>4, ManagerAssumption DEF Ready, Records, Id
  <2>3. IsChunk(c) /\ c.size > 0 /\ c.va = 0
    BY <1>4 DEF IsChunk, Fresh
  <2>4. chunks'[r] = c /\ (\A i \in Id \ {r} : chunks'[i] = chunks[i])
        /\ chunks' = [i \in Id |-> chunks'[i]]
    BY <1>4, <2>2 DEF Ready, Records, Typed
  <2>5. Records'
    <3>1. Typed(chunks')
      BY <2>3, <2>4 DEF Ready, Records, Typed, LiveIn
    <3>2. \A i \in Live' : i < next'
      BY <1>4, <2>2, <2>4 DEF Ready, Records, Live, Id
    <3>3. QED
      BY <1>4, <2>2, <3>1, <3>2 DEF Ready, Records, Typed, LiveIn
  <2>6. Placed'
    BY <1>4, <2>2, <2>3, <2>4 DEF Ready, Placed, Live
  <2>7. QED
    BY <1>4, <2>1, <2>2, <2>4, <2>5, <2>6 DEF Kept, Ready, Records, Id
<1>5. QED
  BY <1>1, <1>3, <1>4 DEF Create, records

(* The record of one chunk changes: where it is mapped, or its memory. *)
LEMMA ChunkKept ==
    ASSUME Ready, NEW i \in Live, NEW c, IsChunk(c),
           c.va # 0 => \E v \in Va : /\ reservations[v] > 0
                                     /\ Cells(c.va, c.size) \subseteq Cells(v, reservations[v]),
           chunks' = [chunks EXCEPT ![i] = c], UNCHANGED <<reservations, next>>,
           Fits(driver)', Counters', UNCHANGED faults, NEW r \in Nat
    PROVE  Kept("Addr", r)
<1>1. chunks'[i] = c /\ (\A j \in Id \ {i} : chunks'[j] = chunks[j])
      /\ chunks' = [j \in Id |-> chunks'[j]]
  BY DEF Ready, Records, Typed, Live
<1>2. Records'
  <2>1. Typed(chunks')
    BY <1>1 DEF Ready, Records, Typed, LiveIn
  <2>2. \A j \in Live' : j < next'
    BY <1>1 DEF Ready, Records, Live
  <2>3. QED
    BY <2>1, <2>2 DEF Ready, Records, Typed, LiveIn
<1>3. Placed'
  BY <1>1 DEF Ready, Placed, Live
<1>4. \A j \in Id : j < next /\ chunks[j] = NoChunk => chunks'[j] = NoChunk
  BY <1>1 DEF Live
<1>5. QED
  BY <1>2, <1>3, <1>4 DEF Kept, Ready, Records

(* A live chunk has its type. *)
LEMMA LiveChunk == ASSUME Ready, NEW i \in Live PROVE IsChunk(chunks[i]) /\ chunks[i].va \in Nat
BY ManagerAssumption DEF Ready, Records, Typed, LiveIn, Live, IsChunk

(* map places a chunk inside a reservation, or leaves the records alone. *)
LEMMA MapKept ==
    ASSUME Ready, NEW i, NEW v \in Nat, NEW r, Map(i, v, r) PROVE Kept("Addr", r)
<1>1. CASE Refused(r)
  BY <1>1, SameKept DEF Refused
<1>2. ASSUME i \in Live, NEW c, c = chunks[i], NEW mapped, mapped = MemMap(driver, v, c.h),
             NEW ds, ds = <<driver, mapped, SetAccess(mapped, v, c.size)>>,
             Works(ds) \/ Stops(ds), reservations' = reservations
      PROVE  Fits(driver)' /\ Counters' /\ (Works(ds) => UNCHANGED faults)
  <2>1. mapped # Nil => Fits(mapped)
    BY <1>2, MapFits, LiveChunk DEF Ready, IsChunk
  <2>2. SetAccess(mapped, v, c.size) # Nil => Fits(SetAccess(mapped, v, c.size))
    BY <2>1, AccessFits
  <2>3. Len(ds) \in Nat \ {0} /\ \A j \in 1 .. Len(ds) : ds[j] # Nil => Fits(ds[j])
    BY <1>2, <2>1, <2>2 DEF Ready
  <2>4. QED
    BY <1>2, <2>3, CallsFit DEF Ready
<1>3. ASSUME i \in Live, Inside(v, chunks[i].size), NEW ds,
             ds = <<driver, MemMap(driver, v, chunks[i].h),
                    SetAccess(MemMap(driver, v, chunks[i].h), v, chunks[i].size)>>,
             UNCHANGED <<reservations, next>>,
             \/ r = v /\ Works(ds) /\ chunks' = [chunks EXCEPT ![i].va = v]
             \/ r = Failed /\ Stops(ds) /\ UNCHANGED chunks
      PROVE  Kept("Addr", r)
  <2>1. Fits(driver)' /\ Counters' /\ (Works(ds) => UNCHANGED faults)
    BY <1>2, <1>3
  <2>2. CASE r = Failed /\ UNCHANGED chunks
    BY <1>3, <2>1, <2>2, SameRecordsKept DEF records
  <2>3. CASE r = v /\ Works(ds) /\ chunks' = [chunks EXCEPT ![i].va = v]
    <3>1. PICK c : c = chunks[i]
      OBVIOUS
    <3>2. IsChunk(c)
      BY <1>3, <3>1, LiveChunk
    <3>3. PICK n : n = [size |-> c.size, loc |-> c.loc, h |-> c.h, va |-> v]
      OBVIOUS
    <3>4. v \in Va
      <4>1. v \in Cells(v, c.size)
        BY <3>2 DEF IsChunk, Cells
      <4>2. QED
        BY <1>3, <3>1, <4>1 DEF Inside, Ready, Fits, Sound
    <3>5. IsChunk(n) /\ n.size = c.size /\ n.va = v
      BY <3>2, <3>3, <3>4 DEF IsChunk
    <3>6. chunks' = [chunks EXCEPT ![i] = n]
      <4>1. [c EXCEPT !.va = v] = n
        BY <3>2, <3>3 DEF IsChunk
      <4>2. QED
        BY <2>3, <3>1, <4>1
    <3>7. \E w \in Va : reservations[w] > 0 /\ Cells(n.va, n.size) \subseteq Cells(w, reservations[w])
      BY <1>3, <3>1, <3>5 DEF Inside
    <3>8. QED
      BY <1>3, <2>1, <2>3, <3>5, <3>6, <3>7, ChunkKept
  <2>4. QED
    BY <1>3, <2>2, <2>3
<1>4. QED
  BY <1>1, <1>3 DEF Map

(* unmap moves no chunk but takes this one from its place. *)
LEMMA UnmapKept ==
    ASSUME Ready, NEW i, NEW r, Unmap(i, r) PROVE Kept("Addr", r)
<1>1. CASE Refused(r)
  BY <1>1, SameKept DEF Refused
<1>2. ASSUME i \in Live, NEW c, c = chunks[i], c.va # 0,
             NEW ds, ds = <<driver, MemUnmap(driver, c.va, c.size)>>,
             UNCHANGED <<reservations, next>>,
             \/ r = c.va /\ Works(ds) /\ chunks' = [chunks EXCEPT ![i].va = 0]
             \/ r = Failed /\ Stops(ds) /\ UNCHANGED chunks
      PROVE  Kept("Addr", r)
  <2>1. IsChunk(c) /\ c.va \in Va /\ c.va \in Nat
    BY <1>2, LiveChunk DEF IsChunk
  <2>2. Len(ds) \in Nat \ {0} /\ \A j \in 1 .. Len(ds) : ds[j] # Nil => Fits(ds[j])
    BY <1>2, <2>1, UnmapFits DEF Ready
  <2>3. Fits(driver)' /\ Counters' /\ (Works(ds) => UNCHANGED faults)
    BY <1>2, <2>2, CallsFit DEF Ready
  <2>4. CASE r = Failed /\ UNCHANGED chunks
    BY <1>2, <2>3, <2>4, SameRecordsKept DEF records
  <2>5. CASE r = c.va /\ Works(ds) /\ chunks' = [chunks EXCEPT ![i].va = 0]
    <3>1. PICK n : n = [size |-> c.size, loc |-> c.loc, h |-> c.h, va |-> 0]
      OBVIOUS
    <3>2. IsChunk(n) /\ n.va = 0
      BY <2>1, <3>1 DEF IsChunk
    <3>3. chunks' = [chunks EXCEPT ![i] = n]
      BY <1>2, <2>1, <2>5, <3>1 DEF IsChunk
    <3>4. QED
      BY <1>2, <2>1, <2>3, <2>5, <3>2, <3>3, ChunkKept
  <2>6. QED
    BY <1>2, <2>4, <2>5
<1>3. QED
  BY <1>1, <1>2 DEF Unmap

-----------------------------------------------------------------------------
(* A mapped chunk lies in the address space. *)
LEMMA PlacedInVa ==
    ASSUME Ready, NEW i \in Live, chunks[i].va # 0
    PROVE  Cells(chunks[i].va, chunks[i].size) \subseteq Va
BY DEF Ready, Placed, Fits, Sound

(* The scratch range was free, so it is not one on record, and giving it   *)
(* back takes none of the Manager's.                                       *)
LEMMA RemapFits ==
    ASSUME Ready, NEW i \in Live, chunks[i].va # 0, NEW h \in Fresh, NEW l \in Loc,
           NEW s \in Scratch(chunks[i].size),
           NEW ds, ds = RemapCalls(chunks[i], h, s, l),
           Works(ds) \/ Stops(ds), reservations' = reservations
    PROVE  Fits(driver)' /\ Counters' /\ (Works(ds) => UNCHANGED faults)
<1> DEFINE Fine(d) == d # Nil => Fits(d)
<1>1. PICK c : c = chunks[i]
  OBVIOUS
<1>2. /\ c.size \in Nat /\ c.h \in Handle /\ c.va \in Va /\ c.va \in Nat
      /\ Cells(c.va, c.size) \subseteq Va
  BY <1>1, LiveChunk, PlacedInVa DEF IsChunk
<1>3. s \in Va /\ s \in Nat /\ reservations[s] = 0
  <2>1. s \in Va /\ AddressReserve(driver, s, c.size) # Nil
    BY <1>1 DEF Scratch
  <2>2. QED
    BY <1>2, <2>1, ReserveFits, ManagerAssumption DEF Ready
<1>4. h \in Handle /\ driver.memory[h] = NoMemory
  BY DEF Fresh
<1>5. PICK d1 : d1 = MemCreate(driver, h, c.size, l)
  OBVIOUS
<1>6. PICK d2 : d2 = AddressReserve(d1, s, c.size)
  OBVIOUS
<1>7. PICK d3 : d3 = MemMap(d2, s, h)
  OBVIOUS
<1>8. PICK d4 : d4 = SetAccess(d3, s, c.size)
  OBVIOUS
<1>9. PICK d5 : d5 = Memcpy(d4, s, c.va, c.size)
  OBVIOUS
<1>10. PICK d6 : d6 = MemUnmap(d5, c.va, c.size)
  OBVIOUS
<1>11. PICK d7 : d7 = MemRelease(d6, c.h)
  OBVIOUS
<1>12. PICK d8 : d8 = MemMap(d7, c.va, h)
  OBVIOUS
<1>13. PICK d9 : d9 = SetAccess(d8, c.va, c.size)
  OBVIOUS
<1>14. PICK d10 : d10 = MemUnmap(d9, s, c.size)
  OBVIOUS
<1>15. PICK d11 : d11 = AddressFree(d10, s, c.size)
  OBVIOUS
<1>16. ds = <<driver, d1, d2, d3, d4, d5, d6, d7, d8, d9, d10, d11>>
  BY <1>1, <1>5, <1>6, <1>7, <1>8, <1>9, <1>10, <1>11, <1>12, <1>13, <1>14, <1>15
     DEF RemapCalls, Copied, ScratchFreed
<1>17. Fine(d1)
  BY <1>2, <1>4, <1>5, CreateFits DEF Ready
<1>18. Fine(d2)
  BY <1>2, <1>3, <1>6, <1>17, ReserveFits DEF Ready
<1>19. Fine(d3)
  BY <1>3, <1>4, <1>7, <1>18, MapFits
<1>20. Fine(d4)
  BY <1>8, <1>19, AccessFits
<1>21. Fine(d5)
  BY <1>2, <1>3, <1>9, <1>20, MemcpyFits
<1>22. Fine(d6)
  BY <1>2, <1>10, <1>21, UnmapFits
<1>23. Fine(d7)
  BY <1>2, <1>11, <1>22, ReleaseFits
<1>24. Fine(d8)
  BY <1>2, <1>4, <1>12, <1>23, MapFits
<1>25. Fine(d9)
  BY <1>13, <1>24, AccessFits
<1>26. Fine(d10)
  BY <1>3, <1>14, <1>25, UnmapFits
<1>27. Fine(d11)
  BY <1>3, <1>15, <1>26, FreeFits DEF Ready
<1>28. Fine(driver)
  BY DEF Ready
<1> HIDE DEF Fine
<1>29. Len(ds) \in Nat \ {0} /\ \A j \in 1 .. Len(ds) : Fine(ds[j])
  BY <1>16, <1>17, <1>18, <1>19, <1>20, <1>21, <1>22, <1>23, <1>24, <1>25, <1>26, <1>27, <1>28
<1>30. QED
  BY <1>29, CallsFit DEF Fine, Ready

(* remap changes the memory of a chunk, and never its place. *)
LEMMA RemapKept ==
    ASSUME Ready, NEW i, NEW l \in Loc, NEW r, Remap(i, l, r) PROVE Kept("Addr", r)
<1>1. CASE Refused(r)
  BY <1>1, SameKept DEF Refused
<1>2. CASE i \in Live /\ r = chunks[i].va /\ UNCHANGED vars
  BY <1>2, SameKept, LiveChunk
<1>3. ASSUME i \in Live, chunks[i].va # 0, NEW h \in Fresh, NEW s \in Scratch(chunks[i].size),
             UNCHANGED <<reservations, next>>,
             NEW ds, ds = RemapCalls(chunks[i], h, s, l),
             \/ r = Failed /\ Stops(ds) /\ UNCHANGED chunks
             \/ /\ r = chunks[i].va /\ Works(ds)
                /\ chunks' = [chunks EXCEPT ![i] = Moved(chunks[i], h, l)]
      PROVE  Kept("Addr", r)
  <2>1. Fits(driver)' /\ Counters' /\ (Works(ds) => UNCHANGED faults)
    BY <1>3, RemapFits
  <2>2. CASE r = Failed /\ UNCHANGED chunks
    BY <1>3, <2>1, <2>2, SameRecordsKept DEF records
  <2>3. CASE /\ r = chunks[i].va /\ Works(ds)
             /\ chunks' = [chunks EXCEPT ![i] = Moved(chunks[i], h, l)]
    <3>1. PICK n : n = Moved(chunks[i], h, l)
      OBVIOUS
    <3>2. IsChunk(n) /\ n.size = chunks[i].size /\ n.va = chunks[i].va /\ r \in Nat
      BY <1>3, <2>3, <3>1, LiveChunk DEF IsChunk, Moved, Fresh
    <3>3. n.va # 0 => \E v \in Va : /\ reservations[v] > 0
                                    /\ Cells(n.va, n.size) \subseteq Cells(v, reservations[v])
      BY <1>3, <3>2 DEF Ready, Placed
    <3>4. QED
      BY <1>3, <2>1, <2>3, <3>1, <3>2, <3>3, ChunkKept
  <2>4. QED
    BY <1>3, <2>2, <2>3
<1>4. QED
  BY <1>1, <1>2, <1>3 DEF Remap

-----------------------------------------------------------------------------
(* A chunk goes off the records. *)
LEMMA ChunkGone ==
    ASSUME Ready, NEW i \in Live, chunks' = [chunks EXCEPT ![i] = NoChunk],
           UNCHANGED <<reservations, next>>
    PROVE  /\ Records' /\ Placed'
           /\ \A j \in Id : chunks[j] = NoChunk => chunks'[j] = NoChunk
<1>1. chunks'[i] = NoChunk /\ (\A j \in Id \ {i} : chunks'[j] = chunks[j])
      /\ chunks' = [j \in Id |-> chunks'[j]]
  BY DEF Ready, Records, Typed, Live
<1>2. Typed(chunks')
  BY <1>1 DEF Ready, Records, Typed, LiveIn
<1>3. \A j \in Live' : j \in Live /\ chunks'[j] = chunks[j]
  BY <1>1 DEF Live
<1>4. QED
  BY <1>1, <1>2, <1>3 DEF Ready, Records, Typed, LiveIn, Placed

(* release takes an unmapped chunk off the records; its id stays taken. *)
LEMMA ReleaseKept ==
    ASSUME Ready, NEW i, NEW r, Release(i, r) PROVE Kept("Size", r)
<1>1. CASE Refused(r)
  BY <1>1, SameKept DEF Refused
<1>2. ASSUME i \in Live, NEW ds, ds = <<driver, MemRelease(driver, chunks[i].h)>>,
             Works(ds) \/ Stops(ds), reservations' = reservations
      PROVE  Fits(driver)' /\ Counters' /\ (Works(ds) => UNCHANGED faults)
  <2>1. chunks[i].h \in Handle
    BY <1>2, LiveChunk DEF IsChunk
  <2>2. Len(ds) \in Nat \ {0} /\ \A j \in 1 .. Len(ds) : ds[j] # Nil => Fits(ds[j])
    BY <1>2, <2>1, ReleaseFits DEF Ready
  <2>3. QED
    BY <1>2, <2>2, CallsFit DEF Ready
<1>3. CASE /\ i \in Live /\ r = Failed /\ Stops(<<driver, MemRelease(driver, chunks[i].h)>>)
           /\ UNCHANGED records
  BY <1>2, <1>3, SameRecordsKept DEF records
<1>4. CASE /\ i \in Live /\ r = chunks[i].size
           /\ Works(<<driver, MemRelease(driver, chunks[i].h)>>)
           /\ chunks' = [chunks EXCEPT ![i] = NoChunk] /\ UNCHANGED <<reservations, next>>
  <2>1. Fits(driver)' /\ Counters' /\ UNCHANGED faults
    BY <1>2, <1>4
  <2>2. Records' /\ Placed' /\ \A j \in Id : chunks[j] = NoChunk => chunks'[j] = NoChunk
    BY <1>4, ChunkGone
  <2>3. r \in Nat
    BY <1>4, LiveChunk DEF IsChunk
  <2>4. QED
    BY <1>4, <2>1, <2>2, <2>3 DEF Kept, Ready, Records
<1>5. QED
  BY <1>1, <1>3, <1>4 DEF Release, NextAfterRelease, records

(* A range in which no mapped chunk begins is none that has a chunk. *)
LEMMA RangeGone ==
    ASSUME Ready, NEW v \in Va, \A i \in Live : chunks[i].va \notin Cells(v, reservations[v]),
           reservations' = [reservations EXCEPT ![v] = 0], UNCHANGED <<chunks, next>>
    PROVE  Records' /\ Placed'
<1>1. Records'
  BY DEF Ready, Records, Typed, LiveIn, Live
<1>2. SUFFICES ASSUME NEW i \in Live, chunks[i].va # 0
               PROVE  \E w \in Va : /\ reservations'[w] > 0
                                    /\ Cells(chunks[i].va, chunks[i].size)
                                          \subseteq Cells(w, reservations'[w])
  BY <1>1 DEF Placed, Live
<1>3. PICK w \in Va : /\ reservations[w] > 0
                      /\ Cells(chunks[i].va, chunks[i].size) \subseteq Cells(w, reservations[w])
  BY <1>2 DEF Ready, Placed
<1>4. chunks[i].va \in Cells(chunks[i].va, chunks[i].size)
  <2>1. chunks[i].va \in Nat /\ chunks[i].size \in Nat \ {0}
    BY LiveChunk DEF IsChunk
  <2>2. QED
    BY <2>1 DEF Cells
<1>5. w # v
  BY <1>3, <1>4
<1>6. QED
  BY <1>3, <1>5 DEF Ready, Records

(* free refuses a range in which a mapped chunk begins, and a chunk placed *)
(* in a range begins in it.                                                *)
LEMMA FreeKept ==
    ASSUME Ready, NEW v, NEW r, Free(v, r) PROVE Kept("Size", r)
<1> DEFINE d == AddressFree(driver, v, reservations[v])
           ds == <<driver, d>>
<1>1. CASE Refused(r)
  BY <1>1, SameKept DEF Refused
<1>2. CASE r = Failed /\ Stops(ds) /\ UNCHANGED records
  <2>1. driver' = driver /\ (Quiet \/ Fault)
    BY <1>2 DEF Stops
  <2>2. Fits(driver)'
    BY <1>2, <2>1 DEF Ready, Fits, Sound, records
  <2>3. Counters'
    BY <2>1, ManagerAssumption DEF Ready, Counters, Quiet, Fault
  <2>4. QED
    BY <1>2, <2>2, <2>3, SameRecordsKept
<1>3. CASE /\ v \in Va /\ reservations[v] # 0
           /\ \A i \in Live : chunks[i].va \notin Cells(v, reservations[v])
           /\ r = reservations[v] /\ Works(ds)
           /\ reservations' = [reservations EXCEPT ![v] = 0] /\ UNCHANGED <<chunks, next>>
  <2>1. driver' = d /\ d # Nil /\ Quiet
    BY <1>3 DEF Works
  <2>2. Sound(d) /\ d.ranges = [driver.ranges EXCEPT ![v] = 0]
    <3>1. driver.ranges[v] = reservations[v] /\ \A a \in Cells(v, reservations[v]) : driver.at[a] = Unmapped
      BY <2>1 DEF AddressFree
    <3>2. QED
      BY <1>3, <3>1, FreeState DEF Ready, Fits
  <2> HIDE DEF d
  <2>3. Fits(driver)'
    BY <1>3, <2>1, <2>2 DEF Ready, Fits, Sound, Records
  <2>4. Records' /\ Placed'
    BY <1>3, RangeGone
  <2>5. Counters' /\ UNCHANGED faults
    BY <2>1 DEF Ready, Counters, Quiet
  <2>6. QED
    BY <1>3, <2>3, <2>4, <2>5 DEF Kept, Ready, Records
<1>4. QED
  BY <1>1, <1>2, <1>3 DEF Free, records

(* fill and check leave the records alone. *)
LEMMA PatternKept ==
    ASSUME Ready, NEW i, NEW fill \in BOOLEAN, NEW r, PatternCall(i, fill, r) PROVE Kept("None", r)
<1>1. CASE Refused(r)
  BY <1>1, SameKept DEF Refused
<1>2. CASE /\ UNCHANGED records /\ driver' = driver /\ Counters'
           /\ r = Failed \/ (r = 0 /\ UNCHANGED faults)
  <2>1. Fits(driver)'
    BY <1>2 DEF Ready, Fits, Sound, records
  <2>2. QED
    BY <1>2, <2>1, SameRecordsKept
<1>3. CASE /\ UNCHANGED records /\ r = 0 /\ Quiet /\ i \in Live
           /\ driver' = Written(driver, chunks[i].va, chunks[i].size,
                                Pattern(i, chunks[i].va, chunks[i].size))
  <2>1. PICK v, n, val : v = chunks[i].va /\ n = chunks[i].size /\ val = Pattern(i, v, n)
    OBVIOUS
  <2>2. v \in Nat /\ n \in Nat
    BY <1>3, <2>1, LiveChunk DEF IsChunk
  <2>3. \A a \in Cells(v, n) : val[a] \in Datum
    BY <1>3, <2>1, <2>2 DEF Pattern, Datum, Cells, Live
  <2>4. Fits(driver')
    BY <1>3, <2>1, <2>3, WrittenFits DEF Ready
  <2>5. Fits(driver)'
    BY <1>3, <2>4 DEF Fits, Sound, records
  <2>6. Counters' /\ UNCHANGED faults
    BY <1>3 DEF Ready, Counters, Quiet
  <2>7. QED
    BY <1>3, <2>5, <2>6, SameRecordsKept
<1>4. ASSUME i \in Live, UNCHANGED records,
             \/ r = Failed /\ UNCHANGED <<driver, faults>> /\ broken' = TRUE
             \/ r = Failed /\ Fault /\ UNCHANGED driver
             \/ r \in {0, Failed} /\ Quiet /\ UNCHANGED driver
      PROVE  Kept("None", r)
  <2>1. faults' \in 0 .. MaxFault
    BY <1>4, ManagerAssumption DEF Ready, Counters, Quiet, Fault
  <2>2. broken' \in BOOLEAN
    <3>1. broken' = TRUE \/ broken' = broken
      BY <1>4 DEF Quiet, Fault
    <3>2. QED
      BY <3>1 DEF Ready, Counters
  <2>3. (r = Failed \/ (r = 0 /\ UNCHANGED faults)) /\ driver' = driver
    BY <1>4 DEF Quiet
  <2>4. QED
    BY <1>2, <1>4, <2>1, <2>2, <2>3 DEF Counters
<1>5. QED
  BY <1>1, <1>3, <1>4 DEF PatternCall

-----------------------------------------------------------------------------
(* A statement is one call, on what the variables named hold: nothing, or  *)
(* a value of the right kind.                                              *)
LEMMA RunCalls ==
    ASSUME Values, NEW k, NEW r, Run(k, r)
    PROVE  \/ NoneHere(r)
           \/ k = "Addr" /\ \E n \in Nat : Reserve(n, r)
           \/ k = "Addr" /\ \E i : \E v \in Nat : Map(i, v, r)
           \/ k = "Addr" /\ \E i : Unmap(i, r) \/ Address(i, r) \/ \E l \in Loc : Remap(i, l, r)
           \/ k = "Chunk" /\ \E n \in Nat, l \in Loc : Create(n, l, r)
           \/ k = "Size" /\ \E i : Release(i, r) \/ Free(i, r)
           \/ k = "Size" /\ r = 1 /\ UNCHANGED vars
           \/ k = "None" /\ \E i : Lookup(i, r)
<1>1. \A n \in Name : Has(n, "Size") => vals[n].num \in Nat
  BY DEF Values
<1>2. ASSUME NEW c \in Name, NEW a \in Name, MapCall(c, a, r)
      PROVE  NoneHere(r) \/ \E i : \E v \in Nat : Map(i, v, r)
  <2>1. CASE \E off \in {0} \cup Size : Map(vals[c].num, vals[a].num + off, r)
    <3>1. PICK off \in {0} \cup Size : Map(vals[c].num, vals[a].num + off, r)
      BY <2>1
    <3>2. vals[a].num + off \in Nat
      BY RunnerAssumption DEF Values
    <3>3. QED
      BY <3>1, <3>2
  <2>2. QED
    BY <1>2, <2>1 DEF MapCall
<1>3. CASE k = "Addr"
  <2>1. \/ \E n \in Nat : Reserve(n, r)
        \/ \E c, a \in Name : MapCall(c, a, r)
        \/ \E i : Unmap(i, r) \/ Address(i, r) \/ \E l \in Loc : Remap(i, l, r)
        \/ NoneHere(r)
    BY <1>1, <1>3, RunnerAssumption DEF Run, SizeCall, ChunkCall
  <2>2. QED
    BY <1>2, <1>3, <2>1
<1>4. CASE k = "Chunk"
  <2>1. (\E n \in Nat : \E l \in Loc : Create(n, l, r)) \/ NoneHere(r)
    BY <1>1, <1>4, RunnerAssumption DEF Run, SizeCall
  <2>2. QED
    BY <1>4, <2>1
<1>5. CASE k = "Size"
  <2>1. (\E i : Release(i, r) \/ Free(i, r)) \/ (r = 1 /\ UNCHANGED vars) \/ NoneHere(r)
    BY <1>5 DEF Run, ChunkCall, FreeCall
  <2>2. QED
    BY <1>5, <2>1
<1>6. CASE k = "None"
  <2>1. (\E i : Lookup(i, r)) \/ NoneHere(r)
    BY <1>6 DEF Run, ChunkCall
  <2>2. QED
    BY <1>6, <2>1
<1>7. QED
  BY <1>3, <1>4, <1>5, <1>6 DEF Run

(* Each of them keeps what every call keeps. *)
LEMMA RunKept ==
    ASSUME Ready, Values, NEW k, NEW r, Run(k, r) PROVE Kept(k, r)
<1>1. CASE NoneHere(r)
  BY <1>1, SameKept DEF NoneHere
<1>2. ASSUME k = "Addr", NEW i, Address(i, r) PROVE Kept(k, r)
  <2>1. CASE Refused(r)
    BY <2>1, SameKept DEF Refused
  <2>2. CASE i \in Live /\ r = chunks[i].va /\ UNCHANGED vars
    BY <1>2, <2>2, LiveChunk, SameKept
  <2>3. QED
    BY <1>2, <2>1, <2>2 DEF Address
<1>3. ASSUME k = "Size", r = 1, UNCHANGED vars PROVE Kept(k, r)
  BY <1>3, SameKept
<1>4. ASSUME k = "None", NEW i, Lookup(i, r) PROVE Kept(k, r)
  BY <1>4, SameKept DEF Lookup, Refused
<1>5. QED
  BY <1>1, <1>2, <1>3, <1>4, RunCalls, ReserveKept, MapKept, UnmapKept, RemapKept, CreateKept,
     ReleaseKept, FreeKept

(* The calls that give no result. *)
LEMMA ActKept ==
    ASSUME Ready, NEW r, Act(r) PROVE Kept("None", r)
<1>1. CASE NoneHere(r)
  BY <1>1, SameKept DEF NoneHere
<1>2. CASE \E i : \E fill \in BOOLEAN : PatternCall(i, fill, r)
  BY <1>2, PatternKept
<1>3. QED
  BY <1>1, <1>2 DEF Act, ChunkCall

-----------------------------------------------------------------------------
(* The steps of the program. *)

(* A statement runs one call, and may assign what it returns to a variable. *)
LEMMA StatementStep ==
    ASSUME Ready, Values, Statement
    PROVE  /\ Ready' /\ Values'
           /\ \A i \in Id : i < next /\ chunks[i] = NoChunk => chunks'[i] = NoChunk
           /\ ~errors' => UNCHANGED faults
<1>1. PICK k \in Kind \cup {"None"}, r \in Result :
         /\ Kept(k, r) /\ errors' = (errors \/ r = Failed)
         /\ \/ UNCHANGED program
            \/ \E dst \in Name : kinds' = Declared(dst, k) /\ vals' = Assigned(dst, k, r)
  BY RunKept, ActKept DEF Statement
<1>2. Ready' /\ (~errors' => UNCHANGED faults)
  BY <1>1 DEF Kept, Ready
<1>3. next \in Nat /\ next' \in Nat /\ next' >= next
  BY <1>1, <1>2, ManagerAssumption DEF Ready, Records, Kept
<1>4. ASSUME UNCHANGED program PROVE Values'
  BY <1>3, <1>4 DEF Values, program, Id
<1>5. ASSUME NEW dst \in Name, kinds' = Declared(dst, k), vals' = Assigned(dst, k, r)
      PROVE  Values'
  <2> DEFINE val == IF r = Failed \/ k = "None" THEN NoValue ELSE [kind |-> k, num |-> r]
  <2>1. /\ val \in [kind : Kind \cup {"None"}, num : Nat]
        /\ val.kind = "Chunk" => val.num \in Id /\ val.num < next'
    BY <1>1 DEF Kept, NoValue, Kind
  <2>2. vals' = [vals EXCEPT ![dst] = val]
    BY <1>5 DEF Assigned
  <2> HIDE DEF val
  <2>3. \A n \in Name : vals'[n].kind = "Chunk" => vals'[n].num \in Id /\ vals'[n].num < next'
    BY <1>3, <2>1, <2>2 DEF Values, Id
  <2>4. kinds' \in [Name -> Kind \cup {"None"}]
    BY <1>5 DEF Declared, Values
  <2>5. QED
    BY <2>1, <2>2, <2>3, <2>4 DEF Values
<1>6. Values'
  BY <1>1, <1>4, <1>5
<1>7. \A i \in Id : i < next /\ chunks[i] = NoChunk => chunks'[i] = NoChunk
  BY <1>1 DEF Kept
<1>8. QED
  BY <1>2, <1>6, <1>7

-----------------------------------------------------------------------------
(* The destructor, one chunk or range at a time. *)

(* What becomes of a chunk: the driver keeps or gives back its memory. *)
LEMMA DroppedFits ==
    ASSUME Ready, NEW i \in Live, NEW failing PROVE Fits(Dropped(chunks[i], failing).d)
<1>1. PICK c : c = chunks[i]
  OBVIOUS
<1>2. c.h \in Handle /\ (c.va # 0 => c.va \in Va)
  BY <1>1, LiveChunk DEF IsChunk
<1>3. PICK u : u = IF c.va = 0 THEN Tried
                   ELSE Try(Tried, MemUnmap(driver, c.va, c.size), "unmap", failing)
  OBVIOUS
<1>4. u.d = driver \/ (u.d = MemUnmap(driver, c.va, c.size) /\ u.d # Nil /\ c.va # 0)
  BY <1>3 DEF Try, Tried
<1>5. Fits(u.d)
  BY <1>2, <1>4, UnmapFits DEF Ready
<1>6. PICK w : w = Try(u, MemRelease(u.d, c.h), "release", failing)
  OBVIOUS
<1>7. u = [d |-> u.d, clean |-> u.clean]
  BY <1>3 DEF Try, Tried
<1>8. w.d = u.d \/ (w.d = MemRelease(u.d, c.h) /\ w.d # Nil)
  BY <1>6, <1>7 DEF Try
<1>9. Fits(w.d)
  BY <1>2, <1>5, <1>8, ReleaseFits
<1>10. QED
  BY <1>1, <1>3, <1>6, <1>9 DEF Dropped

(* A range is given back, or stays with the driver. *)
LEMMA FreedSound ==
    ASSUME Ready, NEW v \in Va, NEW failing
    PROVE  LET d == Freed(v, failing).d
           IN  Sound(d) /\ \A w \in Va \ {v} : d.ranges[w] = driver.ranges[w]
<1>1. PICK e : e = AddressFree(driver, v, reservations[v])
  OBVIOUS
<1>2. PICK d : d = Freed(v, failing).d
  OBVIOUS
<1>3. d = driver \/ (d = e /\ e # Nil)
  BY <1>1, <1>2 DEF Freed, Try, Tried
<1>4. CASE d = e /\ e # Nil
  <2>1. driver.ranges[v] = reservations[v] /\ \A a \in Cells(v, reservations[v]) : driver.at[a] = Unmapped
    BY <1>1, <1>4 DEF AddressFree
  <2>2. Sound(e) /\ e.ranges = [driver.ranges EXCEPT ![v] = 0]
    BY <1>1, <2>1, FreeState DEF Ready, Fits
  <2>3. QED
    BY <1>2, <1>4, <2>2 DEF Ready, Fits, Sound
<1>5. QED
  BY <1>2, <1>3, <1>4 DEF Ready, Fits

(* A step of the destructor leaves the records typed and the driver sound. *)
LEMMA DestroyStep ==
    ASSUME Ready, NEW ok \in BOOLEAN, Destroy(ok)
    PROVE  /\ Ready' /\ UNCHANGED next
           /\ \A i \in Id : chunks[i] = NoChunk => chunks'[i] = NoChunk
           /\ ok => UNCHANGED faults
<1>1. CASE Abandon(ok)
  <2>1. Records' /\ Placed'
    BY <1>1 DEF Abandon, Ready, Records, Placed, Typed, LiveIn, Live
  <2>2. Fits(driver)'
    BY <1>1 DEF Abandon, Ready, Fits, Sound
  <2>3. Counters'
    BY <1>1 DEF Abandon, Ready, Counters, Quiet
  <2>4. QED
    BY <1>1, <2>1, <2>2, <2>3 DEF Abandon, Ready
<1>2. ASSUME NEW s, NEW failing, Ends(s, ok, failing)
      PROVE  Counters' /\ driver' = s.d /\ (ok => UNCHANGED faults)
  BY <1>2, ManagerAssumption DEF Ends, Quiet, Fault, Counters, Ready
<1>3. CASE DropChunk(ok)
  <2>1. PICK i \in Live, failing \in {"none", "unmap", "release"} :
           /\ Ends(Dropped(chunks[i], failing), ok, failing)
           /\ chunks' = [chunks EXCEPT ![i] = NoChunk]
           /\ UNCHANGED <<reservations, next>>
    BY <1>3 DEF DropChunk
  <2>2. Fits(driver') /\ Counters' /\ (ok => UNCHANGED faults)
    BY <1>2, <2>1, DroppedFits
  <2>3. Fits(driver)'
    BY <2>1, <2>2 DEF Fits, Sound
  <2>4. Records' /\ Placed' /\ \A j \in Id : chunks[j] = NoChunk => chunks'[j] = NoChunk
    BY <2>1, ChunkGone
  <2>5. QED
    BY <2>1, <2>2, <2>3, <2>4 DEF Ready
<1>4. CASE FreeRange(ok)
  <2>1. PICK v \in Va, failing \in {"none", "free"} :
           /\ Live = {} /\ Ends(Freed(v, failing), ok, failing)
           /\ reservations' = [reservations EXCEPT ![v] = 0]
           /\ UNCHANGED <<chunks, next>>
    BY <1>4 DEF FreeRange
  <2>2. Counters' /\ (ok => UNCHANGED faults) /\ driver' = Freed(v, failing).d
    BY <1>2, <2>1
  <2>3. Sound(driver') /\ \A w \in Va \ {v} : driver'.ranges[w] = driver.ranges[w]
    BY <2>2, FreedSound
  <2>4. \A w \in Va : reservations'[w] > 0 => driver'.ranges[w] = reservations'[w]
    BY <2>1, <2>3 DEF Ready, Fits, Records
  <2>5. Fits(driver)'
    BY <2>3, <2>4 DEF Fits, Sound
  <2>6. Records' /\ Placed'
    BY <2>1, RangeGone
  <2>7. QED
    BY <2>1, <2>2, <2>5, <2>6 DEF Ready
<1>5. QED
  BY <1>1, <1>3, <1>4 DEF Destroy

-----------------------------------------------------------------------------
(* The steps of the program. *)

IInv == Ready /\ Values

(* A step outside the Manager. *)
LEMMA SameInv ==
    ASSUME IInv, UNCHANGED vars,
           \/ UNCHANGED program
           \/ kinds' = [n \in Name |-> "None"] /\ vals' = [n \in Name |-> NoValue]
    PROVE  IInv'
<1>1. Ready'
  BY SameKept DEF IInv, Kept, Ready, Failed
<1>2. Values'
  BY DEF IInv, Values, program, NoValue, Kind, vars, records
<1>3. QED
  BY <1>1, <1>2 DEF IInv

(* A step of the destructor. *)
LEMMA CleanUpStep ==
    ASSUME IInv, CleanUp
    PROVE  /\ IInv' /\ UNCHANGED next
           /\ \A i \in Id : chunks[i] = NoChunk => chunks'[i] = NoChunk
           /\ clean' => UNCHANGED faults
<1>1. PICK ok \in BOOLEAN : Destroy(ok) /\ clean' = (clean /\ ok)
  BY DEF CleanUp
<1>2. Ready' /\ UNCHANGED next /\ (\A i \in Id : chunks[i] = NoChunk => chunks'[i] = NoChunk)
      /\ (ok => UNCHANGED faults)
  BY <1>1, DestroyStep DEF IInv
<1>3. Values'
  BY <1>2 DEF IInv, Values, CleanUp, program
<1>4. QED
  BY <1>1, <1>2, <1>3 DEF IInv

(* Every step of the program keeps the invariant. *)
LEMMA InvStep == IInv /\ [RunNext]_runVars => IInv'
<1> SUFFICES ASSUME IInv, [RunNext]_runVars PROVE IInv'
  OBVIOUS
<1>1. CASE Construct \/ Shutdown \/ End \/ UNCHANGED runVars
  BY <1>1, SameInv DEF Construct, Shutdown, End, runVars
<1>2. CASE Statement
  BY <1>2, StatementStep DEF IInv
<1>3. QED
  BY <1>1, <1>2, CleanUpStep DEF RunNext

(* The driver has nothing before the first call. *)
LEMMA NothingSound ==
    /\ Sound(Nothing) /\ Nothing.ranges = [v \in Va |-> 0]
    /\ Nothing.memory = [h \in Handle |-> NoMemory] /\ Nothing.at = [v \in Va |-> Unmapped]
<1>1. PICK e : e = Nothing
  OBVIOUS
<1>2. /\ e = [ranges |-> e.ranges, memory |-> e.memory, at |-> e.at]
      /\ e.ranges = [v \in Va |-> 0] /\ e.memory = [h \in Handle |-> NoMemory]
      /\ e.at = [v \in Va |-> Unmapped]
  BY <1>1 DEF Nothing
<1>3. Unmapped \in Entry /\ ~Unmapped.rw /\ Unmapped.h = 0
  BY DEF Unmapped, Entry
<1>4. ASSUME NEW v \in Va PROVE Cells(v, e.ranges[v]) = {}
  <2>1. v \in Nat /\ e.ranges[v] = 0
    BY <1>2, ManagerAssumption
  <2>2. v .. v + 0 - 1 = {}
    BY <2>1
  <2>3. QED
    BY <2>1, <2>2 DEF Cells
<1>5. e.ranges \in [Va -> Nat] /\ e.at \in [Va -> Entry]
  BY <1>2, <1>3
<1>6. e.memory \in [Handle -> Memory]
  BY <1>2, MemoryType
<1>7. \A v \in Va : ~e.at[v].rw /\ e.at[v].h = 0
  BY <1>2, <1>3
<1>8. Sound(e)
  BY <1>2, <1>4, <1>5, <1>6, <1>7 DEF Sound
<1>9. QED
  BY <1>1, <1>2, <1>8

(* It holds before the first statement. *)
LEMMA InvInit == RunInit => IInv
<1> SUFFICES ASSUME RunInit PROVE IInv
  OBVIOUS
<1>1. /\ driver = Nothing /\ next = 0 /\ faults = 0 /\ broken = FALSE
      /\ reservations = [v \in Va |-> 0] /\ chunks = [i \in Id |-> NoChunk]
      /\ vals = [n \in Name |-> NoValue] /\ kinds = [n \in Name |-> "None"]
  BY DEF RunInit, Init
<1>2. Records /\ Placed
  BY <1>1, ManagerAssumption DEF Records, Typed, LiveIn, Live, Placed
<1>3. Fits(driver)
  BY <1>1, NothingSound DEF Fits
<1>4. Counters
  <2>1. faults = 0 /\ broken = FALSE /\ 0 \in 0 .. MaxFault
    BY <1>1, ManagerAssumption
  <2>2. QED
    BY <2>1 DEF Counters
<1>5. Values
  BY <1>1 DEF Values, NoValue, Kind
<1>6. QED
  BY <1>2, <1>3, <1>4, <1>5 DEF IInv, Ready

(* It holds throughout. *)
LEMMA InvCorrect == RunSpec => []IInv
BY InvInit, InvStep, PTL DEF RunSpec

(* The Manager's records and the driver's state have their types in every  *)
(* program, wherever calls fail; every id is below next_id_.               *)
LEMMA ManagerTypes == RunSpec => []TypeOK
<1>1. IInv => TypeOK
  <2> SUFFICES ASSUME IInv PROVE TypeOK
    OBVIOUS
  <2>1. /\ reservations \in [Va -> Nat] /\ driver.ranges \in [Va -> Nat]
        /\ next \in 0 .. MaxId /\ \A i \in Live : i < next
    BY DEF IInv, Ready, Records, Fits, Sound
  <2>2. \A i \in Live : chunks[i].size \in Nat \ {0} /\ chunks[i].loc \in Loc
                         /\ chunks[i].h \in Handle /\ chunks[i].va \in {0} \cup Va
    BY LiveChunk DEF IInv, IsChunk
  <2>3. \A h \in Handle : driver.memory[h].loc \in Loc \cup {"None"}
    BY MemoryType DEF IInv, Ready, Fits, Sound
  <2>4. \A v \in Va : driver.at[v].h \in {0} \cup Handle
    BY DEF IInv, Ready, Fits, Sound, Entry
  <2>5. QED
    BY <2>1, <2>2, <2>3, <2>4 DEF TypeOK, IInv, Ready, Counters
<1>2. QED
  BY <1>1, InvCorrect, PTL

(* A mapped chunk lies inside one reservation in every program, whatever   *)
(* calls are refused and wherever the driver fails: free, which looks only *)
(* at where chunks begin, takes no range with something mapped in it.      *)
THEOREM PlacedCorrect == RunSpec => []Placed
<1>1. IInv => Placed
  BY DEF IInv, Ready
<1>2. QED
  BY <1>1, InvCorrect, PTL

(* A variable that names a released chunk never comes to name another: ids *)
(* are not given back, in every program and after any failure.             *)
THEOREM StaleCorrect == RunSpec => StaleStays
<1> DEFINE Stays == \A n \in Name :
              Stale(n) /\ vals'[n] = vals[n] => chunks'[vals[n].num] = NoChunk
<1>1. IInv /\ [RunNext]_runVars => [Stays]_runVars
  <2> SUFFICES ASSUME IInv, RunNext, NEW n \in Name, Stale(n), vals'[n] = vals[n]
               PROVE  chunks'[vals[n].num] = NoChunk
    OBVIOUS
  <2>1. vals[n].num \in Id /\ vals[n].num < next /\ vals[n].kind = "Chunk"
    BY DEF IInv, Values, Stale
  <2>2. CASE Construct \/ Shutdown \/ End
    BY <2>2 DEF Construct, Shutdown, End, vars, records, Stale
  <2>3. CASE Statement
    BY <2>1, <2>3, StatementStep DEF Stale, IInv
  <2>4. CASE CleanUp
    BY <2>1, <2>4, CleanUpStep DEF Stale
  <2>5. QED
    BY <2>2, <2>3, <2>4 DEF RunNext
<1>2. QED
  BY <1>1, InvCorrect, PTL DEF RunSpec, StaleStays

(* The parser's kinds hold for the values the program computes: a variable *)
(* has a value of the kind it was checked for, or none.                    *)
LEMMA KindsCorrect == RunSpec => []KindsAgree
<1>1. RunInit => KindsAgree
  BY DEF RunInit, KindsAgree, NoValue
<1>2. IInv /\ KindsAgree /\ [RunNext]_runVars => KindsAgree'
  <2> SUFFICES ASSUME IInv, KindsAgree, [RunNext]_runVars PROVE KindsAgree'
    OBVIOUS
  <2>1. CASE UNCHANGED program
    BY <2>1 DEF KindsAgree, program
  <2>2. ASSUME NEW dst \in Name, NEW k, NEW r,
               kinds' = Declared(dst, k), vals' = Assigned(dst, k, r)
        PROVE  KindsAgree'
    BY <2>2 DEF IInv, Values, KindsAgree, Declared, Assigned, NoValue
  <2>3. CASE Statement
    BY <2>1, <2>2, <2>3 DEF Statement
  <2>4. CASE Shutdown
    BY <2>4 DEF Shutdown, KindsAgree, NoValue
  <2>5. QED
    BY <2>1, <2>3, <2>4 DEF RunNext, Construct, CleanUp, End, runVars
<1>3. QED
  BY <1>1, <1>2, InvCorrect, PTL DEF RunSpec

(* The Manager and the program keep their types in every program, wherever *)
(* calls fail: no use of a variable meets a value of another kind than the *)
(* parser checked.                                                         *)
THEOREM TypeCorrect == RunSpec => []RunTypeOK
BY ManagerTypes, KindsCorrect, PTL DEF RunTypeOK

-----------------------------------------------------------------------------
(* The Manager while every driver call succeeds. *)

\* The mappings on record, each a handle and an address.
Pairs(ch) == {m \in Handle \X Va :
    \E i \in LiveIn(ch) : ch[i].va # 0 /\ m = <<ch[i].h, ch[i].va>>}

Backs(d, c) == LET m == d.memory[c.h] IN m.open /\ m.loc = c.loc /\ Len(m.data) = c.size

(* The driver has the memory and the mappings of the chunks ch, no more,   *)
(* and each chunk has memory of its own.                                   *)
Linked(d, ch) ==
    /\ Tidy(d, Pairs(ch))
    /\ \A i \in LiveIn(ch) : Backs(d, ch[i])
    /\ \A h \in Handle : d.memory[h] # NoMemory => \E i \in LiveIn(ch) : ch[i].h = h
    /\ \A i, j \in LiveIn(ch) : ch[i].h = ch[j].h => i = j

(* The pairs, by the chunks. *)
LEMMA PairOf ==
    ASSUME NEW ch, NEW h \in Handle, NEW v \in Va
    PROVE  <<h, v>> \in Pairs(ch) <=> \E i \in LiveIn(ch) : ch[i].h = h /\ ch[i].va = v
<1>1. v # 0
  BY ManagerAssumption
<1>2. ASSUME NEW i \in LiveIn(ch), <<h, v>> = <<ch[i].h, ch[i].va>>
      PROVE  ch[i].h = h /\ ch[i].va = v
  BY <1>2
<1>3. <<h, v>> \in Handle \X Va
  OBVIOUS
<1>4. QED
  BY <1>1, <1>2, <1>3 DEF Pairs

(* Only the pairs matter of a set of mappings. *)
LEMMA TidySame ==
    ASSUME NEW d, NEW M, Tidy(d, M), NEW N,
           \A h \in Handle, v \in Va : <<h, v>> \in M <=> <<h, v>> \in N
    PROVE  Tidy(d, N)
<1>1. Sound(d) /\ \A h \in Handle : d.memory[h] = NoMemory \/ d.memory[h].open
  BY DEF Tidy, Neat
<1>2. \A h \in Handle, v \in Va : <<h, v>> \in N => MappedAs(d, h, v)
  BY DEF Tidy, Neat
<1>3. \A a \in Va : d.at[a] # Unmapped =>
          /\ \E w \in Va : a \in Cells(w, d.ranges[w])
          /\ \E h \in Handle, v \in Va : <<h, v>> \in N /\ a \in Cells(v, Len(d.memory[h].data))
  BY DEF Tidy, Neat
<1>4. QED
  BY <1>1, <1>2, <1>3 DEF Tidy, Neat

\* A step's change of the records.
Changed(ch, ch2, i, c) == ch2 = [ch EXCEPT ![i] = c]

(* create. *)
LEMMA LinkCreate ==
    ASSUME NEW d, NEW ch, Typed(ch), Linked(d, ch), NEW i \in Id, ch[i] = NoChunk,
           NEW h \in Handle, d.memory[h] = NoMemory, NEW n \in Nat \ {0}, NEW l \in Loc,
           NEW e, e = MemCreate(d, h, n, l),
           NEW c, c = [size |-> n, loc |-> l, h |-> h, va |-> 0],
           NEW ch2, Changed(ch, ch2, i, c)
    PROVE  /\ e # Nil /\ Linked(e, ch2) /\ e.ranges = d.ranges
           /\ \A j \in LiveIn(ch) : e.memory[ch[j].h] = d.memory[ch[j].h]
<1>1. /\ Tidy(e, Pairs(ch)) /\ e # Nil /\ e.ranges = d.ranges
      /\ \A k \in Handle \ {h} : e.memory[k] = d.memory[k]
      /\ e.memory[h].open /\ e.memory[h].loc = l /\ Len(e.memory[h].data) = n
  BY TidyCreate DEF Linked
<1>2. /\ c.size = n /\ c.loc = l /\ c.h = h /\ c.va = 0 /\ c # NoChunk
  BY DEF NoChunk
<1>3. /\ ch2[i] = c /\ \A j \in Id \ {i} : ch2[j] = ch[j]
  BY DEF Typed, Changed
<1>4. LiveIn(ch2) = LiveIn(ch) \cup {i} /\ i \notin LiveIn(ch)
  BY <1>2, <1>3 DEF LiveIn
<1>5. \A j \in LiveIn(ch) : ch2[j] = ch[j] /\ ch[j].h \in Handle \ {h} /\ Backs(d, ch[j])
  BY <1>3, <1>4, MemoryType DEF Linked, Typed, IsChunk, Backs, LiveIn
<1>6. Tidy(e, Pairs(ch2))
  <2>1. \A k \in Handle, v \in Va : <<k, v>> \in Pairs(ch) <=> <<k, v>> \in Pairs(ch2)
    <3> SUFFICES ASSUME NEW k \in Handle, NEW v \in Va
                 PROVE  <<k, v>> \in Pairs(ch) <=> <<k, v>> \in Pairs(ch2)
      OBVIOUS
    <3>1. (\E j \in LiveIn(ch) : ch[j].h = k /\ ch[j].va = v)
            <=> \E j \in LiveIn(ch2) : ch2[j].h = k /\ ch2[j].va = v
      BY <1>2, <1>3, <1>4, <1>5, ManagerAssumption
    <3>2. QED
      BY <3>1, PairOf
  <2>2. QED
    BY <1>1, <2>1, TidySame
<1>7. \A j \in LiveIn(ch) : e.memory[ch[j].h] = d.memory[ch[j].h]
  BY <1>1, <1>5
<1>8. \A j \in LiveIn(ch2) : Backs(e, ch2[j])
  BY <1>1, <1>2, <1>3, <1>4, <1>5, <1>7 DEF Backs
<1>9. \A k \in Handle : e.memory[k] # NoMemory => \E j \in LiveIn(ch2) : ch2[j].h = k
  <2> SUFFICES ASSUME NEW k \in Handle, e.memory[k] # NoMemory
               PROVE  \E j \in LiveIn(ch2) : ch2[j].h = k
    OBVIOUS
  <2>1. CASE k = h
    BY <1>2, <1>3, <1>4, <2>1
  <2>2. CASE k # h
    <3>1. d.memory[k] # NoMemory
      BY <1>1, <2>2
    <3>2. PICK j \in LiveIn(ch) : ch[j].h = k
      BY <3>1 DEF Linked
    <3>3. QED
      BY <1>4, <1>5, <3>2
  <2>3. QED
    BY <2>1, <2>2
<1>10. \A j, k \in LiveIn(ch2) : ch2[j].h = ch2[k].h => j = k
  BY <1>2, <1>3, <1>4, <1>5 DEF Linked
<1>11. QED
  BY <1>1, <1>6, <1>7, <1>8, <1>9, <1>10 DEF Linked

(* map and unmap: one chunk with the same memory in another place. *)
LEMMA LinkPlace ==
    ASSUME NEW d, NEW ch, Typed(ch), Linked(d, ch), NEW i \in LiveIn(ch),
           NEW c, IsChunk(c), c.h = ch[i].h, c.loc = ch[i].loc, c.size = ch[i].size,
           NEW ch2, Changed(ch, ch2, i, c),
           NEW e, NEW N, Tidy(e, N), \A h \in Handle : e.memory[h] = d.memory[h],
           \A h \in Handle, v \in Va : <<h, v>> \in N <=>
              \/ h = c.h /\ v = c.va
              \/ h # c.h /\ <<h, v>> \in Pairs(ch)
    PROVE  Linked(e, ch2) /\ Typed(ch2) /\ LiveIn(ch2) = LiveIn(ch)
<1>1. c # NoChunk
  BY DEF IsChunk, NoChunk
<1>2. ch2[i] = c /\ (\A j \in Id \ {i} : ch2[j] = ch[j]) /\ ch2 = [j \in Id |-> ch2[j]]
  BY DEF Typed, LiveIn, Changed
<1>3. LiveIn(ch2) = LiveIn(ch) /\ \A j \in LiveIn(ch) : ch2[j].h = ch[j].h
  BY <1>1, <1>2 DEF LiveIn
<1>4. Typed(ch2)
  BY <1>2, <1>3 DEF Typed, LiveIn
<1>5. \A h \in Handle, v \in Va : <<h, v>> \in N <=> <<h, v>> \in Pairs(ch2)
  <2> SUFFICES ASSUME NEW h \in Handle, NEW v \in Va
               PROVE  <<h, v>> \in N <=> <<h, v>> \in Pairs(ch2)
    OBVIOUS
  <2>1. <<h, v>> \in Pairs(ch2) <=> \E j \in LiveIn(ch2) : ch2[j].h = h /\ ch2[j].va = v
    BY PairOf
  <2>2. CASE h = c.h
    <3>1. \A j \in LiveIn(ch2) : ch2[j].h = h <=> j = i
      BY <1>2, <1>3, <2>2 DEF Linked
    <3>2. <<h, v>> \in N <=> v = c.va
      BY <2>2
    <3>3. QED
      BY <1>2, <1>3, <2>1, <3>1, <3>2
  <2>3. CASE h # c.h
    <3>1. \A j \in LiveIn(ch2) : ch2[j].h = h => j # i /\ ch2[j] = ch[j]
      BY <1>2, <2>3 DEF LiveIn
    <3>2. \A j \in LiveIn(ch) : ch[j].h = h => j # i /\ ch2[j] = ch[j]
      BY <1>2, <2>3 DEF LiveIn
    <3>3. <<h, v>> \in N <=> <<h, v>> \in Pairs(ch)
      BY <2>3
    <3>4. <<h, v>> \in Pairs(ch) <=> \E j \in LiveIn(ch) : ch[j].h = h /\ ch[j].va = v
      BY PairOf
    <3>5. QED
      BY <1>3, <2>1, <3>1, <3>2, <3>3, <3>4
  <2>4. QED
    BY <2>2, <2>3
<1>6. Tidy(e, Pairs(ch2))
  BY <1>5, TidySame
<1>7. \A j \in LiveIn(ch2) : Backs(e, ch2[j])
  <2> SUFFICES ASSUME NEW j \in LiveIn(ch2) PROVE Backs(e, ch2[j])
    OBVIOUS
  <2>1. Backs(d, ch[j]) /\ ch[j].h \in Handle
    BY <1>3 DEF Linked, Typed, IsChunk
  <2>2. ch2[j].h = ch[j].h /\ ch2[j].loc = ch[j].loc /\ ch2[j].size = ch[j].size
    BY <1>2 DEF LiveIn
  <2>3. QED
    BY <2>1, <2>2 DEF Backs
<1>8. \A h \in Handle : e.memory[h] # NoMemory => \E j \in LiveIn(ch2) : ch2[j].h = h
  BY <1>3 DEF Linked
<1>9. \A j, k \in LiveIn(ch2) : ch2[j].h = ch2[k].h => j = k
  BY <1>3 DEF Linked
<1>10. QED
  BY <1>3, <1>4, <1>6, <1>7, <1>8, <1>9 DEF Linked

(* A chunk's pair is the only one of its memory. *)
LEMMA OwnPair ==
    ASSUME NEW d, NEW ch, Linked(d, ch), NEW i \in LiveIn(ch), ch[i].h \in Handle, NEW v \in Va
    PROVE  <<ch[i].h, v>> \in Pairs(ch) <=> ch[i].va = v
<1>1. PICK h : h = ch[i].h
  OBVIOUS
<1>2. <<h, v>> \in Pairs(ch) <=> \E j \in LiveIn(ch) : ch[j].h = h /\ ch[j].va = v
  BY <1>1, PairOf
<1>3. \A j \in LiveIn(ch) : ch[j].h = h <=> j = i
  BY <1>1 DEF Linked
<1>4. QED
  BY <1>1, <1>2, <1>3

(* map. *)
LEMMA LinkMap ==
    ASSUME NEW d, NEW ch, Typed(ch), Linked(d, ch), NEW i \in LiveIn(ch), ch[i].va = 0,
           NEW v \in Va, NEW w \in Va, Cells(v, ch[i].size) \subseteq Cells(w, d.ranges[w]),
           NEW m, m = MemMap(d, v, ch[i].h), m # Nil,
           NEW e, e = SetAccess(m, v, ch[i].size),
           NEW c, IsChunk(c), c.h = ch[i].h, c.loc = ch[i].loc, c.size = ch[i].size, c.va = v,
           NEW ch2, Changed(ch, ch2, i, c)
    PROVE  e # Nil /\ Linked(e, ch2) /\ e.ranges = d.ranges /\ e.memory = d.memory
<1>1. PICK h, n : h = ch[i].h /\ n = ch[i].size
  OBVIOUS
<1>2. h \in Handle /\ n \in Nat \ {0} /\ d.memory[h].open /\ Len(d.memory[h].data) = n
  BY <1>1 DEF Typed, IsChunk, Linked, Backs
<1>3. \A a \in Cells(v, n) : a \in Va /\ d.at[a] = Unmapped
  BY <1>1, <1>2 DEF MemMap, Mappable
<1>4. \A x \in Va : <<h, x>> \notin Pairs(ch)
  BY <1>1, <1>2, OwnPair, ManagerAssumption
<1>5. PICK N : N = Pairs(ch) \cup {<<h, v>>}
  OBVIOUS
<1>6. With(N, Pairs(ch), h, v)
  <2>1. \A k \in Handle, x \in Va : <<k, x>> = <<h, v>> <=> k = h /\ x = v
    OBVIOUS
  <2>2. QED
    BY <1>5, <2>1 DEF With
<1>7. Tidy(e, N) /\ e # Nil /\ e.ranges = d.ranges /\ e.memory = d.memory
  <2>1. m = MemMap(d, v, h) /\ e = SetAccess(m, v, n) /\ Cells(v, n) \subseteq Cells(w, d.ranges[w])
    BY <1>1
  <2>2. Tidy(d, Pairs(ch)) /\ n > 0
    BY <1>2 DEF Linked
  <2>3. QED
    BY <1>2, <1>3, <1>6, <2>1, <2>2, TidyMap
<1>8. \A k \in Handle, x \in Va : <<k, x>> \in N <=>
         (k = c.h /\ x = c.va) \/ (k # c.h /\ <<k, x>> \in Pairs(ch))
  BY <1>1, <1>4, <1>6 DEF With
<1>9. Linked(e, ch2)
  BY <1>7, <1>8, LinkPlace
<1>10. QED
  BY <1>7, <1>9

(* unmap. *)
LEMMA LinkUnmap ==
    ASSUME NEW d, NEW ch, Typed(ch), Linked(d, ch), NEW i \in LiveIn(ch), ch[i].va # 0,
           NEW e, e = MemUnmap(d, ch[i].va, ch[i].size),
           NEW c, IsChunk(c), c.h = ch[i].h, c.loc = ch[i].loc, c.size = ch[i].size, c.va = 0,
           NEW ch2, Changed(ch, ch2, i, c)
    PROVE  /\ e # Nil /\ Linked(e, ch2) /\ Typed(ch2) /\ LiveIn(ch2) = LiveIn(ch)
           /\ e.ranges = d.ranges /\ \A h \in Handle : e.memory[h] = d.memory[h]
<1>1. PICK h, v, n : h = ch[i].h /\ v = ch[i].va /\ n = ch[i].size
  OBVIOUS
<1>2. h \in Handle /\ v \in Va /\ Len(d.memory[h].data) = n
  BY <1>1 DEF Typed, IsChunk, Linked, Backs
<1>3. \A x \in Va : <<h, x>> \in Pairs(ch) <=> x = v
  BY <1>1, <1>2, OwnPair
<1>4. PICK N : N = Pairs(ch) \ {<<h, v>>}
  OBVIOUS
<1>5. Without(N, Pairs(ch), h, v)
  <2>1. \A k \in Handle, x \in Va : <<k, x>> = <<h, v>> <=> k = h /\ x = v
    OBVIOUS
  <2>2. QED
    BY <1>4, <2>1 DEF Without
<1>6. /\ Tidy(e, N) /\ e # Nil
      /\ e.ranges = d.ranges /\ \A k \in Handle : e.memory[k] = d.memory[k]
  <2>1. e = MemUnmap(d, v, n) /\ <<h, v>> \in Pairs(ch)
    BY <1>1, <1>2, <1>3
  <2>2. Tidy(d, Pairs(ch))
    BY DEF Linked
  <2>3. QED
    BY <1>2, <1>5, <2>1, <2>2, TidyUnmap
<1>7. \A k \in Handle, x \in Va : <<k, x>> \in N <=>
         (k = c.h /\ x = c.va) \/ (k # c.h /\ <<k, x>> \in Pairs(ch))
  BY <1>1, <1>3, <1>5, ManagerAssumption DEF Without
<1>8. Linked(e, ch2) /\ Typed(ch2) /\ LiveIn(ch2) = LiveIn(ch)
  BY <1>6, <1>7, LinkPlace
<1>9. QED
  BY <1>6, <1>8

(* release. *)
LEMMA LinkRelease ==
    ASSUME NEW d, NEW ch, Typed(ch), Linked(d, ch), NEW i \in LiveIn(ch), ch[i].va = 0,
           NEW e, e = MemRelease(d, ch[i].h), NEW ch2, Changed(ch, ch2, i, NoChunk)
    PROVE  /\ e # Nil /\ Linked(e, ch2) /\ e.ranges = d.ranges
           /\ LiveIn(ch2) = LiveIn(ch) \ {i}
           /\ \A j \in LiveIn(ch2) : ch2[j] = ch[j] /\ e.memory[ch[j].h] = d.memory[ch[j].h]
<1>1. PICK h : h = ch[i].h
  OBVIOUS
<1>2. h \in Handle /\ d.memory[h].open
  BY <1>1 DEF Typed, IsChunk, Linked, Backs
<1>3. \A x \in Va : <<h, x>> \notin Pairs(ch)
  BY <1>1, <1>2, OwnPair, ManagerAssumption
<1>4. /\ Tidy(e, Pairs(ch)) /\ e # Nil /\ e.ranges = d.ranges
      /\ e.memory[h] = NoMemory /\ \A k \in Handle \ {h} : e.memory[k] = d.memory[k]
  BY <1>1, <1>2, <1>3, TidyRelease DEF Linked
<1>5. ch2[i] = NoChunk /\ \A j \in Id \ {i} : ch2[j] = ch[j]
  BY DEF Changed, Typed, LiveIn
<1>6. LiveIn(ch2) = LiveIn(ch) \ {i}
  BY <1>5 DEF LiveIn
<1>7. \A j \in LiveIn(ch2) : ch2[j] = ch[j] /\ ch[j].h \in Handle \ {h}
  BY <1>1, <1>5, <1>6 DEF Linked, Typed, IsChunk, LiveIn
<1>8. Tidy(e, Pairs(ch2))
  <2> SUFFICES ASSUME NEW k \in Handle, NEW x \in Va
               PROVE  <<k, x>> \in Pairs(ch) <=> <<k, x>> \in Pairs(ch2)
    BY <1>4, TidySame
  <2>1. <<k, x>> \in Pairs(ch) <=> \E j \in LiveIn(ch) : ch[j].h = k /\ ch[j].va = x
    BY PairOf
  <2>2. <<k, x>> \in Pairs(ch2) <=> \E j \in LiveIn(ch2) : ch2[j].h = k /\ ch2[j].va = x
    BY PairOf
  <2>3. QED
    BY <1>6, <1>7, <2>1, <2>2, ManagerAssumption
<1>9. \A j \in LiveIn(ch2) : Backs(e, ch2[j])
  BY <1>4, <1>6, <1>7 DEF Backs, Linked
<1>10. \A k \in Handle : e.memory[k] # NoMemory => \E j \in LiveIn(ch2) : ch2[j].h = k
  <2> SUFFICES ASSUME NEW k \in Handle, e.memory[k] # NoMemory
               PROVE  \E j \in LiveIn(ch2) : ch2[j].h = k
    OBVIOUS
  <2>1. k # h /\ d.memory[k] # NoMemory
    BY <1>4
  <2>2. PICK j \in LiveIn(ch) : ch[j].h = k
    BY <2>1 DEF Linked
  <2>3. QED
    BY <1>1, <1>6, <1>7, <2>1, <2>2
<1>11. \A j, k \in LiveIn(ch2) : ch2[j].h = ch2[k].h => j = k
  BY <1>6, <1>7 DEF Linked
<1>12. QED
  BY <1>4, <1>6, <1>7, <1>8, <1>9, <1>10, <1>11 DEF Linked

\* The memory of h holds in e what that of k holds in d; what its own holds there.
Holds(d, e, h, k) == \A g \in 1 .. Len(d.memory[k].data) : e.memory[h].data[g] = d.memory[k].data[g]
SameData(d, e, h) == Holds(d, e, h, h)

\* From d to e, no more has changed than what the memory of h holds.
OnlyData(d, e, h) ==
    /\ e.ranges = d.ranges /\ e.at = d.at
    /\ \A k \in Handle :
          /\ e.memory[k].open = d.memory[k].open /\ e.memory[k].loc = d.memory[k].loc
          /\ Len(e.memory[k].data) = Len(d.memory[k].data)
          /\ d.memory[k] = NoMemory => e.memory[k] = NoMemory
          /\ k # h => SameData(d, e, k)

\* val at each of the n cells of v has the type of what memory holds.
Data(val, v, n) == \A a \in Cells(v, n) : val[a] \in Datum

(* The device writes the whole of one mapping: its memory has what was     *)
(* written, in order, and no other memory changes.                         *)
LEMMA TidyWrite ==
    ASSUME NEW d, NEW M, Tidy(d, M), NEW h \in Handle, NEW v \in Va, <<h, v>> \in M,
           NEW n, n = Len(d.memory[h].data), NEW val, Data(val, v, n),
           NEW e, e = Written(d, v, n, val)
    PROVE  /\ Tidy(e, M) /\ e # Nil /\ OnlyData(d, e, h)
           /\ \A g \in 1 .. n : e.memory[h].data[g] = val[v + g - 1]
<1>1. /\ Tidy(e, M) /\ e # Nil /\ e.ranges = d.ranges /\ e.at = d.at
      /\ \A k \in Handle :
            /\ e.memory[k].open = d.memory[k].open /\ e.memory[k].loc = d.memory[k].loc
            /\ Len(e.memory[k].data) = Len(d.memory[k].data)
            /\ d.memory[k] = NoMemory => e.memory[k] = NoMemory
  BY TidyWritten DEF Data
<1>2. n \in Nat /\ v \in Nat
  BY MemoryType, ManagerAssumption DEF Tidy, Sound
<1>3. ASSUME NEW a \in Cells(v, n) PROVE d.at[a].h = h /\ d.at[a].off = a - v /\ a \in Nat
  <2>1. d.at[a] = [h |-> h, off |-> a - v, rw |-> TRUE] /\ a \in Va
    BY DEF Tidy, Neat, MappedAs
  <2>2. QED
    BY <2>1, ManagerAssumption
<1> DEFINE Leads(a, k, g) == d.at[a].h = k /\ d.at[a].off + 1 = g
<1>4. \A k \in Handle : \A g \in 1 .. Len(d.memory[k].data) :
         /\ (\A a \in Cells(v, n) : ~Leads(a, k, g)) => e.memory[k].data[g] = d.memory[k].data[g]
         /\ \A a \in Cells(v, n) : Leads(a, k, g) /\ (\A b \in Cells(v, n) : Leads(b, k, g) => b = a)
                                      => e.memory[k].data[g] = val[a]
  BY WrittenState DEF Tidy, Data
<1>5. ASSUME NEW k \in Handle, k # h PROVE SameData(d, e, k)
  <2>1. \A a \in Cells(v, n), g \in 1 .. Len(d.memory[k].data) : ~Leads(a, k, g)
    BY <1>3, <1>5
  <2>2. QED
    BY <1>4, <2>1 DEF SameData, Holds
<1>6. ASSUME NEW g \in 1 .. n PROVE e.memory[h].data[g] = val[v + g - 1]
  <2>1. PICK a : a = v + g - 1
    OBVIOUS
  <2>2. a \in Cells(v, n) /\ a - v + 1 = g
    BY <1>2, <2>1 DEF Cells
  <2>3. Leads(a, h, g)
    BY <1>3, <2>2
  <2>4. ASSUME NEW b \in Cells(v, n), Leads(b, h, g) PROVE b = a
    <3>1. b - v + 1 = g /\ b \in Nat
      BY <1>3, <2>4
    <3>2. QED
      BY <1>2, <2>1, <3>1
  <2> HIDE DEF Leads
  <2>5. QED
    BY <1>4, <2>1, <2>2, <2>3, <2>4
<1>7. QED
  BY <1>1, <1>5, <1>6 DEF OnlyData

(* The device copies the whole of one mapping to another. *)
LEMMA TidyCopy ==
    ASSUME NEW d, NEW M, Tidy(d, M), NEW h \in Handle, NEW to \in Va, <<h, to>> \in M,
           NEW k \in Handle, NEW from \in Va, <<k, from>> \in M, NEW n,
           n = Len(d.memory[h].data), Len(d.memory[k].data) = n,
           NEW e, e = Memcpy(d, to, from, n)
    PROVE  /\ Tidy(e, M) /\ e # Nil /\ OnlyData(d, e, h) /\ Holds(d, e, h, k)
<1>1. n \in Nat /\ to \in Nat /\ from \in Nat
  BY MemoryType, ManagerAssumption DEF Tidy, Sound
<1>2. MappedAs(d, h, to) /\ MappedAs(d, k, from)
  BY DEF Tidy, Neat
<1>3. ASSUME NEW a \in Cells(to, n) PROVE a \in Va /\ d.at[a].rw
  <2>1. a \in Va /\ d.at[a] = [h |-> h, off |-> a - to, rw |-> TRUE]
    BY <1>2 DEF MappedAs
  <2>2. QED
    BY <2>1
<1>4. ASSUME NEW a \in Cells(from, n)
      PROVE  a \in Va /\ d.at[a].rw /\ d.at[a].h = k /\ d.at[a].off = a - from
  <2>1. a \in Va /\ d.at[a] = [h |-> k, off |-> a - from, rw |-> TRUE]
    BY <1>2 DEF MappedAs
  <2>2. QED
    BY <2>1
<1>5. PICK val : val = [a \in Cells(to, n) |-> Read(d, from + a - to)]
  OBVIOUS
<1>6. e = Written(d, to, n, val) /\ Data(val, to, n)
  <2>1. Accessible(d, from, n) /\ Accessible(d, to, n) /\ Cells(from, n) \subseteq Va /\ Sound(d)
    BY <1>3, <1>4 DEF Accessible, Tidy
  <2>2. \A a \in Cells(to, n) : from + a - to \in Cells(from, n)
    BY <1>1 DEF Cells
  <2>3. \A a \in Cells(to, n) : Read(d, from + a - to) \in Datum
    BY <1>4, <2>1, <2>2, ReadType
  <2>4. Memcpy(d, to, from, n) = Written(d, to, n, val)
    BY <1>5, <2>1, SoundState DEF Memcpy
  <2>5. QED
    BY <1>5, <2>3, <2>4 DEF Data
<1>7. ASSUME NEW g \in 1 .. n PROVE val[to + g - 1] = d.memory[k].data[g]
  <2>1. to + g - 1 \in Cells(to, n) /\ from + (to + g - 1) - to = from + g - 1
        /\ from + g - 1 \in Cells(from, n) /\ (from + g - 1) - from + 1 = g
    BY <1>1 DEF Cells
  <2>2. val[to + g - 1] = Read(d, from + g - 1)
    BY <1>5, <2>1
  <2>3. d.at[from + g - 1].h = k /\ d.at[from + g - 1].off + 1 = g
    BY <1>4, <2>1
  <2>4. QED
    BY <2>2, <2>3 DEF Read
<1>8. /\ Tidy(e, M) /\ e # Nil /\ OnlyData(d, e, h)
      /\ \A g \in 1 .. n : e.memory[h].data[g] = val[to + g - 1]
  BY <1>6, TidyWrite
<1>9. QED
  BY <1>7, <1>8 DEF Holds

\* The memory of k, and what it holds, are the same in d and e.
SameMemory(d, e, k) ==
    /\ e.memory[k].open = d.memory[k].open /\ e.memory[k].loc = d.memory[k].loc
    /\ Len(e.memory[k].data) = Len(d.memory[k].data)
    /\ d.memory[k] = NoMemory => e.memory[k] = NoMemory
    /\ SameData(d, e, k)

\* From d to e only the range at s has changed, from 0 to n.
OneRange(d, e, s, n) == e.ranges[s] = n /\ \A w \in Va \ {s} : e.ranges[w] = d.ranges[w]

(* Equal memory, and two steps in a row. *)
LEMMA SameStep ==
    /\ \A d, e, k : e.memory[k] = d.memory[k] => SameMemory(d, e, k)
    /\ \A d, e, f, k : SameMemory(d, e, k) /\ SameMemory(e, f, k) => SameMemory(d, f, k)
BY DEF SameMemory, SameData, Holds

\* The calls of remap before and after the copy is made.
CopyCalls(d, v, n, h, s, l, d1, d2, d3, d4, d5) ==
    /\ d1 = MemCreate(d, h, n, l) /\ d2 = AddressReserve(d1, s, n)
    /\ d3 = MemMap(d2, s, h) /\ d4 = SetAccess(d3, s, n) /\ d5 = Memcpy(d4, s, v, n)
SwapCalls(d, o, v, n, h, s, d6, d7, d8, d9, d10, d11) ==
    /\ d6 = MemUnmap(d, v, n) /\ d7 = MemRelease(d6, o)
    /\ d8 = MemMap(d7, v, h) /\ d9 = SetAccess(d8, v, n)
    /\ d10 = MemUnmap(d9, s, n) /\ d11 = AddressFree(d10, s, n)

\* What each half starts from.
CopyReady(d, M, o, v, n, h, s) ==
    /\ Tidy(d, M) /\ <<o, v>> \in M /\ Len(d.memory[o].data) = n
    /\ d.memory[h] = NoMemory /\ Reservable(d, s, n)
SwapReady(d, N, o, v, n, h, s) ==
    /\ Tidy(d, N) /\ h # o /\ s # v /\ d.ranges[s] = n
    /\ <<o, v>> \in N /\ Len(d.memory[o].data) = n /\ \A x \in Va : <<o, x>> \in N => x = v
    /\ <<h, s>> \in N /\ Len(d.memory[h].data) = n
    /\ \E w \in Va : Cells(v, n) \subseteq Cells(w, d.ranges[w])

(* remap, first half: new memory mapped in a scratch range, with a copy. *)
LEMMA RemapCopy ==
    ASSUME NEW d, NEW M, NEW o \in Handle, NEW v \in Va, NEW n, NEW h \in Handle, NEW s \in Va,
           CopyReady(d, M, o, v, n, h, s),
           NEW l \in Loc, NEW N, With(N, M, h, s),
           NEW d1, NEW d2, NEW d3, NEW d4, NEW d5,
           CopyCalls(d, v, n, h, s, l, d1, d2, d3, d4, d5)
    PROVE  /\ d1 # Nil /\ d2 # Nil /\ d3 # Nil /\ d4 # Nil /\ d5 # Nil
           /\ Tidy(d5, N) /\ OneRange(d, d5, s, n) /\ d.ranges[s] = 0
           /\ h # o /\ s # v /\ \A x \in Va : <<h, x>> \notin M
           /\ \A k \in Handle : k # h => SameMemory(d, d5, k)
           /\ d5.memory[h].open /\ d5.memory[h].loc = l /\ Len(d5.memory[h].data) = n
           /\ Holds(d, d5, h, o)
<1>1. /\ Tidy(d, M) /\ <<o, v>> \in M /\ n = Len(d.memory[o].data)
      /\ d.memory[h] = NoMemory /\ Reservable(d, s, n)
  BY DEF CopyReady
<1>2. n \in Nat /\ n > 0 /\ v \in Nat /\ s \in Nat
  BY <1>1, MemoryType, ManagerAssumption DEF Tidy, Sound, Reservable
<1>3. h # o /\ \A x \in Va : <<h, x>> \notin M
  BY <1>1, MemoryType DEF Tidy, Neat, MappedAs
<1>4. /\ Tidy(d1, M) /\ d1 # Nil /\ d1.ranges = d.ranges /\ d1.at = d.at
      /\ \A k \in Handle \ {h} : d1.memory[k] = d.memory[k]
      /\ d1.memory[h].open /\ d1.memory[h].loc = l /\ Len(d1.memory[h].data) = n
  <2>1. d1 = MemCreate(d, h, n, l)
    BY DEF CopyCalls
  <2>2. QED
    BY <1>1, <1>2, <2>1, TidyCreate
<1>5. Reservable(d1, s, n)
  BY <1>1, <1>4 DEF Reservable
<1>6. /\ Tidy(d2, M) /\ d2 # Nil /\ d2.memory = d1.memory /\ d2.at = d1.at
      /\ d2.ranges = [d1.ranges EXCEPT ![s] = n] /\ d1.ranges[s] = 0
      /\ \A a \in Cells(s, n) : d1.at[a] = Unmapped
  <2>1. d2 = AddressReserve(d1, s, n)
    BY DEF CopyCalls
  <2>2. QED
    BY <1>2, <1>4, <1>5, <2>1, TidyReserve
<1>7. OneRange(d, d2, s, n)
  BY <1>1, <1>4, <1>6 DEF OneRange, Tidy, Sound
<1>8. /\ \A a \in Cells(s, n) : a \in Va /\ d2.at[a] = Unmapped
      /\ Cells(s, n) \subseteq Cells(s, d2.ranges[s])
  BY <1>1, <1>6, <1>7 DEF Reservable, OneRange
<1>9. /\ d3 # Nil /\ Tidy(d4, N) /\ d4 # Nil
      /\ d4.ranges = d2.ranges /\ d4.memory = d2.memory
  <2>1. d3 = MemMap(d2, s, h) /\ d4 = SetAccess(d3, s, n)
    BY DEF CopyCalls
  <2>2. d2.memory[h].open /\ n = Len(d2.memory[h].data)
    BY <1>4, <1>6
  <2>3. Tidy(d2, M) /\ n > 0 /\ With(N, M, h, s)
    BY <1>2, <1>6
  <2>4. /\ \A a \in Cells(s, n) : a \in Va /\ d2.at[a] = Unmapped
        /\ Cells(s, n) \subseteq Cells(s, d2.ranges[s])
    BY <1>8
  <2>5. QED
    BY <2>1, <2>2, <2>3, <2>4, TidyMap
<1>10. <<h, s>> \in N /\ <<o, v>> \in N
  BY <1>1 DEF With
<1>11. Len(d4.memory[h].data) = n /\ Len(d4.memory[o].data) = n
  BY <1>1, <1>3, <1>4, <1>6, <1>9
<1>12. /\ Tidy(d5, N) /\ d5 # Nil /\ OnlyData(d4, d5, h) /\ Holds(d4, d5, h, o)
  <2>1. d5 = Memcpy(d4, s, v, n)
    BY DEF CopyCalls
  <2>2. n = Len(d4.memory[h].data) /\ Len(d4.memory[o].data) = n
    BY <1>11
  <2>3. Tidy(d4, N)
    BY <1>9
  <2>4. QED
    BY <1>10, <2>1, <2>2, <2>3, TidyCopy
<1>13. OneRange(d, d5, s, n)
  BY <1>7, <1>9, <1>12 DEF OneRange, OnlyData
<1>14. ASSUME NEW k \in Handle, k # h PROVE SameMemory(d, d5, k)
  <2>1. d4.memory[k] = d.memory[k]
    BY <1>4, <1>6, <1>9, <1>14
  <2>2. SameMemory(d4, d5, k)
    BY <1>12, <1>14 DEF OnlyData, SameMemory
  <2>3. QED
    BY <2>1, <2>2, SameStep
<1>15. d5.memory[h].open /\ d5.memory[h].loc = l /\ Len(d5.memory[h].data) = n
  BY <1>4, <1>6, <1>9, <1>12 DEF OnlyData
<1>16. Holds(d, d5, h, o)
  <2>1. d4.memory[o] = d.memory[o]
    BY <1>3, <1>4, <1>6, <1>9
  <2>2. QED
    BY <1>12, <2>1 DEF Holds
<1>17. s # v
  <2>1. v \in Cells(v, n) /\ s \in Cells(s, n)
    BY <1>2 DEF Cells
  <2>2. d.at[v] = [h |-> o, off |-> v - v, rw |-> TRUE]
    BY <1>1, <2>1 DEF Tidy, Neat, MappedAs
  <2>3. d.at[v].h = o /\ o # 0
    BY <2>2, ManagerAssumption DEF Handle
  <2>4. d.at[s].h = 0
    BY <1>4, <1>6, <2>1 DEF Unmapped
  <2>5. QED
    BY <2>3, <2>4
<1>18. d.ranges[s] = 0
  BY <1>4, <1>6
<1>19. QED
  BY <1>3, <1>4, <1>6, <1>9, <1>12, <1>13, <1>14, <1>15, <1>16, <1>17, <1>18

(* remap, second half: the old memory goes, the new one takes its place.   *)
LEMMA RemapSwap ==
    ASSUME NEW d, NEW N, NEW o \in Handle, NEW v \in Va, NEW n, NEW h \in Handle, NEW s \in Va,
           SwapReady(d, N, o, v, n, h, s),
           NEW N6, Without(N6, N, o, v), NEW N9, With(N9, N6, h, v),
           NEW N10, Without(N10, N9, h, s),
           NEW d6, NEW d7, NEW d8, NEW d9, NEW d10, NEW d11,
           SwapCalls(d, o, v, n, h, s, d6, d7, d8, d9, d10, d11)
    PROVE  /\ d6 # Nil /\ d7 # Nil /\ d8 # Nil /\ d9 # Nil /\ d10 # Nil /\ d11 # Nil
           /\ Tidy(d11, N10) /\ OneRange(d, d11, s, 0) /\ d11.memory[o] = NoMemory
           /\ \A k \in Handle : k # o => d11.memory[k] = d.memory[k]
<1>1. /\ Tidy(d, N) /\ h # o /\ s # v /\ d.ranges[s] = n
      /\ <<o, v>> \in N /\ n = Len(d.memory[o].data)
      /\ <<h, s>> \in N /\ n = Len(d.memory[h].data)
  BY DEF SwapReady
<1>2. n \in Nat /\ n > 0 /\ d.memory[o].open /\ d.memory[h].open
      /\ \A a \in Cells(v, n) : a \in Va
  <2>1. MappedAs(d, o, v) /\ MappedAs(d, h, s)
    BY <1>1 DEF Tidy, Neat
  <2>2. d.memory[o] \in Memory
    BY <1>1 DEF Tidy, Sound
  <2>3. QED
    BY <1>1, <2>1, <2>2, MemoryType DEF MappedAs
<1>3. /\ Tidy(d6, N6) /\ d6 # Nil
      /\ d6.ranges = d.ranges /\ \A k \in Handle : d6.memory[k] = d.memory[k]
      /\ \A a \in Va : d6.at[a] = IF a \in Cells(v, n) THEN Unmapped ELSE d.at[a]
  <2>1. d6 = MemUnmap(d, v, n)
    BY DEF SwapCalls
  <2>2. QED
    <3>1. Tidy(d, N) /\ <<o, v>> \in N /\ Without(N6, N, o, v)
      BY <1>1
    <3>2. n = Len(d.memory[o].data)
      BY <1>1
    <3>3. QED
      BY <2>1, <3>1, <3>2, TidyUnmap
<1>4. d6.memory[o].open /\ \A x \in Va : <<o, x>> \notin N6
  BY <1>2, <1>3 DEF Without, SwapReady
<1>5. /\ Tidy(d7, N6) /\ d7 # Nil /\ d7.ranges = d6.ranges /\ d7.at = d6.at
      /\ d7.memory[o] = NoMemory /\ \A k \in Handle \ {o} : d7.memory[k] = d6.memory[k]
  <2>1. d7 = MemRelease(d6, o)
    BY DEF SwapCalls
  <2>2. QED
    BY <1>3, <1>4, <2>1, TidyRelease
<1>6. d7.memory[h].open /\ n = Len(d7.memory[h].data)
  BY <1>1, <1>2, <1>3, <1>5
<1>7. /\ \A a \in Cells(v, n) : a \in Va /\ d7.at[a] = Unmapped
      /\ \E w \in Va : Cells(v, n) \subseteq Cells(w, d7.ranges[w])
  BY <1>2, <1>3, <1>5 DEF SwapReady
<1>8. /\ d8 # Nil /\ Tidy(d9, N9) /\ d9 # Nil
      /\ d9.ranges = d7.ranges /\ d9.memory = d7.memory
  <2>1. d8 = MemMap(d7, v, h) /\ d9 = SetAccess(d8, v, n)
    BY DEF SwapCalls
  <2>2. Tidy(d7, N6)
    BY <1>5
  <2>3. PICK w \in Va : Cells(v, n) \subseteq Cells(w, d7.ranges[w])
    BY <1>7
  <2>4. n > 0 /\ \A a \in Cells(v, n) : a \in Va /\ d7.at[a] = Unmapped
    BY <1>2, <1>7
  <2>5. QED
    BY <1>6, <2>1, <2>2, <2>3, <2>4, TidyMap
<1>9. <<h, s>> \in N9 /\ n = Len(d9.memory[h].data)
  BY <1>1, <1>6, <1>8 DEF With, Without
<1>10. /\ Tidy(d10, N10) /\ d10 # Nil
      /\ d10.ranges = d9.ranges /\ \A k \in Handle : d10.memory[k] = d9.memory[k]
      /\ \A a \in Va : d10.at[a] = IF a \in Cells(s, n) THEN Unmapped ELSE d9.at[a]
  <2>1. d10 = MemUnmap(d9, s, n)
    BY DEF SwapCalls
  <2>2. Tidy(d9, N9)
    BY <1>8
  <2>3. QED
    BY <1>9, <2>1, <2>2, TidyUnmap
<1>11. d10.ranges[s] = n /\ \A a \in Cells(s, n) : d10.at[a] = Unmapped
  <2>1. \A a \in Cells(s, n) : a \in Va
    BY <1>1 DEF Tidy, Neat, MappedAs
  <2>2. QED
    BY <1>1, <1>3, <1>5, <1>8, <1>10, <2>1
<1>12. /\ Tidy(d11, N10) /\ d11 # Nil /\ d11.memory = d10.memory /\ d11.at = d10.at
       /\ d11.ranges = [d10.ranges EXCEPT ![s] = 0]
  <2>1. d11 = AddressFree(d10, s, n)
    BY DEF SwapCalls
  <2>2. Tidy(d10, N10)
    BY <1>10
  <2>3. QED
    BY <1>11, <2>1, <2>2, TidyFree
<1>13. OneRange(d, d11, s, 0)
  <2>1. d10.ranges = d.ranges /\ d.ranges \in [Va -> Nat]
    BY <1>1, <1>3, <1>5, <1>8, <1>10 DEF Tidy, Sound
  <2>2. QED
    BY <1>12, <2>1 DEF OneRange
<1>14. d11.memory[o] = NoMemory /\ \A k \in Handle : k # o => d11.memory[k] = d.memory[k]
  BY <1>3, <1>5, <1>8, <1>10, <1>12
<1>15. QED
  BY <1>3, <1>5, <1>8, <1>10, <1>12, <1>13, <1>14

(* There are such sets of mappings. *)
LEMMA OneMore ==
    ASSUME NEW M, NEW h \in Handle, NEW v \in Va
    PROVE  \E N, L : With(N, M, h, v) /\ Without(L, M, h, v)
<1>1. \A k \in Handle, x \in Va : <<k, x>> = <<h, v>> <=> k = h /\ x = v
  OBVIOUS
<1>2. With(M \cup {<<h, v>>}, M, h, v) /\ Without(M \ {<<h, v>>}, M, h, v)
  BY <1>1 DEF With, Without
<1>3. QED
  BY <1>2

(* Other data in the same memory. *)
LEMMA LinkData ==
    ASSUME NEW d, NEW ch, Typed(ch), Linked(d, ch), NEW e, Tidy(e, Pairs(ch)), NEW h, OnlyData(d, e, h)
    PROVE  Linked(e, ch)
<1>1. \A i \in LiveIn(ch) : Backs(e, ch[i])
  BY DEF Linked, OnlyData, Backs, Typed, IsChunk
<1>2. \A k \in Handle : e.memory[k] # NoMemory => \E i \in LiveIn(ch) : ch[i].h = k
  BY DEF Linked, OnlyData
<1>3. QED
  BY <1>1, <1>2 DEF Linked

\* What a chunk holds, and what it shall.
HoldsAll(d, c, v, val) == \A g \in 1 .. c.size : d.memory[c.h].data[g] = val[v + g - 1]

(* fill_pattern: the device writes all of one chunk. *)
LEMMA LinkFill ==
    ASSUME NEW d, NEW ch, Typed(ch), Linked(d, ch), NEW i \in LiveIn(ch), ch[i].va # 0,
           NEW val, Data(val, ch[i].va, ch[i].size), NEW e, e = Written(d, ch[i].va, ch[i].size, val)
    PROVE  /\ e # Nil /\ Linked(e, ch) /\ OnlyData(d, e, ch[i].h)
           /\ HoldsAll(e, ch[i], ch[i].va, val)
<1>1. PICK h, v, n : h = ch[i].h /\ v = ch[i].va /\ n = ch[i].size
  OBVIOUS
<1>2. h \in Handle /\ v \in Va /\ n = Len(d.memory[h].data)
  BY <1>1 DEF Typed, IsChunk, Linked, Backs
<1>3. <<h, v>> \in Pairs(ch) /\ Tidy(d, Pairs(ch))
  BY <1>1, <1>2, OwnPair DEF Linked
<1>4. Data(val, v, n) /\ e = Written(d, v, n, val)
  BY <1>1
<1>5. /\ Tidy(e, Pairs(ch)) /\ e # Nil /\ OnlyData(d, e, h)
      /\ \A g \in 1 .. n : e.memory[h].data[g] = val[v + g - 1]
  BY <1>2, <1>3, <1>4, TidyWrite
<1>6. QED
  BY <1>1, <1>5, LinkData DEF HoldsAll

(* Chunk i with other memory h in the place of its own, which is gone. *)
LEMMA LinkMoved ==
    ASSUME NEW d, NEW ch, Typed(ch), Linked(d, ch), NEW i \in LiveIn(ch),
           NEW h \in Handle, \A j \in LiveIn(ch) : ch[j].h # h,
           NEW c, IsChunk(c), c.h = h, c.va = ch[i].va, c.size = ch[i].size,
           NEW ch2, Changed(ch, ch2, i, c),
           NEW e, NEW N, Tidy(e, N), Backs(e, c), e.memory[ch[i].h] = NoMemory,
           \A k \in Handle : k # h /\ k # ch[i].h => SameMemory(d, e, k),
           \A k \in Handle, x \in Va : <<k, x>> \in N <=>
              \/ k = h /\ x = c.va
              \/ k # h /\ k # ch[i].h /\ <<k, x>> \in Pairs(ch)
    PROVE  Linked(e, ch2) /\ Typed(ch2) /\ LiveIn(ch2) = LiveIn(ch)
<1>1. c # NoChunk
  BY DEF IsChunk, NoChunk
<1>2. ch2[i] = c /\ (\A j \in Id \ {i} : ch2[j] = ch[j]) /\ ch2 = [j \in Id |-> ch2[j]]
  BY DEF Typed, LiveIn, Changed
<1>3. LiveIn(ch2) = LiveIn(ch) /\ i \in Id
  BY <1>1, <1>2 DEF LiveIn
<1>4. Typed(ch2)
  BY <1>2, <1>3 DEF Typed, LiveIn
<1>5. \A j \in LiveIn(ch) : /\ ch[j].h \in Handle /\ ch[j].h # h /\ (ch[j].h = ch[i].h <=> j = i)
                            /\ j # i => ch2[j] = ch[j]
  BY <1>2 DEF Linked, Typed, IsChunk, LiveIn
<1>6. \A k \in Handle, x \in Va : <<k, x>> \in N <=> <<k, x>> \in Pairs(ch2)
  <2> SUFFICES ASSUME NEW k \in Handle, NEW x \in Va
               PROVE  <<k, x>> \in N <=> <<k, x>> \in Pairs(ch2)
    OBVIOUS
  <2>1. <<k, x>> \in Pairs(ch2) <=> \E j \in LiveIn(ch) : ch2[j].h = k /\ ch2[j].va = x
    BY <1>3, PairOf
  <2>2. <<k, x>> \in Pairs(ch) <=> \E j \in LiveIn(ch) : ch[j].h = k /\ ch[j].va = x
    BY PairOf
  <2>3. <<k, x>> \in N <=> (k = h /\ x = c.va) \/ (k # h /\ k # ch[i].h /\ <<k, x>> \in Pairs(ch))
    OBVIOUS
  <2>4. CASE k = h
    <3>1. \A j \in LiveIn(ch) : ch2[j].h = k <=> j = i
      BY <1>2, <1>5, <2>4
    <3>2. QED
      BY <1>2, <2>1, <2>3, <2>4, <3>1
  <2>5. CASE k # h
    <3>1. \A j \in LiveIn(ch) : ch2[j].h = k <=> ch[j].h = k /\ k # ch[i].h
      BY <1>2, <1>5, <2>5
    <3>2. \A j \in LiveIn(ch) : ch2[j].h = k => ch2[j] = ch[j]
      BY <1>2, <1>5, <2>5
    <3>3. QED
      BY <2>1, <2>2, <2>3, <2>5, <3>1, <3>2
  <2>6. QED
    BY <2>4, <2>5
<1>7. Tidy(e, Pairs(ch2))
  BY <1>6, TidySame
<1>8. \A j \in LiveIn(ch2) : Backs(e, ch2[j])
  <2> SUFFICES ASSUME NEW j \in LiveIn(ch2) PROVE Backs(e, ch2[j])
    OBVIOUS
  <2>1. CASE j = i
    BY <1>2, <2>1
  <2>2. CASE j # i
    <3>1. ch2[j] = ch[j] /\ Backs(d, ch[j]) /\ SameMemory(d, e, ch[j].h)
      BY <1>3, <1>5, <2>2 DEF Linked
    <3>2. QED
      BY <3>1 DEF Backs, SameMemory
  <2>3. QED
    BY <2>1, <2>2
<1>9. \A k \in Handle : e.memory[k] # NoMemory => \E j \in LiveIn(ch2) : ch2[j].h = k
  <2> SUFFICES ASSUME NEW k \in Handle, e.memory[k] # NoMemory
               PROVE  \E j \in LiveIn(ch2) : ch2[j].h = k
    OBVIOUS
  <2>1. CASE k = h
    BY <1>2, <1>3, <2>1
  <2>2. CASE k # h
    <3>1. k # ch[i].h /\ d.memory[k] # NoMemory
      BY <2>2 DEF SameMemory
    <3>2. PICK j \in LiveIn(ch) : ch[j].h = k
      BY <3>1 DEF Linked
    <3>3. ch2[j] = ch[j]
      BY <1>5, <3>1, <3>2
    <3>4. QED
      BY <1>3, <3>2, <3>3
  <2>3. QED
    BY <2>1, <2>2
<1>10. \A j, k \in LiveIn(ch2) : ch2[j].h = ch2[k].h => j = k
  BY <1>2, <1>3, <1>5 DEF Linked
<1>11. QED
  BY <1>3, <1>4, <1>7, <1>8, <1>9, <1>10 DEF Linked

\* Chunk c can be moved, through a scratch range at s, to new memory h.
Movable(d, c, h, s) ==
    /\ d.memory[h] = NoMemory /\ Reservable(d, s, c.size)
    /\ \E w \in Va : Cells(c.va, c.size) \subseteq Cells(w, d.ranges[w])

\* The calls of remap, and what they do to chunk i.
MoveCalls(d, c, h, s, l, d1, d2, d3, d4, d5, d6, d7, d8, d9, d10, d11) ==
    /\ CopyCalls(d, c.va, c.size, h, s, l, d1, d2, d3, d4, d5)
    /\ SwapCalls(d5, c.h, c.va, c.size, h, s, d6, d7, d8, d9, d10, d11)
NoneRefused(d1, d2, d3, d4, d5, d6, d7, d8, d9, d10, d11) ==
    /\ d1 # Nil /\ d2 # Nil /\ d3 # Nil /\ d4 # Nil /\ d5 # Nil
    /\ d6 # Nil /\ d7 # Nil /\ d8 # Nil /\ d9 # Nil /\ d10 # Nil /\ d11 # Nil
HasMoved(d, e, ch, ch2, i, h) ==
    /\ Linked(e, ch2) /\ LiveIn(ch2) = LiveIn(ch) /\ e.ranges = d.ranges
    /\ Holds(d, e, h, ch[i].h)
    /\ \A j \in LiveIn(ch) : j # i => SameMemory(d, e, ch[j].h)

(* remap: every call succeeds, and the chunk is in new memory with its     *)
(* contents, at its address; nothing else has changed.                     *)
LEMMA LinkRemap ==
    ASSUME NEW d, NEW ch, Typed(ch), Linked(d, ch), NEW i \in LiveIn(ch), ch[i].va # 0,
           NEW h \in Handle, NEW s \in Va, Movable(d, ch[i], h, s), NEW l \in Loc,
           NEW c, c = Moved(ch[i], h, l), NEW ch2, Changed(ch, ch2, i, c),
           NEW d1, NEW d2, NEW d3, NEW d4, NEW d5,
           NEW d6, NEW d7, NEW d8, NEW d9, NEW d10, NEW d11,
           MoveCalls(d, ch[i], h, s, l, d1, d2, d3, d4, d5, d6, d7, d8, d9, d10, d11)
    PROVE  /\ NoneRefused(d1, d2, d3, d4, d5, d6, d7, d8, d9, d10, d11)
           /\ HasMoved(d, d11, ch, ch2, i, h)
<1>1. PICK o, v, n : o = ch[i].h /\ v = ch[i].va /\ n = ch[i].size
  OBVIOUS
<1>2. o \in Handle /\ v \in Va /\ n \in Nat \ {0} /\ n = Len(d.memory[o].data)
  BY <1>1 DEF Typed, IsChunk, Linked, Backs
<1>3. Tidy(d, Pairs(ch)) /\ \A x \in Va : <<o, x>> \in Pairs(ch) <=> x = v
  BY <1>1, <1>2, OwnPair DEF Linked
<1>4. d.memory[h] = NoMemory /\ Reservable(d, s, n)
  BY <1>1 DEF Movable
<1>5. PICK w \in Va : Cells(v, n) \subseteq Cells(w, d.ranges[w])
  BY <1>1 DEF Movable
<1>6. PICK N : With(N, Pairs(ch), h, s)
  BY OneMore
<1>7. PICK N6 : Without(N6, N, o, v)
  BY <1>2, OneMore
<1>8. PICK N9 : With(N9, N6, h, v)
  BY <1>2, OneMore
<1>9. PICK N10 : Without(N10, N9, h, s)
  BY OneMore
<1>10. CopyReady(d, Pairs(ch), o, v, n, h, s)
  BY <1>2, <1>3, <1>4 DEF CopyReady
<1>11. CopyCalls(d, v, n, h, s, l, d1, d2, d3, d4, d5)
  BY <1>1 DEF MoveCalls
<1>12. SwapCalls(d5, o, v, n, h, s, d6, d7, d8, d9, d10, d11)
  BY <1>1 DEF MoveCalls
<1>13. /\ d1 # Nil /\ d2 # Nil /\ d3 # Nil /\ d4 # Nil /\ d5 # Nil
       /\ Tidy(d5, N) /\ OneRange(d, d5, s, n) /\ d.ranges[s] = 0
       /\ h # o /\ s # v /\ (\A x \in Va : <<h, x>> \notin Pairs(ch))
       /\ (\A k \in Handle : k # h => SameMemory(d, d5, k))
       /\ d5.memory[h].open /\ d5.memory[h].loc = l /\ Len(d5.memory[h].data) = n
       /\ Holds(d, d5, h, o)
  <2>1. o \in Handle /\ v \in Va
    BY <1>2
  <2>2. QED
    BY <2>1, <1>6, <1>10, <1>11, RemapCopy, ZenonT(30)
<1>14. SwapReady(d5, N, o, v, n, h, s)
  <2>1. Len(d5.memory[o].data) = n
    BY <1>2, <1>13 DEF SameMemory
  <2>2. <<h, s>> \in N /\ <<o, v>> \in N /\ \A x \in Va : <<o, x>> \in N => x = v
    BY <1>2, <1>3, <1>6, <1>13 DEF With
  <2>3. w # s
    <3>1. v \in Cells(v, n) /\ Cells(s, 0) = {}
      BY <1>2, ManagerAssumption DEF Cells
    <3>2. QED
      BY <1>5, <1>13, <3>1
  <2>4. Cells(v, n) \subseteq Cells(w, d5.ranges[w])
    BY <1>5, <1>13, <2>3 DEF OneRange
  <2>5. d5.ranges[s] = n
    BY <1>13 DEF OneRange
  <2>6. QED
    BY <1>13, <2>1, <2>2, <2>4, <2>5 DEF SwapReady
<1>15. /\ d6 # Nil /\ d7 # Nil /\ d8 # Nil /\ d9 # Nil /\ d10 # Nil /\ d11 # Nil
       /\ Tidy(d11, N10) /\ OneRange(d5, d11, s, 0) /\ d11.memory[o] = NoMemory
       /\ \A k \in Handle : k # o => d11.memory[k] = d5.memory[k]
  BY <1>2, <1>7, <1>8, <1>9, <1>12, <1>14, RemapSwap
<1>16. d11.ranges = d.ranges
  <2>1. d.ranges \in [Va -> Nat] /\ d11.ranges \in [Va -> Nat]
    BY <1>3, <1>15 DEF Tidy, Sound
  <2>2. \A x \in Va : d11.ranges[x] = d.ranges[x]
    BY <1>13, <1>15 DEF OneRange
  <2>3. QED
    BY <2>1, <2>2
<1>17. /\ c.h = h /\ c.va = v /\ c.size = n /\ c.loc = l /\ IsChunk(c)
  <2>1. c = [size |-> n, loc |-> l, h |-> h, va |-> v]
    BY <1>1 DEF Moved
  <2>2. QED
    BY <1>2, <2>1 DEF IsChunk
<1>18. Backs(d11, c)
  BY <1>13, <1>15, <1>17 DEF Backs
<1>19. \A k \in Handle : k # h /\ k # o => SameMemory(d, d11, k)
  BY <1>13, <1>15, SameStep
<1>20. \A k \in Handle, x \in Va : <<k, x>> \in N10 <=>
          \/ k = h /\ x = c.va
          \/ k # h /\ k # o /\ <<k, x>> \in Pairs(ch)
  BY <1>3, <1>6, <1>7, <1>8, <1>9, <1>13, <1>17 DEF With, Without
<1>21. \A j \in LiveIn(ch) : ch[j].h \in Handle /\ ch[j].h # h /\ (j # i => ch[j].h # o)
  <2>1. \A j \in LiveIn(ch) : ch[j].h \in Handle /\ d.memory[ch[j].h].open
    BY DEF Typed, IsChunk, Linked, Backs
  <2>2. \A j \in LiveIn(ch) : ch[j].h # h
    BY <1>4, <2>1, MemoryType
  <2>3. QED
    BY <1>1, <2>1, <2>2 DEF Linked
<1>22. Linked(d11, ch2) /\ LiveIn(ch2) = LiveIn(ch)
  <2>1. /\ c.va = ch[i].va /\ c.size = ch[i].size /\ d11.memory[ch[i].h] = NoMemory
        /\ \A k \in Handle : k # h /\ k # ch[i].h => SameMemory(d, d11, k)
    BY <1>1, <1>15, <1>17, <1>19
  <2>2. \A k \in Handle, x \in Va : <<k, x>> \in N10 <=>
           \/ k = h /\ x = c.va
           \/ k # h /\ k # ch[i].h /\ <<k, x>> \in Pairs(ch)
    BY <1>1, <1>20
  <2>3. Tidy(d11, N10)
    BY <1>15
  <2>4. QED
    BY <1>17, <1>18, <1>21, <2>1, <2>2, <2>3, LinkMoved
<1>23. Holds(d, d11, h, o)
  BY <1>13, <1>15 DEF Holds
<1>24. QED
  <2>1. NoneRefused(d1, d2, d3, d4, d5, d6, d7, d8, d9, d10, d11)
    BY <1>13, <1>15 DEF NoneRefused
  <2>2. HasMoved(d, d11, ch, ch2, i, h)
    BY <1>1, <1>16, <1>19, <1>21, <1>22, <1>23 DEF HasMoved
  <2>3. QED
    BY <2>1, <2>2

-----------------------------------------------------------------------------
(* The calls, while none fails without cause. *)

Matched == ~broken /\ driver.ranges = reservations /\ Linked(driver, chunks)
Exactly == faults = 0 => Matched

\* What every call keeps then; also what a filled chunk holds.
FilledKept == \A i \in Live : Filled(i) /\ chunks'[i] # NoChunk => Filled(i)'
Held == Matched' /\ FilledKept

(* Where a sequence of calls stops then, the next one is refused. *)
LEMMA OnlyRefused ==
    ASSUME Ready, faults' = 0
    PROVE  /\ ~Fault /\ (Quiet => faults = 0 /\ (broken' = broken))
           /\ \A ds : Stops(ds) => /\ faults = 0 /\ broken' = broken
                                   /\ \E i \in 1 .. Len(ds) - 1 :
                                         ds[i] # Nil /\ ds[i + 1] = Nil /\ driver' = ds[i]
<1>1. faults \in Nat
  BY ManagerAssumption DEF Ready, Counters
<1>2. ~Fault /\ (Quiet => faults = 0 /\ (broken' = broken))
  BY <1>1 DEF Fault, Quiet
<1>3. ASSUME NEW ds, Stops(ds)
      PROVE  /\ faults = 0 /\ broken' = broken
             /\ \E i \in 1 .. Len(ds) - 1 : ds[i] # Nil /\ ds[i + 1] = Nil /\ driver' = ds[i]
  <2>1. PICK i \in 1 .. Len(ds) - 1 : /\ ds[i] # Nil /\ driver' = ds[i]
                                      /\ IF ds[i + 1] = Nil THEN Quiet ELSE Fault
    BY <1>3 DEF Stops
  <2>2. ds[i + 1] = Nil /\ Quiet
    BY <1>2, <2>1
  <2>3. QED
    BY <1>2, <2>1, <2>2
<1>4. QED
  BY <1>2, <1>3

(* A filled chunk stays filled when its memory, or other memory in its     *)
(* place, holds what its own held.                                         *)
LEMMA FilledMoves ==
    ASSUME Linked(driver, chunks), NEW i \in Live, Filled(i), chunks'[i].size = chunks[i].size,
           Holds(driver, driver', chunks'[i].h, chunks[i].h)
    PROVE  Filled(i)'
<1>1. Len(driver.memory[chunks[i].h].data) = chunks[i].size
  BY DEF Linked, Backs, LiveIn, Live
<1>2. QED
  BY <1>1 DEF Filled, Holds

(* Nothing changes. *)
LEMMA SameHeld ==
    ASSUME Matched, UNCHANGED <<records, driver, broken>> PROVE Held
<1>1. Matched'
  BY DEF Matched, records
<1>2. FilledKept
  BY DEF FilledKept, Filled, records
<1>3. QED
  BY <1>1, <1>2 DEF Held

(* A refused call. *)
LEMMA RefusedHeld ==
    ASSUME Ready, Exactly, faults' = 0, UNCHANGED vars PROVE Held
BY SameHeld DEF Exactly, vars

(* A change of the records and of the driver that moves nothing. *)
LEMMA StillHeld ==
    ASSUME Matched, broken' = broken, driver'.ranges = reservations', Linked(driver', chunks'),
           \A i \in Live : chunks'[i] # NoChunk =>
              /\ chunks'[i].size = chunks[i].size
              /\ Holds(driver, driver', chunks'[i].h, chunks[i].h)
    PROVE  Held
<1>1. Matched'
  BY DEF Matched
<1>2. FilledKept
  BY FilledMoves DEF FilledKept, Matched
<1>3. QED
  BY <1>1, <1>2 DEF Held

(* The driver reserves what the Manager records. *)
LEMMA ReserveHeld ==
    ASSUME Ready, Exactly, faults' = 0, NEW n \in Nat, NEW r, Reserve(n, r) PROVE Held
<1>1. PICK d : d = AddressReserve(driver, r, n)
  OBVIOUS
<1>2. CASE /\ r \in Va /\ Works(<<driver, d>>)
           /\ reservations' = [reservations EXCEPT ![r] = n] /\ UNCHANGED <<chunks, next>>
  <2>1. d # Nil /\ driver' = d /\ Quiet
    BY <1>2 DEF Works
  <2>2. Matched /\ broken' = broken
    BY <2>1, OnlyRefused DEF Exactly
  <2>3. Reservable(driver, r, n)
    BY <1>1, <2>1 DEF AddressReserve
  <2>4. Tidy(driver, Pairs(chunks))
    BY <2>2 DEF Matched, Linked
  <2>5. Tidy(d, Pairs(chunks)) /\ d.memory = driver.memory /\ d.ranges = [driver.ranges EXCEPT ![r] = n]
    BY <1>1, <1>2, <2>3, <2>4, TidyReserve
  <2>6. Linked(d, chunks)
    BY <2>2, <2>5 DEF Matched, Linked, Backs
  <2>7. \A k : Holds(driver, d, k, k)
    BY <2>5 DEF Holds
  <2>8. chunks' = chunks /\ driver'.ranges = reservations'
    BY <1>2, <2>1, <2>2, <2>5 DEF Matched
  <2>9. Linked(driver', chunks') /\ \A k : Holds(driver, driver', k, k)
    BY <2>1, <2>6, <2>7, <2>8
  <2>10. QED
    BY <2>2, <2>8, <2>9, StillHeld
<1>3. CASE UNCHANGED <<records, driver>> /\ (Quiet \/ Fault)
  BY <1>3, OnlyRefused, SameHeld DEF Exactly
<1>4. QED
  BY <1>1, <1>2, <1>3 DEF Reserve, records

(* create: the next chunk has new memory. *)
LEMMA CreateHeld ==
    ASSUME Ready, Exactly, faults' = 0, NEW n \in Nat, NEW l \in Loc, NEW r, Create(n, l, r)
    PROVE  Held
<1>1. CASE Refused(r)
  BY <1>1, RefusedHeld DEF Refused
<1>2. ASSUME n > 0, next < MaxId, NEW h \in Fresh, NEW d, d = MemCreate(driver, h, n, l),
             reservations' = reservations,
             \/ /\ r = next /\ Works(<<driver, d>>)
                /\ chunks' = [chunks EXCEPT ![r] = [size |-> n, loc |-> l, h |-> h, va |-> 0]]
             \/ Stops(<<driver, d>>)
      PROVE  Held
  <2>1. faults = 0 /\ broken' = broken
    BY <1>2, OnlyRefused DEF Works
  <2>2. Matched
    BY <2>1 DEF Exactly
  <2>3. PICK c : c = [size |-> n, loc |-> l, h |-> h, va |-> 0]
    OBVIOUS
  <2>4. PICK ch2 : ch2 = [chunks EXCEPT ![next] = c]
    OBVIOUS
  <2>5. next \in Id /\ chunks[next] = NoChunk
    BY <1>2, ManagerAssumption DEF Ready, Records, Live, Id
  <2>6. h \in Handle /\ driver.memory[h] = NoMemory
    BY DEF Fresh
  <2>7. /\ d # Nil /\ Linked(d, ch2) /\ d.ranges = driver.ranges
        /\ \A j \in LiveIn(chunks) : d.memory[chunks[j].h] = driver.memory[chunks[j].h]
    <3>1. Typed(chunks) /\ Linked(driver, chunks) /\ Changed(chunks, ch2, next, c)
      BY <2>2, <2>4 DEF Ready, Records, Matched, Changed
    <3>2. QED
      BY <1>2, <2>3, <2>5, <2>6, <3>1, LinkCreate
  <2>8. r = next /\ driver' = d /\ chunks' = ch2
    <3>1. ~Stops(<<driver, d>>)
      <4> SUFFICES ASSUME Stops(<<driver, d>>) PROVE FALSE
        OBVIOUS
      <4>1. PICK i \in 1 .. Len(<<driver, d>>) - 1 : <<driver, d>>[i + 1] = Nil
        BY OnlyRefused
      <4>2. QED
        BY <2>7, <4>1
    <3>2. QED
      BY <1>2, <2>3, <2>4, <3>1 DEF Works
  <2>9. \A i \in Live : chunks'[i] = chunks[i] /\ Holds(driver, driver', chunks[i].h, chunks[i].h)
    <3>1. \A i \in Live : i # next /\ i \in LiveIn(chunks)
      BY <2>5 DEF Live, LiveIn
    <3>2. \A i \in Live : chunks'[i] = chunks[i]
      BY <2>4, <2>8, <3>1
    <3>3. QED
      BY <2>7, <2>8, <3>1, <3>2 DEF Holds
  <2>10. driver'.ranges = reservations' /\ Linked(driver', chunks')
    BY <1>2, <2>2, <2>7, <2>8 DEF Matched
  <2>11. QED
    BY <2>1, <2>2, <2>9, <2>10, StillHeld
<1>3. QED
  BY <1>1, <1>2 DEF Create

(* map: the chunk's memory is in its new place, or the driver has refused. *)
LEMMA MapHeld ==
    ASSUME Ready, Exactly, faults' = 0, NEW i, NEW v \in Nat, NEW r, Map(i, v, r) PROVE Held
<1>1. CASE Refused(r)
  BY <1>1, RefusedHeld DEF Refused
<1>2. ASSUME i \in Live, chunks[i].va = 0, Inside(v, chunks[i].size),
             NEW m, m = MemMap(driver, v, chunks[i].h),
             NEW d, d = SetAccess(m, v, chunks[i].size),
             UNCHANGED <<reservations, next>>,
             \/ Works(<<driver, m, d>>) /\ chunks' = [chunks EXCEPT ![i].va = v]
             \/ Stops(<<driver, m, d>>) /\ UNCHANGED chunks
      PROVE  Held
  <2>1. faults = 0 /\ broken' = broken
    BY <1>2, OnlyRefused DEF Works
  <2>2. Matched /\ Typed(chunks)
    BY <2>1 DEF Exactly, Ready, Records
  <2>3. i \in LiveIn(chunks) /\ IsChunk(chunks[i])
    BY <1>2, LiveChunk DEF Live, LiveIn
  <2>4. PICK w \in Va : Cells(v, chunks[i].size) \subseteq Cells(w, driver.ranges[w])
    BY <1>2, <2>2 DEF Inside, Matched
  <2>5. v \in Va
    <3>1. v \in Cells(v, chunks[i].size)
      BY <2>3 DEF IsChunk, Cells
    <3>2. QED
      BY <2>4, <3>1 DEF Ready, Fits, Sound
  <2>6. PICK c : c = [size |-> chunks[i].size, loc |-> chunks[i].loc, h |-> chunks[i].h, va |-> v]
    OBVIOUS
  <2>7. /\ IsChunk(c) /\ c.h = chunks[i].h /\ c.loc = chunks[i].loc
        /\ c.size = chunks[i].size /\ c.va = v
    BY <2>3, <2>5, <2>6 DEF IsChunk
  <2>8. [chunks EXCEPT ![i].va = v] = [chunks EXCEPT ![i] = c]
    <3>1. [chunks[i] EXCEPT !.va = v] = c
      BY <2>3, <2>6 DEF IsChunk
    <3>2. QED
      BY <3>1
  <2>9. PICK ch2 : ch2 = [chunks EXCEPT ![i] = c]
    OBVIOUS
  <2>10. ASSUME m # Nil
         PROVE  d # Nil /\ Linked(d, ch2) /\ d.ranges = driver.ranges /\ d.memory = driver.memory
    <3>1. Typed(chunks) /\ Linked(driver, chunks) /\ Changed(chunks, ch2, i, c)
      BY <2>2, <2>9 DEF Matched, Changed
    <3>2. QED
      BY <1>2, <2>3, <2>4, <2>5, <2>7, <2>10, <3>1, LinkMap
  <2>11. CASE Works(<<driver, m, d>>) /\ chunks' = [chunks EXCEPT ![i].va = v]
    <3>1. d # Nil /\ driver' = d /\ chunks' = ch2
      BY <2>8, <2>9, <2>11 DEF Works
    <3>2. m # Nil
      BY <1>2, <3>1 DEF SetAccess
    <3>3. \A j \in Live : chunks'[j].size = chunks[j].size /\ chunks'[j].h = chunks[j].h
      BY <2>2, <2>7, <2>9, <3>1 DEF Live, Typed
    <3>4. \A k : Holds(driver, driver', k, k)
      BY <2>10, <3>1, <3>2 DEF Holds
    <3>5. driver'.ranges = reservations' /\ Linked(driver', chunks')
      BY <1>2, <2>2, <2>10, <3>1, <3>2 DEF Matched
    <3>6. QED
      BY <2>1, <2>2, <3>3, <3>4, <3>5, StillHeld
  <2>12. CASE Stops(<<driver, m, d>>) /\ UNCHANGED chunks
    <3>1. PICK j \in 1 .. Len(<<driver, m, d>>) - 1 :
             /\ <<driver, m, d>>[j] # Nil /\ <<driver, m, d>>[j + 1] = Nil
             /\ driver' = <<driver, m, d>>[j]
      BY <2>12, OnlyRefused
    <3>2. driver' = driver
      BY <2>10, <3>1
    <3>3. QED
      BY <1>2, <2>1, <2>2, <2>12, <3>2, SameHeld DEF records
  <2>13. QED
    BY <1>2, <2>11, <2>12
<1>3. QED
  BY <1>1, <1>2 DEF Map

(* A call of the driver that is not refused does not stop the sequence. *)
LEMMA OneCall ==
    ASSUME Ready, faults' = 0, NEW d, d # Nil, Works(<<driver, d>>) \/ Stops(<<driver, d>>)
    PROVE  Works(<<driver, d>>) /\ ~Stops(<<driver, d>>) /\ driver' = d
           /\ faults = 0 /\ broken' = broken
<1>1. ~Stops(<<driver, d>>)
  <2> SUFFICES ASSUME Stops(<<driver, d>>) PROVE FALSE
    OBVIOUS
  <2>1. PICK i \in 1 .. Len(<<driver, d>>) - 1 : <<driver, d>>[i + 1] = Nil
    BY OnlyRefused
  <2>2. QED
    BY <2>1
<1>2. QED
  BY <1>1, OnlyRefused DEF Works

(* unmap succeeds. *)
LEMMA UnmapHeld ==
    ASSUME Ready, Exactly, faults' = 0, NEW i, NEW r, Unmap(i, r) PROVE Held
<1>1. CASE Refused(r)
  BY <1>1, RefusedHeld DEF Refused
<1>2. ASSUME i \in Live, chunks[i].va # 0,
             NEW d, d = MemUnmap(driver, chunks[i].va, chunks[i].size),
             UNCHANGED <<reservations, next>>,
             \/ Works(<<driver, d>>) /\ chunks' = [chunks EXCEPT ![i].va = 0]
             \/ Stops(<<driver, d>>)
      PROVE  Held
  <2>1. faults = 0
    BY <1>2, OnlyRefused DEF Works
  <2>2. Matched /\ Typed(chunks)
    BY <2>1 DEF Exactly, Ready, Records
  <2>3. i \in LiveIn(chunks) /\ IsChunk(chunks[i])
    BY <1>2, LiveChunk DEF Live, LiveIn
  <2>4. PICK c : c = [size |-> chunks[i].size, loc |-> chunks[i].loc, h |-> chunks[i].h, va |-> 0]
    OBVIOUS
  <2>5. /\ IsChunk(c) /\ c.h = chunks[i].h /\ c.loc = chunks[i].loc
        /\ c.size = chunks[i].size /\ c.va = 0
    BY <2>3, <2>4 DEF IsChunk
  <2>6. PICK ch2 : ch2 = [chunks EXCEPT ![i] = c]
    OBVIOUS
  <2>7. [chunks EXCEPT ![i].va = 0] = ch2
    <3>1. [chunks[i] EXCEPT !.va = 0] = c
      BY <2>3, <2>4 DEF IsChunk
    <3>2. QED
      BY <2>6, <3>1
  <2>8. d # Nil /\ Linked(d, ch2) /\ d.ranges = driver.ranges
        /\ \A h \in Handle : d.memory[h] = driver.memory[h]
    <3>1. Typed(chunks) /\ Linked(driver, chunks) /\ Changed(chunks, ch2, i, c)
      BY <2>2, <2>6 DEF Matched, Changed
    <3>2. QED
      BY <1>2, <2>3, <2>5, <3>1, LinkUnmap
  <2>9. driver' = d /\ chunks' = ch2 /\ broken' = broken
    BY <1>2, <2>7, <2>8, OneCall
  <2>10. \A j \in Live : chunks'[j].size = chunks[j].size /\ chunks'[j].h = chunks[j].h
    BY <2>2, <2>5, <2>6, <2>9 DEF Live, Typed
  <2>11. \A k \in Handle : Holds(driver, driver', k, k)
    BY <2>8, <2>9 DEF Holds
  <2>12. driver'.ranges = reservations' /\ Linked(driver', chunks')
    BY <1>2, <2>2, <2>8, <2>9 DEF Matched
  <2>13. \A j \in Live : chunks[j].h \in Handle
    BY LiveChunk DEF IsChunk
  <2>14. QED
    BY <2>2, <2>9, <2>10, <2>11, <2>12, <2>13, StillHeld
<1>3. QED
  BY <1>1, <1>2 DEF Unmap

(* release succeeds: the memory goes. *)
LEMMA ReleaseHeld ==
    ASSUME Ready, Exactly, faults' = 0, NEW i, NEW r, Release(i, r) PROVE Held
<1>1. CASE Refused(r)
  BY <1>1, RefusedHeld DEF Refused
<1>2. ASSUME i \in Live, chunks[i].va = 0, NEW d, d = MemRelease(driver, chunks[i].h),
             UNCHANGED reservations,
             \/ Works(<<driver, d>>) /\ chunks' = [chunks EXCEPT ![i] = NoChunk]
             \/ Stops(<<driver, d>>)
      PROVE  Held
  <2>1. faults = 0
    BY <1>2, OnlyRefused DEF Works
  <2>2. Matched /\ Typed(chunks)
    BY <2>1 DEF Exactly, Ready, Records
  <2>3. i \in LiveIn(chunks)
    BY <1>2 DEF Live, LiveIn
  <2>4. PICK ch2 : ch2 = [chunks EXCEPT ![i] = NoChunk]
    OBVIOUS
  <2>5. /\ d # Nil /\ Linked(d, ch2) /\ d.ranges = driver.ranges
        /\ \A j \in LiveIn(ch2) : ch2[j] = chunks[j] /\ d.memory[chunks[j].h] = driver.memory[chunks[j].h]
    <3>1. Typed(chunks) /\ Linked(driver, chunks) /\ Changed(chunks, ch2, i, NoChunk)
      BY <2>2, <2>4 DEF Matched, Changed
    <3>2. QED
      BY <1>2, <2>3, <3>1, LinkRelease
  <2>6. driver' = d /\ chunks' = ch2 /\ broken' = broken
    BY <1>2, <2>4, <2>5, OneCall
  <2>7. \A j \in Live : chunks'[j] # NoChunk =>
           chunks'[j] = chunks[j] /\ Holds(driver, driver', chunks[j].h, chunks[j].h)
    BY <2>5, <2>6 DEF Holds, Live, LiveIn
  <2>8. driver'.ranges = reservations' /\ Linked(driver', chunks')
    BY <1>2, <2>2, <2>5, <2>6 DEF Matched
  <2>9. QED
    BY <2>2, <2>6, <2>7, <2>8, StillHeld
<1>3. QED
  BY <1>1, <1>2 DEF Release

(* A range given back. *)
LEMMA RangeHeld ==
    ASSUME Ready, Matched, NEW v \in Va, NEW d, d = AddressFree(driver, v, reservations[v]),
           d # Nil, driver' = d, broken' = broken, UNCHANGED chunks,
           reservations' = [reservations EXCEPT ![v] = 0]
    PROVE  Held
<1>1. driver.ranges[v] = reservations[v] /\ \A a \in Cells(v, reservations[v]) : driver.at[a] = Unmapped
  BY DEF AddressFree
<1>2. Tidy(driver, Pairs(chunks))
  BY DEF Matched, Linked
<1>3. Tidy(d, Pairs(chunks)) /\ d.memory = driver.memory /\ d.ranges = [driver.ranges EXCEPT ![v] = 0]
  BY <1>1, <1>2, TidyFree
<1>4. Linked(d, chunks)
  BY <1>3 DEF Matched, Linked, Backs
<1>5. \A k : Holds(driver, driver', k, k)
  BY <1>3 DEF Holds
<1>6. driver'.ranges = reservations' /\ Linked(driver', chunks')
  BY <1>3, <1>4 DEF Matched
<1>7. QED
  BY <1>5, <1>6, StillHeld

(* free: the driver refuses a range with something mapped in it, or it goes. *)
LEMMA FreeHeld ==
    ASSUME Ready, Exactly, faults' = 0, NEW v, NEW r, Free(v, r) PROVE Held
<1>1. CASE Refused(r)
  BY <1>1, RefusedHeld DEF Refused
<1>2. ASSUME v \in Va, NEW d, d = AddressFree(driver, v, reservations[v]), UNCHANGED <<chunks, next>>,
             \/ Works(<<driver, d>>) /\ reservations' = [reservations EXCEPT ![v] = 0]
             \/ Stops(<<driver, d>>) /\ UNCHANGED reservations
      PROVE  Held
  <2>1. faults = 0 /\ broken' = broken
    BY <1>2, OnlyRefused DEF Works
  <2>2. Matched
    BY <2>1 DEF Exactly
  <2>3. CASE Works(<<driver, d>>) /\ reservations' = [reservations EXCEPT ![v] = 0]
    <3>1. d # Nil /\ driver' = d
      BY <2>3 DEF Works
    <3>2. QED
      BY <1>2, <2>1, <2>2, <2>3, <3>1, RangeHeld
  <2>4. CASE Stops(<<driver, d>>) /\ UNCHANGED reservations
    <3>1. PICK j \in 1 .. Len(<<driver, d>>) - 1 : driver' = <<driver, d>>[j]
      BY <2>4, OnlyRefused
    <3>2. driver' = driver
      BY <3>1
    <3>3. QED
      BY <1>2, <2>1, <2>2, <2>4, <3>2, SameHeld DEF records
  <2>5. QED
    BY <1>2, <2>3, <2>4
<1>3. QED
  BY <1>1, <1>2 DEF Free

(* remap succeeds. *)
LEMMA RemapHeld ==
    ASSUME Ready, Exactly, faults' = 0, NEW i, NEW l \in Loc, NEW r, Remap(i, l, r) PROVE Held
<1>1. CASE Refused(r) \/ UNCHANGED vars
  BY <1>1, RefusedHeld DEF Refused
<1>2. ASSUME i \in Live, chunks[i].va # 0, NEW h \in Fresh, NEW s \in Scratch(chunks[i].size),
             UNCHANGED <<reservations, next>>,
             NEW ds, ds = RemapCalls(chunks[i], h, s, l),
             \/ Stops(ds)
             \/ Works(ds) /\ chunks' = [chunks EXCEPT ![i] = Moved(chunks[i], h, l)]
      PROVE  Held
  <2>1. faults = 0 /\ broken' = broken
    BY <1>2, OnlyRefused DEF Works
  <2>2. Matched /\ Typed(chunks)
    BY <2>1 DEF Exactly, Ready, Records
  <2>3. i \in LiveIn(chunks) /\ IsChunk(chunks[i])
    BY <1>2, LiveChunk DEF Live, LiveIn
  <2>4. h \in Handle /\ s \in Va /\ Movable(driver, chunks[i], h, s)
    <3>1. h \in Handle /\ driver.memory[h] = NoMemory /\ s \in Va
      BY DEF Fresh, Scratch
    <3>2. Reservable(driver, s, chunks[i].size)
      BY DEF Scratch, AddressReserve
    <3>3. \E w \in Va : Cells(chunks[i].va, chunks[i].size) \subseteq Cells(w, driver.ranges[w])
      BY <1>2, <2>2 DEF Ready, Placed, Matched
    <3>4. QED
      BY <3>1, <3>2, <3>3 DEF Movable
  <2>5. PICK c : c = Moved(chunks[i], h, l)
    OBVIOUS
  <2>6. PICK ch2 : ch2 = [chunks EXCEPT ![i] = c]
    OBVIOUS
  <2>7. PICK d1 : d1 = MemCreate(driver, h, chunks[i].size, l)
    OBVIOUS
  <2>8. PICK d2 : d2 = AddressReserve(d1, s, chunks[i].size)
    OBVIOUS
  <2>9. PICK d3 : d3 = MemMap(d2, s, h)
    OBVIOUS
  <2>10. PICK d4 : d4 = SetAccess(d3, s, chunks[i].size)
    OBVIOUS
  <2>11. PICK d5 : d5 = Memcpy(d4, s, chunks[i].va, chunks[i].size)
    OBVIOUS
  <2>12. PICK d6 : d6 = MemUnmap(d5, chunks[i].va, chunks[i].size)
    OBVIOUS
  <2>13. PICK d7 : d7 = MemRelease(d6, chunks[i].h)
    OBVIOUS
  <2>14. PICK d8 : d8 = MemMap(d7, chunks[i].va, h)
    OBVIOUS
  <2>15. PICK d9 : d9 = SetAccess(d8, chunks[i].va, chunks[i].size)
    OBVIOUS
  <2>16. PICK d10 : d10 = MemUnmap(d9, s, chunks[i].size)
    OBVIOUS
  <2>17. PICK d11 : d11 = AddressFree(d10, s, chunks[i].size)
    OBVIOUS
  <2>18. CopyCalls(driver, chunks[i].va, chunks[i].size, h, s, l, d1, d2, d3, d4, d5)
    BY <2>7, <2>8, <2>9, <2>10, <2>11 DEF CopyCalls
  <2>19. SwapCalls(d5, chunks[i].h, chunks[i].va, chunks[i].size, h, s, d6, d7, d8, d9, d10, d11)
    BY <2>12, <2>13, <2>14, <2>15, <2>16, <2>17 DEF SwapCalls
  <2>20. ds = <<driver, d1, d2, d3, d4, d5, d6, d7, d8, d9, d10, d11>>
    BY <1>2, <2>7, <2>8, <2>9, <2>10, <2>11, <2>12, <2>13, <2>14, <2>15, <2>16, <2>17
       DEF RemapCalls, Copied, ScratchFreed
  <2>21. /\ NoneRefused(d1, d2, d3, d4, d5, d6, d7, d8, d9, d10, d11)
         /\ HasMoved(driver, d11, chunks, ch2, i, h)
    <3>1. Typed(chunks) /\ Linked(driver, chunks) /\ Changed(chunks, ch2, i, c)
      BY <2>2, <2>6 DEF Matched, Changed
    <3>2. chunks[i].va # 0
      BY <1>2
    <3>3. MoveCalls(driver, chunks[i], h, s, l, d1, d2, d3, d4, d5, d6, d7, d8, d9, d10, d11)
      BY <2>18, <2>19 DEF MoveCalls
    <3>4. QED
      BY <2>3, <2>4, <2>5, <3>1, <3>2, <3>3, LinkRemap
  <2>22. Len(ds) = 12 /\ ds[12] = d11 /\ \A j \in 1 .. 11 : ds[j + 1] # Nil
    BY <2>20, <2>21 DEF NoneRefused
  <2>23. ~Stops(ds)
    <3> SUFFICES ASSUME Stops(ds) PROVE FALSE
      OBVIOUS
    <3>1. PICK j \in 1 .. Len(ds) - 1 : ds[j + 1] = Nil
      BY OnlyRefused
    <3>2. QED
      BY <2>22, <3>1
  <2>24. driver' = d11 /\ chunks' = ch2
    BY <1>2, <2>5, <2>6, <2>22, <2>23 DEF Works
  <2>25. c.size = chunks[i].size /\ c.h = h
    BY <2>5 DEF Moved
  <2>26. \A j \in Live : /\ chunks'[j].size = chunks[j].size
                         /\ Holds(driver, driver', chunks'[j].h, chunks[j].h)
    <3> SUFFICES ASSUME NEW j \in Live
                 PROVE  /\ chunks'[j].size = chunks[j].size
                        /\ Holds(driver, driver', chunks'[j].h, chunks[j].h)
      OBVIOUS
    <3>1. CASE j = i
      <4>1. chunks'[j] = c
        BY <2>2, <2>6, <2>24, <3>1 DEF Typed, Live
      <4>2. QED
        BY <2>21, <2>24, <2>25, <3>1, <4>1 DEF HasMoved
    <3>2. CASE j # i
      <4>1. chunks'[j] = chunks[j] /\ j \in LiveIn(chunks)
        BY <2>2, <2>6, <2>24, <3>2 DEF Typed, Live, LiveIn
      <4>2. QED
        BY <2>21, <2>24, <3>2, <4>1 DEF HasMoved, SameMemory, SameData
    <3>3. QED
      BY <3>1, <3>2
  <2>27. driver'.ranges = reservations' /\ Linked(driver', chunks')
    BY <1>2, <2>2, <2>21, <2>24 DEF HasMoved, Matched
  <2>28. QED
    BY <2>1, <2>2, <2>26, <2>27, StillHeld
<1>3. QED
  BY <1>1, <1>2 DEF Remap

(* fill and check reach the chunk; fill writes no other. *)
LEMMA PatternHeld ==
    ASSUME Ready, Exactly, faults' = 0, NEW i, NEW fill \in BOOLEAN, NEW r, PatternCall(i, fill, r)
    PROVE  Held
<1>1. CASE Refused(r)
  BY <1>1, RefusedHeld DEF Refused
<1>2. ASSUME i \in Live, chunks[i].va # 0, NEW v, v = chunks[i].va, NEW n, n = chunks[i].size,
             UNCHANGED records, faults = 0,
             NEW val, val = Pattern(i, v, n)
      PROVE  /\ Accessible(driver, v, n) /\ (Quiet /\ UNCHANGED driver => Held)
             /\ Quiet /\ driver' = Written(driver, v, n, val) => Held
  <2>1. Matched /\ Typed(chunks)
    BY <1>2 DEF Exactly, Ready, Records
  <2>2. i \in LiveIn(chunks) /\ v \in Va /\ v \in Nat /\ n \in Nat /\ chunks[i].h \in Handle
        /\ i \in Id
    BY <1>2, LiveChunk DEF Live, LiveIn, IsChunk
  <2>3. Accessible(driver, v, n)
    <3>1. <<chunks[i].h, v>> \in Pairs(chunks) /\ Len(driver.memory[chunks[i].h].data) = n
      BY <1>2, <2>1, <2>2, OwnPair DEF Matched, Linked, Backs
    <3>2. MappedAs(driver, chunks[i].h, v)
      BY <2>1, <2>2, <3>1 DEF Matched, Linked, Tidy, Neat
    <3>3. ASSUME NEW a \in Cells(v, n) PROVE driver.at[a].rw
      <4>1. driver.at[a] = [h |-> chunks[i].h, off |-> a - v, rw |-> TRUE]
        BY <3>1, <3>2 DEF MappedAs
      <4>2. QED
        BY <4>1
    <3>4. QED
      BY <3>3 DEF Accessible
  <2>4. ASSUME Quiet, UNCHANGED driver PROVE Held
    BY <1>2, <2>1, <2>4, SameHeld DEF Quiet
  <2>5. ASSUME Quiet, driver' = Written(driver, v, n, val) PROVE Held
    <3>1. \A g \in 1 .. n : val[v + g - 1] = <<i, g - 1>>
      <4> SUFFICES ASSUME NEW g \in 1 .. n PROVE val[v + g - 1] = <<i, g - 1>>
        OBVIOUS
      <4>1. v + g - 1 \in Cells(v, n) /\ (v + g - 1) - v = g - 1
        BY <2>2 DEF Cells
      <4>2. QED
        BY <1>2, <4>1 DEF Pattern
    <3>2. Data(val, v, n)
      BY <1>2, <2>2 DEF Pattern, Data, Datum, Cells
    <3>3. /\ Linked(driver', chunks) /\ OnlyData(driver, driver', chunks[i].h)
          /\ HoldsAll(driver', chunks[i], chunks[i].va, val)
      <4>1. Data(val, chunks[i].va, chunks[i].size)
        BY <1>2, <3>2
      <4>2. driver' = Written(driver, chunks[i].va, chunks[i].size, val)
        BY <1>2, <2>5
      <4>3. Linked(driver, chunks)
        BY <2>1 DEF Matched
      <4>4. QED
        BY <1>2, <2>1, <2>2, <4>1, <4>2, <4>3, LinkFill
    <3>4. Matched'
      BY <1>2, <2>1, <2>5, <3>3 DEF Matched, OnlyData, Quiet, records
    <3>5. Filled(i)'
      BY <1>2, <3>1, <3>3 DEF Filled, HoldsAll, records
    <3>6. \A j \in Live : j # i /\ Filled(j) => Filled(j)'
      <4> SUFFICES ASSUME NEW j \in Live, j # i, Filled(j) PROVE Filled(j)'
        OBVIOUS
      <4>1. chunks[j].h # chunks[i].h /\ chunks[j].h \in Handle
        BY <2>1, <2>2, LiveChunk DEF Matched, Linked, Live, LiveIn, IsChunk
      <4>2. Holds(driver, driver', chunks'[j].h, chunks[j].h) /\ chunks'[j].size = chunks[j].size
        BY <1>2, <3>3, <4>1 DEF OnlyData, SameData, records
      <4>3. QED
        BY <2>1, <4>2, FilledMoves DEF Matched
    <3>7. QED
      BY <3>4, <3>5, <3>6 DEF Held, FilledKept
  <2>6. QED
    BY <2>3, <2>4, <2>5
<1>3. CASE i \in Live /\ chunks[i].va # 0 /\ ~Refused(r)
  <2>1. PICK v, n, val : v = chunks[i].va /\ n = chunks[i].size /\ val = Pattern(i, v, n)
    OBVIOUS
  <2>2. /\ UNCHANGED records
        /\ \/ UNCHANGED <<driver, faults>> /\ ~Accessible(driver, v, n)
           \/ Fault
           \/ Quiet /\ (driver' = Written(driver, v, n, val) \/ UNCHANGED driver)
    BY <1>3, <2>1 DEF PatternCall
  <2>3. faults = 0 /\ ~Fault
    BY <2>2, OnlyRefused
  <2>4. QED
    BY <1>2, <1>3, <2>1, <2>2, <2>3
<1>4. QED
  BY <1>1, <1>3 DEF PatternCall

(* A statement. *)
LEMMA StatementHeld ==
    ASSUME Ready, Values, Exactly, faults' = 0, Statement PROVE Held
<1>1. ASSUME NEW k, NEW r, Run(k, r) PROVE Held
  <2>1. CASE UNCHANGED vars
    BY <2>1, RefusedHeld
  <2>2. \A i : (Address(i, r) \/ Lookup(i, r) => UNCHANGED vars) /\ (NoneHere(r) => UNCHANGED vars)
    BY DEF Address, Lookup, Refused, NoneHere
  <2>3. QED
    BY <1>1, <2>1, <2>2, RunCalls, ReserveHeld, MapHeld, UnmapHeld, RemapHeld, CreateHeld,
       ReleaseHeld, FreeHeld
<1>2. ASSUME NEW r, Act(r) PROVE Held
  <2>1. CASE NoneHere(r)
    BY <2>1, RefusedHeld DEF NoneHere
  <2>2. CASE \E i : \E fill \in BOOLEAN : PatternCall(i, fill, r)
    BY <2>2, PatternHeld
  <2>3. QED
    BY <1>2, <2>1, <2>2 DEF Act, ChunkCall
<1>3. QED
  BY <1>1, <1>2 DEF Statement

(* The destructor unmaps a chunk and gives back its memory. *)
LEMMA DropHeld ==
    ASSUME Ready, Exactly, faults' = 0, NEW ok, DropChunk(ok) PROVE Held
<1>1. PICK i \in Live, failing \in {"none", "unmap", "release"} :
         /\ Ends(Dropped(chunks[i], failing), ok, failing)
         /\ chunks' = [chunks EXCEPT ![i] = NoChunk]
         /\ UNCHANGED <<reservations, next>>
  BY DEF DropChunk
<1>2. faults = 0 /\ broken' = broken /\ failing = "none" /\ driver' = Dropped(chunks[i], "none").d
  BY <1>1, OnlyRefused DEF Ends
<1>3. Matched /\ Typed(chunks) /\ Linked(driver, chunks)
  BY <1>2 DEF Exactly, Matched, Ready, Records
<1>4. PICK k : k = chunks[i]
  OBVIOUS
<1>5. i \in LiveIn(chunks) /\ IsChunk(k)
  BY <1>4, LiveChunk DEF Live, LiveIn
<1>6. PICK c : c = [size |-> k.size, loc |-> k.loc, h |-> k.h, va |-> 0]
  OBVIOUS
<1>7. IsChunk(c) /\ c.h = k.h /\ c.loc = k.loc /\ c.size = k.size /\ c.va = 0
  BY <1>5, <1>6 DEF IsChunk
<1>8. PICK mid : mid = [chunks EXCEPT ![i] = c]
  OBVIOUS
<1>9. PICK u : u = IF k.va = 0 THEN Tried ELSE Try(Tried, MemUnmap(driver, k.va, k.size), "unmap", "none")
  OBVIOUS
<1>10. /\ u.d # Nil /\ Linked(u.d, mid) /\ Typed(mid) /\ LiveIn(mid) = LiveIn(chunks)
       /\ u.d.ranges = driver.ranges /\ u = [d |-> u.d, clean |-> u.clean]
       /\ \A h \in Handle : u.d.memory[h] = driver.memory[h]
  <2>1. CASE k.va = 0
    <3>1. c = k
      BY <1>5, <1>6, <2>1 DEF IsChunk
    <3>2. mid = chunks
      BY <1>3, <1>4, <1>8, <3>1 DEF Typed
    <3>3. u.d = driver /\ u = [d |-> u.d, clean |-> u.clean]
      BY <1>9, <2>1 DEF Tried
    <3>4. driver # Nil
      BY SoundState DEF Ready, Fits
    <3>5. QED
      BY <1>3, <3>2, <3>3, <3>4
  <2>2. CASE k.va # 0
    <3>1. PICK e : e = MemUnmap(driver, k.va, k.size)
      OBVIOUS
    <3>2. Changed(chunks, mid, i, c)
      BY <1>8 DEF Changed
    <3>3. /\ e # Nil /\ Linked(e, mid) /\ Typed(mid) /\ LiveIn(mid) = LiveIn(chunks)
          /\ e.ranges = driver.ranges /\ \A h \in Handle : e.memory[h] = driver.memory[h]
      BY <1>3, <1>4, <1>5, <1>7, <2>2, <3>1, <3>2, LinkUnmap
    <3>4. u.d = e /\ u = [d |-> u.d, clean |-> u.clean]
      BY <1>9, <2>2, <3>1, <3>3 DEF Try, Tried
    <3>5. QED
      BY <3>3, <3>4
  <2>3. QED
    BY <2>1, <2>2
<1>11. PICK d : d = MemRelease(u.d, k.h)
  OBVIOUS
<1>12. mid[i] = c /\ \A j \in Id \ {i} : mid[j] = chunks[j]
  BY <1>3, <1>5, <1>8 DEF Typed, LiveIn
<1>13. PICK ch2 : ch2 = [mid EXCEPT ![i] = NoChunk]
  OBVIOUS
<1>14. chunks' = ch2
  BY <1>1, <1>8, <1>13
<1>15. /\ d # Nil /\ Linked(d, ch2) /\ d.ranges = u.d.ranges /\ LiveIn(ch2) = LiveIn(mid) \ {i}
       /\ \A j \in LiveIn(ch2) : ch2[j] = mid[j] /\ d.memory[mid[j].h] = u.d.memory[mid[j].h]
  <2>1. Changed(mid, ch2, i, NoChunk) /\ d = MemRelease(u.d, mid[i].h) /\ mid[i].va = 0
    BY <1>7, <1>11, <1>12, <1>13 DEF Changed
  <2>2. QED
    BY <1>5, <1>10, <2>1, LinkRelease
<1>16. driver' = d
  <2>1. driver' = Try(u, d, "release", "none").d
    BY <1>2, <1>4, <1>9, <1>11 DEF Dropped
  <2>2. QED
    BY <1>10, <1>15, <2>1 DEF Try
<1>17. \A j \in Live : chunks'[j] # NoChunk =>
          chunks'[j] = chunks[j] /\ Holds(driver, driver', chunks[j].h, chunks[j].h)
  <2> SUFFICES ASSUME NEW j \in Live, chunks'[j] # NoChunk
               PROVE  chunks'[j] = chunks[j] /\ Holds(driver, driver', chunks[j].h, chunks[j].h)
    OBVIOUS
  <2>1. j \in LiveIn(ch2) /\ j # i /\ j \in Id
    BY <1>14, <1>15 DEF LiveIn, Live
  <2>2. chunks'[j] = chunks[j] /\ chunks[j].h \in Handle
    BY <1>12, <1>14, <1>15, <2>1, LiveChunk DEF IsChunk
  <2>3. driver'.memory[chunks[j].h] = driver.memory[chunks[j].h]
    BY <1>10, <1>12, <1>15, <1>16, <2>1, <2>2
  <2>4. QED
    BY <2>2, <2>3 DEF Holds
<1>18. driver'.ranges = reservations' /\ Linked(driver', chunks')
  BY <1>1, <1>3, <1>10, <1>14, <1>15, <1>16 DEF Matched
<1>19. QED
  BY <1>2, <1>3, <1>17, <1>18, StillHeld

(* A range with nothing mapped in it can be freed. *)
LEMMA EmptyRange ==
    ASSUME NEW d, NEW M, Tidy(d, M), NEW v \in Va,
           NEW n, d.ranges[v] = n, \A a \in Cells(v, n) : d.at[a] = Unmapped
    PROVE  AddressFree(d, v, n) # Nil
<1>1. PICK e : e = AddressFree(d, v, n)
  OBVIOUS
<1>2. /\ Tidy(e, M) /\ e # Nil /\ e.memory = d.memory /\ e.at = d.at
      /\ e.ranges = [d.ranges EXCEPT ![v] = 0]
  BY <1>1, TidyFree
<1>3. QED
  BY <1>1, <1>2

(* Then it gives back a range, in which nothing is mapped. *)
LEMMA FreeRangeHeld ==
    ASSUME Ready, Exactly, faults' = 0, NEW ok, FreeRange(ok) PROVE Held
<1>1. PICK v \in Va, failing \in {"none", "free"} :
         /\ Live = {} /\ Ends(Freed(v, failing), ok, failing)
         /\ reservations' = [reservations EXCEPT ![v] = 0]
         /\ UNCHANGED <<chunks, next>>
  BY DEF FreeRange
<1>2. faults = 0 /\ broken' = broken /\ failing = "none" /\ driver' = Freed(v, "none").d
  BY <1>1, OnlyRefused DEF Ends
<1>3. Matched
  BY <1>2 DEF Exactly
<1>4. PICK d : d = AddressFree(driver, v, reservations[v])
  OBVIOUS
<1>5. \A h \in Handle, x \in Va : <<h, x>> \notin Pairs(chunks)
  BY <1>1, PairOf DEF Live, LiveIn
<1>6. \A a \in Va : driver.at[a] = Unmapped
  BY <1>3, <1>5 DEF Matched, Linked, Tidy, Neat
<1>7. d # Nil
  <2>1. driver.ranges[v] = reservations[v] /\ \A a \in Cells(v, reservations[v]) : driver.at[a] = Unmapped
    BY <1>3, <1>6 DEF Matched, Ready, Fits, Sound
  <2>2. Tidy(driver, Pairs(chunks))
    BY <1>3 DEF Matched, Linked
  <2>3. AddressFree(driver, v, reservations[v]) # Nil
    BY <2>1, <2>2, EmptyRange
  <2>4. QED
    BY <1>4, <2>3
<1>8. driver' = d
  BY <1>2, <1>4, <1>7 DEF Freed, Try, Tried
<1>9. QED
  BY <1>1, <1>2, <1>3, <1>4, <1>7, <1>8, RangeHeld

(* A step of the destructor. *)
LEMMA DestroyHeld ==
    ASSUME Ready, Exactly, faults' = 0, NEW ok, Destroy(ok) PROVE Held
<1>1. ~Abandon(ok) \/ ~broken
  BY OnlyRefused DEF Abandon, Exactly, Matched
<1>2. QED
  BY <1>1, DropHeld, FreeRangeHeld DEF Destroy

(* Every step of the program. *)
LEMMA HeldStep ==
    ASSUME IInv, Exactly, [RunNext]_runVars, faults' = 0 PROVE Held
<1>1. CASE UNCHANGED vars
  BY <1>1, RefusedHeld DEF IInv
<1>2. CASE Statement
  BY <1>2, StatementHeld DEF IInv
<1>3. CASE CleanUp
  BY <1>3, DestroyHeld DEF IInv, CleanUp
<1>4. QED
  BY <1>1, <1>2, <1>3 DEF RunNext, Construct, Shutdown, End, runVars

(* Before the first call neither has anything. *)
LEMMA ExactlyInit == RunInit => Exactly
<1> SUFFICES ASSUME RunInit PROVE Matched
  BY DEF Exactly
<1>1. /\ driver = Nothing /\ broken = FALSE
      /\ reservations = [v \in Va |-> 0] /\ chunks = [i \in Id |-> NoChunk]
  BY DEF RunInit, Init
<1>2. LiveIn(chunks) = {}
  BY <1>1 DEF LiveIn
<1>3. \A h \in Handle, v \in Va : <<h, v>> \notin Pairs(chunks)
  BY <1>2, PairOf
<1>4. /\ \A h \in Handle : driver.memory[h] = NoMemory
      /\ \A a \in Va : driver.at[a] = Unmapped
  BY <1>1, NothingSound
<1>5. Tidy(driver, Pairs(chunks))
  BY <1>1, <1>3, <1>4, NothingSound DEF Tidy, Neat
<1>6. Linked(driver, chunks)
  BY <1>2, <1>4, <1>5 DEF Linked
<1>7. QED
  BY <1>1, <1>6, NothingSound DEF Matched

(* It holds throughout. *)
LEMMA ExactlyCorrect == RunSpec => [](IInv /\ Exactly)
<1>1. IInv /\ Exactly /\ [RunNext]_runVars => Exactly'
  BY HeldStep DEF Held, Exactly
<1>2. QED
  BY <1>1, ExactlyInit, InvInit, InvStep, PTL DEF RunSpec

(* While no driver call fails without cause, the Manager's records are the *)
(* driver's: each range, each chunk's memory and where it is mapped, and   *)
(* nothing besides, in every program, remap and the destructor included.   *)
THEOREM ExactCorrect == RunSpec => []Exact
<1>1. IInv /\ Exactly => Exact
  <2> SUFFICES ASSUME IInv, Exactly, faults = 0
               PROVE  /\ ~broken /\ driver.ranges = reservations
                      /\ {h \in Handle : driver.memory[h] # NoMemory} = {chunks[i].h : i \in Live}
                      /\ \A i \in Live : LET m == driver.memory[chunks[i].h]
                                         IN  m.open /\ m.loc = chunks[i].loc /\ Len(m.data) = chunks[i].size
                      /\ \A v \in Va :
                            /\ \A i \in MappedAt(v) :
                                  driver.at[v] = [h |-> chunks[i].h, off |-> v - chunks[i].va, rw |-> TRUE]
                            /\ MappedAt(v) = {} => driver.at[v] = Unmapped
    BY Zenon DEF Exact
  <2>1. ~broken /\ driver.ranges = reservations /\ Linked(driver, chunks)
    BY DEF Exactly, Matched
  <2>2. \A i \in Live : i \in LiveIn(chunks) /\ chunks[i].h \in Handle /\ Backs(driver, chunks[i])
    BY <2>1, LiveChunk DEF Live, LiveIn, IInv, IsChunk, Linked
  <2>3. {h \in Handle : driver.memory[h] # NoMemory} = {chunks[i].h : i \in Live}
    <3>1. \A i \in Live : driver.memory[chunks[i].h] # NoMemory
      BY <2>2, MemoryType DEF Backs
    <3>2. \A h \in Handle : driver.memory[h] # NoMemory => \E i \in Live : chunks[i].h = h
      BY <2>1 DEF Linked, LiveIn, Live
    <3>3. QED
      BY <2>2, <3>1, <3>2
  <2>4. ASSUME NEW v \in Va, NEW i \in MappedAt(v)
        PROVE  driver.at[v] = [h |-> chunks[i].h, off |-> v - chunks[i].va, rw |-> TRUE]
    <3>1. i \in Live /\ chunks[i].va # 0 /\ v \in Cells(chunks[i].va, chunks[i].size)
      BY DEF MappedAt
    <3>2. chunks[i].va \in Va
      BY <3>1, LiveChunk DEF IInv, IsChunk
    <3>3. <<chunks[i].h, chunks[i].va>> \in Pairs(chunks)
      BY <2>1, <2>2, <3>1, <3>2, OwnPair
    <3>4. MappedAs(driver, chunks[i].h, chunks[i].va)
      BY <2>1, <2>2, <3>1, <3>2, <3>3 DEF Linked, Tidy, Neat
    <3>5. Len(driver.memory[chunks[i].h].data) = chunks[i].size
      BY <2>2, <3>1 DEF Backs
    <3>6. QED
      BY <3>1, <3>4, <3>5 DEF MappedAs
  <2>5. ASSUME NEW v \in Va, MappedAt(v) = {} PROVE driver.at[v] = Unmapped
    <3> SUFFICES ASSUME driver.at[v] # Unmapped PROVE FALSE
      OBVIOUS
    <3>1. PICK h \in Handle, x \in Va : /\ <<h, x>> \in Pairs(chunks)
                                        /\ v \in Cells(x, Len(driver.memory[h].data))
      BY <2>1 DEF Linked, Tidy, Neat
    <3>2. PICK i \in LiveIn(chunks) : chunks[i].h = h /\ chunks[i].va = x
      BY <3>1, PairOf
    <3>3. i \in Live /\ Len(driver.memory[h].data) = chunks[i].size /\ x # 0
      BY <2>2, <3>1, <3>2, ManagerAssumption DEF Live, LiveIn, Backs
    <3>4. i \in MappedAt(v)
      BY <3>1, <3>2, <3>3 DEF MappedAt
    <3>5. QED
      BY <2>5, <3>4
  <2>6. QED
    BY <2>1, <2>2, <2>3, <2>4, <2>5 DEF Backs
<1>2. QED
  BY <1>1, ExactlyCorrect, PTL

(* A filled chunk stays so, until it is released, under every statement of *)
(* the program and every step of the destructor, while no driver call      *)
(* fails without cause: remap brings its contents, fill writes no other.   *)
THEOREM ContentsCorrect == RunSpec => ContentsKept
<1>1. IInv /\ Exactly /\ [RunNext]_runVars => [faults' = 0 => FilledKept]_runVars
  BY HeldStep DEF Held
<1>2. QED
  BY <1>1, ExactlyCorrect, PTL DEF RunSpec, ContentsKept, FilledKept

-----------------------------------------------------------------------------
(* The exit code. *)

\* No failure goes by without a failed statement or a report of the destructor.
Reported ==
    /\ phase \in {"init", "running"} /\ ~errors => faults = 0
    /\ phase = "ending" /\ ~errors /\ clean => faults = 0

(* With no chunk and no range on record the driver has nothing. *)
LEMMA EmptiedNothing == ASSUME IInv, Matched, Emptied PROVE driver = Nothing
<1>1. LiveIn(chunks) = {}
  BY DEF Emptied, Live, LiveIn
<1>2. \A h \in Handle, v \in Va : <<h, v>> \notin Pairs(chunks)
  BY <1>1, PairOf
<1>3. /\ \A h \in Handle : driver.memory[h] = NoMemory
      /\ \A a \in Va : driver.at[a] = Unmapped
      /\ \A v \in Va : driver.ranges[v] = 0
  BY <1>1, <1>2 DEF Matched, Linked, Tidy, Neat, Emptied
<1>4. /\ driver = [ranges |-> driver.ranges, memory |-> driver.memory, at |-> driver.at]
      /\ driver.ranges \in [Va -> Nat] /\ driver.memory \in [Handle -> Memory]
      /\ driver.at \in [Va -> Entry]
  BY DEF IInv, Ready, Fits, Sound
<1>5. driver.ranges = [v \in Va |-> 0] /\ driver.memory = [h \in Handle |-> NoMemory]
      /\ driver.at = [v \in Va |-> Unmapped]
  BY <1>3, <1>4
<1>6. QED
  BY <1>4, <1>5 DEF Nothing

(* The exit code 0 with nothing reported by the destructor means that      *)
(* nothing is left with the driver, in every program and wherever it fails. *)
THEOREM ExitCorrect == RunSpec => []CleanExit
<1>1. RunInit => Reported /\ CleanExit
  BY DEF RunInit, Init, Reported, CleanExit
<1>2. ASSUME IInv, Exactly, Reported, CleanExit, [RunNext]_runVars PROVE Reported' /\ CleanExit'
  <2>1. CASE UNCHANGED runVars
    BY <1>2, <2>1 DEF runVars, vars, result, Reported, CleanExit
  <2>2. CASE Construct
    BY <1>2, <2>2 DEF Construct, vars, Reported, CleanExit
  <2>3. CASE Statement
    <3>1. phase = "running" /\ phase' = "running" /\ (errors => errors') /\ (~errors' => UNCHANGED faults)
      BY <1>2, <2>3, StatementStep DEF Statement, IInv
    <3>2. QED
      BY <1>2, <3>1 DEF Reported, CleanExit
  <2>4. CASE Shutdown
    BY <1>2, <2>4 DEF Shutdown, vars, Reported, CleanExit
  <2>5. CASE CleanUp
    <3>1. phase = "ending" /\ phase' = "ending" /\ errors' = errors /\ (clean' => clean)
          /\ (clean' => UNCHANGED faults)
      BY <1>2, <2>5, CleanUpStep DEF CleanUp
    <3>2. QED
      BY <1>2, <3>1 DEF Reported, CleanExit
  <2>6. CASE End
    <3>1. ~errors /\ clean => driver = Nothing
      BY <1>2, <2>6, EmptiedNothing DEF End, Reported, Exactly
    <3>2. QED
      BY <2>6, <3>1 DEF End, vars, Reported, CleanExit
  <2>7. QED
    BY <1>2, <2>1, <2>2, <2>3, <2>4, <2>5, <2>6 DEF RunNext
<1>3. QED
  BY <1>1, <1>2, ExactlyCorrect, PTL DEF RunSpec
=============================================================================
