------------------------- MODULE VmemdStartupProofs -------------------------
(***************************************************************************)
(* Who owns the socket path: the invariants of VmemdStartup for any number *)
(* of brokers, each by an inductive invariant of its own.                  *)
(***************************************************************************)
EXTENDS VmemdStartup, TLAPS

(* The types of the processes and the path hold throughout. *)
THEOREM TypeCorrect == Spec => []TypeOK
<1>1. Init => TypeOK
  BY StartupAssumption DEF Init, TypeOK
<1>2. TypeOK /\ [Next]_vars => TypeOK'
  BY DEF TypeOK, Next, vars, Start, Probe, Unlink, Bind, Listen, Crash, Goto, Starting
<1>3. QED
  BY <1>1, <1>2, PTL DEF Spec

-----------------------------------------------------------------------------
(* While no starts have overlapped: one is under way, and from its unlink  *)
(* on nobody serves and the path is its own.                               *)
OneAtATime == ~raced =>
    /\ \A a, b \in Broker : Starting(a) /\ Starting(b) => a = b
    /\ \A a \in Broker : pc[a] = "serving" => path = a
    /\ \A b \in Broker : pc[b] \in {"unlink", "bind", "listen"} =>
          \A a \in Broker : pc[a] # "serving"
    /\ \A b \in Broker : pc[b] = "bind" => path = Nil
    /\ \A b \in Broker : pc[b] = "listen" => path = b

(* Each call of listen_on, each start and each death keeps OneAtATime: a   *)
(* probe that is refused shows that nobody serves.                         *)
LEMMA OneAtATimeStep == TypeOK /\ OneAtATime /\ [Next]_vars => OneAtATime'
<1> SUFFICES ASSUME TypeOK, OneAtATime, [Next]_vars PROVE OneAtATime'
  OBVIOUS
<1> USE StartupAssumption DEF TypeOK, Starting, Goto
<1>1. CASE UNCHANGED vars
  BY <1>1 DEF OneAtATime, vars
<1>2. ASSUME NEW b \in Broker, Start(b) PROVE OneAtATime'
  BY <1>2 DEF OneAtATime, Start
<1>3. ASSUME NEW b \in Broker, Probe(b) PROVE OneAtATime'
  <2>1. CASE Answers
    BY <1>3, <2>1 DEF OneAtATime, Probe
  <2>2. CASE ~Answers
    <3>1. ~raced => \A a \in Broker : pc[a] # "serving"
      BY <2>2 DEF OneAtATime, Answers
    <3>2. QED
      BY <1>3, <2>2, <3>1 DEF OneAtATime, Probe
  <2>3. QED
    BY <2>1, <2>2
<1>4. ASSUME NEW b \in Broker, Unlink(b) PROVE OneAtATime'
  BY <1>4 DEF OneAtATime, Unlink
<1>5. ASSUME NEW b \in Broker, Bind(b) PROVE OneAtATime'
  BY <1>5 DEF OneAtATime, Bind
<1>6. ASSUME NEW b \in Broker, Listen(b) PROVE OneAtATime'
  BY <1>6 DEF OneAtATime, Listen
<1>7. ASSUME NEW b \in Broker, Crash(b) PROVE OneAtATime'
  BY <1>7 DEF OneAtATime, Crash
<1>8. QED
  BY <1>1, <1>2, <1>3, <1>4, <1>5, <1>6, <1>7 DEF Next

(* A start never steals the path from a live broker, for any number of     *)
(* brokers, unless two starts were under way at a time.                    *)
THEOREM AloneCorrect == Spec => []Alone
<1>1. Init => OneAtATime
  BY DEF Init, OneAtATime, Starting
<1>2. OneAtATime => Alone
  BY DEF OneAtATime, Alone
<1>3. QED
  BY <1>1, <1>2, OneAtATimeStep, TypeCorrect, PTL DEF Spec

-----------------------------------------------------------------------------
(* Since the last start began, if nobody who matters has died: the path    *)
(* has a live owner, or someone will still unlink it, or it is free and    *)
(* someone is about to bind.                                               *)
Owned == path # Nil /\ pc[path] \in {"listen", "serving"}

Promised == begun /\ ~lost =>
    \/ Owned
    \/ \E b \in Broker : pc[b] \in {"probe", "unlink"}
    \/ path = Nil /\ \E b \in Broker : pc[b] = "bind"

(* Every step keeps Promised: a bind fails only on a path that another one *)
(* has bound, and whoever that was is alive or the path will be unlinked.  *)
LEMMA PromisedStep == TypeOK /\ Promised /\ [Next]_vars => Promised'
<1> SUFFICES ASSUME TypeOK, Promised, [Next]_vars PROVE Promised'
  OBVIOUS
<1> USE StartupAssumption DEF TypeOK, Starting, Goto, Owned
<1>1. CASE UNCHANGED vars
  BY <1>1 DEF Promised, vars
<1>2. ASSUME NEW b \in Broker, Start(b) PROVE Promised'
  BY <1>2 DEF Promised, Start
<1>3. ASSUME NEW b \in Broker, Probe(b) PROVE Promised'
  BY <1>3 DEF Promised, Probe, Answers
<1>4. ASSUME NEW b \in Broker, Unlink(b) PROVE Promised'
  BY <1>4 DEF Promised, Unlink
<1>5. ASSUME NEW b \in Broker, Bind(b) PROVE Promised'
  BY <1>5 DEF Promised, Bind
<1>6. ASSUME NEW b \in Broker, Listen(b) PROVE Promised'
  BY <1>6 DEF Promised, Listen
<1>7. ASSUME NEW b \in Broker, Crash(b) PROVE Promised'
  BY <1>7 DEF Promised, Crash
<1>8. QED
  BY <1>1, <1>2, <1>3, <1>4, <1>5, <1>6, <1>7 DEF Next

(* Whatever starts race, someone answers at the path once all have ended   *)
(* and nobody who matters has died, for any number of brokers.             *)
THEOREM ServedCorrect == Spec => []Served
<1>1. Init => Promised
  BY DEF Init, Promised
<1>2. TypeOK /\ Promised => Served
  BY StartupAssumption DEF TypeOK, Promised, Owned, Served, Answers, Starting
<1>3. QED
  BY <1>1, <1>2, PromisedStep, TypeCorrect, PTL DEF Spec
=============================================================================
