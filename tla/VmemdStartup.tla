---------------------------- MODULE VmemdStartup ----------------------------
(***************************************************************************)
(* libvmem/daemon/vmemd.cpp: how a broker comes to own the socket path.    *)
(*                                                                         *)
(* Brokers are processes that may be started at any time and die at any    *)
(* point.  A start is listen_on, one action per system call: probe the     *)
(* path, unlink it, bind, listen.  Of the file system there is the path:   *)
(* it names the socket bound to it last, whose process may be gone, or     *)
(* nothing.  What VmemSystem calls up is that the path names a broker that *)
(* listens.                                                                *)
(***************************************************************************)
CONSTANTS
    Broker,  \* broker processes
    Nil

ASSUME StartupAssumption == Nil \notin Broker

VARIABLES
    pc,      \* the next call of each broker; "off", or "serving" from listen on
    path,    \* whose socket the path names
    begun,   \* a broker has been started
    raced,   \* a start has begun while another was under way
    lost     \* since the last start began, one under way or the path's owner has died

vars == <<pc, path, begun, raced, lost>>

Init ==
    /\ pc = [b \in Broker |-> "off"] /\ path = Nil
    /\ begun = FALSE /\ raced = FALSE /\ lost = FALSE

Starting(b) == pc[b] \in {"probe", "unlink", "bind", "listen"}
Goto(b, where) == pc' = [pc EXCEPT ![b] = where]

\* connect: refused by a socket whose process is gone or does not listen yet.
Answers == path # Nil /\ pc[path] = "serving"

Start(b) ==
    /\ pc[b] = "off" /\ begun' = TRUE
    /\ Goto(b, "probe")
    /\ raced' = (raced \/ \E a \in Broker : Starting(a))
    /\ lost' = FALSE
    /\ UNCHANGED path

\* A likely slip: any file at the path, as one that cannot be bound over, is unlinked.
ProbeFile(b) ==
    /\ pc[b] = "probe" /\ Goto(b, "unlink")
    /\ UNCHANGED <<path, begun, raced, lost>>

\* exit(1) if another broker answers.
Probe(b) ==
    /\ pc[b] = "probe" /\ Goto(b, IF Answers THEN "off" ELSE "unlink")
    /\ UNCHANGED <<path, begun, raced, lost>>

\* A likely slip: the file of a broker that died stays.
KeepFile(b) ==
    /\ pc[b] = "unlink" /\ Goto(b, "bind")
    /\ UNCHANGED <<path, begun, raced, lost>>

\* Whatever is there by now.
Unlink(b) ==
    /\ pc[b] = "unlink" /\ Goto(b, "bind") /\ path' = Nil
    /\ UNCHANGED <<begun, raced, lost>>

\* die("bind") if the path is taken.
Bind(b) ==
    /\ pc[b] = "bind"
    /\ IF path = Nil THEN Goto(b, "listen") /\ path' = b ELSE Goto(b, "off") /\ UNCHANGED path
    /\ UNCHANGED <<begun, raced, lost>>

Listen(b) ==
    /\ pc[b] = "listen" /\ Goto(b, "serving")
    /\ UNCHANGED <<path, begun, raced, lost>>

\* The file stays.
Crash(b) ==
    /\ pc[b] # "off" /\ Goto(b, "off")
    /\ lost' = (lost \/ Starting(b) \/ path = b)
    /\ UNCHANGED <<path, begun, raced>>

Next == \E b \in Broker :
    Start(b) \/ Probe(b) \/ Unlink(b) \/ Bind(b) \/ Listen(b) \/ Crash(b)

Spec == Init /\ [][Next]_vars

-----------------------------------------------------------------------------
(* Types of the processes and the path. *)
TypeOK ==
    /\ pc \in [Broker -> {"off", "probe", "unlink", "bind", "listen", "serving"}]
    /\ path \in Broker \cup {Nil}
    /\ begun \in BOOLEAN /\ raced \in BOOLEAN /\ lost \in BOOLEAN

(* listen_on: a start never steals the path from a live broker, whatever   *)
(* has died before it and wherever, unless two starts were under way at a  *)
(* time; so tenants are never spread over two brokers with a limit each.   *)
Alone == ~raced => \A b \in Broker : pc[b] = "serving" => path = b

(* Once every start has ended, someone answers at the path, though starts  *)
(* may have raced and unlinked each other's socket; unless one of them, or *)
(* the path's owner, has died since the last of them began.                *)
Served == begun /\ ~lost /\ (\A b \in Broker : ~Starting(b)) => Answers
=============================================================================
