----------------------------- MODULE VmemSystem -----------------------------
(***************************************************************************)
(* The broker together with its tenants: the vmem backend of               *)
(* libvmem/src/backends/vmem.h in each client process, and the             *)
(* SOCK_SEQPACKET connections between them.                                *)
(*                                                                         *)
(* A backend call is blocking and a process makes one at a time, so a      *)
(* client is a small program with a program counter; the steps of a call   *)
(* are cut where the code sends, waits or touches CUDA.  What CUDA answers *)
(* and when a receive times out are left open.  A connection carries       *)
(* messages and replies in order; it outlives the descriptor its client    *)
(* closes until the broker has read what was sent.                         *)
(***************************************************************************)
EXTENDS Vmemd, SequencesExt

CONSTANTS
    Client,    \* processes that use libvmem
    SizeOf,    \* the size of the chunk a client creates at an address
    AutoReconnect,  \* BackendConfig::auto_reconnect
    Cap,       \* messages a connection takes before send() blocks
    Backlog,   \* connections listen() queues before connect() blocks
    MaxCrash   \* how often the broker may die

ASSUME SystemAssumption ==
    /\ Nil \notin Fd
    /\ SizeOf \in [Ptr -> Size]
    /\ AutoReconnect \in BOOLEAN
    /\ Cap \in Nat /\ Cap >= 2
    /\ Backlog \in Nat \ {0}
    /\ MaxCrash \in Nat

VARIABLES
    up,       \* the broker runs
    crashes,  \* how often it has died
    net,      \* the connection behind each descriptor number
    backlog,  \* connections not yet accepted, in order
    batch,    \* events of the last epoll_wait not yet handled
    proc,     \* each client: where it is in which call, and its link
    held      \* VmemBackend::chunks_: the location of each live chunk

broker == <<vars, up, crashes, backlog, batch>>
sysVars == <<broker, net, proc, held>>

Reply == {"Hello", "Alloc", "Move"}   \* the messages that are answered

Msg(type, p, l) == [type |-> type, ptr |-> p, loc |-> l]

Unused == [state |-> "free", end |-> "none", queue |-> <<>>, reply |-> <<>>, owner |-> Nil]
Off == [pc |-> "off", op |-> "none", ptr |-> Nil, to |-> "None", told |-> FALSE,
        sock |-> Nil, link |-> "Local", left |-> {}]
NoChunks == [p \in Ptr |-> "None"]

SysInit ==
    /\ Init
    /\ up = TRUE
    /\ crashes = 0
    /\ net = [f \in Fd |-> Unused]
    /\ backlog = <<>>
    /\ batch = {}
    /\ proc = [c \in Client |-> Off]
    /\ held = [c \in Client |-> NoChunks]

-----------------------------------------------------------------------------
(* Sockets, from the client's side.                                        *)

\* close(): the broker reads what was sent and then the end of file, or a reset
\* at once if the client left a reply unread.
Closed(s) ==
    IF s.state = "dead" THEN Unused
    ELSE [s EXCEPT !.end = IF s.reply = <<>> THEN "eof" ELSE "reset", !.reply = <<>>]

\* A likely slip, for the mutant runs: the descriptor is forgotten, not closed.
Leaks(c, n) == n

Hangs(c, n) == IF proc[c].sock = Nil THEN n ELSE [n EXCEPT ![proc[c].sock] = Closed(@)]

\* A likely slip: link_ is not updated.
UnlinkedSilently(r, link) == [r EXCEPT !.sock = Nil]

Unlinked(r, link) == [r EXCEPT !.sock = Nil, !.link = link]

\* send_msg for each of msgs: ok is the client's state after, failed its state
\* if there is no link or the send breaks it.  Enabled while the socket has room.
SendAll(c, msgs, ok, failed) ==
    LET f == proc[c].sock
    IN  \/ /\ msgs = <<>>
           /\ proc' = [proc EXCEPT ![c] = ok]
           /\ UNCHANGED net
        \/ /\ msgs # <<>> /\ proc[c].link # "Connected"
           /\ proc' = [proc EXCEPT ![c] = failed]
           /\ UNCHANGED net
        \/ /\ msgs # <<>> /\ proc[c].link = "Connected" /\ net[f].state = "dead"
           /\ proc' = [proc EXCEPT ![c] = Unlinked(failed, "Broken")]
           /\ net' = Hangs(c, net)
        \/ /\ msgs # <<>> /\ proc[c].link = "Connected" /\ net[f].state # "dead"
           /\ Len(net[f].queue) + Len(msgs) <= Cap
           /\ proc' = [proc EXCEPT ![c] = ok]
           /\ net' = [net EXCEPT ![f].queue = @ \o msgs]

\* recv returns a reply; or it fails, on the timeout or because the broker is gone.
Arrived(c) == net[proc[c].sock].reply # <<>>
Consumed(c) == net' = [net EXCEPT ![proc[c].sock].reply = Tail(@)]

\* A likely slip: every error is retried, not only EINTR.
RecvRetries(c) == FALSE

RecvFails(c) == ~Arrived(c) \/ net[proc[c].sock].state = "dead"

-----------------------------------------------------------------------------
(* The backend. *)

Where(c, pc) == proc[c].pc = pc
Goto(c, pc) == [proc[c] EXCEPT !.pc = pc]

\* Where a call goes on after the attempt to connect it began with.
AfterDial(c) == IF proc[c].op \in {"open", "reconnect"} THEN "idle" ELSE "ask"

Call(c, op, p, to, pc) ==
    proc' = [proc EXCEPT ![c] = [@ EXCEPT !.pc = pc, !.op = op, !.ptr = p, !.to = to,
                                          !.told = FALSE]]

\* maybe_reconnect: a create or a move first tries to connect.
FirstStep(c) == IF AutoReconnect /\ proc[c].link # "Connected" THEN "dial" ELSE "ask"

Begin(c) ==
    /\ \/ Where(c, "off") /\ Call(c, "open", Nil, "None", "dial")
       \/ Where(c, "idle") /\ Call(c, "reconnect", Nil, "None", "dial")
       \/ \E p \in Ptr :
             /\ Where(c, "idle")
             /\ \/ held[c][p] = "None" /\ Call(c, "create", p, "Device", FirstStep(c))
                \/ held[c][p] # "None" /\ Call(c, "destroy", p, "None", "work")
                \/ \E to \in Loc \ {held[c][p]} :
                      held[c][p] # "None" /\ Call(c, "move", p, to, FirstStep(c))
    /\ UNCHANGED <<broker, net, held>>

\* disconnect_broker, then connect_broker up to the Hello.
Dial(c) ==
    /\ Where(c, "dial")
    /\ \/ /\ up
          /\ \E f \in Fd :
                /\ net[f].state = "free" /\ Len(backlog) < Backlog
                /\ backlog' = Append(backlog, f)
                /\ net' = [Hangs(c, net) EXCEPT ![f] =
                             [state |-> "backlog", end |-> "open", owner |-> c,
                              queue |-> <<Msg("Hello", Nil, "None")>>, reply |-> <<>>]]
                /\ proc' = [proc EXCEPT ![c] = [Goto(c, "hello") EXCEPT !.sock = f,
                                                                        !.link = "Connected"]]
       \/ /\ ~up
          /\ UNCHANGED backlog
          /\ net' = Hangs(c, net)
          /\ proc' = [proc EXCEPT ![c] = Unlinked(Goto(c, AfterDial(c)),
                         IF proc[c].op = "open" THEN "Local" ELSE "Broken")]
    /\ UNCHANGED <<vars, up, crashes, batch, held>>

HelloAnswered(c) ==
    /\ Where(c, "hello") /\ Arrived(c)
    /\ Consumed(c)
    /\ proc' = [proc EXCEPT ![c] = [Goto(c, "resync") EXCEPT
                                       !.left = {p \in Ptr : held[c][p] # "None"}]]
    /\ UNCHANGED <<broker, held>>

\* open() reports Disconnected and the process gives up; the other calls go on.
HelloLost(c) ==
    /\ Where(c, "hello") /\ RecvFails(c)
    /\ net' = Hangs(c, net)
    /\ proc' = [proc EXCEPT ![c] = IF proc[c].op = "open" THEN Off
                                   ELSE Unlinked(Goto(c, AfterDial(c)), "Broken")]
    /\ UNCHANGED <<broker, held>>

\* One Resync per live chunk; the rest are skipped when the link breaks.
ResyncChunk(c) ==
    /\ Where(c, "resync")
    /\ \E p \in proc[c].left :
          SendAll(c, <<Msg("Resync", p, held[c][p])>>,
                  [proc[c] EXCEPT !.left = @ \ {p}],
                  [Goto(c, AfterDial(c)) EXCEPT !.left = {}])
    /\ UNCHANGED <<broker, held>>

Resynced(c) ==
    /\ Where(c, "resync") /\ proc[c].left = {}
    /\ proc' = [proc EXCEPT ![c] = Goto(c, AfterDial(c))]
    /\ UNCHANGED <<broker, net, held>>

\* decide_place and the request of move; without a link the call goes on locally.
Ask(c) ==
    /\ Where(c, "ask")
    /\ SendAll(c, <<IF proc[c].op = "create" THEN Msg("Alloc", proc[c].ptr, "None")
                    ELSE Msg("Move", proc[c].ptr, proc[c].to)>>,
               Goto(c, "wait"), Goto(c, "work"))
    /\ UNCHANGED <<broker, held>>

Answered(c) ==
    /\ Where(c, "wait") /\ Arrived(c)
    /\ Consumed(c)
    /\ LET r == Head(net[proc[c].sock].reply)
       IN  proc' = [proc EXCEPT ![c] =
              IF r.status # "Ok" THEN Goto(c, "idle")
              ELSE [Goto(c, "work") EXCEPT !.told = TRUE,
                                           !.to = IF proc[c].op = "create" THEN r.loc ELSE @]]
    /\ UNCHANGED <<broker, held>>

\* A likely slip: the late reply is still to come on a link that stays.
AnswerLostLinkKept(c) ==
    /\ Where(c, "wait") /\ RecvFails(c)
    /\ proc' = [proc EXCEPT ![c] = Goto(c, "work")]
    /\ UNCHANGED <<broker, net, held>>

AnswerLost(c) ==
    /\ Where(c, "wait") /\ RecvFails(c)
    /\ net' = Hangs(c, net)
    /\ proc' = [proc EXCEPT ![c] = Unlinked(Goto(c, "work"), "Broken")]
    /\ UNCHANGED <<broker, held>>

\* The CUDA calls and the report that follows them.
Finish(c, loc, msgs) ==
    /\ held' = [held EXCEPT ![c][proc[c].ptr] = loc]
    /\ SendAll(c, msgs, Goto(c, "idle"), Goto(c, "idle"))
    /\ UNCHANGED broker

\* A likely slip: counted is never set.
NeverTold(c, msgs) == <<>>

Told(c, msgs) == IF proc[c].told THEN msgs ELSE <<>>

\* create: as placed; on the host when the device has no memory; or not at all.
Create(c) ==
    LET p == proc[c].ptr
        fail == Msg("AllocFail", p, "None")
        free == Msg("Free", p, "None")
    IN  /\ Where(c, "work") /\ proc[c].op = "create"
        /\ \/ Finish(c, proc[c].to, <<>>)
           \/ Finish(c, "None", Told(c, <<free>>))
           \/ proc[c].to = "Device" /\ Finish(c, "Host", Told(c, <<fail>>))
           \/ proc[c].to = "Device" /\ Finish(c, "None", Told(c, <<fail, free>>))

\* A likely slip: only a move that succeeds is reported.
SwapReportingSuccess(c) ==
    LET p == proc[c].ptr
    IN  /\ Where(c, "work") /\ proc[c].op = "move"
        /\ \/ Finish(c, proc[c].to, Told(c, <<Msg("MoveDone", p, proc[c].to)>>))
           \/ Finish(c, held[c][p], <<>>)

\* swap: at the target, or where it was.
Swap(c) ==
    LET p == proc[c].ptr
    IN  /\ Where(c, "work") /\ proc[c].op = "move"
        /\ \E at \in {proc[c].to, held[c][p]} :
              Finish(c, at, Told(c, <<Msg("MoveDone", p, at)>>))

\* A failed unmap, release or unreserve is Fatal: the chunk stays and nothing is sent.
Destroy(c) ==
    /\ Where(c, "work") /\ proc[c].op = "destroy"
    /\ \/ Finish(c, "None", <<Msg("Free", proc[c].ptr, "None")>>)
       \/ Finish(c, held[c][proc[c].ptr], <<>>)

\* close(), or the process dies: either way its memory is gone.  What it leaves
\* behind in its sockets belongs to nobody.
Exit(c) ==
    /\ ~Where(c, "off")
    /\ LET n == Hangs(c, net)
       IN  net' = [f \in Fd |-> IF n[f].owner = c THEN [n[f] EXCEPT !.owner = Nil] ELSE n[f]]
    /\ proc' = [proc EXCEPT ![c] = Off]
    /\ held' = [held EXCEPT ![c] = NoChunks]
    /\ UNCHANGED broker

-----------------------------------------------------------------------------
(* The broker's side of the sockets. *)

Listener == Nil

\* A likely slip: a hangup is not watched for.
ReadyOnData == {f \in Fd : net[f].state = "accepted" /\ net[f].queue # <<>>}
                  \cup {e \in {Listener} : backlog # <<>>}

Ready == {f \in Fd : /\ net[f].state = "accepted"
                     /\ net[f].queue # <<>> \/ net[f].end # "open"}
         \cup {e \in {Listener} : backlog # <<>>}

\* epoll_wait reports every descriptor that is ready; the loop handles each once,
\* in any order, before it polls again.
Turn(e) ==
    LET events == IF batch = {} THEN Ready ELSE batch
    IN  up /\ e \in events /\ batch' = events \ {e}

Accept ==
    /\ Turn(Listener)
    /\ LET f == Head(backlog)
       IN  /\ Connect(f)
           /\ net' = [net EXCEPT ![f].state = "accepted"]
    /\ backlog' = Tail(backlog)
    /\ UNCHANGED <<up, crashes, proc, held>>

Handle(f, m) ==
    \/ m.type = "Hello" /\ Hello(f)
    \/ m.type = "Alloc" /\ Alloc(f, m.ptr, SizeOf[m.ptr])
    \/ m.type = "AllocFail" /\ AllocFail(f, m.ptr)
    \/ m.type = "Free" /\ Free(f, m.ptr)
    \/ m.type = "Move" /\ MoveRequest(f, m.ptr, m.loc)
    \/ m.type = "MoveDone" /\ MoveDone(f, m.ptr, m.loc)
    \/ m.type = "Resync" /\ Resync(f, m.ptr, SizeOf[m.ptr], m.loc)

\* on_readable: one message, and its reply unless the client has hung up.
Receive(f) ==
    LET m == Head(net[f].queue)
        loc == IF m.type = "Alloc" THEN chunks'[f][m.ptr].loc ELSE "Device"
        answer == [type |-> m.type, ptr |-> m.ptr, status |-> last'.status, loc |-> loc]
    IN  /\ Turn(f)
        /\ net[f].end # "reset" /\ net[f].queue # <<>>
        /\ Handle(f, m)
        /\ net' = [net EXCEPT ![f].queue = Tail(@),
                              ![f].reply = IF m.type \in Reply /\ net[f].end = "open"
                                           THEN Append(@, answer) ELSE @]
        /\ UNCHANGED <<up, crashes, backlog, proc, held>>

Hangup(f) ==
    /\ Turn(f)
    /\ \/ net[f].end = "reset"
       \/ net[f].end = "eof" /\ net[f].queue = <<>>
    /\ Disconnect(f)
    /\ net' = [net EXCEPT ![f] = Unused]
    /\ UNCHANGED <<up, crashes, backlog, proc, held>>

\* Every connection breaks and the tables are lost.
Crash ==
    /\ up /\ crashes < MaxCrash
    /\ up' = FALSE /\ crashes' = crashes + 1
    /\ tenants' = {}
    /\ hello' = [fd \in Fd |-> FALSE]
    /\ chunks' = [fd \in Fd |-> [p \in Ptr |-> NoChunk]]
    /\ moving' = [fd \in Fd |-> NoMove]
    /\ used' = [fd \in Fd |-> [l \in Loc |-> 0]]
    /\ total' = [l \in Loc |-> 0]
    /\ last' = [type |-> "Start", fd |-> Nil, size |-> 0, status |-> "None"]
    /\ net' = [f \in Fd |-> IF net[f].end = "open"
                            THEN [net[f] EXCEPT !.state = "dead", !.queue = <<>>] ELSE Unused]
    /\ backlog' = <<>> /\ batch' = {}
    /\ UNCHANGED <<proc, held>>

Restart ==
    /\ ~up /\ up' = TRUE
    /\ UNCHANGED <<vars, crashes, net, backlog, batch, proc, held>>

-----------------------------------------------------------------------------
Progress(c) ==   \* the steps of a call once it has begun
    \/ Dial(c) \/ HelloAnswered(c) \/ HelloLost(c) \/ ResyncChunk(c) \/ Resynced(c)
    \/ Ask(c) \/ Answered(c) \/ AnswerLost(c)
    \/ Create(c) \/ Swap(c) \/ Destroy(c)

Serve == Accept \/ \E f \in Fd : Receive(f) \/ Hangup(f)

SysNext ==
    \/ \E c \in Client : Begin(c) \/ Progress(c) \/ Exit(c)
    \/ Serve
    \/ Crash \/ Restart

SysSpec == SysInit /\ [][SysNext]_sysVars

\* A client is scheduled and its receives time out; the broker may hang (SIGSTOP).
HungSpec == SysSpec /\ \A c \in Client : WF_sysVars(Progress(c))

\* The event loop also runs; that each descriptor gets its turn follows from its batches.
FairSpec == HungSpec /\ WF_sysVars(Serve)

-----------------------------------------------------------------------------
(* Types of the sockets and the clients.                                   *)
SysTypeOK ==
    /\ up \in BOOLEAN
    /\ crashes \in 0 .. MaxCrash
    /\ \A f \in Fd :
          /\ net[f].state \in {"free", "backlog", "accepted", "dead"}
          /\ net[f].end \in {"none", "open", "eof", "reset"}
          /\ net[f].owner \in Client \cup {Nil}
          /\ Len(net[f].queue) <= Cap
          /\ net[f].state = "accepted" <=> f \in tenants
          /\ net[f].state = "backlog" <=> f \in ToSet(backlog)
    /\ batch \subseteq Ready
    /\ \A c \in Client :
          /\ proc[c].pc \in {"off", "idle", "dial", "hello", "resync", "ask", "wait", "work"}
          /\ proc[c].link \in {"Local", "Connected", "Broken"}
          /\ proc[c].link = "Connected" <=> proc[c].sock # Nil
          /\ held[c] \in [Ptr -> Loc \cup {"None"}]

\* What a report m says of chunk p, and where it leaves it.
Tells(m, p) == m.type \notin Reply /\ m.ptr = p
Said(m) == IF m.type = "Free" THEN "None" ELSE IF m.type = "AllocFail" THEN "Host" ELSE m.loc

\* The last report of p in q leaves it at there; without one it is still at here.
LastSaid(q, p, here, there) ==
    \/ here = there /\ \A i \in 1 .. Len(q) : ~Tells(q[i], p)
    \/ \E i \in 1 .. Len(q) : /\ Tells(q[i], p) /\ Said(q[i]) = there
                              /\ \A j \in i + 1 .. Len(q) : ~Tells(q[j], p)

(* B5: while a client is linked and between calls, the broker's table for  *)
(* it, once the reports still under way are handled, is the client's own.  *)
TableMatches == \A c \in Client :
    LET f == proc[c].sock
    IN  proc[c].pc = "idle" /\ f # Nil /\ net[f].state = "accepted"
        => \A p \in Ptr : LastSaid(net[f].queue, p, chunks[f][p].loc, held[c][p])

(* A grant does not outlive the call that asked for it: between calls its  *)
(* MoveDone is on the way, so a reservation is never left behind.          *)
GrantsClosed == \A c \in Client :
    LET f == proc[c].sock
    IN  proc[c].pc = "idle" /\ f # Nil /\ net[f].state = "accepted" /\ moving[f] # NoMove
        => \E i \in 1 .. Len(net[f].queue) :
              net[f].queue[i].type = "MoveDone" /\ net[f].queue[i].ptr = moving[f].ptr

(* A reply waiting at a client is the only one and answers the request the *)
(* client is blocked on: one that comes after the 3 s timeout is thrown    *)
(* away with its socket and never taken for the answer to a later request. *)
AnswersMatch == \A f \in Fd : net[f].reply # <<>> =>
    LET r == Head(net[f].reply)
        c == net[f].owner
    IN  /\ Len(net[f].reply) = 1
        /\ proc[c].sock = f
        /\ \/ proc[c].pc = "hello" /\ r.type = "Hello"
           \/ /\ proc[c].pc = "wait" /\ r.ptr = proc[c].ptr
              /\ r.type = IF proc[c].op = "create" THEN "Alloc" ELSE "Move"

(* The real client never reaches the branches the broker logs as client    *)
(* bugs: at the head of every queue is a message its handler expects.      *)
ClientsBehave == \A f \in tenants : net[f].queue # <<>> =>
    LET m == Head(net[f].queue)
    IN  IF m.type = "Hello" THEN ~hello[f]
        ELSE /\ hello[f]
             /\ m.type \in {"Alloc", "Resync"} <=> m.ptr \notin Tracked(f)
             /\ m.type = "AllocFail" => chunks[f][m.ptr].loc = "Device"
             /\ m.type = "Move" => moving[f] = NoMove /\ chunks[f][m.ptr].loc # m.loc
             /\ m.type = "MoveDone" => moving[f].ptr = m.ptr
             /\ m.type = "Free" => moving[f].ptr # m.ptr

(* Every connection still open belongs to the link of a live client: no    *)
(* path through timeouts, reconnects and exits leaves one behind, whose    *)
(* share the broker would count for ever.                                  *)
NoOrphans == \A f \in Fd : net[f].end = "open" => proc[net[f].owner].sock = f

(* B4: every backend call returns while the broker runs, whatever times     *)
(* out, is refused or breaks on the way.                                   *)
InCall(c) == proc[c].pc \notin {"off", "idle"}
CallsReturn == \A c \in Client : InCall(c) ~> ~InCall(c)

(* K2: a connection its client has closed is noticed, once the messages    *)
(* still in it are handled, and the tenant's share dropped: also that of a *)
(* link that a timeout or a reconnect replaced.                            *)
SharesReturned == \A f \in Fd :
    f \in tenants /\ net[f].end # "open" ~> f \notin tenants

(* daemon/README.md, B4: no call blocks longer than 3 s on the broker,     *)
(* here for what a call sends when the broker hangs.                       *)
SendsReturn == \A c \in Client :
    proc[c].pc \in {"resync", "ask", "work"} ~> proc[c].pc \notin {"resync", "ask", "work"}

(* daemon/README.md: a tenant's own next request always follows its        *)
(* earlier messages, also those it sent on a link since replaced.          *)
Overtakes(f) == net[f].end = "open" /\ \E g \in Fd \ {f} :
    net[g].owner = net[f].owner /\ net[g].owner # Nil /\ net[g].end = "eof" /\ net[g].queue # <<>>
OwnOrder == [][\A f \in Fd :
    Receive(f) /\ Head(net[f].queue).type \in {"Alloc", "Move"} => ~Overtakes(f)]_sysVars
=============================================================================
