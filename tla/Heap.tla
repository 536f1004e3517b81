-------------------------------- MODULE Heap --------------------------------
(***************************************************************************)
(* What libvmem/src/libvmem.cuh promises its application, without pools:   *)
(* the memory alloc hands out is as large as asked and nobody else's, free      *)
(* takes back exactly what it is given, misuse is refused and changes      *)
(* nothing, and after a fatal error there is only shutdown.                *)
(***************************************************************************)
EXTENDS Integers

CONSTANT Request

VARIABLES
    live,  \* allocations of the application: [ptr |-> address, size |-> bytes]
    life,  \* "open", "dead" or "closed"
    last   \* the last call: its pointer, the size an alloc asks for, what came of it

Bytes(a) == a.ptr .. a.ptr + a.size - 1

Init == live = {} /\ life = "open" /\ last = [call |-> "init", ptr |-> 0, size |-> 0, status |-> "Ok"]

Result(call, p, n, s) == last' = [call |-> call, ptr |-> p, size |-> n, status |-> s]

Alloc(n) ==
    /\ life = "open" /\ UNCHANGED life
    /\ \E new \in live' \ live :
          /\ new.size >= n
          /\ \A a \in live : Bytes(a) \cap Bytes(new) = {}
          /\ live' = live \cup {new}
          /\ Result("alloc", new.ptr, n, "Ok")

AllocNull(n) ==
    /\ life = "open" /\ UNCHANGED <<life, live>>
    /\ Result("alloc", 0, n, "NoMemory")

Free(a) ==
    /\ life = "open" /\ UNCHANGED life
    /\ live' = live \ {a}
    /\ Result("free", a.ptr, 0, "Ok")

Misuse(p) ==
    /\ life = "open" /\ p \notin {a.ptr : a \in live}
    /\ Result("free", p, 0, "Unsupported")
    /\ UNCHANGED <<life, live>>

Hint ==
    /\ UNCHANGED <<life, live>>
    /\ last'.call = "move"

\* The context dies in a call; a free may or may not have got as far as its slot.
Die ==
    /\ life = "open" /\ life' = "dead"
    /\ last'.status = "Fatal"
    /\ live' \subseteq live /\ \A a \in live \ live' : last'.call = "free" /\ last'.ptr = a.ptr

Refuse == life = "dead" /\ last'.status = "Fatal" /\ UNCHANGED <<life, live>>

Shutdown == life # "closed" /\ life' = "closed" /\ live' = {} /\ Result("shutdown", 0, 0, "Ok")

\* init takes the place of an open allocator, or fails and leaves it.
Reopen == life' = "open" /\ live' = {} /\ Result("init", 0, 0, "Ok")
NotOpened == UNCHANGED <<life, live>> /\ last'.call = "init" /\ last'.status # "Ok"

Next ==
    \/ \E n \in Request : Alloc(n) \/ AllocNull(n)
    \/ \E a \in live : Free(a)
    \/ Misuse(last'.ptr)
    \/ Hint \/ Die \/ Refuse \/ Shutdown \/ Reopen \/ NotOpened

Spec == Init /\ [][Next]_<<live, life, last>>
=============================================================================
