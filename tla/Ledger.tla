------------------------------- MODULE Ledger -------------------------------
(***************************************************************************)
(* What the broker promises, without its tables (K1 to K4 of               *)
(* libvmem/daemon/README.md): how many bytes each tenant holds or has      *)
(* reserved at each location, and when that may change.  A request is      *)
(* granted only where there is room under the limit, and device comes      *)
(* first; an allocation is refused only when neither location has room.    *)
(* A report is taken as it comes.  Nobody's step touches another tenant.   *)
(***************************************************************************)
EXTENDS Totals

CONSTANTS Fd, Size, Limit, Nil

VARIABLES
    bytes,  \* bytes[fd][l]
    last    \* the event, the size an Alloc asks for and the reply, as in Vmemd

Loc == {"Device", "Host"}
Nothing == [l \in Loc |-> 0]

Room(l, n) == Total([fd \in Fd |-> bytes[fd][l]]) + n <= Limit[l]

Grown(fd, l, n) == bytes' = [bytes EXCEPT ![fd][l] = @ + n]

Said(fd, types, statuses) ==
    last'.fd = fd /\ last'.type \in types /\ last'.status \in statuses

Init ==
    /\ bytes = [fd \in Fd |-> Nothing]
    /\ last = [type |-> "Start", fd |-> Nil, size |-> 0, status |-> "None"]

GrantAlloc(fd, l, n) ==
    /\ Said(fd, {"Alloc"}, {"Ok"}) /\ last'.size = n
    /\ Room(l, n)
    /\ l = "Host" => ~Room("Device", n)
    /\ Grown(fd, l, n)

RefuseAlloc(fd, n) ==
    /\ Said(fd, {"Alloc"}, {"NoMemory"}) /\ last'.size = n
    /\ \A l \in Loc : ~Room(l, n)
    /\ UNCHANGED bytes

GrantMove(fd, l, n) ==
    /\ Said(fd, {"Move"}, {"Ok"})
    /\ Room(l, n)
    /\ Grown(fd, l, n)

\* A chunk named twice, a move with nothing to do, a refused move: no bytes change.
Answer(fd) ==
    /\ \/ Said(fd, {"Alloc"}, {"Unsupported"})
       \/ Said(fd, {"Move"}, {"Ok", "NoMemory"})
       \/ Said(fd, {"Connect"}, {"None"})
    /\ UNCHANGED bytes

\* Facts: they may raise a tenant's share over any limit.
Report(fd) ==
    /\ \/ Said(fd, {"Hello"}, {"Ok"})
       \/ Said(fd, {"AllocFail", "MoveDone", "Resync"}, {"None"})
    /\ \A other \in Fd \ {fd} : bytes'[other] = bytes[other]

Release(fd) ==
    /\ Said(fd, {"Free"}, {"None"})
    /\ \A l \in Loc : bytes'[fd][l] <= bytes[fd][l]
    /\ \A other \in Fd \ {fd} : bytes'[other] = bytes[other]

Leave(fd) ==
    /\ Said(fd, {"Disconnect"}, {"None"})
    /\ bytes' = [bytes EXCEPT ![fd] = Nothing]

Next == \E fd \in Fd :
    \/ Answer(fd) \/ Report(fd) \/ Release(fd) \/ Leave(fd)
    \/ \E n \in Size :
          \/ RefuseAlloc(fd, n)
          \/ \E l \in Loc : GrantAlloc(fd, l, n) \/ GrantMove(fd, l, n)

Spec == Init /\ [][Next]_<<bytes, last>>
=============================================================================
