---------------------------- MODULE MCVmemSystem ----------------------------
(* Small instances of the system.                                          *)
EXTENDS VmemSystem

CONSTANTS c1, c2, f1, f2, f3, p1, p2, VramLimit, DramLimit

MCLimit == [l \in Loc |-> IF l = "Device" THEN VramLimit ELSE DramLimit]
MCSizeOf == [p \in Ptr |-> IF p = p1 THEN 1 ELSE 2]

Symmetry == Permutations(Fd) \cup Permutations(Client)

\* The log's last line decides nothing, so states that differ in it only are one.
View == <<tenants, hello, chunks, moving, used, total, up, crashes, net, backlog, batch, proc, held>>

\* Two processes, or one with two chunks, and not the four of them at once.
Busy(c) == proc[c] # Off \/ \E f \in Fd : net[f].owner = c
Second == \/ \E c \in Client : held[c][p2] # "None" \/ proc[c].ptr = p2
          \/ \E f \in Fd : \/ chunks[f][p2] # NoChunk
                           \/ \E i \in 1 .. Len(net[f].queue) : net[f].queue[i].ptr = p2
EitherTwo == ~(Second /\ \A c \in Client : Busy(c))
=============================================================================
