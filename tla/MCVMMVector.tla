---------------------------- MODULE MCVMMVector ----------------------------
(* A small instance of the two vectors: three chunks of two elements, and  *)
(* for the one that moves them a handle to spare.                          *)
EXTENDS VMMRemapVector

VARIABLE class

MCRetains == {-1, 0, 1}

Classes == {"VMMVector", "VMMRemapVector"}

MCInit == class \in Classes /\ IF class = "VMMVector"
    THEN /\ Init /\ handles = <<>> /\ chunk_on_host = <<>>
         /\ mapped = <<>> /\ memory = [h \in Handle |-> NoMemory]
    ELSE RemapInit

MCNext ==
    /\ UNCHANGED class
    /\ \/ class = "VMMVector" /\ Next /\ UNCHANGED <<handles, chunk_on_host, driver>>
       \/ class = "VMMRemapVector" /\ RemapNext

MCSpec == MCInit /\ [][MCNext]_<<class, remapVars>>

Symmetry == Permutations(Handle)
=============================================================================
