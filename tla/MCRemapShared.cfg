SPECIFICATION FairSpec
CONSTANTS
    Sub = {s1, s2}
    s1 = s1
    s2 = s2
    Owner = Owner
    NChunk = 2
    ChunkSizes = {1, 2}
    MaxDeath = 2
    Nil = Nil
INVARIANTS
    TypeOK
    OwnerAlone
    SameMemory
    RegionsApart
    AllVerified
PROPERTIES
    Ends
CHECK_DEADLOCK FALSE
