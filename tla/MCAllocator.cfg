SPECIFICATION Spec
CONSTANTS
    Base <- MCBase
    Address <- MCAddress
    Request = {1, 3, 6}
    Granularity = 4
    SmallMax = 3
    SmallChunk = 4
    MinObj = 2
INVARIANTS
    TypeOK
    SlotsExact
    PartialExact
    RegionsMatch
PROPERTIES
    KeepsHeap
