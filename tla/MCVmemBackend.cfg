SPECIFICATION Spec
CONSTANTS
    Va = {v1, v2, v3}
    Handle = {h1, h2, h3}
    Size = {1, 2}
    Nil = Nil
INVARIANTS
    TypeOK
    MappingsLive
    ChunksExact
    BrokerExact
SYMMETRY Symmetry
