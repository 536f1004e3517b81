SPECIFICATION MCSpec
CONSTANTS
    Fits = 2
    MaxCapacity = 6
    Value = {0, 1}
    Default = 0
    Garbage = Garbage
    Retains <- MCRetains
    Handle = {h1, h2, h3, h4}
SYMMETRY Symmetry
INVARIANTS
    TypeOK
    ElementsKept
    Located
PROPERTIES
    IsVector
