SPECIFICATION Spec
CONSTANTS
    Broker = {b1, b2, b3, b4}
    Nil = Nil
INVARIANTS
    Alone
    Served
SYMMETRY Symmetry
