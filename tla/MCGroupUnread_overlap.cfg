SPECIFICATION Spec
CONSTANTS
    Client = {a, b}
    Shard = {h}
    Home = h
    First = h
    Initial = 1
    MaxSent = 3
SYMMETRY Symmetry
INVARIANTS
    ReadStaysRead
