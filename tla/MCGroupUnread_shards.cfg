SPECIFICATION Spec
CONSTANTS
    Client = {a}
    Shard = {h, f}
    Home = h
    First = f
    Initial = 1
    MaxSent = 3
SYMMETRY Symmetry
INVARIANTS
    HotReadIsBacked
