SPECIFICATION Spec
CONSTANTS
    Client = {a, b}
    Shard = {h}
    Home = h
    First = h
    Initial = 1
    MaxSent = 2
SYMMETRY Symmetry
INVARIANTS
    TypeOK
    
    UnreadNeverHidden
PROPERTIES
    CursorNeverRegresses
