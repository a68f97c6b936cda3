SPECIFICATION Spec
CONSTANTS
    i1 = i1
    i2 = i2
    s1 = s1
    s2 = s2
    Server = {i1, i2}
    Session = {s1, s2}
    Worker = {w1}
    MaxFailures = 1
SYMMETRY Symmetry
INVARIANTS
    TypeOK
    MapsAgree
PROPERTIES
    ForeignLeasesKept
