SPECIFICATION Spec
CONSTANTS
    m1 = m1
    m2 = m2
    c1 = c1
    c2 = c2
    c3 = c3
    Message = {m1}
    Caller = {c1, c3}
    Publisher = {p1}
    Writer = {w1, w2}
    PublisherBatch = 1
    WriterBatch = 1
    StreamMaxLen = 20
    OneClock = FALSE
    Unparsable = {c3}
    MaxFailures = 1
SYMMETRY Symmetry
PROPERTIES
    RowNeverRegresses
