SPECIFICATION FairSpec
CONSTANTS
    m1 = m1
    m2 = m2
    c1 = c1
    c2 = c2
    c3 = c3
    Message = {m1, m2}
    Caller = {c1}
    Publisher = {p1}
    Writer = {w1}
    PublisherBatch = 2
    WriterBatch = 2
    StreamMaxLen = 20
    OneClock = TRUE
    Unparsable = {}
    MaxFailures = 1
INVARIANTS
    TypeOK
    NoMessageLost
    NoStatusLost
PROPERTIES
    ImplementsDurableStatus
    MessagesReachTheRow
    StatusesReachTheRow
