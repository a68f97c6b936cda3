SPECIFICATION FairSpec
CONSTANTS
    m1 = m1
    m2 = m2
    c1 = c1
    c2 = c2
    c3 = c3
    Message = {m1, m2}
    Caller = {c1}
    Publisher = {p1}
    Writer = {w1}
    PublisherBatch = 1
    WriterBatch = 1
    StreamMaxLen = 1
    OneClock = TRUE
    Unparsable = {}
    MaxFailures = 1
PROPERTIES
    PipelineDrains
