SPECIFICATION Spec
SYMMETRY Symmetry
CONSTANTS
    Api = {a, b}
    LocalTtl = 2
    LocalShortTtl = 1
    RedisTtl = 3
    RedisShortTtl = 2
    Sender = {a, b}
    Reader = {r}
    PageSize = 2
    InOrder = TRUE
    MaxIds = 3
    MaxDeletes = 1
    PushUser = {u}
    ImServer = {a, b}
    RouteTtl = 2
    PushBatch = 2
    MaxEvents = 3
    MaxMishaps = 1
    Client = {a, b}
    Ticket = {t}
    MaxPairs = 2
    MaxTime = 2
    MaxInvalid = 2
    Request = {a, b}
    Word = {x, y}
    MaxCalls = 4
    MaxVersion = 3
    Persona = {x, y}
    Job = {a, b}
    Switching = {s}
    RoundLimit = 2
    MaxMissed = 1
INVARIANTS
    TypeOK
    
    
    
    PushesInOrder
    PushesFollowRoutes
    
    TokenVersionNamesToken
    RobotsPause
    OffMeansOff
CHECK_DEADLOCK FALSE
