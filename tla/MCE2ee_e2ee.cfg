SPECIFICATION Spec
SYMMETRY Symmetry
CONSTANTS
    KeyClient = {a, b}
    Combination = {x, y}
    PreKey = {k1}
    MaxBatch = 1
    MaxUploads = 2
    MaxCopies = 1
    Backer = {b1, b2}
    MaxSalts = 3
    Caller = {a, b}
    Alice = Alice
    Bob = Bob
    Stranger = Stranger
    Session = {p}
    Canonical = p
    MaxVersion = 3
    MaxRotation = 2
    Handler = {a, b}
    Owner = o
    Guest = {g}
    MaxEpoch = 2
    MaxKeys = 1
    MaxFaults = 1
    Initiator = Initiator
    Responder = Responder
    MaxSkip = 2
    MaxStored = 2
    MaxMessages = 5
    MaxPairs = 4
    MaxNoise = 1
    Thread = {t, u}
    Handshake = {h}
    MaxOutbound = 1
    MaxSent = 1
    MaxRead = 1
INVARIANTS
    TypeOK
    OtkHandedOnce
    
    BackupOpens
    AnsweredOnce
    NewestVersionIsTold
    PlaintextWasAllowed
    MembershipSettles
    EveryMessageReadable
    MessageKeyUsedOnce
    KeyReuseNeedsLoss
PROPERTIES
    VersionNamesState
    SessionStays
CHECK_DEADLOCK FALSE
