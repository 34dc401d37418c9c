SPECIFICATION FairSpec
CONSTANTS
    NumNs = 3
    RepNum = 3
    QueueDepth = 2
    NumberIos = 3
    SizeInIos <- MainLargest
    Offsets = {0, 1, 2}
    IsRandom = FALSE
    Ops = {FALSE}
    ContinueOnError = FALSE
    SendMainRepFinally = FALSE
    Warmup = FALSE
    IdModulus = 64
    FreedLinkKept = TRUE
    MaxRejects = 0
    MaxErrors = 1
    MaxSubmits = 3
INVARIANTS
    TypeOK
    Barrier
    OneCommandPerRound
    NoFault
    BufferOutlivesIo
PROPERTIES
    ImplementsReplicatedIO
    Completes
