SPECIFICATION Spec
CONSTANTS
    NumNs = 2
    RepNum = 2
    QueueDepth = 2
    NumberIos = 3
    SizeInIos <- EqualSizes
    Offsets = {0, 1, 2}
    IsRandom = FALSE
    Ops = {FALSE}
    ContinueOnError = FALSE
    SendMainRepFinally = FALSE
    Warmup = FALSE
    IdModulus = 64
    FreedLinkKept = TRUE
    MaxRejects = 1
    MaxErrors = 0
    MaxSubmits = 3
INVARIANTS
    BufferOutlivesIo
