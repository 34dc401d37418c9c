SPECIFICATION BatchSpec
CONSTANTS
    NumNs = 2
    RepNum = 2
    QueueDepth = 3
    NumberIos = 4
    SizeInIos <- EqualSizes
    Offsets = {0, 1}
    IsRandom = FALSE
    Ops = {FALSE}
    ContinueOnError = FALSE
    SendMainRepFinally = FALSE
    Warmup = FALSE
    IdModulus = 64
    FreedLinkKept = TRUE
    MaxRejects = 0
    MaxErrors = 0
    MaxSubmits = 5
    BatchSizes = {3}
INVARIANTS
    BatchMainNotDraining
