SPECIFICATION FairSpec
CONSTANTS
    NumNs = 2
    RepNum = 2
    QueueDepth = 2
    NumberIos = 3
    SizeInIos <- EqualSizes
    Offsets = {0, 1}
    IsRandom = FALSE
    Ops = {FALSE, TRUE}
    ContinueOnError = TRUE
    SendMainRepFinally = TRUE
    Warmup = FALSE
    IdModulus = 64
    FreedLinkKept = TRUE
    MaxRejects = 2
    MaxErrors = 0
    MaxSubmits = 3
INVARIANTS
    DepthExact
    UntilRefused
PROPERTIES
    Stops
