SPECIFICATION Spec
CONSTANTS
    NumNs = 3
    RepNum = 3
    QueueDepth = 1
    NumberIos = 0
    SizeInIos <- EqualSizes
    Offsets = {0, 1, 2}
    IsRandom = TRUE
    Ops = {FALSE, TRUE}
    ContinueOnError = TRUE
    SendMainRepFinally = TRUE
    Warmup = TRUE
    IdModulus = 64
    FreedLinkKept = TRUE
    MaxRejects = 0
    MaxErrors = 1
    MaxSubmits = 2
INVARIANTS
    UntilRefused
