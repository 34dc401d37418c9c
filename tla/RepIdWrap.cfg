SPECIFICATION Spec
CONSTANTS
    NumNs = 2
    RepNum = 2
    QueueDepth = 2
    NumberIos = 3
    SizeInIos <- MainLargest
    Offsets = {0, 1, 2}
    IsRandom = FALSE
    Ops = {FALSE}
    ContinueOnError = FALSE
    SendMainRepFinally = FALSE
    Warmup = FALSE
    IdModulus = 4
    FreedLinkKept = TRUE
    MaxRejects = 0
    MaxErrors = 1
    MaxSubmits = 3
INVARIANTS
    UniqueIoIds
