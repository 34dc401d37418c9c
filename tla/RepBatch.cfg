SPECIFICATION BatchSpec
CONSTANTS
    NumNs = 2
    RepNum = 2
    QueueDepth = 3
    NumberIos = 4
    SizeInIos <- EqualSizes
    Offsets = {0, 1}
    IsRandom = FALSE
    Ops = {FALSE}
    ContinueOnError = FALSE
    SendMainRepFinally = FALSE
    Warmup = FALSE
    IdModulus = 64
    FreedLinkKept = TRUE
    MaxRejects = 0
    MaxErrors = 1
    MaxSubmits = 5
    BatchSizes = {1, 2, 3, 4}
INVARIANTS
    OnePlace
    AtMostOneBatch
    BudgetToABatch
PROPERTIES
    BatchTermination
