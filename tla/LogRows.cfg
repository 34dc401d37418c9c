SPECIFICATION FairLogSpec
CHECK_DEADLOCK FALSE
CONSTANTS
    NumWorkers = 2
    MaxSamples = 2
    MaxTicks = 2
    QueueMax = 1
INVARIANTS
    LogConserved
    WrittenInOrder
    ReadersNotStuck
    CountBounds
PROPERTIES
    LogShutsDown
