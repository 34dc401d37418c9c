SPECIFICATION LogSpec
CONSTANTS
    NumWorkers = 1
    MaxSamples = 1
    MaxTicks = 1
    QueueMax = 1
INVARIANT
    QueueEmptyAtRemoval
