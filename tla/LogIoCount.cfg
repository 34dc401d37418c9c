SPECIFICATION LogSpec
CONSTANTS
    NumWorkers = 2
    MaxSamples = 1
    MaxTicks = 1
    QueueMax = 1
INVARIANT
    CountExact
