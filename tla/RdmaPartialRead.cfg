SPECIFICATION TargetSpec
CONSTANTS
    MaxQueue = 2
    MaxSend = 3
    MaxRead = 1
    Buffers = 1
    Kinds <- Scattered
    MaxCommands = 2
INVARIANTS
    NoAssertFails
