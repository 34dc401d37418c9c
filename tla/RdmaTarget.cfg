SPECIFICATION TargetSpec
CONSTANTS
    MaxQueue = 2
    MaxSend = 3
    MaxRead = 1
    Buffers = 1
    Kinds <- OneTransfer
    MaxCommands = 3
INVARIANTS
    NoAssertFails
    PostedFits
    MemorySafe
PROPERTIES
    Drains
    Served
