SPECIFICATION MainSpec
CONSTANTS
    MaxWorkers = 3
    MaxNamespaces = 4
INVARIANTS
    UsesLive
    StartTogether
    ErrorsReported
    CleanupDefined
    DealtOut
PROPERTIES
    MainReturns
