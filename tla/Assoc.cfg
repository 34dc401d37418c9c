SPECIFICATION AssocSpec
CONSTANTS
    MaxWorkers = 5
    MaxNamespaces = 5
INVARIANTS
    NobodyIdle
    NoNamespaceTwice
    Balanced
