SPECIFICATION Spec
CONSTANTS
  Entries = 2
  MaxRequests = 4
  Burst = 3
  Provider = "verbs"
  Unmapped <- NoRequest
INVARIANTS
    CallbackOnce
    NoFault
    WorkAccounted
    SampleMeasured
PROPERTIES
    SubmittedInOrder
    Served
