SPECIFICATION Spec
CONSTANTS
  Entries = 2
  MaxRequests = 4
  Burst = 3
  Provider = "verbs"
  Unmapped = {3}
PROPERTY Served
