SPECIFICATION Spec
CONSTANTS
  Entries = 2
  MaxRequests = 5
  Burst = 3
  Provider = "mlx5_dv"
  Unmapped <- NoRequest
INVARIANT SampleMeasured
