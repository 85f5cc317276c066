SPECIFICATION Spec
CONSTANTS
  Users = {u1}
  Anonymous = anonymous
  Requests = {r1, r2}
  Keys = {k1, k2}
  Sizes = {1, 2}
  MaxInFlight = 1
  MaxUsage = 2
  EntrySizeLimit = 2
  Capacity = 3
  Period = 1
  MaxTime = 2
SYMMETRY Symmetry
PROPERTY RefusedOnlyWithinPeriod
