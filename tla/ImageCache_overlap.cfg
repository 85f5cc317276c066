SPECIFICATION Spec
CONSTANTS
  Users = {u1}
  Anonymous = anonymous
  Requests = {r1, r2, r3}
  Keys = {k1, k2}
  Sizes = {1, 2, 3}
  MaxInFlight = 3
  MaxUsage = 2
  EntrySizeLimit = 2
  Capacity = 3
  Period = 1
  MaxTime = 2
SYMMETRY Symmetry
INVARIANT UsageIsBounded
INVARIANT NeverOvercharged
