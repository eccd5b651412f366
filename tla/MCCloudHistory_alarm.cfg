SPECIFICATION Spec
CONSTANTS
  WrapTotal = 5
  WrapThreshold = 3
  MaxRetrySubsets = 10
  Servers = {s1, s2, s3, s4, s5}
  Faulty = {s1, s2}
  EarlyReturn = 3
  Calls = {c1, c2}
  MaxEntries = 2
  MaxRotations = 1
SYMMETRY Symmetry
INVARIANT AllFailedMeansThreshold
CHECK_DEADLOCK FALSE
