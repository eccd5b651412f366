SPECIFICATION MCSpec
CONSTANTS
  d1 = d1
  d2 = d2
  d3 = d3
  i1 = i1
  i2 = i2
  p1 = p1
  p2 = p2
  r1 = r1
  w1 = w1
  w2 = w2
  x1 = x1
  None = None
  ZeroRoot = ZeroRoot
  Witnesses = {w1, w2}
  Strangers = {x1}
  Threshold = 2
  Devices = {d1, d2, d3}
  Identities = {i1, i2}
  Proofs = {p1, p2}
  Roots = {r1}
  MaxEpoch = 1
  MaxTime = 1
  MaxTree = 9
  MaxForged = 5
SYMMETRY Symmetry
INVARIANTS CascadeComplete RotationCoherent InclusionExact
PROPERTIES DeadDevicesHaveNoVoice MirrorIsMonotone
CHECK_DEADLOCK FALSE
