SPECIFICATION Spec
CONSTANTS
  Labels = {primary, second, third}
  First = primary
  Rotations = {r1, r2}
  MaxKeys = 5
INVARIANT CoherentAfterRotation
CHECK_DEADLOCK FALSE
