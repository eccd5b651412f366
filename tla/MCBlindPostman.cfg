SPECIFICATION Spec
CONSTANTS
  e1 = e1
  e2 = e2
  e3 = e3
  e4 = e4
  e5 = e5
  s1 = s1
  s2 = s2
  s3 = s3
  NoBucket = NoBucket
  Envelopes = {e1, e2, e3, e4, e5}
  ParsedAs <- MCParsedAs
  EndpointKinds = {"Welcome"}
  Senders = {s1, s2, s3}
  ReplayWindow = 1
  RateWindow = 3
  PerWindow = 2
  MaxTrackedSenders = 2
  MaxTime = 5
  MaxStepBack = 0
  MaxDelivered = 5
SYMMETRY Symmetry
INVARIANTS NoReplayInWindow GuardConsistent LimitsHold QuotaChargesDeliveries
