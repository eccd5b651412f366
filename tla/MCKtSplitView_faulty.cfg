SPECIFICATION Spec
CONSTANTS
  w1 = w1
  w2 = w2
  w3 = w3
  w4 = w4
  w5 = w5
  c1 = c1
  c2 = c2
  r1 = r1
  r2 = r2
  l1 = l1
  None = None
  Witnesses = {w1, w2, w3}
  Threshold = 2
  Faulty = {w1}
  Clients = {c1, c2}
  LogIds = {l1}
  Roots = {r1, r2}
  MaxEpoch = 1
SYMMETRY Symmetry
INVARIANTS ClientNeverForks RootEvidenceNamesFaulty
\* Every witness may have signed everything it ever will.
CHECK_DEADLOCK FALSE
