SPECIFICATION Spec
CONSTANTS
  c1 = c1
  c2 = c2
  r1 = r1
  r2 = r2
  r3 = r3
  p1 = p1
  p2 = p2
  Requests = {r1, r2, r3}
  Workers = 1
  MaxRebuilds = 1
  Conns = {c1, c2}
  MaxStops = 2
  Providers = {p1, p2}
  MaxBridges = 3
SYMMETRY MCSymmetry
INVARIANTS
  StopKnowsThreads
  HungCallsBounded
  ReadyHasSession
CONSTRAINT MCBound
CHECK_DEADLOCK FALSE
