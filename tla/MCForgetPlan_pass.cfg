SPECIFICATION Spec
CONSTANTS
  u1 = u1
  u2 = u2
  k1 = k1
  k2 = k2
  q1 = q1
  p1 = p1
  p2 = p2
  x1 = x1
  x2 = x2
  x3 = x3
  x4 = x4
  Users = {u1, u2}
  Knowledge = {k1, k2}
  Preferences = {q1}
  Owner <- MCOwner
  PlanIds = {p1, p2}
  Keys = {x1, x2, x3, x4}
  TokenTTL = 1
  KeyTTL = 2
  MaxPlans = 2
  MaxTime = 2
  MaxRevision = 2
SYMMETRY MCSymmetry
CONSTRAINTS MCScenario MCEvents
INVARIANTS
  ExecutedOnce
  AnswersAreTrue
  RefusedOnlyAfterOverlap
PROPERTIES
  KeepsPromise
CHECK_DEADLOCK FALSE
