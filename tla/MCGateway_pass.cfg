SPECIFICATION Spec
CONSTANTS
  u1 = u1
  u2 = u2
  s1 = s1
  s2 = s2
  text = text
  secret = secret
  NoContent = NoContent
  Nobody = Nobody
  NoText = NoText
  Contents <- MCContents
  TextLevel <- MCTextLevel
  Resolves <- MCResolves
  Users = {u1, u2}
  Sessions = {s1, s2}
  Conns = {1, 2}
  Requests <- MCRequests
  MaxSent = 3
  MaxTime = 3
CONSTRAINT MCBound
INVARIANTS OneEffect DuplicatesAreTrue AnswersAreTrue
CHECK_DEADLOCK FALSE
