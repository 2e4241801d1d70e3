SPECIFICATION CachesSpec
CONSTANTS
  r1 = r1
  r2 = r2
  r3 = r3
  t1 = t1
  e1 = e1
  x1 = x1
  x2 = x2
  x3 = x3
  d1 = d1
  d2 = d2
  Requests = {r1, r2, r3}
  Workers = 1
  MaxRebuilds = 1
  Texts = {t1}
  TextOf <- MCTextOf
  Earlier <- MCEarlier
  Capacity = 1
  Extractions = {x1, x2, x3}
  Sources = {e1}
  SourceOf <- MCSourceOf
  KindOf <- MCKindOf
  Turns <- MCTurns
  RawAnswers <- MCRawAnswers
  Sensitive = {"secret"}
  MaxHangs = 1
  Deletions = {d1, d2, e1}
  Resets <- MCReset
  TextsOf <- MCTextsOf
  SourcesOf <- MCSourcesOf
  MaxFailures = 1
INVARIANTS
  NoRequestStuck
  StoredAfterWipe
  ProcessedIsComplete
  CandidatesAreTrusted
CONSTRAINT MCBound
SYMMETRY MCSymmetry
CHECK_DEADLOCK FALSE
