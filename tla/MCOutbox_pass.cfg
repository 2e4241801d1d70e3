SPECIFICATION FairSpec
CONSTANTS
  u1 = u1
  u2 = u2
  f1 = f1
  s1 = s1
  Events <- MCMixed
  Upserts <- MCUpserts
  Forgets <- MCForgets
  Structural <- MCStructural
  Routed <- MCRouted
  MaxRetries = 1
  Backoff <- MCBackoff
  Limit = 2
  MaxFaults = 2
CONSTRAINT MCScenario
INVARIANTS
  DeadLetterIsExhausted
  RedeliveryBounded
PROPERTIES
  CallsOnlyDueRows
  ForgetBeforeIndex
  KeepsPromise
  EventuallySettled
