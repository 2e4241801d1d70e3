SPECIFICATION MCSpec
CONSTANTS
  Movers = {"requests", "flow"}
  a = a
  b = b
  event = event
  key = key
  forgetting = forgetting
  text = text
  secret = secret
  NoEvents = NoEvents
  NoKey = NoKey
  NoContent = NoContent
  Values <- MCValues
  SentStatuses <- MCStatuses
  EvidenceEvents <- MCEvents
  RequestKeys <- MCRequestKeys
  Plans <- MCPlans
  MaxVersions = 3
  User = "u1"
  Key = "language"
  Scope = "global"
  Contents <- MCContents
  TextLevel <- MCTextLevel
  SourceEvents <- MCSourceEvents
  Candidates <- MCCandidates
  Elsewhere <- MCElsewhere
SYMMETRY MCValueSymmetry
INVARIANTS
  OneChain
  EveryAnswerHolds
  ConstraintsNeverBite
  HandOversFit
PROPERTY
  HistoryKept
