SPECIFICATION FormalSpec
CONSTANTS
  None = None
  Official = "official"
  Subject = "alpha"
  ForeignUser = "beta"
  MaxDispatch = 5
  MaxEdits = 7
  Editions = {1, 2}
  Worktree <- MCWorktree
  Artifact <- MCArtifact
  Sealed <- MCSealed
  Preparations <- MCPreparations
  Requests <- MCRequests
  Samples <- MCSamples
  Metric <- MCMetric
  Mode <- MCMode
  Fields <- MCFields
  Candidates <- MCCandidates
  Resolution = None
  Traces <- MCTraces
  Asks <- MCAsks
  Expected <- MCExpected
  Minimum <- MCMinimum
  OtherRaw <- MCOtherRaw
  Reviewers = {"d", "author"}
  Author = "author"
  TrustRoot <- MCTrustRoot
INVARIANT PassedForgettingIsProven
PROPERTY ReportIsApproved
CHECK_DEADLOCK FALSE
CONSTRAINT Scenario
