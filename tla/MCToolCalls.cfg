SPECIFICATION FairSpec
CONSTANTS
  MaxCalls = 2
  MaxRounds = 2
  Requests <- MCRequests
  Paths = {"in", "out"}
  Writable = {"in"}
  Contexts <- MCContexts
INVARIANTS TypeOK ExclusiveAlone RunsWithConsent AnswersInOrder
PROPERTIES CancelReleases
CHECK_DEADLOCK FALSE
