\* Two submissions, one approval request per turn, fair scheduling.
CONSTANTS
  s1 = s1
  s2 = s2
  Subs = {s1, s2}
  None = None
  MaxAsks = 1
SPECIFICATION FairSpec
INVARIANTS
  ApprovalsUsedOnce
  WaitersCanBeAnswered
  AbortsAreSeenThrough
PROPERTIES
  ImplementsTaskSlot
  TaskEnds
  NoCommandAfterAbort
\* The session stops after Op::Shutdown.
CHECK_DEADLOCK FALSE
