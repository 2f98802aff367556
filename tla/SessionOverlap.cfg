\* Three submissions, no approvals: turns that overlap.
CONSTANTS
  s1 = s1
  s2 = s2
  s3 = s3
  Subs = {s1, s2, s3}
  None = None
  MaxAsks = 0
SPECIFICATION Spec
SYMMETRY Symmetry
INVARIANTS
  OneLiveTask
  QuietWhenIdle
  RecordedOnce
PROPERTIES
  TurnLeavesByItsOwner
\* The session stops after Op::Shutdown.
CHECK_DEADLOCK FALSE
