\* Two callers, a channel of one command, a crash or exit and a second and
\* third run on the same file.
CONSTANTS
  c1 = c1
  c2 = c2
  Callers = {c1, c2}
  Capacity = 1
  MaxBatch = 2
  MaxSent = 2
  MaxRuns = 3
SPECIFICATION Spec
INVARIANTS
  OneLostPerRestart
  WaitersAreInLine
PROPERTIES
  AckedIsStored
  Served
\* The last run may exit, and a file without its meta is never resumed.
CHECK_DEADLOCK FALSE
