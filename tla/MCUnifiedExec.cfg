\* Three calls, a store of two processes of which one is spared.
CONSTANTS
  c1 = c1
  c2 = c2
  c3 = c3
  i1 = i1
  i2 = i2
  i3 = i3
  Calls = {c1, c2, c3}
  Ids = {i1, i2, i3}
  None = None
  MaxProcesses = 2
  Warning = 2
  Spared = 1
SPECIFICATION Spec
SYMMETRY Symmetry
INVARIANTS
  StoreBounded
  LostOnlyByClash
  OneEnd
  WatcherIsServed
\* Calls are finite.
CHECK_DEADLOCK FALSE
