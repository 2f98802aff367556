\* Two owners and two waiters race.
CONSTANTS
  o1 = o1
  o2 = o2
  w1 = w1
  w2 = w2
  Owners = {o1, o2}
  Waiters = {w1, w2}
  NoOne = NoOne
SPECIFICATION FairSpec
INVARIANTS
  OneCallMarks
  TokenHoldsTheFlag
PROPERTIES
  ReceiverIsWoken
\* A flag is used once; then all its tasks are done.
CHECK_DEADLOCK FALSE
