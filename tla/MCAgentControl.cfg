\* 2 tool calls race over 2 slots, or without a limit,
\* with 3 thread ids.
CONSTANTS
  c1 = c1
  c2 = c2
  t1 = t1
  t2 = t2
  t3 = t3
  Callers = {c1, c2}
  Threads = {t1, t2, t3}
  NoLimit = NoLimit
  NoThread = NoThread
  Limits = {2, NoLimit}
SPECIFICATION Spec
SYMMETRY Symmetry
INVARIANTS
  CountExact
  OpenAgentsBounded
  LeakOnlyByArchive
\* Threads are finite: a session may run out of ids and stop.
CHECK_DEADLOCK FALSE
