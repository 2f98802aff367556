\* InjectedInputIsUsed is what the repository says; TLC finds how the code departs from it.
CONSTANTS
  s1 = s1
  s2 = s2
  Subs = {s1, s2}
  None = None
  MaxAsks = 0
SPECIFICATION Spec
SYMMETRY Symmetry
INVARIANTS
  InjectedInputIsUsed
\* The session stops after Op::Shutdown.
CHECK_DEADLOCK FALSE
