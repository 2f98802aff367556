SPECIFICATION Spec
CONSTANTS
  MaxKept = 1
  Outputs = {"function_call"}
  MaxItems = 3
  MaxDetours = 2
INVARIANT ForkSeesTurns
CHECK_DEADLOCK FALSE
