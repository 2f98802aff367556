SPECIFICATION Spec
CONSTANTS
  MaxKept = 1
  Outputs = {"function_call"}
  MaxItems = 3
  MaxDetours = 3
INVARIANTS TypeOK ResumeAgrees RolledBackStaysGone ForkMatches PromptPaired
CHECK_DEADLOCK FALSE
