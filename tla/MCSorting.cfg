CONSTANTS
  MaxLen = 4
  Threshold = 2
  Slack = 1
  Inputs <- MCInputs
SPECIFICATION Spec
INVARIANTS
  FramesSound
  MergeSound
  EndsRight
PROPERTIES
  Ends
CHECK_DEADLOCK FALSE
