SPECIFICATION Spec
CONSTANTS
  Messages = {m1, m2}
  MaxSteps = 1
  MaxTurns = 1
PROPERTY DisposalNeverLatches
CHECK_DEADLOCK FALSE
