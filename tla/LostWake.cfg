SPECIFICATION FairSpec
CONSTANTS
  Messages = {m1, m2}
  MaxSteps = 1
  MaxTurns = 1
PROPERTY WakeServed
CHECK_DEADLOCK FALSE
