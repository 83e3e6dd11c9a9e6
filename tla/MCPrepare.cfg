SPECIFICATION Spec
CONSTANTS
  Sessions = {s1, s2}
  Consumers = {c1, c2}
  None = None
  MaxLog = 1
  MaxCrashes = 0
CHECK_DEADLOCK FALSE

PROPERTIES PrepareAnswers
