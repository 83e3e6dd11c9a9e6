SPECIFICATION Spec
CONSTANTS
  t1 = t1
  t2 = t2
  Calls = {t1, t2}
  None = None
  Delays = {1}
  Interval = 1
  MaxTime = 2
  MaxBack = 1
  MaxIds = 1
  MaxTurns = 2
  MaxLives = 1
INVARIANTS WakeGuaranteed
PROPERTIES DueIsReminded
CHECK_DEADLOCK FALSE
