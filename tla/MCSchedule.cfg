SPECIFICATION SafetySpec
CONSTANTS
  t1 = t1
  t2 = t2
  Calls = {t1, t2}
  None = None
  Delays = {1, 3}
  Interval = 2
  MaxTime = 4
  MaxBack = 0
  MaxIds = 2
  MaxTurns = 2
  MaxLives = 2
SYMMETRY AnyCall
INVARIANTS TypeOK ConfirmedHolds WakeGuaranteed RemindedOnce
CHECK_DEADLOCK FALSE
