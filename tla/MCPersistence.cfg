SPECIFICATION SafetySpec
CONSTANTS
  Sessions = {s1, s2}
  Consumers = {c1, c2}
  None = None
  MaxLog = 2
  MaxCrashes = 2
SYMMETRY AnyCall
CHECK_DEADLOCK FALSE
INVARIANTS TypeOK ExclusiveReservation OwnedPrefix RetiredIsDurable
PROPERTIES RepairOnlyAbandoned
