SPECIFICATION FairSpec
CONSTANTS
  Messages = {m1, m2}
  MaxSteps = 2
  MaxTurns = 2
INVARIANTS TypeOK OnePlace DriverOwnsPhase
PROPERTIES Balanced NothingEntersAborted SettledForGood OnePromptPerTurn
PROPERTIES WorkAccounted AbortConverges WakeServedUnlessLate
CHECK_DEADLOCK FALSE
