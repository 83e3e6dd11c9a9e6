SPECIFICATION FairSpec
CONSTANTS
  NumCalls = 3
  MaxParallel = 2
INVARIANTS TypeOK ModelOrder PoolBound ExclusiveBarrier PairedOnReturn
PROPERTIES NoStartAfterStop Terminates
CHECK_DEADLOCK FALSE
