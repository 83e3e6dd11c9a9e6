SPECIFICATION FairSpec
CONSTANTS
  Callers = {c1, c2}
  MaxEvents = 4
  MaxSeed = 1
INVARIANTS TypeOK Owed NoStrandedWork
PROPERTIES ImplementsLog EventuallyDurable FlushAnswered
