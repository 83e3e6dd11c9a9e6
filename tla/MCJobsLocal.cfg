SPECIFICATION FairSpec
CONSTANTS
  Jobs = {j1, j2}
  Agents = {a1}
  Unowned = Unowned
  Waits = {w1, w2}
  Limit = 1
CHECK_DEADLOCK FALSE
INVARIANTS TypeOK NoticeOwed
PROPERTIES FirstOutcomeWins NoticeHasReader TeardownEnds
