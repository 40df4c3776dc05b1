SPECIFICATION FairSpec
CONSTANTS
  e1 = e1
  e2 = e2
  w1 = w1
  w2 = w2
  Nobody = Nobody
  Event = {e1, e2}
  Worker = {w1, w2}
  Limit = 2
  MaxAttempts = 2
  MaxFaults = 1
INVARIANTS
  PublishedMeansAccepted
  BudgetKept
PROPERTIES
  EveryEventEnds
