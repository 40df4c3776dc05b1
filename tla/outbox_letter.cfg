SPECIFICATION Spec
CONSTANTS
  e1 = e1
  e2 = e2
  w1 = w1
  w2 = w2
  Nobody = Nobody
  Event = {e1}
  Worker = {w1, w2}
  Limit = 2
  MaxAttempts = 2
  MaxFaults = 0
SYMMETRY Symmetry
INVARIANTS
  FailedHasLetter
