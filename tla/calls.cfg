SPECIFICATION CallsSpec
CONSTANTS
  Parts = {"rpc", "lock"}
  c1 = c1
  c2 = c2
  c3 = c3
  Nobody = Nobody
  Call = {c1, c2, c3}
  Attempts = 2
  Threshold = 2
  MaxOther = 1
  MaxOutages = 2
  LockPod = {"p", "q"}
  Master = {1, 2, 3}
  Caller = {"x", "y", "z"}
  PodOf <- CallerPods
  Views <- MasterViews
  MaxTroubles = 2
INVARIANTS
  TripsExactly
  ProbePending
PROPERTIES
  OutageTrips
  Recovers
  LockServes
CHECK_DEADLOCK FALSE
