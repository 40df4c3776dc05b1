SPECIFICATION CallsSpec
CONSTANTS
  Parts = {"rpc"}
  c1 = c1
  c2 = c2
  c3 = c3
  Nobody = Nobody
  Call = {c1, c2}
  Attempts = 2
  Threshold = 2
  MaxOther = 1
  MaxOutages = 1
  LockPod = {"p", "q"}
  Master = {1, 2, 3}
  Caller = {"x", "y", "z"}
  PodOf <- CallerPods
  Views <- MasterViews
  MaxTroubles = 2
PROPERTIES
  Heals
