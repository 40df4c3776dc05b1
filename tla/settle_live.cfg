SPECIFICATION FairSpec
CONSTANTS
  r1 = r1
  r2 = r2
  k1 = k1
  i1 = i1
  x1 = x1
  p1 = p1
  p2 = p2
  Null = Null
  Empty = Empty
  Request = {r1, r2}
  Key = {k1}
  IdemKey = {i1}
  Payment = {x1}
  Pod = {p1}
  Inputs <- RetryInputs
  Postgres = TRUE
  Replica = FALSE
  UseLock = TRUE
  MaxDegrades = 0
  MaxCrashes = 0
  MaxLockLosses = 0
PROPERTIES
  EveryRequestAnswered
  UnknownLandedResolves
