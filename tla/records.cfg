SPECIFICATION RecordsSpec
CONSTANTS
  s1 = s1
  s2 = s2
  Nil = Nil
  Slot = {s1, s2}
  Backends = {"memory", "postgres", "redis"}
  BucketLimit <- Limits
  MaxFee = 2
  MaxUpsets = 1
  StoreKey = {"k"}
  StorePod = {s1, s2}
  ReadingPod = {s1, s2}
  MaxLog = 2
  MaxOffline = 1
  MaxRebuilds = 1
  MaxDrops = 1
  MaxStoreFaults = 1
  CacheNode = {"a", "b"}
  Searched = {"a"}
  Reader = {s1, s2}
  MaxWrites <- CacheWrites
  MaxLives <- CacheLives
  Listing = {"k"}
  Text = {"t", "u"}
  PayTo = {"p"}
  MaxPerPayTo = 1
  MaxCatalogSize = 1
  MaxUpserts = 2
  MaxBoots = 2
  MaxCatFaults = 1
  Row = {s1, s2}
  RetentionBatch = 1
  MaxTouches = 1
  MaxJobFaults = 1
  Client = {"c"}
  Sites <- Deployments
  Cloudflare = {"cf"}
  Forged <- Headers
  Keyring <- Keys
  OpenMode = FALSE
  Tokens <- Jwts
  Idem <- IdemKeys
  MaxClock = 1
  MaxDeviations = 2
  MaxPactFee = 2
  Fees = {2, 3}
INVARIANTS
  LimitsKept
  NoFalseMiss
  ProjectionIsFold
  OwnWritesFound
  DenseIsHonest
  GateKept
  PactKept
PROPERTIES
  OnlyDueDeleted
SYMMETRY SlotSymmetry
CHECK_DEADLOCK FALSE
