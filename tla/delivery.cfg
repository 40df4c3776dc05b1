SPECIFICATION DeliverySpec
CONSTANTS
  l1 = l1
  w1 = w1
  w2 = w2
  o1 = o1
  p1 = p1
  p2 = p2
  Nobody = Nobody
  Letter = {l1}
  Worker = {w1, w2}
  Replay = {o1}
  Pod = {p1, p2}
  Host <- TwoHosts
  MaxDlqAttempts = 2
  Threshold = 0
  MaxFaults = 1
  Msg = {"m", "n", "x"}
  MtlsMsg = {"m"}
  NowhereMsg = {"x"}
  MaxAttempts = 2
  HookKinds = {"direct", "kafka"}
  MaxRotations = 1
  MaxHookFaults = 1
  Payloads <- KeySets
  Settler = {"s"}
  MaxRekeys = 2
  MaxRingFaults = 1
  CoSigner = {"a", "b", "c"}
  Endpoint = {"p", "q"}
  Tx = {"x", "y"}
  SignThreshold = 2
  AllowLists = {{"a", "b"}}
  MaxEnvelopes = 2
  Lease = 10
  PollEvery = 1
  MinWindow = 1
  MaxWindow = 6
  TokenLease = 4
  Latency = 2
  Horizon = 26
  MaxOutage = 2
INVARIANTS
  ResolvedMeansAccepted
  DlqBudgetKept
  HookKept
  SubmittedIsSigned
  PoolCredentialsValid
PROPERTIES
  EveryLetterEnds
  AckedIsDelivered
  RotationFollowed
CHECK_DEADLOCK FALSE
