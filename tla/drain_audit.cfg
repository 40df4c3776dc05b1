SPECIFICATION LoopsSpec
CONSTANTS
  Region = {"r", "q"}
  SyncRun = {1, 2}
  MaxIncrements = 2
  MaxFailures = 1
  Settlement = {"a", "b"}
  BatchSize = 2
  MaxEvents = 3
  MaxCrash = 1
  MaxErrors = 1
  Dialogues <- Sessions
  MaxBatch = 3
  CallCap = 2
  SessionCap = 3
  Prices = {2, 3}
  MaxPipe = 1
  Dep = {"rpc", "db", "catalog"}
  Fatal = {"rpc", "db"}
  Signals = {1, 2}
  MaxRequests = 1
  MaxOutages = 1
  l1 = l1
  l2 = l2
  w1 = w1
  w2 = w2
  p1 = p1
  Nobody = Nobody
  Letter = {l1, l2}
  Worker = {w1, w2}
  Replay = {}
  Pod = {p1}
  Host <- OneHost
  MaxDlqAttempts = 1
  Threshold = 1
  MaxFaults = 0
INVARIANTS
  AuditFlushed
CHECK_DEADLOCK FALSE
