\* One network, a crash and a restart: what the second run resumes behind.
SPECIFICATION Spec
CONSTANTS
  eth = eth
  sol = sol
  Networks = {eth}
  SolanaNetworks = {}
  Skipped <- NoSkips
  RetryConfigured = FALSE
  Attempts = 1
  Storage = "redis"
  FaultySaves = FALSE
  HollowBlocks = FALSE
  EventsCap = 1
  BlocksCap = 1
  RetryCap = 1
  FailureCap = 1
  FirstHeight = 1
  MaxHeight = 2
  MaxTipErrors = 0
  MaxRuns = 2
INVARIANT NoDataLoss
CHECK_DEADLOCK FALSE
