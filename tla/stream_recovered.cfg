\* One network with a retry: what the notifier is told after a retry succeeds.
SPECIFICATION Spec
CONSTANTS
  eth = eth
  sol = sol
  Networks = {eth}
  SolanaNetworks = {}
  Skipped <- NoSkips
  RetryConfigured = TRUE
  Attempts = 1
  Storage = "redis"
  FaultySaves = FALSE
  HollowBlocks = FALSE
  EventsCap = 1
  BlocksCap = 1
  RetryCap = 1
  FailureCap = 1
  FirstHeight = 1
  MaxHeight = 2
  MaxTipErrors = 0
  MaxRuns = 1
INVARIANT RecoveredIsNotReported
CHECK_DEADLOCK FALSE
