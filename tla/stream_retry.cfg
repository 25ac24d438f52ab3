\* One Solana network whose first slot has no block, so that each slot lies
\* above the height its block states; a retry configured; a checkpoint storage
\* that keeps the last height written; two runs of the service with crashes,
\* failed starts, cancellations and Close anywhere.
SPECIFICATION Spec
CONSTANTS
  eth = eth
  sol = sol
  Networks = {sol}
  SolanaNetworks = {sol}
  Skipped <- FirstIsSkipped
  RetryConfigured = TRUE
  Attempts = 1
  Storage = "redis"
  FaultySaves = TRUE
  HollowBlocks = FALSE
  EventsCap = 1
  BlocksCap = 1
  RetryCap = 1
  FailureCap = 1
  FirstHeight = 2
  MaxHeight = 3
  MaxTipErrors = 1
  MaxRuns = 2
INVARIANTS TypeOK NoSilentLoss CrashWindow
PROPERTIES  PanicsOnlyInShutdown ImplementsDelivery
CHECK_DEADLOCK FALSE
