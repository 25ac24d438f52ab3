\* Two networks that share a retry loop which never gives up, a storage that
\* keeps the highest height and always saves, one run of the service under the
\* scheduler's fairness, which may fail to start, be cancelled or be closed.
SPECIFICATION FairSpec
CONSTANTS
  eth = eth
  sol = sol
  Networks = {eth, sol}
  SolanaNetworks = {sol}
  Skipped <- FirstIsSkipped
  RetryConfigured = TRUE
  Attempts = 0
  Storage = "postgresql"
  FaultySaves = FALSE
  HollowBlocks = TRUE
  EventsCap = 1
  BlocksCap = 1
  RetryCap = 1
  FailureCap = 1
  FirstHeight = 2
  MaxHeight = 2
  MaxTipErrors = 0
  MaxRuns = 1
INVARIANT DeliveredIsCheckpointed
PROPERTIES PanicsOnlyInShutdown HealthyNetworkFlows EventuallyResolved ShutdownCompletes
CHECK_DEADLOCK FALSE
