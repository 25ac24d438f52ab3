\* Every mixture of shared, inline and missing dependencies; two blocks and two
\* signals at any time.
SPECIFICATION FairSpec
CONSTANTS
  redis = redis
  other = other
  Names = {redis, other}
  Configurations <- SomeConfigurations
  BlocksCap = 1
  MaxBlocks = 2
  MaxSignals = 2
INVARIANTS TypeOK AllReleased ClosedOnlyOnTheWayOut
PROPERTIES SignalsSparePipeline SignalEndsProcess
CHECK_DEADLOCK FALSE
