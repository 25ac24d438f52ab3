\* Heights of one hexadecimal digit, a node that lags by one block and fails
\* at will, a channel of two, two restarts; either kind of chain.
SPECIFICATION FairSpec
CONSTANTS
  Chains <- BothChains
  MaxRestarts = 2
  FirstHeight = 1
  FirstTip = 2
  EventsCap = 2
  MaxTip = 5
  MaxLag = 1
INVARIANTS TypeOK NeverAhead
PROPERTIES ImplementsSource KeepsUp ClosesIfRead
CHECK_DEADLOCK FALSE
