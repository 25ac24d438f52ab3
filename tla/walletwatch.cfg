\* Two instances, one of them with a slow clock, that see one block three times
\* between them, with either guard or none; two wallets, one command of a
\* user.
SPECIFICATION Spec
CONSTANTS
  i1 = i1
  i2 = i2
  b1 = b1
  w1 = w1
  w2 = w2
  Instances = {i1, i2}
  Blocks = {b1}
  Wallets = {w1, w2}
  Backends = {"redis", "postgresql", "nop"}
  Upper <- ToUpper
  Spellings <- CarefulUsers
  PipelineName = "ETHEREUM"
  MaxCommands = 1
  TTL = 2
  Skew <- SlowSecond
  MaxSkew = 1
  MaxTime = 4
  MaxTries <- TwoAndOne
SYMMETRY AnyWallet
INVARIANTS TypeOK AnswersHold OverlapNeedsExpiry NotifiedOncePerClaim
  StoppedIsNotNotified
PROPERTIES ImplementsGuard CompleteMeansNotified
CHECK_DEADLOCK FALSE
