\* One instance with Redis, and a user who names the network the way the
\* documentation does.
SPECIFICATION Spec
CONSTANTS
  i1 = i1
  i2 = i2
  b1 = b1
  w1 = w1
  w2 = w2
  Instances = {i1}
  Blocks = {b1}
  Wallets = {w1, w2}
  Backends = {"redis"}
  Upper <- ToUpper
  Spellings <- DocumentedUsers
  PipelineName = "ETHEREUM"
  MaxCommands = 1
  TTL = 2
  Skew <- SlowSecond
  MaxSkew = 1
  MaxTime = 4
  MaxTries <- TwoAndOne
PROPERTY CompleteMeansNotified
CHECK_DEADLOCK FALSE
