\* The same loop where the heights go from one hexadecimal digit to two.
SPECIFICATION Spec
CONSTANTS
  Chains <- EthereumAlone
  MaxRestarts = 0
  FirstHeight = 14
  FirstTip = 14
  EventsCap = 2
  MaxTip = 17
  MaxLag = 0
PROPERTY SkipsOnlyWhenNothingIsNew
CHECK_DEADLOCK FALSE
