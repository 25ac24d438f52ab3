\* Solana: several transfers under one signature.
SPECIFICATION Spec
CONSTANTS
  alice = alice
  bob = bob
  nobody = nobody
  Wallets = {alice, bob}
  NoOne = nobody
  Formats = {"solana"}
  MaxTransactions = 2
  MaxInstructions = 2
INVARIANT FullTransactions
CHECK_DEADLOCK FALSE
