\* Every block of two transactions, of two instructions each on Solana,
\* between two wallets; any of them may be registered.
SPECIFICATION Spec
CONSTANTS
  alice = alice
  bob = bob
  nobody = nobody
  Wallets = {alice, bob}
  NoOne = nobody
  Formats = {"ethereum", "solana"}
  MaxTransactions = 2
  MaxInstructions = 2
INVARIANTS TypeOK OncePerHash ExactOnEthereum
CHECK_DEADLOCK FALSE
