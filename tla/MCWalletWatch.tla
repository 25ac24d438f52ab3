---------------------------- MODULE MCWalletWatch ----------------------------
(* Instances of WalletWatch for TLC. *)
EXTENDS WalletWatch, TLC

CONSTANTS i1, i2, b1, w1, w2

\* The clock of the second instance is one behind the database's.
SlowSecond == [i \in Instances |-> IF i = i2 THEN -1 ELSE 0]

\* The first instance may come back to the block.
TwoAndOne == [i \in Instances |-> IF i = i1 THEN 2 ELSE 1]

\* Two spellings of one network.
ToUpper == [name \in {"ethereum", "ETHEREUM"} |-> "ETHEREUM"]

\* With Redis users have to spell the name as the pipeline does ...
CarefulUsers ==
  [engine \in Backends |->
     IF engine = "postgresql" THEN {"ethereum", "ETHEREUM"} ELSE {"ETHEREUM"}]

\* ... which is not the way the documentation spells it.
DocumentedUsers == [engine \in Backends |-> {"ethereum"}]

AnyWallet == Permutations(Wallets)
=============================================================================
