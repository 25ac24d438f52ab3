------------------------------ MODULE MCPoller ------------------------------
(* Instances of Poller for TLC. *)
EXTENDS Poller

\* An Ethereum chain, and a Solana one whose slot 2 has no block.
Ethereum == [p \in 1..MaxTip |-> p]
Solana   == [p \in (1..MaxTip) \ {2} |-> IF p < 2 THEN p ELSE p - 1]
BothChains    == {Ethereum, Solana}
EthereumAlone == {Ethereum}
=============================================================================
