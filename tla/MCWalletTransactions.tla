------------------------- MODULE MCWalletTransactions -------------------------
(* WalletTransactions over two wallets and the empty recipient.             *)
EXTENDS WalletTransactions

CONSTANTS alice, bob, nobody
=============================================================================
