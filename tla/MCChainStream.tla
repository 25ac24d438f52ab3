---------------------------- MODULE MCChainStream ----------------------------
(* Instances of ChainStream for TLC. *)
EXTENDS ChainStream

CONSTANTS eth, sol

\* Every slot has its block, or the first of a Solana chain has none: from the
\* second on a slot is above the height that its block states.
NoSkips        == [n \in Networks |-> {}]
FirstIsSkipped == [n \in Networks |-> IF n = sol THEN {1} ELSE {}]
=============================================================================
