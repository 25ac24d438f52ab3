---------------------------- MODULE MCApplication ----------------------------
(* Configurations of Application for TLC: every choice of where each role   *)
(* gets its connection from, over none, one or two shared engines.          *)
EXTENDS Application

CONSTANTS redis, other

Shared == {<<>>,
           <<[kind |-> "storage", name |-> redis]>>,
           <<[kind |-> "storage", name |-> other], [kind |-> "messaging", name |-> redis]>>}
Pickers == {None, [how |-> "inline", name |-> redis]} \cup [how : {"shared"}, name : Names]
Picks == {p \in [RoleNames -> Pickers] : p["registry"] = p["wallets"]}
SomeConfigurations == {c \in [shared : Shared, picks : Picks] : Validated(c)}
=============================================================================
