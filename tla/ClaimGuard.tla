----------------------------- MODULE ClaimGuard -----------------------------
(***************************************************************************)
(* What walletwatch/idempotency.go asks of an IdempotencyGuard: a block    *)
(* has at most one live claim at a time, a claim lapses by itself, and a   *)
(* block marked complete is never claimed again.                           *)
(***************************************************************************)
EXTENDS Integers

CONSTANTS Blocks, Times

VARIABLES
  now,      \* the guard's clock
  lease,    \* per block: the time its last claim lapses, 0 before the first
  complete  \* blocks marked complete

vars == <<now, lease, complete>>

Init == now \in Times /\ lease = [b \in Blocks |-> 0] /\ complete = {}

Tick == now' = now + 1 /\ UNCHANGED <<lease, complete>>

Claim(b) ==
  /\ b \notin complete /\ lease[b] <= now
  /\ \E t \in Times : lease' = [lease EXCEPT ![b] = t]
  /\ UNCHANGED <<now, complete>>

MarkComplete(b) == complete' = complete \cup {b} /\ UNCHANGED <<now, lease>>

Next == Tick \/ \E b \in Blocks : Claim(b) \/ MarkComplete(b)

Spec == Init /\ [][Next]_vars
=============================================================================
