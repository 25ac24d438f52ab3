----------------------------- MODULE EventSource -----------------------------
(***************************************************************************)
(* What chainstream relies on in a subscription (the Blockchain interface  *)
(* of chainstream/blockchain.go): one event per height, heights one after  *)
(* the other from the first, none skipped and none twice; an error that is *)
(* not about a block carries the height the subscription will go on from.  *)
(* ChainStream's Subscription(n) is one of these per network.              *)
(***************************************************************************)
EXTENDS Naturals, Sequences

CONSTANT Cap   \* capacity of the channel

VARIABLES
  next,     \* height of the next event about a block
  buffer,   \* events in the channel: [height, kind]
  isOpen    \* FALSE once the channel is closed

vars == <<next, buffer, isOpen>>

Init == next \in Nat /\ buffer = <<>> /\ isOpen = TRUE

Put(kind) ==
  /\ isOpen /\ Len(buffer) < Cap
  /\ buffer' = Append(buffer, [height |-> next, kind |-> kind])

EmitBlock ==
  /\ \E kind \in {"block", "fetchError"} : Put(kind)
  /\ next' = next + 1 /\ UNCHANGED isOpen

EmitTipError == Put("tipError") /\ UNCHANGED <<next, isOpen>>

Take == buffer # <<>> /\ buffer' = Tail(buffer) /\ UNCHANGED <<next, isOpen>>

Close == isOpen /\ isOpen' = FALSE /\ UNCHANGED <<next, buffer>>

\* A subscription of the next run.  It begins no higher than with the first
\* event that was not taken.
Resubscribe ==
  /\ buffer' = <<>> /\ isOpen' = TRUE
  /\ next' \in Nat /\ next' <= next
  /\ \A i \in DOMAIN buffer : next' <= buffer[i].height

Next == EmitBlock \/ EmitTipError \/ Take \/ Close \/ Resubscribe

Spec == Init /\ [][Next]_vars
=============================================================================
