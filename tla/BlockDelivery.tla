---------------------------- MODULE BlockDelivery ----------------------------
(***************************************************************************)
(* What chainstream promises its consumer, with no goroutine or channel in *)
(* it: per network the blocks announced by the client come out in the      *)
(* order and form in which they went in, a height whose event failed may   *)
(* come out later as a recovered block, only such a height is ever         *)
(* reported as a failure, and nothing comes out that did not go in.  A     *)
(* stop may cut off the end of what is under way, never its middle.        *)
(*                                                                         *)
(* The heights of a network rise strictly from one announcement to the     *)
(* next, so the set of those under way also says in what order they are.   *)
(***************************************************************************)
EXTENDS Naturals

CONSTANTS Networks, Heights

VARIABLES
  stream,    \* per network: heights announced and not yet delivered
  got,       \* per network: heights delivered from the stream
  failed,    \* <<network, height>> of the events that carried an error
  recovered, \* those of them delivered as recovered blocks
  reported   \* those of them handed to the failure notifier

vars == <<stream, got, failed, recovered, reported>>

Init ==
  /\ stream = [n \in Networks |-> {}] /\ got = [n \in Networks |-> {}]
  /\ failed = {} /\ recovered = {} /\ reported = {}

\* Announced heights rise.
Announce(n) == \E h \in Heights :
  /\ \A below \in got[n] \cup stream[n] : below < h
  /\ stream' = [stream EXCEPT ![n] = @ \cup {h}]
  /\ UNCHANGED <<got, failed, recovered, reported>>

Fail(n) == \E h \in Heights :
  /\ failed' = failed \cup {<<n, h>>}
  /\ UNCHANGED <<stream, got, recovered, reported>>

\* The first of those under way comes out, above all that came out before it.
Deliver(n) == \E h \in stream[n] :
  /\ \A later \in stream[n] \ {h} : h < later
  /\ \A earlier \in got[n] : earlier < h
  /\ got' = [got EXCEPT ![n] = @ \cup {h}]
  /\ stream' = [stream EXCEPT ![n] = @ \ {h}]
  /\ UNCHANGED <<failed, recovered, reported>>

Recover == \E s \in failed :
  /\ recovered' = recovered \cup {s}
  /\ UNCHANGED <<stream, got, failed, reported>>

Report == \E s \in failed :
  /\ reported' = reported \cup {s}
  /\ UNCHANGED <<stream, got, failed, recovered>>

\* A stage of the pipeline is gone, with everything that had not passed it.
Cut ==
  /\ DOMAIN stream' = Networks
  /\ \A n \in Networks :
       /\ stream'[n] \subseteq stream[n]
       /\ \A kept \in stream'[n], lost \in stream[n] \ stream'[n] : kept < lost
  /\ UNCHANGED <<got, failed, recovered, reported>>

\* A new run begins.
Begin ==
  /\ stream' = [n \in Networks |-> {}] /\ got' = [n \in Networks |-> {}]
  /\ failed' = {} /\ recovered' = {} /\ reported' = {}

Next ==
  \/ \E n \in Networks : Announce(n) \/ Fail(n) \/ Deliver(n)
  \/ Recover \/ Report \/ Cut \/ Begin

Spec == Init /\ [][Next]_vars
=============================================================================
