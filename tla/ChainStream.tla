----------------------------- MODULE ChainStream -----------------------------
(***************************************************************************)
(* internal/chainstream: one service instance that turns the events of the *)
(* subscriptions of its networks into one stream of observed blocks.       *)
(*                                                                         *)
(* Per network a client (external here, refined by module Poller) fills    *)
(* eventsCh and a goroutine runs dispatchSubscriptionEvents.  All networks *)
(* share preCheckpointCh, read by checkpointAndForward, which saves a      *)
(* checkpoint and feeds finalOut; retryFailureCh, read by                  *)
(* retryFailedBlockFetches; and dispatchFailureCh, read by                 *)
(* handleDispatchFailures.  Start and Close build and tear this down under *)
(* the service mutex.  The process may be killed at any moment; only the   *)
(* checkpoint storage survives it.                                         *)
(***************************************************************************)
EXTENDS Chflow, Integers, FiniteSets

CONSTANTS
  Networks,        \* names of the registered networks
  SolanaNetworks,  \* those served by the Solana client, the others by Ethereum's
  Skipped,         \* per network: the slots in which its chain has no block
  RetryConfigured, \* whether WithRetry was given (s.retry # nil)
  Attempts,        \* retry.WithAttempts; 0 retries without end
  Storage,         \* "redis" | "postgresql" | "nop"
  FaultySaves,     \* whether SaveCheckpoint may fail
  HollowBlocks,    \* whether a node may answer null for a block it does not have
  EventsCap,       \* capacity of a subscription channel
  BlocksCap,       \* observedBlockChannelBufferSize
  RetryCap,        \* retryFailureChannelBufferSize
  FailureCap,      \* dispatchFailureChannelBufferSize
  FirstHeight,     \* bound: where the first subscription without a checkpoint begins
  MaxHeight,       \* bound: the clients emit no block above it
  MaxTipErrors,    \* bound: failed polls of the latest height, per network
  MaxRuns          \* bound: calls of Start, over all lives of the process

ASSUME NetworksAssumption == IsFiniteSet(Networks) /\ Networks # {}
ASSUME ConfigAssumption ==
  /\ RetryConfigured \in BOOLEAN
  /\ FaultySaves \in BOOLEAN
  /\ HollowBlocks \in BOOLEAN
  /\ Attempts \in Nat
  /\ Storage \in {"redis", "postgresql", "nop"}
ASSUME CapAssumption ==
  /\ EventsCap \in Nat \ {0} /\ BlocksCap \in Nat \ {0}
  /\ RetryCap \in Nat \ {0}  /\ FailureCap \in Nat \ {0}
ASSUME BoundAssumption ==
  /\ FirstHeight \in Nat \ {0} /\ MaxHeight \in Nat \ {0}
  /\ MaxTipErrors \in Nat /\ MaxRuns \in Nat \ {0}

\* The heights a client can be asked for.  For Solana's they are slots.
Heights == Nat \ {0}

ASSUME ChainAssumption ==
  /\ SolanaNetworks \subseteq Networks
  /\ Skipped \in [Networks -> SUBSET Heights]
  /\ \A n \in Networks \ SolanaNetworks : Skipped[n] = {}

\* The height that the block at height p of network n states of itself: on
\* Solana it counts blocks, not slots.
HeightAt(n, p) == Cardinality({q \in 1..p : q \notin Skipped[n]})

\* Block.Height of what a client makes of an answer for height p.  A null
\* answer gives Ethereum's client a block with the empty string for a height;
\* Solana's puts 0x0 there.
Empty == -1
Stated(n, p, hollow) ==
  IF ~hollow THEN HeightAt(n, p) ELSE IF n \in SolanaNetworks THEN 0 ELSE Empty

\* Whether the answer for height p of n may be a null one, if there is an
\* answer at all: a skipped slot has no other.
Answers(n, p) == (IF p \in Skipped[n] THEN {} ELSE {FALSE})
                   \cup (IF HollowBlocks THEN {TRUE} ELSE {})

\* A BlockchainEvent of a subscription.  "error": event.Err # nil.  "hollow":
\* the node answered null, which decodes without error to the zero block.
Event == [network : Networks, height : Heights, kind : {"block", "hollow", "error"}]

\* An ObservedBlock.  states is its Block.Height.  height, the one the client
\* was asked for, is history, and so is refetched: the block came from the
\* retry loop.
ObservedBlock ==
  {b \in [network : Networks, height : Heights, states : Nat \cup {Empty}, refetched : BOOLEAN] :
     \E hollow \in BOOLEAN : b.states = Stated(b.network, b.height, hollow)}

\* The block of a null answer: no block of a chain above its first states 0.
IsHollow(b) == b.states <= 0

\* A BlockDispatchFailure.  retried says what its Errors hold beside the
\* original error: nothing yet, the errors of a retry that gave up, or the
\* empty slice of a retry that succeeded.
DispatchFailure ==
  [network : Networks, height : Heights, retried : {"not", "gaveUp", "succeeded"}]

\* What the histories remember of an event or of a block.
Slot == [network : Networks, height : Heights]
SlotOf(x) == [network |-> x.network, height |-> x.height]

VARIABLES
  phase,             \* what the holder of s.mu is doing
  toLaunch,          \* networks Start has not subscribed to yet
  isStarted,         \* s.isStarted
  closeFunc,         \* s.closeFunc # nil
  cancelled,         \* no context is live: the current run's is done, or none began
  closed,            \* the channels of the current run are closed
  panic,             \* the message of the panic that stopped the process, or "none"
  nextHeight,        \* per network: the height its client emits next, 0 before Subscribe
  tipErrors,         \* per network: failed polls of the latest height so far
  eventsCh, dispatcher,
  preCheckpointCh, checkpointer, finalOut,
  retryFailureCh, retrier,
  dispatchFailureCh, handler,
  checkpoint,        \* persistent: stated height per network, Empty or None
  runs,              \* calls of Start so far
  head,              \* history: highest height a client has emitted, per network
  emitted,           \* history: events emitted since the last Start
  delivered,         \* history: blocks the consumer received since the last Start
  notified,          \* history: failures handed to the notifier since the last Start
  orphans            \* history: slots of earlier runs that came to nothing

lifecycle == <<phase, toLaunch, isStarted, closeFunc, cancelled, closed, panic>>
source    == <<nextHeight, tipErrors, head, emitted>>
channels  == <<eventsCh, preCheckpointCh, finalOut, retryFailureCh, dispatchFailureCh>>
workers   == <<dispatcher, checkpointer, retrier, handler>>
outcome   == <<delivered, notified, orphans>>
storage   == <<checkpoint, runs>>
vars == <<lifecycle, source, channels, workers, outcome, storage>>

-----------------------------------------------------------------------------
\* No checkpoint: LoadLatestCheckpoint returns ErrNoCheckpointFound.  For the
\* checkpoint Empty, which only Redis can hold, it returns another error.
None == -2

(* Goroutine states.  Off: not running.  Idle: at its chflow.Receive.      *)

Off  == [at |-> "off"]
Idle == [at |-> "receive"]

Dispatchers   == {Off, Idle} \cup [at : {"send"}, event : Event]
Checkpointers == {Off, Idle} \cup [at : {"save", "forward"}, block : ObservedBlock]
Retriers      == {Off, Idle}
  \cup [at : {"fetch", "recover", "recoverHollow", "report"}, failure : DispatchFailure, attempt : Nat]
Handlers      == {Off, Idle} \cup [at : {"notify"}, failure : DispatchFailure]

Running == panic = "none"

\* The process is gone, and with it all it held in memory.
ProcessEnds(message) ==
  /\ panic' = message
  /\ phase' = "free" /\ toLaunch' = {} /\ isStarted' = FALSE /\ closeFunc' = FALSE
  /\ cancelled' = TRUE /\ closed' = FALSE
  /\ eventsCh' = [n \in Networks |-> <<>>]
  /\ preCheckpointCh' = <<>> /\ finalOut' = <<>>
  /\ retryFailureCh' = <<>> /\ dispatchFailureCh' = <<>>
  /\ dispatcher' = [n \in Networks |-> Off]
  /\ checkpointer' = Off /\ retrier' = Off /\ handler' = Off
  /\ nextHeight' = [n \in Networks |-> 0]
  /\ UNCHANGED <<tipErrors, head, emitted, outcome, storage>>

\* Bound on the model, not in the code: Start is called again only when every
\* goroutine of the previous run has returned.
Quiet ==
  /\ \A n \in Networks : dispatcher[n] = Off
  /\ checkpointer = Off /\ retrier = Off /\ handler = Off

Elements(seq) == {seq[i] : i \in DOMAIN seq}

\* The slots that reached the consumer or the notifier in this run.
Resolved ==
  {SlotOf(b) : b \in UNION {Elements(delivered[n]) : n \in Networks}}
    \cup {SlotOf(f) : f \in notified}

\* The slots of this run that came to nothing so far.
Pending == {SlotOf(e) : e \in emitted} \ Resolved

-----------------------------------------------------------------------------
(* Lifecycle: Start and Close hold s.mu from their first step to their last. *)

\* Start up to launchAllNetworkSubscriptions.
StartBegin ==
  /\ Running /\ phase = "free" /\ ~isStarted
  /\ Quiet /\ runs < MaxRuns
  /\ phase' = "launching" /\ toLaunch' = Networks
  /\ closeFunc' = TRUE /\ cancelled' = FALSE /\ closed' = FALSE
  /\ eventsCh' = [n \in Networks |-> <<>>]
  /\ preCheckpointCh' = <<>> /\ finalOut' = <<>>
  /\ retryFailureCh' = <<>> /\ dispatchFailureCh' = <<>>
  /\ handler' = Idle /\ checkpointer' = Idle
  /\ retrier' = IF RetryConfigured THEN Idle ELSE Off
  /\ nextHeight' = [n \in Networks |-> 0]
  /\ runs' = runs + 1
  /\ orphans' = orphans \cup Pending
  /\ emitted' = {} /\ notified' = {}
  /\ delivered' = [n \in Networks |-> <<>>]
  /\ UNCHANGED <<isStarted, panic, dispatcher, tipErrors, head, checkpoint>>

\* One turn of the loop of launchAllNetworkSubscriptions that succeeds: the
\* client is asked to go on from one above the checkpoint (on Solana that takes
\* the height a block stated for a slot); without one it begins at whatever the
\* chain has come to.
LaunchNetwork(n) ==
  /\ phase = "launching" /\ n \in toLaunch
  /\ \E h \in 1..(MaxHeight + 1) :
       /\ checkpoint[n] # Empty
       /\ IF checkpoint[n] # None THEN h = checkpoint[n] + 1
          ELSE IF runs = 1 THEN h = FirstHeight ELSE h >= head[n] /\ h >= FirstHeight
       /\ nextHeight' = [nextHeight EXCEPT ![n] = h]
       /\ orphans' = {s \in orphans : s.network # n \/ s.height < h}
  /\ toLaunch' = toLaunch \ {n}
  /\ dispatcher' = [dispatcher EXCEPT ![n] = Idle]
  /\ UNCHANGED <<phase, isStarted, closeFunc, cancelled, closed, panic, tipErrors, head,
                 emitted, channels, checkpointer, retrier, handler, delivered, notified,
                 storage>>

\* A turn that fails: LoadLatestCheckpoint or Subscribe returns an error, and
\* Start runs closeFunc, whose first step is cancel().
LaunchFails ==
  /\ phase = "launching" /\ toLaunch # {}
  /\ phase' = "failing" /\ cancelled' = TRUE
  /\ UNCHANGED <<toLaunch, isStarted, closeFunc, closed, panic, source, channels, workers,
                 outcome, storage>>

\* The rest of closeFunc on that path.  s.closeFunc keeps its value.
StartFails ==
  /\ phase = "failing"
  /\ closed' = TRUE /\ phase' = "free"
  /\ UNCHANGED <<toLaunch, isStarted, closeFunc, cancelled, panic, source, channels, workers,
                 outcome, storage>>

StartReturns ==
  /\ phase = "launching" /\ toLaunch = {}
  /\ isStarted' = TRUE /\ phase' = "free"
  /\ UNCHANGED <<toLaunch, closeFunc, cancelled, closed, panic, source, channels, workers,
                 outcome, storage>>

\* Mutant: the channels are closed without a cancel() before it.
CloseWithoutCancel ==
  /\ phase = "free" /\ closeFunc
  /\ phase' = "closing"
  /\ UNCHANGED <<cancelled, toLaunch, isStarted, closeFunc, closed, panic, source, channels,
                 workers, outcome, storage>>

\* Close with a closeFunc: cancel() comes first ...
CloseBegin ==
  /\ phase = "free" /\ closeFunc
  /\ cancelled' = TRUE /\ phase' = "closing"
  /\ UNCHANGED <<toLaunch, isStarted, closeFunc, closed, panic, source, channels, workers,
                 outcome, storage>>

\* ... then the channels are closed; closing a closed channel panics.
CloseEnds ==
  /\ phase = "closing" /\ ~closed
  /\ closed' = TRUE /\ isStarted' = FALSE /\ closeFunc' = FALSE /\ phase' = "free"
  /\ UNCHANGED <<toLaunch, cancelled, panic, source, channels, workers, outcome, storage>>

CloseTwice ==
  /\ phase = "closing" /\ closed
  /\ ProcessEnds("closeOfClosedChannel")

\* The context given to Start is cancelled by its owner.
CallerCancels ==
  /\ ~cancelled
  /\ cancelled' = TRUE
  /\ UNCHANGED <<phase, toLaunch, isStarted, closeFunc, closed, panic, source, channels,
                 workers, outcome, storage>>

\* The process dies (killed, or ended by a panic) and comes up again with a
\* fresh service over the same checkpoint storage.
Crash ==
  /\ runs > 0 /\ runs < MaxRuns
  /\ ProcessEnds("none")

-----------------------------------------------------------------------------
(* The clients: what a subscription emits.  Nothing is emitted once the     *)
(* context is done: an event put later could as well have been put before.  *)

Emit(n, kind) ==
  /\ ~cancelled
  /\ nextHeight[n] \in 1..MaxHeight /\ Len(eventsCh[n]) < EventsCap
  /\ LET e == [network |-> n, height |-> nextHeight[n], kind |-> kind]
     IN /\ eventsCh' = [eventsCh EXCEPT ![n] = Append(@, e)]
        /\ emitted' = emitted \cup {e}
  /\ head' = [head EXCEPT ![n] = IF nextHeight[n] > @ THEN nextHeight[n] ELSE @]
  /\ UNCHANGED <<lifecycle, preCheckpointCh, finalOut, retryFailureCh, dispatchFailureCh,
                 workers, outcome, storage>>

\* The block at the next height was fetched, or its fetch failed: either way
\* the client moves on to the height above.
EmitBlock(n) ==
  /\ \/ Emit(n, "error")
     \/ \E hollow \in Answers(n, nextHeight[n]) : Emit(n, IF hollow THEN "hollow" ELSE "block")
  /\ nextHeight' = [nextHeight EXCEPT ![n] = @ + 1]
  /\ UNCHANGED tipErrors

\* The poll of the latest height failed: the client reports an error at the
\* next height and stays there.
EmitTipError(n) ==
  /\ tipErrors[n] < MaxTipErrors
  /\ Emit(n, "error")
  /\ tipErrors' = [tipErrors EXCEPT ![n] = @ + 1]
  /\ UNCHANGED nextHeight

-----------------------------------------------------------------------------
(* dispatchSubscriptionEvents, one goroutine per network.  It is the only   *)
(* reader of eventsCh[n], which is dropped when it returns.                 *)

DispatchReceive(n) ==
  /\ dispatcher[n] = Idle
  /\ \/ /\ Receives(eventsCh[n])
        /\ dispatcher' = [dispatcher EXCEPT ![n] = [at |-> "send", event |-> Head(eventsCh[n])]]
        /\ eventsCh' = [eventsCh EXCEPT ![n] = Tail(@)]
     \/ /\ ReceiveEnds(eventsCh[n], FALSE, cancelled)
        /\ dispatcher' = [dispatcher EXCEPT ![n] = Off]
        /\ eventsCh' = [eventsCh EXCEPT ![n] = <<>>]
  /\ UNCHANGED <<lifecycle, source, preCheckpointCh, finalOut, retryFailureCh,
                 dispatchFailureCh, checkpointer, retrier, handler, outcome, storage>>

FailureOf(e, retried) == [network |-> e.network, height |-> e.height, retried |-> retried]

\* Mutant: the height asked for counts as the height stated.
BlockAsAsked(e) == [network |-> e.network, height |-> e.height,
                    states |-> e.height, refetched |-> FALSE]

BlockOf(e) == [network |-> e.network, height |-> e.height,
               states |-> Stated(e.network, e.height, e.kind = "hollow"), refetched |-> FALSE]
Refetched(f, hollow) == [network |-> f.network, height |-> f.height,
                         states |-> Stated(f.network, f.height, hollow), refetched |-> TRUE]

\* errorSubmissionCh is retryFailureCh when a retry is configured and
\* dispatchFailureCh otherwise (chflow.FirstNonNil).
SubmitFailure(f) ==
  IF RetryConfigured
  THEN /\ Sends(retryFailureCh, RetryCap, closed)
       /\ retryFailureCh' = Append(retryFailureCh, f)
       /\ UNCHANGED dispatchFailureCh
  ELSE /\ Sends(dispatchFailureCh, FailureCap, closed)
       /\ dispatchFailureCh' = Append(dispatchFailureCh, f)
       /\ UNCHANGED retryFailureCh

\* Mutant: after the failure is submitted its zero block is sent as well.
DispatchSendBoth(n) ==
  /\ dispatcher[n].at = "send"
  /\ Sends(preCheckpointCh, BlocksCap, closed)
  /\ dispatcher' = [dispatcher EXCEPT ![n] = Idle]
  /\ preCheckpointCh' = Append(preCheckpointCh, BlockOf(dispatcher[n].event))
  /\ IF dispatcher[n].event.kind = "error"
     THEN SubmitFailure(FailureOf(dispatcher[n].event, "not"))
     ELSE UNCHANGED <<retryFailureCh, dispatchFailureCh>>
  /\ UNCHANGED <<lifecycle, source, eventsCh, finalOut, checkpointer, retrier, handler,
                 outcome, storage>>

\* Mutant: dispatchers and the retry loop exclude each other.
DispatchSendLocked(n) ==
  /\ dispatcher[n].at = "send" /\ retrier = Idle
  /\ dispatcher' = [dispatcher EXCEPT ![n] = Idle]
  /\ IF dispatcher[n].event.kind = "error"
     THEN /\ SubmitFailure(FailureOf(dispatcher[n].event, "not"))
          /\ UNCHANGED preCheckpointCh
     ELSE /\ Sends(preCheckpointCh, BlocksCap, closed)
          /\ preCheckpointCh' = Append(preCheckpointCh, BlockOf(dispatcher[n].event))
          /\ UNCHANGED <<retryFailureCh, dispatchFailureCh>>
  /\ UNCHANGED <<lifecycle, source, eventsCh, finalOut, checkpointer, retrier, handler,
                 outcome, storage>>

DispatchSend(n) ==
  /\ dispatcher[n].at = "send"
  /\ dispatcher' = [dispatcher EXCEPT ![n] = Idle]
  /\ \/ /\ dispatcher[n].event.kind # "error"
        /\ Sends(preCheckpointCh, BlocksCap, closed)
        /\ preCheckpointCh' = Append(preCheckpointCh, BlockOf(dispatcher[n].event))
        /\ UNCHANGED <<retryFailureCh, dispatchFailureCh>>
     \/ /\ dispatcher[n].event.kind = "error"
        /\ SubmitFailure(FailureOf(dispatcher[n].event, "not"))
        /\ UNCHANGED preCheckpointCh
  /\ UNCHANGED <<lifecycle, source, eventsCh, finalOut, checkpointer, retrier, handler,
                 outcome, storage>>

DispatchSendEnds(n) ==
  /\ dispatcher[n].at = "send" /\ SendEnds(cancelled)
  /\ dispatcher' = [dispatcher EXCEPT ![n] = Off]
  /\ eventsCh' = [eventsCh EXCEPT ![n] = <<>>]
  /\ UNCHANGED <<lifecycle, source, preCheckpointCh, finalOut, retryFailureCh,
                 dispatchFailureCh, checkpointer, retrier, handler, outcome, storage>>

-----------------------------------------------------------------------------
(* checkpointAndForward                                                     *)

CheckpointReceive ==
  /\ checkpointer = Idle
  /\ \/ /\ Receives(preCheckpointCh)
        /\ checkpointer' = [at |-> "save", block |-> Head(preCheckpointCh)]
        /\ preCheckpointCh' = Tail(preCheckpointCh)
     \/ /\ ReceiveEnds(preCheckpointCh, closed, cancelled)
        /\ checkpointer' = Off
        /\ UNCHANGED preCheckpointCh
  /\ UNCHANGED <<lifecycle, source, eventsCh, finalOut, retryFailureCh, dispatchFailureCh,
                 dispatcher, retrier, handler, outcome, storage>>

\* Mutant: the height to go on from is saved instead of the one observed.
SavedNext(old, b) == b.height + 1

\* Mutant: no checkpoint for a block of the retry loop.
SavedUnlessRefetched(old, b) == IF b.refetched THEN old ELSE b.states

\* What the storages keep: Redis whatever was written last, PostgreSQL the
\* highest height.
Saved(old, b) ==
  CASE Storage = "redis"      -> b.states
    [] Storage = "postgresql" -> IF b.states > old THEN b.states ELSE old
    [] Storage = "nop"        -> old

\* Mutant: the storage forgets the old checkpoint before it fails to write
\* the new one.
SaveForgets ==
  /\ checkpointer.at = "save"
  /\ Storage = "postgresql" => checkpointer.block.states # Empty
  /\ \E saved \in IF FaultySaves THEN BOOLEAN ELSE {TRUE} :
       LET b == checkpointer.block
       IN checkpoint' = [checkpoint EXCEPT ![b.network] = IF saved THEN Saved(@, b) ELSE None]
  /\ checkpointer' = [checkpointer EXCEPT !.at = "forward"]
  /\ UNCHANGED <<lifecycle, source, channels, dispatcher, retrier, handler, outcome, runs>>

\* An error of SaveCheckpoint is only logged.
SaveCheckpoint ==
  /\ checkpointer.at = "save"
  /\ Storage = "postgresql" => checkpointer.block.states # Empty
  /\ \E saved \in IF FaultySaves THEN BOOLEAN ELSE {TRUE} :
       LET b == checkpointer.block
       IN checkpoint' = IF saved THEN [checkpoint EXCEPT ![b.network] = Saved(@, b)]
                        ELSE checkpoint
  /\ checkpointer' = [checkpointer EXCEPT !.at = "forward"]
  /\ UNCHANGED <<lifecycle, source, channels, dispatcher, retrier, handler, outcome, runs>>

\* The PostgreSQL client converts the height with Hex.Int, which slices the
\* first two bytes off a string that has none.
SavePanics ==
  /\ checkpointer.at = "save"
  /\ Storage = "postgresql" /\ checkpointer.block.states = Empty
  /\ ProcessEnds("sliceBoundsOutOfRange")

Forward ==
  /\ checkpointer.at = "forward"
  /\ Sends(finalOut, BlocksCap, closed)
  /\ finalOut' = Append(finalOut, checkpointer.block)
  /\ checkpointer' = Idle
  /\ UNCHANGED <<lifecycle, source, eventsCh, preCheckpointCh, retryFailureCh,
                 dispatchFailureCh, dispatcher, retrier, handler, outcome, storage>>

ForwardEnds ==
  /\ checkpointer.at = "forward" /\ SendEnds(cancelled)
  /\ checkpointer' = Off
  /\ UNCHANGED <<lifecycle, source, channels, dispatcher, retrier, handler, outcome, storage>>

-----------------------------------------------------------------------------
(* retryFailedBlockFetches, with retry.Execute unrolled into its attempts   *)

RetryReceive ==
  /\ retrier = Idle
  /\ \/ /\ Receives(retryFailureCh) /\ ~cancelled
        /\ retryFailureCh' = Tail(retryFailureCh)
        /\ retrier' = [at |-> "fetch", failure |-> Head(retryFailureCh), attempt |-> 1]
     \/ /\ ReceiveEnds(retryFailureCh, closed, cancelled)
        /\ retrier' = Off
        /\ UNCHANGED retryFailureCh
  /\ UNCHANGED <<lifecycle, source, eventsCh, preCheckpointCh, finalOut, dispatchFailureCh,
                 dispatcher, checkpointer, handler, outcome, storage>>

FetchSucceeds ==
  /\ retrier.at = "fetch"
  /\ \E hollow \in Answers(retrier.failure.network, retrier.failure.height) :
       retrier' = [retrier EXCEPT !.at = IF hollow THEN "recoverHollow" ELSE "recover"]
  /\ UNCHANGED <<lifecycle, source, channels, dispatcher, checkpointer, handler, outcome,
                 storage>>

\* FetchBlockByHeight fails.  The last attempt gives up; an earlier one waits
\* for its delay and tries again, unless the context ends the wait.  Attempts
\* without a limit are counted modulo two: each of them is a step.
FetchFails ==
  /\ retrier.at = "fetch"
  /\ \/ /\ retrier.attempt # Attempts
        /\ retrier' = [retrier EXCEPT !.attempt = IF Attempts = 0 /\ @ = 2 THEN 1 ELSE @ + 1]
     \/ /\ Attempts # 0
        /\ retrier.attempt = Attempts \/ cancelled
        /\ retrier' = [retrier EXCEPT !.at = "report", !.failure.retried = "gaveUp"]
  /\ UNCHANGED <<lifecycle, source, channels, dispatcher, checkpointer, handler, outcome,
                 storage>>

\* Execute asserts that every error of retry.Do is a retry.Error.  A context
\* that is done before the first attempt, or while an unlimited retry waits,
\* yields the bare context error, and the assertion panics.
ExecutePanics ==
  /\ cancelled
  /\ \/ retrier = Idle /\ Receives(retryFailureCh)
     \/ retrier.at = "fetch" /\ Attempts = 0
  /\ ProcessEnds("interfaceConversion")

\* Mutant: a refetched block that finds the channel full is dropped.
RecoverOrDrop ==
  /\ retrier.at \in {"recover", "recoverHollow"}
  /\ preCheckpointCh' =
       IF Len(preCheckpointCh) < BlocksCap
       THEN Append(preCheckpointCh, Refetched(retrier.failure, retrier.at = "recoverHollow"))
       ELSE preCheckpointCh
  /\ retrier' = [retrier EXCEPT !.at = "report", !.failure.retried = "succeeded"]
  /\ UNCHANGED <<lifecycle, source, eventsCh, finalOut, retryFailureCh, dispatchFailureCh,
                 dispatcher, checkpointer, handler, outcome, storage>>

\* The refetched block goes to recoveredCh, which is preCheckpointCh; the
\* result of the Send is ignored.  Execute then returns an empty slice, which
\* is not nil: the failure is reported like one that persisted.
SendRecovered ==
  /\ retrier.at \in {"recover", "recoverHollow"}
  /\ \/ /\ Sends(preCheckpointCh, BlocksCap, closed)
        /\ preCheckpointCh' = Append(preCheckpointCh,
                                      Refetched(retrier.failure, retrier.at = "recoverHollow"))
     \/ /\ SendEnds(cancelled)
        /\ UNCHANGED preCheckpointCh
  /\ retrier' = [retrier EXCEPT !.at = "report", !.failure.retried = "succeeded"]
  /\ UNCHANGED <<lifecycle, source, eventsCh, finalOut, retryFailureCh, dispatchFailureCh,
                 dispatcher, checkpointer, handler, outcome, storage>>

ReportFailure ==
  /\ retrier.at = "report"
  /\ \/ /\ Sends(dispatchFailureCh, FailureCap, closed)
        /\ dispatchFailureCh' = Append(dispatchFailureCh, retrier.failure)
        /\ retrier' = Idle
     \/ /\ SendEnds(cancelled)
        /\ retrier' = Off
        /\ UNCHANGED dispatchFailureCh
  /\ UNCHANGED <<lifecycle, source, eventsCh, preCheckpointCh, finalOut, retryFailureCh,
                 dispatcher, checkpointer, handler, outcome, storage>>

\* A goroutine at a Send whose channel is closed may pick the send, and panic.
SendOnClosed ==
  /\ SendPanics(closed)
  /\ \/ \E n \in Networks : dispatcher[n].at = "send"
     \/ checkpointer.at = "forward"
     \/ retrier.at \in {"recover", "recoverHollow", "report"}
  /\ ProcessEnds("sendOnClosedChannel")

-----------------------------------------------------------------------------
(* handleDispatchFailures, and the consumer of the returned channel         *)

\* Mutant: a plain range over the channel, which only a close ends.
HandlerRange ==
  /\ handler = Idle
  /\ \/ /\ Receives(dispatchFailureCh)
        /\ handler' = [at |-> "notify", failure |-> Head(dispatchFailureCh)]
        /\ dispatchFailureCh' = Tail(dispatchFailureCh)
     \/ /\ closed /\ dispatchFailureCh = <<>>
        /\ handler' = Off
        /\ UNCHANGED dispatchFailureCh
  /\ UNCHANGED <<lifecycle, source, eventsCh, preCheckpointCh, finalOut, retryFailureCh,
                 dispatcher, checkpointer, retrier, outcome, storage>>

HandlerReceive ==
  /\ handler = Idle
  /\ \/ /\ Receives(dispatchFailureCh)
        /\ handler' = [at |-> "notify", failure |-> Head(dispatchFailureCh)]
        /\ dispatchFailureCh' = Tail(dispatchFailureCh)
     \/ /\ ReceiveEnds(dispatchFailureCh, closed, cancelled)
        /\ handler' = Off
        /\ UNCHANGED dispatchFailureCh
  /\ UNCHANGED <<lifecycle, source, eventsCh, preCheckpointCh, finalOut, retryFailureCh,
                 dispatcher, checkpointer, retrier, outcome, storage>>

\* NotifyDispatchFailure; an error it returns is only logged.
NotifyFailure ==
  /\ handler.at = "notify"
  /\ notified' = notified \cup {handler.failure}
  /\ handler' = Idle
  /\ UNCHANGED <<lifecycle, source, channels, dispatcher, checkpointer, retrier, delivered,
                 orphans, storage>>

\* blockproc reads the returned channel.
Consume ==
  /\ Receives(finalOut)
  /\ LET b == Head(finalOut)
     IN delivered' = [delivered EXCEPT ![b.network] = Append(@, b)]
  /\ finalOut' = Tail(finalOut)
  /\ UNCHANGED <<lifecycle, source, eventsCh, preCheckpointCh, retryFailureCh,
                 dispatchFailureCh, workers, notified, orphans, storage>>

-----------------------------------------------------------------------------
Init ==
  /\ phase = "free" /\ toLaunch = {} /\ isStarted = FALSE /\ closeFunc = FALSE
  /\ cancelled = TRUE /\ closed = FALSE /\ panic = "none"
  /\ nextHeight = [n \in Networks |-> 0] /\ tipErrors = [n \in Networks |-> 0]
  /\ head = [n \in Networks |-> 0] /\ emitted = {}
  /\ eventsCh = [n \in Networks |-> <<>>] /\ preCheckpointCh = <<>> /\ finalOut = <<>>
  /\ retryFailureCh = <<>> /\ dispatchFailureCh = <<>>
  /\ dispatcher = [n \in Networks |-> Off]
  /\ checkpointer = Off /\ retrier = Off /\ handler = Off
  /\ delivered = [n \in Networks |-> <<>>] /\ notified = {} /\ orphans = {}
  /\ checkpoint = [n \in Networks |-> None] /\ runs = 0

Subscription(n) == EmitBlock(n) \/ EmitTipError(n)
Dispatch(n)     == DispatchReceive(n) \/ DispatchSend(n) \/ DispatchSendEnds(n)
CheckpointAndForward ==
  CheckpointReceive \/ SaveCheckpoint \/ SavePanics \/ Forward \/ ForwardEnds
RetryFailedBlockFetches ==
  RetryReceive \/ FetchSucceeds \/ FetchFails \/ ExecutePanics \/ SendRecovered \/ ReportFailure
HandleDispatchFailures == HandlerReceive \/ NotifyFailure
Start == StartBegin \/ (\E n \in Networks : LaunchNetwork(n))
           \/ LaunchFails \/ StartFails \/ StartReturns
Close == CloseBegin \/ CloseEnds \/ CloseTwice

Next ==
  \/ Start \/ Close \/ CallerCancels \/ Crash
  \/ \E n \in Networks : Subscription(n) \/ Dispatch(n)
  \/ CheckpointAndForward \/ RetryFailedBlockFetches \/ SendOnClosed
  \/ HandleDispatchFailures \/ Consume

\* The Go scheduler runs every goroutine that can take a step, calls to
\* storages, clients and notifiers return, and the consumer keeps reading.
\* A lock holder finishes, and a retry without limit does not overlook for ever
\* that its context is done.  Nothing makes a fetch succeed, a client emit, a
\* caller call Start, Close or cancel, or a process crash.
Fairness ==
  /\ \A n \in Networks : WF_vars(Dispatch(n)) /\ WF_vars(LaunchNetwork(n))
  /\ WF_vars(CheckpointAndForward)
  /\ WF_vars(RetryFailedBlockFetches) /\ WF_vars(ExecutePanics)
  /\ WF_vars(HandleDispatchFailures) /\ WF_vars(Consume)
  /\ WF_vars(StartFails \/ StartReturns \/ CloseEnds \/ CloseTwice)

Spec     == Init /\ [][Next]_vars
FairSpec == Spec /\ Fairness

-----------------------------------------------------------------------------
(* Properties                                                               *)

LifecycleTypes ==
  /\ phase \in {"free", "launching", "failing", "closing"}
  /\ toLaunch \subseteq Networks
  /\ isStarted \in BOOLEAN /\ closeFunc \in BOOLEAN
  /\ cancelled \in BOOLEAN /\ closed \in BOOLEAN
  /\ panic \in {"none", "closeOfClosedChannel", "sendOnClosedChannel",
                "interfaceConversion", "sliceBoundsOutOfRange"}
SourceTypes ==
  /\ nextHeight \in [Networks -> Nat] /\ tipErrors \in [Networks -> Nat]
  /\ head \in [Networks -> Nat] /\ emitted \subseteq Event
ChannelTypes ==
  /\ eventsCh \in [Networks -> Seq(Event)]
  /\ preCheckpointCh \in Seq(ObservedBlock) /\ finalOut \in Seq(ObservedBlock)
  /\ retryFailureCh \in Seq(DispatchFailure) /\ dispatchFailureCh \in Seq(DispatchFailure)
WorkerTypes ==
  /\ dispatcher \in [Networks -> Dispatchers] /\ checkpointer \in Checkpointers
  /\ retrier \in Retriers /\ handler \in Handlers
OutcomeTypes ==
  /\ delivered \in [Networks -> Seq(ObservedBlock)]
  /\ notified \subseteq DispatchFailure /\ orphans \subseteq Slot
StorageTypes == checkpoint \in [Networks -> Nat \cup {Empty, None}] /\ runs \in Nat

\* Every variable has its type.
TypeOK ==
  /\ LifecycleTypes /\ SourceTypes /\ ChannelTypes
  /\ WorkerTypes /\ OutcomeTypes /\ StorageTypes

\* Where an observed block can be: the stages from the dispatcher's Send to
\* the consumer.
BlockIsSomewhere(b) ==
  \/ b \in Elements(preCheckpointCh)
  \/ checkpointer.at \in {"save", "forward"} /\ checkpointer.block = b
  \/ b \in Elements(finalOut)
  \/ b \in Elements(delivered[b.network])

\* Where a dispatch failure can be, from the dispatcher's Send to the notifier.
FailureIsSomewhere(f) ==
  \/ f \in Elements(retryFailureCh)
  \/ retrier \notin {Off, Idle} /\ retrier.failure = f
  \/ f \in Elements(dispatchFailureCh)
  \/ handler.at = "notify" /\ handler.failure = f
  \/ f \in notified

\* What the dispatcher makes of an event: a block, or a failure that a retry
\* turns into a block or gives up.
HandedOn(e) ==
  IF e.kind # "error" THEN BlockIsSomewhere(BlockOf(e))
  ELSE \/ \E retried \in {"not", "gaveUp"} : FailureIsSomewhere(FailureOf(e, retried))
       \/ \E hollow \in BOOLEAN : BlockIsSomewhere(Refetched(FailureOf(e, "not"), hollow))

EventIsSomewhere(e) ==
  \/ e \in Elements(eventsCh[e.network])
  \/ dispatcher[e.network].at = "send" /\ dispatcher[e.network].event = e
  \/ HandedOn(e)

\* While the context is live no stage drops an event: each one emitted is
\* buffered, held by a goroutine or handed out.  One that carried an error is
\* to be found as a failure, up to the notifier, until its retry succeeds and
\* as the recovered block, up to the consumer, from then on; a report of the
\* failure that comes after it does not stand in for the block.
NoSilentLoss ==
  ~cancelled => \A e \in emitted : EventIsSomewhere(e)

\* What NoSilentLoss and PanicsOnlyInShutdown rest on: nothing closes a channel
\* while the context is live, and Start begins a dispatcher only once.
StoppedIsCancelled == closed \/ phase \in {"failing", "closing"} => cancelled
LaunchedOnce == phase = "launching" => \A n \in toLaunch : dispatcher[n] = Off
DeliveryInv == TypeOK /\ StoppedIsCancelled /\ LaunchedOnce /\ NoSilentLoss

\* Of the blocks fetched without error a crash loses only what is on its way
\* out: one at or below its network's checkpoint that the consumer does not
\* have yet is held for or buffered in finalOut.  A block still ahead of
\* SaveCheckpoint is never covered by the checkpoint, in whatever order the
\* networks and the retry loop feed preCheckpointCh, and a restart streams it
\* again.
CrashWindow ==
  ~cancelled =>
    \A e \in emitted :
      /\ e.kind # "error" /\ e.height <= checkpoint[e.network]
      /\ SlotOf(e) \in Pending
      => \E b \in Elements(finalOut) \cup
                  (IF checkpointer.at = "forward" THEN {checkpointer.block} ELSE {}) :
           SlotOf(b) = SlotOf(e)

\* The checkpoint is at least the height stated by every block the consumer has
\* received.  On Ethereum, where that is the height the client is asked for, a
\* restart then streams none of them again; on Solana it streams again the
\* slots between the two.  Holds when saves succeed and the storage keeps the
\* highest height; OnlyRecoveryUncovers says what the others keep of it.
DeliveredIsCheckpointed ==
  \A n \in Networks : \A b \in Elements(delivered[n]) : b.states <= checkpoint[n]

\* Whatever the storage, and though saves may fail: a delivered block that the
\* checkpoint covers stays covered, through stops and crashes, until a block of
\* the retry loop or a hollow one is saved.  Those may move a Redis checkpoint
\* back; blocks straight from a subscription never do, late as their save may
\* come.
OnlyRecoveryUncovers ==
  [][\A n \in Networks : \A b \in Elements(delivered[n]) :
       b.states <= checkpoint[n] /\ checkpoint'[n] < b.states
         => checkpointer.block.refetched \/ IsHollow(checkpointer.block)]_vars

\* A panic is only ever met on the way down: as long as the context is live
\* no goroutine and no call of Start or Close panics, except on a hollow block
\* that PostgreSQL is to save.
PanicsOnlyInShutdown ==
  [][panic = "none" /\ panic' \notin {"none", "sliceBoundsOutOfRange"} => cancelled]_vars

\* The heights of network n among the blocks that come straight from its
\* subscription, and those among events that carry no error.
Straight(blocks, n) == {b.height : b \in {x \in blocks : x.network = n /\ ~x.refetched}}
Announced(events)   == {e.height : e \in {x \in events : x.kind # "error"}}

\* What the dispatcher of n and the checkpointer hold.
Dispatched(n) == IF dispatcher[n].at = "send" THEN {dispatcher[n].event} ELSE {}
Checkpointing == IF checkpointer.at \in {"save", "forward"} THEN {checkpointer.block} ELSE {}

\* The heights under way to the consumer, stage by stage.  What is before the
\* checkpointer is lost once that has returned.
BeforeSend(n) == Announced(Dispatched(n)) \cup Announced(Elements(eventsCh[n]))
BeforeForward(n) ==
  IF checkpointer = Off THEN {}
  ELSE Straight(Checkpointing, n) \cup Straight(Elements(preCheckpointCh), n) \cup BeforeSend(n)

FailedSlots    == {<<e.network, e.height>> : e \in {x \in emitted : x.kind = "error"}}
RecoveredSlots ==
  {<<b.network, b.height>> :
     b \in {x \in UNION {Elements(delivered[n]) : n \in Networks} : x.refetched}}
NotifiedSlots  == {<<f.network, f.height>> : f \in notified}

Delivery == INSTANCE BlockDelivery WITH
  Heights   <- 1..MaxHeight,
  stream    <- [n \in Networks |-> Straight(Elements(finalOut), n) \cup BeforeForward(n)],
  got       <- [n \in Networks |-> Straight(Elements(delivered[n]), n)],
  failed    <- FailedSlots,
  recovered <- RecoveredSlots,
  reported  <- NotifiedSlots

\* The pipeline of goroutines and channels implements the ordered delivery of
\* BlockDelivery, through stops, cancellations and crashes.
ImplementsDelivery == Delivery!Spec

ResolvedEvent(e) ==
  IF e.kind # "error"
  THEN BlockOf(e) \in Elements(delivered[e.network])
  ELSE \/ \E f \in notified : SlotOf(f) = SlotOf(e) /\ f.retried # "succeeded"
       \/ \E b \in Elements(delivered[e.network]) : SlotOf(b) = SlotOf(e) /\ b.refetched

\* Under the Go scheduler's fairness, and if a node that is asked again and
\* again answers at last, every event gets out unless the run is cancelled or
\* dies: a block reaches the consumer, and for an error either the block that
\* was fetched after it does or the notifier is told that there is none.
\* (An instance of one run brings no height below FirstHeight.)
EventuallyResolved ==
  SF_vars(FetchSucceeds) =>
    \A n \in Networks : \A h \in FirstHeight..MaxHeight :
      LET events == {e \in emitted : e.network = n /\ e.height = h}
      IN events # {} ~> cancelled \/ \A e \in events : ResolvedEvent(e)

\* README.md:353 of chainstream, error isolation: the blocks of a network
\* whose own events carry no error reach the consumer even while the retry
\* loop is stuck for ever on a failure of another network.
HealthyNetworkFlows ==
  \A n \in Networks : \A h \in FirstHeight..MaxHeight :
    LET e == [network |-> n, height |-> h, kind |-> "block"]
    IN e \in emitted ~> \/ ResolvedEvent(e) \/ cancelled
                       \/ \E x \in emitted : x.network = n /\ x.kind = "error"

\* Every goroutine of the service returns after a cancel: none is left blocked
\* on a channel that nobody serves any more.
ShutdownCompletes == cancelled ~> Quiet \/ ~cancelled

-----------------------------------------------------------------------------
(* What the documentation says and the code does not do                     *)

\* blockchain.go:60: on a successful retry the original error is dropped.
RecoveredIsNotReported == \A f \in notified : f.retried # "succeeded"

\* handlers/cli/pipeline.go:26 and chainstream/README.md:238: the pipeline
\* terminates gracefully, no goroutine panics when Close stops it.
ShutdownIsGraceful == panic # "sendOnClosedChannel"

\* chainstream/README.md:363-364: a restart resumes after the last processed
\* block and no block is lost: once the subscriptions are up, nothing that an
\* earlier run left unfinished is behind the checkpoint they resumed from.
NoDataLoss == isStarted => \A s \in orphans : checkpoint[s.network] = None

=============================================================================
