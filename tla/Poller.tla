------------------------------- MODULE Poller -------------------------------
(***************************************************************************)
(* The goroutine behind Subscribe of the Ethereum and Solana clients       *)
(* (internal/infra/blockchain/*/block.go; the two loops are the same): it  *)
(* asks the node for the latest height and emits one event per height up   *)
(* to it.  The node's chain grows meanwhile, and the node may answer with  *)
(* a height a few blocks old (several nodes behind one endpoint).  The     *)
(* process may end, and another subscribes above the checkpoint.           *)
(***************************************************************************)
EXTENDS Hex, Sequences

CONSTANTS
  Chains,       \* chains to consider: the height each position's block states
  FirstHeight,  \* the height Subscribe is asked to begin at
  FirstTip,     \* the latest height of the chain at that time
  EventsCap,    \* eventsChannelBufferSize
  MaxTip,       \* bound: the chain grows no higher
  MaxLag,       \* bound: how far an answer may be behind the chain
  MaxRestarts   \* bound: restarts of the process

ASSUME HeightsAssumption ==
  /\ FirstHeight \in Nat \ {0} /\ FirstTip \in Nat /\ MaxTip \in Nat /\ MaxLag \in Nat
  /\ MaxLag <= FirstTip /\ FirstTip <= MaxTip /\ MaxRestarts \in Nat
\* An Ethereum block states its number, the position it is asked for by.  What
\* the Solana client asks for is a slot; not every slot has a block, and the
\* block's height is at most its slot.
ASSUME ChainsAssumption ==
  \A chain \in Chains :
    /\ DOMAIN chain \subseteq 1..MaxTip
    /\ \A p \in DOMAIN chain : chain[p] \in 1..p
ASSUME CapAssumption == EventsCap \in Nat \ {0}

VARIABLES
  heightOf,     \* the chain of this behaviour; never changes
  tip,          \* latest height of the chain
  at,           \* where the goroutine is
  fromHeight,   \* the loop's fromHeight
  latestHeight, \* answer of the current poll
  h,            \* height of the current turn of pollNewBlocks's loop
  pending,      \* kind of the event the goroutine is about to send
  eventsCh,     \* [height, kind]
  cancelled,    \* ctx is done
  reading,      \* the dispatcher still reads eventsCh
  passed,       \* positions of this run whose blocks may come to SaveCheckpoint
  checkpoint,   \* height in the checkpoint storage, 0 for none
  restarts      \* restarts so far

pipeline == <<heightOf, passed, checkpoint, restarts>>
vars == <<tip, at, fromHeight, latestHeight, h, pending, eventsCh, cancelled, reading, pipeline>>

Kinds  == {"block", "fetchError", "tipError"}
Events == [height : Nat, kind : Kinds]

-----------------------------------------------------------------------------
(* The goroutine                                                            *)

\* Mutant: the loop runs one height past the answer.
LastAbove == latestHeight + 1

\* The last height of the loop of pollNewBlocks.
LastHeight == latestHeight

\* getLatestBlockNumber fails.
PollFails ==
  /\ at = "poll"
  /\ at' = "sendTipError" /\ pending' = "tipError"
  /\ UNCHANGED <<tip, fromHeight, latestHeight, h, eventsCh, cancelled, reading, pipeline>>

\* Mutant: a poll waits until two blocks are new.
PollHesitates(latest) ==
  /\ at = "poll" /\ ~cancelled
  /\ latestHeight' = latest /\ h' = fromHeight
  /\ at' = IF StringGeq(Add(fromHeight, 1), latest) THEN "wait" ELSE "fetch"
  /\ UNCHANGED <<tip, fromHeight, pending, eventsCh, cancelled, reading, pipeline>>

\* It answers.  `fromHeight >= latestHeight` compares the strings.  Past it
\* comes the loop, whose own test compares the numbers.
PollAnswers(latest) ==
  /\ at = "poll" /\ ~cancelled
  /\ latestHeight' = latest /\ h' = fromHeight
  /\ IF StringGeq(fromHeight, latest)
     THEN at' = "wait" /\ UNCHANGED fromHeight
     ELSE IF fromHeight <= latest
     THEN at' = "fetch" /\ UNCHANGED fromHeight
     ELSE at' = "wait" /\ fromHeight' = Add(latest, 1)
  /\ UNCHANGED <<tip, pending, eventsCh, cancelled, reading, pipeline>>

Poll == \E lag \in 0..MaxLag : PollAnswers(tip - lag)

\* getBlockByNumber answers or fails; under a context that is done it fails, and
\* so it does for a slot without a block.
FetchBlock ==
  /\ at = "fetch"
  /\ pending' \in {"block", "fetchError"}
  /\ cancelled \/ h \notin DOMAIN heightOf => pending' = "fetchError"
  /\ at' = "send"
  /\ UNCHANGED <<tip, fromHeight, latestHeight, h, eventsCh, cancelled, reading, pipeline>>

\* Mutant: a send that gives up when the channel is full.
SendOrSkip ==
  /\ at = "send"
  /\ eventsCh' = IF Len(eventsCh) < EventsCap
                 THEN Append(eventsCh, [height |-> h, kind |-> pending]) ELSE eventsCh
  /\ IF h < LastHeight
     THEN h' = Add(h, 1) /\ at' = "fetch" /\ UNCHANGED fromHeight
     ELSE at' = "wait" /\ fromHeight' = Add(latestHeight, 1) /\ UNCHANGED h
  /\ UNCHANGED <<tip, latestHeight, pending, cancelled, reading, pipeline>>

\* Mutant: a channel without a bound.
SendUnbounded ==
  /\ at = "send"
  /\ eventsCh' = Append(eventsCh, [height |-> h, kind |-> pending])
  /\ IF h < LastHeight
     THEN h' = Add(h, 1) /\ at' = "fetch" /\ UNCHANGED fromHeight
     ELSE at' = "wait" /\ fromHeight' = Add(latestHeight, 1) /\ UNCHANGED h
  /\ UNCHANGED <<tip, latestHeight, pending, cancelled, reading, pipeline>>

\* eventsCh <- event: a plain send, which waits for room and for nothing else.
SendBlock ==
  /\ at = "send" /\ Len(eventsCh) < EventsCap
  /\ eventsCh' = Append(eventsCh, [height |-> h, kind |-> pending])
  /\ IF h < LastHeight
     THEN h' = Add(h, 1) /\ at' = "fetch" /\ UNCHANGED fromHeight
     ELSE at' = "wait" /\ fromHeight' = Add(latestHeight, 1) /\ UNCHANGED h
  /\ UNCHANGED <<tip, latestHeight, pending, cancelled, reading, pipeline>>

SendTipError ==
  /\ at = "sendTipError" /\ Len(eventsCh) < EventsCap
  /\ eventsCh' = Append(eventsCh, [height |-> fromHeight, kind |-> pending])
  /\ at' = "wait"
  /\ UNCHANGED <<tip, fromHeight, latestHeight, h, pending, cancelled, reading, pipeline>>

\* Mutant: only the timer ends a wait.
WaitForTimer ==
  /\ at = "wait"
  /\ at' = "poll"
  /\ UNCHANGED <<tip, fromHeight, latestHeight, h, pending, eventsCh, cancelled, reading, pipeline>>

\* The select of the Subscribe loop: the timer, or the end of the context,
\* after which the deferred close closes eventsCh.
Wait ==
  /\ at = "wait"
  /\ \/ at' = "poll"
     \/ cancelled /\ at' = "closed"
  /\ UNCHANGED <<tip, fromHeight, latestHeight, h, pending, eventsCh, cancelled, reading, pipeline>>

-----------------------------------------------------------------------------
(* Its surroundings                                                         *)

ChainGrows ==
  /\ tip < MaxTip /\ tip' = tip + 1
  /\ UNCHANGED <<at, fromHeight, latestHeight, h, pending, eventsCh, cancelled, reading, pipeline>>

\* dispatchSubscriptionEvents receives.  A block goes on to the checkpoint loop,
\* and so may one whose fetch failed, after a retry.
Take ==
  /\ reading /\ eventsCh # <<>>
  /\ eventsCh' = Tail(eventsCh)
  /\ LET event == Head(eventsCh)
     IN passed' = IF event.kind # "tipError" /\ event.height \in DOMAIN heightOf
                  THEN passed \cup {event.height} ELSE passed
  /\ UNCHANGED <<tip, at, fromHeight, latestHeight, h, pending, cancelled, reading, heightOf,
                 checkpoint, restarts>>

\* Mutant: the checkpoint is the block's height plus one.
SavesNext(p) ==
  /\ p \in passed /\ checkpoint' = heightOf[p] + 1
  /\ UNCHANGED <<tip, at, fromHeight, latestHeight, h, pending, eventsCh, cancelled, reading,
                 heightOf, passed, restarts>>

\* checkpointAndForward saves the height the block states, not the one it was
\* asked for by.  Recovered blocks come out of order; any block that is not
\* saved stands for a save that fails or does not raise the checkpoint.
Saves(p) ==
  /\ p \in passed /\ checkpoint' = heightOf[p]
  /\ UNCHANGED <<tip, at, fromHeight, latestHeight, h, pending, eventsCh, cancelled, reading,
                 heightOf, passed, restarts>>

\* The process ends, and the next one's launchAllNetworkSubscriptions subscribes
\* one above the checkpoint.  (Without one it begins at the latest height.)
Restart ==
  /\ checkpoint # 0 /\ restarts < MaxRestarts
  /\ restarts' = restarts + 1 /\ passed' = {}
  /\ fromHeight' = Add(checkpoint, 1) /\ at' = "poll"
  /\ eventsCh' = <<>> /\ cancelled' = FALSE /\ reading' = TRUE
  /\ UNCHANGED <<tip, latestHeight, h, pending, heightOf, checkpoint>>

Cancel ==
  /\ ~cancelled /\ cancelled' = TRUE
  /\ UNCHANGED <<tip, at, fromHeight, latestHeight, h, pending, eventsCh, reading, pipeline>>

\* The dispatcher returns once it sees that the context is done.
StopReading ==
  /\ cancelled /\ reading /\ reading' = FALSE
  /\ UNCHANGED <<tip, at, fromHeight, latestHeight, h, pending, eventsCh, cancelled, pipeline>>

Init ==
  /\ tip = FirstTip /\ at = "poll" /\ fromHeight = FirstHeight
  /\ latestHeight = FirstTip /\ h = FirstHeight
  /\ pending = "block" /\ eventsCh = <<>> /\ cancelled = FALSE /\ reading = TRUE
  /\ heightOf \in Chains /\ passed = {} /\ checkpoint = 0 /\ restarts = 0

Goroutine == PollFails \/ Poll \/ FetchBlock \/ SendBlock \/ SendTipError \/ Wait

Next ==
  \/ Goroutine \/ ChainGrows \/ Take \/ Cancel \/ StopReading
  \/ \E p \in passed : Saves(p)
  \/ Restart

\* Calls to the node return and the goroutine runs; the dispatcher reads as
\* long as it has not stopped; the node does not fail or lag for ever, nor
\* does the select prefer the timer for ever once the context is done.
Fairness ==
  /\ WF_vars(Goroutine) /\ WF_vars(Take)
  /\ SF_vars(PollAnswers(tip)) /\ SF_vars(at = "wait" /\ Wait /\ at' = "closed")

Spec     == Init /\ [][Next]_vars
FairSpec == Spec /\ Fairness

-----------------------------------------------------------------------------
(* Properties                                                               *)

LoopTypes ==
  /\ tip \in Nat /\ fromHeight \in Nat /\ latestHeight \in Nat /\ h \in Nat
  /\ at \in {"poll", "fetch", "send", "sendTipError", "wait", "closed"}
  /\ pending \in Kinds
  /\ cancelled \in BOOLEAN /\ reading \in BOOLEAN
ChannelTypes == eventsCh \in Seq(Events) /\ Len(eventsCh) <= EventsCap
PipelineTypes ==
  /\ heightOf \in Chains /\ passed \subseteq DOMAIN heightOf
  /\ checkpoint \in Nat /\ restarts \in Nat

\* Every variable has its type, and no channel holds more than it has room for.
TypeOK == LoopTypes /\ ChannelTypes /\ PipelineTypes

\* The height of the next event about a block.
Position == IF at \in {"fetch", "send"} THEN h ELSE fromHeight

\* The subscription is an EventSource: through any number of polls, failed
\* ones, answers that lag and a full channel, no height is skipped and none is
\* emitted twice; and the next run, which resumes above the height that the last
\* saved block stated, begins no higher than with the first event nobody had
\* taken, although positions and heights differ on Solana.  (For heights of one
\* length; where the string comparison goes wrong an answer that lags takes
\* fromHeight back.)
Source == INSTANCE EventSource WITH
  Cap    <- EventsCap,
  next   <- Position,
  buffer <- eventsCh,
  isOpen <- at # "closed"
ImplementsSource == Source!Spec

\* Nothing above the chain's latest height is ever asked for or emitted.
NeverAhead ==
  /\ at \in {"fetch", "send"} => h <= tip
  /\ \A i \in DOMAIN eventsCh : eventsCh[i].kind = "tipError" \/ eventsCh[i].height <= tip

\* The poller keeps up: a block is passed on once the chain has grown beyond
\* it, unless the subscription is cancelled.  (The latest block itself waits for
\* the next one: at fromHeight = latestHeight a poll emits nothing.)
KeepsUp ==
  \A b \in FirstHeight..(MaxTip - 1) :
    tip > b ~> cancelled \/ Position > b

\* As long as the dispatcher reads, the end of the context closes the channel
\* (or the process ends before that).
ClosesIfRead == cancelled ~> at = "closed" \/ ~reading \/ ~cancelled

-----------------------------------------------------------------------------
(* What the documentation says and the code does not do                     *)

\* ethereum/block.go:140-141: a poll that emits nothing has found fromHeight at
\* or above the latest height.
SkipsOnlyWhenNothingIsNew ==
  [][at = "poll" /\ at' = "wait" => fromHeight >= latestHeight']_vars
=============================================================================
