----------------------------- MODULE DeliveryProofs -----------------------------
(***************************************************************************)
(* ChainStream implements BlockDelivery, for every set of networks, every  *)
(* capacity, every retry policy and storage, and any number of runs,       *)
(* cancellations and crashes.                                              *)
(*                                                                         *)
(* The heights of a network pass six stages: eventsCh, the dispatcher,     *)
(* preCheckpointCh, the checkpointer, finalOut, the consumer.  The proof   *)
(* says what each step moves between them, that they stay in order, and    *)
(* that a move in that order is a step of BlockDelivery or none.           *)
(***************************************************************************)
EXTENDS CheckpointProofs

-----------------------------------------------------------------------------
(* The stages and their order                                               *)

Got(n)     == Straight(Elements(delivered[n]), n)
Ready(n)   == Straight(Elements(finalOut), n)
Saving(n)  == Straight(Checkpointing, n)
Waiting(n) == Straight(Elements(preCheckpointCh), n)
Sending(n) == Announced(Dispatched(n))
Coming(n)  == Announced(Elements(eventsCh[n]))
Stages(n)  == <<Got(n), Ready(n), Saving(n), Waiting(n), Sending(n), Coming(n)>>

Below(A, B) == \A a \in A, b \in B : a < b

\* Each stage is below all those it follows.
InOrder(got, ready, saving, waiting, sending, coming) ==
  /\ Below(got, ready \cup saving \cup waiting \cup sending \cup coming)
  /\ Below(ready, saving \cup waiting \cup sending \cup coming)
  /\ Below(saving, waiting \cup sending \cup coming)
  /\ Below(waiting, sending \cup coming)
  /\ Below(sending, coming)
StagesInOrder ==
  \A n \in Networks :
    InOrder(Got(n), Ready(n), Saving(n), Waiting(n), Sending(n), Coming(n))

\* Inside a channel heights rise from the head to the tail.
RisingBlocks(ch) ==
  \A i, j \in DOMAIN ch :
    /\ i < j /\ ch[i].network = ch[j].network
    /\ ~ch[i].refetched /\ ~ch[j].refetched
    => ch[i].height < ch[j].height
RisingEvents(ch) ==
  \A i, j \in DOMAIN ch :
    i < j /\ ch[i].kind # "error" /\ ch[j].kind # "error" => ch[i].height < ch[j].height
ChannelsRise ==
  /\ RisingBlocks(finalOut) /\ RisingBlocks(preCheckpointCh)
  /\ \A n \in Networks : RisingEvents(eventsCh[n])

\* The events of a subscription are its network's, and were emitted in this run.
EventsOwned ==
  \A n \in Networks : \A e \in Dispatched(n) \cup Elements(eventsCh[n]) :
    e.network = n /\ e \in emitted

\* A client goes on above all that it has emitted.
AllHeights(n) ==
  Got(n) \cup Ready(n) \cup Saving(n) \cup Waiting(n) \cup Sending(n) \cup Coming(n)
NextIsAbove == ~cancelled => \A n \in Networks : Below(AllHeights(n), {nextHeight[n]})

\* A failure under way, and a block of the retry loop, are those of an event of
\* this run that carried an error.
HeldFailures ==
  Elements(retryFailureCh) \cup Elements(dispatchFailureCh)
    \cup (IF retrier \in {Off, Idle} THEN {} ELSE {retrier.failure})
    \cup (IF handler.at = "notify" THEN {handler.failure} ELSE {})
HeldBlocks == Elements(preCheckpointCh) \cup Checkpointing \cup Elements(finalOut)
SlotsOfFailures(failures) == {<<f.network, f.height>> : f \in failures}
SlotsOfRefetched(blocks) ==
  {<<b.network, b.height>> : b \in {x \in blocks : x.refetched}}
HeldSlots == SlotsOfFailures(HeldFailures) \cup SlotsOfRefetched(HeldBlocks)
FailuresKnown == HeldSlots \subseteq FailedSlots

StreamInv == StagesInOrder /\ ChannelsRise /\ EventsOwned /\ NextIsAbove /\ FailuresKnown

-----------------------------------------------------------------------------
(* Stages and channels                                                      *)

LEMMA StraightUnion ==
  ASSUME NEW A, NEW B, NEW n
  PROVE  Straight(A \cup B, n) = Straight(A, n) \cup Straight(B, n)
BY DEF Straight

LEMMA AnnouncedUnion ==
  ASSUME NEW A, NEW B
  PROVE  Announced(A \cup B) = Announced(A) \cup Announced(B)
BY DEF Announced

LEMMA NoHeights ==
  /\ Elements(<<>>) = {} /\ Announced({}) = {}
  /\ \A n : Straight({}, n) = {}
BY DEF Elements, Announced, Straight

\* A block is of one network.
LEMMA StraightOfOne ==
  ASSUME NEW b \in ObservedBlock, NEW n \in Networks
  PROVE  /\ b.network = n /\ ~b.refetched => Straight({b}, n) = {b.height}
         /\ b.network # n \/ b.refetched => Straight({b}, n) = {}
BY DEF Straight

\* The head of a channel whose heights rise is below the rest, which rises too.
LEMMA BlocksReceivedRise ==
  ASSUME NEW ch \in Seq(ObservedBlock), Receives(ch), RisingBlocks(ch)
  PROVE  /\ RisingBlocks(Tail(ch))
         /\ \A n \in Networks :
              /\ Straight(Elements(ch), n)
                   = Straight({Head(ch)}, n) \cup Straight(Elements(Tail(ch)), n)
              /\ Below(Straight({Head(ch)}, n), Straight(Elements(Tail(ch)), n))
<1>1. /\ 1 \in DOMAIN ch /\ Head(ch) = ch[1]
      /\ \A i \in DOMAIN Tail(ch) :
           /\ i \in Nat /\ i + 1 \in DOMAIN ch /\ 1 < i + 1
           /\ Tail(ch)[i] = ch[i + 1]
      /\ \A e \in Elements(Tail(ch)) : \E i \in DOMAIN ch : 1 < i /\ e = ch[i]
  BY PlacesReceived
<1>2. RisingBlocks(Tail(ch))
  <2>1. ASSUME NEW i \in DOMAIN Tail(ch), NEW j \in DOMAIN Tail(ch), i < j
        PROVE  /\ i + 1 \in DOMAIN ch /\ j + 1 \in DOMAIN ch /\ i + 1 < j + 1
               /\ Tail(ch)[i] = ch[i + 1] /\ Tail(ch)[j] = ch[j + 1]
    BY <1>1, <2>1
  <2> QED BY <2>1 DEF RisingBlocks
<1>3. ASSUME NEW n \in Networks
      PROVE  Below(Straight({Head(ch)}, n), Straight(Elements(Tail(ch)), n))
  <2>1. ASSUME NEW b \in Elements(Tail(ch)), b.network = n, ~b.refetched,
               Head(ch).network = n, ~Head(ch).refetched
        PROVE  Head(ch).height < b.height
    <3>1. PICK i \in DOMAIN ch : 1 < i /\ b = ch[i] BY <1>1
    <3> QED BY <1>1, <2>1, <3>1 DEF RisingBlocks
  <2> QED BY <2>1 DEF Below, Straight
<1>4. Elements(ch) = {Head(ch)} \cup Elements(Tail(ch)) BY BlockReceived
<1>5. \A n \in Networks : Straight(Elements(ch), n)
                           = Straight({Head(ch)}, n) \cup Straight(Elements(Tail(ch)), n)
  BY <1>4, StraightUnion
<1> QED BY <1>2, <1>3, <1>5

LEMMA EventsReceivedRise ==
  ASSUME NEW ch \in Seq(Event), Receives(ch), RisingEvents(ch)
  PROVE  /\ RisingEvents(Tail(ch))
         /\ Announced(Elements(ch)) = Announced({Head(ch)}) \cup Announced(Elements(Tail(ch)))
         /\ Below(Announced({Head(ch)}), Announced(Elements(Tail(ch))))
<1>1. /\ 1 \in DOMAIN ch /\ Head(ch) = ch[1]
      /\ \A i \in DOMAIN Tail(ch) :
           /\ i \in Nat /\ i + 1 \in DOMAIN ch /\ 1 < i + 1
           /\ Tail(ch)[i] = ch[i + 1]
      /\ \A e \in Elements(Tail(ch)) : \E i \in DOMAIN ch : 1 < i /\ e = ch[i]
  BY PlacesReceived
<1>2. RisingEvents(Tail(ch))
  <2>1. ASSUME NEW i \in DOMAIN Tail(ch), NEW j \in DOMAIN Tail(ch), i < j
        PROVE  /\ i + 1 \in DOMAIN ch /\ j + 1 \in DOMAIN ch /\ i + 1 < j + 1
               /\ Tail(ch)[i] = ch[i + 1] /\ Tail(ch)[j] = ch[j + 1]
    BY <1>1, <2>1
  <2> QED BY <2>1 DEF RisingEvents
<1>3. Below(Announced({Head(ch)}), Announced(Elements(Tail(ch))))
  <2>1. ASSUME NEW e \in Elements(Tail(ch)), e.kind # "error", Head(ch).kind # "error"
        PROVE  Head(ch).height < e.height
    <3>1. PICK i \in DOMAIN ch : 1 < i /\ e = ch[i] BY <1>1
    <3> QED BY <1>1, <2>1, <3>1 DEF RisingEvents
  <2> QED BY <2>1 DEF Below, Announced
<1> QED BY <1>2, <1>3, EventReceived, AnnouncedUnion

\* What is sent above all that a channel holds keeps it rising.
LEMMA BlockSentRises ==
  ASSUME NEW ch \in Seq(ObservedBlock), NEW x \in ObservedBlock, RisingBlocks(ch),
         \A n \in Networks : Below(Straight(Elements(ch), n), Straight({x}, n))
  PROVE  RisingBlocks(Append(ch, x))
<1> SUFFICES ASSUME NEW i \in DOMAIN Append(ch, x), NEW j \in DOMAIN Append(ch, x), i < j,
                    Append(ch, x)[i].network = Append(ch, x)[j].network,
                    ~Append(ch, x)[i].refetched, ~Append(ch, x)[j].refetched
             PROVE  Append(ch, x)[i].height < Append(ch, x)[j].height
  BY DEF RisingBlocks
<1>1. /\ i \in DOMAIN ch /\ Append(ch, x)[i] = ch[i] /\ ch[i] \in Elements(ch)
      /\ \/ j \in DOMAIN ch /\ Append(ch, x)[j] = ch[j]
         \/ Append(ch, x)[j] = x
  BY PlacesSent
<1>2. CASE j \in DOMAIN ch /\ Append(ch, x)[j] = ch[j] BY <1>1, <1>2 DEF RisingBlocks
<1>3. CASE Append(ch, x)[j] = x
  <2>1. x.network \in Networks BY BlockFields
  <2>2. x.height \in Straight({x}, x.network) BY <1>3 DEF Straight
  <2>3. ch[i].height \in Straight(Elements(ch), x.network) BY <1>1, <1>3 DEF Straight
  <2> QED BY <1>1, <1>3, <2>1, <2>2, <2>3 DEF Below
<1> QED BY <1>1, <1>2, <1>3

LEMMA EventSentRises ==
  ASSUME NEW ch \in Seq(Event), NEW x \in Event, RisingEvents(ch),
         Below(Announced(Elements(ch)), Announced({x}))
  PROVE  RisingEvents(Append(ch, x))
<1> SUFFICES ASSUME NEW i \in DOMAIN Append(ch, x), NEW j \in DOMAIN Append(ch, x), i < j,
                    Append(ch, x)[i].kind # "error", Append(ch, x)[j].kind # "error"
             PROVE  Append(ch, x)[i].height < Append(ch, x)[j].height
  BY DEF RisingEvents
<1>1. /\ i \in DOMAIN ch /\ Append(ch, x)[i] = ch[i] /\ ch[i] \in Elements(ch)
      /\ \/ j \in DOMAIN ch /\ Append(ch, x)[j] = ch[j]
         \/ Append(ch, x)[j] = x
  BY PlacesSent
<1>2. CASE j \in DOMAIN ch /\ Append(ch, x)[j] = ch[j] BY <1>1, <1>2 DEF RisingEvents
<1>3. CASE Append(ch, x)[j] = x
  <2>1. x.height \in Announced({x}) BY <1>3 DEF Announced
  <2>2. ch[i].height \in Announced(Elements(ch)) BY <1>1, <1>3 DEF Announced
  <2> QED BY <1>1, <1>3, <2>1, <2>2 DEF Below
<1> QED BY <1>1, <1>2, <1>3

-----------------------------------------------------------------------------
(* What a step moves between the stages of a network                        *)

\* The client puts the height it had come to into eventsCh.
Announces(n) ==
  /\ Coming(n)' = Coming(n) \cup {nextHeight[n]} /\ nextHeight'[n] = nextHeight[n] + 1
  /\ UNCHANGED <<Got(n), Ready(n), Saving(n), Waiting(n), Sending(n)>>

\* A goroutine takes the first of its channel ...
Takes(n) ==
  /\ Sending(n) = {} /\ Coming(n) = Sending(n)' \cup Coming(n)'
  /\ Below(Sending(n)', Coming(n)')
  /\ UNCHANGED <<Got(n), Ready(n), Saving(n), Waiting(n)>>
Picks(n) ==
  /\ Saving(n) = {} /\ Waiting(n) = Saving(n)' \cup Waiting(n)'
  /\ Below(Saving(n)', Waiting(n)')
  /\ UNCHANGED <<Got(n), Ready(n), Sending(n), Coming(n)>>

\* ... passes it on ...
Queues(n) ==
  /\ Waiting(n)' = Waiting(n) \cup Sending(n) /\ Sending(n)' = {}
  /\ UNCHANGED <<Got(n), Ready(n), Saving(n), Coming(n)>>
Forwards(n) ==
  /\ Ready(n)' = Ready(n) \cup Saving(n) /\ Saving(n)' = {}
  /\ UNCHANGED <<Got(n), Waiting(n), Sending(n), Coming(n)>>

\* ... or returns.
DispatcherLeaves(n) ==
  /\ Sending(n)' = {} /\ Coming(n)' = {}
  /\ UNCHANGED <<Got(n), Ready(n), Saving(n), Waiting(n)>>
CheckpointerLeaves(n) ==
  /\ Saving(n)' = {}
  /\ UNCHANGED <<Got(n), Ready(n), Waiting(n), Sending(n), Coming(n)>>

\* The consumer takes the first of finalOut.
Delivers(n) ==
  \E first \in SUBSET Heights :
    /\ Ready(n) = first \cup Ready(n)' /\ Below(first, Ready(n)')
    /\ Got(n)' = Got(n) \cup first
    /\ UNCHANGED <<Saving(n), Waiting(n), Sending(n), Coming(n)>>

\* The process ends, and a run begins.
Empties(n) ==
  /\ Ready(n)' = {} /\ Saving(n)' = {} /\ Waiting(n)' = {}
  /\ Sending(n)' = {} /\ Coming(n)' = {}
  /\ UNCHANGED Got(n)
Restarts(n) ==
  /\ Ready(n)' = {} /\ Saving(n)' = {} /\ Waiting(n)' = {}
  /\ Sending(n)' = {} /\ Coming(n)' = {} /\ Got(n)' = {}

StageMove(n) ==
  \/ UNCHANGED Stages(n)
  \/ ~cancelled /\ Announces(n)
  \/ Takes(n) \/ Picks(n) \/ Queues(n) \/ Forwards(n)
  \/ DispatcherLeaves(n) \/ CheckpointerLeaves(n) \/ Delivers(n)
  \/ Empties(n) \/ Restarts(n)

\* What the stages read.
LEMMA StageFrame ==
  /\ UNCHANGED delivered => \A n \in Networks : UNCHANGED Got(n)
  /\ UNCHANGED finalOut => \A n \in Networks : UNCHANGED Ready(n)
  /\ UNCHANGED checkpointer => \A n \in Networks : UNCHANGED Saving(n)
  /\ UNCHANGED preCheckpointCh => \A n \in Networks : UNCHANGED Waiting(n)
  /\ \A n \in Networks : dispatcher'[n] = dispatcher[n] => UNCHANGED Sending(n)
  /\ \A n \in Networks : eventsCh'[n] = eventsCh[n] => UNCHANGED Coming(n)
BY DEF Got, Ready, Saving, Waiting, Sending, Coming, Checkpointing, Dispatched

\* The heights of a stage are heights.
LEMMA StageTypes ==
  ASSUME TypeOK, NEW n \in Networks
  PROVE  /\ Got(n) \subseteq Heights /\ Ready(n) \subseteq Heights
         /\ Saving(n) \subseteq Heights /\ Waiting(n) \subseteq Heights
         /\ Sending(n) \subseteq Heights /\ Coming(n) \subseteq Heights
<1>1. /\ \A B \in SUBSET ObservedBlock : Straight(B, n) \subseteq Heights
      /\ \A E \in SUBSET Event : Announced(E) \subseteq Heights
  BY BlockFields DEF Straight, Announced, Event
<1>2. Elements(delivered[n]) \subseteq ObservedBlock
  BY DEF TypeOK, OutcomeTypes, Elements
<1>3. Checkpointing \subseteq ObservedBlock /\ Dispatched(n) \subseteq Event
  BY HeldTypes DEF Checkpointing, Dispatched
<1> QED
  BY <1>1, <1>2, <1>3, HeldTypes DEF Got, Ready, Saving, Waiting, Sending, Coming

\* A move keeps the order.
LEMMA MoveKeepsOrder ==
  ASSUME TypeOK, NEW n \in Networks, StageMove(n),
         InOrder(Got(n), Ready(n), Saving(n), Waiting(n), Sending(n), Coming(n)),
         ~cancelled => Below(AllHeights(n), {nextHeight[n]})
  PROVE  InOrder(Got(n), Ready(n), Saving(n), Waiting(n), Sending(n), Coming(n))'
<1>1. CASE UNCHANGED Stages(n) BY <1>1 DEF Stages, InOrder, Below
<1>2. CASE ~cancelled /\ Announces(n)
  BY <1>2 DEF Announces, AllHeights, InOrder, Below
<1>3. CASE Takes(n) BY <1>3 DEF Takes, InOrder, Below
<1>4. CASE Picks(n) BY <1>4 DEF Picks, InOrder, Below
<1>5. CASE Queues(n) BY <1>5 DEF Queues, InOrder, Below
<1>6. CASE Forwards(n) BY <1>6 DEF Forwards, InOrder, Below
<1>7. CASE DispatcherLeaves(n) BY <1>7 DEF DispatcherLeaves, InOrder, Below
<1>8. CASE CheckpointerLeaves(n) BY <1>8 DEF CheckpointerLeaves, InOrder, Below
<1>9. CASE Delivers(n) BY <1>9 DEF Delivers, InOrder, Below
<1>10. CASE Empties(n) BY <1>10 DEF Empties, InOrder, Below
<1>11. CASE Restarts(n) BY <1>11 DEF Restarts, InOrder, Below
<1> QED
  BY <1>1, <1>2, <1>3, <1>4, <1>5, <1>6, <1>7, <1>8, <1>9, <1>10, <1>11 DEF StageMove

-----------------------------------------------------------------------------
(* What each action moves                                                   *)

\* One more block in a channel, for the stage it is.
LEMMA BlockJoins ==
  ASSUME NEW ch \in Seq(ObservedBlock), NEW x \in ObservedBlock, NEW n
  PROVE  Straight(Elements(Append(ch, x)), n) = Straight(Elements(ch), n) \cup Straight({x}, n)
<1>1. Elements(Append(ch, x)) = Elements(ch) \cup {x} BY BlockSent
<1> QED BY <1>1, StraightUnion

LEMMA EmitMoves ==
  ASSUME TypeOK, ChannelsRise, NextIsAbove, NEW n \in Networks, Subscription(n)
  PROVE  /\ ~cancelled
         /\ \/ Announces(n) /\ nextHeight[n] \in 1..MaxHeight /\ UNCHANGED FailedSlots
            \/ /\ UNCHANGED Stages(n) /\ nextHeight[n] \in 1..MaxHeight
               /\ FailedSlots' = FailedSlots \cup {<<n, nextHeight[n]>>}
         /\ \A m \in Networks \ {n} : UNCHANGED Stages(m)
         /\ ChannelsRise'
<1>1. PICK kind \in {"block", "hollow", "error"} :
        /\ Emit(n, kind)
        /\ kind # "error" => nextHeight' = [nextHeight EXCEPT ![n] = @ + 1]
  BY DEF Subscription, EmitBlock, EmitTipError
<1> DEFINE e == [network |-> n, height |-> nextHeight[n], kind |-> kind]
<1>2. /\ ~cancelled /\ nextHeight[n] \in 1..MaxHeight
      /\ eventsCh' = [eventsCh EXCEPT ![n] = Append(eventsCh[n], e)]
      /\ emitted' = emitted \cup {e}
      /\ UNCHANGED <<delivered, finalOut, checkpointer, preCheckpointCh, dispatcher>>
  BY <1>1 DEF Emit, workers, outcome
<1>3. e \in Event
  <2>1. nextHeight[n] \in Heights BY <1>2, BoundAssumption DEF Heights
  <2> QED BY <2>1 DEF Event
<1>4. e.network = n /\ e.height = nextHeight[n] /\ e.kind = kind OBVIOUS
<1>5. nextHeight \in [Networks -> Nat] /\ eventsCh \in [Networks -> Seq(Event)]
  BY DEF TypeOK, SourceTypes, ChannelTypes
<1> HIDE DEF e
<1>6. /\ \A m \in Networks \ {n} : eventsCh'[m] = eventsCh[m]
      /\ eventsCh'[n] = Append(eventsCh[n], e)
      /\ Elements(eventsCh'[n]) = Elements(eventsCh[n]) \cup {e}
  BY <1>2, <1>3, <1>5, EventSent
<1>7. Coming(n)' = Coming(n) \cup Announced({e})
  BY <1>6, AnnouncedUnion DEF Coming
<1>8. \A m \in Networks : UNCHANGED <<Got(m), Ready(m), Saving(m), Waiting(m), Sending(m)>>
  BY <1>2, StageFrame
<1>9. \A m \in Networks \ {n} : UNCHANGED Stages(m)
  BY <1>6, <1>8, StageFrame DEF Stages
<1>10. ChannelsRise'
  <2>1. Below(Coming(n), Announced({e}))
    <3>1. \A h \in Announced({e}) : h = nextHeight[n] BY <1>4 DEF Announced
    <3> QED BY <1>2, <3>1 DEF NextIsAbove, AllHeights, Below
  <2>2. RisingEvents(eventsCh'[n])
    BY <1>3, <1>5, <1>6, <2>1, EventSentRises DEF ChannelsRise, Coming
  <2> QED BY <1>2, <1>6, <2>2 DEF ChannelsRise
<1>11. CASE kind = "error"
  <2>1. Announced({e}) = {} BY <1>4, <1>11 DEF Announced
  <2>2. FailedSlots' = FailedSlots \cup {<<n, nextHeight[n]>>}
    BY <1>2, <1>4, <1>11 DEF FailedSlots
  <2>3. UNCHANGED Stages(n) BY <1>7, <1>8, <2>1 DEF Stages
  <2> QED BY <1>2, <1>9, <1>10, <2>2, <2>3
<1>12. CASE kind # "error"
  <2>1. Announced({e}) = {nextHeight[n]} BY <1>4, <1>12 DEF Announced
  <2>2. FailedSlots' = FailedSlots BY <1>2, <1>4, <1>12 DEF FailedSlots
  <2>3. nextHeight'[n] = nextHeight[n] + 1 BY <1>1, <1>5, <1>12
  <2>4. Announces(n) BY <1>7, <1>8, <2>1, <2>3 DEF Announces
  <2> QED BY <1>2, <1>9, <1>10, <2>2, <2>4
<1> QED BY <1>11, <1>12

LEMMA DispatchMoves ==
  ASSUME TypeOK, ChannelsRise, StagesInOrder, EventsOwned, NEW n \in Networks, Dispatch(n)
  PROVE  /\ \/ Takes(n) \/ Queues(n)
            \/ DispatcherLeaves(n)
         /\ \A m \in Networks \ {n} : UNCHANGED Stages(m)
         /\ ChannelsRise'
<1> USE DEF lifecycle, source, channels, workers, outcome, storage
<1>1. /\ eventsCh \in [Networks -> Seq(Event)] /\ dispatcher \in [Networks -> Dispatchers]
      /\ preCheckpointCh \in Seq(ObservedBlock)
  BY DEF TypeOK, ChannelTypes, WorkerTypes
<1>2. \A m \in Networks \ {n} : dispatcher'[m] = dispatcher[m] /\ eventsCh'[m] = eventsCh[m]
  BY <1>1 DEF Dispatch, DispatchReceive, DispatchSend, DispatchSendEnds
<1>3. UNCHANGED <<delivered, finalOut, checkpointer>>
  BY DEF Dispatch, DispatchReceive, DispatchSend, DispatchSendEnds
<1>4. \A m \in Networks : UNCHANGED <<Got(m), Ready(m), Saving(m)>> BY <1>3, StageFrame
<1>5. \A m \in Networks \ {n} : UNCHANGED <<Sending(m), Coming(m)>> BY <1>2, StageFrame
<1>6. CASE /\ dispatcher[n] = Idle /\ Receives(eventsCh[n])
           /\ dispatcher' = [dispatcher EXCEPT ![n] = [at |-> "send", event |-> Head(eventsCh[n])]]
           /\ eventsCh' = [eventsCh EXCEPT ![n] = Tail(eventsCh[n])]
           /\ UNCHANGED preCheckpointCh
  <2>1. /\ dispatcher'[n] = [at |-> "send", event |-> Head(eventsCh[n])]
        /\ eventsCh'[n] = Tail(eventsCh[n])
    BY <1>1, <1>6
  <2>2. Dispatched(n) = {} /\ Dispatched(n)' = {Head(eventsCh[n])}
    BY <1>6, <2>1 DEF Dispatched, Idle
  <2>3. /\ RisingEvents(Tail(eventsCh[n]))
        /\ Coming(n) = Announced({Head(eventsCh[n])}) \cup Announced(Elements(Tail(eventsCh[n])))
        /\ Below(Announced({Head(eventsCh[n])}), Announced(Elements(Tail(eventsCh[n]))))
    BY <1>1, <1>6, EventsReceivedRise DEF ChannelsRise, Coming
  <2>4. Sending(n) = {} /\ Sending(n)' = Announced({Head(eventsCh[n])})
        /\ Coming(n)' = Announced(Elements(Tail(eventsCh[n])))
    BY <2>1, <2>2, NoHeights DEF Sending, Coming
  <2>5. \A m \in Networks : UNCHANGED Waiting(m) BY <1>6, StageFrame
  <2>6. Takes(n) BY <1>4, <2>3, <2>4, <2>5 DEF Takes
  <2>7. \A m \in Networks \ {n} : UNCHANGED Stages(m) BY <1>4, <1>5, <2>5 DEF Stages
  <2>8. ChannelsRise' BY <1>2, <1>3, <1>6, <2>1, <2>3 DEF ChannelsRise
  <2> QED BY <2>6, <2>7, <2>8
<1>7. CASE /\ dispatcher' = [dispatcher EXCEPT ![n] = Off]
           /\ eventsCh' = [eventsCh EXCEPT ![n] = <<>>]
           /\ UNCHANGED preCheckpointCh
  <2>1. dispatcher'[n] = Off /\ eventsCh'[n] = <<>> BY <1>1, <1>7
  <2>2. Dispatched(n)' = {} BY <2>1 DEF Dispatched, Off
  <2>3. Sending(n)' = {} /\ Coming(n)' = {} BY <2>1, <2>2, NoHeights DEF Sending, Coming
  <2>4. \A m \in Networks : UNCHANGED Waiting(m) BY <1>7, StageFrame
  <2>5. DispatcherLeaves(n) BY <1>4, <2>3, <2>4 DEF DispatcherLeaves
  <2>6. \A m \in Networks \ {n} : UNCHANGED Stages(m) BY <1>4, <1>5, <2>4 DEF Stages
  <2>7. RisingEvents(eventsCh'[n]) BY <2>1 DEF RisingEvents
  <2>8. ChannelsRise' BY <1>2, <1>3, <1>7, <2>7 DEF ChannelsRise
  <2> QED BY <2>5, <2>6, <2>8
<1>8. CASE DispatchSend(n)
  <2> DEFINE e == dispatcher[n].event
  <2>1. e \in Event /\ dispatcher[n].at = "send"
    BY <1>8, HeldTypes DEF DispatchSend
  <2>2. e.network = n /\ Dispatched(n) = {e}
    BY <2>1 DEF EventsOwned, Dispatched
  <2>3. dispatcher'[n] = Idle /\ UNCHANGED eventsCh BY <1>1, <1>8 DEF DispatchSend
  <2>4. Dispatched(n)' = {} BY <2>3 DEF Dispatched, Idle
  <2>5. Sending(n)' = {} /\ UNCHANGED Coming(n)
    BY <2>3, <2>4, NoHeights DEF Sending, Coming
  <2>6. CASE e.kind # "error"
    <3>1. PICK b \in ObservedBlock :
            /\ b.network = n /\ b.height = e.height /\ ~b.refetched
            /\ preCheckpointCh' = Append(preCheckpointCh, b)
      <4>1. /\ BlockOf(e) \in ObservedBlock
            /\ BlockOf(e).network = n /\ BlockOf(e).height = e.height /\ ~BlockOf(e).refetched
        BY <2>1, <2>2, BlockOfType DEF BlockOf, Event
      <4> QED BY <1>8, <2>6, <4>1 DEF DispatchSend
    <3>2. Sending(n) = {b.height} BY <2>2, <2>6, <3>1 DEF Sending, Announced
    <3>3. Straight({b}, n) = {b.height} BY <3>1, StraightOfOne
    <3>4. \A m \in Networks \ {n} : Straight({b}, m) = {} BY <3>1, StraightOfOne
    <3>5. \A m \in Networks : Waiting(m)' = Waiting(m) \cup Straight({b}, m)
      BY <1>1, <3>1, BlockJoins DEF Waiting
    <3>6. Queues(n) BY <1>4, <2>5, <3>2, <3>3, <3>5 DEF Queues
    <3>7. \A m \in Networks \ {n} : UNCHANGED Stages(m)
      BY <1>4, <1>5, <3>4, <3>5 DEF Stages
    <3>8. \A m \in Networks : Below(Waiting(m), Straight({b}, m))
      BY <3>2, <3>3, <3>4 DEF StagesInOrder, InOrder, Below
    <3>9. RisingBlocks(preCheckpointCh')
      BY <1>1, <3>1, <3>8, BlockSentRises DEF ChannelsRise, Waiting
    <3>10. ChannelsRise' BY <1>3, <2>3, <3>9 DEF ChannelsRise
    <3> QED BY <3>6, <3>7, <3>10
  <2>7. CASE e.kind = "error"
    <3>1. UNCHANGED preCheckpointCh BY <1>8, <2>7 DEF DispatchSend
    <3>2. Sending(n) = {} BY <2>2, <2>7 DEF Sending, Announced
    <3>3. \A m \in Networks : UNCHANGED Waiting(m) BY <3>1, StageFrame
    <3>4. Queues(n) BY <1>4, <2>5, <3>2, <3>3 DEF Queues
    <3>5. \A m \in Networks \ {n} : UNCHANGED Stages(m) BY <1>4, <1>5, <3>3 DEF Stages
    <3>6. ChannelsRise' BY <1>3, <2>3, <3>1 DEF ChannelsRise
    <3> QED BY <3>4, <3>5, <3>6
  <2> QED BY <2>6, <2>7
<1>9. CASE DispatchReceive(n) BY <1>6, <1>7, <1>9 DEF DispatchReceive
<1>10. CASE DispatchSendEnds(n) BY <1>7, <1>10 DEF DispatchSendEnds
<1> QED BY <1>8, <1>9, <1>10 DEF Dispatch

LEMMA CheckpointMoves ==
  ASSUME TypeOK, ChannelsRise, StagesInOrder,
         CheckpointReceive \/ SaveCheckpoint \/ Forward \/ ForwardEnds
  PROVE  /\ checkpointer # Off
         /\ \/ checkpointer' # Off /\ \A n \in Networks : Picks(n)
            \/ checkpointer' # Off /\ \A n \in Networks : UNCHANGED Stages(n)
            \/ checkpointer' # Off /\ \A n \in Networks : Forwards(n)
            \/ checkpointer' = Off /\ \A n \in Networks : CheckpointerLeaves(n)
         /\ UNCHANGED <<delivered, notified, emitted>>
         /\ ChannelsRise'
<1> USE DEF lifecycle, source, channels, workers, outcome, storage
<1>0. Off.at = "off" /\ Idle.at = "receive" BY DEF Off, Idle
<1>1. preCheckpointCh \in Seq(ObservedBlock) /\ finalOut \in Seq(ObservedBlock)
  BY DEF TypeOK, ChannelTypes
<1>2. UNCHANGED <<delivered, dispatcher, eventsCh, notified, emitted>>
  BY DEF CheckpointReceive, SaveCheckpoint, Forward, ForwardEnds
<1>3. \A n \in Networks : UNCHANGED <<Got(n), Sending(n), Coming(n)>> BY <1>2, StageFrame
<1>4. CASE CheckpointReceive /\ Receives(preCheckpointCh)
           /\ checkpointer' = [at |-> "save", block |-> Head(preCheckpointCh)]
           /\ preCheckpointCh' = Tail(preCheckpointCh)
  <2>1. checkpointer = Idle /\ UNCHANGED finalOut BY <1>4 DEF CheckpointReceive
  <2>2. Checkpointing = {} /\ Checkpointing' = {Head(preCheckpointCh)}
    BY <1>0, <1>4, <2>1 DEF Checkpointing
  <2>3. RisingBlocks(Tail(preCheckpointCh)) BY <1>1, <1>4, BlocksReceivedRise DEF ChannelsRise
  <2>4. ASSUME NEW n \in Networks PROVE Picks(n)
    <3>1. /\ Waiting(n) = Straight({Head(preCheckpointCh)}, n)
                            \cup Straight(Elements(Tail(preCheckpointCh)), n)
          /\ Below(Straight({Head(preCheckpointCh)}, n),
                   Straight(Elements(Tail(preCheckpointCh)), n))
      BY <1>1, <1>4, BlocksReceivedRise DEF ChannelsRise, Waiting
    <3>2. /\ Saving(n) = {} /\ Saving(n)' = Straight({Head(preCheckpointCh)}, n)
          /\ Waiting(n)' = Straight(Elements(Tail(preCheckpointCh)), n)
      BY <1>4, <2>2, NoHeights DEF Saving, Waiting
    <3>3. UNCHANGED Ready(n) BY <2>1, StageFrame
    <3> QED BY <1>3, <3>1, <3>2, <3>3 DEF Picks
  <2>5. ChannelsRise' BY <1>2, <1>4, <2>1, <2>3 DEF ChannelsRise
  <2>6. checkpointer # Off /\ checkpointer' # Off
    <3>1. checkpointer'.at = "save" BY <1>4
    <3> QED BY <1>0, <2>1, <3>1
  <2> QED BY <1>2, <2>4, <2>5, <2>6
<1>5. CASE \/ CheckpointReceive /\ checkpointer' = Off /\ UNCHANGED preCheckpointCh
           \/ ForwardEnds
  <2>1. checkpointer' = Off /\ UNCHANGED <<preCheckpointCh, finalOut>>
    BY <1>5 DEF ForwardEnds, CheckpointReceive
  <2>2. Checkpointing' = {} BY <1>0, <2>1 DEF Checkpointing
  <2>3. ASSUME NEW n \in Networks PROVE CheckpointerLeaves(n)
    <3>1. Saving(n)' = {} BY <2>2, NoHeights DEF Saving
    <3>2. UNCHANGED <<Ready(n), Waiting(n)>> BY <2>1, StageFrame
    <3> QED BY <1>3, <3>1, <3>2 DEF CheckpointerLeaves
  <2>4. checkpointer # Off BY <1>0, <1>5 DEF CheckpointReceive, ForwardEnds
  <2>5. ChannelsRise' BY <1>2, <2>1 DEF ChannelsRise
  <2> QED BY <1>2, <2>1, <2>3, <2>4, <2>5
<1>6. CASE SaveCheckpoint
  <2>1. PICK b : checkpointer.block = b /\ checkpointer' = [at |-> "forward", block |-> b]
    BY <1>6, <1>0 DEF SaveCheckpoint, TypeOK, WorkerTypes, Checkpointers
  <2>2. checkpointer.at = "save" /\ UNCHANGED <<preCheckpointCh, finalOut>>
    BY <1>6 DEF SaveCheckpoint
  <2>3. Checkpointing' = Checkpointing BY <2>1, <2>2 DEF Checkpointing
  <2>4. ASSUME NEW n \in Networks PROVE UNCHANGED Stages(n)
    <3>1. UNCHANGED Saving(n) BY <2>3 DEF Saving
    <3>2. UNCHANGED <<Ready(n), Waiting(n)>> BY <2>2, StageFrame
    <3> QED BY <1>3, <3>1, <3>2 DEF Stages
  <2>5. checkpointer'.at = "forward" BY <2>1
  <2>6. checkpointer # Off /\ checkpointer' # Off BY <1>0, <2>2, <2>5
  <2>7. ChannelsRise' BY <1>2, <2>2 DEF ChannelsRise
  <2> QED BY <1>2, <2>4, <2>6, <2>7
<1>7. CASE Forward
  <2>1. /\ checkpointer.at = "forward" /\ checkpointer' = Idle
        /\ finalOut' = Append(finalOut, checkpointer.block) /\ UNCHANGED preCheckpointCh
    BY <1>7 DEF Forward
  <2>2. PICK b \in ObservedBlock : b = checkpointer.block BY <2>1, HeldTypes
  <2>3. Checkpointing = {b} /\ Checkpointing' = {}
    BY <1>0, <2>1, <2>2 DEF Checkpointing
  <2>4. ASSUME NEW n \in Networks PROVE Forwards(n)
    <3>1. Saving(n) = Straight({b}, n) /\ Saving(n)' = {} BY <2>3, NoHeights DEF Saving
    <3>2. Ready(n)' = Ready(n) \cup Straight({b}, n)
      BY <1>1, <2>1, <2>2, BlockJoins DEF Ready
    <3>3. UNCHANGED Waiting(n) BY <2>1, StageFrame
    <3> QED BY <1>3, <3>1, <3>2, <3>3 DEF Forwards
  <2>5. \A n \in Networks : Below(Ready(n), Straight({b}, n))
    BY <2>3 DEF StagesInOrder, InOrder, Below, Saving
  <2>6. RisingBlocks(finalOut')
    BY <1>1, <2>1, <2>2, <2>5, BlockSentRises DEF ChannelsRise, Ready
  <2>7. ChannelsRise' BY <1>2, <2>1, <2>6 DEF ChannelsRise
  <2>8. checkpointer # Off /\ checkpointer' # Off BY <1>0, <2>1
  <2> QED BY <1>2, <2>4, <2>7, <2>8
<1> QED BY <1>4, <1>5, <1>6, <1>7 DEF CheckpointReceive

LEMMA ConsumeMoves ==
  ASSUME TypeOK, ChannelsRise, Consume
  PROVE  \E b \in ObservedBlock :
           /\ b \in Elements(finalOut)
           /\ \A n \in Networks :
                /\ Ready(n) = Straight({b}, n) \cup Ready(n)'
                /\ Below(Straight({b}, n), Ready(n)')
                /\ Got(n)' = Got(n) \cup Straight({b}, n)
                /\ UNCHANGED <<Saving(n), Waiting(n), Sending(n), Coming(n)>>
                /\ Delivers(n)
           /\ RecoveredSlots' = RecoveredSlots \cup
                                  (IF b.refetched THEN {<<b.network, b.height>>} ELSE {})
           /\ Elements(finalOut') \subseteq Elements(finalOut)
           /\ ChannelsRise'
<1> USE DEF lifecycle, source, channels, workers, outcome, storage
<1>1. /\ finalOut \in Seq(ObservedBlock) /\ delivered \in [Networks -> Seq(ObservedBlock)]
      /\ Receives(finalOut)
  BY DEF TypeOK, ChannelTypes, OutcomeTypes, Consume
<1>2. PICK b \in ObservedBlock : b = Head(finalOut) BY <1>1, ReceiveElements
<1>3. /\ finalOut' = Tail(finalOut)
      /\ delivered' = [delivered EXCEPT ![b.network] = Append(@, b)]
      /\ UNCHANGED <<checkpointer, preCheckpointCh, dispatcher, eventsCh>>
  BY <1>2 DEF Consume
<1>4. b.network \in Networks BY BlockFields
<1>5. /\ delivered'[b.network] = Append(delivered[b.network], b)
      /\ \A n \in Networks : n # b.network => delivered'[n] = delivered[n]
  BY <1>1, <1>3, <1>4
<1>6. Elements(finalOut) = {b} \cup Elements(finalOut') BY <1>1, <1>2, <1>3, BlockReceived
<1>7. RisingBlocks(finalOut') BY <1>1, <1>3, BlocksReceivedRise DEF ChannelsRise
<1>8. ASSUME NEW n \in Networks
      PROVE  /\ Ready(n) = Straight({b}, n) \cup Ready(n)'
             /\ Below(Straight({b}, n), Ready(n)')
             /\ Got(n)' = Got(n) \cup Straight({b}, n)
             /\ UNCHANGED <<Saving(n), Waiting(n), Sending(n), Coming(n)>>
             /\ Delivers(n)
  <2>1. /\ Ready(n) = Straight({b}, n) \cup Ready(n)'
        /\ Below(Straight({b}, n), Ready(n)')
    BY <1>1, <1>2, <1>3, BlocksReceivedRise DEF ChannelsRise, Ready
  <2>2. Got(n)' = Got(n) \cup Straight({b}, n)
    <3>1. CASE n = b.network
      <4>1. delivered[n] \in Seq(ObservedBlock) /\ delivered'[n] = Append(delivered[n], b)
        BY <1>1, <1>5, <3>1
      <4> QED BY <4>1, BlockJoins DEF Got
    <3>2. CASE n # b.network
      <4>1. Straight({b}, n) = {} BY <3>2, StraightOfOne
      <4>2. delivered'[n] = delivered[n] BY <1>5, <3>2
      <4> QED BY <4>1, <4>2 DEF Got
    <3> QED BY <3>1, <3>2
  <2>3. UNCHANGED <<Saving(n), Waiting(n), Sending(n), Coming(n)>> BY <1>3, StageFrame
  <2>4. Straight({b}, n) \in SUBSET Heights BY BlockFields DEF Straight
  <2>5. Delivers(n) BY <2>1, <2>2, <2>3, <2>4 DEF Delivers
  <2> QED BY <2>1, <2>2, <2>3, <2>5
<1>9. ChannelsRise' BY <1>3, <1>7 DEF ChannelsRise
<1> DEFINE before == UNION {Elements(delivered[n]) : n \in Networks}
           after  == UNION {Elements(delivered'[n]) : n \in Networks}
           SlotsOf(A) == {<<x.network, x.height>> : x \in {y \in A : y.refetched}}
<1>10. after = before \cup {b}
  <2>1. Elements(delivered'[b.network]) = Elements(delivered[b.network]) \cup {b}
    BY <1>1, <1>4, <1>5, BlockSent
  <2>2. \A n \in Networks : n # b.network => Elements(delivered'[n]) = Elements(delivered[n])
    BY <1>5
  <2>3. \A n \in Networks : Elements(delivered'[n])
                              = Elements(delivered[n]) \cup (IF n = b.network THEN {b} ELSE {})
    BY <2>1, <2>2
  <2>4. \A x : (\E n \in Networks : x \in Elements(delivered'[n]))
                 <=> (\E n \in Networks : x \in Elements(delivered[n])) \/ x = b
    BY <1>4, <2>3
  <2>5. \A x : x \in after <=> \E n \in Networks : x \in Elements(delivered'[n])
    OBVIOUS
  <2>6. \A x : x \in before <=> \E n \in Networks : x \in Elements(delivered[n])
    OBVIOUS
  <2> HIDE DEF after, before
  <2> QED BY <2>4, <2>5, <2>6
<1>11. RecoveredSlots' = RecoveredSlots \cup
                          (IF b.refetched THEN {<<b.network, b.height>>} ELSE {})
  <2>1. \A A : SlotsOf(A \cup {b})
                = SlotsOf(A) \cup (IF b.refetched THEN {<<b.network, b.height>>} ELSE {})
    OBVIOUS
  <2>2. RecoveredSlots = SlotsOf(before) /\ RecoveredSlots' = SlotsOf(after)
    BY DEF RecoveredSlots
  <2> HIDE DEF SlotsOf, before, after
  <2> QED BY <1>10, <2>1, <2>2
<1> QED BY <1>6, <1>8, <1>9, <1>11

\* A refetched block is in no stage.
LEMMA RecoverMoves ==
  ASSUME TypeOK, ChannelsRise, SendRecovered
  PROVE  (\A n \in Networks : UNCHANGED Stages(n)) /\ ChannelsRise'
<1>1. UNCHANGED <<delivered, finalOut, checkpointer, dispatcher, eventsCh>>
  BY DEF SendRecovered, outcome
<1>2. \A n \in Networks : UNCHANGED <<Got(n), Ready(n), Saving(n), Sending(n), Coming(n)>>
  BY <1>1, StageFrame
<1>3. preCheckpointCh \in Seq(ObservedBlock) BY DEF TypeOK, ChannelTypes
<1>4. CASE UNCHANGED preCheckpointCh
  BY <1>1, <1>2, <1>4, StageFrame DEF Stages, ChannelsRise
<1>5. CASE ~UNCHANGED preCheckpointCh
  <2>1. PICK b \in ObservedBlock : b.refetched /\ preCheckpointCh' = Append(preCheckpointCh, b)
    <3> DEFINE b == Refetched(retrier.failure, retrier.at = "recoverHollow")
    <3>1. retrier.failure \in DispatchFailure BY BusyRetrier DEF SendRecovered
    <3>2. b \in ObservedBlock /\ b.refetched
      BY <3>1, RefetchedType DEF Refetched, DispatchFailure
    <3>3. preCheckpointCh' = Append(preCheckpointCh, b) BY <1>5 DEF SendRecovered
    <3> QED BY <3>2, <3>3
  <2>2. \A n \in Networks : Straight({b}, n) = {} BY <2>1, StraightOfOne
  <2>3. ASSUME NEW n \in Networks PROVE UNCHANGED Waiting(n)
    <3>1. Waiting(n)' = Waiting(n) \cup Straight({b}, n)
      BY <1>3, <2>1, BlockJoins DEF Waiting
    <3> QED BY <2>2, <3>1
  <2>4. RisingBlocks(preCheckpointCh')
    BY <1>3, <2>1, <2>2, BlockSentRises DEF ChannelsRise, Below
  <2>5. ChannelsRise' BY <1>1, <2>4 DEF ChannelsRise
  <2> QED BY <1>2, <2>3, <2>5 DEF Stages
<1> QED BY <1>4, <1>5

LEMMA ProcessEndsMoves ==
  ASSUME NEW message, ProcessEnds(message)
  PROVE  (\A n \in Networks : Empties(n)) /\ ChannelsRise'
<1>1. /\ finalOut' = <<>> /\ preCheckpointCh' = <<>> /\ checkpointer'.at = "off"
      /\ \A n \in Networks : eventsCh'[n] = <<>> /\ dispatcher'[n].at = "off"
      /\ UNCHANGED delivered
  BY DEF ProcessEnds, outcome, Off
<1>2. Checkpointing' = {} /\ \A n \in Networks : Dispatched(n)' = {}
  BY <1>1 DEF Checkpointing, Dispatched
<1>3. ASSUME NEW n \in Networks PROVE Empties(n)
  <2>1. /\ Ready(n)' = {} /\ Saving(n)' = {} /\ Waiting(n)' = {}
        /\ Sending(n)' = {} /\ Coming(n)' = {}
    BY <1>1, <1>2, NoHeights DEF Ready, Saving, Waiting, Sending, Coming
  <2>2. UNCHANGED Got(n) BY <1>1, StageFrame
  <2> QED BY <2>1, <2>2 DEF Empties
<1>4. ChannelsRise' BY <1>1 DEF ChannelsRise, RisingBlocks, RisingEvents
<1> QED BY <1>3, <1>4

LEMMA StartMoves ==
  ASSUME StartBegin
  PROVE  /\ \A n \in Networks : Restarts(n) /\ nextHeight'[n] = 0
         /\ ChannelsRise'
<1>1. /\ finalOut' = <<>> /\ preCheckpointCh' = <<>> /\ checkpointer'.at = "receive"
      /\ \A n \in Networks : /\ eventsCh'[n] = <<>> /\ dispatcher'[n].at = "off"
                             /\ delivered'[n] = <<>> /\ nextHeight'[n] = 0
  BY DEF StartBegin, Quiet, Off, Idle
<1>2. Checkpointing' = {} /\ \A n \in Networks : Dispatched(n)' = {}
  BY <1>1 DEF Checkpointing, Dispatched
<1>3. ASSUME NEW n \in Networks PROVE Restarts(n)
  BY <1>1, <1>2, NoHeights DEF Got, Ready, Saving, Waiting, Sending, Coming, Restarts
<1>4. ChannelsRise' BY <1>1 DEF ChannelsRise, RisingBlocks, RisingEvents
<1> QED BY <1>1, <1>3, <1>4

\* Nothing else moves a height.
OtherStep ==
  \/ \E n \in Networks : LaunchNetwork(n)
  \/ LaunchFails \/ StartFails \/ StartReturns \/ CloseBegin \/ CloseEnds \/ CallerCancels
  \/ RetryReceive \/ FetchSucceeds \/ FetchFails \/ ReportFailure
  \/ HandlerReceive \/ NotifyFailure

LEMMA OtherMoves ==
  ASSUME TypeOK, LaunchedOnce, ChannelsRise, OtherStep \/ UNCHANGED vars
  PROVE  (\A n \in Networks : UNCHANGED Stages(n)) /\ ChannelsRise'
<1> USE DEF lifecycle, source, channels, workers, outcome, storage
<1>1. /\ UNCHANGED <<delivered, finalOut, checkpointer, preCheckpointCh, eventsCh>>
      /\ \A n \in Networks : Dispatched(n)' = Dispatched(n)
  <2>1. ASSUME NEW n \in Networks, LaunchNetwork(n)
        PROVE  \A m \in Networks : Dispatched(m)' = Dispatched(m)
    <3>1. dispatcher[n] = Off /\ dispatcher' = [dispatcher EXCEPT ![n] = Idle]
      BY <2>1 DEF LaunchNetwork, LaunchedOnce
    <3>2. dispatcher \in [Networks -> Dispatchers] BY DEF TypeOK, WorkerTypes
    <3>3. Dispatched(n) = {} /\ Dispatched(n)' = {}
      BY <3>1, <3>2 DEF Dispatched, Off, Idle
    <3>4. \A m \in Networks : m # n => dispatcher'[m] = dispatcher[m] BY <3>1, <3>2
    <3> QED BY <3>3, <3>4 DEF Dispatched
  <2>2. ASSUME NEW n \in Networks, LaunchNetwork(n)
        PROVE  UNCHANGED <<delivered, finalOut, checkpointer, preCheckpointCh, eventsCh>>
    BY <2>2 DEF LaunchNetwork
  <2>3. CASE \/ LaunchFails \/ StartFails \/ StartReturns \/ CloseBegin \/ CloseEnds
             \/ CallerCancels
    BY <2>3 DEF LaunchFails, StartFails, StartReturns, CloseBegin, CloseEnds, CallerCancels,
                Dispatched
  <2>4. CASE RetryReceive \/ FetchSucceeds \/ FetchFails \/ ReportFailure
    BY <2>4 DEF RetryReceive, FetchSucceeds, FetchFails, ReportFailure, Dispatched
  <2>5. CASE HandlerReceive \/ NotifyFailure
    BY <2>5 DEF HandlerReceive, NotifyFailure, Dispatched
  <2>6. CASE UNCHANGED vars BY <2>6 DEF vars, Dispatched
  <2> QED BY <2>1, <2>2, <2>3, <2>4, <2>5, <2>6 DEF OtherStep
<1>2. \A n \in Networks : UNCHANGED <<Got(n), Ready(n), Saving(n), Waiting(n), Coming(n)>>
  BY <1>1, StageFrame
<1>3. \A n \in Networks : UNCHANGED Sending(n) BY <1>1 DEF Sending
<1>4. ChannelsRise' BY <1>1 DEF ChannelsRise
<1> QED BY <1>2, <1>3, <1>4 DEF Stages

-----------------------------------------------------------------------------
(* The invariant is kept                                                    *)

\* Every step that ends the process.
Ending == CloseTwice \/ Crash \/ SavePanics \/ ExecutePanics \/ SendOnClosed

LEMMA EndingEnds == ASSUME Ending PROVE \E message : ProcessEnds(message)
BY DEF Ending, CloseTwice, Crash, SavePanics, ExecutePanics, SendOnClosed

\* The steps, by what they move.
LEMMA StepKinds ==
  ASSUME [Next]_vars
  PROVE  \/ StartBegin \/ Ending \/ OtherStep \/ UNCHANGED vars
         \/ \E n \in Networks : Subscription(n) \/ Dispatch(n)
         \/ CheckpointReceive \/ SaveCheckpoint \/ Forward \/ ForwardEnds
         \/ SendRecovered \/ Consume
BY DEF Next, Start, Close, CheckpointAndForward, RetryFailedBlockFetches,
       HandleDispatchFailures, Ending, OtherStep

LEMMA StayingIsAMove == ASSUME NEW n \in Networks, UNCHANGED Stages(n) PROVE StageMove(n)
BY DEF StageMove

LEMMA MovesOnly ==
  ASSUME TypeOK, LaunchedOnce, StreamInv, [Next]_vars
  PROVE  (\A n \in Networks : StageMove(n)) /\ ChannelsRise'
<1>0. StagesInOrder /\ ChannelsRise /\ EventsOwned /\ NextIsAbove BY DEF StreamInv
<1>1. CASE StartBegin
  <2>1. (\A n \in Networks : Restarts(n)) /\ ChannelsRise' BY <1>1, StartMoves
  <2> QED BY <2>1 DEF StageMove
<1>2. CASE Ending
  <2>1. PICK message : ProcessEnds(message) BY <1>2, EndingEnds
  <2>2. (\A n \in Networks : Empties(n)) /\ ChannelsRise' BY <2>1, ProcessEndsMoves
  <2> QED BY <2>2 DEF StageMove
<1>3. CASE OtherStep \/ UNCHANGED vars
  <2>1. (\A n \in Networks : UNCHANGED Stages(n)) /\ ChannelsRise' BY <1>0, <1>3, OtherMoves
  <2> QED BY <2>1, StayingIsAMove DEF StageMove
<1>4. ASSUME NEW n \in Networks, Subscription(n)
      PROVE  (\A m \in Networks : StageMove(m)) /\ ChannelsRise'
  <2>1. /\ (~cancelled /\ Announces(n)) \/ UNCHANGED Stages(n)
        /\ \A m \in Networks \ {n} : UNCHANGED Stages(m)
        /\ ChannelsRise'
    BY <1>0, <1>4, EmitMoves
  <2> QED BY <2>1, StayingIsAMove DEF StageMove
<1>5. ASSUME NEW n \in Networks, Dispatch(n)
      PROVE  (\A m \in Networks : StageMove(m)) /\ ChannelsRise'
  <2>1. /\ Takes(n) \/ Queues(n) \/ DispatcherLeaves(n)
        /\ \A m \in Networks \ {n} : UNCHANGED Stages(m)
        /\ ChannelsRise'
    BY <1>0, <1>5, DispatchMoves
  <2> QED BY <2>1, StayingIsAMove DEF StageMove
<1>6. CASE CheckpointReceive \/ SaveCheckpoint \/ Forward \/ ForwardEnds
  <2>1. /\ \/ \A n \in Networks : Picks(n)
           \/ \A n \in Networks : UNCHANGED Stages(n)
           \/ \A n \in Networks : Forwards(n)
           \/ \A n \in Networks : CheckpointerLeaves(n)
        /\ ChannelsRise'
    BY <1>0, <1>6, CheckpointMoves
  <2> QED BY <2>1, StayingIsAMove DEF StageMove
<1>7. CASE SendRecovered
  <2>1. (\A n \in Networks : UNCHANGED Stages(n)) /\ ChannelsRise' BY <1>0, <1>7, RecoverMoves
  <2> QED BY <2>1, StayingIsAMove DEF StageMove
<1>8. CASE Consume
  <2>1. (\A n \in Networks : Delivers(n)) /\ ChannelsRise' BY <1>0, <1>8, ConsumeMoves
  <2> QED BY <2>1 DEF StageMove
<1> QED BY <1>1, <1>2, <1>3, <1>4, <1>5, <1>6, <1>7, <1>8, StepKinds

LEMMA OrderIsKept ==
  ASSUME TypeOK, LaunchedOnce, StreamInv, [Next]_vars
  PROVE  StagesInOrder' /\ ChannelsRise'
<1>1. ASSUME NEW n \in Networks
      PROVE  InOrder(Got(n), Ready(n), Saving(n), Waiting(n), Sending(n), Coming(n))'
  <2>1. StageMove(n) BY MovesOnly
  <2>2. InOrder(Got(n), Ready(n), Saving(n), Waiting(n), Sending(n), Coming(n))
    BY DEF StreamInv, StagesInOrder
  <2>3. ~cancelled => Below(AllHeights(n), {nextHeight[n]})
    BY DEF StreamInv, NextIsAbove
  <2> QED BY <2>1, <2>2, <2>3, MoveKeepsOrder
<1> QED BY <1>1, MovesOnly DEF StagesInOrder

\* A live client never goes back.
LEMMA NextHeightRises ==
  ASSUME DeliveryInv, Order, [Next]_vars, ~cancelled', ~StartBegin, NEW n \in Networks
  PROVE  ~cancelled /\ nextHeight[n] <= nextHeight'[n]
<1>1. /\ ~cancelled
      /\ \/ LaunchStep \/ DispatchStep \/ BlockStep \/ RetryStep \/ OutputStep
         \/ UNCHANGED vars
  BY LiveSteps
<1>2. nextHeight \in [Networks -> Nat] BY DEF DeliveryInv, TypeOK, SourceTypes
<1>3. CASE UNCHANGED nextHeight BY <1>1, <1>2, <1>3
<1>4. ASSUME NEW m \in Networks, LaunchNetwork(m) PROVE nextHeight[n] <= nextHeight'[n]
  <2>1. nextHeight[m] = 0 BY <1>1, <1>4 DEF Order, Unlaunched, LaunchNetwork
  <2>2. PICK h \in 1..(MaxHeight + 1) : nextHeight' = [nextHeight EXCEPT ![m] = h]
    BY <1>4 DEF LaunchNetwork
  <2>3. h \in Nat BY BoundAssumption
  <2> QED BY <1>2, <2>1, <2>2, <2>3
<1>5. ASSUME NEW m \in Networks, Subscription(m) PROVE nextHeight[n] <= nextHeight'[n]
  BY <1>2, <1>5 DEF Subscription, EmitBlock, EmitTipError
<1>6. \/ UNCHANGED nextHeight
      \/ \E m \in Networks : LaunchNetwork(m) \/ Subscription(m)
  BY <1>1 DEF LaunchStep, StartReturns, DispatchStep, DispatchReceive, DispatchSend, BlockStep,
     CheckpointReceive, SaveCheckpoint, Forward, RetryStep, RetryReceive, FetchSucceeds,
     FetchFails, SendRecovered, ReportFailure, OutputStep, HandleDispatchFailures,
     HandlerReceive, NotifyFailure, Consume, vars, source
<1> QED BY <1>1, <1>3, <1>4, <1>5, <1>6

LEMMA NextStaysAbove ==
  ASSUME DeliveryInv, Order, StreamInv, [Next]_vars
  PROVE  NextIsAbove'
<1> SUFFICES ASSUME ~cancelled', NEW n \in Networks
             PROVE  Below(AllHeights(n)', {nextHeight'[n]})
  BY DEF NextIsAbove
<1>1. CASE StartBegin
  <2>1. AllHeights(n)' = {} BY <1>1, StartMoves DEF Restarts, AllHeights
  <2> QED BY <2>1 DEF Below
<1>2. CASE ~StartBegin
  <2>1. ~cancelled /\ nextHeight[n] <= nextHeight'[n] BY <1>2, NextHeightRises
  <2>2. nextHeight[n] \in Nat /\ nextHeight'[n] \in Nat
    <3>1. TypeOK /\ TypeOK' BY TypeNext DEF DeliveryInv
    <3> QED BY <3>1 DEF TypeOK, SourceTypes
  <2>3. StageMove(n) BY MovesOnly DEF DeliveryInv
  <2>4. CASE Announces(n)
    <3>1. AllHeights(n)' = AllHeights(n) \cup {nextHeight[n]}
      BY <2>4 DEF Announces, AllHeights
    <3> QED BY <2>1, <2>2, <2>4, <3>1, StageTypes
            DEF Announces, StreamInv, NextIsAbove, Below, AllHeights, DeliveryInv, Heights
  <2>5. CASE ~Announces(n)
    <3>1. AllHeights(n)' \subseteq AllHeights(n)
      <4>1. CASE UNCHANGED Stages(n) BY <4>1 DEF Stages, AllHeights
      <4>2. CASE Takes(n) \/ Picks(n) \/ Queues(n) BY <4>2 DEF Takes, Picks, Queues, AllHeights
      <4>3. CASE Forwards(n) \/ DispatcherLeaves(n) \/ CheckpointerLeaves(n)
        BY <4>3 DEF Forwards, DispatcherLeaves, CheckpointerLeaves, AllHeights
      <4>4. CASE Delivers(n) \/ Empties(n) \/ Restarts(n)
        BY <4>4 DEF Delivers, Empties, Restarts, AllHeights
      <4> QED BY <2>3, <2>5, <4>1, <4>2, <4>3, <4>4 DEF StageMove
    <3>2. AllHeights(n) \subseteq Nat BY StageTypes DEF DeliveryInv, AllHeights, Heights
    <3> QED BY <2>1, <2>2, <3>1, <3>2 DEF StreamInv, NextIsAbove, Below
  <2> QED BY <2>4, <2>5
<1> QED BY <1>1, <1>2

\* What has been emitted in this run stays so until the next one.
LEMMA EmittedGrows ==
  ASSUME [Next]_vars, ~StartBegin
  PROVE  emitted \subseteq emitted' /\ FailedSlots \subseteq FailedSlots'
<1>1. CASE \E n \in Networks : Subscription(n)
  BY <1>1 DEF Subscription, EmitBlock, EmitTipError, Emit, FailedSlots
<1>2. CASE Ending
  <2>1. UNCHANGED emitted BY <1>2, EndingEnds DEF ProcessEnds
  <2> QED BY <2>1 DEF FailedSlots
<1>3. CASE UNCHANGED emitted BY <1>3 DEF FailedSlots
<1>4. \A n \in Networks : Dispatch(n) => UNCHANGED emitted
  BY DEF Dispatch, DispatchReceive, DispatchSend, DispatchSendEnds, source
<1>5. OtherStep \/ UNCHANGED vars => UNCHANGED emitted
  BY DEF OtherStep, LaunchNetwork, LaunchFails, StartFails, StartReturns, CloseBegin, CloseEnds,
         CallerCancels, RetryReceive, FetchSucceeds, FetchFails, ReportFailure, HandlerReceive,
         NotifyFailure, vars, source
<1>6. CheckpointReceive \/ SaveCheckpoint \/ Forward \/ ForwardEnds \/ SendRecovered \/ Consume
        => UNCHANGED emitted
  BY DEF CheckpointReceive, SaveCheckpoint, Forward, ForwardEnds, SendRecovered, Consume, source
<1> QED BY <1>1, <1>2, <1>3, <1>4, <1>5, <1>6, StepKinds

\* The dispatcher of n and its channel bring nothing that was not there, but for
\* the event the client emits.
LEMMA EventsStayOwned ==
  ASSUME TypeOK, LaunchedOnce, EventsOwned, [Next]_vars
  PROVE  EventsOwned'
<1> USE DEF lifecycle, source, channels, workers, outcome, storage
<1> DEFINE Mine(n) == Dispatched(n) \cup Elements(eventsCh[n])
<1>0. /\ eventsCh \in [Networks -> Seq(Event)] /\ dispatcher \in [Networks -> Dispatchers]
  BY DEF TypeOK, ChannelTypes, WorkerTypes
<1>A. ASSUME ~StartBegin, \A n \in Networks : Mine(n)' \subseteq Mine(n)
      PROVE  EventsOwned'
  <2>1. emitted \subseteq emitted' BY <1>A, EmittedGrows
  <2> QED BY <1>A, <2>1 DEF EventsOwned
<1>B. ASSUME \A n \in Networks : eventsCh'[n] = <<>> /\ dispatcher'[n].at = "off"
      PROVE  EventsOwned'
  <2>1. \A n \in Networks : Mine(n)' = {} BY <1>B, NoHeights DEF Dispatched
  <2> QED BY <2>1 DEF EventsOwned
<1>1. CASE StartBegin BY <1>1, <1>B DEF StartBegin, Quiet, Off
<1>2. CASE Ending
  <2>1. PICK message : ProcessEnds(message) BY <1>2, EndingEnds
  <2> QED BY <1>B, <2>1 DEF ProcessEnds, Off
<1>3. ASSUME NEW n \in Networks, Subscription(n) PROVE EventsOwned'
  <2>1. PICK kind \in {"block", "hollow", "error"} : Emit(n, kind)
    BY <1>3 DEF Subscription, EmitBlock, EmitTipError
  <2>2. PICK e \in Event : /\ e.network = n /\ emitted' = emitted \cup {e}
                           /\ eventsCh' = [eventsCh EXCEPT ![n] = Append(@, e)]
    <3> DEFINE e == [network |-> n, height |-> nextHeight[n], kind |-> kind]
    <3>1. e \in Event BY <2>1, BoundAssumption DEF Emit, Event, Heights
    <3> QED BY <2>1, <3>1 DEF Emit
  <2>3. /\ Elements(eventsCh'[n]) = Elements(eventsCh[n]) \cup {e}
        /\ \A m \in Networks \ {n} : eventsCh'[m] = eventsCh[m]
    <3>1. eventsCh'[n] = Append(eventsCh[n], e) BY <1>0, <2>2
    <3>2. Elements(eventsCh'[n]) = Elements(eventsCh[n]) \cup {e} BY <1>0, <3>1, EventSent
    <3> QED BY <1>0, <2>2, <3>2
  <2>4. \A m \in Networks : Dispatched(m)' = Dispatched(m) BY <2>1 DEF Emit, Dispatched
  <2> QED BY <2>2, <2>3, <2>4 DEF EventsOwned
<1>4. ASSUME NEW n \in Networks, Dispatch(n) PROVE EventsOwned'
  <2>1. \A m \in Networks \ {n} : Mine(m)' = Mine(m)
    BY <1>0, <1>4 DEF Dispatch, DispatchReceive, DispatchSend, DispatchSendEnds, Dispatched
  <2>2. Mine(n)' \subseteq Mine(n)
    <3>1. CASE /\ Receives(eventsCh[n])
               /\ dispatcher' = [dispatcher EXCEPT ![n] = [at |-> "send", event |-> Head(eventsCh[n])]]
               /\ eventsCh' = [eventsCh EXCEPT ![n] = Tail(eventsCh[n])]
      <4>1. /\ dispatcher'[n] = [at |-> "send", event |-> Head(eventsCh[n])]
            /\ eventsCh'[n] = Tail(eventsCh[n])
        BY <1>0, <3>1
      <4>2. Dispatched(n)' = {Head(eventsCh[n])} BY <4>1 DEF Dispatched
      <4>3. Elements(eventsCh[n]) = {Head(eventsCh[n])} \cup Elements(Tail(eventsCh[n]))
        BY <1>0, <3>1, EventReceived
      <4> QED BY <4>1, <4>2, <4>3
    <3>2. CASE /\ dispatcher' = [dispatcher EXCEPT ![n] = Off]
               /\ eventsCh' = [eventsCh EXCEPT ![n] = <<>>]
      <4>1. dispatcher'[n] = Off /\ eventsCh'[n] = <<>> BY <1>0, <3>2
      <4> QED BY <4>1, NoHeights DEF Dispatched, Off
    <3>3. CASE DispatchSend(n)
      <4>1. dispatcher'[n] = Idle /\ eventsCh' = eventsCh BY <1>0, <3>3 DEF DispatchSend
      <4> QED BY <4>1 DEF Dispatched, Idle
    <3> QED BY <1>4, <3>1, <3>2, <3>3 DEF Dispatch, DispatchReceive, DispatchSendEnds
  <2>3. ~StartBegin
    <3>1. UNCHANGED phase BY <1>4 DEF Dispatch, DispatchReceive, DispatchSend, DispatchSendEnds
    <3> QED BY <3>1 DEF StartBegin
  <2> QED BY <1>A, <2>1, <2>2, <2>3
<1>5. CASE /\ ~StartBegin
           /\ \/ OtherStep \/ UNCHANGED vars \/ CheckpointReceive \/ SaveCheckpoint \/ Forward
              \/ ForwardEnds \/ SendRecovered \/ Consume
  <2>1. ASSUME NEW n \in Networks, LaunchNetwork(n)
        PROVE  \A m \in Networks : Mine(m)' = Mine(m)
    <3>1. dispatcher[n] = Off /\ dispatcher' = [dispatcher EXCEPT ![n] = Idle]
          /\ UNCHANGED eventsCh
      BY <2>1 DEF LaunchNetwork, LaunchedOnce
    <3>2. Dispatched(n) = {} /\ Dispatched(n)' = {}
      BY <1>0, <3>1 DEF Dispatched, Off, Idle
    <3>3. \A m \in Networks : m # n => dispatcher'[m] = dispatcher[m] BY <1>0, <3>1
    <3> QED BY <3>1, <3>2, <3>3 DEF Dispatched
  <2>2. UNCHANGED <<dispatcher, eventsCh>> => \A m \in Networks : Mine(m)' = Mine(m)
    BY DEF Dispatched
  <2>3. \/ \E n \in Networks : LaunchNetwork(n)
        \/ UNCHANGED <<dispatcher, eventsCh>>
    BY <1>5 DEF OtherStep, LaunchFails, StartFails, StartReturns, CloseBegin, CloseEnds,
       CallerCancels, RetryReceive, FetchSucceeds, FetchFails, ReportFailure, HandlerReceive,
       NotifyFailure, CheckpointReceive, SaveCheckpoint, Forward, ForwardEnds, SendRecovered,
       Consume, vars
  <2> QED BY <1>5, <1>A, <2>1, <2>2, <2>3
<1> QED BY <1>1, <1>2, <1>3, <1>4, <1>5, StepKinds

\* What a retry loop makes of a failure is about the same height.
LEMMA RetriedSlot ==
  ASSUME TypeOK, FetchSucceeds \/ FetchFails \/ SendRecovered
  PROVE  /\ retrier \notin {Off, Idle} /\ retrier' \notin {Off, Idle}
         /\ retrier'.failure.network = retrier.failure.network
         /\ retrier'.failure.height = retrier.failure.height
<1>0. Off.at = "off" /\ Idle.at = "receive" BY DEF Off, Idle
<1>1. PICK at, f, k :
        /\ at \in {"fetch", "recover", "recoverHollow", "report"}
        /\ f \in DispatchFailure /\ retrier = [at |-> at, failure |-> f, attempt |-> k]
  BY BusyRetrier DEF FetchSucceeds, FetchFails, SendRecovered
<1>2. retrier'.at \in {"fetch", "recover", "recoverHollow", "report"}
  BY <1>1 DEF FetchSucceeds, FetchFails, SendRecovered
<1>3. /\ retrier'.failure.network = f.network
      /\ retrier'.failure.height = f.height
  <2>1. CASE FetchSucceeds BY <1>1, <2>1 DEF FetchSucceeds
  <2>2. CASE FetchFails
    <3>1. CASE \E next : retrier' = [retrier EXCEPT !.attempt = next] BY <1>1, <3>1
    <3>2. CASE retrier' = [retrier EXCEPT !.at = "report", !.failure.retried = "gaveUp"]
      BY <1>1, <3>2 DEF DispatchFailure
    <3> QED BY <2>2, <3>1, <3>2 DEF FetchFails
  <2>3. CASE SendRecovered BY <1>1, <2>3 DEF SendRecovered, DispatchFailure
  <2> QED BY <2>1, <2>2, <2>3
<1> QED BY <1>0, <1>1, <1>2, <1>3

\* The retry loop and the handler pass failures on.
LEMMA FailuresPassOn ==
  ASSUME TypeOK, \/ RetryReceive \/ FetchSucceeds \/ FetchFails \/ SendRecovered
                 \/ ReportFailure \/ HandlerReceive \/ NotifyFailure
  PROVE  SlotsOfFailures(HeldFailures)' \subseteq SlotsOfFailures(HeldFailures)
<1> USE DEF lifecycle, source, channels, workers, outcome, storage
<1>0. Off.at = "off" /\ Idle.at = "receive" BY DEF Off, Idle
<1>1. /\ retryFailureCh \in Seq(DispatchFailure) /\ dispatchFailureCh \in Seq(DispatchFailure)
  BY DEF TypeOK, ChannelTypes
<1>A. ASSUME HeldFailures' \subseteq HeldFailures
      PROVE  SlotsOfFailures(HeldFailures)' \subseteq SlotsOfFailures(HeldFailures)
  BY <1>A DEF SlotsOfFailures
<1>2. CASE RetryReceive
  <2>1. UNCHANGED <<dispatchFailureCh, handler>> BY <1>2 DEF RetryReceive
  <2>2. CASE /\ Receives(retryFailureCh) /\ retryFailureCh' = Tail(retryFailureCh)
             /\ retrier' = [at |-> "fetch", failure |-> Head(retryFailureCh), attempt |-> 1]
    <3>1. Elements(retryFailureCh) = {Head(retryFailureCh)} \cup Elements(retryFailureCh')
      BY <1>1, <2>2, FailureReceived
    <3>2. retrier'.failure = Head(retryFailureCh) BY <2>2
    <3> QED BY <1>A, <2>1, <3>1, <3>2 DEF HeldFailures
  <2>3. CASE retrier' = Off /\ UNCHANGED retryFailureCh
    BY <1>A, <2>1, <2>3 DEF HeldFailures
  <2> QED BY <1>2, <2>2, <2>3 DEF RetryReceive
<1>3. CASE FetchSucceeds \/ FetchFails \/ SendRecovered
  <2>1. UNCHANGED <<retryFailureCh, dispatchFailureCh, handler>>
    BY <1>3 DEF FetchSucceeds, FetchFails, SendRecovered
  <2>2. /\ retrier \notin {Off, Idle} /\ retrier' \notin {Off, Idle}
        /\ retrier'.failure.network = retrier.failure.network
        /\ retrier'.failure.height = retrier.failure.height
    BY <1>3, RetriedSlot
  <2>3. \A f \in HeldFailures' : f \in HeldFailures \/ f = retrier'.failure
    BY <2>1, <2>2 DEF HeldFailures
  <2>4. retrier.failure \in HeldFailures BY <2>2 DEF HeldFailures
  <2> QED BY <2>2, <2>3, <2>4 DEF SlotsOfFailures
<1>4. CASE ReportFailure
  <2>1. UNCHANGED <<retryFailureCh, handler>> /\ retrier.at = "report"
    BY <1>4 DEF ReportFailure
  <2>2. /\ retrier \notin {Off, Idle} /\ retrier' \in {Off, Idle}
        /\ retrier.failure \in DispatchFailure
    BY <1>0, <1>4, <2>1, HeldTypes DEF ReportFailure
  <2>3. \/ dispatchFailureCh' = Append(dispatchFailureCh, retrier.failure)
        \/ UNCHANGED dispatchFailureCh
    BY <1>4 DEF ReportFailure
  <2>4. Elements(dispatchFailureCh') \subseteq Elements(dispatchFailureCh) \cup {retrier.failure}
    BY <1>1, <2>2, <2>3, FailureSent
  <2> QED BY <1>A, <2>1, <2>2, <2>4 DEF HeldFailures
<1>5. CASE HandlerReceive
  <2>1. UNCHANGED <<retryFailureCh, retrier>> BY <1>5 DEF HandlerReceive
  <2>2. CASE /\ Receives(dispatchFailureCh) /\ dispatchFailureCh' = Tail(dispatchFailureCh)
             /\ handler' = [at |-> "notify", failure |-> Head(dispatchFailureCh)]
    <3>1. Elements(dispatchFailureCh) = {Head(dispatchFailureCh)} \cup Elements(dispatchFailureCh')
      BY <1>1, <2>2, FailureReceived
    <3>2. handler'.failure = Head(dispatchFailureCh) BY <2>2
    <3> QED BY <1>A, <2>1, <3>1, <3>2 DEF HeldFailures
  <2>3. CASE handler' = Off /\ UNCHANGED dispatchFailureCh
    BY <1>0, <1>A, <2>1, <2>3 DEF HeldFailures
  <2> QED BY <1>5, <2>2, <2>3 DEF HandlerReceive
<1>6. CASE NotifyFailure
  <2>1. /\ UNCHANGED <<retryFailureCh, dispatchFailureCh, retrier>> /\ handler'.at # "notify"
    BY <1>0, <1>6 DEF NotifyFailure
  <2> QED BY <1>A, <2>1 DEF HeldFailures
<1> QED BY <1>2, <1>3, <1>4, <1>5, <1>6

\* The checkpointer and the consumer pass blocks on; the retry loop adds one at
\* the height of the failure it holds.
LEMMA RefetchedPassOn ==
  ASSUME TypeOK, \/ CheckpointReceive \/ SaveCheckpoint \/ Forward \/ ForwardEnds
                 \/ SendRecovered \/ Consume
  PROVE  SlotsOfRefetched(HeldBlocks)' \subseteq HeldSlots
<1> USE DEF lifecycle, source, channels, workers, outcome, storage
<1>0. Off.at = "off" /\ Idle.at = "receive" BY DEF Off, Idle
<1>1. preCheckpointCh \in Seq(ObservedBlock) /\ finalOut \in Seq(ObservedBlock)
  BY DEF TypeOK, ChannelTypes
<1>A. ASSUME HeldBlocks' \subseteq HeldBlocks
      PROVE  SlotsOfRefetched(HeldBlocks)' \subseteq HeldSlots
  BY <1>A DEF SlotsOfRefetched, HeldSlots
<1>2. CASE CheckpointReceive
  <2>1. UNCHANGED finalOut BY <1>2 DEF CheckpointReceive
  <2>2. CASE /\ Receives(preCheckpointCh) /\ preCheckpointCh' = Tail(preCheckpointCh)
             /\ checkpointer' = [at |-> "save", block |-> Head(preCheckpointCh)]
    <3>1. Elements(preCheckpointCh) = {Head(preCheckpointCh)} \cup Elements(preCheckpointCh')
      BY <1>1, <2>2, BlockReceived
    <3>2. Checkpointing' = {Head(preCheckpointCh)} BY <2>2 DEF Checkpointing
    <3> QED BY <1>A, <2>1, <3>1, <3>2 DEF HeldBlocks
  <2>3. CASE checkpointer' = Off /\ UNCHANGED preCheckpointCh
    <3>1. Checkpointing' = {} BY <1>0, <2>3 DEF Checkpointing
    <3> QED BY <1>A, <2>1, <2>3, <3>1 DEF HeldBlocks
  <2> QED BY <1>2, <2>2, <2>3 DEF CheckpointReceive
<1>3. CASE SaveCheckpoint
  <2>1. PICK b : checkpointer.block = b /\ checkpointer' = [at |-> "forward", block |-> b]
    BY <1>0, <1>3 DEF SaveCheckpoint, TypeOK, WorkerTypes, Checkpointers
  <2>2. UNCHANGED <<preCheckpointCh, finalOut>> /\ checkpointer.at = "save"
    BY <1>3 DEF SaveCheckpoint
  <2>3. Checkpointing' = Checkpointing BY <2>1, <2>2 DEF Checkpointing
  <2> QED BY <1>A, <2>2, <2>3 DEF HeldBlocks
<1>4. CASE Forward
  <2>1. /\ UNCHANGED preCheckpointCh /\ checkpointer.at = "forward" /\ checkpointer' = Idle
        /\ finalOut' = Append(finalOut, checkpointer.block)
    BY <1>4 DEF Forward
  <2>2. checkpointer.block \in ObservedBlock BY <2>1, HeldTypes
  <2>3. Elements(finalOut') = Elements(finalOut) \cup Checkpointing /\ Checkpointing' = {}
    BY <1>0, <1>1, <2>1, <2>2, BlockSent DEF Checkpointing
  <2> QED BY <1>A, <2>1, <2>3 DEF HeldBlocks
<1>5. CASE ForwardEnds
  <2>1. UNCHANGED <<preCheckpointCh, finalOut>> /\ Checkpointing' = {}
    BY <1>0, <1>5 DEF ForwardEnds, Checkpointing
  <2> QED BY <1>A, <2>1 DEF HeldBlocks
<1>6. CASE SendRecovered
  <2>1. UNCHANGED <<checkpointer, finalOut>> BY <1>6 DEF SendRecovered
  <2>2. Checkpointing' = Checkpointing BY <2>1 DEF Checkpointing
  <2>3. CASE UNCHANGED preCheckpointCh BY <1>A, <2>1, <2>2, <2>3 DEF HeldBlocks
  <2>4. CASE ~UNCHANGED preCheckpointCh
    <3> DEFINE b == Refetched(retrier.failure, retrier.at = "recoverHollow")
    <3>1. retrier.failure \in DispatchFailure /\ retrier \notin {Off, Idle}
      <4>1. retrier.at \notin {"off", "receive"} BY <1>6 DEF SendRecovered
      <4>2. retrier \notin {Off, Idle} BY <1>0, <4>1
      <4> QED BY <4>2, HeldTypes
    <3>2. /\ b \in ObservedBlock
          /\ b.network = retrier.failure.network /\ b.height = retrier.failure.height
      BY <3>1, RefetchedType DEF Refetched, DispatchFailure
    <3>3. preCheckpointCh' = Append(preCheckpointCh, b) BY <1>6, <2>4 DEF SendRecovered
    <3> HIDE DEF b
    <3>4. Elements(preCheckpointCh') = Elements(preCheckpointCh) \cup {b}
      BY <1>1, <3>2, <3>3, BlockSent
    <3>5. \A x \in HeldBlocks' : x \in HeldBlocks \/ x = b
      BY <2>1, <2>2, <3>4 DEF HeldBlocks
    <3>6. <<b.network, b.height>> \in SlotsOfFailures(HeldFailures)
      BY <3>1, <3>2 DEF SlotsOfFailures, HeldFailures
    <3> QED BY <3>5, <3>6 DEF SlotsOfRefetched, HeldSlots
  <2> QED BY <2>3, <2>4
<1>7. CASE Consume
  <2>1. UNCHANGED <<checkpointer, preCheckpointCh>> /\ Receives(finalOut)
        /\ finalOut' = Tail(finalOut)
    BY <1>7 DEF Consume
  <2>2. Elements(finalOut) = {Head(finalOut)} \cup Elements(finalOut')
    BY <1>1, <2>1, BlockReceived
  <2>3. Checkpointing' = Checkpointing BY <2>1 DEF Checkpointing
  <2> QED BY <1>A, <2>1, <2>2, <2>3 DEF HeldBlocks
<1> QED BY <1>2, <1>3, <1>4, <1>5, <1>6, <1>7

LEMMA FailuresStayKnown ==
  ASSUME TypeOK, LaunchedOnce, StreamInv, [Next]_vars
  PROVE  FailuresKnown'
<1> USE DEF lifecycle, source, channels, workers, outcome, storage
<1>0. /\ Off.at = "off" /\ Idle.at = "receive"
      /\ EventsOwned /\ FailuresKnown
  BY DEF Off, Idle, StreamInv
<1>A. ASSUME ~StartBegin, HeldSlots' \subseteq HeldSlots PROVE FailuresKnown'
  BY <1>0, <1>A, EmittedGrows DEF FailuresKnown
<1>B. ASSUME ~StartBegin, HeldFailures' = HeldFailures, HeldBlocks' = HeldBlocks
      PROVE  FailuresKnown'
  BY <1>A, <1>B DEF HeldSlots
<1>C. ASSUME /\ preCheckpointCh' = <<>> /\ finalOut' = <<>>
             /\ retryFailureCh' = <<>> /\ dispatchFailureCh' = <<>>,
             checkpointer' \in {Off, Idle}, retrier' \in {Off, Idle}, handler' \in {Off, Idle}
      PROVE  FailuresKnown'
  <2>1. HeldFailures' = {} BY <1>0, <1>C, NoHeights DEF HeldFailures
  <2>2. HeldBlocks' = {} BY <1>0, <1>C, NoHeights DEF HeldBlocks, Checkpointing
  <2> QED BY <2>1, <2>2 DEF FailuresKnown, HeldSlots, SlotsOfFailures, SlotsOfRefetched
<1>1. CASE StartBegin BY <1>1, <1>C DEF StartBegin
<1>2. CASE Ending
  <2>1. PICK message : ProcessEnds(message) BY <1>2, EndingEnds
  <2> QED BY <1>C, <2>1 DEF ProcessEnds
<1>3. CASE /\ ~StartBegin
           /\ \/ \E n \in Networks : Subscription(n) \/ LaunchNetwork(n)
              \/ LaunchFails \/ StartFails \/ StartReturns \/ CloseBegin \/ CloseEnds
              \/ CallerCancels \/ UNCHANGED vars
  <2>1. UNCHANGED <<preCheckpointCh, finalOut, retryFailureCh, dispatchFailureCh, checkpointer,
                    retrier, handler>>
    <3>1. ASSUME NEW n \in Networks, Subscription(n)
          PROVE  UNCHANGED <<preCheckpointCh, finalOut, retryFailureCh, dispatchFailureCh,
                             checkpointer, retrier, handler>>
      BY <3>1 DEF Subscription, EmitBlock, EmitTipError, Emit
    <3>2. ASSUME NEW n \in Networks, LaunchNetwork(n)
          PROVE  UNCHANGED <<preCheckpointCh, finalOut, retryFailureCh, dispatchFailureCh,
                             checkpointer, retrier, handler>>
      BY <3>2 DEF LaunchNetwork
    <3> QED BY <1>3, <3>1, <3>2
            DEF LaunchFails, StartFails, StartReturns, CloseBegin, CloseEnds, CallerCancels, vars
  <2> QED BY <1>3, <1>B, <2>1 DEF HeldFailures, HeldBlocks, Checkpointing
<1>4. CASE /\ ~StartBegin
           /\ RetryReceive \/ FetchSucceeds \/ FetchFails \/ ReportFailure \/ HandlerReceive
              \/ NotifyFailure
  <2>1. SlotsOfFailures(HeldFailures)' \subseteq SlotsOfFailures(HeldFailures)
    BY <1>4, FailuresPassOn
  <2>2. UNCHANGED <<preCheckpointCh, finalOut, checkpointer>>
    BY <1>4 DEF RetryReceive, FetchSucceeds, FetchFails, ReportFailure, HandlerReceive,
                NotifyFailure
  <2>3. HeldBlocks' = HeldBlocks BY <2>2 DEF HeldBlocks, Checkpointing
  <2> QED BY <1>4, <1>A, <2>1, <2>3 DEF HeldSlots
<1>5. CASE /\ ~StartBegin
           /\ CheckpointReceive \/ SaveCheckpoint \/ Forward \/ ForwardEnds \/ Consume
  <2>1. SlotsOfRefetched(HeldBlocks)' \subseteq HeldSlots BY <1>5, RefetchedPassOn
  <2>2. UNCHANGED <<retryFailureCh, dispatchFailureCh, retrier, handler>>
    BY <1>5 DEF CheckpointReceive, SaveCheckpoint, Forward, ForwardEnds, Consume
  <2>3. HeldFailures' = HeldFailures BY <2>2 DEF HeldFailures
  <2> QED BY <1>5, <1>A, <2>1, <2>3 DEF HeldSlots
<1>6. CASE ~StartBegin /\ SendRecovered
  <2>1. SlotsOfRefetched(HeldBlocks)' \subseteq HeldSlots BY <1>6, RefetchedPassOn
  <2>2. SlotsOfFailures(HeldFailures)' \subseteq SlotsOfFailures(HeldFailures)
    BY <1>6, FailuresPassOn
  <2> QED BY <1>6, <1>A, <2>1, <2>2 DEF HeldSlots
<1>7. ASSUME ~StartBegin, NEW n \in Networks, Dispatch(n) PROVE FailuresKnown'
  <2>1. UNCHANGED <<finalOut, checkpointer, retrier, handler, emitted>>
    BY <1>7 DEF Dispatch, DispatchReceive, DispatchSend, DispatchSendEnds
  <2>2. CASE DispatchReceive(n) \/ DispatchSendEnds(n)
    <3>1. UNCHANGED <<preCheckpointCh, retryFailureCh, dispatchFailureCh>>
      BY <2>2 DEF DispatchReceive, DispatchSendEnds
    <3> QED BY <1>7, <1>B, <2>1, <3>1 DEF HeldFailures, HeldBlocks, Checkpointing
  <2>3. CASE DispatchSend(n)
    <3> DEFINE e == dispatcher[n].event
    <3>1. e \in Event /\ e \in emitted
      BY <1>0, <2>3, HeldTypes DEF DispatchSend, EventsOwned, Dispatched
    <3>2. CASE e.kind # "error"
      <4>1. UNCHANGED <<retryFailureCh, dispatchFailureCh>>
            /\ preCheckpointCh' = Append(preCheckpointCh, BlockOf(e))
        BY <2>3, <3>2 DEF DispatchSend
      <4>2. BlockOf(e) \in ObservedBlock /\ ~BlockOf(e).refetched
        BY <3>1, BlockOfType DEF BlockOf, Event
      <4>3. Elements(preCheckpointCh') = Elements(preCheckpointCh) \cup {BlockOf(e)}
        BY <4>1, <4>2, BlockSent DEF TypeOK, ChannelTypes
      <4>4. HeldBlocks' = HeldBlocks \cup {BlockOf(e)}
        BY <2>1, <4>3 DEF HeldBlocks, Checkpointing
      <4>5. SlotsOfRefetched(HeldBlocks)' = SlotsOfRefetched(HeldBlocks)
        BY <4>2, <4>4 DEF SlotsOfRefetched
      <4>6. HeldFailures' = HeldFailures BY <2>1, <4>1 DEF HeldFailures
      <4> QED BY <1>7, <1>A, <4>5, <4>6 DEF HeldSlots
    <3>3. CASE e.kind = "error"
      <4> DEFINE f == FailureOf(e, "not")
      <4>1. /\ f \in DispatchFailure
            /\ f.network = e.network /\ f.height = e.height
        BY <3>1 DEF FailureOf, Event, DispatchFailure
      <4>2. /\ UNCHANGED preCheckpointCh
            /\ \/ retryFailureCh' = Append(retryFailureCh, f) /\ UNCHANGED dispatchFailureCh
               \/ dispatchFailureCh' = Append(dispatchFailureCh, f) /\ UNCHANGED retryFailureCh
        BY <2>3, <3>3 DEF DispatchSend, SubmitFailure
      <4> HIDE DEF f
      <4>3. Elements(retryFailureCh') \cup Elements(dispatchFailureCh')
              = Elements(retryFailureCh) \cup Elements(dispatchFailureCh) \cup {f}
        BY <4>1, <4>2, FailureSent DEF TypeOK, ChannelTypes
      <4>4. HeldFailures' = HeldFailures \cup {f} BY <2>1, <4>3 DEF HeldFailures
      <4>5. HeldBlocks' = HeldBlocks BY <2>1, <4>2 DEF HeldBlocks, Checkpointing
      <4>6. <<f.network, f.height>> \in FailedSlots BY <3>1, <3>3, <4>1 DEF FailedSlots
      <4>7. SlotsOfFailures(HeldFailures') \subseteq SlotsOfFailures(HeldFailures) \cup FailedSlots
        BY <4>4, <4>6 DEF SlotsOfFailures
      <4>8. FailedSlots' = FailedSlots BY <2>1 DEF FailedSlots
      <4> QED BY <1>0, <4>5, <4>7, <4>8 DEF FailuresKnown, HeldSlots
    <3> QED BY <3>2, <3>3
  <2> QED BY <1>7, <2>2, <2>3 DEF Dispatch
<1> QED BY <1>1, <1>2, <1>3, <1>4, <1>5, <1>6, <1>7, StepKinds DEF OtherStep

-----------------------------------------------------------------------------
LEMMA StreamInit == Init => StreamInv
<1> SUFFICES ASSUME Init PROVE StreamInv OBVIOUS
<1>1. /\ finalOut = <<>> /\ preCheckpointCh = <<>> /\ checkpointer.at = "off"
      /\ retryFailureCh = <<>> /\ dispatchFailureCh = <<>>
      /\ retrier = Off /\ handler.at = "off" /\ cancelled = TRUE
      /\ \A n \in Networks : eventsCh[n] = <<>> /\ dispatcher[n].at = "off" /\ delivered[n] = <<>>
  BY DEF Init, Off
<1>2. Checkpointing = {} /\ \A n \in Networks : Dispatched(n) = {}
  BY <1>1 DEF Checkpointing, Dispatched
<1>3. StagesInOrder
  BY <1>1, <1>2, NoHeights
  DEF StagesInOrder, InOrder, Below, Got, Ready, Saving, Waiting, Sending, Coming
<1>4. ChannelsRise BY <1>1 DEF ChannelsRise, RisingBlocks, RisingEvents
<1>5. EventsOwned /\ NextIsAbove BY <1>1, <1>2, NoHeights DEF EventsOwned, NextIsAbove
<1>6. FailuresKnown
  <2>1. HeldFailures = {} /\ HeldBlocks = {}
    BY <1>1, <1>2, NoHeights DEF HeldFailures, HeldBlocks
  <2> QED BY <2>1 DEF FailuresKnown, HeldSlots, SlotsOfFailures, SlotsOfRefetched
<1> QED BY <1>3, <1>4, <1>5, <1>6 DEF StreamInv

LEMMA StreamStep ==
  ASSUME DeliveryInv, Order, StreamInv, [Next]_vars
  PROVE  StreamInv'
<1>1. TypeOK /\ LaunchedOnce BY DEF DeliveryInv
<1>2. StagesInOrder' /\ ChannelsRise' BY <1>1, OrderIsKept
<1>3. NextIsAbove' BY NextStaysAbove
<1>4. EventsOwned' BY <1>1, EventsStayOwned DEF StreamInv
<1>5. FailuresKnown' BY <1>1, FailuresStayKnown
<1> QED BY <1>2, <1>3, <1>4, <1>5 DEF StreamInv

LEMMA StreamInvariant == Spec => [](DeliveryInv /\ Order /\ StreamInv)
<1>1. DeliveryInv /\ Order /\ StreamInv /\ [Next]_vars => StreamInv' BY StreamStep
<1> QED BY <1>1, StreamInit, AheadInvariant, PTL DEF Spec

-----------------------------------------------------------------------------
(* The refinement                                                           *)

\* The mapping of ChainStream, by stages.
Before(n) ==
  IF checkpointer = Off THEN {} ELSE Saving(n) \cup Waiting(n) \cup Sending(n) \cup Coming(n)
UnderWay(n) == Ready(n) \cup Before(n)

LEMMA StreamByStages ==
  /\ [n \in Networks |-> Straight(Elements(finalOut), n) \cup BeforeForward(n)]
       = [n \in Networks |-> UnderWay(n)]
  /\ [n \in Networks |-> Straight(Elements(delivered[n]), n)] = [n \in Networks |-> Got(n)]
BY DEF UnderWay, Before, BeforeForward, BeforeSend, Got, Ready, Saving, Waiting, Sending, Coming

LEMMA StreamByStagesNext ==
  /\ [n \in Networks |-> Straight(Elements(finalOut), n) \cup BeforeForward(n)]'
       = [n \in Networks |-> UnderWay(n)']
  /\ [n \in Networks |-> Straight(Elements(delivered[n]), n)]' = [n \in Networks |-> Got(n)']
BY DEF UnderWay, Before, BeforeForward, BeforeSend, Got, Ready, Saving, Waiting, Sending, Coming

LEMMA SlotsFrame ==
  /\ UNCHANGED emitted => UNCHANGED FailedSlots
  /\ UNCHANGED delivered => UNCHANGED RecoveredSlots
  /\ UNCHANGED notified => UNCHANGED NotifiedSlots
BY DEF FailedSlots, RecoveredSlots, NotifiedSlots

\* Nothing changes that the consumer, the notifier or the stream can tell.
LEMMA AsStutter ==
  ASSUME \A n \in Networks : UNCHANGED <<Got(n), UnderWay(n)>>,
         UNCHANGED <<FailedSlots, RecoveredSlots, NotifiedSlots>>
  PROVE  UNCHANGED Delivery!vars
<1>1. [n \in Networks |-> UnderWay(n)'] = [n \in Networks |-> UnderWay(n)] OBVIOUS
<1>2. [n \in Networks |-> Got(n)'] = [n \in Networks |-> Got(n)] OBVIOUS
<1> QED BY <1>1, <1>2, StreamByStages, StreamByStagesNext DEF Delivery!vars

LEMMA AsCut ==
  ASSUME \A n \in Networks :
           /\ UNCHANGED Got(n) /\ UnderWay(n)' \subseteq UnderWay(n)
           /\ Below(UnderWay(n)', UnderWay(n) \ UnderWay(n)'),
         UNCHANGED <<FailedSlots, RecoveredSlots, NotifiedSlots>>
  PROVE  Delivery!Cut
<1>1. [n \in Networks |-> Got(n)'] = [n \in Networks |-> Got(n)] OBVIOUS
<1>2. ASSUME NEW n \in Networks
      PROVE  \A kept \in UnderWay(n)', lost \in UnderWay(n) \ UnderWay(n)' : kept < lost
  BY DEF Below
<1> QED BY <1>1, <1>2, StreamByStages, StreamByStagesNext DEF Delivery!Cut

LEMMA AsBegin ==
  ASSUME \A n \in Networks : Got(n)' = {} /\ UnderWay(n)' = {},
         FailedSlots' = {}, RecoveredSlots' = {}, NotifiedSlots' = {}
  PROVE  Delivery!Begin
<1>1. [n \in Networks |-> UnderWay(n)'] = [n \in Networks |-> {}] OBVIOUS
<1>2. [n \in Networks |-> Got(n)'] = [n \in Networks |-> {}] OBVIOUS
<1> QED BY <1>1, <1>2, StreamByStagesNext DEF Delivery!Begin

LEMMA AsAnnounce ==
  ASSUME NEW n \in Networks, NEW h \in 1..MaxHeight,
         Below(Got(n) \cup UnderWay(n), {h}), UnderWay(n)' = UnderWay(n) \cup {h},
         \A m \in Networks \ {n} : UNCHANGED UnderWay(m),
         \A m \in Networks : UNCHANGED Got(m),
         UNCHANGED <<FailedSlots, RecoveredSlots, NotifiedSlots>>
  PROVE  Delivery!Announce(n)
<1>1. [m \in Networks |-> UnderWay(m)']
        = [[m \in Networks |-> UnderWay(m)] EXCEPT ![n] = UnderWay(n) \cup {h}]
  OBVIOUS
<1>2. [m \in Networks |-> Got(m)'] = [m \in Networks |-> Got(m)] OBVIOUS
<1>3. \A below \in Got(n) \cup UnderWay(n) : below < h BY DEF Below
<1> QED BY <1>1, <1>2, <1>3, StreamByStages, StreamByStagesNext DEF Delivery!Announce

LEMMA AsDeliver ==
  ASSUME NEW n \in Networks, NEW h \in UnderWay(n),
         Below({h}, UnderWay(n) \ {h}), Below(Got(n), {h}),
         UnderWay(n)' = UnderWay(n) \ {h}, Got(n)' = Got(n) \cup {h},
         \A m \in Networks \ {n} : UNCHANGED <<Got(m), UnderWay(m)>>,
         UNCHANGED <<FailedSlots, RecoveredSlots, NotifiedSlots>>
  PROVE  Delivery!Deliver(n)
<1>1. [m \in Networks |-> UnderWay(m)']
        = [[m \in Networks |-> UnderWay(m)] EXCEPT ![n] = UnderWay(n) \ {h}]
  OBVIOUS
<1>2. [m \in Networks |-> Got(m)']
        = [[m \in Networks |-> Got(m)] EXCEPT ![n] = Got(n) \cup {h}]
  OBVIOUS
<1>3. /\ \A later \in UnderWay(n) \ {h} : h < later
      /\ \A earlier \in Got(n) : earlier < h
  BY DEF Below
<1> QED BY <1>1, <1>2, <1>3, StreamByStages, StreamByStagesNext DEF Delivery!Deliver

\* A height is added to what is known of failures, and the stream is as it was.
LEMMA AsFailure ==
  ASSUME \A n \in Networks : UNCHANGED <<Got(n), UnderWay(n)>>
  PROVE  /\ \A n \in Networks, h \in 1..MaxHeight :
              /\ FailedSlots' = FailedSlots \cup {<<n, h>>}
              /\ UNCHANGED <<RecoveredSlots, NotifiedSlots>>
              => Delivery!Fail(n)
         /\ \A s \in FailedSlots :
              /\ RecoveredSlots' = RecoveredSlots \cup {s}
              /\ UNCHANGED <<FailedSlots, NotifiedSlots>>
              => Delivery!Recover
         /\ \A s \in FailedSlots :
              /\ NotifiedSlots' = NotifiedSlots \cup {s}
              /\ UNCHANGED <<FailedSlots, RecoveredSlots>>
              => Delivery!Report
<1>1. [n \in Networks |-> UnderWay(n)'] = [n \in Networks |-> UnderWay(n)] OBVIOUS
<1>2. [n \in Networks |-> Got(n)'] = [n \in Networks |-> Got(n)] OBVIOUS
<1> QED
  BY <1>1, <1>2, StreamByStages, StreamByStagesNext
  DEF Delivery!Fail, Delivery!Recover, Delivery!Report

\* The clients announce heights, or report failures.
LEMMA EmitRefines ==
  ASSUME TypeOK, StreamInv, NEW n \in Networks, Subscription(n)
  PROVE  [Delivery!Next]_(Delivery!vars)
<1>0. ChannelsRise /\ NextIsAbove BY DEF StreamInv
<1>1. /\ ~cancelled /\ UNCHANGED <<checkpointer, delivered, notified>>
  BY DEF Subscription, EmitBlock, EmitTipError, Emit, workers, outcome
<1>2. UNCHANGED <<RecoveredSlots, NotifiedSlots>> BY <1>1, SlotsFrame
<1>3. \A m \in Networks \ {n} : UNCHANGED <<Got(m), UnderWay(m)>>
  <2>1. \A m \in Networks \ {n} : UNCHANGED Stages(m) BY <1>0, EmitMoves
  <2> QED BY <1>1, <2>1 DEF Stages, UnderWay, Before
<1>4. CASE Announces(n) /\ nextHeight[n] \in 1..MaxHeight /\ UNCHANGED FailedSlots
  <2>1. UNCHANGED Got(n) BY <1>4 DEF Announces
  <2>2. CASE checkpointer = Off
    <3>1. UNCHANGED UnderWay(n) BY <1>1, <1>4, <2>2 DEF Announces, UnderWay, Before
    <3> QED BY <1>2, <1>3, <1>4, <2>1, <3>1, AsStutter
  <2>3. CASE checkpointer # Off
    <3>1. UnderWay(n)' = UnderWay(n) \cup {nextHeight[n]}
      BY <1>1, <1>4, <2>3 DEF Announces, UnderWay, Before
    <3>2. Below(Got(n) \cup UnderWay(n), {nextHeight[n]})
      BY <1>0, <1>1, <2>3 DEF NextIsAbove, AllHeights, UnderWay, Before, Below
    <3>3. Delivery!Announce(n) BY <1>2, <1>3, <1>4, <2>1, <3>1, <3>2, AsAnnounce
    <3> QED BY <3>3 DEF Delivery!Next
  <2> QED BY <2>2, <2>3
<1>5. CASE /\ UNCHANGED Stages(n) /\ nextHeight[n] \in 1..MaxHeight
           /\ FailedSlots' = FailedSlots \cup {<<n, nextHeight[n]>>}
  <2>1. UNCHANGED <<Got(n), UnderWay(n)>> BY <1>1, <1>5 DEF Stages, UnderWay, Before
  <2>2. Delivery!Fail(n) BY <1>2, <1>3, <1>5, <2>1, AsFailure
  <2> QED BY <2>2 DEF Delivery!Next
<1> QED BY <1>0, <1>4, <1>5, EmitMoves

\* A dispatcher moves heights on, or takes with it the end of what is under way.
LEMMA DispatchRefines ==
  ASSUME TypeOK, StreamInv, NEW n \in Networks, Dispatch(n)
  PROVE  [Delivery!Next]_(Delivery!vars)
<1>0. ChannelsRise /\ StagesInOrder /\ EventsOwned BY DEF StreamInv
<1>1. UNCHANGED <<checkpointer, delivered, notified, emitted>>
  BY DEF Dispatch, DispatchReceive, DispatchSend, DispatchSendEnds, outcome, source
<1>2. UNCHANGED <<FailedSlots, RecoveredSlots, NotifiedSlots>> BY <1>1, SlotsFrame
<1>3. \A m \in Networks \ {n} : UNCHANGED <<Got(m), UnderWay(m)>>
  <2>1. \A m \in Networks \ {n} : UNCHANGED Stages(m) BY <1>0, DispatchMoves
  <2> QED BY <1>1, <2>1 DEF Stages, UnderWay, Before
<1>4. CASE Takes(n) \/ Queues(n)
  <2>1. UNCHANGED <<Got(n), UnderWay(n)>>
    BY <1>1, <1>4 DEF Takes, Queues, UnderWay, Before
  <2> QED BY <1>2, <1>3, <2>1, AsStutter
<1>5. CASE DispatcherLeaves(n)
  <2>1. UNCHANGED Got(n) /\ UnderWay(n)' \subseteq UnderWay(n)
    BY <1>1, <1>5 DEF DispatcherLeaves, UnderWay, Before
  <2>2. Below(UnderWay(n)', UnderWay(n) \ UnderWay(n)')
    BY <1>0, <1>1, <1>5 DEF StagesInOrder, InOrder, DispatcherLeaves, UnderWay, Before, Below
  <2>3. \A m \in Networks : /\ UNCHANGED Got(m) /\ UnderWay(m)' \subseteq UnderWay(m)
                            /\ Below(UnderWay(m)', UnderWay(m) \ UnderWay(m)')
    BY <1>3, <2>1, <2>2 DEF Below
  <2>4. Delivery!Cut BY <1>2, <2>3, AsCut
  <2> QED BY <2>4 DEF Delivery!Next
<1> QED BY <1>0, <1>4, <1>5, DispatchMoves

\* So does the checkpointer.
LEMMA CheckpointRefines ==
  ASSUME TypeOK, StreamInv, CheckpointReceive \/ SaveCheckpoint \/ Forward \/ ForwardEnds
  PROVE  [Delivery!Next]_(Delivery!vars)
<1>0. ChannelsRise /\ StagesInOrder BY DEF StreamInv
<1>1. /\ checkpointer # Off
      /\ \/ checkpointer' # Off /\ \A n \in Networks : Picks(n)
         \/ checkpointer' # Off /\ \A n \in Networks : UNCHANGED Stages(n)
         \/ checkpointer' # Off /\ \A n \in Networks : Forwards(n)
         \/ checkpointer' = Off /\ \A n \in Networks : CheckpointerLeaves(n)
      /\ UNCHANGED <<delivered, notified, emitted>>
  BY <1>0, CheckpointMoves
<1>2. UNCHANGED <<FailedSlots, RecoveredSlots, NotifiedSlots>> BY <1>1, SlotsFrame
<1>3. CASE checkpointer' # Off
  <2>1. ASSUME NEW n \in Networks PROVE UNCHANGED <<Got(n), UnderWay(n)>>
    <3>1. Picks(n) \/ UNCHANGED Stages(n) \/ Forwards(n) BY <1>1, <1>3
    <3> QED BY <1>1, <1>3, <3>1 DEF Picks, Stages, Forwards, UnderWay, Before
  <2> QED BY <1>2, <2>1, AsStutter
<1>4. CASE checkpointer' = Off
  <2>1. ASSUME NEW n \in Networks
        PROVE  /\ UNCHANGED Got(n) /\ UnderWay(n)' \subseteq UnderWay(n)
               /\ Below(UnderWay(n)', UnderWay(n) \ UnderWay(n)')
    <3>1. CheckpointerLeaves(n) BY <1>1, <1>4
    <3>2. UNCHANGED Got(n) /\ UnderWay(n)' = Ready(n)
      BY <1>4, <3>1 DEF CheckpointerLeaves, UnderWay, Before
    <3>3. Below(Ready(n), UnderWay(n) \ Ready(n))
      BY <1>0, <1>1 DEF StagesInOrder, InOrder, UnderWay, Before, Below
    <3> QED BY <3>2, <3>3 DEF UnderWay
  <2>2. Delivery!Cut BY <1>2, <2>1, AsCut
  <2> QED BY <2>2 DEF Delivery!Next
<1> QED BY <1>3, <1>4

\* The consumer is handed the first height of its network, or a recovered one.
LEMMA ConsumeRefines ==
  ASSUME TypeOK, StreamInv, Consume
  PROVE  [Delivery!Next]_(Delivery!vars)
<1>0. ChannelsRise /\ StagesInOrder /\ FailuresKnown BY DEF StreamInv
<1>1. UNCHANGED <<checkpointer, notified, emitted>> BY DEF Consume, workers, source
<1>2. UNCHANGED <<FailedSlots, NotifiedSlots>> BY <1>1, SlotsFrame
<1>3. PICK b \in ObservedBlock :
        /\ b \in Elements(finalOut)
        /\ \A n \in Networks :
             /\ Ready(n) = Straight({b}, n) \cup Ready(n)'
             /\ Below(Straight({b}, n), Ready(n)')
             /\ Got(n)' = Got(n) \cup Straight({b}, n)
             /\ UNCHANGED <<Saving(n), Waiting(n), Sending(n), Coming(n)>>
        /\ RecoveredSlots' = RecoveredSlots \cup
                               (IF b.refetched THEN {<<b.network, b.height>>} ELSE {})
  BY <1>0, ConsumeMoves
<1>4. \A n \in Networks : UNCHANGED Before(n) BY <1>1, <1>3 DEF Before
<1>5. b.network \in Networks /\ b.height \in Nat BY BlockFields DEF Heights
<1>6. \A n \in Networks : Straight({b}, n) = {} => UNCHANGED <<Got(n), UnderWay(n)>>
  BY <1>3, <1>4 DEF UnderWay
<1>7. CASE b.refetched
  <2>1. \A n \in Networks : UNCHANGED <<Got(n), UnderWay(n)>> BY <1>6, <1>7, StraightOfOne
  <2>2. b \in HeldBlocks BY <1>3 DEF HeldBlocks
  <2>3. <<b.network, b.height>> \in FailedSlots
    BY <1>0, <1>7, <2>2 DEF FailuresKnown, HeldSlots, SlotsOfRefetched
  <2>4. Delivery!Recover BY <1>2, <1>3, <1>7, <2>1, <2>3, AsFailure
  <2> QED BY <2>4 DEF Delivery!Next
<1>8. CASE ~b.refetched
  <2> DEFINE n == b.network
             h == b.height
  <2>1. Straight({b}, n) = {h} BY <1>5, <1>8, StraightOfOne
  <2>2. \A m \in Networks \ {n} : UNCHANGED <<Got(m), UnderWay(m)>>
    BY <1>6, StraightOfOne
  <2>3. /\ Ready(n) = {h} \cup Ready(n)' /\ Below({h}, Ready(n)')
        /\ Got(n)' = Got(n) \cup {h} /\ Before(n)' = Before(n)
    BY <1>3, <1>4, <1>5, <2>1
  <2>4. /\ Below(Got(n), Ready(n)) /\ Below(Ready(n), Before(n))
    BY <1>0, <1>5 DEF StagesInOrder, InOrder, Before, Below
  <2>5. h \in UnderWay(n) /\ Below(Got(n), {h}) BY <2>3, <2>4 DEF UnderWay, Below
  <2>6. h \notin Ready(n)' /\ h \notin Before(n)
    BY <1>5, <2>3, <2>4 DEF Below
  <2>7. UnderWay(n)' = UnderWay(n) \ {h} BY <2>3, <2>6 DEF UnderWay
  <2>8. Below({h}, UnderWay(n) \ {h}) BY <2>3, <2>4 DEF UnderWay, Below
  <2>9. UNCHANGED RecoveredSlots BY <1>3, <1>8
  <2> HIDE DEF n, h
  <2>10. n \in Networks BY <1>5 DEF n
  <2>11. Delivery!Deliver(n)
    BY <1>2, <2>2, <2>3, <2>5, <2>7, <2>8, <2>9, <2>10, AsDeliver
  <2> QED BY <2>10, <2>11 DEF Delivery!Next
<1> QED BY <1>7, <1>8

LEMMA OtherRefines ==
  ASSUME TypeOK, LaunchedOnce, StreamInv, OtherStep \/ SendRecovered \/ UNCHANGED vars
  PROVE  [Delivery!Next]_(Delivery!vars)
<1> USE DEF lifecycle, source, channels, workers, outcome, storage
<1>1. ChannelsRise /\ FailuresKnown BY DEF StreamInv
<1>2. /\ UNCHANGED <<checkpointer, delivered, emitted>>
      /\ UNCHANGED notified \/ NotifyFailure
  BY DEF OtherStep, LaunchNetwork, LaunchFails, StartFails, StartReturns, CloseBegin, CloseEnds,
         CallerCancels, RetryReceive, FetchSucceeds, FetchFails, ReportFailure, HandlerReceive,
         NotifyFailure, SendRecovered, vars
<1>3. \A n \in Networks : UNCHANGED <<Got(n), UnderWay(n)>>
  <2>1. \A n \in Networks : UNCHANGED Stages(n) BY <1>1, OtherMoves, RecoverMoves
  <2> QED BY <1>2, <2>1 DEF Stages, UnderWay, Before
<1>4. UNCHANGED <<FailedSlots, RecoveredSlots>> BY <1>2, SlotsFrame
<1>5. CASE UNCHANGED notified
  BY <1>3, <1>4, <1>5, SlotsFrame, AsStutter
<1>6. CASE NotifyFailure
  <2>1. handler.failure \in HeldFailures BY <1>6 DEF NotifyFailure, HeldFailures
  <2>2. <<handler.failure.network, handler.failure.height>> \in FailedSlots
    BY <1>1, <2>1 DEF FailuresKnown, HeldSlots, SlotsOfFailures
  <2>3. NotifiedSlots' = NotifiedSlots \cup {<<handler.failure.network, handler.failure.height>>}
    BY <1>6 DEF NotifyFailure, NotifiedSlots
  <2>4. Delivery!Report BY <1>3, <1>4, <2>2, <2>3, AsFailure
  <2> QED BY <2>4 DEF Delivery!Next
<1> QED BY <1>2, <1>5, <1>6

\* Every step of ChainStream is one of BlockDelivery, or changes nothing there.
LEMMA DeliveryStep ==
  ASSUME DeliveryInv, StreamInv, [Next]_vars
  PROVE  [Delivery!Next]_(Delivery!vars)
<1>0. TypeOK /\ LaunchedOnce BY DEF DeliveryInv
<1>1. CASE StartBegin
  <2>1. \A n \in Networks : Got(n)' = {} /\ UnderWay(n)' = {}
    BY <1>1, StartMoves DEF Restarts, UnderWay, Before
  <2>2. /\ emitted' = {} /\ notified' = {} /\ \A n \in Networks : delivered'[n] = <<>>
    BY <1>1 DEF StartBegin
  <2>3. UNION {Elements(delivered'[n]) : n \in Networks} = {}
    BY <2>2, NoHeights
  <2>4. FailedSlots' = {} /\ RecoveredSlots' = {} /\ NotifiedSlots' = {}
    BY <2>2, <2>3 DEF FailedSlots, RecoveredSlots, NotifiedSlots
  <2>5. Delivery!Begin BY <2>1, <2>4, AsBegin
  <2> QED BY <2>5 DEF Delivery!Next
<1>2. CASE Ending
  <2>1. PICK message : ProcessEnds(message) BY <1>2, EndingEnds
  <2>2. \A n \in Networks : Empties(n) BY <2>1, ProcessEndsMoves
  <2>3. ASSUME NEW n \in Networks
        PROVE  /\ UNCHANGED Got(n) /\ UnderWay(n)' \subseteq UnderWay(n)
               /\ Below(UnderWay(n)', UnderWay(n) \ UnderWay(n)')
    BY <2>2 DEF Empties, UnderWay, Before, Below
  <2>4. UNCHANGED <<delivered, notified, emitted>> BY <2>1 DEF ProcessEnds, outcome
  <2>5. Delivery!Cut BY <2>3, <2>4, SlotsFrame, AsCut
  <2> QED BY <2>5 DEF Delivery!Next
<1>3. CASE OtherStep \/ SendRecovered \/ UNCHANGED vars BY <1>0, <1>3, OtherRefines
<1>4. CASE \E n \in Networks : Subscription(n) BY <1>0, <1>4, EmitRefines
<1>5. CASE \E n \in Networks : Dispatch(n) BY <1>0, <1>5, DispatchRefines
<1>6. CASE CheckpointReceive \/ SaveCheckpoint \/ Forward \/ ForwardEnds
  BY <1>0, <1>6, CheckpointRefines
<1>7. CASE Consume BY <1>0, <1>7, ConsumeRefines
<1> QED BY <1>1, <1>2, <1>3, <1>4, <1>5, <1>6, <1>7, StepKinds

LEMMA DeliveryBegins == Init => Delivery!Init
<1> SUFFICES ASSUME Init PROVE Delivery!Init OBVIOUS
<1>1. /\ finalOut = <<>> /\ checkpointer = Off /\ emitted = {} /\ notified = {}
      /\ \A n \in Networks : delivered[n] = <<>>
  BY DEF Init
<1>2. \A n \in Networks : Got(n) = {} /\ UnderWay(n) = {}
  BY <1>1, NoHeights DEF Got, UnderWay, Ready, Before
<1>3. UNION {Elements(delivered[n]) : n \in Networks} = {} BY <1>1, NoHeights
<1>4. FailedSlots = {} /\ RecoveredSlots = {} /\ NotifiedSlots = {}
  BY <1>1, <1>3 DEF FailedSlots, RecoveredSlots, NotifiedSlots
<1>5. /\ [n \in Networks |-> UnderWay(n)] = [n \in Networks |-> {}]
      /\ [n \in Networks |-> Got(n)] = [n \in Networks |-> {}]
  BY <1>2
<1> QED BY <1>4, <1>5, StreamByStages DEF Delivery!Init

\* Through every stop, cancellation, panic and crash, and with any networks,
\* capacities, retry policy and storage: what the goroutines and channels of
\* chainstream hand to the consumer and to the notifier is the ordered delivery
\* of BlockDelivery.  No block overtakes another of its network, none comes out
\* twice or from nowhere, only failed heights are recovered or reported.
THEOREM PipelineDeliversInOrder == Spec => ImplementsDelivery
<1>1. DeliveryInv /\ StreamInv /\ [Next]_vars => [Delivery!Next]_(Delivery!vars)
  BY DeliveryStep
<1> QED BY <1>1, DeliveryBegins, StreamInvariant, PTL
        DEF Spec, ImplementsDelivery, Delivery!Spec

-----------------------------------------------------------------------------
(* What the consumer reads, as a sequence                                   *)

\* The blocks a network's subscription brought, in the order they were read,
\* rise in height: the same block is not read twice, nor a lower one later.
DeliveredRise == \A n \in Networks : RisingBlocks(delivered[n])

LEMMA DeliveredStaysRising ==
  ASSUME TypeOK, LaunchedOnce, StreamInv, DeliveredRise, [Next]_vars
  PROVE  DeliveredRise'
<1> USE DEF lifecycle, source, channels, workers, outcome, storage
<1>1. CASE UNCHANGED delivered BY <1>1 DEF DeliveredRise
<1>2. CASE StartBegin BY <1>2 DEF StartBegin, DeliveredRise, RisingBlocks
<1>3. CASE Consume
  <2>1. /\ finalOut \in Seq(ObservedBlock) /\ delivered \in [Networks -> Seq(ObservedBlock)]
        /\ Receives(finalOut)
    BY <1>3 DEF TypeOK, ChannelTypes, OutcomeTypes, Consume
  <2>2. PICK b \in ObservedBlock : b = Head(finalOut) /\ b \in Elements(finalOut)
    <3>1. Elements(finalOut) = {Head(finalOut)} \cup Elements(Tail(finalOut))
      BY <2>1, BlockReceived
    <3>2. Head(finalOut) \in ObservedBlock BY <2>1, ReceiveElements
    <3> QED BY <3>1, <3>2
  <2>3. delivered' = [delivered EXCEPT ![b.network] = Append(delivered[b.network], b)]
    BY <1>3, <2>2 DEF Consume
  <2>4. b.network \in Networks BY BlockFields
  <2>5. /\ delivered'[b.network] = Append(delivered[b.network], b)
        /\ \A n \in Networks : n # b.network => delivered'[n] = delivered[n]
    BY <2>1, <2>3, <2>4
  <2>6. ASSUME NEW m \in Networks
        PROVE  Below(Straight(Elements(delivered[b.network]), m), Straight({b}, m))
    <3>1. CASE m = b.network
      <4>1. Straight({b}, m) \subseteq Ready(m) BY <2>2 DEF Straight, Ready
      <4>2. Below(Got(m), Ready(m)) BY DEF StreamInv, StagesInOrder, InOrder, Below
      <4> QED BY <3>1, <4>1, <4>2 DEF Got, Below
    <3>2. CASE m # b.network
      <4>1. Straight({b}, m) = {} BY <3>2, StraightOfOne
      <4> QED BY <4>1 DEF Below
    <3> QED BY <3>1, <3>2
  <2>7. RisingBlocks(Append(delivered[b.network], b))
    BY <2>1, <2>4, <2>6, BlockSentRises DEF DeliveredRise
  <2> QED BY <2>5, <2>7 DEF DeliveredRise
<1>4. Ending => UNCHANGED delivered
  <2> SUFFICES ASSUME Ending PROVE UNCHANGED delivered OBVIOUS
  <2>1. PICK message : ProcessEnds(message) BY EndingEnds
  <2> QED BY <2>1 DEF ProcessEnds
<1>5. OtherStep \/ SendRecovered \/ UNCHANGED vars => UNCHANGED delivered
  BY DEF OtherStep, LaunchNetwork, LaunchFails, StartFails, StartReturns, CloseBegin, CloseEnds,
         CallerCancels, RetryReceive, FetchSucceeds, FetchFails, ReportFailure, HandlerReceive,
         NotifyFailure, SendRecovered, vars
<1>6. \A n \in Networks : Subscription(n) \/ Dispatch(n) => UNCHANGED delivered
  BY DEF Subscription, EmitBlock, EmitTipError, Emit, Dispatch, DispatchReceive, DispatchSend,
         DispatchSendEnds
<1>7. CheckpointReceive \/ SaveCheckpoint \/ Forward \/ ForwardEnds => UNCHANGED delivered
  BY DEF CheckpointReceive, SaveCheckpoint, Forward, ForwardEnds
<1> QED BY <1>1, <1>2, <1>3, <1>4, <1>5, <1>6, <1>7, StepKinds

\* Of the blocks that come straight from the subscription of a network the
\* consumer reads each at most once in a run, and in rising height: this is what
\* the sets of BlockDelivery mean for the channel that Start returns.
THEOREM ConsumerReadsRisingHeights == Spec => []DeliveredRise
<1>1. Init => DeliveredRise BY DEF Init, DeliveredRise, RisingBlocks
<1>2. DeliveryInv /\ StreamInv /\ DeliveredRise /\ [Next]_vars => DeliveredRise'
  BY DeliveredStaysRising DEF DeliveryInv
<1> QED BY <1>1, <1>2, StreamInvariant, PTL DEF Spec
=============================================================================
