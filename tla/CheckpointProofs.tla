--------------------------- MODULE CheckpointProofs ---------------------------
(***************************************************************************)
(* Theorems about the checkpoint of ChainStream: what a crash can lose and *)
(* what a restart may repeat, for every set of networks, every capacity    *)
(* and any number of runs.                                                 *)
(***************************************************************************)
EXTENDS ChainStreamProofs

-----------------------------------------------------------------------------
(* The order of heights along the pipeline                                  *)

\* Height h is at or below all that the client of n has still to bring: the
\* dispatcher's event, the events in eventsCh, and the height it emits next.
Under(h, n) ==
  /\ h <= nextHeight[n]
  /\ dispatcher[n].at = "send" => h <= dispatcher[n].event.height
  /\ \A e \in Elements(eventsCh[n]) : h <= e.height

\* So is every block before its save, and every failure that may still be
\* turned into a block.
BlocksUnder ==
  /\ \A b \in Elements(preCheckpointCh) : Under(b.height, b.network)
  /\ checkpointer.at = "save" => Under(checkpointer.block.height, checkpointer.block.network)
FailuresUnder ==
  /\ \A f \in Elements(retryFailureCh) : Under(f.height, f.network)
  /\ retrier \notin {Off, Idle} => Under(retrier.failure.height, retrier.failure.network)

\* The events of a network are in order, and they are its own.
EventsInOrder ==
  \A n \in Networks :
    /\ \A i, j \in DOMAIN eventsCh[n] : i < j => eventsCh[n][i].height <= eventsCh[n][j].height
    /\ \A e \in Elements(eventsCh[n]) :
         /\ e.network = n /\ e.height <= nextHeight[n]
         /\ dispatcher[n].at = "send" => dispatcher[n].event.height <= e.height
    /\ dispatcher[n].at = "send" =>
         dispatcher[n].event.network = n /\ dispatcher[n].event.height <= nextHeight[n]

\* Before its save a block that comes straight from the subscription has nothing
\* above it in front of it.
Precedes(a, b) == a.network = b.network /\ ~b.refetched => a.height <= b.height
BlocksInOrder ==
  /\ \A i, j \in DOMAIN preCheckpointCh :
       i < j => Precedes(preCheckpointCh[i], preCheckpointCh[j])
  /\ checkpointer.at = "save" =>
       \A b \in Elements(preCheckpointCh) : Precedes(checkpointer.block, b)

\* A network that is not launched yet has no height.
Unlaunched == phase = "launching" => \A n \in toLaunch : nextHeight[n] = 0

Order == BlocksUnder /\ FailuresUnder /\ EventsInOrder /\ BlocksInOrder /\ Unlaunched

-----------------------------------------------------------------------------
(* What the checkpoint covers                                               *)

\* The slot is past its save: on its way to the consumer, there, or reported.
Leaving == Elements(finalOut) \cup
             (IF checkpointer.at = "forward" THEN {checkpointer.block} ELSE {})
Out(s) == s \in Resolved \/ \E b \in Leaving : SlotOf(b) = s

\* The height is above the checkpoint, or its slot is past its save.
Ahead(n, h) == h > checkpoint[n] \/ Out([network |-> n, height |-> h])

SourceAhead(n) ==
  /\ nextHeight[n] # 0 => Ahead(n, nextHeight[n]) /\ checkpoint[n] <= nextHeight[n]
  /\ \A e \in Elements(eventsCh[n]) : e.kind # "error" => Ahead(n, e.height)
  /\ dispatcher[n].at = "send" /\ dispatcher[n].event.kind # "error" =>
       Ahead(n, dispatcher[n].event.height)
BlocksAhead ==
  /\ \A b \in Elements(preCheckpointCh) : ~b.refetched => Ahead(b.network, b.height)
  /\ checkpointer.at = "save" /\ ~checkpointer.block.refetched =>
       Ahead(checkpointer.block.network, checkpointer.block.height)
StreamAhead == (\A n \in Networks : SourceAhead(n)) /\ BlocksAhead

AheadInv == ~cancelled => StreamAhead

\* With a storage that keeps the highest height and always saves, what is past
\* its save states no more than the checkpoint.
Covered ==
  /\ \A b \in Leaving : b.states <= checkpoint[b.network]
  /\ DeliveredIsCheckpointed

-----------------------------------------------------------------------------
(* Preliminaries                                                            *)

\* Two places of a channel after a send.
LEMMA PlacesSent ==
  ASSUME NEW S, NEW ch \in Seq(S), NEW x \in S,
         NEW i \in DOMAIN Append(ch, x), NEW j \in DOMAIN Append(ch, x), i < j
  PROVE  /\ i \in DOMAIN ch /\ Append(ch, x)[i] = ch[i] /\ ch[i] \in Elements(ch)
         /\ \/ j \in DOMAIN ch /\ Append(ch, x)[j] = ch[j]
            \/ Append(ch, x)[j] = x
<1>1. /\ DOMAIN Append(ch, x) = 1..(Len(ch) + 1) /\ DOMAIN ch = 1..Len(ch)
      /\ Len(ch) \in Nat
      /\ Append(ch, x)[Len(ch) + 1] = x
      /\ \A k \in 1..Len(ch) : Append(ch, x)[k] = ch[k]
  OBVIOUS
<1>2. i \in 1..Len(ch) BY <1>1
<1>3. j \in 1..Len(ch) \/ j = Len(ch) + 1 BY <1>1
<1> QED BY <1>1, <1>2, <1>3 DEF Elements

\* The places of a channel after a receive.
LEMMA PlacesReceived ==
  ASSUME NEW S, NEW ch \in Seq(S), Receives(ch)
  PROVE  /\ 1 \in DOMAIN ch /\ Head(ch) = ch[1]
         /\ \A i \in DOMAIN Tail(ch) :
              /\ i \in Nat /\ i + 1 \in DOMAIN ch /\ 1 < i + 1
              /\ Tail(ch)[i] = ch[i + 1]
         /\ \A e \in Elements(Tail(ch)) : \E i \in DOMAIN ch : 1 < i /\ e = ch[i]
<1>1. /\ Len(ch) \in Nat \ {0} /\ Head(ch) = ch[1]
      /\ DOMAIN ch = 1..Len(ch) /\ DOMAIN Tail(ch) = 1..(Len(ch) - 1)
      /\ \A i \in 1..(Len(ch) - 1) : Tail(ch)[i] = ch[i + 1]
  BY DEF Receives
<1>2. \A i \in DOMAIN Tail(ch) :
        /\ i \in Nat /\ i + 1 \in DOMAIN ch /\ 1 < i + 1
        /\ Tail(ch)[i] = ch[i + 1]
  BY <1>1
<1>3. \A e \in Elements(Tail(ch)) : \E i \in DOMAIN ch : 1 < i /\ e = ch[i]
  BY <1>2 DEF Elements
<1> QED BY <1>1, <1>2, <1>3

\* What the goroutines hold, and what the channels hold, has its type.
LEMMA HeldTypes ==
  ASSUME TypeOK
  PROVE  /\ \A n \in Networks :
              /\ dispatcher[n].at = "send" => dispatcher[n].event \in Event
              /\ Elements(eventsCh[n]) \subseteq Event
              /\ nextHeight[n] \in Nat
         /\ checkpointer.at \in {"save", "forward"} => checkpointer.block \in ObservedBlock
         /\ retrier \notin {Off, Idle} => retrier.failure \in DispatchFailure
         /\ Elements(preCheckpointCh) \subseteq ObservedBlock
         /\ Elements(finalOut) \subseteq ObservedBlock
         /\ Elements(retryFailureCh) \subseteq DispatchFailure
<1>1. \A n \in Networks : dispatcher[n].at = "send" => dispatcher[n].event \in Event
  BY DEF TypeOK, WorkerTypes, Dispatchers, Off, Idle
<1>2. checkpointer.at \in {"save", "forward"} => checkpointer.block \in ObservedBlock
  BY DEF TypeOK, WorkerTypes, Checkpointers, Off, Idle
<1>3. retrier \notin {Off, Idle} => retrier.failure \in DispatchFailure
  BY DEF TypeOK, WorkerTypes, Retriers
<1>4. \A n \in Networks : Elements(eventsCh[n]) \subseteq Event /\ nextHeight[n] \in Nat
  BY DEF TypeOK, ChannelTypes, SourceTypes, Elements
<1>5. /\ Elements(preCheckpointCh) \subseteq ObservedBlock
      /\ Elements(finalOut) \subseteq ObservedBlock
      /\ Elements(retryFailureCh) \subseteq DispatchFailure
  BY DEF TypeOK, ChannelTypes, Elements
<1> QED BY <1>1, <1>2, <1>3, <1>4, <1>5

\* The steps a run takes while its context is live.
LaunchStep   == (\E n \in Networks : LaunchNetwork(n)) \/ StartReturns
DispatchStep == \E n \in Networks : Subscription(n) \/ DispatchReceive(n) \/ DispatchSend(n)
BlockStep    == CheckpointReceive \/ SaveCheckpoint \/ Forward
RetryStep    == RetryReceive \/ FetchSucceeds \/ FetchFails \/ SendRecovered \/ ReportFailure
OutputStep   == HandleDispatchFailures \/ Consume

\* While the context is live a run takes only these steps.
LEMMA LiveSteps ==
  ASSUME DeliveryInv, [Next]_vars, ~cancelled'
  PROVE  \/ StartBegin
         \/ /\ ~cancelled
            /\ \/ LaunchStep \/ DispatchStep \/ BlockStep \/ RetryStep \/ OutputStep
               \/ UNCHANGED vars
<1> USE DEF lifecycle, DeliveryInv, StoppedIsCancelled, LaunchStep, DispatchStep, BlockStep,
            RetryStep, OutputStep
<1>1. CASE Start
  BY <1>1 DEF Start, LaunchNetwork, LaunchFails, StartFails, StartReturns
<1>2. CASE Close \/ CallerCancels \/ Crash \/ SendOnClosed
  BY <1>2 DEF Close, CloseBegin, CloseEnds, CloseTwice, CallerCancels, Crash, SendOnClosed,
              ProcessEnds
<1>3. ASSUME NEW n \in Networks, Subscription(n) \/ Dispatch(n) PROVE ~cancelled /\ DispatchStep
  BY <1>3 DEF Subscription, EmitBlock, EmitTipError, Emit, Dispatch, DispatchReceive,
              DispatchSend, DispatchSendEnds, SendEnds
<1>4. CASE CheckpointAndForward
  BY <1>4 DEF CheckpointAndForward, CheckpointReceive, SaveCheckpoint, SavePanics, Forward,
              ForwardEnds, SendEnds, ProcessEnds
<1>5. CASE RetryFailedBlockFetches
  BY <1>5 DEF RetryFailedBlockFetches, RetryReceive, FetchSucceeds, FetchFails, ExecutePanics,
              SendRecovered, ReportFailure, ProcessEnds
<1>6. CASE HandleDispatchFailures \/ Consume
  BY <1>6 DEF HandleDispatchFailures, HandlerReceive, NotifyFailure, Consume
<1>7. CASE UNCHANGED vars BY <1>7 DEF vars
<1> QED BY <1>1, <1>2, <1>3, <1>4, <1>5, <1>6, <1>7 DEF Next

-----------------------------------------------------------------------------
(* The order is kept                                                        *)

\* An event joins its channel at the height the client had come to.
LEMMA EmitKeepsOrder ==
  ASSUME TypeOK, Order, NEW n \in Networks, Subscription(n)
  PROVE  /\ \A m \in Networks, h \in Heights : Under(h, m) => Under(h, m)'
         /\ EventsInOrder'
<1>1. PICK kind \in {"block", "hollow", "error"} : Emit(n, kind)
  BY DEF Subscription, EmitBlock, EmitTipError
<1> DEFINE e == [network |-> n, height |-> nextHeight[n], kind |-> kind]
<1>2. /\ eventsCh' = [eventsCh EXCEPT ![n] = Append(eventsCh[n], e)]
      /\ dispatcher' = dispatcher
  BY <1>1 DEF Emit, workers
<1>3. /\ nextHeight' \in [Networks -> Nat]
      /\ nextHeight[n] <= nextHeight'[n]
      /\ \A m \in Networks \ {n} : nextHeight'[m] = nextHeight[m]
  BY DEF Subscription, EmitBlock, EmitTipError, TypeOK, SourceTypes
<1>4. eventsCh \in [Networks -> Seq(Event)] /\ nextHeight \in [Networks -> Nat]
  BY DEF TypeOK, ChannelTypes, SourceTypes
<1>5. e \in Event
  <2>1. nextHeight[n] \in Heights BY <1>1, <1>4, BoundAssumption DEF Emit, Heights
  <2> QED BY <2>1 DEF Event
<1>6. /\ \A m \in Networks \ {n} : eventsCh'[m] = eventsCh[m]
      /\ eventsCh'[n] = Append(eventsCh[n], e)
      /\ Elements(eventsCh'[n]) = Elements(eventsCh[n]) \cup {e}
  BY <1>2, <1>4, <1>5, EventSent
<1>7. e.height = nextHeight[n] /\ e.network = n OBVIOUS
<1>h. \A m \in Networks : dispatcher[m].at = "send" => dispatcher[m].event.height \in Nat
  BY HeldTypes DEF Event, Heights
<1>g. \A m \in Networks : \A x \in Elements(eventsCh[m]) : x.height \in Nat
  BY HeldTypes DEF Event, Heights
<1> HIDE DEF e
<1>8. ASSUME NEW m \in Networks, NEW h \in Heights, Under(h, m) PROVE Under(h, m)'
  <2>1. CASE m = n
    BY <1>2, <1>3, <1>4, <1>6, <1>7, <1>8, <2>1 DEF Under, Heights
  <2>2. CASE m # n BY <1>2, <1>3, <1>6, <1>8, <2>2 DEF Under
  <2> QED BY <2>1, <2>2
<1>9. ASSUME NEW m \in Networks
      PROVE  /\ \A i, j \in DOMAIN eventsCh'[m] :
                  i < j => eventsCh'[m][i].height <= eventsCh'[m][j].height
             /\ \A x \in Elements(eventsCh'[m]) :
                  /\ x.network = m /\ x.height <= nextHeight'[m]
                  /\ dispatcher'[m].at = "send" => dispatcher'[m].event.height <= x.height
             /\ dispatcher'[m].at = "send" =>
                  /\ dispatcher'[m].event.network = m
                  /\ dispatcher'[m].event.height <= nextHeight'[m]
  <2>1. CASE m # n BY <1>2, <1>3, <1>6, <2>1 DEF Order, EventsInOrder
  <2>2. CASE m = n
    <3>1. ASSUME NEW i \in DOMAIN eventsCh'[n], NEW j \in DOMAIN eventsCh'[n], i < j
          PROVE  eventsCh'[n][i].height <= eventsCh'[n][j].height
      <4>1. /\ i \in DOMAIN eventsCh[n] /\ eventsCh'[n][i] = eventsCh[n][i]
            /\ eventsCh[n][i] \in Elements(eventsCh[n])
            /\ (j \in DOMAIN eventsCh[n] /\ eventsCh'[n][j] = eventsCh[n][j]) \/ eventsCh'[n][j] = e
        BY <1>4, <1>5, <1>6, <3>1, PlacesSent
      <4> QED BY <1>7, <3>1, <4>1 DEF Order, EventsInOrder
    <3>2. ASSUME NEW x \in Elements(eventsCh'[n])
          PROVE  /\ x.network = n /\ x.height <= nextHeight'[n]
                 /\ dispatcher'[n].at = "send" => dispatcher'[n].event.height <= x.height
      <4>1. CASE x = e BY <1>2, <1>3, <1>4, <1>7, <4>1 DEF Order, EventsInOrder
      <4>2. CASE x \in Elements(eventsCh[n])
        BY <1>2, <1>3, <1>4, <1>g, <4>2 DEF Order, EventsInOrder
      <4> QED BY <1>6, <3>2, <4>1, <4>2
    <3>3. dispatcher'[n].at = "send" =>
            dispatcher'[n].event.network = n /\ dispatcher'[n].event.height <= nextHeight'[n]
      BY <1>2, <1>3, <1>4, <1>h DEF Order, EventsInOrder
    <3> QED BY <2>2, <3>1, <3>2, <3>3
  <2> QED BY <2>1, <2>2
<1>10. EventsInOrder' BY <1>9 DEF EventsInOrder
<1> QED BY <1>8, <1>10

\* A dispatcher takes the first event of its channel, is done with one, or returns.
LEMMA DispatcherKeepsOrder ==
  ASSUME TypeOK, Order, NEW n \in Networks, Dispatch(n)
  PROVE  /\ \A m \in Networks, h \in Heights : Under(h, m) => Under(h, m)'
         /\ EventsInOrder'
<1>1. /\ nextHeight' = nextHeight
      /\ \A m \in Networks \ {n} : eventsCh'[m] = eventsCh[m] /\ dispatcher'[m] = dispatcher[m]
  BY DEF Dispatch, DispatchReceive, DispatchSend, DispatchSendEnds, source, TypeOK, ChannelTypes,
         WorkerTypes
<1>2. eventsCh[n] \in Seq(Event) BY DEF TypeOK, ChannelTypes
<1>3. \/ dispatcher'[n] \in {Off, Idle} /\ eventsCh'[n] \in {<<>>, eventsCh[n]}
      \/ /\ Receives(eventsCh[n])
         /\ dispatcher'[n] = [at |-> "send", event |-> Head(eventsCh[n])]
         /\ eventsCh'[n] = Tail(eventsCh[n])
  <2>1. CASE DispatchReceive(n) BY <2>1 DEF DispatchReceive, TypeOK, ChannelTypes, WorkerTypes
  <2>2. CASE DispatchSend(n) \/ DispatchSendEnds(n)
    BY <2>2 DEF DispatchSend, DispatchSendEnds, TypeOK, ChannelTypes, WorkerTypes
  <2> QED BY <2>1, <2>2 DEF Dispatch
<1>4. CASE dispatcher'[n] \in {Off, Idle} /\ eventsCh'[n] \in {<<>>, eventsCh[n]}
  <2>1. dispatcher'[n].at # "send" BY <1>4 DEF Idle, Off
  <2>2. \A m \in Networks : eventsCh'[m] \in {<<>>, eventsCh[m]} BY <1>1, <1>4
  <2>e. DOMAIN <<>> = {} /\ Elements(<<>>) = {} BY DEF Elements
  <2>3. \A m \in Networks : dispatcher'[m].at = "send" =>
          dispatcher[m].at = "send" /\ dispatcher'[m].event = dispatcher[m].event
    BY <1>1, <2>1
  <2>4. \A m \in Networks, h \in Heights : Under(h, m) => Under(h, m)'
    BY <1>1, <2>2, <2>3, <2>e DEF Under
  <2>5. EventsInOrder'
    <3> SUFFICES ASSUME NEW m \in Networks
                 PROVE  /\ \A i, j \in DOMAIN eventsCh'[m] :
                             i < j => eventsCh'[m][i].height <= eventsCh'[m][j].height
                        /\ \A x \in Elements(eventsCh'[m]) :
                             /\ x.network = m /\ x.height <= nextHeight'[m]
                             /\ dispatcher'[m].at = "send" => dispatcher'[m].event.height <= x.height
                        /\ dispatcher'[m].at = "send" =>
                             /\ dispatcher'[m].event.network = m
                             /\ dispatcher'[m].event.height <= nextHeight'[m]
      BY DEF EventsInOrder
    <3>1. CASE eventsCh'[m] = <<>> BY <1>1, <2>3, <2>e, <3>1 DEF Order, EventsInOrder
    <3>2. CASE eventsCh'[m] = eventsCh[m] BY <1>1, <2>3, <3>2 DEF Order, EventsInOrder
    <3> QED BY <2>2, <3>1, <3>2
  <2> QED BY <2>4, <2>5
<1>5. CASE /\ Receives(eventsCh[n])
           /\ dispatcher'[n] = [at |-> "send", event |-> Head(eventsCh[n])]
           /\ eventsCh'[n] = Tail(eventsCh[n])
  <2> DEFINE e == Head(eventsCh[n])
  <2>1. /\ 1 \in DOMAIN eventsCh[n] /\ e = eventsCh[n][1]
        /\ \A i \in DOMAIN eventsCh'[n] :
             /\ i \in Nat /\ i + 1 \in DOMAIN eventsCh[n] /\ 1 < i + 1
             /\ eventsCh'[n][i] = eventsCh[n][i + 1]
        /\ \A x \in Elements(eventsCh'[n]) : \E i \in DOMAIN eventsCh[n] : 1 < i /\ x = eventsCh[n][i]
    BY <1>2, <1>5, PlacesReceived
  <2>2. e \in Elements(eventsCh[n]) /\ Elements(eventsCh'[n]) \subseteq Elements(eventsCh[n])
    BY <2>1 DEF Elements
  <2>3. dispatcher'[n].at = "send" /\ dispatcher'[n].event = e BY <1>5
  <2> HIDE DEF e
  <2>4. \A m \in Networks, h \in Heights : Under(h, m) => Under(h, m)'
    <3> SUFFICES ASSUME NEW m \in Networks, NEW h \in Heights, Under(h, m) PROVE Under(h, m)'
      OBVIOUS
    <3>1. CASE m = n BY <1>1, <2>2, <2>3, <3>1 DEF Under
    <3>2. CASE m # n BY <1>1, <3>2 DEF Under
    <3> QED BY <3>1, <3>2
  <2>5. ASSUME NEW i \in DOMAIN eventsCh'[n], NEW j \in DOMAIN eventsCh'[n], i < j
        PROVE  eventsCh'[n][i].height <= eventsCh'[n][j].height
    <3>1. i + 1 < j + 1 BY <2>1, <2>5
    <3> QED BY <2>1, <2>5, <3>1 DEF Order, EventsInOrder
  <2>6. ASSUME NEW x \in Elements(eventsCh'[n])
        PROVE  x.network = n /\ x.height <= nextHeight[n] /\ e.height <= x.height
    <3>1. x.network = n /\ x.height <= nextHeight[n]
      BY <2>2, <2>6 DEF Order, EventsInOrder
    <3>2. e.height <= x.height BY <2>1, <2>6 DEF Order, EventsInOrder
    <3> QED BY <3>1, <3>2
  <2>7. e.network = n /\ e.height <= nextHeight[n] BY <2>2 DEF Order, EventsInOrder
  <2>8. ASSUME NEW m \in Networks
        PROVE  /\ \A i, j \in DOMAIN eventsCh'[m] :
                    i < j => eventsCh'[m][i].height <= eventsCh'[m][j].height
               /\ \A x \in Elements(eventsCh'[m]) :
                    /\ x.network = m /\ x.height <= nextHeight'[m]
                    /\ dispatcher'[m].at = "send" => dispatcher'[m].event.height <= x.height
               /\ dispatcher'[m].at = "send" =>
                    /\ dispatcher'[m].event.network = m
                    /\ dispatcher'[m].event.height <= nextHeight'[m]
    <3>1. CASE m = n BY <1>1, <2>3, <2>5, <2>6, <2>7, <3>1
    <3>2. CASE m # n BY <1>1, <3>2 DEF Order, EventsInOrder
    <3> QED BY <3>1, <3>2
  <2>9. EventsInOrder' BY <2>8 DEF EventsInOrder
  <2> QED BY <2>4, <2>9
<1> QED BY <1>3, <1>4, <1>5

\* Where only blocks and failures move, they come from under the client's
\* heights and stay there.
LEMMA MovesKeepUnder ==
  ASSUME UNCHANGED <<nextHeight, dispatcher, eventsCh, phase, toLaunch>>
  PROVE  /\ \A m \in Networks, h \in Heights : Under(h, m) => Under(h, m)'
         /\ EventsInOrder => EventsInOrder'
         /\ Unlaunched => Unlaunched'
BY DEF Under, EventsInOrder, Unlaunched

\* A client begins where nothing of its network is under way.
LEMMA LaunchKeepsOrder ==
  ASSUME TypeOK, Order, LaunchStep
  PROVE  Order'
<1> USE DEF channels
<1>1. CASE StartReturns
  <2>1. /\ UNCHANGED <<nextHeight, channels, dispatcher, checkpointer, retrier, toLaunch>>
        /\ phase' = "free"
    BY <1>1 DEF StartReturns, source, workers
  <2> QED BY <2>1 DEF Order, BlocksUnder, FailuresUnder, EventsInOrder, BlocksInOrder, Unlaunched,
                      Under, Precedes
<1>2. ASSUME NEW n \in Networks, LaunchNetwork(n) PROVE Order'
  <2>1. /\ phase = "launching" /\ n \in toLaunch /\ toLaunch' = toLaunch \ {n}
        /\ UNCHANGED <<phase, channels, checkpointer, retrier>>
        /\ dispatcher'[n] = Idle /\ \A m \in Networks \ {n} : dispatcher'[m] = dispatcher[m]
    BY <1>2 DEF LaunchNetwork, TypeOK, WorkerTypes
  <2>2. /\ nextHeight'[n] \in Nat /\ nextHeight'[n] >= 0
        /\ \A m \in Networks \ {n} : nextHeight'[m] = nextHeight[m]
    BY <1>2, BoundAssumption DEF LaunchNetwork, TypeOK, SourceTypes
  <2>3. nextHeight[n] = 0 BY <2>1 DEF Order, Unlaunched
  <2>4. dispatcher'[n].at # "send" BY <2>1 DEF Idle
  <2>5. \A m \in Networks, h \in Heights : Under(h, m) => Under(h, m)'
    <3> SUFFICES ASSUME NEW m \in Networks, NEW h \in Heights, Under(h, m) PROVE Under(h, m)'
      OBVIOUS
    <3>1. m # n BY <2>3 DEF Under, Heights
    <3> QED BY <2>1, <2>2, <3>1 DEF Under
  <2>6. \A e \in Elements(eventsCh[n]) : FALSE
    BY <2>3, HeldTypes DEF Order, EventsInOrder, Event, Heights
  <2>7. EventsInOrder'
    <3> SUFFICES ASSUME NEW m \in Networks
                 PROVE  /\ \A i, j \in DOMAIN eventsCh'[m] :
                             i < j => eventsCh'[m][i].height <= eventsCh'[m][j].height
                        /\ \A x \in Elements(eventsCh'[m]) :
                             /\ x.network = m /\ x.height <= nextHeight'[m]
                             /\ dispatcher'[m].at = "send" => dispatcher'[m].event.height <= x.height
                        /\ dispatcher'[m].at = "send" =>
                             /\ dispatcher'[m].event.network = m
                             /\ dispatcher'[m].event.height <= nextHeight'[m]
      BY DEF EventsInOrder
    <3>1. CASE m = n BY <2>1, <2>4, <2>6, <3>1 DEF Order, EventsInOrder
    <3>2. CASE m # n BY <2>1, <2>2, <3>2 DEF Order, EventsInOrder
    <3> QED BY <3>1, <3>2
  <2>8. BlocksUnder' /\ FailuresUnder'
    BY <2>1, <2>5, HeldTypes, BlockFields DEF Order, BlocksUnder, FailuresUnder, DispatchFailure
  <2>9. BlocksInOrder' BY <2>1 DEF Order, BlocksInOrder, Precedes
  <2>10. Unlaunched' BY <2>1, <2>2 DEF Order, Unlaunched, TypeOK, LifecycleTypes
  <2> QED BY <2>7, <2>8, <2>9, <2>10 DEF Order
<1> QED BY <1>1, <1>2 DEF LaunchStep

\* What a dispatcher hands on has nothing above it in front of it: blocks ahead
\* of it are under what its client has still to bring, and it is the first of that.
LEMMA DispatchKeepsOrder ==
  ASSUME TypeOK, Order, NEW n \in Networks, Subscription(n) \/ Dispatch(n)
  PROVE  Order'
<1>1. /\ \A m \in Networks, h \in Heights : Under(h, m) => Under(h, m)'
      /\ EventsInOrder'
  BY EmitKeepsOrder, DispatcherKeepsOrder
<1>2. UNCHANGED <<phase, toLaunch, checkpointer, retrier>>
  BY DEF Subscription, EmitBlock, EmitTipError, Emit, Dispatch, DispatchReceive, DispatchSend,
         DispatchSendEnds, lifecycle, workers
<1>3. Unlaunched'
  <2>1. \A m \in Networks : nextHeight[m] = 0 => nextHeight'[m] = 0
    <3>1. CASE EmitBlock(n)
      <4>1. PICK kind : Emit(n, kind) BY <3>1 DEF EmitBlock
      <4>2. nextHeight[n] # 0 BY <4>1, BoundAssumption DEF Emit
      <4> QED BY <3>1, <4>2 DEF EmitBlock, TypeOK, SourceTypes
    <3>2. CASE EmitTipError(n) \/ Dispatch(n)
      BY <3>2 DEF EmitTipError, Dispatch, DispatchReceive, DispatchSend, DispatchSendEnds, source
    <3> QED BY <3>1, <3>2 DEF Subscription
  <2> QED BY <1>2, <2>1 DEF Order, Unlaunched, TypeOK, LifecycleTypes
<1>4. CASE UNCHANGED <<preCheckpointCh, retryFailureCh>>
  <2>1. BlocksUnder' /\ FailuresUnder'
    BY <1>1, <1>2, <1>4, HeldTypes, BlockFields
      DEF Order, BlocksUnder, FailuresUnder, DispatchFailure
  <2>2. BlocksInOrder' BY <1>2, <1>4 DEF Order, BlocksInOrder, Precedes
  <2> QED BY <1>1, <1>3, <2>1, <2>2 DEF Order
<1>5. CASE ~UNCHANGED <<preCheckpointCh, retryFailureCh>>
  <2>1. DispatchSend(n)
    BY <1>5 DEF Subscription, EmitBlock, EmitTipError, Emit, Dispatch, DispatchReceive,
                DispatchSendEnds
  <2>2. PICK e \in Event : e = dispatcher[n].event /\ dispatcher[n].at = "send"
    BY <2>1, HeldTypes DEF DispatchSend
  <2>3. e.network = n /\ e.height \in Heights BY <2>2 DEF Order, EventsInOrder, Event
  <2>4. Under(e.height, n)'
    <3>1. eventsCh' = eventsCh /\ nextHeight' = nextHeight /\ dispatcher'[n] = Idle
      BY <2>1 DEF DispatchSend, source, TypeOK, WorkerTypes
    <3>2. dispatcher'[n].at # "send" BY <3>1 DEF Idle
    <3>3. e.height <= nextHeight[n] /\ \A x \in Elements(eventsCh[n]) : e.height <= x.height
      BY <2>2 DEF Order, EventsInOrder
    <3> QED BY <3>1, <3>2, <3>3 DEF Under
  <2>5. /\ \A b \in Elements(preCheckpointCh) : b.network = n => b.height <= e.height
        /\ checkpointer.at = "save" /\ checkpointer.block.network = n
             => checkpointer.block.height <= e.height
    BY <2>2 DEF Order, BlocksUnder, Under
  <2>6. CASE preCheckpointCh' = Append(preCheckpointCh, BlockOf(e)) /\ UNCHANGED retryFailureCh
    <3> DEFINE x == BlockOf(e)
    <3>1. x \in ObservedBlock /\ x.network = n /\ x.height = e.height
      BY <2>2, <2>3, BlockOfType DEF BlockOf, Event
    <3>2. preCheckpointCh \in Seq(ObservedBlock) BY DEF TypeOK, ChannelTypes
    <3>3. Elements(preCheckpointCh') = Elements(preCheckpointCh) \cup {x}
      BY <2>6, <3>1, <3>2, BlockSent
    <3> HIDE DEF x
    <3>4. BlocksUnder' /\ FailuresUnder'
      <4>1. \A b \in Elements(preCheckpointCh') : Under(b.height, b.network)'
        <5> SUFFICES ASSUME NEW b \in Elements(preCheckpointCh') PROVE Under(b.height, b.network)'
          OBVIOUS
        <5>1. CASE b = x BY <2>4, <3>1, <5>1
        <5>2. CASE b \in Elements(preCheckpointCh)
          BY <1>1, <5>2, HeldTypes, BlockFields DEF Order, BlocksUnder
        <5> QED BY <3>3, <5>1, <5>2
      <4>2. (checkpointer.at = "save" =>
               Under(checkpointer.block.height, checkpointer.block.network))'
        BY <1>1, <1>2, HeldTypes, BlockFields DEF Order, BlocksUnder
      <4>3. FailuresUnder'
        BY <1>1, <1>2, <2>6, HeldTypes DEF Order, FailuresUnder, DispatchFailure
      <4> QED BY <4>1, <4>2, <4>3 DEF BlocksUnder
    <3>5. BlocksInOrder'
      <4>1. ASSUME NEW i \in DOMAIN preCheckpointCh', NEW j \in DOMAIN preCheckpointCh', i < j
            PROVE  Precedes(preCheckpointCh'[i], preCheckpointCh'[j])
        <5>1. /\ i \in DOMAIN preCheckpointCh /\ preCheckpointCh'[i] = preCheckpointCh[i]
              /\ preCheckpointCh[i] \in Elements(preCheckpointCh)
              /\ \/ j \in DOMAIN preCheckpointCh /\ preCheckpointCh'[j] = preCheckpointCh[j]
                 \/ preCheckpointCh'[j] = x
          BY <2>6, <3>1, <3>2, <4>1, PlacesSent DEF x
        <5> QED BY <2>5, <3>1, <4>1, <5>1 DEF Order, BlocksInOrder, Precedes
      <4>2. ASSUME checkpointer'.at = "save", NEW b \in Elements(preCheckpointCh')
            PROVE  Precedes(checkpointer'.block, b)
        BY <1>2, <2>5, <3>1, <3>3, <4>2 DEF Order, BlocksInOrder, Precedes
      <4> QED BY <4>1, <4>2 DEF BlocksInOrder
    <3> QED BY <1>1, <1>3, <3>4, <3>5 DEF Order
  <2>7. CASE retryFailureCh' = Append(retryFailureCh, FailureOf(e, "not")) /\ UNCHANGED preCheckpointCh
    <3> DEFINE f == FailureOf(e, "not")
    <3>1. f \in DispatchFailure /\ f.network = n /\ f.height = e.height
      BY <2>2, <2>3 DEF FailureOf, Event, DispatchFailure
    <3>2. Elements(retryFailureCh') = Elements(retryFailureCh) \cup {f}
      BY <2>7, <3>1, FailureSent DEF TypeOK, ChannelTypes
    <3> HIDE DEF f
    <3>3. BlocksUnder' /\ FailuresUnder'
      <4>1. \A g \in Elements(retryFailureCh') : Under(g.height, g.network)'
        <5> SUFFICES ASSUME NEW g \in Elements(retryFailureCh') PROVE Under(g.height, g.network)'
          OBVIOUS
        <5>1. CASE g = f BY <2>4, <3>1, <5>1
        <5>2. CASE g \in Elements(retryFailureCh)
          BY <1>1, <5>2, HeldTypes DEF Order, FailuresUnder, DispatchFailure
        <5> QED BY <3>2, <5>1, <5>2
      <4>2. (retrier \notin {Off, Idle} =>
               Under(retrier.failure.height, retrier.failure.network))'
        BY <1>1, <1>2, HeldTypes DEF Order, FailuresUnder, DispatchFailure
      <4>3. BlocksUnder'
        BY <1>1, <1>2, <2>7, HeldTypes, BlockFields DEF Order, BlocksUnder
      <4> QED BY <4>1, <4>2, <4>3 DEF FailuresUnder
    <3>4. BlocksInOrder' BY <1>2, <2>7 DEF Order, BlocksInOrder, Precedes
    <3> QED BY <1>1, <1>3, <3>3, <3>4 DEF Order
  <2> QED BY <1>5, <2>1, <2>2, <2>6, <2>7 DEF DispatchSend, SubmitFailure
<1> QED BY <1>4, <1>5

\* The block that leaves preCheckpointCh is the first of it.
LEMMA BlocksKeepOrder ==
  ASSUME TypeOK, Order, BlockStep \/ ForwardEnds
  PROVE  Order'
<1>1. UNCHANGED <<nextHeight, dispatcher, eventsCh, phase, toLaunch, retryFailureCh, retrier>>
  BY DEF BlockStep, CheckpointReceive, SaveCheckpoint, Forward, ForwardEnds, lifecycle, source,
         channels
<1>2. /\ \A m \in Networks, h \in Heights : Under(h, m) => Under(h, m)'
      /\ EventsInOrder' /\ Unlaunched'
  BY <1>1, MovesKeepUnder DEF Order
<1>3. FailuresUnder' BY <1>1, <1>2, HeldTypes DEF Order, FailuresUnder, DispatchFailure
<1>4. CASE UNCHANGED preCheckpointCh /\ checkpointer'.at # "save"
  <2>1. BlocksUnder' BY <1>2, <1>4, HeldTypes, BlockFields DEF Order, BlocksUnder
  <2>2. BlocksInOrder' BY <1>4 DEF Order, BlocksInOrder, Precedes
  <2> QED BY <1>2, <1>3, <2>1, <2>2 DEF Order
<1>5. CASE /\ Receives(preCheckpointCh)
           /\ checkpointer' = [at |-> "save", block |-> Head(preCheckpointCh)]
           /\ preCheckpointCh' = Tail(preCheckpointCh)
  <2>1. preCheckpointCh \in Seq(ObservedBlock) BY DEF TypeOK, ChannelTypes
  <2>2. PICK b \in ObservedBlock : b = Head(preCheckpointCh) BY <1>5, <2>1, ReceiveElements
  <2>3. /\ 1 \in DOMAIN preCheckpointCh /\ b = preCheckpointCh[1]
        /\ \A i \in DOMAIN preCheckpointCh' :
             /\ i \in Nat /\ i + 1 \in DOMAIN preCheckpointCh /\ 1 < i + 1
             /\ preCheckpointCh'[i] = preCheckpointCh[i + 1]
        /\ \A x \in Elements(preCheckpointCh') :
             \E i \in DOMAIN preCheckpointCh : 1 < i /\ x = preCheckpointCh[i]
    BY <1>5, <2>1, <2>2, PlacesReceived
  <2>4. /\ b \in Elements(preCheckpointCh)
        /\ Elements(preCheckpointCh') \subseteq Elements(preCheckpointCh)
    BY <2>3 DEF Elements
  <2>5. checkpointer'.at = "save" /\ checkpointer'.block = b BY <1>5, <2>2
  <2>6. BlocksUnder'
    <3>1. \A x \in Elements(preCheckpointCh) : Under(x.height, x.network)'
      BY <1>2, HeldTypes, BlockFields DEF Order, BlocksUnder
    <3> QED BY <2>4, <2>5, <3>1 DEF BlocksUnder
  <2>7. BlocksInOrder'
    <3>1. ASSUME NEW i \in DOMAIN preCheckpointCh', NEW j \in DOMAIN preCheckpointCh', i < j
          PROVE  Precedes(preCheckpointCh'[i], preCheckpointCh'[j])
      <4>1. i + 1 < j + 1 BY <2>3, <3>1
      <4> QED BY <2>3, <3>1, <4>1 DEF Order, BlocksInOrder
    <3>2. \A x \in Elements(preCheckpointCh') : Precedes(b, x)
      BY <2>3 DEF Order, BlocksInOrder
    <3> QED BY <2>5, <3>1, <3>2 DEF BlocksInOrder
  <2> QED BY <1>2, <1>3, <2>6, <2>7 DEF Order
<1> QED
  <2>1. CASE CheckpointReceive BY <1>4, <1>5, <2>1 DEF CheckpointReceive, Off
  <2>2. CASE SaveCheckpoint
    <3>1. checkpointer'.at = "forward"
      BY <2>2 DEF SaveCheckpoint, TypeOK, WorkerTypes, Checkpointers, Off, Idle
    <3> QED BY <1>4, <2>2, <3>1 DEF SaveCheckpoint, channels
  <2>3. CASE Forward BY <1>4, <2>3 DEF Forward, Idle
  <2>4. CASE ForwardEnds BY <1>4, <2>4 DEF ForwardEnds, Off, channels
  <2> QED BY <2>1, <2>2, <2>3, <2>4 DEF BlockStep

\* A recovered block goes to the end of preCheckpointCh, where nothing is asked
\* of what is in front of it.
LEMMA RetryKeepsOrder ==
  ASSUME TypeOK, Order, RetryStep
  PROVE  Order'
<1>1. UNCHANGED <<nextHeight, dispatcher, eventsCh, phase, toLaunch, checkpointer>>
  BY DEF RetryStep, RetryReceive, FetchSucceeds, FetchFails, SendRecovered, ReportFailure,
         lifecycle, source, channels
<1>2. /\ \A m \in Networks, h \in Heights : Under(h, m) => Under(h, m)'
      /\ EventsInOrder' /\ Unlaunched'
  BY <1>1, MovesKeepUnder DEF Order
<1>3. ASSUME UNCHANGED preCheckpointCh PROVE BlocksUnder' /\ BlocksInOrder'
  BY <1>1, <1>2, <1>3, HeldTypes, BlockFields DEF Order, BlocksUnder, BlocksInOrder, Precedes
<1>4. ASSUME UNCHANGED retryFailureCh,
             retrier' \notin {Off, Idle} =>
               /\ retrier \notin {Off, Idle}
               /\ retrier'.failure.height = retrier.failure.height
               /\ retrier'.failure.network = retrier.failure.network
      PROVE  FailuresUnder'
  BY <1>2, <1>4, HeldTypes DEF Order, FailuresUnder, DispatchFailure
<1>5. CASE RetryReceive
  <2>1. CASE retrier' = Off /\ UNCHANGED retryFailureCh
    BY <1>2, <1>3, <1>4, <1>5, <2>1 DEF RetryReceive, Order
  <2>2. CASE /\ Receives(retryFailureCh) /\ retryFailureCh' = Tail(retryFailureCh)
             /\ retrier' = [at |-> "fetch", failure |-> Head(retryFailureCh), attempt |-> 1]
    <3>1. Elements(retryFailureCh) = {Head(retryFailureCh)} \cup Elements(retryFailureCh')
      BY <2>2, FailureReceived DEF TypeOK, ChannelTypes
    <3>2. \A f \in Elements(retryFailureCh) : Under(f.height, f.network)'
      BY <1>2, HeldTypes DEF Order, FailuresUnder, DispatchFailure
    <3>3. retrier'.failure \in Elements(retryFailureCh) BY <2>2, <3>1
    <3>4. FailuresUnder' BY <3>1, <3>2, <3>3 DEF FailuresUnder
    <3> QED BY <1>2, <1>3, <1>5, <3>4 DEF RetryReceive, Order
  <2> QED BY <1>5, <2>1, <2>2 DEF RetryReceive
<1>6. CASE FetchSucceeds \/ FetchFails \/ SendRecovered
  <2>1. retrier \in [at : {"fetch", "recover", "recoverHollow", "report"},
                     failure : DispatchFailure, attempt : Nat]
    BY <1>6, BusyRetrier DEF FetchSucceeds, FetchFails, SendRecovered
  <2>2. retrier \notin {Off, Idle}
    BY <1>6 DEF FetchSucceeds, FetchFails, SendRecovered, Off, Idle
  <2>3. /\ UNCHANGED retryFailureCh
        /\ retrier'.failure.height = retrier.failure.height
        /\ retrier'.failure.network = retrier.failure.network
    <3>1. UNCHANGED retryFailureCh
      BY <1>6 DEF FetchSucceeds, FetchFails, SendRecovered, channels
    <3>2. CASE FetchSucceeds BY <2>1, <3>1, <3>2 DEF FetchSucceeds
    <3>3. CASE FetchFails
      <4>1. \/ retrier' = [retrier EXCEPT !.attempt = retrier'.attempt]
            \/ retrier' = [retrier EXCEPT !.at = "report", !.failure.retried = "gaveUp"]
        BY <2>1, <3>3 DEF FetchFails
      <4>2. CASE retrier' = [retrier EXCEPT !.attempt = retrier'.attempt]
        BY <2>1, <3>1, <4>2
      <4>3. CASE retrier' = [retrier EXCEPT !.at = "report", !.failure.retried = "gaveUp"]
        BY <2>1, <3>1, <4>3 DEF DispatchFailure
      <4> QED BY <4>1, <4>2, <4>3
    <3>4. CASE SendRecovered BY <2>1, <3>1, <3>4 DEF SendRecovered, DispatchFailure
    <3> QED BY <1>6, <3>2, <3>3, <3>4
  <2>4. FailuresUnder' BY <1>4, <2>2, <2>3
  <2>5. CASE UNCHANGED preCheckpointCh BY <1>2, <1>3, <2>4, <2>5 DEF Order
  <2>6. CASE ~UNCHANGED preCheckpointCh
    <3>1. PICK x : /\ x = Refetched(retrier.failure, retrier.at = "recoverHollow")
                   /\ preCheckpointCh' = Append(preCheckpointCh, x)
      BY <1>6, <2>6 DEF FetchSucceeds, FetchFails, SendRecovered, channels
    <3>2. /\ x \in ObservedBlock /\ x.refetched
          /\ x.network = retrier.failure.network /\ x.height = retrier.failure.height
      BY <2>1, <3>1, RefetchedType DEF Refetched, DispatchFailure
    <3>3. preCheckpointCh \in Seq(ObservedBlock) BY DEF TypeOK, ChannelTypes
    <3>4. Elements(preCheckpointCh') = Elements(preCheckpointCh) \cup {x}
      BY <3>1, <3>2, <3>3, BlockSent
    <3>5. Under(x.height, x.network)'
      BY <1>2, <2>2, <3>2, BlockFields DEF Order, FailuresUnder
    <3>6. BlocksUnder'
      BY <1>1, <1>2, <3>4, <3>5, HeldTypes, BlockFields DEF Order, BlocksUnder
    <3>7. ASSUME NEW i \in DOMAIN preCheckpointCh', NEW j \in DOMAIN preCheckpointCh', i < j
          PROVE  Precedes(preCheckpointCh'[i], preCheckpointCh'[j])
      <4>1. /\ i \in DOMAIN preCheckpointCh /\ preCheckpointCh'[i] = preCheckpointCh[i]
            /\ \/ j \in DOMAIN preCheckpointCh /\ preCheckpointCh'[j] = preCheckpointCh[j]
               \/ preCheckpointCh'[j] = x
        BY <3>1, <3>2, <3>3, <3>7, PlacesSent
      <4> QED BY <3>2, <3>7, <4>1 DEF Order, BlocksInOrder, Precedes
    <3>8. checkpointer'.at = "save" =>
            \A b \in Elements(preCheckpointCh') : Precedes(checkpointer'.block, b)
      BY <1>1, <3>2, <3>4 DEF Order, BlocksInOrder, Precedes
    <3> QED BY <1>2, <2>4, <3>6, <3>7, <3>8 DEF Order, BlocksInOrder
  <2> QED BY <2>5, <2>6
<1>7. CASE ReportFailure BY <1>2, <1>3, <1>4, <1>7 DEF ReportFailure, Order
<1> QED BY <1>5, <1>6, <1>7 DEF RetryStep

\* Nothing is under way: before the first run, when one begins, when the process ends.
NothingUnderWay ==
  /\ checkpointer.at # "save" /\ retrier \in {Off, Idle}
  /\ preCheckpointCh = <<>> /\ retryFailureCh = <<>>
  /\ \A n \in Networks : eventsCh[n] = <<>> /\ dispatcher[n].at # "send" /\ nextHeight[n] = 0
  /\ toLaunch \subseteq Networks

LEMMA NothingIsInOrder == NothingUnderWay => Order
<1> SUFFICES ASSUME NothingUnderWay PROVE Order OBVIOUS
<1> USE DEF NothingUnderWay
<1>1. DOMAIN <<>> = {} /\ Elements(<<>>) = {} BY DEF Elements
<1>2. BlocksUnder /\ FailuresUnder BY <1>1 DEF BlocksUnder, FailuresUnder
<1>3. EventsInOrder /\ BlocksInOrder BY <1>1 DEF EventsInOrder, BlocksInOrder
<1>4. Unlaunched BY DEF Unlaunched
<1> QED BY <1>2, <1>3, <1>4 DEF Order

LEMMA OrderInit == Init => Order
BY NothingIsInOrder DEF Init, NothingUnderWay, Off

\* Every step keeps the order, and a run begins with nothing under way.
LEMMA OrderStep ==
  ASSUME TypeOK, Order, [Next]_vars
  PROVE  Order'
<1> USE DEF lifecycle, source, channels, workers
<1>0. NothingUnderWay' => Order' BY NothingIsInOrder, PTL
<1>1. CASE StartBegin
  <2>1. NothingUnderWay' BY <1>1 DEF StartBegin, Quiet, Off, Idle, NothingUnderWay
  <2> QED BY <2>1, <1>0
<1>2. ASSUME NEW message, ProcessEnds(message) PROVE Order'
  <2>1. NothingUnderWay' BY <1>2 DEF ProcessEnds, Off, NothingUnderWay
  <2> QED BY <2>1, <1>0
<1>3. CASE CloseTwice \/ Crash \/ SavePanics \/ ExecutePanics \/ SendOnClosed
  BY <1>2, <1>3 DEF CloseTwice, Crash, SavePanics, ExecutePanics, SendOnClosed
<1>4. ASSUME UNCHANGED <<nextHeight, dispatcher, eventsCh, preCheckpointCh, checkpointer,
                         retryFailureCh, retrier>>,
             phase' # "launching" \/ UNCHANGED <<phase, toLaunch>>
      PROVE  Order'
  BY <1>4 DEF Order, BlocksUnder, FailuresUnder, EventsInOrder, BlocksInOrder, Unlaunched, Under,
              Precedes
<1>5. CASE LaunchFails \/ StartFails \/ CloseBegin \/ CloseEnds \/ CallerCancels
             \/ HandleDispatchFailures \/ Consume \/ UNCHANGED vars
  <2>1. /\ UNCHANGED <<nextHeight, dispatcher, eventsCh, preCheckpointCh, checkpointer,
                        retryFailureCh, retrier>>
        /\ phase' # "launching" \/ UNCHANGED <<phase, toLaunch>>
    BY <1>5 DEF LaunchFails, StartFails, CloseBegin, CloseEnds, CallerCancels,
                HandleDispatchFailures, HandlerReceive, NotifyFailure, Consume, vars
  <2> QED BY <1>4, <2>1
<1>6. CASE LaunchStep BY <1>6, LaunchKeepsOrder
<1>7. CASE \E n \in Networks : Subscription(n) \/ Dispatch(n) BY <1>7, DispatchKeepsOrder
<1>8. CASE BlockStep \/ ForwardEnds BY <1>8, BlocksKeepOrder
<1>9. CASE RetryStep BY <1>9, RetryKeepsOrder
<1> QED
  BY <1>1, <1>3, <1>5, <1>6, <1>7, <1>8, <1>9
  DEF Next, Start, Close, LaunchStep, CheckpointAndForward, BlockStep, RetryFailedBlockFetches,
      RetryStep

-----------------------------------------------------------------------------
(* What is ahead of the checkpoint                                          *)

\* What has passed its save does not come back before the next run.
LEMMA OutStays ==
  ASSUME TypeOK,
         LaunchStep \/ DispatchStep \/ BlockStep \/ RetryStep \/ OutputStep \/ UNCHANGED vars,
         NEW s, Out(s)
  PROVE  Out(s)'
<1> USE DEF channels, workers, outcome
<1>1. CASE UNCHANGED <<delivered, notified, finalOut, checkpointer>>
  BY <1>1 DEF Out, Resolved, Leaving
<1>2. CASE CheckpointReceive \/ SaveCheckpoint
  <2>1. UNCHANGED <<delivered, notified, finalOut>> BY <1>2 DEF CheckpointReceive, SaveCheckpoint
  <2>2. checkpointer.at # "forward"
    <3>1. CASE CheckpointReceive
      <4>1. checkpointer = Idle BY <3>1 DEF CheckpointReceive
      <4> QED BY <4>1 DEF Idle
    <3>2. CASE SaveCheckpoint BY <3>2 DEF SaveCheckpoint
    <3> QED BY <1>2, <3>1, <3>2
  <2> QED BY <2>1, <2>2 DEF Out, Resolved, Leaving
<1>3. CASE Forward
  <2>1. /\ UNCHANGED <<delivered, notified>> /\ checkpointer.at = "forward"
        /\ finalOut' = Append(finalOut, checkpointer.block)
    BY <1>3 DEF Forward
  <2>2. Elements(finalOut') = Elements(finalOut) \cup {checkpointer.block}
    BY <2>1, BlockSent, HeldTypes DEF TypeOK, ChannelTypes
  <2> QED BY <2>1, <2>2 DEF Out, Resolved, Leaving
<1>4. CASE Consume
  <2>1. PICK b : b = Head(finalOut) OBVIOUS
  <2>2. /\ Receives(finalOut) /\ UNCHANGED <<notified, checkpointer>>
        /\ finalOut' = Tail(finalOut)
        /\ delivered' = [delivered EXCEPT ![b.network] = Append(delivered[b.network], b)]
    BY <1>4, <2>1 DEF Consume
  <2>3. Elements(finalOut) = {b} \cup Elements(finalOut') /\ b \in ObservedBlock
    BY <2>1, <2>2, BlockReceived, HeldTypes DEF TypeOK, ChannelTypes
  <2>4. b.network \in Networks BY <2>3, BlockFields
  <2>5. /\ delivered \in [Networks -> Seq(ObservedBlock)]
        /\ Elements(delivered'[b.network]) = Elements(delivered[b.network]) \cup {b}
        /\ \A n \in Networks \ {b.network} : delivered'[n] = delivered[n]
    BY <2>2, <2>3, <2>4, BlockSent DEF TypeOK, OutcomeTypes
  <2>6. \A n \in Networks : Elements(delivered[n]) \subseteq Elements(delivered'[n])
    BY <2>5
  <2>7. Resolved \subseteq Resolved' BY <2>2, <2>6 DEF Resolved
  <2>8. SlotOf(b) \in Resolved' BY <2>4, <2>5 DEF Resolved
  <2>9. \A x \in Leaving : x = b \/ x \in Leaving'
    BY <2>2, <2>3 DEF Leaving
  <2> QED BY <2>7, <2>8, <2>9 DEF Out
<1>5. CASE NotifyFailure
  <2>1. UNCHANGED <<delivered, finalOut, checkpointer>> /\ notified \subseteq notified'
    BY <1>5 DEF NotifyFailure
  <2> QED BY <2>1 DEF Out, Resolved, Leaving
<1>6. CASE LaunchStep
  BY <1>1, <1>6 DEF LaunchStep, LaunchNetwork, StartReturns
<1>7. CASE DispatchStep
  <2> PICK n \in Networks : Subscription(n) \/ DispatchReceive(n) \/ DispatchSend(n)
    BY <1>7 DEF DispatchStep
  <2>1. CASE Subscription(n)
    BY <1>1, <2>1 DEF Subscription, EmitBlock, EmitTipError, Emit
  <2>2. CASE DispatchReceive(n) BY <1>1, <2>2 DEF DispatchReceive
  <2>3. CASE DispatchSend(n) BY <1>1, <2>3 DEF DispatchSend
  <2> QED BY <2>1, <2>2, <2>3
<1>8. CASE RetryStep \/ HandlerReceive
  BY <1>1, <1>8 DEF RetryStep, RetryReceive, FetchSucceeds, FetchFails, SendRecovered,
                    ReportFailure, HandlerReceive
<1> QED
  BY <1>1, <1>2, <1>3, <1>4, <1>5, <1>6, <1>7, <1>8
  DEF BlockStep, OutputStep, HandleDispatchFailures, vars

\* A step that leaves the checkpoint alone brings nothing back under it.
LEMMA AheadStays ==
  ASSUME TypeOK, UNCHANGED checkpoint,
         LaunchStep \/ DispatchStep \/ BlockStep \/ RetryStep \/ OutputStep \/ UNCHANGED vars
  PROVE  \A m, h : Ahead(m, h) => Ahead(m, h)'
BY OutStays DEF Ahead

\* A client begins above the checkpoint and goes up.
LEMMA SourceStaysAhead ==
  ASSUME TypeOK, StreamAhead, NEW n \in Networks, LaunchNetwork(n) \/ Subscription(n)
  PROVE  StreamAhead'
<1>1. UNCHANGED <<checkpoint, preCheckpointCh, checkpointer>>
  BY DEF LaunchNetwork, Subscription, EmitBlock, EmitTipError, Emit, storage, channels, workers
<1>2. \A m, h : Ahead(m, h) => Ahead(m, h)'
  BY <1>1, AheadStays DEF LaunchStep, DispatchStep
<1>3. BlocksAhead' BY <1>1, <1>2 DEF StreamAhead, BlocksAhead
<1>4. ASSUME NEW m \in Networks \ {n} PROVE SourceAhead(m)'
  <2>1. UNCHANGED <<nextHeight[m], eventsCh[m], dispatcher[m], checkpoint[m]>>
    BY <1>1 DEF LaunchNetwork, Subscription, EmitBlock, EmitTipError, Emit, channels, workers,
                TypeOK, SourceTypes, ChannelTypes, WorkerTypes
  <2> QED BY <1>2, <2>1 DEF StreamAhead, SourceAhead
<1>5. CASE LaunchNetwork(n)
  <2>1. PICK h \in 1..(MaxHeight + 1) :
          /\ nextHeight' = [nextHeight EXCEPT ![n] = h]
          /\ checkpoint[n] # None => h = checkpoint[n] + 1
    BY <1>5 DEF LaunchNetwork
  <2>2. /\ checkpoint[n] # Empty /\ eventsCh' = eventsCh /\ dispatcher'[n].at # "send"
    BY <1>5 DEF LaunchNetwork, channels, Idle, TypeOK, WorkerTypes
  <2>3. nextHeight'[n] = h BY <2>1 DEF TypeOK, SourceTypes
  <2>4. checkpoint[n] < h
    BY <2>1, <2>2, BoundAssumption DEF TypeOK, StorageTypes, Empty, None
  <2>5. checkpoint'[n] < h BY <1>1, <2>4
  <2>6. Ahead(n, h)'
    BY <2>1, <2>2, <2>5, <1>1, BoundAssumption DEF Ahead, TypeOK, StorageTypes, Empty, None
  <2>7. \A e \in Elements(eventsCh'[n]) : e.kind # "error" => Ahead(n, e.height)'
    BY <1>2, <2>2 DEF StreamAhead, SourceAhead
  <2>8. checkpoint'[n] <= h
    BY <2>1, <2>2, <2>5, <1>1, BoundAssumption DEF TypeOK, StorageTypes, Empty, None
  <2>9. SourceAhead(n)' BY <2>2, <2>3, <2>6, <2>7, <2>8 DEF SourceAhead
  <2> QED BY <1>3, <1>4, <2>9 DEF StreamAhead
<1>6. CASE Subscription(n)
  <2>1. PICK kind \in {"block", "hollow", "error"} : Emit(n, kind)
    BY <1>6 DEF Subscription, EmitBlock, EmitTipError
  <2>2. PICK e \in Event :
          /\ e = [network |-> n, height |-> nextHeight[n], kind |-> kind]
          /\ eventsCh'[n] = Append(eventsCh[n], e)
    <3>1. nextHeight[n] \in Heights
      BY <2>1, BoundAssumption DEF Emit, Heights, TypeOK, SourceTypes
    <3>2. [network |-> n, height |-> nextHeight[n], kind |-> kind] \in Event
      BY <3>1 DEF Event
    <3> QED BY <2>1, <3>2 DEF Emit, TypeOK, ChannelTypes
  <2>3. Elements(eventsCh'[n]) = Elements(eventsCh[n]) \cup {e}
    BY <2>2, EventSent DEF TypeOK, ChannelTypes
  <2>4. Ahead(n, nextHeight[n]) /\ checkpoint[n] <= nextHeight[n] /\ nextHeight[n] # 0
    BY <2>1 DEF Emit, StreamAhead, SourceAhead
  <2>5. UNCHANGED dispatcher BY <2>1 DEF Emit, workers
  <2>6. PICK h : h = nextHeight'[n] OBVIOUS
  <2>7. Ahead(n, h) /\ checkpoint[n] <= h
    <3>1. CASE EmitBlock(n)
      <4>1. h = nextHeight[n] + 1
        BY <2>6, <3>1 DEF EmitBlock, TypeOK, SourceTypes
      <4>2. nextHeight[n] \in Nat /\ checkpoint[n] \in Int
        BY DEF TypeOK, SourceTypes, StorageTypes, Empty, None
      <4>3. h > checkpoint[n] /\ checkpoint[n] <= h BY <2>4, <4>1, <4>2
      <4> QED BY <4>3 DEF Ahead
    <3>2. CASE EmitTipError(n) BY <2>4, <2>6, <3>2 DEF EmitTipError
    <3> QED BY <1>6, <3>1, <3>2 DEF Subscription
  <2>8. Ahead(n, h)' /\ checkpoint'[n] <= h
    BY <1>1, <1>2, <2>7
  <2>9. \A x \in Elements(eventsCh'[n]) : x.kind # "error" => Ahead(n, x.height)'
    BY <1>2, <2>2, <2>3, <2>4 DEF StreamAhead, SourceAhead
  <2>10. (dispatcher[n].at = "send" /\ dispatcher[n].event.kind # "error" =>
            Ahead(n, dispatcher[n].event.height))'
    BY <1>2, <2>5 DEF StreamAhead, SourceAhead
  <2>11. SourceAhead(n)' BY <2>6, <2>8, <2>9, <2>10 DEF SourceAhead
  <2> QED BY <1>3, <1>4, <2>11 DEF StreamAhead
<1> QED BY <1>5, <1>6

\* What a dispatcher holds and hands on is as far ahead as it was in its channel.
LEMMA DispatcherStaysAhead ==
  ASSUME TypeOK, Order, StreamAhead, NEW n \in Networks, DispatchReceive(n) \/ DispatchSend(n)
  PROVE  StreamAhead'
<1>1. UNCHANGED <<checkpoint, nextHeight, checkpointer>>
  BY DEF DispatchReceive, DispatchSend, storage, source
<1>2. \A m, h : Ahead(m, h) => Ahead(m, h)'
  BY <1>1, AheadStays DEF DispatchStep
<1>3. ASSUME NEW m \in Networks \ {n} PROVE SourceAhead(m)'
  <2>1. UNCHANGED <<nextHeight[m], eventsCh[m], dispatcher[m], checkpoint[m]>>
    BY <1>1 DEF DispatchReceive, DispatchSend, TypeOK, ChannelTypes, WorkerTypes
  <2> QED BY <1>2, <2>1 DEF StreamAhead, SourceAhead
<1>4. nextHeight'[n] # 0 => Ahead(n, nextHeight[n])' /\ checkpoint'[n] <= nextHeight'[n]
  BY <1>1, <1>2 DEF StreamAhead, SourceAhead
<1>r. DispatchReceive(n) =>
        /\ UNCHANGED preCheckpointCh
        /\ \/ /\ Receives(eventsCh[n]) /\ eventsCh'[n] = Tail(eventsCh[n])
              /\ dispatcher'[n] = [at |-> "send", event |-> Head(eventsCh[n])]
           \/ dispatcher'[n] = Off /\ eventsCh'[n] = <<>>
  BY DEF DispatchReceive, TypeOK, ChannelTypes, WorkerTypes
<1>5. CASE DispatchReceive(n) /\ dispatcher'[n].at = "send"
  <2>1. /\ Receives(eventsCh[n]) /\ eventsCh'[n] = Tail(eventsCh[n])
        /\ dispatcher'[n] = [at |-> "send", event |-> Head(eventsCh[n])]
        /\ UNCHANGED preCheckpointCh
    <3>1. dispatcher'[n] # Off BY <1>5 DEF Off
    <3> QED BY <1>5, <1>r, <3>1
  <2>2. PICK e : e = Head(eventsCh[n]) OBVIOUS
  <2>3. e \in Elements(eventsCh[n]) /\ Elements(eventsCh'[n]) \subseteq Elements(eventsCh[n])
    BY <2>1, <2>2, EventReceived DEF TypeOK, ChannelTypes
  <2>4. \A x \in Elements(eventsCh[n]) : x.kind # "error" => Ahead(n, x.height)'
    BY <1>2 DEF StreamAhead, SourceAhead
  <2>5. dispatcher'[n].event = e BY <2>1, <2>2
  <2>6. SourceAhead(n)' BY <1>1, <1>4, <2>3, <2>4, <2>5 DEF SourceAhead
  <2>7. BlocksAhead' BY <1>1, <1>2, <2>1 DEF StreamAhead, BlocksAhead
  <2> QED BY <1>3, <2>6, <2>7 DEF StreamAhead
<1>6. CASE ~(DispatchReceive(n) /\ dispatcher'[n].at = "send")
  <2>1. /\ dispatcher'[n].at # "send"
        /\ Elements(eventsCh'[n]) \subseteq Elements(eventsCh[n])
    <3>1. CASE DispatchReceive(n)
      <4>1. dispatcher'[n].at # "send" BY <1>6, <3>1
      <4>2. eventsCh'[n] = <<>> BY <1>r, <3>1, <4>1
      <4> QED BY <4>1, <4>2 DEF Elements
    <3>2. CASE DispatchSend(n)
      BY <3>2 DEF DispatchSend, Idle, TypeOK, ChannelTypes, WorkerTypes
    <3> QED BY <3>1, <3>2
  <2>2. SourceAhead(n)' BY <1>1, <1>2, <1>4, <2>1 DEF StreamAhead, SourceAhead
  <2>3. CASE UNCHANGED preCheckpointCh
    <3>1. BlocksAhead' BY <1>1, <1>2, <2>3 DEF StreamAhead, BlocksAhead
    <3> QED BY <1>3, <2>2, <3>1 DEF StreamAhead
  <2>4. CASE ~UNCHANGED preCheckpointCh
    <3>1. PICK e : /\ e = dispatcher[n].event /\ dispatcher[n].at = "send"
                   /\ e.kind # "error"
                   /\ preCheckpointCh' = Append(preCheckpointCh, BlockOf(e))
      BY <2>4 DEF DispatchReceive, DispatchSend
    <3>2. e \in Event /\ e.network = n BY <3>1, HeldTypes DEF Order, EventsInOrder
    <3>x. PICK x : x = BlockOf(e) OBVIOUS
    <3>3. x \in ObservedBlock /\ x.network = n /\ x.height = e.height
      BY <3>2, <3>x, BlockOfType DEF BlockOf, Event
    <3>4. Elements(preCheckpointCh') = Elements(preCheckpointCh) \cup {x}
      BY <3>1, <3>3, <3>x, BlockSent DEF TypeOK, ChannelTypes
    <3>5. Ahead(x.network, x.height)'
      BY <1>2, <3>1, <3>3 DEF StreamAhead, SourceAhead
    <3>6. BlocksAhead' BY <1>1, <1>2, <3>4, <3>5 DEF StreamAhead, BlocksAhead
    <3> QED BY <1>3, <2>2, <3>6 DEF StreamAhead
  <2> QED BY <2>3, <2>4
<1> QED BY <1>5, <1>6

\* A save writes nothing, or what its block states.
LEMMA SavedHeight ==
  ASSUME TypeOK, SaveCheckpoint, NEW m \in Networks, checkpoint'[m] # checkpoint[m]
  PROVE  m = checkpointer.block.network /\ checkpoint'[m] = checkpointer.block.states
<1>1. PICK b \in ObservedBlock : b = checkpointer.block
  BY HeldTypes DEF SaveCheckpoint
<1>2. checkpoint' = [checkpoint EXCEPT ![b.network] = Saved(checkpoint[b.network], b)]
  BY <1>1 DEF SaveCheckpoint
<1>3. m = b.network /\ checkpoint'[m] = Saved(checkpoint[m], b)
  BY <1>2 DEF TypeOK, StorageTypes
<1> QED BY <1>1, <1>3, ConfigAssumption DEF Saved

\* What the retry loop adds to preCheckpointCh says where it comes from.
LEMMA RecoveredIsRefetched ==
  ASSUME TypeOK, SendRecovered, NEW b \in Elements(preCheckpointCh'), ~b.refetched
  PROVE  b \in Elements(preCheckpointCh)
<1>1. CASE UNCHANGED preCheckpointCh BY <1>1
<1>2. CASE ~UNCHANGED preCheckpointCh
  <2>1. PICK x : /\ x = Refetched(retrier.failure, retrier.at = "recoverHollow")
                 /\ preCheckpointCh' = Append(preCheckpointCh, x)
    BY <1>2 DEF SendRecovered
  <2>2. retrier.failure \in DispatchFailure
    BY BusyRetrier DEF SendRecovered
  <2>3. x \in ObservedBlock /\ x.refetched
    BY <2>1, <2>2, RefetchedType DEF Refetched, DispatchFailure
  <2>4. Elements(preCheckpointCh') = Elements(preCheckpointCh) \cup {x}
    BY <2>1, <2>3, BlockSent DEF TypeOK, ChannelTypes
  <2> QED BY <2>3, <2>4
<1> QED BY <1>1, <1>2

\* A block that is saved, at its height or below, leaves what is above it ahead,
\* and is itself past its save.
LEMMA SaveKeepsAhead ==
  ASSUME TypeOK, SaveCheckpoint, NEW m, NEW h \in Heights, Ahead(m, h),
         m \in Networks,
         m = checkpointer.block.network => checkpointer.block.height <= h
  PROVE  Ahead(m, h)'
<1>1. CASE Out([network |-> m, height |-> h])
  BY <1>1, OutStays DEF BlockStep, Ahead
<1>2. CASE h > checkpoint[m]
  <2>1. PICK b \in ObservedBlock : b = checkpointer.block
    BY HeldTypes DEF SaveCheckpoint
  <2>2. checkpointer' = [at |-> "forward", block |-> b]
    BY <2>1 DEF SaveCheckpoint, TypeOK, WorkerTypes, Checkpointers, Off, Idle
  <2>3. CASE checkpoint'[m] = checkpoint[m] BY <1>2, <2>3 DEF Ahead
  <2>4. CASE checkpoint'[m] # checkpoint[m]
    <3>1. m = b.network /\ checkpoint'[m] = b.states
      BY <2>1, <2>4, SavedHeight
    <3>2. CASE checkpoint'[m] < h
      BY <3>2 DEF Ahead
    <3>3. CASE b.height = h
      <4>1. b \in Leaving' BY <2>2 DEF Leaving
      <4>2. SlotOf(b) = [network |-> m, height |-> h] BY <3>1, <3>3 DEF SlotOf
      <4>3. Out([network |-> m, height |-> h])' BY <4>1, <4>2 DEF Out
      <4> QED BY <4>3 DEF Ahead
    <3>4. b.height \in Nat /\ b.height <= h BY <2>1, <3>1, BlockFields
    <3>5. b.states \in Int /\ b.states <= b.height
      <4>1. PICK stated \in Nat : stated = HeightAt(b.network, b.height) BY BlockFields
      <4>2. b.states <= stated /\ stated <= b.height BY <4>1, BlockFields
      <4> QED BY <3>4, <4>2, BlockFields
    <3>6. checkpoint'[m] < h \/ b.height = h BY <3>1, <3>4, <3>5 DEF Heights
    <3> QED BY <3>2, <3>3, <3>6
  <2> QED BY <2>3, <2>4
<1> QED BY <1>1, <1>2 DEF Ahead

\* A save keeps all that follows ahead.
LEMMA BlocksStayAhead ==
  ASSUME TypeOK, Order, StreamAhead, BlockStep
  PROVE  StreamAhead'
<1>1. UNCHANGED <<nextHeight, dispatcher, eventsCh>>
  BY DEF BlockStep, CheckpointReceive, SaveCheckpoint, Forward, source, channels
<1>2. CASE SaveCheckpoint
  <2>1. PICK b \in ObservedBlock : b = checkpointer.block /\ checkpointer.at = "save"
    BY <1>2, HeldTypes DEF SaveCheckpoint
  <2>2. checkpointer'.at = "forward" /\ preCheckpointCh' = preCheckpointCh
    BY <1>2 DEF SaveCheckpoint, channels, TypeOK, WorkerTypes, Checkpointers, Off, Idle
  <2>3. ASSUME NEW m \in Networks, NEW h \in Heights, Ahead(m, h),
               m = b.network => b.height <= h
        PROVE  Ahead(m, h)'
    BY <1>2, <2>1, <2>3, SaveKeepsAhead
  <2>4. ASSUME NEW m \in Networks PROVE SourceAhead(m)'
    <3>1. m = b.network => Under(b.height, m)
      BY <2>1 DEF Order, BlocksUnder
    <3>2. nextHeight[m] # 0 => Ahead(m, nextHeight[m])' /\ checkpoint'[m] <= nextHeight[m]
      <4> SUFFICES ASSUME nextHeight[m] # 0
                   PROVE  Ahead(m, nextHeight[m])' /\ checkpoint'[m] <= nextHeight[m]
        OBVIOUS
      <4>1. PICK h \in Heights : h = nextHeight[m]
        BY HeldTypes DEF Heights
      <4>2. Ahead(m, h) /\ checkpoint[m] <= h /\ (m = b.network => b.height <= h)
        BY <3>1, <4>1 DEF StreamAhead, SourceAhead, Under
      <4>3. Ahead(m, h)' BY <2>3, <4>2
      <4>4. \/ checkpoint'[m] = checkpoint[m]
            \/ m = b.network /\ checkpoint'[m] = b.states
        <5>1. CASE checkpoint'[m] # checkpoint[m] BY <1>2, <2>1, <5>1, SavedHeight
        <5> QED BY <5>1
      <4>5. b.states <= b.height
        <5>1. PICK stated \in Nat : stated = HeightAt(b.network, b.height) BY BlockFields
        <5>2. b.states <= stated /\ stated <= b.height BY <5>1, BlockFields
        <5> QED BY <5>1, <5>2, BlockFields
      <4>6. checkpoint'[m] <= h BY <4>2, <4>4, <4>5, BlockFields DEF Heights
      <4> QED BY <1>1, <4>1, <4>3, <4>6
    <3>3. \A e \in Elements(eventsCh'[m]) : e.kind # "error" => Ahead(m, e.height)'
      <4> SUFFICES ASSUME NEW e \in Elements(eventsCh[m]), e.kind # "error"
                   PROVE  Ahead(m, e.height)'
        BY <1>1
      <4>1. e.height \in Heights BY HeldTypes DEF Event
      <4>2. Ahead(m, e.height) /\ (m = b.network => b.height <= e.height)
        BY <3>1 DEF StreamAhead, SourceAhead, Under
      <4> QED BY <2>3, <4>1, <4>2
    <3>4. (dispatcher[m].at = "send" /\ dispatcher[m].event.kind # "error" =>
             Ahead(m, dispatcher[m].event.height))'
      <4> SUFFICES ASSUME dispatcher[m].at = "send", dispatcher[m].event.kind # "error"
                   PROVE  Ahead(m, dispatcher[m].event.height)'
        BY <1>1
      <4>1. PICK h \in Heights : h = dispatcher[m].event.height BY HeldTypes DEF Event
      <4>2. Ahead(m, h) /\ (m = b.network => b.height <= h)
        BY <3>1, <4>1 DEF StreamAhead, SourceAhead, Under
      <4>3. Ahead(m, h)' BY <2>3, <4>2
      <4> QED BY <1>1, <4>1, <4>3
    <3> QED BY <1>1, <3>2, <3>3, <3>4 DEF SourceAhead
  <2>5. ASSUME NEW x \in Elements(preCheckpointCh), ~x.refetched
        PROVE  Ahead(x.network, x.height)'
    <3>1. x.network \in Networks /\ x.height \in Heights BY HeldTypes, BlockFields
    <3>2. Ahead(x.network, x.height) /\ (x.network = b.network => b.height <= x.height)
      BY <2>1, <2>5 DEF StreamAhead, BlocksAhead, Order, BlocksInOrder, Precedes
    <3> QED BY <2>3, <3>1, <3>2
  <2>6. BlocksAhead' BY <2>2, <2>5 DEF BlocksAhead
  <2> QED BY <2>4, <2>6 DEF StreamAhead
<1>3. CASE CheckpointReceive \/ Forward
  <2>1. UNCHANGED checkpoint BY <1>3 DEF CheckpointReceive, Forward, storage
  <2>2. \A m, h : Ahead(m, h) => Ahead(m, h)' BY <2>1, AheadStays DEF BlockStep
  <2>3. \A m \in Networks : SourceAhead(m)'
    BY <1>1, <2>1, <2>2 DEF StreamAhead, SourceAhead
  <2>4. CASE checkpointer'.at # "save" /\ UNCHANGED preCheckpointCh
    <3>1. BlocksAhead' BY <2>2, <2>4 DEF StreamAhead, BlocksAhead
    <3> QED BY <2>3, <3>1 DEF StreamAhead
  <2>5. CASE /\ Receives(preCheckpointCh)
             /\ checkpointer' = [at |-> "save", block |-> Head(preCheckpointCh)]
             /\ preCheckpointCh' = Tail(preCheckpointCh)
    <3>1. PICK b : b = Head(preCheckpointCh) OBVIOUS
    <3>2. Elements(preCheckpointCh) = {b} \cup Elements(preCheckpointCh')
      BY <2>5, <3>1, BlockReceived DEF TypeOK, ChannelTypes
    <3>3. \A x \in Elements(preCheckpointCh) : ~x.refetched => Ahead(x.network, x.height)'
      BY <2>2 DEF StreamAhead, BlocksAhead
    <3>4. checkpointer'.block = b BY <2>5, <3>1
    <3>5. BlocksAhead' BY <3>2, <3>3, <3>4 DEF BlocksAhead
    <3> QED BY <2>3, <3>5 DEF StreamAhead
  <2> QED BY <1>3, <2>4, <2>5 DEF CheckpointReceive, Forward, Off, Idle
<1> QED BY <1>2, <1>3 DEF BlockStep

\* No run has begun.
LEMMA AheadInit == Init => AheadInv
BY DEF Init, AheadInv

\* Every step of a live run keeps what is not saved ahead of the checkpoint.
LEMMA AheadStep ==
  ASSUME DeliveryInv, Order, AheadInv, [Next]_vars
  PROVE  AheadInv'
<1> SUFFICES ASSUME ~cancelled' PROVE StreamAhead'
  BY DEF AheadInv
<1>1. CASE StartBegin
  <2>1. /\ checkpointer'.at # "save" /\ preCheckpointCh' = <<>>
        /\ \A n \in Networks : /\ eventsCh'[n] = <<>> /\ nextHeight'[n] = 0
                               /\ dispatcher'[n].at # "send"
    BY <1>1 DEF StartBegin, Quiet, Off, Idle
  <2>2. Elements(<<>>) = {} BY DEF Elements
  <2>3. (\A n \in Networks : SourceAhead(n)') /\ BlocksAhead'
    BY <2>1, <2>2 DEF SourceAhead, BlocksAhead
  <2> QED BY <2>3 DEF StreamAhead
<1>2. CASE ~StartBegin
  <2>1. /\ TypeOK /\ Order /\ StreamAhead
        /\ \/ LaunchStep \/ DispatchStep \/ BlockStep \/ RetryStep \/ OutputStep
           \/ UNCHANGED vars
    BY <1>2, LiveSteps DEF AheadInv, DeliveryInv
  <2>2. CASE StartReturns \/ RetryStep \/ OutputStep \/ UNCHANGED vars
    <3>1. UNCHANGED <<nextHeight, dispatcher, eventsCh, checkpoint, checkpointer>>
      BY <2>2 DEF StartReturns, RetryStep, RetryReceive, FetchSucceeds, FetchFails, SendRecovered,
                  ReportFailure, OutputStep, HandleDispatchFailures, HandlerReceive,
                  NotifyFailure, Consume, vars, source, channels, workers, storage
    <3>2. \A m, h : Ahead(m, h) => Ahead(m, h)'
      BY <2>1, <2>2, <3>1, AheadStays DEF LaunchStep
    <3>3. \A b \in Elements(preCheckpointCh') : ~b.refetched => b \in Elements(preCheckpointCh)
      <4>1. CASE SendRecovered
        BY <2>1, <4>1, RecoveredIsRefetched
      <4>2. CASE ~SendRecovered
        BY <2>2, <4>2 DEF StartReturns, RetryStep, RetryReceive, FetchSucceeds, FetchFails,
                  ReportFailure, OutputStep, HandleDispatchFailures, HandlerReceive,
                  NotifyFailure, Consume, vars, channels
      <4> QED BY <4>1, <4>2
    <3>4. \A n \in Networks : SourceAhead(n)'
      BY <2>1, <3>1, <3>2 DEF StreamAhead, SourceAhead
    <3>5. BlocksAhead' BY <2>1, <3>1, <3>2, <3>3 DEF StreamAhead, BlocksAhead
    <3> QED BY <3>4, <3>5 DEF StreamAhead
  <2> QED
    BY <2>1, <2>2, SourceStaysAhead, DispatcherStaysAhead, BlocksStayAhead
    DEF LaunchStep, DispatchStep
<1> QED BY <1>1, <1>2

\* Every slot whose block was fetched is resolved or leaving, or its height is
\* above the checkpoint.
LEMMA CrashWindowFromAhead ==
  ASSUME DeliveryInv, Order, AheadInv
  PROVE  CrashWindow
<1> SUFFICES ASSUME ~cancelled, NEW e \in emitted, e.kind # "error",
                    e.height <= checkpoint[e.network], SlotOf(e) \in Pending
             PROVE  \E b \in Leaving : SlotOf(b) = SlotOf(e)
  BY DEF CrashWindow, Leaving
<1>1. /\ TypeOK /\ Order /\ StreamAhead /\ EventIsSomewhere(e)
      /\ e \in Event
  BY DEF DeliveryInv, NoSilentLoss, AheadInv, TypeOK, SourceTypes
<1>2. PICK n \in Networks, h \in Heights : n = e.network /\ h = e.height
  BY <1>1 DEF Event
<1>3. SlotOf(e) = [network |-> n, height |-> h] /\ SlotOf(e) \notin Resolved
  BY <1>2 DEF SlotOf, Pending
<1>4. SUFFICES Ahead(n, h)
  <2>1. ~(h > checkpoint[n])
    BY <1>1, <1>2 DEF Heights, TypeOK, StorageTypes, Empty, None
  <2> QED BY <1>3, <2>1 DEF Ahead, Out
<1>b. PICK b \in ObservedBlock : b = BlockOf(e) /\ b.network = n /\ b.height = h /\ ~b.refetched
  <2>1. BlockOf(e) \in ObservedBlock /\ BlockOf(e).network = n /\ BlockOf(e).height = h
        /\ ~BlockOf(e).refetched
    BY <1>1, <1>2, BlockOfType DEF BlockOf, Event
  <2> QED BY <2>1
<1>s. SlotOf(b) = [network |-> n, height |-> h] BY <1>b DEF SlotOf
<1>5. CASE e \in Elements(eventsCh[n])
  BY <1>1, <1>2, <1>5 DEF StreamAhead, SourceAhead
<1>6. CASE dispatcher[n].at = "send" /\ dispatcher[n].event = e
  BY <1>1, <1>2, <1>6 DEF StreamAhead, SourceAhead
<1>7. CASE b \in Elements(preCheckpointCh)
  BY <1>1, <1>b, <1>7 DEF StreamAhead, BlocksAhead
<1>8. CASE checkpointer.at = "save" /\ checkpointer.block = b
  BY <1>1, <1>b, <1>8 DEF StreamAhead, BlocksAhead
<1>9. CASE b \in Leaving
  BY <1>9, <1>s DEF Ahead, Out
<1>10. CASE b \in Elements(delivered[n])
  BY <1>10, <1>s DEF Ahead, Out, Resolved
<1> QED
  BY <1>1, <1>2, <1>b, <1>5, <1>6, <1>7, <1>8, <1>9, <1>10
  DEF EventIsSomewhere, HandedOn, BlockIsSomewhere, Leaving

\* The order of the pipeline and what is ahead of the checkpoint, in every state.
LEMMA AheadInvariant == Spec => [](DeliveryInv /\ Order /\ AheadInv)
<1>1. DeliveryInv => TypeOK BY DEF DeliveryInv
<1>2. Init => Order /\ AheadInv BY OrderInit, AheadInit
<1>3. DeliveryInv /\ Order /\ AheadInv /\ [Next]_vars => Order' /\ AheadInv'
  BY <1>1, OrderStep, AheadStep
<1> QED BY <1>2, <1>3, DeliveryInvariant, PTL DEF Spec

\* Whatever the networks, the storage, the faults of its saves and the retry
\* policy: a crash loses no block that was fetched and not yet saved, for none of
\* them is covered by the checkpoint that a restart resumes from.
THEOREM CrashLosesOnlyWhatLeaves == Spec => []CrashWindow
BY CrashWindowFromAhead, AheadInvariant, PTL

-----------------------------------------------------------------------------
(* What has been delivered is covered                                       *)

\* Only a save touches the checkpoint, and what it does not save comes to be past
\* its save, or with the consumer, from there.
LEMMA OnlySavesCover ==
  ASSUME TypeOK, [Next]_vars, ~SaveCheckpoint
  PROVE  /\ UNCHANGED checkpoint
         /\ Leaving' \subseteq Leaving
         /\ \A n \in Networks : \A b \in Elements(delivered'[n]) :
              b \in Elements(delivered[n]) \/ (b \in Leaving /\ b.network = n)
<1> USE DEF source, channels, workers, outcome, storage
<1>1. ASSUME UNCHANGED <<checkpoint, finalOut, checkpointer, delivered>>
      PROVE  /\ UNCHANGED checkpoint
             /\ Leaving' \subseteq Leaving
             /\ \A n \in Networks : Elements(delivered'[n]) \subseteq Elements(delivered[n])
  BY <1>1 DEF Leaving
<1>2. ASSUME NEW message, ProcessEnds(message)
      PROVE  /\ UNCHANGED checkpoint
             /\ Leaving' \subseteq Leaving
             /\ \A n \in Networks : Elements(delivered'[n]) \subseteq Elements(delivered[n])
  <2>1. finalOut' = <<>> /\ checkpointer' = Off /\ UNCHANGED <<delivered, checkpoint>>
    BY <1>2 DEF ProcessEnds
  <2> QED BY <2>1 DEF Leaving, Elements, Off
<1>3. CASE StartBegin
  <2>1. finalOut' = <<>> /\ checkpointer' = Idle /\ UNCHANGED checkpoint
        /\ \A n \in Networks : delivered'[n] = <<>>
    BY <1>3 DEF StartBegin
  <2> QED BY <2>1 DEF Leaving, Elements, Idle
<1>4. CASE Start /\ ~StartBegin
  BY <1>1, <1>4 DEF Start, LaunchNetwork, LaunchFails, StartFails, StartReturns
<1>5. CASE Close \/ CallerCancels \/ Crash \/ SendOnClosed
  BY <1>1, <1>2, <1>5 DEF Close, CloseBegin, CloseEnds, CloseTwice, CallerCancels, Crash,
                          SendOnClosed
<1>6. CASE \E n \in Networks : Subscription(n) \/ Dispatch(n)
  <2> PICK n \in Networks : Subscription(n) \/ Dispatch(n) BY <1>6
  <2>1. CASE Subscription(n)
    BY <1>1, <2>1 DEF Subscription, EmitBlock, EmitTipError, Emit
  <2>2. CASE DispatchReceive(n) BY <1>1, <2>2 DEF DispatchReceive
  <2>3. CASE DispatchSend(n) BY <1>1, <2>3 DEF DispatchSend
  <2>4. CASE DispatchSendEnds(n) BY <1>1, <2>4 DEF DispatchSendEnds
  <2> QED BY <2>1, <2>2, <2>3, <2>4 DEF Dispatch
<1>7. CASE CheckpointReceive \/ ForwardEnds
  <2>1. UNCHANGED <<checkpoint, finalOut, delivered>> /\ checkpointer'.at # "forward"
    BY <1>7 DEF CheckpointReceive, ForwardEnds, Off
  <2> QED BY <2>1 DEF Leaving
<1>8. CASE Forward
  <2>1. /\ UNCHANGED <<checkpoint, delivered>> /\ checkpointer.at = "forward"
        /\ finalOut' = Append(finalOut, checkpointer.block) /\ checkpointer' = Idle
    BY <1>8 DEF Forward
  <2>2. Elements(finalOut') = Elements(finalOut) \cup {checkpointer.block}
    BY <2>1, BlockSent, HeldTypes DEF TypeOK, ChannelTypes
  <2> QED BY <2>1, <2>2 DEF Leaving, Idle
<1>9. CASE RetryFailedBlockFetches
  BY <1>1, <1>2, <1>9 DEF RetryFailedBlockFetches, RetryReceive, FetchSucceeds, FetchFails,
                          ExecutePanics, SendRecovered, ReportFailure
<1>10. CASE HandleDispatchFailures
  BY <1>1, <1>10 DEF HandleDispatchFailures, HandlerReceive, NotifyFailure
<1>11. CASE Consume
  <2>1. PICK b : b = Head(finalOut) OBVIOUS
  <2>2. /\ Receives(finalOut) /\ UNCHANGED <<checkpoint, checkpointer>>
        /\ finalOut' = Tail(finalOut)
        /\ delivered' = [delivered EXCEPT ![b.network] = Append(delivered[b.network], b)]
    BY <1>11, <2>1 DEF Consume
  <2>3. Elements(finalOut) = {b} \cup Elements(finalOut') /\ b \in ObservedBlock
    BY <2>1, <2>2, BlockReceived, HeldTypes DEF TypeOK, ChannelTypes
  <2>4. b \in Leaving /\ Leaving' \subseteq Leaving BY <2>2, <2>3 DEF Leaving
  <2>5. b.network \in Networks BY <2>3, BlockFields
  <2>6. /\ Elements(delivered'[b.network]) = Elements(delivered[b.network]) \cup {b}
        /\ \A n \in Networks \ {b.network} : delivered'[n] = delivered[n]
    BY <2>2, <2>3, <2>5, BlockSent DEF TypeOK, OutcomeTypes
  <2> QED BY <2>2, <2>4, <2>6
<1>12. CASE SavePanics BY <1>2, <1>12 DEF SavePanics
<1>13. CASE UNCHANGED vars BY <1>1, <1>13 DEF vars
<1> QED
  BY <1>3, <1>4, <1>5, <1>6, <1>7, <1>8, <1>9, <1>10, <1>11, <1>12, <1>13
  DEF Next, CheckpointAndForward

\* A checkpoint of PostgreSQL is nowhere lowered.
LEMMA CheckpointRises ==
  ASSUME TypeOK, Storage = "postgresql", [Next]_vars, NEW n \in Networks
  PROVE  checkpoint[n] <= checkpoint'[n]
<1>1. CASE SaveCheckpoint
  <2>1. PICK b \in ObservedBlock : b = checkpointer.block
    BY <1>1, HeldTypes DEF SaveCheckpoint
  <2>2. CASE checkpoint' = checkpoint BY <2>2 DEF TypeOK, StorageTypes, Empty, None
  <2>3. CASE checkpoint' = [checkpoint EXCEPT ![b.network] = Saved(checkpoint[b.network], b)]
    <3>1. b.states \in Int /\ checkpoint[n] \in Int
      BY <2>1, BlockFields DEF Heights, TypeOK, StorageTypes, Empty, None
    <3>2. checkpoint'[n] = checkpoint[n] \/ checkpoint'[n] = Saved(checkpoint[n], b)
      BY <2>3 DEF TypeOK, StorageTypes
    <3> QED BY <3>1, <3>2 DEF Saved
  <2> QED BY <1>1, <2>1, <2>2, <2>3 DEF SaveCheckpoint
<1>2. CASE UNCHANGED checkpoint BY <1>2 DEF TypeOK, StorageTypes, Empty, None
<1>3. CASE ~SaveCheckpoint
  <2>1. UNCHANGED checkpoint
    BY <1>3, OnlySavesCover
  <2> QED BY <1>2, <2>1
<1> QED BY <1>1, <1>3

\* Nothing is past its save.
LEMMA CoveredInit == TypeOK /\ Init => Covered
<1> SUFFICES ASSUME Init PROVE Covered OBVIOUS
<1>1. /\ finalOut = <<>> /\ checkpointer = Off
      /\ \A n \in Networks : delivered[n] = <<>>
  BY DEF Init
<1> QED BY <1>1 DEF Covered, DeliveredIsCheckpointed, Leaving, Elements, Off

\* A save covers the block it lets past; nothing else gets there.
LEMMA CoveredStep ==
  ASSUME TypeOK, TypeOK', Covered, [Next]_vars, Storage = "postgresql", FaultySaves = FALSE
  PROVE  Covered'
<1>1. \A n \in Networks : checkpoint[n] <= checkpoint'[n] BY CheckpointRises
<1>2. /\ \A n \in Networks : checkpoint[n] \in Int /\ checkpoint'[n] \in Int
      /\ \A b \in Leaving : b.network \in Networks /\ b.states \in Int
      /\ \A n \in Networks : \A b \in Elements(delivered[n]) : b.states \in Int
  <2>1. \A n \in Networks : checkpoint[n] \in Int /\ checkpoint'[n] \in Int
    BY DEF TypeOK, StorageTypes, Empty, None
  <2>2. \A b \in Leaving : b.network \in Networks /\ b.states \in Int
    BY HeldTypes, BlockFields DEF Leaving, Heights
  <2>3. \A n \in Networks : \A b \in Elements(delivered[n]) : b.states \in Int
    <3>1. \A n \in Networks : Elements(delivered[n]) \subseteq ObservedBlock
      BY DEF TypeOK, OutcomeTypes, Elements
    <3> QED BY <3>1, BlockFields DEF Heights
  <2> QED BY <2>1, <2>2, <2>3
<1>3. /\ \A b \in Leaving : b.states <= checkpoint'[b.network]
      /\ \A n \in Networks : \A b \in Elements(delivered[n]) : b.states <= checkpoint'[n]
  BY <1>1, <1>2 DEF Covered, DeliveredIsCheckpointed
<1>4. CASE SaveCheckpoint
  <2>1. PICK b \in ObservedBlock : b = checkpointer.block
    BY <1>4, HeldTypes DEF SaveCheckpoint
  <2>2. /\ UNCHANGED <<finalOut, delivered>>
        /\ checkpointer' = [at |-> "forward", block |-> b]
        /\ checkpoint' = [checkpoint EXCEPT ![b.network] = Saved(checkpoint[b.network], b)]
    BY <1>4, <2>1
    DEF SaveCheckpoint, channels, outcome, TypeOK, WorkerTypes, Checkpointers, Off, Idle
  <2>3. b.states <= checkpoint'[b.network]
    <3>1. /\ b.network \in Networks /\ b.states \in Int
          /\ checkpoint'[b.network] = Saved(checkpoint[b.network], b)
      BY <2>1, <2>2, BlockFields DEF Heights, TypeOK, StorageTypes
    <3> QED BY <1>2, <3>1 DEF Saved
  <2>4. \A x \in Leaving' : x \in Leaving \/ x = b BY <2>2 DEF Leaving
  <2> QED BY <1>3, <2>2, <2>3, <2>4 DEF Covered, DeliveredIsCheckpointed
<1>5. CASE ~SaveCheckpoint
  <2>1. /\ Leaving' \subseteq Leaving
        /\ \A n \in Networks : \A b \in Elements(delivered'[n]) :
             b \in Elements(delivered[n]) \/ (b \in Leaving /\ b.network = n)
    BY <1>5, OnlySavesCover
  <2> QED BY <1>3, <2>1 DEF Covered, DeliveredIsCheckpointed
<1> QED BY <1>4, <1>5

\* On Ethereum a restart begins above every block of a chain that the consumer
\* has received: none of them is streamed a second time.
NotStreamedAgain ==
  \A n \in Networks \ SolanaNetworks : \A b \in Elements(delivered[n]) :
    b.network = n /\ ~IsHollow(b) => b.height <= checkpoint[n]

\* With PostgreSQL and saves that succeed, for any networks, capacities and retry
\* policy and through any number of restarts: no block that the consumer has
\* received states more than the checkpoint.  On Ethereum, where a block states
\* the height that the client was asked for, a restart streams none of them again.
THEOREM DeliveredIsCovered ==
  ASSUME Storage = "postgresql", FaultySaves = FALSE
  PROVE  Spec => [](DeliveredIsCheckpointed /\ NotStreamedAgain)
<1>1. DeliveryInv => TypeOK BY DEF DeliveryInv
<1>2. TypeOK /\ TypeOK' /\ Covered /\ [Next]_vars => Covered' BY CoveredStep
<1>3. DeliveryInv /\ Covered => DeliveredIsCheckpointed /\ NotStreamedAgain
  <2> SUFFICES ASSUME TypeOK, DeliveredIsCheckpointed, NEW n \in Networks \ SolanaNetworks,
                      NEW b \in Elements(delivered[n]), ~IsHollow(b)
               PROVE  b.network = n => b.height <= checkpoint[n]
    BY <1>1 DEF Covered, NotStreamedAgain
  <2>1. b \in ObservedBlock BY DEF TypeOK, OutcomeTypes, Elements
  <2>2. b.states = HeightAt(b.network, b.height) /\ b.height \in Nat BY <2>1, BlockFields
  <2>3. ASSUME b.network = n PROVE b.states = b.height
    <3>1. {q \in 1..b.height : q \notin Skipped[n]} = 1..b.height BY ChainAssumption
    <3>2. Cardinality(1..b.height) = b.height BY <2>2, FS_Interval
    <3> QED BY <2>2, <2>3, <3>1, <3>2 DEF HeightAt
  <2> QED BY <2>3 DEF DeliveredIsCheckpointed
<1> QED BY <1>1, <1>2, <1>3, CoveredInit, DeliveryInvariant, PTL DEF Spec

-----------------------------------------------------------------------------
(* Whose save may uncover what has been delivered                           *)

\* Height h is at or below all that is still to be saved of network n but for
\* recovered blocks: what its client has still to bring while the context is
\* live, and the blocks before their save.
Behind(h, n) ==
  /\ ~cancelled => h <= nextHeight[n]
  /\ dispatcher[n].at = "send" => h <= dispatcher[n].event.height
  /\ \A e \in Elements(eventsCh[n]) : h <= e.height
  /\ \A b \in Elements(preCheckpointCh) : b.network = n /\ ~b.refetched => h <= b.height
  /\ checkpointer.at = "save" /\ checkpointer.block.network = n /\ ~checkpointer.block.refetched
       => h <= checkpointer.block.height

\* So is every block that is past its save.
Passed ==
  /\ \A b \in Leaving : Behind(b.height, b.network)
  /\ \A n \in Networks : \A b \in Elements(delivered[n]) :
       b.network = n /\ Behind(b.height, n)

\* What a client and a dispatcher add is above.
LEMMA DispatchKeepsBehind ==
  ASSUME TypeOK, Order, NEW n \in Networks, Subscription(n) \/ Dispatch(n),
         NEW m \in Networks, NEW h \in Heights, Behind(h, m)
  PROVE  Behind(h, m)'
<1> USE DEF lifecycle, source, channels, workers
<1>1. eventsCh[m] \in Seq(Event) /\ h \in Nat BY DEF TypeOK, ChannelTypes, Heights
<1>2. CASE Subscription(n)
  <2>1. PICK kind \in {"block", "hollow", "error"} : Emit(n, kind)
    BY <1>2 DEF Subscription, EmitBlock, EmitTipError
  <2>2. UNCHANGED <<cancelled, dispatcher, preCheckpointCh, checkpointer>> /\ ~cancelled
    BY <2>1 DEF Emit
  <2>3. nextHeight[m] \in Nat /\ nextHeight[m] <= nextHeight'[m]
    BY <1>2 DEF Subscription, EmitBlock, EmitTipError, TypeOK, SourceTypes
  <2>4. ASSUME NEW e \in Elements(eventsCh'[m]) PROVE h <= e.height
    <3>1. CASE m # n
      BY <2>1, <2>4, <3>1 DEF Emit, TypeOK, ChannelTypes, Behind
    <3>2. CASE m = n
      <4>1. PICK new \in Event :
              /\ new = [network |-> n, height |-> nextHeight[n], kind |-> kind]
              /\ eventsCh'[n] = Append(eventsCh[n], new)
        <5>1. nextHeight[n] \in Heights
          BY <2>1, BoundAssumption DEF Emit, Heights, TypeOK, SourceTypes
        <5>2. [network |-> n, height |-> nextHeight[n], kind |-> kind] \in Event
          BY <5>1 DEF Event
        <5> QED BY <2>1, <5>2 DEF Emit, TypeOK, ChannelTypes
      <4>2. Elements(eventsCh'[n]) = Elements(eventsCh[n]) \cup {new}
        BY <1>1, <3>2, <4>1, EventSent
      <4>3. new.height = nextHeight[n] BY <4>1
      <4> QED BY <2>2, <2>4, <3>2, <4>2, <4>3 DEF Behind
    <3> QED BY <3>1, <3>2
  <2>5. ~cancelled' => h <= nextHeight'[m]
    <3>1. h <= nextHeight[m] BY <2>2 DEF Behind
    <3>2. nextHeight'[m] \in Nat
      BY <1>2 DEF Subscription, EmitBlock, EmitTipError, TypeOK, SourceTypes
    <3> QED BY <1>1, <2>3, <3>1, <3>2
  <2> QED BY <2>2, <2>4, <2>5 DEF Behind
<1>3. CASE Dispatch(n)
  <2>1. UNCHANGED <<cancelled, nextHeight, checkpointer>>
    BY <1>3 DEF Dispatch, DispatchReceive, DispatchSend, DispatchSendEnds
  <2>2. /\ Elements(eventsCh'[m]) \subseteq Elements(eventsCh[m])
        /\ dispatcher'[m].at = "send" =>
             \/ dispatcher[m].at = "send" /\ dispatcher'[m].event = dispatcher[m].event
             \/ dispatcher'[m].event \in Elements(eventsCh[m])
    <3>1. CASE m # n
      BY <1>3, <3>1 DEF Dispatch, DispatchReceive, DispatchSend, DispatchSendEnds, TypeOK,
                        ChannelTypes, WorkerTypes
    <3>2. CASE m = n
      <4>1. \/ dispatcher'[n] \in {Off, Idle} /\ eventsCh'[n] \in {<<>>, eventsCh[n]}
            \/ /\ Receives(eventsCh[n]) /\ eventsCh'[n] = Tail(eventsCh[n])
               /\ dispatcher'[n] = [at |-> "send", event |-> Head(eventsCh[n])]
        <5>1. CASE DispatchReceive(n)
          BY <5>1 DEF DispatchReceive, TypeOK, ChannelTypes, WorkerTypes
        <5>2. CASE DispatchSend(n) \/ DispatchSendEnds(n)
          BY <5>2 DEF DispatchSend, DispatchSendEnds, TypeOK, ChannelTypes, WorkerTypes
        <5> QED BY <1>3, <5>1, <5>2 DEF Dispatch
      <4>2. CASE dispatcher'[n] \in {Off, Idle} /\ eventsCh'[n] \in {<<>>, eventsCh[n]}
        BY <3>2, <4>2 DEF Off, Idle, Elements
      <4>3. CASE /\ Receives(eventsCh[n]) /\ eventsCh'[n] = Tail(eventsCh[n])
                 /\ dispatcher'[n] = [at |-> "send", event |-> Head(eventsCh[n])]
        <5>1. Elements(eventsCh[n]) = {Head(eventsCh[n])} \cup Elements(eventsCh'[n])
          BY <1>1, <3>2, <4>3, EventReceived
        <5> QED BY <3>2, <4>3, <5>1
      <4> QED BY <4>1, <4>2, <4>3
    <3> QED BY <3>1, <3>2
  <2>3. ASSUME NEW b \in Elements(preCheckpointCh'), b.network = m, ~b.refetched
        PROVE  h <= b.height
    <3>1. CASE b \in Elements(preCheckpointCh) BY <2>3, <3>1 DEF Behind
    <3>2. CASE b \notin Elements(preCheckpointCh)
      <4>1. PICK e : /\ e = dispatcher[n].event /\ dispatcher[n].at = "send"
                     /\ preCheckpointCh' = Append(preCheckpointCh, BlockOf(e))
        BY <1>3, <2>3, <3>2 DEF Dispatch, DispatchReceive, DispatchSend, DispatchSendEnds
      <4>2. e \in Event BY <4>1, HeldTypes
      <4>3. b = BlockOf(e)
        BY <2>3, <3>2, <4>1, <4>2, BlockOfType, BlockSent DEF TypeOK, ChannelTypes
      <4>4. b.network = e.network /\ b.height = e.height BY <4>3 DEF BlockOf
      <4>5. e.network = n BY <4>1 DEF Order, EventsInOrder
      <4> QED BY <2>3, <4>1, <4>4, <4>5 DEF Behind
    <3> QED BY <3>1, <3>2
  <2> QED BY <2>1, <2>2, <2>3 DEF Behind
<1> QED BY <1>2, <1>3

\* What passed its save stays behind until the next run begins.
LEMMA BehindStays ==
  ASSUME TypeOK, Order, [Next]_vars, ~StartBegin,
         NEW m \in Networks, NEW h \in Heights, Behind(h, m)
  PROVE  Behind(h, m)'
<1> USE DEF lifecycle, source, channels, workers
<1>1. ASSUME UNCHANGED <<nextHeight, dispatcher, eventsCh, preCheckpointCh>>,
             cancelled' = TRUE \/ UNCHANGED cancelled,
             checkpointer'.at # "save" \/ UNCHANGED checkpointer
      PROVE  Behind(h, m)'
  BY <1>1 DEF Behind
<1>2. ASSUME NEW message, ProcessEnds(message) PROVE Behind(h, m)'
  <2>1. /\ cancelled' = TRUE /\ dispatcher'[m].at # "send" /\ checkpointer'.at # "save"
        /\ eventsCh'[m] = <<>> /\ preCheckpointCh' = <<>>
    BY <1>2 DEF ProcessEnds, Off
  <2> QED BY <2>1 DEF Behind, Elements
<1>3. CASE CloseTwice \/ Crash \/ SavePanics \/ ExecutePanics \/ SendOnClosed
  BY <1>2, <1>3 DEF CloseTwice, Crash, SavePanics, ExecutePanics, SendOnClosed
<1>4. ASSUME NEW n \in Networks, LaunchNetwork(n) PROVE Behind(h, m)'
  <2>1. /\ UNCHANGED <<cancelled, eventsCh, preCheckpointCh, checkpointer>>
        /\ dispatcher'[n] = Idle /\ \A k \in Networks \ {n} : dispatcher'[k] = dispatcher[k]
        /\ \A k \in Networks \ {n} : nextHeight'[k] = nextHeight[k]
    BY <1>4 DEF LaunchNetwork, TypeOK, WorkerTypes, SourceTypes
  <2>2. nextHeight[n] = 0 BY <1>4 DEF LaunchNetwork, Order, Unlaunched
  <2>3. CASE m # n BY <2>1, <2>3 DEF Behind
  <2>4. CASE m = n
    <3>1. cancelled BY <2>2, <2>4 DEF Behind, Heights
    <3>2. dispatcher'[m].at # "send" BY <2>1, <2>4 DEF Idle
    <3> QED BY <2>1, <3>1, <3>2 DEF Behind
  <2> QED BY <2>3, <2>4
<1>5. CASE \/ LaunchFails \/ StartFails \/ StartReturns \/ CloseBegin \/ CloseEnds
           \/ CallerCancels \/ Forward \/ ForwardEnds \/ HandleDispatchFailures \/ Consume
           \/ RetryReceive \/ FetchSucceeds \/ FetchFails \/ ReportFailure \/ UNCHANGED vars
  <2>1. /\ UNCHANGED <<nextHeight, dispatcher, eventsCh, preCheckpointCh>>
        /\ cancelled' = TRUE \/ UNCHANGED cancelled
        /\ checkpointer'.at # "save" \/ UNCHANGED checkpointer
    BY <1>5 DEF LaunchFails, StartFails, StartReturns, CloseBegin, CloseEnds, CallerCancels,
                Forward, ForwardEnds, HandleDispatchFailures, HandlerReceive, NotifyFailure,
                Consume, RetryReceive, FetchSucceeds, FetchFails, ReportFailure, vars, Off, Idle
  <2> QED BY <1>1, <2>1
<1>6. CASE SaveCheckpoint
  <2>1. checkpointer'.at # "save"
    BY <1>6 DEF SaveCheckpoint, TypeOK, WorkerTypes, Checkpointers, Off, Idle
  <2> QED BY <1>1, <1>6, <2>1 DEF SaveCheckpoint
<1>7. CASE CheckpointReceive
  <2>1. CASE UNCHANGED preCheckpointCh /\ checkpointer' = Off
    BY <1>1, <1>7, <2>1 DEF CheckpointReceive, Off
  <2>2. CASE /\ Receives(preCheckpointCh)
             /\ checkpointer' = [at |-> "save", block |-> Head(preCheckpointCh)]
             /\ preCheckpointCh' = Tail(preCheckpointCh)
    <3>1. Elements(preCheckpointCh) = {Head(preCheckpointCh)} \cup Elements(preCheckpointCh')
      BY <2>2, BlockReceived DEF TypeOK, ChannelTypes
    <3>2. UNCHANGED <<cancelled, nextHeight, dispatcher, eventsCh>>
      BY <1>7 DEF CheckpointReceive
    <3>3. checkpointer'.block \in Elements(preCheckpointCh) BY <2>2, <3>1
    <3> QED BY <3>1, <3>2, <3>3 DEF Behind
  <2> QED BY <1>7, <2>1, <2>2 DEF CheckpointReceive
<1>8. CASE SendRecovered
  <2>1. UNCHANGED <<cancelled, nextHeight, dispatcher, eventsCh, checkpointer>>
    BY <1>8 DEF SendRecovered
  <2>2. \A b \in Elements(preCheckpointCh') : ~b.refetched => b \in Elements(preCheckpointCh)
    BY <1>8, RecoveredIsRefetched
  <2> QED BY <2>1, <2>2 DEF Behind
<1>9. CASE \E n \in Networks : Subscription(n) \/ Dispatch(n) BY <1>9, DispatchKeepsBehind
<1> QED
  BY <1>3, <1>4, <1>5, <1>6, <1>7, <1>8, <1>9
  DEF Next, Start, Close, CheckpointAndForward, RetryFailedBlockFetches

\* A block that passes its save has nothing straight from its subscription behind it.
LEMMA PassedStep ==
  ASSUME TypeOK, Order, Passed, [Next]_vars
  PROVE  Passed'
<1> USE DEF channels, workers, outcome
<1>1. CASE StartBegin
  <2>1. /\ finalOut' = <<>> /\ checkpointer' = Idle
        /\ \A n \in Networks : delivered'[n] = <<>>
    BY <1>1 DEF StartBegin
  <2> QED BY <2>1 DEF Passed, Leaving, Elements, Idle
<1>2. CASE ~StartBegin
  <2>1. ASSUME NEW b \in Leaving PROVE b.network \in Networks /\ Behind(b.height, b.network)'
    <3>1. b \in ObservedBlock BY HeldTypes DEF Leaving
    <3>2. b.network \in Networks /\ b.height \in Heights BY <3>1, BlockFields
    <3> QED BY <1>2, <2>1, <3>2, BehindStays DEF Passed
  <2>2. ASSUME NEW n \in Networks, NEW b \in Elements(delivered[n])
        PROVE  b.network = n /\ Behind(b.height, n)'
    <3>1. b \in ObservedBlock BY DEF TypeOK, OutcomeTypes, Elements
    <3>2. b.height \in Heights BY <3>1, BlockFields
    <3> QED BY <1>2, <2>2, <3>2, BehindStays DEF Passed
  <2>3. CASE SaveCheckpoint
    <3>1. PICK b \in ObservedBlock : b = checkpointer.block /\ checkpointer.at = "save"
      BY <2>3, HeldTypes DEF SaveCheckpoint
    <3>2. /\ UNCHANGED <<cancelled, nextHeight, dispatcher, eventsCh, preCheckpointCh, finalOut,
                         delivered>>
          /\ checkpointer' = [at |-> "forward", block |-> b]
      BY <2>3, <3>1 DEF SaveCheckpoint, lifecycle, source, TypeOK, WorkerTypes, Checkpointers,
                        Off, Idle
    <3>3. Behind(b.height, b.network)'
      BY <3>1, <3>2 DEF Order, BlocksUnder, Under, BlocksInOrder, Precedes, Behind
    <3>4. \A x \in Leaving' : x \in Leaving \/ x = b BY <3>2 DEF Leaving
    <3> QED BY <2>1, <2>2, <3>2, <3>3, <3>4 DEF Passed
  <2>4. CASE ~SaveCheckpoint
    <3>1. /\ Leaving' \subseteq Leaving
          /\ \A n \in Networks : \A b \in Elements(delivered'[n]) :
               b \in Elements(delivered[n]) \/ (b \in Leaving /\ b.network = n)
      BY <2>4, OnlySavesCover
    <3> QED BY <2>1, <2>2, <3>1 DEF Passed
  <2> QED BY <2>3, <2>4
<1> QED BY <1>1, <1>2

\* For every storage, and whether its saves fail or not: a save that moves the
\* checkpoint below what a delivered block states is the save of a recovered
\* block or of a hollow one.  Blocks straight from a subscription are saved in
\* the order of their heights, and none of them after a block of the retry loop
\* that is higher, so none ever uncovers what the consumer has.
THEOREM StraightBlocksKeepCover == Spec => OnlyRecoveryUncovers
<1>1. Init => Passed
  <2> SUFFICES ASSUME Init PROVE Passed OBVIOUS
  <2>1. /\ finalOut = <<>> /\ checkpointer = Off
        /\ \A n \in Networks : delivered[n] = <<>>
    BY DEF Init
  <2> QED BY <2>1 DEF Passed, Leaving, Elements, Off
<1>2. DeliveryInv => TypeOK BY DEF DeliveryInv
<1>3. TypeOK /\ Order /\ Passed /\ [Next]_vars => Passed' BY PassedStep
<1>4. TypeOK /\ Order /\ Passed /\ [Next]_vars =>
        [\A n \in Networks : \A b \in Elements(delivered[n]) :
           b.states <= checkpoint[n] /\ checkpoint'[n] < b.states
             => checkpointer.block.refetched \/ IsHollow(checkpointer.block)]_vars
  <2> SUFFICES ASSUME TypeOK, Order, Passed, [Next]_vars,
                      NEW n \in Networks, NEW b \in Elements(delivered[n]),
                      b.states <= checkpoint[n], checkpoint'[n] < b.states,
                      ~checkpointer.block.refetched, ~IsHollow(checkpointer.block)
               PROVE  FALSE
    OBVIOUS
  <2>1. b \in ObservedBlock BY DEF TypeOK, OutcomeTypes, Elements
  <2>2. checkpoint'[n] # checkpoint[n]
    BY <2>1, BlockFields DEF TypeOK, StorageTypes, Empty, None
  <2>3. SaveCheckpoint BY <2>2, OnlySavesCover
  <2>4. PICK x \in ObservedBlock : x = checkpointer.block /\ checkpointer.at = "save"
    BY <2>3, HeldTypes DEF SaveCheckpoint
  <2>5. x.network = n /\ checkpoint'[n] = x.states BY <2>2, <2>3, <2>4, SavedHeight
  <2>6. b.network = n /\ b.height <= x.height BY <2>4, <2>5 DEF Passed, Behind
  <2>7. /\ x.states = HeightAt(n, x.height) /\ x.height \in Nat
        /\ b.states <= HeightAt(n, b.height) /\ b.height \in Nat /\ b.states \in Int
    BY <2>1, <2>4, <2>5, <2>6, BlockFields
  <2>8. /\ HeightAt(n, b.height) \in Nat /\ HeightAt(n, x.height) \in Nat
        /\ HeightAt(n, b.height) <= HeightAt(n, x.height)
    BY <2>6, <2>7, HeightAtBounds
  <2> QED BY <2>5, <2>7, <2>8
<1> QED BY <1>1, <1>2, <1>3, <1>4, AheadInvariant, PTL DEF Spec, OnlyRecoveryUncovers
=============================================================================
