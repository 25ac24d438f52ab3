-------------------------- MODULE ChainStreamProofs --------------------------
(***************************************************************************)
(* Theorems about ChainStream, for every set of networks, every capacity,  *)
(* every storage and any number of runs.                                   *)
(***************************************************************************)
EXTENDS ChainStream, SequenceTheorems, FiniteSetTheorems, TLAPS

-----------------------------------------------------------------------------
(* Channels as sequences                                                    *)

\* A send puts one more element into a channel.
LEMMA AppendElements ==
  ASSUME NEW S, NEW ch \in Seq(S), NEW x \in S
  PROVE  /\ Append(ch, x) \in Seq(S)
         /\ Elements(Append(ch, x)) = Elements(ch) \cup {x}
<1>1. /\ Append(ch, x) \in Seq(S)
      /\ DOMAIN Append(ch, x) = 1..(Len(ch) + 1) /\ DOMAIN ch = 1..Len(ch)
      /\ Len(ch) \in Nat
      /\ Append(ch, x)[Len(ch) + 1] = x
      /\ \A i \in 1..Len(ch) : Append(ch, x)[i] = ch[i]
  OBVIOUS
<1>2. ASSUME NEW e \in Elements(Append(ch, x))
      PROVE  e \in Elements(ch) \cup {x}
  <2>1. PICK i \in 1..(Len(ch) + 1) : e = Append(ch, x)[i]
    BY <1>1, <1>2 DEF Elements
  <2> QED BY <1>1, <2>1 DEF Elements
<1>3. ASSUME NEW e \in Elements(ch) \cup {x}
      PROVE  e \in Elements(Append(ch, x))
  <2>1. CASE e = x BY <1>1, <2>1 DEF Elements
  <2>2. CASE e \in Elements(ch)
    <3>1. PICK i \in 1..Len(ch) : e = ch[i] BY <1>1, <2>2 DEF Elements
    <3>2. i \in 1..(Len(ch) + 1) /\ Append(ch, x)[i] = e BY <1>1, <3>1
    <3> QED BY <1>1, <3>2 DEF Elements
  <2> QED BY <1>3, <2>1, <2>2
<1> QED BY <1>1, <1>2, <1>3

\* A receive takes one out.
LEMMA ReceiveElements ==
  ASSUME NEW S, NEW ch \in Seq(S), Receives(ch)
  PROVE  /\ Head(ch) \in S /\ Tail(ch) \in Seq(S)
         /\ Elements(ch) = {Head(ch)} \cup Elements(Tail(ch))
<1>1. /\ Head(ch) \in S /\ Tail(ch) \in Seq(S) /\ Len(ch) \in Nat \ {0}
      /\ DOMAIN ch = 1..Len(ch) /\ DOMAIN Tail(ch) = 1..(Len(ch) - 1)
      /\ Head(ch) = ch[1]
      /\ \A i \in 1..(Len(ch) - 1) : Tail(ch)[i] = ch[i + 1]
  BY DEF Receives
<1>2. ASSUME NEW e \in Elements(ch)
      PROVE  e \in {Head(ch)} \cup Elements(Tail(ch))
  <2>1. PICK i \in 1..Len(ch) : e = ch[i] BY <1>1, <1>2 DEF Elements
  <2>2. CASE i = 1 BY <1>1, <2>1, <2>2
  <2>3. CASE i # 1
    <3>1. i - 1 \in 1..(Len(ch) - 1) /\ Tail(ch)[i - 1] = e BY <1>1, <2>1, <2>3
    <3> QED BY <1>1, <3>1 DEF Elements
  <2> QED BY <2>2, <2>3
<1>3. ASSUME NEW e \in {Head(ch)} \cup Elements(Tail(ch))
      PROVE  e \in Elements(ch)
  <2>1. CASE e = Head(ch) BY <1>1, <2>1 DEF Elements
  <2>2. CASE e \in Elements(Tail(ch))
    <3>1. PICK i \in 1..(Len(ch) - 1) : e = Tail(ch)[i] BY <1>1, <2>2 DEF Elements
    <3>2. i + 1 \in 1..Len(ch) /\ ch[i + 1] = e BY <1>1, <3>1
    <3> QED BY <1>1, <3>2 DEF Elements
  <2> QED BY <1>3, <2>1, <2>2
<1> QED BY <1>1, <1>2, <1>3

\* The two facts for the channels as they are typed: what is sent is in the
\* channel with all that was there, what is received leaves it.
LEMMA EventSent ==
  \A ch \in Seq(Event), x \in Event : Elements(Append(ch, x)) = Elements(ch) \cup {x}
BY AppendElements

LEMMA FailureSent ==
  \A ch \in Seq(DispatchFailure), x \in DispatchFailure :
    Elements(Append(ch, x)) = Elements(ch) \cup {x}
BY AppendElements

LEMMA BlockSent ==
  \A ch \in Seq(ObservedBlock), x \in ObservedBlock :
    Elements(Append(ch, x)) = Elements(ch) \cup {x}
BY AppendElements

LEMMA EventReceived ==
  \A ch \in Seq(Event) : Receives(ch) => Elements(ch) = {Head(ch)} \cup Elements(Tail(ch))
BY ReceiveElements

LEMMA FailureReceived ==
  \A ch \in Seq(DispatchFailure) :
    Receives(ch) => Elements(ch) = {Head(ch)} \cup Elements(Tail(ch))
BY ReceiveElements

LEMMA BlockReceived ==
  \A ch \in Seq(ObservedBlock) :
    Receives(ch) => Elements(ch) = {Head(ch)} \cup Elements(Tail(ch))
BY ReceiveElements

-----------------------------------------------------------------------------
(* Heights and the blocks that state them                                   *)

\* A block states no more than the height it was asked for with, and later
\* blocks of a network state no less.
LEMMA HeightAtBounds ==
  ASSUME NEW n \in Networks, NEW q \in Nat, NEW p \in Nat, q <= p
  PROVE  /\ HeightAt(n, p) \in Nat /\ HeightAt(n, p) <= p
         /\ HeightAt(n, q) <= HeightAt(n, p)
<1> DEFINE upTo(h) == {x \in 1..h : x \notin Skipped[n]}
<1>1. IsFiniteSet(1..p) /\ Cardinality(1..p) = p
  BY FS_Interval
<1>2. upTo(p) \in SUBSET (1..p) /\ upTo(q) \in SUBSET upTo(p) OBVIOUS
<1>3. IsFiniteSet(upTo(p)) /\ Cardinality(upTo(p)) <= p
  BY <1>1, <1>2, FS_Subset
<1>4. IsFiniteSet(upTo(q)) /\ Cardinality(upTo(q)) <= Cardinality(upTo(p))
  BY <1>2, <1>3, FS_Subset
<1>5. Cardinality(upTo(p)) \in Nat BY <1>3, FS_CardinalityType
<1> QED BY <1>3, <1>4, <1>5 DEF HeightAt

\* What a client makes of an answer, null or not.
LEMMA StatedBounds ==
  ASSUME NEW n \in Networks, NEW p \in Heights, NEW hollow \in BOOLEAN
  PROVE  /\ Stated(n, p, hollow) \in Nat \cup {Empty}
         /\ Stated(n, p, hollow) <= HeightAt(n, p) /\ HeightAt(n, p) <= p
BY HeightAtBounds DEF Stated, Empty, Heights

LEMMA BlockOfType == ASSUME NEW e \in Event PROVE BlockOf(e) \in ObservedBlock
<1>1. e.network \in Networks /\ e.height \in Heights /\ (e.kind = "hollow") \in BOOLEAN
  BY DEF Event
<1>2. Stated(e.network, e.height, e.kind = "hollow") \in Nat \cup {Empty}
  BY <1>1, StatedBounds
<1> QED BY <1>1, <1>2 DEF BlockOf, ObservedBlock

LEMMA RefetchedType ==
  ASSUME NEW f \in DispatchFailure, NEW hollow \in BOOLEAN
  PROVE  Refetched(f, hollow) \in ObservedBlock
<1>1. f.network \in Networks /\ f.height \in Heights BY DEF DispatchFailure
<1>2. Stated(f.network, f.height, hollow) \in Nat \cup {Empty} BY <1>1, StatedBounds
<1> QED BY <1>1, <1>2 DEF Refetched, ObservedBlock

\* The fields of an observed block.
LEMMA BlockFields ==
  ASSUME NEW b \in ObservedBlock
  PROVE  /\ b.network \in Networks /\ b.height \in Heights /\ b.height \in Nat
         /\ b.refetched \in BOOLEAN
         /\ b.states \in Nat \cup {Empty} /\ b.states \in Int
         /\ b.states <= HeightAt(b.network, b.height)
         /\ HeightAt(b.network, b.height) \in Nat /\ HeightAt(b.network, b.height) <= b.height
         /\ ~IsHollow(b) => b.states = HeightAt(b.network, b.height)
<1>1. /\ b.network \in Networks /\ b.height \in Heights /\ b.refetched \in BOOLEAN
      /\ b.states \in Nat \cup {Empty}
  BY DEF ObservedBlock
<1>2. PICK hollow \in BOOLEAN : b.states = Stated(b.network, b.height, hollow)
  BY DEF ObservedBlock
<1>3. /\ HeightAt(b.network, b.height) \in Nat /\ HeightAt(b.network, b.height) <= b.height
  BY <1>1, HeightAtBounds DEF Heights
<1>4. b.states <= HeightAt(b.network, b.height) BY <1>1, <1>2, StatedBounds
<1>5. ~IsHollow(b) => b.states = HeightAt(b.network, b.height)
  BY <1>2 DEF IsHollow, Stated, Empty
<1> QED BY <1>1, <1>3, <1>4, <1>5 DEF Empty, Heights

-----------------------------------------------------------------------------
LEMMA TypeInit == Init => TypeOK
<1>1. Init => LifecycleTypes BY DEF Init, LifecycleTypes
<1>2. Init => SourceTypes BY DEF Init, SourceTypes
<1>3. Init => ChannelTypes BY DEF Init, ChannelTypes
<1>4. Init => WorkerTypes BY DEF Init, WorkerTypes, Dispatchers, Checkpointers, Retriers, Handlers
<1>5. Init => OutcomeTypes BY DEF Init, OutcomeTypes
<1>6. Init => StorageTypes BY DEF Init, StorageTypes
<1> QED BY <1>1, <1>2, <1>3, <1>4, <1>5, <1>6 DEF TypeOK

\* The end of the process leaves every variable with its type.
LEMMA ProcessEndsTypes ==
  ASSUME TypeOK, NEW message, ProcessEnds(message),
         message \in {"none", "closeOfClosedChannel", "sendOnClosedChannel",
                      "interfaceConversion", "sliceBoundsOutOfRange"}
  PROVE  TypeOK'
<1>1. LifecycleTypes' BY DEF ProcessEnds, LifecycleTypes
<1>2. SourceTypes' BY DEF ProcessEnds, TypeOK, SourceTypes
<1>3. ChannelTypes' BY EmptySeq DEF ProcessEnds, ChannelTypes
<1>4. WorkerTypes' BY DEF ProcessEnds, WorkerTypes, Dispatchers, Checkpointers, Retriers, Handlers
<1>5. OutcomeTypes' BY DEF ProcessEnds, TypeOK, OutcomeTypes, outcome
<1>6. StorageTypes' BY DEF ProcessEnds, TypeOK, StorageTypes, storage
<1> QED BY <1>1, <1>2, <1>3, <1>4, <1>5, <1>6 DEF TypeOK

\* Start and Close keep the types.
LEMMA LifecycleStepTypes ==
  ASSUME TypeOK, Start \/ Close \/ CallerCancels \/ Crash
  PROVE  TypeOK'
<1> USE DEF lifecycle, source, channels, workers, outcome, storage
<1>1. CASE StartBegin
  <2>1. Pending \subseteq Slot
    BY DEF Pending, TypeOK, SourceTypes, SlotOf, Slot, Event
  <2>2. LifecycleTypes' /\ SourceTypes' BY <1>1 DEF StartBegin, TypeOK, LifecycleTypes, SourceTypes
  <2>3. ChannelTypes' BY <1>1, EmptySeq DEF StartBegin, ChannelTypes
  <2>4. WorkerTypes'
    BY <1>1 DEF StartBegin, TypeOK, WorkerTypes, Dispatchers, Checkpointers, Retriers, Handlers
  <2>5. OutcomeTypes' BY <1>1, <2>1, EmptySeq DEF StartBegin, TypeOK, OutcomeTypes
  <2>6. StorageTypes' BY <1>1 DEF StartBegin, TypeOK, StorageTypes
  <2> QED BY <2>2, <2>3, <2>4, <2>5, <2>6 DEF TypeOK
<1>2. ASSUME NEW n \in Networks, LaunchNetwork(n) PROVE TypeOK'
  <2>1. LifecycleTypes' BY <1>2 DEF LaunchNetwork, TypeOK, LifecycleTypes
  <2>2. SourceTypes' /\ OutcomeTypes'
    <3>1. PICK h \in 1..(MaxHeight + 1) :
            /\ nextHeight' = [nextHeight EXCEPT ![n] = h]
            /\ orphans' = {s \in orphans : s.network # n \/ s.height < h}
      BY <1>2 DEF LaunchNetwork
    <3> QED BY <1>2, <3>1, BoundAssumption DEF LaunchNetwork, TypeOK, SourceTypes, OutcomeTypes
  <2>3. WorkerTypes' BY <1>2 DEF LaunchNetwork, TypeOK, WorkerTypes, Dispatchers
  <2>4. ChannelTypes' /\ StorageTypes'
    BY <1>2 DEF LaunchNetwork, TypeOK, ChannelTypes, StorageTypes
  <2> QED BY <2>1, <2>2, <2>3, <2>4 DEF TypeOK
<1>3. CASE LaunchFails \/ StartFails \/ StartReturns \/ CloseBegin \/ CloseEnds \/ CallerCancels
  <2>1. UNCHANGED <<source, channels, workers, outcome, storage>>
    BY <1>3 DEF LaunchFails, StartFails, StartReturns, CloseBegin, CloseEnds, CallerCancels
  <2>2. LifecycleTypes'
    BY <1>3 DEF LaunchFails, StartFails, StartReturns, CloseBegin, CloseEnds, CallerCancels,
                TypeOK, LifecycleTypes
  <2> QED BY <2>1, <2>2 DEF TypeOK, SourceTypes, ChannelTypes, WorkerTypes, OutcomeTypes,
                            StorageTypes
<1>4. CASE CloseTwice BY <1>4, ProcessEndsTypes DEF CloseTwice
<1>5. CASE Crash BY <1>5, ProcessEndsTypes DEF Crash
<1> QED BY <1>1, <1>2, <1>3, <1>4, <1>5 DEF Start, Close

\* So do the clients and the dispatchers.
LEMMA DispatchStepTypes ==
  ASSUME TypeOK, NEW n \in Networks, Subscription(n) \/ Dispatch(n)
  PROVE  TypeOK'
<1> USE DEF lifecycle, source, channels, workers, outcome, storage
<1>1. ASSUME NEW kind \in {"block", "hollow", "error"}, Emit(n, kind),
             nextHeight' = [nextHeight EXCEPT ![n] = @ + 1] \/ UNCHANGED nextHeight,
             tipErrors' = [tipErrors EXCEPT ![n] = @ + 1] \/ UNCHANGED tipErrors
      PROVE  TypeOK'
  <2> DEFINE e == [network |-> n, height |-> nextHeight[n], kind |-> kind]
  <2>1. e \in Event BY <1>1, BoundAssumption DEF Emit, Event, Heights, TypeOK, SourceTypes
  <2>2. Append(eventsCh[n], e) \in Seq(Event)
    BY <2>1, AppendElements DEF TypeOK, ChannelTypes
  <2>3. ChannelTypes' BY <1>1, <2>2 DEF Emit, TypeOK, ChannelTypes
  <2>4. SourceTypes'
    <3>1. emitted' \subseteq Event BY <1>1, <2>1 DEF Emit, TypeOK, SourceTypes
    <3>2. nextHeight' \in [Networks -> Nat] /\ tipErrors' \in [Networks -> Nat]
      BY <1>1 DEF TypeOK, SourceTypes
    <3>3. head' \in [Networks -> Nat] BY <1>1 DEF Emit, TypeOK, SourceTypes
    <3> QED BY <3>1, <3>2, <3>3 DEF SourceTypes
  <2>5. LifecycleTypes' /\ WorkerTypes' /\ OutcomeTypes' /\ StorageTypes'
    BY <1>1 DEF Emit, TypeOK, LifecycleTypes, WorkerTypes, OutcomeTypes, StorageTypes
  <2> QED BY <2>3, <2>4, <2>5 DEF TypeOK
<1>2. CASE EmitBlock(n) BY <1>1, <1>2 DEF EmitBlock
<1>3. CASE EmitTipError(n) BY <1>1, <1>3 DEF EmitTipError
<1>4. CASE DispatchReceive(n)
  <2>1. eventsCh[n] \in Seq(Event) BY DEF TypeOK, ChannelTypes
  <2>2. PICK rest \in Seq(Event), state \in Dispatchers :
          /\ eventsCh' = [eventsCh EXCEPT ![n] = rest]
          /\ dispatcher' = [dispatcher EXCEPT ![n] = state]
    <3>1. CASE /\ Receives(eventsCh[n])
               /\ dispatcher' = [dispatcher EXCEPT ![n] = [at |-> "send", event |-> Head(eventsCh[n])]]
               /\ eventsCh' = [eventsCh EXCEPT ![n] = Tail(eventsCh[n])]
      <4>1. Head(eventsCh[n]) \in Event /\ Tail(eventsCh[n]) \in Seq(Event)
        BY <2>1, <3>1, ReceiveElements
      <4>2. [at |-> "send", event |-> Head(eventsCh[n])] \in Dispatchers
        BY <4>1 DEF Dispatchers
      <4> QED BY <3>1, <4>1, <4>2
    <3>2. CASE /\ dispatcher' = [dispatcher EXCEPT ![n] = Off]
               /\ eventsCh' = [eventsCh EXCEPT ![n] = <<>>]
      BY <3>2, EmptySeq DEF Dispatchers
    <3> QED BY <1>4, <3>1, <3>2 DEF DispatchReceive
  <2>3. ChannelTypes' BY <1>4, <2>2 DEF DispatchReceive, TypeOK, ChannelTypes
  <2>4. WorkerTypes' BY <1>4, <2>2 DEF DispatchReceive, TypeOK, WorkerTypes
  <2> QED BY <1>4, <2>3, <2>4 DEF DispatchReceive, TypeOK, LifecycleTypes, SourceTypes,
                                  OutcomeTypes, StorageTypes
<1>5. CASE DispatchSend(n)
  <2> DEFINE e == dispatcher[n].event
  <2>1. e \in Event
    BY <1>5 DEF DispatchSend, TypeOK, WorkerTypes, Dispatchers, Off, Idle
  <2>2. BlockOf(e) \in ObservedBlock /\ FailureOf(e, "not") \in DispatchFailure
    BY <2>1, BlockOfType DEF FailureOf, Event, DispatchFailure
  <2>3. /\ Append(preCheckpointCh, BlockOf(e)) \in Seq(ObservedBlock)
        /\ Append(retryFailureCh, FailureOf(e, "not")) \in Seq(DispatchFailure)
        /\ Append(dispatchFailureCh, FailureOf(e, "not")) \in Seq(DispatchFailure)
    BY <2>2, AppendElements DEF TypeOK, ChannelTypes
  <2>4. ChannelTypes' BY <1>5, <2>3 DEF DispatchSend, SubmitFailure, TypeOK, ChannelTypes
  <2>5. WorkerTypes' BY <1>5 DEF DispatchSend, TypeOK, WorkerTypes, Dispatchers
  <2> QED BY <1>5, <2>4, <2>5 DEF DispatchSend, TypeOK, LifecycleTypes, SourceTypes,
                                  OutcomeTypes, StorageTypes
<1>6. CASE DispatchSendEnds(n)
  <2>1. ChannelTypes' BY <1>6, EmptySeq DEF DispatchSendEnds, TypeOK, ChannelTypes
  <2>2. WorkerTypes' BY <1>6 DEF DispatchSendEnds, TypeOK, WorkerTypes, Dispatchers
  <2> QED BY <1>6, <2>1, <2>2 DEF DispatchSendEnds, TypeOK, LifecycleTypes, SourceTypes,
                                  OutcomeTypes, StorageTypes
<1> QED BY <1>2, <1>3, <1>4, <1>5, <1>6 DEF Subscription, Dispatch

\* So does checkpointAndForward.
LEMMA CheckpointStepTypes ==
  ASSUME TypeOK, CheckpointAndForward
  PROVE  TypeOK'
<1> USE DEF lifecycle, source, channels, workers, outcome, storage
<1>1. CASE CheckpointReceive
  <2>1. PICK rest \in Seq(ObservedBlock), state \in Checkpointers :
          preCheckpointCh' = rest /\ checkpointer' = state
    <3>1. CASE /\ Receives(preCheckpointCh)
               /\ checkpointer' = [at |-> "save", block |-> Head(preCheckpointCh)]
               /\ preCheckpointCh' = Tail(preCheckpointCh)
      <4>1. Head(preCheckpointCh) \in ObservedBlock /\ Tail(preCheckpointCh) \in Seq(ObservedBlock)
        BY <3>1, ReceiveElements DEF TypeOK, ChannelTypes
      <4> QED BY <3>1, <4>1 DEF Checkpointers
    <3>2. CASE checkpointer' = Off /\ UNCHANGED preCheckpointCh
      BY <3>2 DEF Checkpointers, TypeOK, ChannelTypes
    <3> QED BY <1>1, <3>1, <3>2 DEF CheckpointReceive
  <2> QED BY <1>1, <2>1 DEF CheckpointReceive, TypeOK, LifecycleTypes, SourceTypes, ChannelTypes,
                            WorkerTypes, OutcomeTypes, StorageTypes
<1>2. CASE SaveCheckpoint
  <2> DEFINE b == checkpointer.block
  <2>1. b \in ObservedBlock /\ checkpointer' \in Checkpointers
    BY <1>2 DEF SaveCheckpoint, TypeOK, WorkerTypes, Checkpointers, Off, Idle
  <2>2. checkpoint' \in [Networks -> Nat \cup {Empty, None}]
    <3>1. Saved(checkpoint[b.network], b) \in Nat \cup {Empty, None}
      BY <2>1, BlockFields, ConfigAssumption DEF Saved, TypeOK, StorageTypes
    <3>2. \/ checkpoint' = [checkpoint EXCEPT ![b.network] = Saved(checkpoint[b.network], b)]
          \/ checkpoint' = checkpoint
      BY <1>2 DEF SaveCheckpoint
    <3> QED BY <2>1, <3>1, <3>2, BlockFields DEF TypeOK, StorageTypes
  <2> QED BY <1>2, <2>1, <2>2 DEF SaveCheckpoint, TypeOK, LifecycleTypes, SourceTypes,
                                  ChannelTypes, WorkerTypes, OutcomeTypes, StorageTypes
<1>3. CASE SavePanics BY <1>3, ProcessEndsTypes DEF SavePanics
<1>4. CASE Forward
  <2>1. checkpointer.block \in ObservedBlock
    BY <1>4 DEF Forward, TypeOK, WorkerTypes, Checkpointers, Off, Idle
  <2>2. finalOut' \in Seq(ObservedBlock)
    BY <1>4, <2>1, AppendElements DEF Forward, TypeOK, ChannelTypes
  <2>3. checkpointer' \in Checkpointers BY <1>4 DEF Forward, Checkpointers
  <2> QED BY <1>4, <2>2, <2>3 DEF Forward, TypeOK, LifecycleTypes, SourceTypes, ChannelTypes,
                                  WorkerTypes, OutcomeTypes, StorageTypes
<1>5. CASE ForwardEnds
  <2>1. checkpointer' \in Checkpointers BY <1>5 DEF ForwardEnds, Checkpointers
  <2> QED BY <1>5, <2>1 DEF ForwardEnds, TypeOK, LifecycleTypes, SourceTypes, ChannelTypes,
                            WorkerTypes, OutcomeTypes, StorageTypes
<1> QED BY <1>1, <1>2, <1>3, <1>4, <1>5 DEF CheckpointAndForward

\* A retrier that is doing something holds a failure.
LEMMA BusyRetrier ==
  ASSUME TypeOK, retrier.at \in {"fetch", "recover", "recoverHollow", "report"}
  PROVE  retrier \in [at : {"fetch", "recover", "recoverHollow", "report"},
                      failure : DispatchFailure, attempt : Nat]
<1>1. retrier \in Retriers BY DEF TypeOK, WorkerTypes
<1>2. Off.at = "off" /\ Idle.at = "receive" BY DEF Off, Idle
<1>3. retrier # Off /\ retrier # Idle BY <1>2
<1> QED BY <1>1, <1>3 DEF Retriers

\* So does retryFailedBlockFetches.
LEMMA RetryStepTypes ==
  ASSUME TypeOK, RetryFailedBlockFetches
  PROVE  TypeOK'
<1> USE DEF lifecycle, source, channels, workers, outcome, storage
<1>1. CASE RetryReceive
  <2>1. PICK rest \in Seq(DispatchFailure), state \in Retriers :
          retryFailureCh' = rest /\ retrier' = state
    <3>1. CASE /\ Receives(retryFailureCh)
               /\ retryFailureCh' = Tail(retryFailureCh)
               /\ retrier' = [at |-> "fetch", failure |-> Head(retryFailureCh), attempt |-> 1]
      <4>1. Head(retryFailureCh) \in DispatchFailure /\ Tail(retryFailureCh) \in Seq(DispatchFailure)
        BY <3>1, ReceiveElements DEF TypeOK, ChannelTypes
      <4> QED BY <3>1, <4>1 DEF Retriers
    <3>2. CASE retrier' = Off /\ UNCHANGED retryFailureCh
      BY <3>2 DEF Retriers, TypeOK, ChannelTypes
    <3> QED BY <1>1, <3>1, <3>2 DEF RetryReceive
  <2> QED BY <1>1, <2>1 DEF RetryReceive, TypeOK, LifecycleTypes, SourceTypes, ChannelTypes,
                            WorkerTypes, OutcomeTypes, StorageTypes
<1>2. CASE FetchSucceeds \/ FetchFails
  <2>1. retrier' \in Retriers
    <3>1. retrier \in [at : {"fetch", "recover", "recoverHollow", "report"},
                       failure : DispatchFailure, attempt : Nat]
      BY <1>2, BusyRetrier DEF FetchSucceeds, FetchFails
    <3>2. CASE FetchSucceeds BY <3>1, <3>2 DEF FetchSucceeds, Retriers
    <3>3. CASE FetchFails
      <4>1. CASE retrier' = [retrier EXCEPT !.attempt = IF Attempts = 0 /\ @ = 2 THEN 1 ELSE @ + 1]
        <5> DEFINE next == IF Attempts = 0 /\ retrier.attempt = 2 THEN 1 ELSE retrier.attempt + 1
        <5>1. next \in Nat
          <6>1. retrier.attempt \in Nat BY <3>1
          <6> QED BY <6>1
        <5>2. retrier' = [retrier EXCEPT !.attempt = next] BY <4>1
        <5> HIDE DEF next
        <5> QED BY <3>1, <5>1, <5>2 DEF Retriers
      <4>2. CASE retrier' = [retrier EXCEPT !.at = "report", !.failure.retried = "gaveUp"]
        <5> DEFINE g == [retrier.failure EXCEPT !.retried = "gaveUp"]
        <5>1. g \in DispatchFailure BY <3>1 DEF DispatchFailure
        <5>2. retrier' = [retrier EXCEPT !.at = "report", !.failure = g] BY <3>1, <4>2
        <5> HIDE DEF g
        <5>3. retrier' \in [at : {"fetch", "recover", "recoverHollow", "report"},
                            failure : DispatchFailure, attempt : Nat]
          <6>1. retrier' = [at |-> "report", failure |-> g, attempt |-> retrier.attempt]
            BY <3>1, <5>2
          <6> QED BY <3>1, <5>1, <6>1
        <5> QED BY <5>3 DEF Retriers
      <4> QED BY <3>3, <4>1, <4>2 DEF FetchFails
    <3> QED BY <1>2, <3>2, <3>3
  <2> QED BY <1>2, <2>1 DEF FetchSucceeds, FetchFails, TypeOK, LifecycleTypes, SourceTypes,
                            ChannelTypes, WorkerTypes, OutcomeTypes, StorageTypes
<1>3. CASE ExecutePanics BY <1>3, ProcessEndsTypes DEF ExecutePanics
<1>4. CASE SendRecovered
  <2>1. retrier \in [at : {"fetch", "recover", "recoverHollow", "report"},
                     failure : DispatchFailure, attempt : Nat]
    BY <1>4, BusyRetrier DEF SendRecovered
  <2> DEFINE b == Refetched(retrier.failure, retrier.at = "recoverHollow")
  <2>2. b \in ObservedBlock BY <2>1, RefetchedType
  <2>3. preCheckpointCh' \in Seq(ObservedBlock)
    <3>1. Append(preCheckpointCh, b) \in Seq(ObservedBlock)
      BY <2>2, AppendElements DEF TypeOK, ChannelTypes
    <3> QED BY <1>4, <3>1 DEF SendRecovered, TypeOK, ChannelTypes
  <2>4. retrier' \in Retriers BY <1>4, <2>1 DEF SendRecovered, Retriers, DispatchFailure
  <2> QED BY <1>4, <2>3, <2>4 DEF SendRecovered, TypeOK, LifecycleTypes, SourceTypes,
                                  ChannelTypes, WorkerTypes, OutcomeTypes, StorageTypes
<1>5. CASE ReportFailure
  <2>1. retrier.failure \in DispatchFailure BY <1>5, BusyRetrier DEF ReportFailure
  <2>2. dispatchFailureCh' \in Seq(DispatchFailure)
    <3>1. Append(dispatchFailureCh, retrier.failure) \in Seq(DispatchFailure)
      BY <2>1, AppendElements DEF TypeOK, ChannelTypes
    <3> QED BY <1>5, <3>1 DEF ReportFailure, TypeOK, ChannelTypes
  <2>3. retrier' \in Retriers BY <1>5 DEF ReportFailure, Retriers
  <2> QED BY <1>5, <2>2, <2>3 DEF ReportFailure, TypeOK, LifecycleTypes, SourceTypes,
                                  ChannelTypes, WorkerTypes, OutcomeTypes, StorageTypes
<1> QED BY <1>1, <1>2, <1>3, <1>4, <1>5 DEF RetryFailedBlockFetches

\* So do handleDispatchFailures, the consumer and a send on a closed channel.
LEMMA OutputStepTypes ==
  ASSUME TypeOK, HandleDispatchFailures \/ Consume \/ SendOnClosed
  PROVE  TypeOK'
<1> USE DEF lifecycle, source, channels, workers, outcome, storage
<1>1. CASE HandlerReceive
  <2>1. PICK rest \in Seq(DispatchFailure), state \in Handlers :
          dispatchFailureCh' = rest /\ handler' = state
    <3>1. CASE /\ Receives(dispatchFailureCh)
               /\ handler' = [at |-> "notify", failure |-> Head(dispatchFailureCh)]
               /\ dispatchFailureCh' = Tail(dispatchFailureCh)
      <4>1. /\ Head(dispatchFailureCh) \in DispatchFailure
            /\ Tail(dispatchFailureCh) \in Seq(DispatchFailure)
        BY <3>1, ReceiveElements DEF TypeOK, ChannelTypes
      <4> QED BY <3>1, <4>1 DEF Handlers
    <3>2. CASE handler' = Off /\ UNCHANGED dispatchFailureCh
      BY <3>2 DEF Handlers, TypeOK, ChannelTypes
    <3> QED BY <1>1, <3>1, <3>2 DEF HandlerReceive
  <2> QED BY <1>1, <2>1 DEF HandlerReceive, TypeOK, LifecycleTypes, SourceTypes, ChannelTypes,
                            WorkerTypes, OutcomeTypes, StorageTypes
<1>2. CASE NotifyFailure
  <2>1. handler.failure \in DispatchFailure
    BY <1>2 DEF NotifyFailure, TypeOK, WorkerTypes, Handlers, Off, Idle
  <2>2. handler' \in Handlers BY <1>2 DEF NotifyFailure, Handlers
  <2> QED BY <1>2, <2>1, <2>2 DEF NotifyFailure, TypeOK, LifecycleTypes, SourceTypes,
                                  ChannelTypes, WorkerTypes, OutcomeTypes, StorageTypes
<1>3. CASE Consume
  <2> DEFINE b == Head(finalOut)
  <2>1. b \in ObservedBlock /\ finalOut' \in Seq(ObservedBlock)
    BY <1>3, ReceiveElements DEF Consume, TypeOK, ChannelTypes
  <2>2. b.network \in Networks BY <2>1 DEF ObservedBlock
  <2>3. Append(delivered[b.network], b) \in Seq(ObservedBlock)
    BY <2>1, <2>2, AppendElements DEF TypeOK, OutcomeTypes
  <2>4. delivered' \in [Networks -> Seq(ObservedBlock)]
    BY <1>3, <2>2, <2>3 DEF Consume, TypeOK, OutcomeTypes
  <2> QED BY <1>3, <2>1, <2>4 DEF Consume, TypeOK, LifecycleTypes, SourceTypes, ChannelTypes,
                                  WorkerTypes, OutcomeTypes, StorageTypes
<1>4. CASE SendOnClosed BY <1>4, ProcessEndsTypes DEF SendOnClosed
<1> QED BY <1>1, <1>2, <1>3, <1>4 DEF HandleDispatchFailures

LEMMA TypeNext == TypeOK /\ [Next]_vars => TypeOK'
<1> SUFFICES ASSUME TypeOK, [Next]_vars PROVE TypeOK' OBVIOUS
<1>1. CASE Start \/ Close \/ CallerCancels \/ Crash BY <1>1, LifecycleStepTypes
<1>2. ASSUME NEW n \in Networks, Subscription(n) \/ Dispatch(n) PROVE TypeOK'
  BY <1>2, DispatchStepTypes
<1>3. CASE CheckpointAndForward BY <1>3, CheckpointStepTypes
<1>4. CASE RetryFailedBlockFetches BY <1>4, RetryStepTypes
<1>5. CASE SendOnClosed \/ HandleDispatchFailures \/ Consume BY <1>5, OutputStepTypes
<1>6. CASE UNCHANGED vars
  BY <1>6 DEF vars, lifecycle, source, channels, workers, outcome, storage, TypeOK,
              LifecycleTypes, SourceTypes, ChannelTypes, WorkerTypes, OutcomeTypes, StorageTypes
<1> QED BY <1>1, <1>2, <1>3, <1>4, <1>5, <1>6 DEF Next

\* Every variable keeps its type: no goroutine hands on a block or a failure
\* that is not one, whatever is cancelled, closed or crashes when.
THEOREM TypeCorrect == Spec => []TypeOK
BY TypeInit, TypeNext, PTL DEF Spec

-----------------------------------------------------------------------------
(* No silent loss                                                           *)

LEMMA InvInit == Init => DeliveryInv
BY TypeInit DEF Init, DeliveryInv, StoppedIsCancelled, LaunchedOnce, NoSilentLoss

\* A stop cancels the context before it closes a channel.
LEMMA StoppedStep ==
  ASSUME TypeOK, StoppedIsCancelled, [Next]_vars
  PROVE  StoppedIsCancelled'
<1> USE DEF StoppedIsCancelled, lifecycle
<1>1. CASE Start
  BY <1>1 DEF Start, StartBegin, LaunchNetwork, LaunchFails, StartFails, StartReturns
<1>2. CASE Close \/ CallerCancels \/ Crash
  BY <1>2 DEF Close, CloseBegin, CloseEnds, CloseTwice, CallerCancels, Crash, ProcessEnds
<1>3. ASSUME NEW n \in Networks, Subscription(n) \/ Dispatch(n) PROVE StoppedIsCancelled'
  BY <1>3 DEF Subscription, EmitBlock, EmitTipError, Emit, Dispatch, DispatchReceive, DispatchSend,
              DispatchSendEnds
<1>4. CASE CheckpointAndForward
  BY <1>4 DEF CheckpointAndForward, CheckpointReceive, SaveCheckpoint, SavePanics, Forward,
              ForwardEnds, ProcessEnds
<1>5. CASE RetryFailedBlockFetches
  BY <1>5 DEF RetryFailedBlockFetches, RetryReceive, FetchSucceeds, FetchFails, ExecutePanics,
              SendRecovered, ReportFailure, ProcessEnds
<1>6. CASE SendOnClosed \/ HandleDispatchFailures \/ Consume
  BY <1>6 DEF SendOnClosed, HandleDispatchFailures, HandlerReceive, NotifyFailure, Consume,
              ProcessEnds
<1>7. CASE UNCHANGED vars BY <1>7 DEF vars
<1> QED BY <1>1, <1>2, <1>3, <1>4, <1>5, <1>6, <1>7 DEF Next

\* A dispatcher that has not been started takes no step.
LEMMA LaunchedStep ==
  ASSUME TypeOK, LaunchedOnce, [Next]_vars
  PROVE  LaunchedOnce'
<1> USE DEF LaunchedOnce, lifecycle, workers
<1>1. CASE Start
  <2>1. CASE StartBegin BY <2>1 DEF StartBegin, Quiet
  <2>2. ASSUME NEW n \in Networks, LaunchNetwork(n) PROVE LaunchedOnce'
    BY <2>2 DEF LaunchNetwork, TypeOK, LifecycleTypes, WorkerTypes
  <2>3. CASE LaunchFails \/ StartFails \/ StartReturns
    BY <2>3 DEF LaunchFails, StartFails, StartReturns
  <2> QED BY <1>1, <2>1, <2>2, <2>3 DEF Start
<1>2. CASE Close \/ CallerCancels \/ Crash
  BY <1>2 DEF Close, CloseBegin, CloseEnds, CloseTwice, CallerCancels, Crash, ProcessEnds
<1>3. ASSUME NEW n \in Networks, Subscription(n) PROVE LaunchedOnce'
  BY <1>3 DEF Subscription, EmitBlock, EmitTipError, Emit
<1>4. ASSUME NEW n \in Networks, Dispatch(n) PROVE LaunchedOnce'
  <2>1. dispatcher[n] # Off
    <3>1. Idle # Off BY DEF Off, Idle
    <3>2. Off.at # "send" BY DEF Off
    <3> QED BY <1>4, <3>1, <3>2 DEF Dispatch, DispatchReceive, DispatchSend, DispatchSendEnds
  <2>2. UNCHANGED <<phase, toLaunch>> /\ \A m \in Networks \ {n} : dispatcher'[m] = dispatcher[m]
    BY <1>4 DEF Dispatch, DispatchReceive, DispatchSend, DispatchSendEnds, TypeOK, WorkerTypes
  <2> QED BY <2>1, <2>2 DEF TypeOK, LifecycleTypes
<1>5. CASE CheckpointAndForward
  BY <1>5 DEF CheckpointAndForward, CheckpointReceive, SaveCheckpoint, SavePanics, Forward,
              ForwardEnds, ProcessEnds
<1>6. CASE RetryFailedBlockFetches
  BY <1>6 DEF RetryFailedBlockFetches, RetryReceive, FetchSucceeds, FetchFails, ExecutePanics,
              SendRecovered, ReportFailure, ProcessEnds
<1>7. CASE SendOnClosed \/ HandleDispatchFailures \/ Consume
  BY <1>7 DEF SendOnClosed, HandleDispatchFailures, HandlerReceive, NotifyFailure, Consume,
              ProcessEnds
<1>8. CASE UNCHANGED vars BY <1>8 DEF vars
<1> QED BY <1>1, <1>2, <1>3, <1>4, <1>5, <1>6, <1>7, <1>8 DEF Next

\* What happens elsewhere moves no block, no failure and no event.
LEMMA BlockFrame ==
  ASSUME NEW b, BlockIsSomewhere(b),
         UNCHANGED <<preCheckpointCh, checkpointer, finalOut, delivered>>
  PROVE  BlockIsSomewhere(b)'
BY DEF BlockIsSomewhere, Elements

LEMMA FailureFrame ==
  ASSUME NEW f, FailureIsSomewhere(f),
         UNCHANGED <<retryFailureCh, retrier, dispatchFailureCh, handler, notified>>
  PROVE  FailureIsSomewhere(f)'
BY DEF FailureIsSomewhere, Elements

\* An event that was handed on stays so if every block stays and its failure
\* stays, is given up or becomes a block.
LEMMA HandedFrame ==
  ASSUME NEW e \in Event, HandedOn(e),
         \A b \in ObservedBlock : BlockIsSomewhere(b) => BlockIsSomewhere(b)',
         \A retried \in {"not", "gaveUp"} :
           FailureIsSomewhere(FailureOf(e, retried)) =>
             \/ \E r \in {"not", "gaveUp"} : FailureIsSomewhere(FailureOf(e, r))'
             \/ \E hollow \in BOOLEAN :
                  BlockIsSomewhere(Refetched(FailureOf(e, "not"), hollow))'
  PROVE  HandedOn(e)'
<1>1. CASE e.kind # "error"
  <2>1. BlockIsSomewhere(BlockOf(e)) /\ BlockOf(e) \in ObservedBlock
    BY <1>1, BlockOfType DEF HandedOn
  <2>2. BlockIsSomewhere(BlockOf(e))' BY <2>1
  <2> QED BY <1>1, <2>2 DEF HandedOn
<1>2. CASE e.kind = "error"
  <2>1. ASSUME NEW hollow \in BOOLEAN, BlockIsSomewhere(Refetched(FailureOf(e, "not"), hollow))
        PROVE  BlockIsSomewhere(Refetched(FailureOf(e, "not"), hollow))'
    <3>1. FailureOf(e, "not") \in DispatchFailure BY DEF FailureOf, Event, DispatchFailure
    <3>2. Refetched(FailureOf(e, "not"), hollow) \in ObservedBlock BY <3>1, RefetchedType
    <3> QED BY <2>1, <3>2
  <2> QED BY <1>2, <2>1 DEF HandedOn
<1> QED BY <1>1, <1>2

\* What happens elsewhere hands nothing back.
LEMMA HandedStays ==
  ASSUME NEW e \in Event, HandedOn(e),
         UNCHANGED <<preCheckpointCh, checkpointer, finalOut, delivered,
                     retryFailureCh, retrier, dispatchFailureCh, handler, notified>>
  PROVE  HandedOn(e)'
<1>1. \A b \in ObservedBlock : BlockIsSomewhere(b) => BlockIsSomewhere(b)' BY BlockFrame
<1>2. \A r \in {"not", "gaveUp"} :
        FailureIsSomewhere(FailureOf(e, r)) => FailureIsSomewhere(FailureOf(e, r))'
  BY FailureFrame
<1> QED BY <1>1, <1>2, HandedFrame

\* While the context is live, checkpointAndForward and the consumer hand every
\* block on.
LEMMA CheckpointKeepsBlocks ==
  ASSUME DeliveryInv, ~cancelled,
         CheckpointReceive \/ SaveCheckpoint \/ Forward \/ ForwardEnds \/ Consume,
         NEW b \in ObservedBlock, BlockIsSomewhere(b)
  PROVE  BlockIsSomewhere(b)'
<1> USE DEF channels, workers, outcome
<1>1. TypeOK /\ ~closed BY DEF DeliveryInv, StoppedIsCancelled
<1>2. CASE CheckpointReceive
  <2>1. /\ Receives(preCheckpointCh)
        /\ checkpointer = Idle
        /\ checkpointer' = [at |-> "save", block |-> Head(preCheckpointCh)]
        /\ preCheckpointCh' = Tail(preCheckpointCh)
        /\ UNCHANGED <<finalOut, delivered>>
    BY <1>1, <1>2 DEF CheckpointReceive, ReceiveEnds
  <2>2. Elements(preCheckpointCh) = {Head(preCheckpointCh)} \cup Elements(preCheckpointCh')
    BY <1>1, <2>1, BlockReceived DEF TypeOK, ChannelTypes
  <2>3. ~(checkpointer.at \in {"save", "forward"}) BY <2>1 DEF Idle
  <2> QED BY <2>1, <2>2, <2>3 DEF BlockIsSomewhere, Elements
<1>3. CASE SaveCheckpoint
  <2>1. /\ checkpointer'.at = "forward" /\ checkpointer'.block = checkpointer.block
        /\ UNCHANGED <<preCheckpointCh, finalOut, delivered>>
    BY <1>1, <1>3 DEF SaveCheckpoint, TypeOK, WorkerTypes, Checkpointers, Off, Idle
  <2> QED BY <2>1 DEF BlockIsSomewhere, Elements
<1>4. CASE Forward
  <2>1. /\ checkpointer.at = "forward" /\ finalOut' = Append(finalOut, checkpointer.block)
        /\ UNCHANGED <<preCheckpointCh, delivered>>
    BY <1>4 DEF Forward
  <2>2. checkpointer.block \in ObservedBlock
    BY <1>1, <2>1 DEF TypeOK, WorkerTypes, Checkpointers, Off, Idle
  <2>3. Elements(finalOut') = Elements(finalOut) \cup {checkpointer.block}
    BY <1>1, <2>1, <2>2, BlockSent DEF TypeOK, ChannelTypes
  <2> QED BY <2>1, <2>3 DEF BlockIsSomewhere, Elements
<1>5. CASE ForwardEnds BY <1>5 DEF ForwardEnds, SendEnds
<1>6. CASE Consume
  <2> DEFINE c == Head(finalOut)
  <2>1. /\ c \in ObservedBlock
        /\ Elements(finalOut) = {c} \cup Elements(finalOut')
    BY <1>1, <1>6, ReceiveElements DEF Consume, TypeOK, ChannelTypes
  <2>2. /\ delivered' = [delivered EXCEPT ![c.network] = Append(@, c)]
        /\ UNCHANGED <<preCheckpointCh, checkpointer>>
    BY <1>6 DEF Consume
  <2>3. c.network \in Networks /\ b.network \in Networks BY <2>1 DEF ObservedBlock
  <2>4. delivered[c.network] \in Seq(ObservedBlock)
    BY <1>1, <2>3 DEF TypeOK, OutcomeTypes
  <2>5. Elements(Append(delivered[c.network], c)) = Elements(delivered[c.network]) \cup {c}
    BY <2>1, <2>4, BlockSent
  <2>6. /\ Elements(delivered[b.network]) \subseteq Elements(delivered'[b.network])
        /\ c \in Elements(delivered'[c.network])
    BY <1>1, <2>2, <2>3, <2>5 DEF TypeOK, OutcomeTypes
  <2>7. CASE b = c BY <2>6, <2>7 DEF BlockIsSomewhere, Elements
  <2>8. CASE b # c BY <2>1, <2>2, <2>6, <2>8 DEF BlockIsSomewhere, Elements
  <2> QED BY <2>7, <2>8
<1> QED BY <1>2, <1>3, <1>4, <1>5, <1>6

\* While the context is live, the retry loop and handleDispatchFailures hand
\* every failure on, given up or not, until its block takes its place.
LEMMA RetryKeepsFailures ==
  ASSUME DeliveryInv, ~cancelled,
         RetryReceive \/ FetchSucceeds \/ FetchFails \/ SendRecovered \/ ReportFailure
           \/ HandleDispatchFailures,
         NEW e \in Event, NEW retried \in {"not", "gaveUp"},
         FailureIsSomewhere(FailureOf(e, retried))
  PROVE  \/ \E r \in {"not", "gaveUp"} : FailureIsSomewhere(FailureOf(e, r))'
         \/ \E hollow \in BOOLEAN : BlockIsSomewhere(Refetched(FailureOf(e, "not"), hollow))'
<1> USE DEF channels, workers, outcome
<1> DEFINE f == FailureOf(e, retried)
<1>1. TypeOK /\ ~closed BY DEF DeliveryInv, StoppedIsCancelled
<1>2. CASE RetryReceive
  <2>1. /\ Receives(retryFailureCh) /\ retrier = Idle
        /\ retryFailureCh' = Tail(retryFailureCh)
        /\ retrier' = [at |-> "fetch", failure |-> Head(retryFailureCh), attempt |-> 1]
        /\ UNCHANGED <<dispatchFailureCh, handler, notified>>
    BY <1>1, <1>2 DEF RetryReceive, ReceiveEnds
  <2>2. Elements(retryFailureCh) = {Head(retryFailureCh)} \cup Elements(retryFailureCh')
    BY <1>1, <2>1, ReceiveElements DEF TypeOK, ChannelTypes
  <2>3. retrier'.at = "fetch" /\ retrier' \notin {Off, Idle}
    <3>1. Off.at = "off" /\ Idle.at = "receive" BY DEF Off, Idle
    <3>2. retrier'.at = "fetch" BY <2>1
    <3> QED BY <3>1, <3>2
  <2>4. FailureIsSomewhere(f)' BY <2>1, <2>2, <2>3 DEF FailureIsSomewhere, Elements
  <2> QED BY <2>4
<1>3. CASE FetchSucceeds \/ FetchFails
  <2>1. retrier \in [at : {"fetch", "recover", "recoverHollow", "report"},
                     failure : DispatchFailure, attempt : Nat]
    BY <1>1, <1>3, BusyRetrier DEF FetchSucceeds, FetchFails
  <2>2. /\ retrier'.at \in {"fetch", "recover", "recoverHollow", "report"}
        /\ \/ retrier'.failure = retrier.failure
           \/ retrier'.failure = [retrier.failure EXCEPT !.retried = "gaveUp"]
    BY <1>3, <2>1 DEF FetchSucceeds, FetchFails
  <2>3. retrier' \notin {Off, Idle}
    <3>1. Off.at = "off" /\ Idle.at = "receive" BY DEF Off, Idle
    <3> QED BY <2>2, <3>1
  <2>4. UNCHANGED <<retryFailureCh, dispatchFailureCh, handler, notified>>
    BY <1>3 DEF FetchSucceeds, FetchFails
  <2>5. CASE retrier.failure = f
    <3>1. PICK r \in {"not", "gaveUp"} : retrier'.failure = FailureOf(e, r)
      <4>1. CASE retrier'.failure = retrier.failure BY <2>5, <4>1
      <4>2. CASE retrier'.failure = [retrier.failure EXCEPT !.retried = "gaveUp"]
        <5> DEFINE g == [f EXCEPT !.retried = "gaveUp"]
        <5>1. f \in DispatchFailure /\ FailureOf(e, "gaveUp") \in DispatchFailure
          BY DEF FailureOf, DispatchFailure, Event
        <5>2. f.network = e.network /\ f.height = e.height BY DEF FailureOf
        <5>3. /\ g \in DispatchFailure
              /\ g.network = e.network /\ g.height = e.height /\ g.retried = "gaveUp"
          <6> HIDE DEF f
          <6> QED BY <5>1, <5>2 DEF DispatchFailure
        <5>4. g = FailureOf(e, "gaveUp")
          <6> HIDE DEF g
          <6> QED BY <5>1, <5>3 DEF DispatchFailure, FailureOf
        <5> QED BY <2>5, <4>2, <5>4
      <4> QED BY <2>2, <4>1, <4>2
    <3>2. FailureOf(e, r)' = FailureOf(e, r) BY DEF FailureOf
    <3>3. FailureIsSomewhere(FailureOf(e, r))' BY <2>3, <3>1, <3>2 DEF FailureIsSomewhere
    <3> QED BY <3>3
  <2>6. CASE retrier.failure # f
    <3>1. FailureIsSomewhere(f)' BY <2>4, <2>6 DEF FailureIsSomewhere, Elements
    <3> QED BY <3>1
  <2> QED BY <2>5, <2>6
<1>7. CASE SendRecovered
  <2> DEFINE hollow == retrier.at = "recoverHollow"
             block == Refetched(FailureOf(e, "not"), hollow)
  <2>1. /\ preCheckpointCh' = Append(preCheckpointCh, Refetched(retrier.failure, hollow))
        /\ UNCHANGED <<retryFailureCh, dispatchFailureCh, handler, notified>>
    BY <1>7 DEF SendRecovered, SendEnds
  <2>2. CASE retrier.failure = f
    <3>1. Refetched(retrier.failure, hollow) = block BY <2>2 DEF Refetched, FailureOf
    <3>2. block \in ObservedBlock
      <4>1. FailureOf(e, "not") \in DispatchFailure BY DEF FailureOf, Event, DispatchFailure
      <4> QED BY <4>1, RefetchedType
    <3>3. block \in Elements(preCheckpointCh')
      <4>1. preCheckpointCh \in Seq(ObservedBlock) BY <1>1 DEF TypeOK, ChannelTypes
      <4>2. block \in Elements(Append(preCheckpointCh, block)) BY <3>2, <4>1, BlockSent
      <4> QED BY <2>1, <3>1, <4>2
    <3>4. PICK h \in BOOLEAN : h = hollow OBVIOUS
    <3>5. Refetched(FailureOf(e, "not"), h)' = Refetched(FailureOf(e, "not"), h)
      BY DEF Refetched, FailureOf, Stated, HeightAt
    <3>6. BlockIsSomewhere(Refetched(FailureOf(e, "not"), h))'
      BY <3>3, <3>4, <3>5 DEF BlockIsSomewhere, Elements
    <3> QED BY <3>6
  <2>3. CASE retrier.failure # f
    <3>1. FailureIsSomewhere(f)' BY <2>1, <2>3 DEF FailureIsSomewhere, Elements
    <3> QED BY <3>1
  <2> QED BY <2>2, <2>3
<1>4. CASE ReportFailure
  <2>1. /\ retrier.at = "report"
        /\ dispatchFailureCh' = Append(dispatchFailureCh, retrier.failure)
        /\ UNCHANGED <<retryFailureCh, handler, notified>>
    BY <1>4 DEF ReportFailure, SendEnds
  <2>2. retrier.failure \in DispatchFailure BY <1>1, <2>1, BusyRetrier
  <2>3. Elements(dispatchFailureCh') = Elements(dispatchFailureCh) \cup {retrier.failure}
    <3>1. dispatchFailureCh \in Seq(DispatchFailure) BY <1>1 DEF TypeOK, ChannelTypes
    <3>2. Elements(Append(dispatchFailureCh, retrier.failure))
            = Elements(dispatchFailureCh) \cup {retrier.failure}
      BY <2>2, <3>1, FailureSent
    <3> QED BY <2>1, <3>2
  <2>4. FailureIsSomewhere(f)' BY <2>1, <2>3 DEF FailureIsSomewhere, Elements
  <2> QED BY <2>4
<1>5. CASE HandlerReceive
  <2>1. /\ Receives(dispatchFailureCh) /\ handler = Idle
        /\ dispatchFailureCh' = Tail(dispatchFailureCh)
        /\ handler' = [at |-> "notify", failure |-> Head(dispatchFailureCh)]
        /\ UNCHANGED <<retryFailureCh, retrier, notified>>
    BY <1>1, <1>5 DEF HandlerReceive, ReceiveEnds
  <2>2. Elements(dispatchFailureCh) = {Head(dispatchFailureCh)} \cup Elements(dispatchFailureCh')
    BY <1>1, <2>1, FailureReceived DEF TypeOK, ChannelTypes
  <2>3. handler.at # "notify" BY <2>1 DEF Idle
  <2>4. FailureIsSomewhere(f)' BY <2>1, <2>2, <2>3 DEF FailureIsSomewhere, Elements
  <2> QED BY <2>4
<1>6. CASE NotifyFailure
  <2>1. /\ notified' = notified \cup {handler.failure}
        /\ UNCHANGED <<retryFailureCh, retrier, dispatchFailureCh>>
    BY <1>6 DEF NotifyFailure
  <2>2. FailureIsSomewhere(f)' BY <2>1 DEF FailureIsSomewhere, Elements
  <2> QED BY <2>2
<1> QED BY <1>2, <1>3, <1>4, <1>5, <1>6, <1>7 DEF HandleDispatchFailures

\* A block on its way stays put when preCheckpointCh grows, and a failure when
\* one of its channels does.
LEMMA SendKeeps ==
  ASSUME TypeOK,
         \/ UNCHANGED preCheckpointCh
         \/ \E b \in ObservedBlock : preCheckpointCh' = Append(preCheckpointCh, b),
         UNCHANGED <<checkpointer, finalOut, delivered>>,
         NEW c, BlockIsSomewhere(c)
  PROVE  BlockIsSomewhere(c)'
<1>1. Elements(preCheckpointCh) \subseteq Elements(preCheckpointCh')
  <2>1. ASSUME NEW b \in ObservedBlock, preCheckpointCh' = Append(preCheckpointCh, b)
        PROVE  Elements(preCheckpointCh) \subseteq Elements(preCheckpointCh')
    BY <2>1, BlockSent DEF TypeOK, ChannelTypes
  <2> QED BY <2>1
<1> QED BY <1>1 DEF BlockIsSomewhere, Elements

LEMMA SubmitKeeps ==
  ASSUME TypeOK,
         \/ UNCHANGED <<retryFailureCh, dispatchFailureCh>>
         \/ \E g \in DispatchFailure : SubmitFailure(g),
         UNCHANGED <<retrier, handler, notified>>,
         NEW f, FailureIsSomewhere(f)
  PROVE  FailureIsSomewhere(f)'
<1>1. /\ Elements(retryFailureCh) \subseteq Elements(retryFailureCh')
      /\ Elements(dispatchFailureCh) \subseteq Elements(dispatchFailureCh')
  <2>1. ASSUME NEW g \in DispatchFailure, SubmitFailure(g)
        PROVE  /\ Elements(retryFailureCh) \subseteq Elements(retryFailureCh')
               /\ Elements(dispatchFailureCh) \subseteq Elements(dispatchFailureCh')
    <3>1. /\ Elements(retryFailureCh) \subseteq Elements(Append(retryFailureCh, g))
          /\ Elements(dispatchFailureCh) \subseteq Elements(Append(dispatchFailureCh, g))
      BY FailureSent DEF TypeOK, ChannelTypes
    <3> QED BY <2>1, <3>1 DEF SubmitFailure
  <2> QED BY <2>1
<1> QED BY <1>1 DEF FailureIsSomewhere, Elements

\* What the client emits is in its channel, and nothing else moves.
LEMMA EmitKeepsEvents ==
  ASSUME TypeOK, NEW n \in Networks, NEW kind \in {"block", "hollow", "error"}, Emit(n, kind),
         NoSilentLoss
  PROVE  NoSilentLoss'
<1> USE DEF lifecycle, workers, outcome
<1>1. PICK new \in Event : new = [network |-> n, height |-> nextHeight[n], kind |-> kind]
  BY BoundAssumption DEF Emit, Event, Heights, TypeOK, SourceTypes
<1>2. /\ eventsCh' = [eventsCh EXCEPT ![n] = Append(@, new)]
      /\ emitted' = emitted \cup {new}
      /\ ~cancelled
      /\ UNCHANGED <<dispatcher, preCheckpointCh, checkpointer, finalOut, delivered,
                     retryFailureCh, retrier, dispatchFailureCh, handler, notified>>
  BY <1>1 DEF Emit
<1>3. Elements(Append(eventsCh[n], new)) = Elements(eventsCh[n]) \cup {new}
  <2>1. PICK ch \in Seq(Event) : ch = eventsCh[n] BY DEF TypeOK, ChannelTypes
  <2>2. Elements(Append(ch, new)) = Elements(ch) \cup {new} BY EventSent
  <2> QED BY <2>1, <2>2
<1>4. /\ new \in Elements(eventsCh'[n])
      /\ \A m \in Networks : Elements(eventsCh[m]) \subseteq Elements(eventsCh'[m])
  BY <1>2, <1>3 DEF TypeOK, ChannelTypes
<1>5. ASSUME NEW e \in emitted PROVE EventIsSomewhere(e)'
  <2>1. e \in Event /\ e.network \in Networks BY DEF TypeOK, SourceTypes, Event
  <2>2. EventIsSomewhere(e) BY <1>2 DEF NoSilentLoss
  <2>3. HandedOn(e) => HandedOn(e)' BY <1>2, <2>1, HandedStays
  <2>5. CASE e \in Elements(eventsCh[e.network])
    BY <1>4, <2>1, <2>5 DEF EventIsSomewhere, Elements
  <2>6. CASE e \notin Elements(eventsCh[e.network])
    BY <1>2, <2>2, <2>3, <2>6 DEF EventIsSomewhere
  <2> QED BY <2>5, <2>6
<1>6. EventIsSomewhere(new)' BY <1>1, <1>4 DEF EventIsSomewhere, Elements
<1> QED BY <1>2, <1>5, <1>6 DEF NoSilentLoss

\* A dispatcher takes an event out of its channel and hands its block or its
\* failure on.
LEMMA DispatchKeepsEvents ==
  ASSUME DeliveryInv, NEW n \in Networks, Dispatch(n), ~cancelled,
         NEW e \in Event, EventIsSomewhere(e)
  PROVE  EventIsSomewhere(e)'
<1> USE DEF lifecycle, channels, workers, outcome
<1>1. TypeOK /\ ~closed BY DEF DeliveryInv, StoppedIsCancelled
<1>2. e.network \in Networks BY DEF Event
<1>3. CASE DispatchReceive(n)
  <2>1. /\ dispatcher[n] = Idle /\ Receives(eventsCh[n])
        /\ dispatcher' = [dispatcher EXCEPT ![n] = [at |-> "send", event |-> Head(eventsCh[n])]]
        /\ eventsCh' = [eventsCh EXCEPT ![n] = Tail(@)]
        /\ UNCHANGED <<preCheckpointCh, checkpointer, finalOut, delivered,
                       retryFailureCh, retrier, dispatchFailureCh, handler, notified>>
    BY <1>3 DEF DispatchReceive, ReceiveEnds
  <2>2. Elements(eventsCh[n]) = {Head(eventsCh[n])} \cup Elements(Tail(eventsCh[n]))
    <3>1. eventsCh[n] \in Seq(Event) /\ Receives(eventsCh[n])
      BY <1>1, <2>1 DEF TypeOK, ChannelTypes
    <3> QED BY <3>1, EventReceived
  <2>3. dispatcher[n].at # "send" BY <2>1 DEF Idle
  <2>4. /\ dispatcher'[n].at = "send" /\ dispatcher'[n].event = Head(eventsCh[n])
        /\ eventsCh'[n] = Tail(eventsCh[n])
        /\ \A m \in Networks \ {n} : dispatcher'[m] = dispatcher[m] /\ eventsCh'[m] = eventsCh[m]
    BY <1>1, <2>1 DEF TypeOK, ChannelTypes, WorkerTypes
  <2>5. HandedOn(e) => HandedOn(e)' BY <2>1, HandedStays
  <2>7. CASE e \in Elements(eventsCh[e.network])
    <3>1. CASE e.network # n
      BY <1>2, <2>4, <2>7, <3>1 DEF EventIsSomewhere, Elements
    <3>2. CASE e.network = n /\ e = Head(eventsCh[n])
      BY <2>4, <3>2 DEF EventIsSomewhere
    <3>3. CASE e.network = n /\ e \in Elements(Tail(eventsCh[n]))
      BY <2>4, <3>3 DEF EventIsSomewhere, Elements
    <3> QED BY <2>2, <2>7, <3>1, <3>2, <3>3
  <2>8. CASE dispatcher[e.network].at = "send" /\ dispatcher[e.network].event = e
    BY <1>2, <2>3, <2>4, <2>8 DEF EventIsSomewhere
  <2>9. CASE /\ e \notin Elements(eventsCh[e.network])
             /\ ~(dispatcher[e.network].at = "send" /\ dispatcher[e.network].event = e)
    BY <2>5, <2>9 DEF EventIsSomewhere
  <2> QED BY <2>7, <2>8, <2>9
<1>4. CASE DispatchSend(n)
  <2> DEFINE sent == dispatcher[n].event
  <2>1. /\ dispatcher[n].at = "send" /\ sent \in Event
        /\ dispatcher' = [dispatcher EXCEPT ![n] = Idle]
        /\ UNCHANGED <<eventsCh, checkpointer, finalOut, delivered, retrier, handler, notified>>
    BY <1>1, <1>4 DEF DispatchSend, TypeOK, WorkerTypes, Dispatchers, Off, Idle
  <2>2. BlockOf(sent) \in ObservedBlock /\ FailureOf(sent, "not") \in DispatchFailure
    BY <2>1, BlockOfType DEF FailureOf, Event, DispatchFailure
  <2>3. ASSUME NEW b \in ObservedBlock, BlockIsSomewhere(b) PROVE BlockIsSomewhere(b)'
    <3>1. \/ UNCHANGED preCheckpointCh
          \/ \E x \in ObservedBlock : preCheckpointCh' = Append(preCheckpointCh, x)
      BY <1>4, <2>2 DEF DispatchSend
    <3> QED BY <1>1, <2>1, <2>3, <3>1, SendKeeps
  <2>4. ASSUME NEW r \in {"not", "gaveUp"}, FailureIsSomewhere(FailureOf(e, r))
        PROVE  FailureIsSomewhere(FailureOf(e, r))'
    <3>1. \/ UNCHANGED <<retryFailureCh, dispatchFailureCh>>
          \/ \E g \in DispatchFailure : SubmitFailure(g)
      BY <1>4, <2>2 DEF DispatchSend
    <3> QED BY <1>1, <2>1, <2>4, <3>1, SubmitKeeps
  <2>8. HandedOn(e) => HandedOn(e)' BY <2>3, <2>4, HandedFrame
  <2>5. CASE e \in Elements(eventsCh[e.network])
    BY <2>1, <2>5 DEF EventIsSomewhere, Elements
  <2>6. CASE dispatcher[e.network].at = "send" /\ dispatcher[e.network].event = e
    <3>1. CASE e.network # n
      BY <1>1, <1>2, <2>1, <2>6, <3>1 DEF EventIsSomewhere, TypeOK, WorkerTypes
    <3>2. CASE e.network = n /\ e.kind # "error"
      <4>1. preCheckpointCh' = Append(preCheckpointCh, BlockOf(e))
        BY <1>4, <2>6, <3>2 DEF DispatchSend
      <4>2. BlockOf(e) \in ObservedBlock BY <2>2, <2>6, <3>2
      <4>3. BlockOf(e) \in Elements(preCheckpointCh')
        <5>1. BlockOf(e) \in Elements(Append(preCheckpointCh, BlockOf(e)))
          BY <1>1, <4>2, BlockSent DEF TypeOK, ChannelTypes
        <5> QED BY <4>1, <5>1
      <4>4. BlockIsSomewhere(BlockOf(e))' BY <4>3 DEF BlockIsSomewhere, Elements, BlockOf
      <4> QED BY <3>2, <4>4 DEF EventIsSomewhere, HandedOn
    <3>3. CASE e.network = n /\ e.kind = "error"
      <4>1. SubmitFailure(FailureOf(e, "not"))
        BY <1>4, <2>6, <3>3 DEF DispatchSend
      <4>2. FailureOf(e, "not") \in DispatchFailure BY <2>2, <2>6, <3>3
      <4>3. /\ FailureOf(e, "not") \in Elements(Append(retryFailureCh, FailureOf(e, "not")))
            /\ FailureOf(e, "not") \in Elements(Append(dispatchFailureCh, FailureOf(e, "not")))
        BY <1>1, <4>2, FailureSent DEF TypeOK, ChannelTypes
      <4>4. \/ FailureOf(e, "not") \in Elements(retryFailureCh')
            \/ FailureOf(e, "not") \in Elements(dispatchFailureCh')
        BY <4>1, <4>3 DEF SubmitFailure
      <4>5. FailureIsSomewhere(FailureOf(e, "not"))'
        BY <4>4 DEF FailureIsSomewhere, Elements, FailureOf
      <4> QED BY <3>3, <4>5 DEF EventIsSomewhere, HandedOn
    <3> QED BY <3>1, <3>2, <3>3
  <2>7. CASE /\ e \notin Elements(eventsCh[e.network])
             /\ ~(dispatcher[e.network].at = "send" /\ dispatcher[e.network].event = e)
    BY <2>7, <2>8 DEF EventIsSomewhere
  <2> QED BY <2>5, <2>6, <2>7
<1>5. CASE DispatchSendEnds(n) BY <1>5 DEF DispatchSendEnds, SendEnds
<1> QED BY <1>3, <1>4, <1>5 DEF Dispatch

\* The other goroutines hold nothing back.
LEMMA PipelineKeepsEvents ==
  ASSUME DeliveryInv, ~cancelled, ~cancelled',
         CheckpointAndForward \/ RetryFailedBlockFetches \/ HandleDispatchFailures \/ Consume,
         NEW e \in Event, EventIsSomewhere(e)
  PROVE  EventIsSomewhere(e)'
<1> USE DEF channels, workers, outcome
<1>1. TypeOK BY DEF DeliveryInv
<1>2. \/ e \in Elements(eventsCh[e.network])
      \/ dispatcher[e.network].at = "send" /\ dispatcher[e.network].event = e
      \/ HandedOn(e)
  BY DEF EventIsSomewhere
<1>3. CASE CheckpointReceive \/ SaveCheckpoint \/ Forward \/ ForwardEnds \/ Consume
  <2>1. \A b \in ObservedBlock : BlockIsSomewhere(b) => BlockIsSomewhere(b)'
    BY <1>3, CheckpointKeepsBlocks
  <2>2. UNCHANGED <<eventsCh, dispatcher, retryFailureCh, retrier, dispatchFailureCh, handler,
                    notified>>
    BY <1>3 DEF CheckpointReceive, SaveCheckpoint, Forward, ForwardEnds, Consume
  <2>3. \A r \in {"not", "gaveUp"} :
          FailureIsSomewhere(FailureOf(e, r)) => FailureIsSomewhere(FailureOf(e, r))'
    BY <2>2, FailureFrame
  <2>4. HandedOn(e) => HandedOn(e)' BY <2>1, <2>3, HandedFrame
  <2> QED BY <1>2, <2>2, <2>4 DEF EventIsSomewhere, Elements
<1>4. CASE RetryReceive \/ FetchSucceeds \/ FetchFails \/ SendRecovered \/ ReportFailure
             \/ HandleDispatchFailures
  <2>1. UNCHANGED <<eventsCh, dispatcher, checkpointer, finalOut, delivered>>
    BY <1>4 DEF RetryReceive, FetchSucceeds, FetchFails, SendRecovered, ReportFailure,
                HandleDispatchFailures, HandlerReceive, NotifyFailure
  <2>2. ASSUME NEW b \in ObservedBlock, BlockIsSomewhere(b) PROVE BlockIsSomewhere(b)'
    <3>1. CASE SendRecovered
      <4>1. retrier.failure \in DispatchFailure /\ (retrier.at = "recoverHollow") \in BOOLEAN
        BY <1>1, <3>1, BusyRetrier DEF SendRecovered
      <4>2. Refetched(retrier.failure, retrier.at = "recoverHollow") \in ObservedBlock
        BY <4>1, RefetchedType
      <4>3. \/ UNCHANGED preCheckpointCh
            \/ \E x \in ObservedBlock : preCheckpointCh' = Append(preCheckpointCh, x)
        BY <3>1, <4>2 DEF SendRecovered
      <4> QED BY <1>1, <2>1, <2>2, <4>3, SendKeeps
    <3>2. CASE RetryReceive \/ FetchSucceeds \/ FetchFails \/ ReportFailure
                 \/ HandleDispatchFailures
      <4>1. UNCHANGED preCheckpointCh
        BY <3>2 DEF RetryReceive, FetchSucceeds, FetchFails, ReportFailure,
                    HandleDispatchFailures, HandlerReceive, NotifyFailure
      <4> QED BY <2>1, <2>2, <4>1, BlockFrame
    <3> QED BY <1>4, <3>1, <3>2
  <2>3. \A retried \in {"not", "gaveUp"} :
          FailureIsSomewhere(FailureOf(e, retried)) =>
            \/ \E r \in {"not", "gaveUp"} : FailureIsSomewhere(FailureOf(e, r))'
            \/ \E hollow \in BOOLEAN :
                 BlockIsSomewhere(Refetched(FailureOf(e, "not"), hollow))'
    BY <1>4, RetryKeepsFailures
  <2>4. HandedOn(e) => HandedOn(e)' BY <2>2, <2>3, HandedFrame
  <2> QED BY <1>2, <2>1, <2>4 DEF EventIsSomewhere, Elements
<1>5. CASE SavePanics \/ ExecutePanics
  BY <1>5 DEF SavePanics, ExecutePanics, ProcessEnds
<1> QED BY <1>3, <1>4, <1>5 DEF CheckpointAndForward, RetryFailedBlockFetches

LEMMA IdleKeepsEvents ==
  ASSUME DeliveryInv, UNCHANGED <<cancelled, emitted, channels, workers, outcome>>
  PROVE  NoSilentLoss'
<1> USE DEF channels, workers, outcome
<1>1. ASSUME ~cancelled', NEW e \in emitted' PROVE EventIsSomewhere(e)'
  <2>1. e \in Event /\ EventIsSomewhere(e)
    BY <1>1 DEF DeliveryInv, NoSilentLoss, TypeOK, SourceTypes
  <2>2. HandedOn(e) => HandedOn(e)' BY <2>1, HandedStays
  <2> QED BY <2>1, <2>2 DEF EventIsSomewhere, Elements
<1> QED BY <1>1 DEF NoSilentLoss

\* Start forgets what the last run emitted, and a subscription that begins
\* touches nothing that is under way.
LEMMA LifecycleKeepsEvents ==
  ASSUME DeliveryInv, Start \/ Close \/ CallerCancels \/ Crash
  PROVE  NoSilentLoss'
<1> USE DEF channels, workers, outcome, lifecycle, source
<1>1. TypeOK BY DEF DeliveryInv
<1>2. CASE StartBegin BY <1>2 DEF StartBegin, NoSilentLoss
<1>3. ASSUME NEW n \in Networks, LaunchNetwork(n) PROVE NoSilentLoss'
  <2>1. /\ UNCHANGED <<cancelled, emitted, eventsCh, preCheckpointCh, checkpointer, finalOut,
                       delivered, retryFailureCh, retrier, dispatchFailureCh, handler, notified>>
        /\ dispatcher[n] = Off /\ \A m \in Networks \ {n} : dispatcher'[m] = dispatcher[m]
    BY <1>1, <1>3 DEF LaunchNetwork, DeliveryInv, LaunchedOnce, TypeOK, WorkerTypes
  <2>2. ASSUME ~cancelled', NEW e \in emitted' PROVE EventIsSomewhere(e)'
    <3>1. e \in Event /\ e.network \in Networks /\ EventIsSomewhere(e)
      BY <1>1, <2>1, <2>2 DEF TypeOK, SourceTypes, Event, DeliveryInv, NoSilentLoss
    <3>2. HandedOn(e) => HandedOn(e)' BY <2>1, <3>1, HandedStays
    <3>4. CASE e \in Elements(eventsCh[e.network])
      BY <2>1, <3>4 DEF EventIsSomewhere, Elements
    <3>5. CASE dispatcher[e.network].at = "send" /\ dispatcher[e.network].event = e
      <4>1. e.network # n BY <2>1, <3>5 DEF Off
      <4> QED BY <2>1, <3>1, <3>5, <4>1 DEF EventIsSomewhere
    <3>6. CASE /\ e \notin Elements(eventsCh[e.network])
               /\ ~(dispatcher[e.network].at = "send" /\ dispatcher[e.network].event = e)
      BY <3>1, <3>2, <3>6 DEF EventIsSomewhere
    <3> QED BY <3>4, <3>5, <3>6
  <2> QED BY <2>2 DEF NoSilentLoss
<1>4. CASE StartReturns
  BY <1>4, IdleKeepsEvents DEF StartReturns
<1>5. CASE LaunchFails \/ StartFails \/ Close \/ CallerCancels \/ Crash
  BY <1>5 DEF LaunchFails, StartFails, Close, CloseBegin, CloseEnds, CloseTwice, CallerCancels,
              Crash, ProcessEnds, DeliveryInv, StoppedIsCancelled, NoSilentLoss
<1> QED BY <1>2, <1>3, <1>4, <1>5 DEF Start

LEMMA InvNext == DeliveryInv /\ [Next]_vars => DeliveryInv'
<1> SUFFICES ASSUME DeliveryInv, [Next]_vars PROVE DeliveryInv' OBVIOUS
<1>1. TypeOK /\ StoppedIsCancelled /\ LaunchedOnce /\ NoSilentLoss BY DEF DeliveryInv
<1>2. TypeOK' /\ StoppedIsCancelled' /\ LaunchedOnce'
  BY <1>1, TypeNext, StoppedStep, LaunchedStep
<1>3. NoSilentLoss'
  <2>1. CASE Start \/ Close \/ CallerCancels \/ Crash BY <2>1, LifecycleKeepsEvents
  <2>2. ASSUME NEW n \in Networks, Subscription(n) PROVE NoSilentLoss'
    BY <1>1, <2>2, EmitKeepsEvents DEF Subscription, EmitBlock, EmitTipError
  <2>3. ASSUME NEW n \in Networks, Dispatch(n) PROVE NoSilentLoss'
    <3>1. UNCHANGED <<cancelled, emitted>>
      BY <2>3 DEF Dispatch, DispatchReceive, DispatchSend, DispatchSendEnds, lifecycle, source
    <3>2. ASSUME ~cancelled, NEW e \in emitted PROVE EventIsSomewhere(e)'
      BY <1>1, <2>3, <3>2, DispatchKeepsEvents DEF NoSilentLoss, TypeOK, SourceTypes
    <3> QED BY <3>1, <3>2 DEF NoSilentLoss
  <2>4. CASE CheckpointAndForward \/ RetryFailedBlockFetches \/ HandleDispatchFailures \/ Consume
    <3>1. emitted' = emitted /\ (cancelled' = TRUE \/ cancelled' = cancelled)
      <4> USE DEF lifecycle, source
      <4>1. CASE CheckpointAndForward
        BY <4>1 DEF CheckpointAndForward, CheckpointReceive, SaveCheckpoint, SavePanics, Forward,
                    ForwardEnds, ProcessEnds
      <4>2. CASE RetryFailedBlockFetches
        BY <4>2 DEF RetryFailedBlockFetches, RetryReceive, FetchSucceeds, FetchFails,
                    ExecutePanics, SendRecovered, ReportFailure, ProcessEnds
      <4>3. CASE HandleDispatchFailures \/ Consume
        BY <4>3 DEF HandleDispatchFailures, HandlerReceive, NotifyFailure, Consume, outcome
      <4> QED BY <2>4, <4>1, <4>2, <4>3
    <3>2. ASSUME ~cancelled', NEW e \in emitted PROVE EventIsSomewhere(e)'
      BY <1>1, <2>4, <3>1, <3>2, PipelineKeepsEvents DEF NoSilentLoss, TypeOK, SourceTypes
    <3> QED BY <3>1, <3>2 DEF NoSilentLoss
  <2>5. CASE SendOnClosed BY <2>5 DEF SendOnClosed, ProcessEnds, NoSilentLoss
  <2>6. CASE UNCHANGED vars
    BY <2>6, IdleKeepsEvents DEF vars, lifecycle, source
  <2> QED BY <2>1, <2>2, <2>3, <2>4, <2>5, <2>6 DEF Next
<1> QED BY <1>2, <1>3 DEF DeliveryInv

\* The invariant behind the two theorems below.
THEOREM DeliveryInvariant == Spec => []DeliveryInv
BY InvInit, InvNext, PTL DEF Spec

\* No stage between a client and the consumer or the notifier drops an event
\* while the context is live: for any networks, capacities, retry policy and
\* storage, and however often the service is stopped and started.
THEOREM NothingIsLost == Spec => []NoSilentLoss
<1>1. DeliveryInv => NoSilentLoss BY DEF DeliveryInv
<1> QED BY <1>1, DeliveryInvariant, PTL

\* No goroutine, and no call of Start or Close, panics while the context is
\* live, but for the save of a hollow block.
THEOREM PanicsAreShutdownPanics == Spec => PanicsOnlyInShutdown
<1>1. DeliveryInv /\ [Next]_vars =>
        [panic = "none" /\ panic' \notin {"none", "sliceBoundsOutOfRange"} => cancelled]_vars
  <2> SUFFICES ASSUME DeliveryInv, Next, panic = "none", panic' # "none",
                      panic' # "sliceBoundsOutOfRange"
               PROVE  cancelled
    OBVIOUS
  <2> USE DEF lifecycle
  <2>1. StoppedIsCancelled BY DEF DeliveryInv
  <2>2. CASE Start
    BY <2>2 DEF Start, StartBegin, LaunchNetwork, LaunchFails, StartFails, StartReturns
  <2>3. CASE Close \/ CallerCancels \/ Crash
    BY <2>1, <2>3 DEF Close, CloseBegin, CloseEnds, CloseTwice, CallerCancels, Crash, ProcessEnds,
                      StoppedIsCancelled
  <2>4. ASSUME NEW n \in Networks, Subscription(n) \/ Dispatch(n) PROVE cancelled
    BY <2>4 DEF Subscription, EmitBlock, EmitTipError, Emit, Dispatch, DispatchReceive,
                DispatchSend, DispatchSendEnds
  <2>5. CASE CheckpointAndForward
    BY <2>5 DEF CheckpointAndForward, CheckpointReceive, SaveCheckpoint, SavePanics, Forward,
                ForwardEnds, ProcessEnds
  <2>6. CASE RetryFailedBlockFetches
    BY <2>6 DEF RetryFailedBlockFetches, RetryReceive, FetchSucceeds, FetchFails, ExecutePanics,
                SendRecovered, ReportFailure
  <2>7. CASE SendOnClosed
    BY <2>1, <2>7 DEF SendOnClosed, SendPanics, StoppedIsCancelled
  <2>8. CASE HandleDispatchFailures \/ Consume
    BY <2>8 DEF HandleDispatchFailures, HandlerReceive, NotifyFailure, Consume
  <2> QED BY <2>2, <2>3, <2>4, <2>5, <2>6, <2>7, <2>8 DEF Next
<1> QED BY <1>1, DeliveryInvariant, PTL DEF Spec, PanicsOnlyInShutdown
=============================================================================
