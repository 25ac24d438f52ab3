----------------------------- MODULE PollerProofs -----------------------------
(***************************************************************************)
(* Theorems about Poller, for every chain, first height, capacity and lag, *)
(* and any number of polls and restarts.                                   *)
(***************************************************************************)
EXTENDS Poller, TLAPS

-----------------------------------------------------------------------------
(* Types, and what the node's answers bound                                 *)

\* The loop stays at or below the answer of its poll, which is no higher than
\* the chain.
Bounded ==
  /\ FirstTip <= tip /\ tip <= MaxTip /\ latestHeight <= tip
  /\ at \in {"fetch", "send"} => h <= latestHeight
  /\ at = "send" => pending # "tipError"
  /\ at = "sendTipError" => pending = "tipError"

PollerInv == TypeOK /\ Bounded /\ NeverAhead

LEMMA PollerInit == Init => PollerInv
<1> SUFFICES ASSUME Init PROVE PollerInv
  OBVIOUS
<1>1. LoopTypes BY HeightsAssumption DEF Init, LoopTypes, Kinds
<1>2. ChannelTypes
  <2>1. eventsCh \in Seq(Events) /\ Len(eventsCh) = 0 BY DEF Init
  <2> QED BY <2>1, CapAssumption DEF ChannelTypes
<1>3. PipelineTypes BY DEF Init, PipelineTypes
<1>4. Bounded BY HeightsAssumption DEF Init, Bounded
<1>5. NeverAhead BY DEF Init, NeverAhead
<1> QED BY <1>1, <1>2, <1>3, <1>4, <1>5 DEF PollerInv, TypeOK

\* What a send and a receive do to a channel of events.
LEMMA EventSent ==
  ASSUME NEW S, NEW ch \in Seq(S), NEW e \in S
  PROVE  /\ Append(ch, e) \in Seq(S) /\ Len(Append(ch, e)) = Len(ch) + 1
         /\ DOMAIN ch = 1..Len(ch) /\ DOMAIN Append(ch, e) = 1..(Len(ch) + 1)
         /\ Len(ch) \in Nat
         /\ Append(ch, e)[Len(ch) + 1] = e
         /\ \A i \in 1..Len(ch) : Append(ch, e)[i] = ch[i]
OBVIOUS

LEMMA EventTaken ==
  ASSUME NEW S, NEW ch \in Seq(S), ch # <<>>
  PROVE  /\ Head(ch) \in S /\ Head(ch) = ch[1] /\ Tail(ch) \in Seq(S)
         /\ Len(Tail(ch)) = Len(ch) - 1 /\ Len(ch) \in Nat \ {0}
         /\ DOMAIN ch = 1..Len(ch) /\ DOMAIN Tail(ch) = 1..(Len(ch) - 1)
         /\ \A i \in 1..(Len(ch) - 1) : Tail(ch)[i] = ch[i + 1]
OBVIOUS

\* All that a channel holds is at or below a height, but for failed polls.
AtMost(ch, height) == \A i \in DOMAIN ch : ch[i].kind = "tipError" \/ ch[i].height <= height

LEMMA SendAtMost ==
  ASSUME NEW ch \in Seq(Events), NEW e \in Events, NEW height \in Nat,
         AtMost(ch, height), e.kind = "tipError" \/ e.height <= height
  PROVE  AtMost(Append(ch, e), height)
<1> DEFINE sent == Append(ch, e)
<1>1. /\ DOMAIN ch = 1..Len(ch) /\ DOMAIN sent = 1..(Len(ch) + 1) /\ Len(ch) \in Nat
      /\ sent[Len(ch) + 1] = e
      /\ \A i \in 1..Len(ch) : sent[i] = ch[i]
  BY EventSent
<1> SUFFICES ASSUME NEW i \in DOMAIN sent
             PROVE  sent[i].kind = "tipError" \/ sent[i].height <= height
  BY DEF AtMost
<1> HIDE DEF sent
<1>2. CASE i = Len(ch) + 1 BY <1>1, <1>2
<1>3. CASE i \in 1..Len(ch)
  <2>1. sent[i] = ch[i] /\ i \in DOMAIN ch BY <1>1, <1>3
  <2> QED BY <2>1 DEF AtMost
<1>4. i = Len(ch) + 1 \/ i \in 1..Len(ch) BY <1>1
<1> QED BY <1>2, <1>3, <1>4

LEMMA TakeAtMost ==
  ASSUME NEW ch \in Seq(Events), ch # <<>>, NEW height \in Nat, AtMost(ch, height)
  PROVE  AtMost(Tail(ch), height)
<1> DEFINE rest == Tail(ch)
<1>1. /\ DOMAIN ch = 1..Len(ch) /\ DOMAIN rest = 1..(Len(ch) - 1) /\ Len(ch) \in Nat \ {0}
      /\ \A i \in 1..(Len(ch) - 1) : rest[i] = ch[i + 1]
  BY EventTaken
<1> SUFFICES ASSUME NEW i \in DOMAIN rest
             PROVE  rest[i].kind = "tipError" \/ rest[i].height <= height
  BY DEF AtMost
<1> HIDE DEF rest
<1>2. i + 1 \in DOMAIN ch /\ rest[i] = ch[i + 1] BY <1>1
<1> QED BY <1>2 DEF AtMost

\* A send of the goroutine.
LEMMA SendKeeps ==
  ASSUME ChannelTypes, AtMost(eventsCh, tip), tip \in Nat, NEW e \in Events,
         Len(eventsCh) < EventsCap, eventsCh' = Append(eventsCh, e),
         e.kind = "tipError" \/ e.height <= tip
  PROVE  ChannelTypes' /\ AtMost(eventsCh', tip)
<1>1. eventsCh \in Seq(Events) BY DEF ChannelTypes
<1>2. AtMost(eventsCh', tip) BY <1>1, SendAtMost
<1>3. eventsCh' \in Seq(Events) /\ Len(eventsCh') = Len(eventsCh) + 1 /\ Len(eventsCh) \in Nat
  BY <1>1, EventSent
<1>4. ASSUME NEW n \in Nat, n < EventsCap PROVE n + 1 <= EventsCap
  BY ONLY <1>4, CapAssumption
<1>5. Len(eventsCh') <= EventsCap BY <1>3, <1>4
<1> QED BY <1>2, <1>3, <1>5 DEF ChannelTypes

\* A receive by the dispatcher.
LEMMA TakeKeeps ==
  ASSUME ChannelTypes, AtMost(eventsCh, tip), tip \in Nat, eventsCh # <<>>,
         eventsCh' = Tail(eventsCh)
  PROVE  ChannelTypes' /\ AtMost(eventsCh', tip)
<1>1. eventsCh \in Seq(Events) /\ Len(eventsCh) <= EventsCap BY DEF ChannelTypes
<1>2. AtMost(eventsCh', tip) BY <1>1, TakeAtMost
<1>3. eventsCh' \in Seq(Events) /\ Len(eventsCh') = Len(eventsCh) - 1 /\ Len(eventsCh) \in Nat
  BY <1>1, EventTaken
<1>4. Len(eventsCh') <= EventsCap BY <1>1, <1>3, CapAssumption
<1> QED BY <1>2, <1>3, <1>4 DEF ChannelTypes

LEMMA PollerStep == PollerInv /\ [Next]_vars => PollerInv'
<1> SUFFICES ASSUME PollerInv, [Next]_vars PROVE PollerInv'
  OBVIOUS
<1>0. /\ LoopTypes /\ ChannelTypes /\ PipelineTypes /\ Bounded /\ AtMost(eventsCh, tip)
      /\ at \in {"fetch", "send"} => h <= tip
  BY DEF PollerInv, TypeOK, NeverAhead, AtMost
<1>A. SUFFICES /\ LoopTypes' /\ ChannelTypes' /\ PipelineTypes' /\ Bounded'
               /\ AtMost(eventsCh', tip')
               /\ (at \in {"fetch", "send"} => h <= tip)'
  BY DEF PollerInv, TypeOK, NeverAhead, AtMost
<1> HIDE DEF PollerInv
<1>1. CASE PollFails
  BY <1>0, <1>1 DEF LoopTypes, ChannelTypes, PipelineTypes, Bounded, PollFails, Kinds, pipeline
<1>2. CASE Poll
  <2>1. PICK lag \in 0..MaxLag : PollAnswers(tip - lag) BY <1>2 DEF Poll
  <2>2. tip - lag \in Nat /\ tip - lag <= tip
    BY <1>0, HeightsAssumption DEF LoopTypes, Bounded
  <2>3. Add(tip - lag, 1) \in Nat BY <2>2 DEF Add
  <2>4. /\ latestHeight' = tip - lag /\ h' = fromHeight
        /\ at' \in {"wait", "fetch"} /\ fromHeight' \in Nat
        /\ at' = "fetch" => fromHeight <= latestHeight'
        /\ UNCHANGED <<tip, pending, eventsCh, cancelled, reading, pipeline>>
    BY <1>0, <2>1, <2>3 DEF PollAnswers, LoopTypes
  <2>5. LoopTypes' BY <1>0, <2>2, <2>4 DEF LoopTypes
  <2>6. Bounded' BY <1>0, <2>2, <2>4 DEF Bounded
  <2>7. (at \in {"fetch", "send"} => h <= tip)' BY <1>0, <2>2, <2>4 DEF LoopTypes
  <2> QED BY <1>0, <2>4, <2>5, <2>6, <2>7 DEF ChannelTypes, PipelineTypes, pipeline
<1>3. CASE FetchBlock
  BY <1>0, <1>3 DEF LoopTypes, ChannelTypes, PipelineTypes, Bounded, FetchBlock, Kinds, pipeline
<1>4. CASE SendBlock
  <2>1. [height |-> h, kind |-> pending] \in Events /\ h <= tip
    BY <1>0, <1>4 DEF LoopTypes, SendBlock, Events
  <2>2. ChannelTypes' /\ AtMost(eventsCh', tip)
    BY <1>0, <1>4, <2>1, SendKeeps DEF SendBlock, LoopTypes
  <2>3. \/ at' = "fetch" /\ h' = h + 1 /\ h < latestHeight /\ fromHeight' = fromHeight
        \/ at' = "wait" /\ h' = h /\ fromHeight' = latestHeight + 1
    BY <1>4 DEF SendBlock, LastHeight, Add
  <2>4. UNCHANGED <<tip, latestHeight, pending, cancelled, reading, pipeline>>
    BY <1>4 DEF SendBlock
  <2>5. LoopTypes' BY <1>0, <2>3, <2>4 DEF LoopTypes
  <2>6. Bounded' /\ (at \in {"fetch", "send"} => h <= tip)'
    BY <1>0, <2>3, <2>4 DEF LoopTypes, Bounded
  <2> QED BY <1>0, <2>2, <2>4, <2>5, <2>6 DEF PipelineTypes, pipeline
<1>5. CASE SendTipError
  <2>1. [height |-> fromHeight, kind |-> pending] \in Events /\ pending = "tipError"
    BY <1>0, <1>5 DEF LoopTypes, Bounded, SendTipError, Events
  <2>2. ChannelTypes' /\ AtMost(eventsCh', tip)
    BY <1>0, <1>5, <2>1, SendKeeps DEF SendTipError, LoopTypes
  <2>3. at' = "wait" /\ UNCHANGED <<tip, fromHeight, latestHeight, h, pending, cancelled, reading, pipeline>>
    BY <1>5 DEF SendTipError
  <2> QED BY <1>0, <2>2, <2>3 DEF LoopTypes, PipelineTypes, Bounded, pipeline
<1>6. CASE Wait
  BY <1>0, <1>6 DEF LoopTypes, ChannelTypes, PipelineTypes, Bounded, Wait, pipeline
<1>7. CASE ChainGrows
  <2>1. tip' = tip + 1 /\ tip < MaxTip
        /\ UNCHANGED <<at, fromHeight, latestHeight, h, pending, eventsCh, cancelled, reading, pipeline>>
    BY <1>7 DEF ChainGrows
  <2>2. LoopTypes' BY <1>0, <2>1 DEF LoopTypes
  <2>3. Bounded' /\ (at \in {"fetch", "send"} => h <= tip)'
    BY <1>0, <2>1, HeightsAssumption DEF Bounded, LoopTypes
  <2>4. AtMost(eventsCh, tip + 1)
    <3>1. ASSUME NEW i \in DOMAIN eventsCh
          PROVE  eventsCh[i].kind = "tipError" \/ eventsCh[i].height <= tip + 1
      <4>1. eventsCh[i].height \in Nat /\ tip \in Nat
        <5>1. eventsCh \in Seq(Events) /\ tip \in Nat BY <1>0 DEF ChannelTypes, LoopTypes
        <5>2. eventsCh[i] \in Events BY <3>1, <5>1
        <5> QED BY <5>1, <5>2 DEF Events
      <4>2. eventsCh[i].kind = "tipError" \/ eventsCh[i].height <= tip
        BY <1>0, <3>1 DEF AtMost
      <4> QED BY <4>1, <4>2
    <3> QED BY <3>1 DEF AtMost
  <2> QED BY <1>0, <2>1, <2>2, <2>3, <2>4 DEF ChannelTypes, PipelineTypes, pipeline
<1>8. CASE Take
  <2>1. /\ eventsCh # <<>> /\ eventsCh' = Tail(eventsCh) /\ passed' \subseteq DOMAIN heightOf
        /\ UNCHANGED <<tip, at, fromHeight, latestHeight, h, pending, cancelled, reading,
                       heightOf, checkpoint, restarts>>
    BY <1>0, <1>8 DEF Take, PipelineTypes
  <2>2. ChannelTypes' /\ AtMost(eventsCh', tip) BY <1>0, <2>1, TakeKeeps DEF LoopTypes
  <2> QED BY <1>0, <2>1, <2>2 DEF LoopTypes, PipelineTypes, Bounded
<1>9. CASE Cancel
  BY <1>0, <1>9 DEF LoopTypes, ChannelTypes, PipelineTypes, Bounded, Cancel, pipeline
<1>10. CASE StopReading
  BY <1>0, <1>10 DEF LoopTypes, ChannelTypes, PipelineTypes, Bounded, StopReading, pipeline
<1>11. CASE \E p \in passed : Saves(p)
  <2>0. PICK p \in passed : Saves(p) BY <1>11
  <2>1. checkpoint' = heightOf[p] /\ UNCHANGED <<tip, at, fromHeight, latestHeight, h, pending,
          eventsCh, cancelled, reading, heightOf, passed, restarts>>
    BY <2>0 DEF Saves
  <2>2. heightOf[p] \in 1..p /\ p \in Nat
    BY <1>0, <2>0, ChainsAssumption DEF PipelineTypes
  <2>3. heightOf[p] \in Nat BY <2>2
  <2> QED BY <1>0, <2>1, <2>3 DEF LoopTypes, ChannelTypes, PipelineTypes, Bounded
<1>12. CASE Restart
  <2>1. checkpoint + 1 \in Nat BY <1>0 DEF PipelineTypes
  <2>2. restarts + 1 \in Nat BY <1>0 DEF PipelineTypes
  <2>3. /\ restarts' = restarts + 1 /\ passed' = {} /\ fromHeight' = checkpoint + 1
        /\ at' = "poll" /\ eventsCh' = <<>> /\ cancelled' = FALSE /\ reading' = TRUE
        /\ UNCHANGED <<tip, latestHeight, h, pending, heightOf, checkpoint>>
    BY <1>12 DEF Restart, Add
  <2>4. ChannelTypes'
    <3>1. eventsCh' \in Seq(Events) /\ Len(eventsCh') = 0 BY <2>3
    <3> QED BY <3>1, CapAssumption DEF ChannelTypes
  <2>5. AtMost(eventsCh', tip') BY <2>3 DEF AtMost
  <2> QED BY <1>0, <2>1, <2>2, <2>3, <2>4, <2>5 DEF LoopTypes, PipelineTypes, Bounded
<1>13. CASE UNCHANGED vars
  BY <1>0, <1>13 DEF LoopTypes, ChannelTypes, PipelineTypes, Bounded, vars, pipeline
<1> QED
  BY <1>1, <1>2, <1>3, <1>4, <1>5, <1>6, <1>7, <1>8, <1>9, <1>10, <1>11, <1>12, <1>13
  DEF Next, Goroutine

LEMMA PollerInvariant == Spec => []PollerInv
BY PollerInit, PollerStep, PTL DEF Spec

\* Every variable of a subscription keeps its type: among others, no more events
\* wait than the channel has room for.
THEOREM PollerTypes == Spec => []TypeOK
BY PollerInvariant, PTL DEF PollerInv

\* A client asks for no block above the latest height of the chain, whatever the
\* node answers and however often the process is started.
THEOREM NothingAhead == Spec => []NeverAhead
BY PollerInvariant, PTL DEF PollerInv

-----------------------------------------------------------------------------
(* The refinement of EventSource                                            *)

\* All the heights that occur lie between low and high ...
HeightsBetween(low, high) ==
  /\ low \in Nat /\ high \in Nat
  /\ low <= FirstHeight /\ FirstHeight <= high
  /\ low + MaxLag <= FirstTip /\ MaxTip < high
  /\ \A chain \in Chains : \A p \in DOMAIN chain : low <= p => low <= chain[p] + 1

\* ... and there the strings compare as the numbers do.
StringsCompareAsNumbers(low, high) ==
  /\ HeightsBetween(low, high)
  /\ \A a, b \in low..high : StringGeq(a, b) <=> a >= b

\* Events are in the order of their heights, an event about a block is the last
\* of its height, and position is where the source stands behind all of them.
Before(e, height) == e.height <= height /\ (e.kind # "tipError" => e.height < height)
Ordered(ch, position) ==
  /\ \A i \in DOMAIN ch : Before(ch[i], position)
  /\ \A i, j \in DOMAIN ch : i < j => Before(ch[i], ch[j].height)

\* Nothing that was not taken yet is at q or below it.
Behind(q, ch, position) == q < position /\ \A i \in DOMAIN ch : q < ch[i].height

\* What has been taken, and hence the checkpoint, is behind what has not.
SourceInv(low, high) ==
  /\ Position \in Nat /\ Position <= high
  /\ Ordered(eventsCh, Position)
  /\ Behind(low - 1, eventsCh, Position)
  /\ \A p \in passed : p \in Nat /\ low <= p /\ Behind(p, eventsCh, Position)
  /\ checkpoint # 0 => low <= checkpoint + 1 /\ Behind(checkpoint, eventsCh, Position)

\* An event that is sent at the position takes its place at the end.
LEMMA SendOrdered ==
  ASSUME NEW ch \in Seq(Events), NEW e \in Events, NEW position \in Nat,
         Ordered(ch, e.height), Before(e, position)
  PROVE  Ordered(Append(ch, e), position)
<1> DEFINE sent == Append(ch, e)
<1>1. /\ DOMAIN ch = 1..Len(ch) /\ DOMAIN sent = 1..(Len(ch) + 1) /\ Len(ch) \in Nat
      /\ sent[Len(ch) + 1] = e
      /\ \A i \in 1..Len(ch) : sent[i] = ch[i]
  BY EventSent
<1> HIDE DEF sent
<1>2. e.height \in Nat /\ \A i \in DOMAIN ch : ch[i].height \in Nat
  <2>1. \A i \in DOMAIN ch : ch[i] \in Events OBVIOUS
  <2> QED BY <2>1 DEF Events
<1>3. ASSUME NEW i \in DOMAIN sent PROVE i = Len(ch) + 1 \/ i \in DOMAIN ch
  BY <1>1
<1>4. ASSUME NEW i \in DOMAIN sent PROVE Before(sent[i], position)
  <2>1. CASE i = Len(ch) + 1 BY <1>1, <2>1
  <2>2. CASE i \in DOMAIN ch
    <3>1. sent[i] = ch[i] /\ Before(ch[i], e.height) BY <1>1, <2>2 DEF Ordered
    <3> QED BY <1>2, <2>2, <3>1 DEF Before
  <2> QED BY <1>3, <2>1, <2>2
<1>5. ASSUME NEW i \in DOMAIN sent, NEW j \in DOMAIN sent, i < j
      PROVE  Before(sent[i], sent[j].height)
  <2>1. i \in DOMAIN ch BY <1>1, <1>5
  <2>2. CASE j = Len(ch) + 1 BY <1>1, <2>1, <2>2 DEF Ordered
  <2>3. CASE j \in DOMAIN ch BY <1>1, <1>5, <2>1, <2>3 DEF Ordered
  <2> QED BY <1>3, <2>2, <2>3
<1> QED BY <1>4, <1>5 DEF Ordered, sent

LEMMA SendBehind ==
  ASSUME NEW ch \in Seq(Events), NEW e \in Events, NEW position \in Nat, NEW q \in Int,
         Behind(q, ch, e.height), e.height <= position
  PROVE  Behind(q, Append(ch, e), position)
<1> DEFINE sent == Append(ch, e)
<1>1. /\ DOMAIN ch = 1..Len(ch) /\ DOMAIN sent = 1..(Len(ch) + 1) /\ Len(ch) \in Nat
      /\ sent[Len(ch) + 1] = e
      /\ \A i \in 1..Len(ch) : sent[i] = ch[i]
  BY EventSent
<1> HIDE DEF sent
<1>2. e.height \in Nat BY DEF Events
<1>3. q < position BY <1>2 DEF Behind
<1>4. ASSUME NEW i \in DOMAIN sent PROVE q < sent[i].height
  <2>1. i = Len(ch) + 1 \/ i \in DOMAIN ch BY <1>1
  <2>2. CASE i = Len(ch) + 1 BY <1>1, <2>2 DEF Behind
  <2>3. CASE i \in DOMAIN ch BY <1>1, <2>3 DEF Behind
  <2> QED BY <2>1, <2>2, <2>3
<1> QED BY <1>3, <1>4 DEF Behind, sent

LEMMA TakeOrdered ==
  ASSUME NEW ch \in Seq(Events), ch # <<>>, NEW position \in Nat, Ordered(ch, position)
  PROVE  /\ Ordered(Tail(ch), position)
         /\ \A q \in Int : Behind(q, ch, position) => Behind(q, Tail(ch), position)
         /\ Head(ch).kind # "tipError" => Behind(Head(ch).height, Tail(ch), position)
<1> DEFINE rest == Tail(ch)
<1>1. /\ DOMAIN ch = 1..Len(ch) /\ DOMAIN rest = 1..(Len(ch) - 1) /\ Len(ch) \in Nat \ {0}
      /\ Head(ch) = ch[1]
      /\ \A i \in 1..(Len(ch) - 1) : rest[i] = ch[i + 1]
  BY EventTaken
<1> HIDE DEF rest
<1>2. ASSUME NEW i \in DOMAIN rest PROVE i + 1 \in DOMAIN ch /\ 1 < i + 1 /\ rest[i] = ch[i + 1]
  BY <1>1
<1>3. Ordered(rest, position)
  <2>1. ASSUME NEW i \in DOMAIN rest PROVE Before(rest[i], position)
    BY <1>2 DEF Ordered
  <2>2. ASSUME NEW i \in DOMAIN rest, NEW j \in DOMAIN rest, i < j
        PROVE  Before(rest[i], rest[j].height)
    <3>1. i + 1 < j + 1 BY <1>1, <2>2
    <3> QED BY <1>2, <3>1 DEF Ordered
  <2> QED BY <2>1, <2>2 DEF Ordered
<1>4. ASSUME NEW q \in Int, Behind(q, ch, position) PROVE Behind(q, rest, position)
  BY <1>2, <1>4 DEF Behind
<1>5. ASSUME Head(ch).kind # "tipError" PROVE Behind(Head(ch).height, rest, position)
  <2>1. 1 \in DOMAIN ch BY <1>1
  <2>2. Head(ch).height < position BY <1>1, <1>5, <2>1 DEF Ordered, Before
  <2>3. ASSUME NEW i \in DOMAIN rest PROVE Head(ch).height < rest[i].height
    BY <1>1, <1>2, <1>5, <2>1 DEF Ordered, Before
  <2> QED BY <2>2, <2>3 DEF Behind
<1> QED BY <1>3, <1>4, <1>5 DEF rest

LEMMA SourceInit ==
  ASSUME NEW low, NEW high, StringsCompareAsNumbers(low, high), Init
  PROVE  SourceInv(low, high) /\ Source!Init
<1>1. Position = FirstHeight /\ eventsCh = <<>> /\ passed = {} /\ checkpoint = 0 /\ at = "poll"
  BY DEF Init, Position
<1>2. low \in Nat /\ high \in Nat /\ low <= FirstHeight /\ FirstHeight <= high /\ FirstHeight \in Nat
  BY HeightsAssumption DEF StringsCompareAsNumbers, HeightsBetween
<1>3. Ordered(eventsCh, Position) BY <1>1 DEF Ordered
<1>4. Behind(low - 1, eventsCh, Position) BY <1>1, <1>2 DEF Behind
<1> QED BY <1>1, <1>2, <1>3, <1>4 DEF SourceInv, Source!Init

\* A step that leaves the channel and the position as they are.
LEMMA SilentStep ==
  ASSUME NEW low, NEW high, SourceInv(low, high),
         UNCHANGED <<Position, eventsCh, at # "closed", passed, checkpoint>>
  PROVE  SourceInv(low, high)' /\ UNCHANGED Source!vars
BY DEF SourceInv, Source!vars

\* A send of an event about the position, after which it is the same or the next.
LEMMA SendStep ==
  ASSUME NEW low \in Nat, NEW high \in Nat, SourceInv(low, high), ChannelTypes,
         NEW kind \in Kinds, Len(eventsCh) < EventsCap,
         eventsCh' = Append(eventsCh, [height |-> Position, kind |-> kind]),
         Position' = IF kind = "tipError" THEN Position ELSE Position + 1,
         Position' <= high, at # "closed", at' # "closed",
         UNCHANGED <<passed, checkpoint>>, checkpoint \in Nat
  PROVE  SourceInv(low, high)' /\ Source!Next
<1> DEFINE e == [height |-> Position, kind |-> kind]
<1>1. eventsCh \in Seq(Events) BY DEF ChannelTypes
<1>2. Position \in Nat /\ Position' \in Nat /\ Position <= Position' BY DEF SourceInv
<1>3. e \in Events /\ e.height = Position /\ e.kind = kind BY <1>2 DEF Events
<1>4. Before(e, Position') BY <1>2, <1>3 DEF Before
<1>5. eventsCh' = Append(eventsCh, e) OBVIOUS
<1>6. Ordered(eventsCh, Position) BY DEF SourceInv
<1> HIDE DEF e
<1>7. Ordered(eventsCh', Position')
  BY <1>1, <1>2, <1>3, <1>4, <1>5, <1>6, SendOrdered
<1>8. ASSUME NEW q \in Int, Behind(q, eventsCh, Position) PROVE Behind(q, eventsCh', Position')
  BY <1>1, <1>2, <1>3, <1>5, <1>8, SendBehind
<1>9. SourceInv(low, high)'
  <2>1. Behind(low - 1, eventsCh', Position') BY <1>8 DEF SourceInv
  <2>2. \A p \in passed' : p \in Nat /\ low <= p /\ Behind(p, eventsCh', Position')
    BY <1>8 DEF SourceInv
  <2>3. checkpoint' # 0 => low <= checkpoint' + 1 /\ Behind(checkpoint', eventsCh', Position')
    BY <1>8 DEF SourceInv
  <2> QED BY <1>2, <1>7, <2>1, <2>2, <2>3 DEF SourceInv
<1>10. Source!Put(kind) BY DEF Source!Put
<1>13. UNCHANGED (at # "closed") OBVIOUS
<1>11. CASE kind = "tipError"
  <2>1. UNCHANGED Position BY <1>11
  <2>2. Source!EmitTipError BY <1>10, <1>11, <1>13, <2>1 DEF Source!EmitTipError
  <2> QED BY <1>9, <2>2 DEF Source!Next
<1>12. CASE kind # "tipError"
  <2>1. kind \in {"block", "fetchError"} BY <1>12 DEF Kinds
  <2>2. Position' = Position + 1 BY <1>12
  <2>3. Source!EmitBlock BY <1>10, <1>13, <2>1, <2>2 DEF Source!EmitBlock
  <2> QED BY <1>9, <2>3 DEF Source!Next
<1> QED BY <1>11, <1>12

LEMMA SourceStep ==
  ASSUME NEW low, NEW high, StringsCompareAsNumbers(low, high),
         PollerInv, PollerInv', SourceInv(low, high), [Next]_vars
  PROVE  SourceInv(low, high)' /\ [Source!Next]_(Source!vars)
<1>0. /\ LoopTypes /\ ChannelTypes /\ PipelineTypes /\ Bounded
      /\ LoopTypes' /\ Bounded'
  BY DEF PollerInv, TypeOK
<1>L. low \in Nat /\ high \in Nat /\ low + MaxLag <= FirstTip /\ MaxTip < high
  BY DEF StringsCompareAsNumbers, HeightsBetween
<1> HIDE DEF PollerInv
<1>S. ASSUME UNCHANGED <<Position, eventsCh, at # "closed", passed, checkpoint>>
      PROVE  SourceInv(low, high)' /\ [Source!Next]_(Source!vars)
  BY <1>S, SilentStep
<1>1. CASE PollFails
  <2>1. UNCHANGED <<Position, eventsCh, at # "closed", passed, checkpoint>>
    BY <1>1 DEF PollFails, Position, pipeline
  <2> QED BY <1>S, <2>1
<1>2. CASE Poll
  <2>1. PICK lag \in 0..MaxLag : PollAnswers(tip - lag) BY <1>2 DEF Poll
  <2> DEFINE latest == tip - lag
  <2>2. latest \in low..high /\ fromHeight \in low..high /\ at = "poll"
    <3>1. at = "poll" BY <2>1 DEF PollAnswers
    <3>2. low - 1 < fromHeight /\ fromHeight <= high
      BY <3>1 DEF SourceInv, Position, Behind
    <3>3. tip \in Nat /\ FirstTip <= tip /\ tip <= MaxTip /\ fromHeight \in Nat
      BY <1>0 DEF LoopTypes, Bounded
    <3> QED BY <1>L, <3>1, <3>2, <3>3, HeightsAssumption
  <2>3. StringGeq(fromHeight, latest) <=> fromHeight >= latest
    BY <2>2 DEF StringsCompareAsNumbers, HeightsBetween
  <2>4. ~StringGeq(fromHeight, latest) => fromHeight <= latest BY <1>L, <2>2, <2>3
  <2> HIDE DEF latest
  <2>5. /\ PollAnswers(latest) BY <2>1 DEF latest
  <2>6. /\ h' = fromHeight /\ fromHeight' = fromHeight /\ at' \in {"wait", "fetch"}
        /\ UNCHANGED <<eventsCh, pipeline>>
    BY <2>4, <2>5 DEF PollAnswers
  <2>7. UNCHANGED <<Position, eventsCh, at # "closed", passed, checkpoint>>
    BY <2>2, <2>6 DEF Position, pipeline
  <2> QED BY <1>S, <2>7
<1>3. CASE FetchBlock
  <2>1. UNCHANGED <<Position, eventsCh, at # "closed", passed, checkpoint>>
    BY <1>3 DEF FetchBlock, Position, pipeline
  <2> QED BY <1>S, <2>1
<1>4. CASE SendBlock
  <2>1. /\ at = "send" /\ Len(eventsCh) < EventsCap
        /\ eventsCh' = Append(eventsCh, [height |-> h, kind |-> pending])
        /\ \/ at' = "fetch" /\ h' = h + 1 /\ h < latestHeight
           \/ at' = "wait" /\ fromHeight' = latestHeight + 1 /\ ~(h < latestHeight)
        /\ UNCHANGED <<passed, checkpoint>>
    BY <1>4 DEF SendBlock, LastHeight, Add, pipeline
  <2>2. /\ h \in Nat /\ latestHeight \in Nat /\ h <= latestHeight /\ latestHeight < high
        /\ pending \in Kinds /\ pending # "tipError" /\ checkpoint \in Nat
    BY <1>0, <1>L, <2>1, HeightsAssumption DEF LoopTypes, PipelineTypes, Bounded
  <2>3. Position = h /\ Position' = h + 1 /\ at' # "closed"
    BY <2>1, <2>2 DEF Position
  <2>4. eventsCh' = Append(eventsCh, [height |-> Position, kind |-> pending])
    BY <2>1, <2>3
  <2>5. Position' = IF pending = "tipError" THEN Position ELSE Position + 1
    BY <2>2, <2>3
  <2>6. Position' <= high BY <1>L, <2>2, <2>3
  <2> QED BY <1>0, <1>L, <2>1, <2>2, <2>3, <2>4, <2>5, <2>6, SendStep
<1>5. CASE SendTipError
  <2>1. /\ at = "sendTipError" /\ at' = "wait" /\ Len(eventsCh) < EventsCap
        /\ eventsCh' = Append(eventsCh, [height |-> fromHeight, kind |-> pending])
        /\ UNCHANGED <<fromHeight, passed, checkpoint>>
    BY <1>5 DEF SendTipError, pipeline
  <2>2. pending = "tipError" /\ pending \in Kinds /\ checkpoint \in Nat
    BY <1>0, <2>1 DEF Bounded, LoopTypes, PipelineTypes
  <2>3. Position = fromHeight /\ Position' = fromHeight BY <2>1 DEF Position
  <2>4. Position' <= high BY <2>3 DEF SourceInv
  <2> QED BY <1>0, <1>L, <2>1, <2>2, <2>3, <2>4, SendStep
<1>6. CASE Wait
  <2>1. /\ at = "wait" /\ at' \in {"poll", "closed"}
        /\ UNCHANGED <<fromHeight, eventsCh, passed, checkpoint>>
    BY <1>6 DEF Wait, pipeline
  <2>2. UNCHANGED Position BY <2>1 DEF Position
  <2>3. CASE at' = "poll"
    <3>1. UNCHANGED (at # "closed") BY <2>1, <2>3
    <3> QED BY <1>S, <2>1, <2>2, <3>1
  <2>4. CASE at' = "closed"
    <3>1. SourceInv(low, high)' BY <2>1, <2>2 DEF SourceInv
    <3>2. at # "closed" /\ ~(at' # "closed") BY <2>1, <2>4
    <3>3. Source!Close BY <2>1, <2>2, <3>2 DEF Source!Close
    <3> QED BY <3>1, <3>3 DEF Source!Next
  <2> QED BY <2>1, <2>3, <2>4
<1>7. CASE ChainGrows
  <2>1. UNCHANGED <<Position, eventsCh, at # "closed", passed, checkpoint>>
    BY <1>7 DEF ChainGrows, Position, pipeline
  <2> QED BY <1>S, <2>1
<1>8. CASE Take
  <2>1. /\ eventsCh # <<>> /\ eventsCh' = Tail(eventsCh)
        /\ passed' \subseteq passed \cup
             {q \in {Head(eventsCh).height} : Head(eventsCh).kind # "tipError"}
        /\ UNCHANGED <<at, fromHeight, h, checkpoint>>
    BY <1>8 DEF Take
  <2>2. UNCHANGED Position /\ UNCHANGED (at # "closed") BY <2>1 DEF Position
  <2>3. eventsCh \in Seq(Events) BY <1>0 DEF ChannelTypes
  <2>4. Position \in Nat /\ Ordered(eventsCh, Position) BY DEF SourceInv
  <2>5. /\ Ordered(eventsCh', Position)
        /\ \A q \in Int : Behind(q, eventsCh, Position) => Behind(q, eventsCh', Position)
        /\ Head(eventsCh).kind # "tipError" => Behind(Head(eventsCh).height, eventsCh', Position)
    BY <2>1, <2>3, <2>4, TakeOrdered
  <2>6. Head(eventsCh).height \in Nat /\ low <= Head(eventsCh).height
    <3>1. Head(eventsCh) \in Events /\ Head(eventsCh) = eventsCh[1] /\ 1 \in DOMAIN eventsCh
      BY <2>1, <2>3
    <3>2. low - 1 < Head(eventsCh).height BY <3>1 DEF SourceInv, Behind
    <3>3. Head(eventsCh).height \in Nat BY <3>1 DEF Events
    <3> QED BY <1>L, <3>2, <3>3
  <2>7. ASSUME NEW p \in passed'
        PROVE  p \in Nat /\ low <= p /\ Behind(p, eventsCh', Position)
    <3>1. CASE p \in passed BY <2>5, <3>1 DEF SourceInv
    <3>2. CASE p = Head(eventsCh).height /\ Head(eventsCh).kind # "tipError"
      BY <2>5, <2>6, <3>2
    <3> QED BY <2>1, <3>1, <3>2
  <2>8. Behind(low - 1, eventsCh', Position) BY <1>L, <2>5 DEF SourceInv
  <2>9. checkpoint # 0 => low <= checkpoint + 1 /\ Behind(checkpoint, eventsCh', Position)
    <3>1. checkpoint \in Int BY <1>0 DEF PipelineTypes
    <3> QED BY <2>5, <3>1 DEF SourceInv
  <2>10. SourceInv(low, high)'
    BY <2>1, <2>2, <2>5, <2>7, <2>8, <2>9 DEF SourceInv
  <2>11. Source!Take BY <2>1, <2>2 DEF Source!Take
  <2> QED BY <2>10, <2>11 DEF Source!Next
<1>9. CASE Cancel
  <2>1. UNCHANGED <<Position, eventsCh, at # "closed", passed, checkpoint>>
    BY <1>9 DEF Cancel, Position, pipeline
  <2> QED BY <1>S, <2>1
<1>10. CASE StopReading
  <2>1. UNCHANGED <<Position, eventsCh, at # "closed", passed, checkpoint>>
    BY <1>10 DEF StopReading, Position, pipeline
  <2> QED BY <1>S, <2>1
<1>11. CASE \E p \in passed : Saves(p)
  <2>0. PICK p \in passed : Saves(p) BY <1>11
  <2>1. checkpoint' = heightOf[p] /\ UNCHANGED <<at, fromHeight, h, eventsCh, passed>>
    BY <2>0 DEF Saves
  <2>2. UNCHANGED Position /\ UNCHANGED (at # "closed") BY <2>1 DEF Position
  <2>3. /\ heightOf[p] \in Nat /\ heightOf[p] <= p /\ p \in Nat /\ low <= heightOf[p] + 1
        /\ Behind(p, eventsCh, Position)
    <3>1. heightOf \in Chains /\ p \in DOMAIN heightOf BY <1>0, <2>0 DEF PipelineTypes
    <3>2. p \in Nat /\ low <= p /\ Behind(p, eventsCh, Position) BY <2>0 DEF SourceInv
    <3>3. heightOf[p] \in 1..p BY <3>1, ChainsAssumption
    <3>4. low <= heightOf[p] + 1 BY <3>1, <3>2 DEF StringsCompareAsNumbers, HeightsBetween
    <3> QED BY <3>2, <3>3, <3>4
  <2>4. Behind(heightOf[p], eventsCh, Position)
    <3>1. heightOf[p] < Position
      <4>1. Position \in Nat BY DEF SourceInv
      <4> QED BY <2>3, <4>1 DEF Behind
    <3>2. ASSUME NEW i \in DOMAIN eventsCh PROVE heightOf[p] < eventsCh[i].height
      <4>1. eventsCh[i] \in Events BY <1>0 DEF ChannelTypes
      <4>2. eventsCh[i].height \in Nat BY <4>1 DEF Events
      <4>3. p < eventsCh[i].height BY <2>3 DEF Behind
      <4> QED BY <2>3, <4>2, <4>3
    <3> QED BY <3>1, <3>2 DEF Behind
  <2>5. SourceInv(low, high)' BY <2>1, <2>2, <2>3, <2>4 DEF SourceInv
  <2>6. UNCHANGED Source!vars BY <2>1, <2>2 DEF Source!vars
  <2> QED BY <2>5, <2>6
<1>12. CASE Restart
  <2>1. /\ checkpoint # 0 /\ passed' = {} /\ fromHeight' = checkpoint + 1 /\ at' = "poll"
        /\ eventsCh' = <<>> /\ checkpoint' = checkpoint
    BY <1>12 DEF Restart, Add
  <2>2. checkpoint \in Nat BY <1>0 DEF PipelineTypes
  <2>3. /\ low <= checkpoint + 1 /\ Behind(checkpoint, eventsCh, Position)
        /\ Position \in Nat /\ Position <= high
    BY <2>1 DEF SourceInv
  <2>4. Position' = checkpoint + 1 /\ Position' \in Nat /\ Position' <= Position
    BY <2>1, <2>2, <2>3 DEF Position, Behind
  <2>5. ASSUME NEW i \in DOMAIN eventsCh PROVE Position' <= eventsCh[i].height
    <3>1. eventsCh[i] \in Events BY <1>0 DEF ChannelTypes
    <3>2. eventsCh[i].height \in Nat BY <3>1 DEF Events
    <3>3. checkpoint < eventsCh[i].height BY <2>3 DEF Behind
    <3> QED BY <2>2, <2>4, <3>2, <3>3
  <2>6. Ordered(eventsCh', Position') BY <2>1 DEF Ordered
  <2>7. Behind(low - 1, eventsCh', Position') /\ Behind(checkpoint', eventsCh', Position')
    BY <1>L, <2>1, <2>2, <2>3, <2>4 DEF Behind
  <2>8. Position' <= high BY <1>L, <2>3, <2>4
  <2>9. SourceInv(low, high)' BY <2>1, <2>3, <2>4, <2>6, <2>7, <2>8 DEF SourceInv
  <2>10. Source!Resubscribe BY <2>1, <2>4, <2>5 DEF Source!Resubscribe
  <2> QED BY <2>9, <2>10 DEF Source!Next
<1>13. CASE UNCHANGED vars
  <2>1. UNCHANGED <<Position, eventsCh, at # "closed", passed, checkpoint>>
    BY <1>13 DEF vars, Position, pipeline
  <2> QED BY <1>S, <2>1
<1> QED
  BY <1>1, <1>2, <1>3, <1>4, <1>5, <1>6, <1>7, <1>8, <1>9, <1>10, <1>11, <1>12, <1>13
  DEF Next, Goroutine

\* A client's subscription, with all its polls, lagging answers, cancellations and
\* restarts, is one that ChainStream relies on: no height skipped, none sent
\* twice, and the next run resumes no higher than the first event nobody had
\* taken.  What it takes is that the strings of the heights that occur compare
\* as the numbers do.
THEOREM SubscriptionIsEventSource ==
  ASSUME NEW low, NEW high, StringsCompareAsNumbers(low, high)
  PROVE  Spec => ImplementsSource
<1>1. Init => SourceInv(low, high) /\ Source!Init BY SourceInit
<1>2. PollerInv /\ PollerInv' /\ SourceInv(low, high) /\ [Next]_vars
      => SourceInv(low, high)' /\ [Source!Next]_(Source!vars)
  BY SourceStep
<1> QED BY <1>1, <1>2, PollerInvariant, PTL DEF Spec, ImplementsSource, Source!Spec

-----------------------------------------------------------------------------
(* Where heights have one number of digits                                  *)

\* A height has one number of digits.
LEMMA DigitsOf ==
  ASSUME NEW n \in Nat, NEW k \in 1..16, HasDigits(n, k)
  PROVE  Digits(n) = k
<1>1. ASSUME NEW j \in 1..16, HasDigits(n, j) PROVE j = k
  <2>1. 16^j \in Int /\ 16^k \in Int OBVIOUS
  <2>2. ~(j < k) BY <1>1, <2>1 DEF HasDigits
  <2>3. ~(k < j) BY <1>1, <2>1 DEF HasDigits
  <2> QED BY <2>2, <2>3
<1> QED BY <1>1 DEF Digits

\* What lies between two heights of k digits has k digits.
LEMMA DigitsBetween ==
  ASSUME NEW low \in Nat, NEW high \in Nat, NEW k \in 1..16,
         HasDigits(low, k), HasDigits(high, k), NEW n \in low..high
  PROVE  HasDigits(n, k)
<1>1. \A j \in 1..16 : 16^j \in Int OBVIOUS
<1>2. n < 16^k BY <1>1 DEF HasDigits
<1>3. ASSUME NEW j \in 1..(k - 1) PROVE 16^j <= n
  <2>1. 16^j \in Int /\ 16^j <= low BY <1>1 DEF HasDigits
  <2> QED BY <2>1
<1> QED BY <1>2, <1>3 DEF HasDigits

\* Strings of one length compare as the numbers they stand for.
LEMMA OneWidth ==
  ASSUME NEW low \in Nat, NEW high \in Nat, NEW k \in 1..16,
         HasDigits(low, k), HasDigits(high, k), NEW a \in low..high, NEW b \in low..high
  PROVE  StringGeq(a, b) <=> a >= b
<1>1. a \in Nat /\ b \in Nat OBVIOUS
<1>2. Digits(a) = k /\ Digits(b) = k BY <1>1, DigitsBetween, DigitsOf
<1>3. k >= k /\ k - k = 0 /\ 16^0 = 1 /\ a \div 1 = a BY <1>1, SMT
<1>4. StringGeq(a, b) <=> a \div 16^(k - k) >= b BY <1>2, <1>3 DEF StringGeq
<1> QED BY <1>3, <1>4

\* Ethereum's heights have seven digits from 0x1000000 to 0xfffffff.
LEMMA SevenDigits ==
  ASSUME NEW n \in Nat, 16777216 <= n, n <= 268435455
  PROVE  HasDigits(n, 7)
<1>1. /\ 16^1 = 16 /\ 16^2 = 256 /\ 16^3 = 4096 /\ 16^4 = 65536
      /\ 16^5 = 1048576 /\ 16^6 = 16777216 /\ 16^7 = 268435456
  BY SMT
<1> DEFINE P(m) == 16^m
<1>2. P(1) <= n /\ P(2) <= n /\ P(3) <= n /\ P(4) <= n /\ P(5) <= n /\ P(6) <= n /\ n < P(7)
  BY <1>1, SMT
<1> HIDE DEF P
<1>3. ASSUME NEW j \in 1..(7 - 1) PROVE P(j) <= n
  <2>1. j = 1 \/ j = 2 \/ j = 3 \/ j = 4 \/ j = 5 \/ j = 6 BY SMT
  <2> QED BY <1>2, <2>1, SMT
<1> QED BY <1>2, <1>3, SMT DEF HasDigits, P

\* As long as all heights, from the lowest a subscription may begin at to the
\* highest the chain reaches, have one number of digits, whichever it is, a
\* subscription is an EventSource.
THEOREM SubscriptionWithinOneWidth ==
  ASSUME NEW low, NEW high, HeightsBetween(low, high),
         NEW k \in 1..16, HasDigits(low, k), HasDigits(high, k)
  PROVE  Spec => ImplementsSource
<1>1. low \in Nat /\ high \in Nat BY DEF HeightsBetween
<1>2. \A a, b \in low..high : StringGeq(a, b) <=> a >= b BY <1>1, OneWidth
<1>3. StringsCompareAsNumbers(low, high) BY <1>2 DEF StringsCompareAsNumbers
<1> QED BY <1>3, SubscriptionIsEventSource

=============================================================================
