-------------------------- MODULE ApplicationProofs --------------------------
(* Proofs about Application, for any configurations, buffer and bounds.     *)
EXTENDS Application, TLAPS

(***************************************************************************)
(* Every connection is on the list that bootstrap.Close goes through, and  *)
(* none is closed before main releases them.                               *)
(***************************************************************************)
OnTheList == \A c \in DOMAIN conns : conns[c].tracked
OpenUntilRelease == step # "release" => \A c \in DOMAIN conns : conns[c].open

\* The shared connections are the first ones made.
SharedFirst ==
  /\ step = "init" => turn = Len(conns) + 1 /\ Len(conns) <= Len(config.shared)
  /\ step # "init" => Len(config.shared) <= Len(conns) /\ turn >= 1

\* The pipeline runs exactly while the command waits for quit or has just
\* received from it, and its context is done otherwise.
StartedWhileServing ==
  /\ isStarted <=> step \in {"serve", "stop"}
  /\ ~isStarted => cancelled

\* Signals are caught from before the pipeline starts, and the channel they are
\* caught with is closed only after the pipeline.
CaughtWhileServing ==
  /\ quit = -1 => step \in {"failed", "release"}
  /\ ~registered => step \in {"init", "resolve", "command", "release"}

ApplicationInv ==
  /\ TypeOK
  /\ AllReleased
  /\ OnTheList
  /\ OpenUntilRelease
  /\ SharedFirst
  /\ StartedWhileServing
  /\ CaughtWhileServing

-----------------------------------------------------------------------------
\* The elements of a sequence, and the replacement of one of them.
LEMMA ElementOf ==
  ASSUME NEW S, NEW s \in Seq(S), NEW c \in DOMAIN s
  PROVE  s[c] \in S
OBVIOUS

LEMMA Replaced ==
  ASSUME NEW S, NEW s \in Seq(S), NEW c \in DOMAIN s, NEW x \in S
  PROVE  /\ [s EXCEPT ![c] = x] \in Seq(S)
         /\ Len([s EXCEPT ![c] = x]) = Len(s)
         /\ DOMAIN [s EXCEPT ![c] = x] = DOMAIN s
OBVIOUS

\* Putting a new open connection on the list keeps what is known of the others.
LEMMA OpenKeeps ==
  ASSUME NEW engine \in Engine, Open(engine), Running, TypeOK, OnTheList, OpenUntilRelease,
         step # "release"
  PROVE  /\ conns' \in Seq([engine : Engine, tracked : BOOLEAN, open : BOOLEAN])
         /\ Len(conns') = Len(conns) + 1
         /\ \A c \in DOMAIN conns' : conns'[c].tracked /\ conns'[c].open
<1> DEFINE new == [engine |-> engine, tracked |-> TRUE, open |-> TRUE]
           Connection == [engine : Engine, tracked : BOOLEAN, open : BOOLEAN]
<1>1. new \in Connection
  OBVIOUS
<1>2. conns \in Seq(Connection)
  BY DEF TypeOK
<1>3. conns' = Append(conns, new)
  BY DEF Open
<1> HIDE DEF Connection
<1>4. conns' \in Seq(Connection) /\ Len(conns') = Len(conns) + 1
  BY <1>1, <1>2, <1>3
<1>5. ASSUME NEW c \in DOMAIN conns'  PROVE  conns'[c].tracked /\ conns'[c].open
  <2>1. c \in 1..Len(conns) + 1
    BY <1>4, <1>5
  <2>2. CASE c = Len(conns) + 1
    BY <1>1, <1>2, <1>3, <2>2
  <2>3. CASE c \in 1..Len(conns)
    <3>1. conns'[c] = conns[c] /\ c \in DOMAIN conns
      BY <1>1, <1>2, <1>3, <2>3
    <3> QED
      BY <3>1 DEF OnTheList, OpenUntilRelease
  <2> QED
    BY <1>2, <2>1, <2>2, <2>3
<1> QED
  BY <1>4, <1>5 DEF Connection

LEMMA InitEstablishes == Init => ApplicationInv
<1> SUFFICES ASSUME Init  PROVE ApplicationInv
  OBVIOUS
<1> USE DEF Init
<1>1. conns = <<>> /\ Len(conns) = 0 /\ DOMAIN conns = {}
  OBVIOUS
<1>2. config \in Configurations /\ config.shared \in Seq(Engine)
  BY ConfigurationsAssumption DEF Configuration
<1>3. TypeOK
  <2>1. conns \in Seq([engine : Engine, tracked : BOOLEAN, open : BOOLEAN])
    OBVIOUS
  <2>2. bound \in [RoleNames -> 0..Len(conns)]
    BY <1>1
  <2>3. blocks \in 0..BlocksCap
    BY BoundAssumption
  <2> QED
    BY <1>2, <2>1, <2>2, <2>3 DEF TypeOK
<1>4. OnTheList /\ OpenUntilRelease /\ SharedFirst
  BY <1>1, <1>2 DEF OnTheList, OpenUntilRelease, SharedFirst
<1> QED
  BY <1>3, <1>4 DEF ApplicationInv, AllReleased, StartedWhileServing, CaughtWhileServing

\* A step that leaves the connections alone keeps what is said of them.
LEMMA SameConnections ==
  ASSUME ApplicationInv, UNCHANGED connections,
         step' = "release" <=> step = "release"
  PROVE  OnTheList' /\ OpenUntilRelease'
BY DEF ApplicationInv, OnTheList, OpenUntilRelease, connections

LEMMA NewKeeps ==
  ASSUME ApplicationInv, New
  PROVE  ApplicationInv'
<1> USE DEF ApplicationInv
<1>0. config \in Configurations /\ config.shared \in Seq(Engine)
  BY ConfigurationsAssumption DEF TypeOK, Configuration
<1>1. CASE InitEngine
  <2> USE <1>1 DEF InitEngine
  <2>1. config.shared[turn] \in Engine
    <3>1. turn \in 1..Len(config.shared)
      BY <1>0 DEF TypeOK, SharedFirst
    <3> QED
      BY <1>0, <3>1
  <2>2. /\ conns' \in Seq([engine : Engine, tracked : BOOLEAN, open : BOOLEAN])
        /\ Len(conns') = Len(conns) + 1
        /\ \A c \in DOMAIN conns' : conns'[c].tracked /\ conns'[c].open
    BY <2>1, OpenKeeps
  <2>3. Len(conns) \in Nat
    BY DEF TypeOK
  <2>4. TypeOK'
    <3>1. bound' \in [RoleNames -> 0..Len(conns')]
      BY <2>2, <2>3 DEF TypeOK
    <3> QED
      BY <2>2, <3>1 DEF TypeOK, signalling, pipeline
  <2>5. OnTheList' /\ OpenUntilRelease'
    BY <2>2 DEF OnTheList, OpenUntilRelease
  <2>6. SharedFirst'
    BY <1>0, <2>2, <2>3 DEF SharedFirst, TypeOK
  <2> QED
    BY <2>4, <2>5, <2>6 DEF AllReleased, Running, StartedWhileServing, CaughtWhileServing,
                            signalling, pipeline
<1>2. CASE InitDone
  <2> USE <1>2 DEF InitDone, connections, signalling, pipeline
  <2>1. SharedFirst'
    BY <1>0 DEF SharedFirst, TypeOK
  <2> QED
    BY <2>1, SameConnections DEF TypeOK, AllReleased, Running, StartedWhileServing,
                                 CaughtWhileServing
<1>3. CASE Skip
  <2> USE <1>3 DEF Skip, Resolving, connections, signalling, pipeline
  <2> QED
    BY SameConnections DEF TypeOK, AllReleased, Running, SharedFirst, StartedWhileServing,
                           CaughtWhileServing
<1>4. CASE ResolveShared
  <2> USE <1>4 DEF ResolveShared, Resolving, signalling, pipeline
  <2>1. PICK c \in 1..Len(config.shared) : bound' = [bound EXCEPT ![Role] = c]
    OBVIOUS
  <2>2. c \in 0..Len(conns)
    BY <1>0 DEF SharedFirst, TypeOK
  <2>3. TypeOK'
    <3>1. bound' \in [RoleNames -> 0..Len(conns)]
      BY <2>1, <2>2 DEF TypeOK
    <3> QED
      BY <3>1 DEF TypeOK
  <2>4. OnTheList' /\ OpenUntilRelease'
    BY DEF OnTheList, OpenUntilRelease
  <2>5. SharedFirst'
    BY DEF SharedFirst, TypeOK
  <2> QED
    BY <2>3, <2>4, <2>5 DEF AllReleased, Running, StartedWhileServing, CaughtWhileServing
<1>5. CASE ResolveInline
  <2> USE <1>5 DEF ResolveInline, Resolving, signalling, pipeline
  <2>1. Picked \in Engine
    <3>1. Role \in RoleNames
      <4>1. turn \in 1..6
        BY DEF SharedFirst, TypeOK, Roles
      <4> QED
        BY <4>1 DEF Role, RoleNames
    <3>2. Pick \in Picker
      BY <1>0, <3>1, ConfigurationsAssumption DEF Pick, Configuration
    <3>3. Pick.name \in Names
      <4>1. Pick.how = "inline"
        OBVIOUS
      <4>2. None.how = "none"
        BY DEF None
      <4>3. Pick \in [how : {"shared", "inline"}, name : Names]
        BY <3>2, <4>1, <4>2 DEF Picker
      <4> QED
        BY <4>3
    <3>4. KindOf(Role) \in {"storage", "messaging"}
      BY DEF KindOf
    <3> QED
      BY <3>3, <3>4 DEF Picked, Engine
  <2>2. /\ conns' \in Seq([engine : Engine, tracked : BOOLEAN, open : BOOLEAN])
        /\ Len(conns') = Len(conns) + 1
        /\ \A c \in DOMAIN conns' : conns'[c].tracked /\ conns'[c].open
    BY <2>1, OpenKeeps
  <2>3. Len(conns) \in Nat
    BY DEF TypeOK
  <2>4. TypeOK'
    <3>1. bound' \in [RoleNames -> 0..Len(conns')]
      <4>1. Len(conns) + 1 \in 0..Len(conns') /\ 0..Len(conns) \subseteq 0..Len(conns')
        BY <2>2, <2>3
      <4>2. bound \in [RoleNames -> 0..Len(conns)]
        BY DEF TypeOK
      <4> QED
        BY <4>1, <4>2
    <3> QED
      BY <2>2, <3>1 DEF TypeOK
  <2>5. OnTheList' /\ OpenUntilRelease'
    BY <2>2 DEF OnTheList, OpenUntilRelease
  <2>6. SharedFirst'
    BY <1>0, <2>2, <2>3 DEF SharedFirst, TypeOK
  <2> QED
    BY <2>4, <2>5, <2>6 DEF AllReleased, Running, StartedWhileServing, CaughtWhileServing
<1>6. CASE NewFails
  <2> USE <1>6 DEF NewFails, Ends, connections, signalling, pipeline
  <2> QED
    BY SameConnections DEF TypeOK, AllReleased, SharedFirst, StartedWhileServing,
                           CaughtWhileServing
<1>7. CASE NewReturns
  <2> USE <1>7 DEF NewReturns, connections, signalling, pipeline
  <2> QED
    BY SameConnections DEF TypeOK, AllReleased, Running, SharedFirst, StartedWhileServing,
                           CaughtWhileServing
<1> QED
  BY <1>1, <1>2, <1>3, <1>4, <1>5, <1>6, <1>7 DEF New

\* The commands, the signals and the pipeline leave the connections alone.
LEMMA OthersKeep ==
  ASSUME ApplicationInv, CLI \/ Signal \/ PassBlock \/ HandleWalletActivity
  PROVE  ApplicationInv'
<1> USE DEF ApplicationInv, TypeOK, AllReleased, Running, SharedFirst, StartedWhileServing,
            CaughtWhileServing, connections, signalling, pipeline, Ends
<1>1. CASE WalletCommand
  <2> USE <1>1 DEF WalletCommand
  <2>1. OnTheList' /\ OpenUntilRelease'
    BY DEF OnTheList, OpenUntilRelease
  <2> QED
    BY <2>1
<1>2. CASE WalletCommandFails
  BY <1>2, SameConnections DEF WalletCommandFails
<1>3. CASE StartCommand
  BY <1>3, SameConnections DEF StartCommand
<1>4. CASE StartPipeline
  BY <1>4, SameConnections DEF StartPipeline
<1>5. CASE StartPipelineFails
  BY <1>5, SameConnections DEF StartPipelineFails
<1>6. CASE StartCommandFails
  BY <1>6, SameConnections DEF StartCommandFails
<1>7. CASE AwaitQuit
  BY <1>7, SameConnections DEF AwaitQuit
<1>8. CASE ClosePipeline
  BY <1>8, SameConnections DEF ClosePipeline
<1>9. CASE CloseQuit
  <2> USE <1>9 DEF CloseQuit
  <2>1. OnTheList' /\ OpenUntilRelease'
    BY DEF OnTheList, OpenUntilRelease
  <2> QED
    BY <2>1
<1>10. CASE Signal
  BY <1>10, SameConnections DEF Signal, Room
<1>11. CASE PassBlock
  BY <1>11, SameConnections, BoundAssumption DEF PassBlock
<1>12. CASE HandlerReceive
  BY <1>12, SameConnections, BoundAssumption DEF HandlerReceive
<1>13. CASE HandlerStep
  BY <1>13, SameConnections DEF HandlerStep
<1>14. CASE HandlerFails
  BY <1>14, SameConnections DEF HandlerFails
<1> QED
  BY <1>1, <1>2, <1>3, <1>4, <1>5, <1>6, <1>7, <1>8, <1>9, <1>10, <1>11, <1>12, <1>13, <1>14
  DEF CLI, HandleWalletActivity

LEMMA ReleaseKeeps ==
  ASSUME ApplicationInv, Release
  PROVE  ApplicationInv'
<1> DEFINE Connection == [engine : Engine, tracked : BOOLEAN, open : BOOLEAN]
<1>1. PICK c \in DOMAIN conns : conns' = [conns EXCEPT ![c].open = FALSE]
  BY DEF Release, ToClose
<1>2. conns \in Seq(Connection)
  BY DEF ApplicationInv, TypeOK
<1>3. conns[c] \in Connection
  <2> HIDE DEF Connection
  <2> QED
    BY <1>2, ElementOf
<1>4. PICK closed \in Connection : /\ closed = [conns[c] EXCEPT !.open = FALSE]
                                   /\ closed.tracked = conns[c].tracked
  <2>1. PICK old \in Connection : old = conns[c]
    BY <1>3
  <2>2. [old EXCEPT !.open = FALSE] \in Connection
    OBVIOUS
  <2>3. [old EXCEPT !.open = FALSE].tracked = old.tracked
    OBVIOUS
  <2> QED
    BY <2>1, <2>2, <2>3
<1>5. conns' = [conns EXCEPT ![c] = closed]
  BY <1>1, <1>4
<1>6. conns' \in Seq(Connection) /\ Len(conns') = Len(conns) /\ DOMAIN conns' = DOMAIN conns
  <2> HIDE DEF Connection
  <2> QED
    BY <1>2, <1>4, <1>5, Replaced
<1>7. \A d \in DOMAIN conns : d # c => conns'[d] = conns[d]
  BY <1>5
<1>8. conns'[c] = closed
  BY <1>5
<1>9. OnTheList'
  BY <1>4, <1>6, <1>7, <1>8 DEF ApplicationInv, OnTheList
<1>10. TypeOK'
  <2>1. bound' \in [RoleNames -> 0..Len(conns')]
    BY <1>6 DEF ApplicationInv, TypeOK, Release
  <2> QED
    BY <1>6, <2>1 DEF ApplicationInv, TypeOK, Release, signalling, pipeline
<1>11. OpenUntilRelease'
  BY DEF Release, OpenUntilRelease
<1> QED
  BY <1>6, <1>9, <1>10, <1>11 DEF ApplicationInv, Release, signalling, pipeline, AllReleased,
    Running, SharedFirst, StartedWhileServing, CaughtWhileServing

LEMMA ReturnKeeps ==
  ASSUME ApplicationInv, Return
  PROVE  ApplicationInv'
<1> USE DEF ApplicationInv, Return, Ends, connections, signalling, pipeline
<1>1. ASSUME NEW c \in DOMAIN conns  PROVE ~conns[c].open
  <2>1. conns[c].engine.kind \in {"storage", "messaging"}
    <3>1. conns[c] \in [engine : Engine, tracked : BOOLEAN, open : BOOLEAN]
      BY ElementOf DEF TypeOK
    <3> QED
      BY <3>1 DEF Engine
  <2>2. c \notin ToClose("storage") /\ c \notin ToClose("messaging")
    OBVIOUS
  <2> QED
    BY <2>1, <2>2 DEF ToClose, OnTheList
<1>2. AllReleased'
  BY <1>1 DEF AllReleased
<1> QED
  BY <1>2, SameConnections DEF TypeOK, SharedFirst, StartedWhileServing, CaughtWhileServing

LEMMA StepKeeps ==
  ASSUME ApplicationInv, [Next]_vars
  PROVE  ApplicationInv'
<1>1. CASE Next
  BY <1>1, NewKeeps, OthersKeep, ReleaseKeeps, ReturnKeeps DEF Next, Main
<1>2. CASE UNCHANGED vars
  BY <1>2, SameConnections
  DEF vars, ApplicationInv, TypeOK, AllReleased, SharedFirst, StartedWhileServing,
      CaughtWhileServing, connections, signalling, pipeline
<1> QED
  BY <1>1, <1>2

\* ApplicationInv is an invariant: the argument of the theorems below.
THEOREM Invariance == Spec => []ApplicationInv
BY InitEstablishes, StepKeeps, PTL DEF Spec

-----------------------------------------------------------------------------
\* Every variable keeps its type (TypeOK).
THEOREM ApplicationTypes == Spec => []TypeOK
<1>1. ApplicationInv => TypeOK
  BY DEF ApplicationInv
<1> QED
  BY <1>1, Invariance, PTL

\* A process that ends by itself leaves no connection open, however many there
\* are and wherever they came from (bootstrap.go:38, AllReleased).
THEOREM Released == Spec => []AllReleased
<1>1. ApplicationInv => AllReleased
  BY DEF ApplicationInv
<1> QED
  BY <1>1, Invariance, PTL

\* No goroutine of a live pipeline meets a closed connection (main.go:40,
\* pipeline.go:36, ClosedOnlyOnTheWayOut).
THEOREM ConnectionsOutlivePipeline == Spec => []ClosedOnlyOnTheWayOut
<1>1. ApplicationInv => ClosedOnlyOnTheWayOut
  <2> SUFFICES ASSUME ApplicationInv, NEW role \in RoleNames,
                      bound[role] # 0, ~conns[bound[role]].open
               PROVE  cancelled /\ ~isStarted
    BY DEF ClosedOnlyOnTheWayOut
  <2>1. bound[role] \in DOMAIN conns
    BY DEF ApplicationInv, TypeOK
  <2>2. step = "release"
    BY <2>1 DEF ApplicationInv, OpenUntilRelease
  <2> QED
    BY <2>2 DEF ApplicationInv, StartedWhileServing
<1> QED
  BY <1>1, Invariance, PTL

\* A signal that kills the process or makes it panic finds no running pipeline
\* (pipeline.go:28-36, SignalsSparePipeline).
THEOREM SignalsAreHarmless == Spec => SignalsSparePipeline
<1>1. ASSUME ApplicationInv, [Next]_vars
      PROVE  [exit' \in {"panic", "killed"} => ~isStarted]_vars
  <2> SUFFICES ASSUME Next, exit' \in {"panic", "killed"}
               PROVE  ~isStarted
    BY <1>1 DEF vars
  <2>1. CASE Signal
    BY <1>1, <2>1 DEF Signal, Running, ApplicationInv, StartedWhileServing, CaughtWhileServing
  <2>2. CASE New
    BY <2>2 DEF New, InitEngine, InitDone, Skip, ResolveShared, ResolveInline, NewFails,
                NewReturns, Resolving, Running, Ends
  <2>3. CASE CLI
    BY <2>3 DEF CLI, WalletCommand, WalletCommandFails, StartCommand, StartPipeline,
                StartPipelineFails, StartCommandFails, AwaitQuit, ClosePipeline, CloseQuit,
                Running, Ends
  <2>4. CASE Release \/ Return
    BY <2>4 DEF Release, Return, Running, Ends
  <2>5. CASE PassBlock \/ HandleWalletActivity
    BY <2>5 DEF PassBlock, HandleWalletActivity, HandlerReceive, HandlerStep, HandlerFails,
                Running
  <2> QED
    BY <2>1, <2>2, <2>3, <2>4, <2>5 DEF Next, Main
<1> QED
  BY <1>1, Invariance, PTL DEF Spec, SignalsSparePipeline
=============================================================================
