----------------------------- MODULE Application -----------------------------
(***************************************************************************)
(* One life of the process: cmd/cli/main.go, internal/bootstrap with the   *)
(* connections it opens and shares, the command line's `start`, `watch`    *)
(* and `unwatch`, the signals, and internal/blockproc with the goroutine   *)
(* that takes blocks from chainstream (one counter here, module            *)
(* ChainStream in full) through the connections of walletwatch.            *)
(***************************************************************************)
EXTENDS Integers, Sequences

CONSTANTS
  Names,           \* names of engines
  Configurations,  \* the configurations to consider
  BlocksCap,       \* observedBlockChannelBufferSize
  MaxBlocks,       \* bound: blocks that chainstream passes on
  MaxSignals       \* bound: signals sent to the process

\* The dependencies in the order in which New resolves them, each with the
\* registry that resolves it.
Roles == <<"checkpoint", "failures", "wallets", "transactions", "guard", "registry">>
KindOf(role) == IF role \in {"failures", "transactions"} THEN "messaging" ELSE "storage"
Optional == {"checkpoint", "failures", "guard"}
RoleNames == {Roles[i] : i \in 1..6}

Engine == [kind : {"storage", "messaging"}, name : Names]
None   == [how |-> "none"]
Picker == {None} \cup [how : {"shared", "inline"}, name : Names]

\* The shared engines in the order in which Init opens them, and what each role
\* picks.
Configuration == [shared : Seq(Engine), picks : [RoleNames -> Picker]]

\* validateConfigStruct: an engine that is picked by its name is configured.
Validated(c) ==
  \A role \in RoleNames :
    /\ c.picks[role] = None => role \in Optional
    /\ c.picks[role].how = "shared" =>
         \E i \in DOMAIN c.shared :
           c.shared[i] = [kind |-> KindOf(role), name |-> c.picks[role].name]

ASSUME ConfigurationsAssumption ==
  \A c \in Configurations :
    /\ c \in Configuration /\ Validated(c)
    /\ \A i, j \in DOMAIN c.shared : i < j =>
         /\ c.shared[i] # c.shared[j]
         /\ c.shared[i].kind = "messaging" => c.shared[j].kind = "messaging"
ASSUME BoundAssumption ==
  BlocksCap \in Nat \ {0} /\ MaxBlocks \in Nat /\ MaxSignals \in Nat

VARIABLES
  config,     \* never changes
  step,       \* where main is
  turn,       \* position in config.shared, then in Roles
  conns,      \* connections made so far: [engine, tracked, open]
  bound,      \* per role: the index of its connection, 0 for none
  registered, \* signal.Notify was called
  quit,       \* the quit channel: values buffered, or -1 once closed
  signals,    \* signals sent so far
  isStarted,  \* blockproc's s.isStarted
  cancelled,  \* the context of blockproc.Start is done
  blocks,     \* buffered in the channel chainstream returned
  passed,     \* blocks passed on so far
  handler,    \* where handleWalletActivity is with its block
  exit        \* "running", or how the process ended

connections == <<conns, bound>>
signalling  == <<registered, quit, signals>>
pipeline    == <<isStarted, cancelled, blocks, passed, handler>>
vars == <<config, step, turn, connections, signalling, pipeline, exit>>

Running == exit = "running"

\* logger.Fatal and a panic end the process at once: deferred calls do not run.
Ends(how) ==
  /\ exit' = how
  /\ UNCHANGED <<config, step, turn, connections, signalling, pipeline>>

-----------------------------------------------------------------------------
(* bootstrap.New                                                            *)

\* Mutant: an inline connection is not put on the list that Close goes through.
OpenUntracked(engine) ==
  conns' = Append(conns, [engine |-> engine, tracked |-> step = "init", open |-> TRUE])

\* A constructor succeeds, and the connection goes on openedConnections.
Open(engine) ==
  conns' = Append(conns, [engine |-> engine, tracked |-> TRUE, open |-> TRUE])

\* Init of storage, then of messaging: one shared engine.
InitEngine ==
  /\ Running /\ step = "init" /\ turn <= Len(config.shared)
  /\ Open(config.shared[turn])
  /\ turn' = turn + 1
  /\ UNCHANGED <<config, step, bound, signalling, pipeline, exit>>

InitDone ==
  /\ Running /\ step = "init" /\ turn > Len(config.shared)
  /\ step' = "resolve" /\ turn' = 1
  /\ UNCHANGED <<config, connections, signalling, pipeline, exit>>

Role == Roles[turn]
Pick == config.picks[Role]
Picked == [kind |-> KindOf(Role), name |-> Pick.name]
Resolving == Running /\ step = "resolve" /\ turn <= Len(Roles)

\* An optional dependency that is not configured.
Skip ==
  /\ Resolving /\ Pick = None
  /\ turn' = turn + 1
  /\ UNCHANGED <<config, step, connections, signalling, pipeline, exit>>

\* Picker.Engine: the connection that Init made, shared with other roles.
ResolveShared ==
  /\ Resolving /\ Pick.how = "shared"
  /\ \E c \in 1..Len(config.shared) :
       conns[c].engine = Picked /\ bound' = [bound EXCEPT ![Role] = c]
  /\ turn' = turn + 1
  /\ UNCHANGED <<config, step, conns, signalling, pipeline, exit>>

\* Picker.InlineConfig: a connection of its own.
ResolveInline ==
  /\ Resolving /\ Pick.how = "inline"
  /\ Open(Picked)
  /\ bound' = [bound EXCEPT ![Role] = Len(conns) + 1]
  /\ turn' = turn + 1
  /\ UNCHANGED <<config, step, signalling, pipeline, exit>>

\* A constructor fails.
NewFails ==
  /\ \/ Running /\ step = "init" /\ turn <= Len(config.shared)
     \/ Resolving /\ Pick.how = "inline"
  /\ Ends("fatal")

NewReturns ==
  /\ Running /\ step = "resolve" /\ turn > Len(Roles)
  /\ step' = "command"
  /\ UNCHANGED <<config, turn, connections, signalling, pipeline, exit>>

-----------------------------------------------------------------------------
(* The commands                                                             *)

\* watch and unwatch: one call of the registry.
WalletCommand ==
  /\ Running /\ step = "command"
  /\ step' = "release"
  /\ UNCHANGED <<config, turn, connections, signalling, pipeline, exit>>

WalletCommandFails == Running /\ step = "command" /\ Ends("fatal")

\* start: signal.Notify on a channel of one ...
StartCommand ==
  /\ Running /\ step = "command"
  /\ step' = "start" /\ registered' = TRUE
  /\ UNCHANGED <<config, turn, connections, quit, signals, pipeline, exit>>

\* ... blockproc.Start ...
StartPipeline ==
  /\ Running /\ step = "start"
  /\ isStarted' = TRUE /\ cancelled' = FALSE /\ handler' = "receive" /\ step' = "serve"
  /\ UNCHANGED <<config, turn, connections, signalling, blocks, passed, exit>>

\* ... which may fail: quit is closed on the way out, and main gives up.
StartPipelineFails ==
  /\ Running /\ step = "start"
  /\ quit' = -1 /\ step' = "failed"
  /\ UNCHANGED <<config, turn, connections, registered, signals, pipeline, exit>>

StartCommandFails == Running /\ step = "failed" /\ Ends("fatal")

\* <-quit
AwaitQuit ==
  /\ Running /\ step = "serve" /\ quit > 0
  /\ quit' = quit - 1 /\ step' = "stop"
  /\ UNCHANGED <<config, turn, connections, registered, signals, pipeline, exit>>

\* Mutant: the deferred calls are made in the opposite order.
CloseQuitFirst ==
  /\ Running
  /\ \/ /\ step = "stop" /\ quit >= 0 /\ quit' = -1
        /\ UNCHANGED <<step, isStarted, cancelled>>
     \/ /\ step = "stop" /\ quit = -1
        /\ isStarted' = FALSE /\ cancelled' = TRUE /\ step' = "stopped"
        /\ UNCHANGED quit
  /\ UNCHANGED <<config, turn, connections, registered, signals, blocks, passed, handler, exit>>

\* The deferred blockproc.Close: cancel, then chainstream.Close.  It does not
\* wait for the goroutine.
ClosePipeline ==
  /\ Running /\ step = "stop"
  /\ isStarted' = FALSE /\ cancelled' = TRUE /\ step' = "stopped"
  /\ UNCHANGED <<config, turn, connections, signalling, blocks, passed, handler, exit>>

\* The deferred close(quit), after which the command returns.
CloseQuit ==
  /\ Running /\ step = "stopped"
  /\ quit' = -1 /\ step' = "release"
  /\ UNCHANGED <<config, turn, connections, registered, signals, pipeline, exit>>

\* bootstrap.Close: the connections on the lists, those of storage first.  An
\* error of one is kept and the others are closed all the same.
ToClose(kind) == {c \in DOMAIN conns : conns[c].engine.kind = kind
                                        /\ conns[c].tracked /\ conns[c].open}

\* Mutant: main releases the connections as soon as a signal has come.
ReleaseEarly ==
  /\ Running /\ step \in {"stop", "release"}
  /\ \E c \in ToClose("storage") \cup ToClose("messaging") :
       conns' = [conns EXCEPT ![c].open = FALSE]
  /\ UNCHANGED <<config, step, turn, bound, signalling, pipeline, exit>>

Release ==
  /\ Running /\ step = "release"
  /\ LET group == IF ToClose("storage") # {} THEN ToClose("storage") ELSE ToClose("messaging")
     IN \E c \in group : /\ \A d \in group : c <= d
                         /\ conns' = [conns EXCEPT ![c].open = FALSE]
  /\ UNCHANGED <<config, step, turn, bound, signalling, pipeline, exit>>

Return ==
  /\ Running /\ step = "release" /\ ToClose("storage") \cup ToClose("messaging") = {}
  /\ Ends("clean")

\* Mutant: make(chan os.Signal) without a buffer.
RoomIfAwaited == quit = 0 /\ step = "serve"

\* Mutant: a buffer that is never full.
RoomAlways == quit >= 0

\* make(chan os.Signal, 1): quit takes a signal that nobody waits for yet.
Room == quit = 0

\* SIGINT or SIGTERM.  Before signal.Notify it kills; then the runtime sends it
\* on quit if there is room; on a closed channel that send panics.
Signal ==
  /\ Running /\ signals < MaxSignals /\ signals' = signals + 1
  /\ exit' = IF ~registered THEN "killed" ELSE IF quit = -1 THEN "panic" ELSE exit
  /\ quit' = IF registered /\ Room THEN quit + 1 ELSE quit
  /\ UNCHANGED <<config, step, turn, connections, registered, pipeline>>

-----------------------------------------------------------------------------
(* blockproc's goroutine                                                    *)

\* chainstream passes a block on.
PassBlock ==
  /\ Running /\ isStarted /\ blocks < BlocksCap /\ passed < MaxBlocks
  /\ blocks' = blocks + 1 /\ passed' = passed + 1
  /\ UNCHANGED <<config, step, turn, connections, signalling, isStarted, cancelled, handler, exit>>

HandlerReceive ==
  /\ Running /\ handler = "receive"
  /\ \/ blocks > 0 /\ blocks' = blocks - 1 /\ handler' = "claim"
     \/ cancelled /\ handler' = "off" /\ UNCHANGED blocks
  /\ UNCHANGED <<config, step, turn, connections, signalling, isStarted, cancelled, passed, exit>>

\* The connection that the current step of NotifyWatchedTransactions uses; none
\* when there is no guard.
Uses == CASE handler \in {"claim", "mark"} -> bound["guard"]
          [] handler = "filter"            -> bound["wallets"]
          [] handler = "notify"            -> bound["transactions"]
          [] OTHER                         -> 0
Usable == Uses # 0 => conns[Uses].open

\* A step of NotifyWatchedTransactions succeeds; there may be nobody to notify.
HandlerStep ==
  /\ Running /\ Usable
  /\ \/ handler = "claim"  /\ handler' = "filter"
     \/ handler = "filter" /\ handler' \in {"notify", "mark"}
     \/ handler = "notify" /\ handler' \in {"notify", "mark"}
     \/ handler = "mark"   /\ handler' = "receive"
  /\ UNCHANGED <<config, step, turn, connections, signalling, isStarted, cancelled, blocks,
                 passed, exit>>

\* It fails; the error is logged and the next block awaited.
HandlerFails ==
  /\ Running /\ handler \in {"claim", "filter", "notify", "mark"} /\ Uses # 0
  /\ handler' = "receive"
  /\ UNCHANGED <<config, step, turn, connections, signalling, isStarted, cancelled, blocks,
                 passed, exit>>

-----------------------------------------------------------------------------
Init ==
  /\ config \in Configurations /\ step = "init" /\ turn = 1
  /\ conns = <<>> /\ bound = [role \in RoleNames |-> 0]
  /\ registered = FALSE /\ quit = 0 /\ signals = 0
  /\ isStarted = FALSE /\ cancelled = TRUE /\ blocks = 0 /\ passed = 0 /\ handler = "off"
  /\ exit = "running"

New  == InitEngine \/ InitDone \/ Skip \/ ResolveShared \/ ResolveInline \/ NewFails \/ NewReturns
CLI  == \/ WalletCommand \/ WalletCommandFails \/ StartCommand \/ StartPipeline
        \/ StartPipelineFails \/ StartCommandFails \/ AwaitQuit \/ ClosePipeline \/ CloseQuit
Main == New \/ CLI \/ Release \/ Return
HandleWalletActivity == HandlerReceive \/ HandlerStep \/ HandlerFails

Next == Main \/ Signal \/ PassBlock \/ HandleWalletActivity

\* main runs whenever it can, and its calls return.
Spec     == Init /\ [][Next]_vars
FairSpec == Spec /\ WF_vars(Main)

-----------------------------------------------------------------------------
(* Properties                                                               *)

TypeOK ==
  /\ config \in Configurations
  /\ step \in {"init", "resolve", "command", "start", "failed", "serve", "stop", "stopped",
               "release"}
  /\ turn \in Nat
  /\ conns \in Seq([engine : Engine, tracked : BOOLEAN, open : BOOLEAN])
  /\ bound \in [RoleNames -> 0..Len(conns)]
  /\ registered \in BOOLEAN /\ quit \in {-1, 0, 1} /\ signals \in Nat
  /\ isStarted \in BOOLEAN /\ cancelled \in BOOLEAN /\ blocks \in 0..BlocksCap /\ passed \in Nat
  /\ handler \in {"off", "receive", "claim", "filter", "notify", "mark"}
  /\ exit \in {"running", "fatal", "killed", "panic", "clean"}

\* A process that ends by itself has closed every connection that bootstrap
\* opened, shared or inline, used or not, storage or messaging.
AllReleased == exit = "clean" => \A c \in DOMAIN conns : ~conns[c].open

\* Connections outlive the pipeline: a goroutine of blockproc or chainstream meets
\* a closed one only after its context is done, when it is on its way out.
ClosedOnlyOnTheWayOut ==
  \A role \in RoleNames :
    bound[role] # 0 /\ ~conns[bound[role]].open => cancelled /\ ~isStarted

\* A signal never breaks off the pipeline: one that panics (quit is closed) finds
\* it closed or never started, and one that kills comes before it starts.
SignalsSparePipeline == [][exit' \in {"panic", "killed"} => ~isStarted]_vars

\* No signal is lost: whenever it comes, before, during or after Start, the
\* process ends.
SignalEndsProcess == signals > 0 ~> exit # "running"
=============================================================================
