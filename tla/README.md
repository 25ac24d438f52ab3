# blockwatch, specified in TLA+

blockwatch follows several blockchains, passes their blocks through one
pipeline, and tells the outside world about transactions of registered wallets.
Per network a client polls a node; the service `chainstream` merges the blocks,
retries failed fetches and saves checkpoints; `blockproc` hands each block to
`walletwatch`, which claims it, looks up the registered wallets and notifies.

This directory holds TLA+ modules of that pipeline, TLC configurations that
check them on small instances, and proofs that TLAPS checks for every instance.
`PROJECT.json` names, for every definition, the source lines it stands for.
Paths below are relative to `internal/`.

    tlc -workers 2 -config stream_retry.cfg MCChainStream
    tlapm ChainStreamProofs.tla
    tlapm CheckpointProofs.tla
    tlapm DeliveryProofs.tla
    tlapm PollerProofs.tla
    tlapm WalletWatchProofs.tla
    tlapm WalletTransactionsProofs.tla
    tlapm ApplicationProofs.tla

## The system

| component | state | operations | talks to | what is hard, and what makes it correct |
|---|---|---|---|---|
| `chainstream` | `isStarted`, `closeFunc` under a mutex; four kinds of goroutines; channels `eventsCh` (one per network), `preCheckpointCh`, `retryFailureCh`, `dispatchFailureCh`, `finalOut` | `Start`, `Close`, loops `dispatchSubscriptionEvents`, `retryFailedBlockFetches`, `checkpointAndForward`, `handleDispatchFailures` | clients, checkpoint storage, failure notifier; returns `finalOut` | merging concurrent sources, bounded channels, shutdown under load, a failed `Start`, retry, crash around the checkpoint. No event lost, order per network, no panic, all goroutines return |
| clients `infra/blockchain/{ethereum,solana}` | `fromHeight` and one goroutine per subscription | `Subscribe`, `pollNewBlocks`, `FetchBlockByHeight` | node over JSON-RPC; `eventsCh` | chain grows during a poll, node fails or lags, heights are strings, plain send on a bounded channel. Every height once, in order, never ahead of the chain |
| `pkg/x/chflow`, `pkg/resilience/retry` | none | `Receive`, `Send`, `FirstNonNil`; `Execute` | used by `chainstream`, `blockproc` | random choice between a done context and a ready or closed channel; the errors `Execute` returns |
| `blockproc` | `isStarted`, `closeFunc`, one goroutine | `Start`, `Close`, `handleWalletActivity` | `chainstream`, `walletwatch` | one block at a time; errors of `walletwatch` are only logged |
| `walletwatch` | none of its own; claims live in the guard | `NotifyWatchedTransactions`, `getTransactionsByWallet` | idempotency guard, wallet storage, transaction notifier | several instances, claims that expire, failure half way, crash. Each wallet told of each transaction, no more than once per claim; complete means notified |
| storage `infra/storage/{redis,postgresql}` | checkpoints, claims, registered wallets | `SaveCheckpoint`, `LoadLatestCheckpoint`, `ClaimBlockForTxWatch`, `MarkBlockTxWatchComplete`, `FilterWatchedWallets`, `Register/UnregisterWallet` | Redis, PostgreSQL | two commands against one statement, expiry, two clocks, last write against highest height, names of networks, replies that are lost |
| `walletregistry` | none | `StartWatching`, `StopWatching` | wallet storage, CLI | the set changes while blocks are handled; what a user was told must be what the pipeline finds |
| messaging `infra/messaging/{redis,rabbitmq}` | a connection | `NotifyTransactions`, `NotifyDispatchFailure` | broker | succeeds, fails, or fails although the message arrived; RabbitMQ is published to without confirms |
| `bootstrap` | two registries, of storage and messaging connections: shared ones by engine, and all opened ones | `New`, `Init`, `Resolve`, `Close` | configuration, all services | shared and inline connections, failures half way, release. Every connection closed, none before the pipeline |
| `cmd`, `handlers/cli` | the `quit` channel | `main`, commands `start`, `watch`, `unwatch` | signals, `bootstrap`, `blockproc`, `walletregistry` | signals at any time, deferred calls in order. No signal lost, the pipeline closed before anything else goes |
| `config`, `validator`, `logger`, `telemetry`, `transport` | input, output | | | sequential, or without state |

## Modules

| module | models |
|---|---|
| `Chflow` | a bounded channel, and the outcomes of `chflow.Receive` and `Send` as separate predicates, since Go's `select` picks among the ready cases |
| `ChainStream` | one instance of `chainstream` with its clients, notifier, consumer and checkpoint storage, over several lives of the process |
| `BlockDelivery` | abstract: what `chainstream` promises its consumer. `ChainStream` implements it (`ImplementsDelivery`). The heights of a network rise, so a set of heights says their order too |
| `Hex` | a height as the number its string stands for, and Go's `>=` on two such strings |
| `Poller` | the goroutine behind `Subscribe` of either client, the checkpoint its blocks lead to, and the subscriptions of later runs |
| `EventSource` | abstract: what `chainstream` relies on in a subscription. `Poller` implements it (`ImplementsSource`); `Subscription(n)` of `ChainStream` is one per network |
| `Registry` | the wallets registered for a network in Redis or PostgreSQL, the commands that change them and what their users are told |
| `WalletWatch` | extends `Registry`: `NotifyWatchedTransactions` of several instances over one guard, in Redis or PostgreSQL, or none, with commands of users, lost replies, crashes and a clock |
| `ClaimGuard` | abstract: the promise of an `IdempotencyGuard`. `WalletWatch` implements it (`ImplementsGuard`) |
| `WalletTransactions` | the way of one block from the node's answer through the client's conversion and `getTransactionsByWallet` to the messages of its wallets |
| `Application` | one life of the process: `main`, `bootstrap`, the commands, signals, and `blockproc` with its goroutine |
| `MC*` | instances for TLC |
| `*Proofs` | theorems about `ChainStream`, `Poller`, `WalletWatch` (with `Registry`), `WalletTransactions` and `Application`, and their proofs |

Definitions whose comment begins with "Mutant:" belong to no specification. Each
is a plausible bug in the definition after it, kept to show that a property
notices it.

### ChainStream and its code

The steps of a goroutine are cut at what other goroutines can see: a receive, a
send, a storage call, a node call, a notification. `dispatcher[n]`,
`checkpointer`, `retrier` and `handler` say where each goroutine is and what it
holds. A send and the receive after it are separate steps, because a goroutine
can be held at either.

- `Start` is `StartBegin` (up to the launch; builds the channels and starts the
  shared goroutines), one `LaunchNetwork(n)` per network in any order (the
  registered clients are a Go map), then `StartReturns`; `LaunchFails` and
  `StartFails` are its error path. It holds the mutex throughout, so
  `phase` is never `free` in between, but the goroutines run.
- `Close` is `CloseBegin` (the cancel) and `CloseEnds` (closing the channels), with
  `CloseTwice` for channels that are closed already. Closing the channels one
  after the other is one step: a sender at any of them panics all the same.
- `dispatchSubscriptionEvents`: `DispatchReceive`, `DispatchSend`,
  `DispatchSendEnds`. `checkpointAndForward`: `CheckpointReceive`,
  `SaveCheckpoint` (or `SavePanics`), `Forward`, `ForwardEnds`.
  `retryFailedBlockFetches`: `RetryReceive`, `FetchSucceeds`, `FetchFails`,
  `ExecutePanics`, `SendRecovered`, `ReportFailure`. `handleDispatchFailures`:
  `HandlerReceive`, `NotifyFailure`.
- `ReportFailure` follows `SendRecovered` too: `Execute` returns an empty slice on
  success, and the code compares with `nil`.
- `SendOnClosed` is the panic of a goroutine whose `select` picks the closed
  channel. A panic ends the process (`ProcessEnds`), as does `Crash`; what lasts
  is `checkpoint`, and the histories. A crash after which nothing runs is not
  distinguished from a state in which nothing happens.
- A block has the `height` its client was asked for and the one it `states` of itself
  (`Stated`). On Ethereum they are equal. On Solana the first is a slot and the second
  counts blocks (`HeightAt`), so a chain that has `Skipped` slots states less than was asked
  for. `SaveCheckpoint` saves what the block states, and `LaunchNetwork` asks for one above
  it, so a Solana network streams slots again after a restart.
- A node may answer null for a block (`Answers`, with `HollowBlocks`; for a skipped slot it has
  no other answer). Ethereum's client makes of it a block with the empty height (`Empty`):
  PostgreSQL's save panics on it (`SavePanics`), Redis keeps it and the next `Start` fails on it.
  Solana's puts `0x0` there, which every storage takes.
- `checkpoint[n]` is a stated height, `Empty`, or `None`. `Saved` says what each storage keeps.

Abstractions, each sound for what is checked: a block is its network, its two
heights and a flag for those of the retry loop; the errors of a failure are reduced to
what the retry made of it; backoff delays take no time; a subscription without a checkpoint
begins at `FirstHeight` in the first run and anywhere from the highest height emitted on in a later one; when a dispatcher
returns, its `eventsCh` is dropped, nobody reads it again (what the poller then does
is `Poller`'s subject). `Start` is called again only when the goroutines of the
run before have returned (`Quiet`): the interleaving of two runs is bounded away.
Each attempt of `Execute` is one step, `FetchSucceeds` or `FetchFails`.

### Poller and its code

`at` is the place in `Subscribe`'s loop: the poll of the latest height (`PollFails`,
`Poll`), the loop of `pollNewBlocks` (`FetchBlock`, `SendBlock`), the send of the
poll's own error (`SendTipError`), and the `select` at the end (`Wait`). The test
`fromHeight >= latestHeight` is `StringGeq`, the loop's test compares numbers, as in
the code. The node may lag (`MaxLag`), fail, and be asked while its chain grows.
`eventsCh <- event` waits for room and nothing else, so `SendBlock` has no case
for a context that is done.

`heightOf` is the chain: for each position that has a block, the height the block states. On
Ethereum that is the position itself; a Solana client asks for slots, some of which
have no block, and a block's height lags behind its slot. `passed` holds the positions whose blocks
may come to `SaveCheckpoint`, which saves the height the block states (`Saves`), in any
order and with any of them left out. `Restart` is a later run, which subscribes one above the checkpoint, whatever the
goroutine of the run before was at. `Position` is the height of the next event about a block.

### Registry and its code

A wallet is registered under a name of its network, and there are several
`Spellings` of one name. `SAdd`, `SRem` and `SMIsMember` are the commands of Redis on the set of a
name; `InsertMonitoredWallet`, `DeleteMonitoredWallet` and `FilterMonitoredWallets` the statements of
PostgreSQL, which put the name in upper case (the adapter has done so before).
`StartWatching` and `StopWatching` are a command with its answer: "already registered" and "not
found" tell the user the same as success, an error tells nothing (`CommandFails`, with or without effect).
`told` is that answer, a history. The pipeline asks under `PipelineName`, which is in upper case.

### WalletWatch and its code

`ClaimBlockForTxWatch` is taken apart into its storage commands: `RedisGet` and
`RedisSetNX`, or `PostgresUpsert` and `PostgresFind`; each command is atomic, each
may fail (`ClaimFails`), also after it made the claim. `NopClaim` is the default guard, which grants everything. An
`Entry` is a Redis key or a PostgreSQL row. Redis expires a key by
its own clock `now`; PostgreSQL compares its `NOW()` with a time computed by the client,
`begun + Skew[i] + TTL`. `Filter` reads the registered wallets, `Notify` handles one wallet of the result at
a time (in any order, as the result is a Go map), `MarkComplete` ends the scan. `FilterFails`,
`NotifyFails` (the message may have arrived all the same) and `MarkFails` (the mark may have been made)
return as the code does. `User` is a command of `Registry` at any time. `grants`, `sent` and `steady` are
histories; `steady[i]` holds the wallets no command was about since `i` took up its block.

The transactions of a block are not in this module: each of its wallets takes part in
each block. What a wallet is told of is `WalletTransactions`' subject.

### WalletTransactions and its code

The clients' conversion of the node's answer (`ToWatcherBlock` on Ethereum,
`ToStreamTransactions` and `ToStreamBlock` on Solana), then `getTransactionsByWallet`, are
executed step by step, one turn of each loop per action, with the
maps and the set of the code as variables. Sets are visited in any order, as
Go does. `NotifyTransactions` hands one `Message` per wallet to the broker (`stream`), and
`NotifyFails` ends the loop. A Solana transaction yields one entry per transfer under one hash.

### Application and its code

`step` follows `main`. During `init` and `resolve` it is in `bootstrap.New`: `InitEngine`
opens one shared engine, first those of storage, then of messaging, and
`Skip`, `ResolveShared` and `ResolveInline` give the roles (`Roles`, in the order of the setup
functions) nothing, a shared connection or one of their own. `NewFails` is any
constructor's error. A configuration is a constant of the run and satisfies
`Validated`, as `config.Load` rejects the others; so the branches of `Resolve` for an engine that
is not configured are never reached and have no action.

`WalletCommand` stands for `watch` and `unwatch`. `start` is `StartCommand`
(`signal.Notify`), `StartPipeline` or `StartPipelineFails`, `AwaitQuit`, then the deferred
calls in reverse order, `ClosePipeline` and `CloseQuit`; `Release` closes one connection at a time and
`Return` ends `main`. `Ends("fatal")` is `logger.Fatal`, which runs no deferred call. `Signal` sends on
`quit` without waiting, as the signal package does: it is dropped when `quit` is full, and a
closed `quit` panics, as `signal.Stop` is never called.

`HandlerReceive`, `HandlerStep` and `HandlerFails` are `handleWalletActivity`, with
`NotifyWatchedTransactions` cut at its uses of a connection. `chainstream` is reduced
to the blocks it passes on; its goroutines are in `ChainStream`.

## Runs

| run | question | bounds, and why they are enough | result |
|---|---|---|---|
| `stream_retry` | are events lost, is order kept, who can panic, what can a crash lose | one Solana network whose first slot has no block, so that slots 2 and 3 state 1 and 2; Redis, saves that fail; channels of one, two calls of `Start`, one failed poll: every channel fills, a recovered block meets a later one and takes the checkpoint back, a restart streams a slot again, a crash and a failed start are each followed by another run | `TypeOK`, `NoSilentLoss`, `CrashWindow`, `OnlyRecoveryUncovers`, `PanicsOnlyInShutdown`, `ImplementsDelivery` hold |
| `stream_live` | does everything get out, do all goroutines return, does a stuck retry of one network stop another | an Ethereum and a Solana network with one height each (2, where the Solana block states 1), attempts without limit, PostgreSQL, hollow blocks: the retry loop is stuck with one network's block, or recovers, while the other's flow; a null answer panics or is saved | `HealthyNetworkFlows`, `EventuallyResolved`, `ShutdownCompletes`, `DeliveredIsCheckpointed`, `PanicsOnlyInShutdown` hold |
| `poller` | is a subscription an `EventSource`, restarts included | heights 1 to 5 (one digit), lag of one, channel of two, two restarts, an Ethereum chain and a Solana one with an empty slot: several polls, a poll behind the one before, a full channel, a checkpoint behind its position | `TypeOK`, `NeverAhead`, `ImplementsSource`, `KeepsUp`, `ClosesIfRead` hold |
| `walletwatch` | what do the guards promise, and what follows for notifications and for users | Redis, PostgreSQL and no guard; two instances that take one block up three times between them, two wallets, one command, `TTL` 2 over 4 ticks, a clock one behind: a claim can lapse, be taken over and lapse again, a command can come at any point of a scan | `TypeOK`, `AnswersHold`, `OverlapNeedsExpiry`, `NotifiedOncePerClaim`, `StoppedIsNotNotified`, `ImplementsGuard`, `CompleteMeansNotified` hold |
| `wallet_transactions` | is each wallet told of its transactions, once | all blocks of up to two transactions with up to two instructions between two wallets: self-transfers, shared hashes, contract creation; each call may fail | `TypeOK`, `OncePerHash`, `ExactOnEthereum` hold |
| `application` | what becomes of connections and of the pipeline when the process ends | six roles with every mixture of shared, inline and no connection over up to two shared engines; two blocks, a channel of one, two signals: one that ends the pipeline and one that finds it ended | `TypeOK`, `AllReleased`, `ClosedOnlyOnTheWayOut`, `SignalsSparePipeline`, `SignalEndsProcess` hold |
| `stream_recovered` | `blockchain.go:60` | | violated: a recovered failure is also reported |
| `stream_panic` | `pipeline.go:26` | | violated: a send meets a channel that `Close` has closed |
| `stream_crash` | `chainstream/README.md:363` | | violated: a crash after the save loses the block |
| `poller_hex` | `ethereum/block.go:140` | heights 14 to 17, from `0xe` to `0x11` | violated: `0xf` counts as above `0x10` |
| `walletwatch_names` | `handlers/cli/registry.go:16` | Redis, a network named as the documentation names it | violated: no block finds the wallet |
| `wallet_transactions_solana` | `walletwatch/wallet.go:73` | | violated: of the transfers under one hash only the last is kept |

`CHECK_DEADLOCK FALSE` is set everywhere: a service that was closed, a node whose
chain has reached its bound, or a function that has returned stops.

Bounds in the modules: `MaxHeight`, `MaxTipErrors`, `MaxRuns` (`ChainStream`),
`BlocksCap`, `MaxBlocks`, `MaxSignals` (`Application`), `MaxTip`, `MaxLag`, `MaxRestarts` (`Poller`),
`MaxCommands` (`Registry`), `MaxTime`, `MaxTries` per instance (`WalletWatch`), `MaxTransactions`,
`MaxInstructions` (`WalletTransactions`), and `Quiet`.

What the properties say in short:

- `NoSilentLoss`: while the context is live an event is always in a channel, in
  a goroutine's hands, delivered, or reported. A failed fetch is looked for on the failure path
  until its retry succeeds, and from then on as the recovered block: a report that the code makes all
  the same (`stream_recovered`) does not count for it, and a retry that reported nothing would keep the property.
- `EventuallyResolved`: a fetched block reaches the consumer; a failed fetch ends as the recovered
  block with the consumer or as a failure nobody recovered with the notifier.
- `ImplementsDelivery`: per network blocks leave in the order they came, a stop cuts
  off a tail, recovered and reported heights are failed ones.
- `CrashWindow` bounds what a crash loses among fetched blocks to what has passed
  `SaveCheckpoint` and has not reached the consumer. `NoDataLoss`, which the
  documentation promises, does not hold.
- `ImplementsSource`: a restart never begins above an event nobody took. Where a block states
  less than its slot the next run begins lower than it could, and blocks are streamed again.
- `DeliveredIsCheckpointed`, about the heights blocks state, holds with PostgreSQL and saves that
  succeed: a save never lowers the checkpoint. On Ethereum no restart then streams a delivered
  block again; on Solana slots above the saved height are streamed again.
- `OnlyRecoveryUncovers` is what remains with Redis and with saves that fail: only the save of a
  recovered or of a hollow block takes the checkpoint back below a delivered block.
- `PanicsOnlyInShutdown` has one exception, PostgreSQL's save of a null block, which `stream_live` meets.
- `OverlapNeedsExpiry`, `NotifiedOncePerClaim`: duplicates and simultaneous scans of
  a block always go back to a claim that lapsed. The comment at
  `redis/walletwatch.go:37` says more ("only one process can scan the block at a
  time"); nothing in the code stops a scan when its claim lapses.
- `NotifiedOncePerClaim` and `CompleteMeansNotified` count what is handed to the broker.
  RabbitMQ is published to without confirms, so what it drops after that counts as sent.
- `CompleteMeansNotified` speaks of the wallets whose users were told that they are watched before the scan
  began; `StoppedIsNotNotified` of those told the opposite. A command during the scan may or may not
  have its effect on the block.
- `AnswersHold` needs users who name the network so that the storage finds it
  (`CarefulUsers`); `walletwatch_names` shows what happens to those who follow the documentation with Redis.
- `KeepsUp`: a block is emitted once the chain is one beyond it. The latest block
  itself waits for the next one, as `fromHeight >= latestHeight` returns.

- `AllReleased` speaks of processes that return from `main`. After `logger.Fatal`, a
  panic or a kill nothing is closed by this code.
- `ClosedOnlyOnTheWayOut` is what `Close` of `blockproc` leaves of its word that it "stops
  internal goroutines" (`blockproc/service.go:90`): it cancels and does not wait, so the goroutine
  may still be in a scan when connections close and when the process ends. For the claim
  that it holds this is the crash of `WalletWatch`.
- `SignalsSparePipeline`: a second signal during shutdown may end the process with
  a panic (`handlers/cli/pipeline.go:29`), against "Terminates gracefully" at line 26, but never before
  the pipeline is closed.

### Fairness

- `ChainStream`: weak fairness of each goroutine loop, of a `Start` or `Close` under way, and of the
  consumer. The Go scheduler runs every goroutine that is ready; storage, node
  and notifier calls return (they carry timeouts or a context); `blockproc` reads
  until the context ends. A retry under a limit ends because its attempts are counted; one without
  a limit sees at last that its context is done (`ExecutePanics`). No
  fairness for what the outside decides: emission, cancel, `Close`, crash. That a
  fetch succeeds at last is a premise of `EventuallyResolved`, not of the specification.
- `Poller`: weak fairness of the goroutine and of the dispatcher's reads. Strong fairness that a
  poll answers with the chain's height: a node that fails or lags for ever is
  excluded, `KeepsUp` cannot hold with one. Strong fairness of the `select`'s choice
  of a done context: Go chooses at random among ready cases.
- `Application`: weak fairness of `main`, whose calls return; `main` waits only for `quit`,
  so `SignalEndsProcess` rests on nothing else. None for signals, blocks or the goroutine.
- `WalletWatch` and `WalletTransactions` make no liveness claim.

## Proofs

Each module of theorems is about all instances of its module. Assumptions are the
named ones of the modules, which TLC evaluates in each run, and those stated in a theorem.

| module | theorem | |
|---|---|---|
| `ChainStreamProofs` | `TypeCorrect` | `Spec => []TypeOK` |
| | `NothingIsLost` | `Spec => []NoSilentLoss` |
| | `PanicsAreShutdownPanics` | `Spec => PanicsOnlyInShutdown` |
| | `DeliveryInvariant` | `Spec => []DeliveryInv` |
| `CheckpointProofs` | `CrashLosesOnlyWhatLeaves` | `Spec => []CrashWindow` |
| | `DeliveredIsCovered` | `Storage = "postgresql"` and `FaultySaves = FALSE` imply `Spec => [](DeliveredIsCheckpointed /\ NotStreamedAgain)` |
| | `StraightBlocksKeepCover` | `Spec => OnlyRecoveryUncovers` |
| `DeliveryProofs` | `PipelineDeliversInOrder` | `Spec => ImplementsDelivery` |
| | `ConsumerReadsRisingHeights` | `Spec => []DeliveredRise` |
| `PollerProofs` | `PollerTypes` | `Spec => []TypeOK` |
| | `NothingAhead` | `Spec => []NeverAhead` |
| | `SubscriptionIsEventSource` | `StringsCompareAsNumbers(low, high)` implies `Spec => ImplementsSource` |
| | `SubscriptionWithinOneWidth` | `HeightsBetween(low, high)`, both of `k` digits, imply `Spec => ImplementsSource` |
| `WalletWatchProofs` | `WalletWatchTypes` | `Spec => []TypeOK` |
| | `AtMostOncePerClaim` | `Spec => []NotifiedOncePerClaim` |
| | `OverlapsOnlyAfterExpiry` | `Spec => []OverlapNeedsExpiry` |
| | `GuardIsClaimGuard` | `Spec => ImplementsGuard` |
| | `AnswersAreTrue` | `NamesAgree` implies `Spec => []AnswersHold` |
| | `NoneAfterStop` | `NamesAgree` implies `Spec => []StoppedIsNotNotified` |
| | `CompleteIsNotified` | `NamesAgree` implies `Spec => CompleteMeansNotified` |
| `WalletTransactionsProofs` | `TransactionTypes` | `Spec => []TypeOK` |
| | `EachHashOnce` | `Spec => []OncePerHash` |
| | `MessagesHoldTheMovements` | `Spec => []ExactOnEthereum` |
| `ApplicationProofs` | `ApplicationTypes` | `Spec => []TypeOK` |
| | `Released` | `Spec => []AllReleased` |
| | `ConnectionsOutlivePipeline` | `Spec => []ClosedOnlyOnTheWayOut` |
| | `SignalsAreHarmless` | `Spec => SignalsSparePipeline` |

### ChainStream

`NoSilentLoss` is not inductive. It says nothing of a cancelled run, yet it must
survive the return to a live context, which only `StartBegin` does, with
`emitted` empty; and a step that ends a goroutine or a process is harmless only
because the context is done by then. `DeliveryInv` therefore adds

- `StoppedIsCancelled`: closed channels, or a `Start` or `Close` tearing down,
  imply a cancelled context. `ReceiveEnds` and `SendOnClosed` then do not happen under
  a live one.
- `LaunchedOnce`: a network still to be launched has no running dispatcher, so
  `LaunchNetwork` cannot overwrite one that holds an event.

The step lemma has one case per action. Each shows where the action's event went:
the lemmas about `Elements` say that a `Tail` and its `Head` hold what the sequence held,
and an `Append` what it held and the new element. `PanicsOnlyInShutdown` follows step by
step from `StoppedIsCancelled`. TLC checked `DeliveryInv` as an invariant of `stream_retry`'s
instance before it was proved.

`CrashWindow` needs more, for it holds only because heights keep their order along the
pipeline. `CheckpointProofs` proves two further invariants, each checked by TLC first, the second
of them for a live context only (`AheadInv`):

- `Order`: whatever a block before its save, or a failure still to be retried, has as its
  height, the client of its network has nothing lower to bring while the context is live (`Under`); the events of a
  network are in order (`EventsInOrder`); and in `preCheckpointCh` a block straight from the
  subscription has nothing higher of its network in front of it (`BlocksInOrder`). Nothing
  is asked of a recovered block's place: the retry loop appends it late.
- `StreamAhead`: each height not yet saved is above the checkpoint, or its slot is past its
  save (`Ahead`). `SaveKeepsAhead` is the step that matters: by `Order` the height that is
  saved is at or below all that is still to come, and one that equals it has the slot of the
  block that just went past its save.

An event of `CrashWindow` is somewhere (`NoSilentLoss`). Ahead of its save, `StreamAhead` puts it
above the checkpoint or past its save; past its save it is leaving or resolved.
`DeliveredIsCheckpointed` is carried by `Covered`, which adds the blocks past their save: a
block gets there by the save that lifts the checkpoint to what it states, and a checkpoint of
PostgreSQL never goes down (`CheckpointRises`). `NotStreamedAgain` says what follows for networks not
served by the Solana client: there a block that is not hollow states the height its client was asked
for (`HeightAt` of a chain without skipped slots), so delivered heights lie at or below the checkpoint.

For `OnlyRecoveryUncovers`, `Passed` says that every block past its save, delivered ones included,
is at or below all that its network has still to bring to a save, recovered blocks left out
(`Behind`). `Order` carries this through the save, and no other step brings anything lower
(`BehindStays`). A block straight from the subscription is then saved above them, and of two
blocks of one chain that are not hollow the one of the higher slot states no less (`HeightAtBounds`).

The refinement of `BlockDelivery` is in `DeliveryProofs`. `Order` is not enough for it: it
compares blocks with what the client has still to bring, and the consumer's order is about
blocks that have all left the client. The heights of a network pass six stages (`eventsCh`,
dispatcher, `preCheckpointCh`, checkpointer, `finalOut`, consumer), and `StreamInv` says that

- each stage is below those it follows (`StagesInOrder`), inside a channel heights rise from
  head to tail (`ChannelsRise`), and a client of a live run goes on above all of them (`NextIsAbove`);
- an event belongs to its network and its run (`EventsOwned`), and a failure, or a block that
  the retry loop fetched, goes back to an event of this run that carried an error (`FailuresKnown`).

A step takes one height from a stage to the next, drops a stage's heights with all that
come behind it, or leaves the stages alone; one lemma per kind (`Announces`, `Takes`, `Delivers`, ...)
says which, and a move in order is a step of `BlockDelivery` or a stutter. A dispatcher that
returns drops its event with all of `eventsCh` behind it; once the checkpointer has returned,
nothing before it can reach the consumer, and the mapping counts those heights no longer (`Cut`).
TLC checked `StreamInv` first, on the instance of `stream_retry` among others.
`ConsumerReadsRisingHeights` puts the sets back in order: the sequence the consumer reads
rises, so none of the blocks that come straight from a subscription is read twice in a run.

### Poller

`NeverAhead` needs `Bounded`: the loop stays at or below the answer of its poll, and
answers never exceed the chain. The refinement needs `SourceInv`: the events in the channel
are in order and at or below `Position` (`Ordered`), and whatever was taken, and so the checkpoint, is
`Behind` all of them. It holds where the string comparison is right, which `StringsCompareAsNumbers(low, high)`
says of the heights that can occur (those between `low` and `high`, `HeightsBetween`).
`SubscriptionWithinOneWidth` proves this from the definition of the comparison for every range within
one number of digits: 1 to 15 for `poller`, and, by `SevenDigits`, 0x1000000 to 0xfffffff, where
Ethereum's heights are. `poller_hex` is an instance whose heights gain a digit.

### WalletWatch and Registry

The many actions are first brought into a few forms (`StepForms`): a worker begins, is
granted a claim, moves on inside the claim, filters, notifies, or ends, and what a form does to
the guard is a claim of an entry that was free or had lapsed, a completion, or nothing.

- `NotifiedOncePerClaim`: per block and wallet, what was sent and the number of workers
  that may still send (`Pending`, a cardinality) together never exceed the claims (`Counted`).
- `CompleteMeansNotified` and `StoppedIsNotNotified`: a scan owes a notification to every steady wallet
  that is told to be watched and was not notified (`Owed`), and holds none that is told not to be; at the
  filter step this is `AnswersHold`, and between commands nothing changes it. `NamesAgree` says that every
  spelling users give leads to the key of the pipeline: `CarefulUsers` satisfies it, `DocumentedUsers` with Redis does not.
- `OverlapNeedsExpiry` and the refinement: a scan holds a claim that lasts `TTL` less the
  skew from its begin, or its time is over (`HoldsLease`); a new claim is made only when the
  entry has lapsed, so the scans it overlaps with have outlived theirs.

### WalletTransactions

`TransactionsInv` says what every loop has done so far, for either client: the entries converted
are the movements of the transactions, and of the instructions, visited (`ConversionHolds`); the
maps hold exactly what was indexed (`MapsHold`), where of the entries with one hash one
stays in `transactionsMap`, so a hash there leads to some movement of its transaction; for each
watched wallet the transactions appended and the hashes left to visit are the wallet's hashes,
disjoint and without repetition (`MatchesHold`); each message is the whole result of its
wallet, and the wallets left and those sent to divide the result (`MessagesHold`). It follows
that a message has each hash of its wallet once. On Ethereum a hash has one movement, so
the message has all of them (`ExactOnEthereum`); on Solana it may not, which is
what `wallet_transactions_solana` shows. TLC checked the parts as invariants of `wallet_transactions`' instance.

### Application

`ApplicationInv` adds to the properties what they rest on: every connection is on
the list (`OnTheList`) and open until `main` releases them (`OpenUntilRelease`), the shared
ones are the first made (`SharedFirst`, so a role is never bound to a connection that
does not exist), the pipeline is started exactly between `StartPipeline` and `ClosePipeline`
(`StartedWhileServing`), and in between signals are caught and `quit` is not closed
(`CaughtWhileServing`).

### Only model-checked

Liveness, as fairness and ENABLED are beyond the prover: `HealthyNetworkFlows`,
`EventuallyResolved`, `ShutdownCompletes`, `KeepsUp`, `ClosesIfRead`, `SignalEndsProcess`. Every
safety property and every refinement a passing run checks is proved.

## Left out, and why

- A second `Start` of `blockproc` (`ErrServiceAlreadyStarted`): the command line calls it once.
- `Close` of `chainstream` after a failed `Start`, which `service.go:116` calls safe, closes
  channels twice (`CloseTwice`, allowed by `PanicsOnlyInShutdown`); `blockproc` never does it.
- A second `Start` beside goroutines of the run before (`Quiet`).
- `ClosesOnCancel`: `ethereum/block.go:192` says the channel is closed when the
  context ends. With a full channel and no reader the plain send keeps the
  goroutine for ever; `ClosesIfRead` states what remains true.
- A subscription without a checkpoint begins at the node's latest height; `FirstHeight` stands for it.
  `Poller` restarts above a checkpoint only; `ChainStream` also without one.
- The spelling of an address. The code compares addresses as the strings they are and normalises
  none, so two spellings of one address are two wallets to it; in the models an address is an identity.
- What becomes of a message after it was handed to the broker (RabbitMQ's publish is neither confirmed nor mandatory).
- Validation, message encodings, reading the environment, HTTP and JSON-RPC, logging, telemetry: no
  state, or output only.
- `checkpoint.go:18-36` speaks of the most recent height, "overwriting" the one
  before; PostgreSQL inserts a row and loads the highest. `Saved` has both forms.

## Plan

1. Done: `ChainStream` with `BlockDelivery`, `Poller` with `EventSource`, `WalletWatch` with
   `Registry` and `ClaimGuard`, `WalletTransactions`, `Application`.
2. Done: the theorems above, among them all three refinements.
3. Open: `EventSource`, `BlockDelivery` and `ClaimGuard` composed, from a block on the chain
   to the notification of a wallet.
