----------------------------- MODULE WalletWatch -----------------------------
(***************************************************************************)
(* internal/walletwatch: NotifyWatchedTransactions of several instances of *)
(* the program that observe the same chain and share one idempotency       *)
(* guard, in Redis or in PostgreSQL (internal/infra/storage), or have none *)
(* ("nop"), while users register and remove wallets (module Registry).     *)
(* The wallets appear in the transactions of each block.  An instance      *)
(* handles one block at a time (blockproc/wallet.go) and may see a block   *)
(* again (module ChainStream); it may die at any step.                     *)
(***************************************************************************)
EXTENDS Registry, Integers, FiniteSets

CONSTANTS
  Instances, Blocks,
  TTL,        \* maxProcessingTime, handed to the guard as the ttl of a claim
  Skew,       \* per instance: its clock minus the clock of the database
  MaxSkew,
  MaxTime,    \* bound on the clock
  MaxTries    \* bound, per instance: blocks it takes up

ASSUME SetsAssumption == IsFiniteSet(Instances)
ASSUME TimeAssumption ==
  /\ TTL \in Nat \ {0} /\ MaxSkew \in Nat /\ MaxTime \in Nat
  /\ MaxTries \in [Instances -> Nat]
  /\ Skew \in [Instances -> Int]
  /\ \A i \in Instances : -MaxSkew <= Skew[i] /\ Skew[i] <= MaxSkew

VARIABLES
  now,       \* the clock of the storage
  entry,     \* per block: [state, until] of its key or row
  worker,    \* per instance: what it is doing
  tries,     \* per instance: blocks taken up so far
  steady,    \* history, per instance: wallets no command was about since it
             \* took up its block
  grants,    \* history: claims granted, per block
  sent       \* history: notifications sent, per block and wallet

vars == <<backend, registry, now, entry, worker, tries, steady, grants, sent>>

Idle == [at |-> "idle"]

\* At "claim", "setnx", "find": inside ClaimBlockForTxWatch.  begun: when the
\* call began, on the clock of the storage.
Claimers == [at : {"claim", "setnx", "find"}, block : Blocks, begun : Nat]

\* The claim is granted.  todo: the wallets the loop still has to notify.
Scanners == [at : {"filter", "notify"}, block : Blocks, begun : Nat, todo : SUBSET Wallets]

Entry == [state : {"none", "claimed", "done"}, until : Int]

Scanning(i) == worker[i].at \in {"filter", "notify"}
Finishing(i) == worker[i].at = "notify" /\ worker[i].todo = {}

-----------------------------------------------------------------------------
(* The guards                                                               *)

\* A Redis key that holds a claim is gone once its ttl is over.
KeyExists(b) ==
  \/ entry[b].state = "done"
  \/ entry[b].state = "claimed" /\ now < entry[b].until

\* The claim is granted, and NotifyWatchedTransactions goes on to its scan.
Grant(i) ==
  LET b == worker[i].block
  IN /\ worker' = [worker EXCEPT ![i] =
                     [at |-> "filter", block |-> b, begun |-> @.begun, todo |-> {}]]
     /\ grants' = [grants EXCEPT ![b] = @ + 1]
     /\ UNCHANGED steady

Claimed(i, until) ==
  entry' = [entry EXCEPT ![worker[i].block] = [state |-> "claimed", until |-> until]]

Return(i) ==
  /\ worker' = [worker EXCEPT ![i] = Idle] /\ steady' = [steady EXCEPT ![i] = {}]
  /\ UNCHANGED grants

\* Redis: GET.  "done" means ErrAlreadyFinished.
RedisGet(i) ==
  /\ backend = "redis" /\ worker[i].at = "claim"
  /\ IF entry[worker[i].block].state = "done" THEN Return(i)
     ELSE worker' = [worker EXCEPT ![i].at = "setnx"] /\ UNCHANGED <<steady, grants>>
  /\ UNCHANGED <<backend, registry, now, entry, tries, sent>>

\* Mutant: a plain SET, whether the key exists or not.
RedisSet(i) ==
  /\ worker[i].at = "setnx" /\ Grant(i) /\ Claimed(i, now + TTL)
  /\ UNCHANGED <<backend, registry, now, tries, sent>>

\* Redis: SETNX with the ttl.  A key that exists means ErrStillInProgress.
RedisSetNX(i) ==
  /\ worker[i].at = "setnx"
  /\ IF KeyExists(worker[i].block) THEN Return(i) /\ UNCHANGED entry
     ELSE Grant(i) /\ Claimed(i, now + TTL)
  /\ UNCHANGED <<backend, registry, now, tries, sent>>

\* Mutant: the upsert forgets to ask for finished_at IS NULL.
UpsertableIfExpired(e) == e.state = "none" \/ e.until < now

\* PostgreSQL: the upsert of ClaimOrExtendIfExpired, one atomic statement.  Its
\* NOW() is the database's, in_progress_until the client's clock plus the ttl,
\* read when the call began.
Upsertable(e) == e.state = "none" \/ (e.state = "claimed" /\ e.until < now)

PostgresUpsert(i) ==
  /\ backend = "postgresql" /\ worker[i].at = "claim"
  /\ IF Upsertable(entry[worker[i].block])
     THEN Grant(i) /\ Claimed(i, worker[i].begun + Skew[i] + TTL)
     ELSE /\ worker' = [worker EXCEPT ![i].at = "find"]
          /\ UNCHANGED <<entry, steady, grants>>
  /\ UNCHANGED <<backend, registry, now, tries, sent>>

\* PostgreSQL: FindClaim only chooses which error is returned.
PostgresFind(i) ==
  /\ worker[i].at = "find" /\ Return(i)
  /\ UNCHANGED <<backend, registry, now, entry, tries, sent>>

\* The default guard grants every claim and keeps nothing.
NopClaim(i) ==
  /\ backend = "nop" /\ worker[i].at = "claim" /\ Grant(i)
  /\ UNCHANGED <<backend, registry, now, entry, tries, sent>>

\* Mutant: a claim whose storage fails is taken for granted.
ClaimFailsOpen(i) ==
  /\ backend # "nop" /\ worker[i].at \in {"claim", "setnx", "find"}
  /\ worker' = [worker EXCEPT ![i].at = "filter"]
  /\ UNCHANGED <<backend, registry, now, entry, tries, steady, grants, sent>>

\* A call to the storage fails, or its reply is lost after the claim was made.
ClaimFails(i) ==
  /\ backend # "nop" /\ worker[i].at \in {"claim", "setnx", "find"}
  /\ \/ UNCHANGED entry
     \/ /\ worker[i].at = "setnx" /\ ~KeyExists(worker[i].block)
        /\ Claimed(i, now + TTL)
     \/ /\ backend = "postgresql" /\ worker[i].at = "claim" /\ Upsertable(entry[worker[i].block])
        /\ Claimed(i, worker[i].begun + Skew[i] + TTL)
  /\ Return(i)
  /\ UNCHANGED <<backend, registry, now, tries, sent>>

-----------------------------------------------------------------------------
(* NotifyWatchedTransactions                                                *)

\* handleWalletActivity takes up a block.
Begin(i, b) ==
  /\ worker[i] = Idle /\ tries[i] < MaxTries[i]
  /\ worker' = [worker EXCEPT ![i] = [at |-> "claim", block |-> b, begun |-> now]]
  /\ tries' = [tries EXCEPT ![i] = @ + 1]
  /\ steady' = [steady EXCEPT ![i] = Wallets]
  /\ UNCHANGED <<backend, registry, now, entry, grants, sent>>

\* Mutant: the answer of the block before is added.
FilterStale(i) ==
  /\ worker[i].at = "filter"
  /\ \E stale \in SUBSET Wallets :
       worker' = [worker EXCEPT ![i].at = "notify",
                    ![i].todo = FilterWatchedWallets(PipelineName, Wallets) \cup stale]
  /\ UNCHANGED <<backend, registry, now, entry, tries, steady, grants, sent>>

\* FilterWatchedWallets answers with the wallets registered at this moment.
Filter(i) ==
  /\ worker[i].at = "filter"
  /\ worker' = [worker EXCEPT ![i].at = "notify",
                  ![i].todo = FilterWatchedWallets(PipelineName, Wallets)]
  /\ UNCHANGED <<backend, registry, now, entry, tries, steady, grants, sent>>

\* One turn of the loop over the matches, in the random order of a Go map.
Notify(i) ==
  /\ worker[i].at = "notify"
  /\ \E w \in worker[i].todo :
       /\ worker' = [worker EXCEPT ![i].todo = @ \ {w}]
       /\ sent' = [sent EXCEPT ![worker[i].block][w] = @ + 1]
  /\ UNCHANGED <<backend, registry, now, entry, tries, steady, grants>>

\* Mutant: a notification that fails is tried again.
NotifyAgain(i) ==
  /\ worker[i].at = "notify"
  /\ \E w \in worker[i].todo : sent' = [sent EXCEPT ![worker[i].block][w] = @ + 1]
  /\ UNCHANGED <<backend, registry, now, entry, worker, tries, steady, grants>>

\* Mutant: a wallet whose notification fails is skipped.
NotifySkips(i) ==
  /\ worker[i].at = "notify"
  /\ \E w \in worker[i].todo : worker' = [worker EXCEPT ![i].todo = @ \ {w}]
  /\ UNCHANGED <<backend, registry, now, entry, tries, steady, grants, sent>>

\* An error of the notifier ends the call, and the claim stays.  The broker may
\* have the notification all the same: the reply to an XADD can be lost.
NotifyFails(i) ==
  /\ worker[i].at = "notify"
  /\ \E w \in worker[i].todo, arrived \in {0, 1} :
       sent' = [sent EXCEPT ![worker[i].block][w] = @ + arrived]
  /\ Return(i)
  /\ UNCHANGED <<backend, registry, now, entry, tries>>

\* So does an error of the wallet storage.
FilterFails(i) ==
  /\ worker[i].at = "filter" /\ Return(i)
  /\ UNCHANGED <<backend, registry, now, entry, tries, sent>>

\* MarkBlockTxWatchComplete: Redis sets the key to "done" without a ttl,
\* PostgreSQL sets finished_at, the nop guard does nothing.
Completed(b) == IF backend = "nop" THEN entry ELSE [entry EXCEPT ![b].state = "done"]

MarkComplete(i) ==
  /\ Finishing(i) /\ Return(i)
  /\ entry' = Completed(worker[i].block)
  /\ UNCHANGED <<backend, registry, now, tries, sent>>

\* It fails, with or without effect; the error is logged.
MarkFails(i) ==
  /\ backend # "nop" /\ Finishing(i) /\ Return(i)
  /\ entry' \in {entry, Completed(worker[i].block)}
  /\ UNCHANGED <<backend, registry, now, tries, sent>>

-----------------------------------------------------------------------------
(* Surroundings                                                             *)

\* The instance dies and is started again.
Crash(i) ==
  /\ worker[i] # Idle /\ Return(i)
  /\ UNCHANGED <<backend, registry, now, entry, tries, sent>>

Tick ==
  /\ now < MaxTime /\ now' = now + 1
  /\ UNCHANGED <<backend, registry, entry, worker, tries, steady, grants, sent>>

\* A user runs watch or unwatch.
User(w) ==
  /\ WalletCommand(w)
  /\ steady' = [i \in Instances |-> steady[i] \ {w}]
  /\ UNCHANGED <<now, entry, worker, tries, grants, sent>>

Init ==
  /\ RegistryInit /\ now = 0
  /\ entry = [b \in Blocks |-> [state |-> "none", until |-> 0]]
  /\ worker = [i \in Instances |-> Idle] /\ tries = [i \in Instances |-> 0]
  /\ steady = [i \in Instances |-> {}]
  /\ grants = [b \in Blocks |-> 0] /\ sent = [b \in Blocks |-> [w \in Wallets |-> 0]]

ClaimBlock(i) ==
  \/ RedisGet(i) \/ RedisSetNX(i) \/ PostgresUpsert(i) \/ PostgresFind(i) \/ NopClaim(i)
  \/ ClaimFails(i)
NotifyWatchedWalletTransactions(i) == Filter(i) \/ FilterFails(i) \/ Notify(i) \/ NotifyFails(i)
NotifyWatchedTransactions(i) ==
  \/ \E b \in Blocks : Begin(i, b)
  \/ ClaimBlock(i) \/ NotifyWatchedWalletTransactions(i) \/ MarkComplete(i) \/ MarkFails(i)

Next ==
  \/ \E i \in Instances : NotifyWatchedTransactions(i) \/ Crash(i)
  \/ \E w \in Wallets : User(w)
  \/ Tick

Spec == Init /\ [][Next]_vars

-----------------------------------------------------------------------------
(* Properties                                                               *)

\* Every variable has its type.
TypeOK ==
  /\ RegistryTypes /\ now \in Nat
  /\ entry \in [Blocks -> Entry]
  /\ worker \in [Instances -> {Idle} \cup Claimers \cup Scanners]
  /\ tries \in [Instances -> Nat] /\ steady \in [Instances -> SUBSET Wallets]
  /\ grants \in [Blocks -> Nat] /\ sent \in [Blocks -> [Wallets -> Nat]]

\* Both guards keep the promise of ClaimGuard, Redis although its claim takes
\* two commands that other instances may come between.
Guard == INSTANCE ClaimGuard WITH
  Times    <- -MaxSkew..(MaxTime + MaxSkew + TTL),
  lease    <- [b \in Blocks |-> entry[b].until],
  complete <- {b \in Blocks : entry[b].state = "done"}
ImplementsGuard == Guard!Spec

\* Two instances scan a block at the same time only if one of them has been at
\* it for longer than the ttl, less what the clocks are apart (or if no guard
\* is configured).
OverlapNeedsExpiry ==
  backend # "nop" =>
    \A i, j \in Instances :
      i # j /\ Scanning(i) /\ Scanning(j) /\ worker[i].block = worker[j].block
        => \E k \in {i, j} : worker[k].begun + TTL - MaxSkew <= now

\* A claim notifies a wallet at most once, whatever fails, expires, gets lost
\* or runs at the same time: a duplicate always goes back to a second claim.
NotifiedOncePerClaim ==
  \A b \in Blocks : \A w \in Wallets : sent[b][w] <= grants[b]

\* A block becomes complete only through a scan for which every wallet counts
\* whose user was told that it is watched before the scan began, and has not
\* given another command since: each of them has been notified of the block.
CompleteMeansNotified ==
  [][\A b \in Blocks :
       entry[b].state # "done" /\ entry'[b].state = "done" =>
         \E i \in Instances :
           /\ worker[i].at = "notify" /\ worker[i].block = b
           /\ \A w \in steady[i] : told[w] = "watched" => sent[b][w] > 0]_vars

\* walletregistry/wallet.go:40: after StopWatching a wallet receives no more
\* notifications, for the scans that begin after its answer (one that has asked
\* FilterWatchedWallets before may still notify).
StoppedIsNotNotified ==
  \A i \in Instances : \A w \in steady[i] :
    told[w] = "unwatched" /\ worker[i].at = "notify" => w \notin worker[i].todo
=============================================================================
