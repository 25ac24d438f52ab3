-------------------------- MODULE WalletWatchProofs --------------------------
(***************************************************************************)
(* Theorems about WalletWatch and Registry, for any number of instances,   *)
(* blocks, wallets and commands, any ttl and clocks any skew apart.        *)
(***************************************************************************)
EXTENDS WalletWatch, FiniteSetTheorems, TLAPS

-----------------------------------------------------------------------------
(* Types, and the forms that steps take                                     *)

\* No call began in the future.
Clock ==
  /\ now <= MaxTime
  /\ \A i \in Instances : worker[i].at # "idle" => worker[i].begun <= now

TypedInv == TypeOK /\ Clock

LeaseTimes == -MaxSkew..(MaxTime + MaxSkew + TTL)

\* A claim of the storage: there was none, or it had lapsed.
Claims(i) ==
  LET b == worker[i].block
  IN /\ \/ entry[b].state = "none"
        \/ entry[b].state = "claimed" /\ entry[b].until <= now
     /\ \E until \in LeaseTimes :
          /\ worker[i].begun + TTL - MaxSkew <= until
          /\ entry' = [entry EXCEPT ![b] = [state |-> "claimed", until |-> until]]

Grants(i) ==
  /\ worker[i] \in Claimers
  /\ worker' = [worker EXCEPT ![i] = [at |-> "filter", block |-> worker[i].block,
                                      begun |-> worker[i].begun, todo |-> {}]]
  /\ grants' = [grants EXCEPT ![worker[i].block] = @ + 1]
  /\ (backend = "nop" /\ entry' = entry) \/ Claims(i)
  /\ UNCHANGED <<backend, registered, told, commands, now, tries, steady, sent>>

Moves(i) ==
  /\ worker[i] \in Claimers
  /\ \E at \in {"setnx", "find"} : worker' = [worker EXCEPT ![i] = [worker[i] EXCEPT !.at = at]]
  /\ UNCHANGED <<backend, registered, told, commands, now, entry, tries, steady, grants, sent>>

\* A call returns, or the instance dies, and with it may come a claim whose
\* reply was lost, a completion, or a notification whose reply was lost.
Completes(i) ==
  /\ worker[i] \in Scanners /\ worker[i].at = "notify" /\ worker[i].todo = {}
  /\ entry' = [entry EXCEPT ![worker[i].block].state = "done"]
Arrives(i) ==
  /\ worker[i] \in Scanners /\ worker[i].at = "notify"
  /\ \E w \in worker[i].todo : sent' = [sent EXCEPT ![worker[i].block][w] = @ + 1]
Ends(i) ==
  /\ worker' = [worker EXCEPT ![i] = Idle]
  /\ steady' = [steady EXCEPT ![i] = {}]
  /\ entry' = entry \/ (worker[i] \in Claimers /\ Claims(i)) \/ Completes(i)
  /\ sent' = sent \/ Arrives(i)
  /\ UNCHANGED <<backend, registered, told, commands, now, tries, grants>>

LEMMA WorkerKinds ==
  ASSUME TypeOK, NEW i \in Instances
  PROVE  /\ worker[i].at \in {"claim", "setnx", "find"} => worker[i] \in Claimers
         /\ worker[i].at \in {"filter", "notify"} => worker[i] \in Scanners
         /\ worker[i] \in Claimers =>
              /\ worker[i].at \in {"claim", "setnx", "find"}
              /\ worker[i].block \in Blocks /\ worker[i].begun \in Nat
         /\ worker[i] \in Scanners =>
              /\ worker[i].at \in {"filter", "notify"}
              /\ worker[i].block \in Blocks /\ worker[i].begun \in Nat
              /\ worker[i].todo \subseteq Wallets
         /\ worker[i].at # "idle" => worker[i] \in Claimers \/ worker[i] \in Scanners
<1>1. worker[i] = Idle \/ worker[i] \in Claimers \/ worker[i] \in Scanners
  BY DEF TypeOK
<1>2. Idle.at = "idle" BY DEF Idle
<1>3. worker[i] \in Claimers => /\ worker[i].at \in {"claim", "setnx", "find"}
                                /\ worker[i].block \in Blocks /\ worker[i].begun \in Nat
  BY DEF Claimers
<1>4. worker[i] \in Scanners => /\ worker[i].at \in {"filter", "notify"}
                                /\ worker[i].block \in Blocks /\ worker[i].begun \in Nat
                                /\ worker[i].todo \subseteq Wallets
  BY DEF Scanners
<1> QED BY <1>1, <1>2, <1>3, <1>4

\* What a claim of either storage comes to.
LEMMA ClaimForm ==
  ASSUME TypedInv, NEW i \in Instances, worker[i] \in Claimers
  PROVE  /\ ~KeyExists(worker[i].block) /\ Claimed(i, now + TTL) => Claims(i)
         /\ Upsertable(entry[worker[i].block]) /\ Claimed(i, worker[i].begun + Skew[i] + TTL)
              => Claims(i)
<1> DEFINE b == worker[i].block
           begun == worker[i].begun
<1>1. b \in Blocks /\ begun \in Nat /\ worker[i].at # "idle"
  BY WorkerKinds DEF TypedInv
<1>2. now \in Nat /\ now <= MaxTime /\ begun <= now
  BY <1>1 DEF TypedInv, TypeOK, Clock
<1>3. entry[b] \in Entry BY <1>1 DEF TypedInv, TypeOK
<1>4. entry[b].state \in {"none", "claimed", "done"} /\ entry[b].until \in Int
  BY <1>3 DEF Entry
<1>5. TTL \in Nat /\ MaxSkew \in Nat /\ MaxTime \in Nat /\ Skew[i] \in Int
      /\ -MaxSkew <= Skew[i] /\ Skew[i] <= MaxSkew
  BY TimeAssumption
<1> HIDE DEF b, begun
<1>6. now + TTL \in LeaseTimes /\ begun + TTL - MaxSkew <= now + TTL
  BY <1>1, <1>2, <1>5 DEF LeaseTimes
<1>7. /\ begun + Skew[i] + TTL \in LeaseTimes
      /\ begun + TTL - MaxSkew <= begun + Skew[i] + TTL
  BY <1>1, <1>2, <1>5 DEF LeaseTimes
<1>8. ~KeyExists(b) => entry[b].state = "none" \/ (entry[b].state = "claimed" /\ entry[b].until <= now)
  BY <1>2, <1>4 DEF KeyExists
<1>9. Upsertable(entry[b]) => entry[b].state = "none" \/ (entry[b].state = "claimed" /\ entry[b].until <= now)
  BY <1>2, <1>4 DEF Upsertable
<1> QED BY <1>6, <1>7, <1>8, <1>9 DEF Claims, Claimed, b, begun

InstanceForms(i) ==
  \/ \E b \in Blocks : Begin(i, b)
  \/ Grants(i) \/ Moves(i) \/ Ends(i) \/ Filter(i) \/ Notify(i)

LEMMA StepForms ==
  ASSUME TypedInv, NEW i \in Instances, NotifyWatchedTransactions(i) \/ Crash(i)
  PROVE  InstanceForms(i)
<1> USE DEF registry
<1>1. CASE \E b \in Blocks : Begin(i, b) BY <1>1 DEF InstanceForms
<1>2. CASE RedisGet(i)
  <2>1. worker[i] \in Claimers BY <1>2, WorkerKinds DEF RedisGet, TypedInv
  <2>2. Ends(i) \/ Moves(i) BY <1>2, <2>1 DEF RedisGet, Return, Ends, Moves
  <2> QED BY <2>2 DEF InstanceForms
<1>3. CASE RedisSetNX(i)
  <2>1. worker[i] \in Claimers BY <1>3, WorkerKinds DEF RedisSetNX, TypedInv
  <2>2. CASE KeyExists(worker[i].block)
    <3>1. Ends(i) BY <1>3, <2>2 DEF RedisSetNX, Return, Ends
    <3> QED BY <3>1 DEF InstanceForms
  <2>3. CASE ~KeyExists(worker[i].block)
    <3>1. Grant(i) /\ Claimed(i, now + TTL) BY <1>3, <2>3 DEF RedisSetNX
    <3>2. Claims(i) BY <2>1, <2>3, <3>1, ClaimForm
    <3>3. Grants(i) BY <1>3, <2>1, <3>1, <3>2 DEF RedisSetNX, Grant, Grants
    <3> QED BY <3>3 DEF InstanceForms
  <2> QED BY <2>2, <2>3
<1>4. CASE PostgresUpsert(i)
  <2>1. worker[i] \in Claimers BY <1>4, WorkerKinds DEF PostgresUpsert, TypedInv
  <2>2. CASE Upsertable(entry[worker[i].block])
    <3>1. Grant(i) /\ Claimed(i, worker[i].begun + Skew[i] + TTL)
      BY <1>4, <2>2 DEF PostgresUpsert
    <3>2. Claims(i) BY <2>1, <2>2, <3>1, ClaimForm
    <3>3. Grants(i) BY <1>4, <2>1, <3>1, <3>2 DEF PostgresUpsert, Grant, Grants
    <3> QED BY <3>3 DEF InstanceForms
  <2>3. CASE ~Upsertable(entry[worker[i].block])
    <3>1. Moves(i) BY <1>4, <2>1, <2>3 DEF PostgresUpsert, Moves
    <3> QED BY <3>1 DEF InstanceForms
  <2> QED BY <2>2, <2>3
<1>5. CASE PostgresFind(i)
  <2>1. Ends(i) BY <1>5 DEF PostgresFind, Return, Ends
  <2> QED BY <2>1 DEF InstanceForms
<1>6. CASE NopClaim(i)
  <2>1. worker[i] \in Claimers BY <1>6, WorkerKinds DEF NopClaim, TypedInv
  <2>2. Grants(i) BY <1>6, <2>1 DEF NopClaim, Grant, Grants
  <2> QED BY <2>2 DEF InstanceForms
<1>7. CASE ClaimFails(i)
  <2>1. worker[i] \in Claimers BY <1>7, WorkerKinds DEF ClaimFails, TypedInv
  <2>2. entry' = entry \/ Claims(i) BY <1>7, <2>1, ClaimForm DEF ClaimFails
  <2>3. Ends(i) BY <1>7, <2>1, <2>2 DEF ClaimFails, Return, Ends
  <2> QED BY <2>3 DEF InstanceForms
<1>8. CASE Filter(i) \/ Notify(i) BY <1>8 DEF InstanceForms
<1>9. CASE FilterFails(i)
  <2>1. Ends(i) BY <1>9 DEF FilterFails, Return, Ends
  <2> QED BY <2>1 DEF InstanceForms
<1>10. CASE NotifyFails(i)
  <2>1. worker[i] \in Scanners /\ worker[i].at = "notify" /\ worker[i].block \in Blocks
        /\ worker[i].todo \subseteq Wallets
    BY <1>10, WorkerKinds DEF NotifyFails, TypedInv
  <2>2. PICK w \in worker[i].todo, arrived \in {0, 1} :
          sent' = [sent EXCEPT ![worker[i].block][w] = @ + arrived]
    BY <1>10 DEF NotifyFails
  <2>3. CASE arrived = 0
    <3>1. sent \in [Blocks -> [Wallets -> Nat]] BY DEF TypedInv, TypeOK
    <3>2. sent[worker[i].block] \in [Wallets -> Nat] BY <2>1, <3>1
    <3>3. sent[worker[i].block][w] + 0 = sent[worker[i].block][w] BY <2>1, <3>2
    <3>4. sent' = sent BY <2>2, <2>3, <3>1, <3>2, <3>3
    <3>5. Ends(i) BY <1>10, <3>4 DEF NotifyFails, Return, Ends
    <3> QED BY <3>5 DEF InstanceForms
  <2>4. CASE arrived = 1
    <3>1. Arrives(i) BY <2>1, <2>2, <2>4 DEF Arrives
    <3>2. Ends(i) BY <1>10, <3>1 DEF NotifyFails, Return, Ends
    <3> QED BY <3>2 DEF InstanceForms
  <2> QED BY <2>3, <2>4
<1>11. CASE MarkComplete(i) \/ MarkFails(i)
  <2>1. worker[i] \in Scanners /\ worker[i].at = "notify" /\ worker[i].todo = {}
    BY <1>11, WorkerKinds DEF MarkComplete, MarkFails, Finishing, TypedInv
  <2>2. entry' = entry \/ entry' = [entry EXCEPT ![worker[i].block].state = "done"]
    BY <1>11 DEF MarkComplete, MarkFails, Completed
  <2>3. entry' = entry \/ Completes(i) BY <2>1, <2>2 DEF Completes
  <2>4. Ends(i) BY <1>11, <2>3 DEF MarkComplete, MarkFails, Return, Ends
  <2> QED BY <2>4 DEF InstanceForms
<1>12. CASE Crash(i)
  <2>1. Ends(i) BY <1>12 DEF Crash, Return, Ends
  <2> QED BY <2>1 DEF InstanceForms
<1> QED
  BY <1>1, <1>2, <1>3, <1>4, <1>5, <1>6, <1>7, <1>8, <1>9, <1>10, <1>11, <1>12
  DEF NotifyWatchedTransactions, ClaimBlock, NotifyWatchedWalletTransactions

\* The parts of the state that an instance's step changes.
LEMMA WorkerTypes ==
  ASSUME TypeOK, NEW i \in Instances, NEW r \in {Idle} \cup Claimers \cup Scanners,
         worker' = [worker EXCEPT ![i] = r]
  PROVE  /\ worker' \in [Instances -> {Idle} \cup Claimers \cup Scanners]
         /\ \A j \in Instances : worker'[j] = IF j = i THEN r ELSE worker[j]
BY DEF TypeOK

LEMMA ClaimTypes ==
  ASSUME TypedInv, NEW i \in Instances, worker[i].block \in Blocks, Claims(i)
  PROVE  entry' \in [Blocks -> Entry]
<1>1. PICK until \in LeaseTimes :
        entry' = [entry EXCEPT ![worker[i].block] = [state |-> "claimed", until |-> until]]
  BY DEF Claims
<1>2. until \in Int
  <2>1. TTL \in Nat /\ MaxSkew \in Nat /\ MaxTime \in Nat BY TimeAssumption
  <2> QED BY <2>1 DEF LeaseTimes
<1>3. [state |-> "claimed", until |-> until] \in Entry BY <1>2 DEF Entry
<1> QED BY <1>1, <1>3 DEF TypedInv, TypeOK

LEMMA SentTypes ==
  ASSUME TypeOK, NEW b \in Blocks, NEW w \in Wallets,
         sent' = [sent EXCEPT ![b][w] = @ + 1]
  PROVE  /\ sent' \in [Blocks -> [Wallets -> Nat]]
         /\ \A c \in Blocks : \A v \in Wallets :
              sent'[c][v] = IF c = b /\ v = w THEN sent[c][v] + 1 ELSE sent[c][v]
<1>1. sent \in [Blocks -> [Wallets -> Nat]] BY DEF TypeOK
<1> QED BY <1>1

LEMMA EndTypes ==
  ASSUME TypedInv, NEW i \in Instances, Ends(i)
  PROVE  entry' \in [Blocks -> Entry] /\ sent' \in [Blocks -> [Wallets -> Nat]]
<1>0. TypeOK BY DEF TypedInv
<1>1. entry' \in [Blocks -> Entry]
  <2>1. CASE entry' = entry BY <1>0, <2>1 DEF TypeOK
  <2>2. CASE worker[i] \in Claimers /\ Claims(i) BY <1>0, <2>2, WorkerKinds, ClaimTypes
  <2>3. CASE Completes(i)
    <3>1. worker[i].block \in Blocks BY <1>0, <2>3, WorkerKinds DEF Completes
    <3>2. entry[worker[i].block] \in Entry BY <1>0, <3>1 DEF TypeOK
    <3>3. [entry[worker[i].block] EXCEPT !.state = "done"] \in Entry BY <3>2 DEF Entry
    <3> QED BY <1>0, <2>3, <3>1, <3>3 DEF Completes, TypeOK
  <2> QED BY <2>1, <2>2, <2>3 DEF Ends
<1>2. sent' \in [Blocks -> [Wallets -> Nat]]
  <2>1. CASE sent' = sent BY <1>0, <2>1 DEF TypeOK
  <2>2. CASE Arrives(i)
    <3>1. worker[i].block \in Blocks /\ worker[i].todo \subseteq Wallets
      BY <1>0, <2>2, WorkerKinds DEF Arrives
    <3>2. PICK w \in worker[i].todo : sent' = [sent EXCEPT ![worker[i].block][w] = @ + 1]
      BY <2>2 DEF Arrives
    <3> QED BY <1>0, <3>1, <3>2, SentTypes
  <2> QED BY <2>1, <2>2 DEF Ends
<1> QED BY <1>1, <1>2

LEMMA CommandTypes ==
  ASSUME RegistryTypes, NEW w \in Wallets, WalletCommand(w)
  PROVE  RegistryTypes'
<1>1. PICK name \in Spellings[backend] :
        StartWatching(name, w) \/ StopWatching(name, w) \/ CommandFails(name, w)
  BY DEF WalletCommand
<1>2. name \in DOMAIN Upper /\ Upper[name] \in DOMAIN Upper /\ Upper[Upper[name]] \in DOMAIN Upper
  BY NamesAssumption DEF RegistryTypes
<1>3. registered \subseteq (DOMAIN Upper) \X Wallets BY DEF RegistryTypes
<1>4. /\ RegisterWallet(name, w) \subseteq (DOMAIN Upper) \X Wallets
      /\ UnregisterWallet(name, w) \subseteq (DOMAIN Upper) \X Wallets
  BY <1>2, <1>3 DEF RegisterWallet, UnregisterWallet, InsertMonitoredWallet,
                    DeleteMonitoredWallet, SAdd, SRem
<1>5. ASSUME NEW answer \in {"watched", "unwatched", "unknown"},
             NEW after, after \subseteq (DOMAIN Upper) \X Wallets, Command(w, answer, after)
      PROVE  RegistryTypes'
  BY <1>5 DEF Command, RegistryTypes
<1>6. CASE StartWatching(name, w) BY <1>4, <1>5, <1>6 DEF StartWatching
<1>7. CASE StopWatching(name, w) BY <1>4, <1>5, <1>7 DEF StopWatching
<1>8. CASE CommandFails(name, w) BY <1>3, <1>4, <1>5, <1>8 DEF CommandFails
<1> QED BY <1>1, <1>6, <1>7, <1>8

LEMMA TypedInit == Init => TypedInv
<1> SUFFICES ASSUME Init PROVE TypedInv
  OBVIOUS
<1>1. RegistryTypes BY NamesAssumption, BackendsAssumption DEF Init, RegistryInit, RegistryTypes
<1>2. [state |-> "none", until |-> 0] \in Entry BY DEF Entry
<1>3. TypeOK BY <1>1, <1>2 DEF Init, TypeOK
<1>4. Clock
  <2>1. Idle.at = "idle" BY DEF Idle
  <2> QED BY <2>1, TimeAssumption DEF Init, Clock
<1> QED BY <1>3, <1>4 DEF TypedInv

LEMMA TypedStep == TypedInv /\ [Next]_vars => TypedInv'
<1> SUFFICES ASSUME TypedInv, [Next]_vars PROVE TypedInv'
  OBVIOUS
<1>0. TypeOK /\ Clock /\ now \in Nat BY DEF TypedInv, TypeOK
<1>A. ASSUME UNCHANGED <<now, worker>> PROVE Clock' BY <1>0, <1>A DEF Clock
<1>B. ASSUME NEW i \in Instances, NEW r \in {Idle} \cup Claimers \cup Scanners,
             worker' = [worker EXCEPT ![i] = r], now' = now,
             r.at # "idle" => r.begun <= now
      PROVE  worker' \in [Instances -> {Idle} \cup Claimers \cup Scanners] /\ Clock'
  BY <1>0, <1>B, WorkerTypes DEF Clock
<1>C. ASSUME UNCHANGED registry, UNCHANGED backend PROVE RegistryTypes'
  BY <1>0, <1>C DEF TypeOK, RegistryTypes, registry
<1>1. CASE \E i \in Instances : NotifyWatchedTransactions(i) \/ Crash(i)
  <2>0. PICK i \in Instances : NotifyWatchedTransactions(i) \/ Crash(i) BY <1>1
  <2>1. InstanceForms(i) BY <2>0, StepForms
  <2>2. CASE \E b \in Blocks : Begin(i, b)
    <3>1. PICK b \in Blocks : Begin(i, b) BY <2>2
    <3> DEFINE r == [at |-> "claim", block |-> b, begun |-> now]
    <3>2. r \in Claimers /\ r.begun <= now BY <1>0 DEF Claimers
    <3>3. worker' = [worker EXCEPT ![i] = r] /\ now' = now BY <3>1 DEF Begin
    <3> HIDE DEF r
    <3>4. worker' \in [Instances -> {Idle} \cup Claimers \cup Scanners] /\ Clock'
      BY <1>0, <1>B, <3>2, <3>3
    <3>5. tries' \in [Instances -> Nat] /\ steady' \in [Instances -> SUBSET Wallets]
      BY <1>0, <3>1 DEF Begin, TypeOK
    <3> QED BY <1>0, <1>C, <3>1, <3>4, <3>5 DEF Begin, TypedInv, TypeOK
  <2>3. CASE Grants(i)
    <3> DEFINE r == [at |-> "filter", block |-> worker[i].block, begun |-> worker[i].begun,
                     todo |-> {}]
    <3>1. worker[i] \in Claimers /\ worker[i].block \in Blocks /\ worker[i].begun \in Nat
          /\ worker[i].begun <= now
      BY <1>0, <2>3, WorkerKinds DEF Grants, Clock
    <3>2. r \in Scanners /\ r.begun <= now BY <3>1 DEF Scanners
    <3>3. worker' = [worker EXCEPT ![i] = r] /\ now' = now BY <2>3 DEF Grants
    <3> HIDE DEF r
    <3>4. worker' \in [Instances -> {Idle} \cup Claimers \cup Scanners] /\ Clock'
      BY <1>0, <1>B, <3>2, <3>3
    <3>5. entry' \in [Blocks -> Entry]
      BY <1>0, <2>3, <3>1, ClaimTypes DEF Grants, TypeOK
    <3>6. grants' \in [Blocks -> Nat] BY <1>0, <2>3, <3>1 DEF Grants, TypeOK
    <3> QED BY <1>0, <1>C, <2>3, <3>4, <3>5, <3>6 DEF Grants, registry, TypedInv, TypeOK
  <2>4. CASE Moves(i)
    <3>1. PICK at \in {"setnx", "find"} : worker' = [worker EXCEPT ![i] = [worker[i] EXCEPT !.at = at]]
      BY <2>4 DEF Moves
    <3> DEFINE r == [worker[i] EXCEPT !.at = at]
    <3>2. worker[i] \in Claimers /\ worker[i].begun <= now
      BY <1>0, <2>4, WorkerKinds DEF Moves, Clock
    <3>3. r \in Claimers /\ r.begun <= now BY <3>2 DEF Claimers
    <3>4. worker' = [worker EXCEPT ![i] = r] /\ now' = now BY <2>4, <3>1 DEF Moves
    <3> HIDE DEF r
    <3>5. worker' \in [Instances -> {Idle} \cup Claimers \cup Scanners] /\ Clock'
      BY <1>0, <1>B, <3>3, <3>4
    <3> QED BY <1>0, <1>C, <2>4, <3>5 DEF Moves, registry, TypedInv, TypeOK
  <2>5. CASE Ends(i)
    <3>1. Idle.at = "idle" BY DEF Idle
    <3>2. worker' \in [Instances -> {Idle} \cup Claimers \cup Scanners] /\ Clock'
      BY <1>B, <2>5, <3>1 DEF Ends
    <3>3. entry' \in [Blocks -> Entry] /\ sent' \in [Blocks -> [Wallets -> Nat]]
      BY <2>5, EndTypes
    <3>4. steady' \in [Instances -> SUBSET Wallets] BY <1>0, <2>5 DEF Ends, TypeOK
    <3> QED BY <1>0, <1>C, <2>5, <3>2, <3>3, <3>4 DEF Ends, registry, TypedInv, TypeOK
  <2>6. CASE Filter(i)
    <3> DEFINE found == FilterWatchedWallets(PipelineName, Wallets)
               r == [worker[i] EXCEPT !.at = "notify", !.todo = found]
    <3>1. worker[i] \in Scanners /\ worker[i].begun <= now
      BY <1>0, <2>6, WorkerKinds DEF Filter, Clock
    <3>2. found \subseteq Wallets BY DEF FilterWatchedWallets, FilterMonitoredWallets, SMIsMember
    <3>3. worker' = [worker EXCEPT ![i] = r] /\ now' = now BY <1>0, <2>6 DEF Filter, TypeOK
    <3> HIDE DEF found
    <3>4. r \in Scanners /\ r.begun <= now BY <3>1, <3>2 DEF Scanners
    <3> HIDE DEF r
    <3>5. worker' \in [Instances -> {Idle} \cup Claimers \cup Scanners] /\ Clock'
      BY <1>0, <1>B, <3>3, <3>4
    <3> QED BY <1>0, <1>C, <2>6, <3>5 DEF Filter, TypedInv, TypeOK
  <2>7. CASE Notify(i)
    <3>1. PICK w \in worker[i].todo :
            /\ worker' = [worker EXCEPT ![i].todo = @ \ {w}]
            /\ sent' = [sent EXCEPT ![worker[i].block][w] = @ + 1]
      BY <2>7 DEF Notify
    <3> DEFINE r == [worker[i] EXCEPT !.todo = @ \ {w}]
    <3>2. worker[i] \in Scanners /\ worker[i].begun <= now /\ worker[i].block \in Blocks
          /\ worker[i].todo \subseteq Wallets
      BY <1>0, <2>7, WorkerKinds DEF Notify, Clock
    <3>3. worker' = [worker EXCEPT ![i] = r] /\ now' = now BY <1>0, <2>7, <3>1 DEF Notify, TypeOK
    <3>4. r \in Scanners /\ r.begun <= now BY <3>2 DEF Scanners
    <3> HIDE DEF r
    <3>5. worker' \in [Instances -> {Idle} \cup Claimers \cup Scanners] /\ Clock'
      BY <1>0, <1>B, <3>3, <3>4
    <3>6. sent' \in [Blocks -> [Wallets -> Nat]] BY <1>0, <3>1, <3>2, SentTypes
    <3> QED BY <1>0, <1>C, <2>7, <3>5, <3>6 DEF Notify, TypedInv, TypeOK
  <2> QED BY <2>1, <2>2, <2>3, <2>4, <2>5, <2>6, <2>7 DEF InstanceForms
<1>2. CASE \E w \in Wallets : User(w)
  <2>1. PICK w \in Wallets : User(w) BY <1>2
  <2>2. RegistryTypes' BY <1>0, <2>1, CommandTypes DEF User, TypeOK
  <2>3. steady' \in [Instances -> SUBSET Wallets] BY <1>0, <2>1 DEF User, TypeOK
  <2> QED BY <1>0, <1>A, <2>1, <2>2, <2>3 DEF User, TypedInv, TypeOK
<1>3. CASE Tick
  <2>1. now' = now + 1 /\ now < MaxTime /\ UNCHANGED worker BY <1>3 DEF Tick
  <2>2. \A i \in Instances : worker[i].at # "idle" => worker[i].begun \in Nat
    BY <1>0, WorkerKinds DEF TypeOK
  <2>3. Clock' BY <1>0, <2>1, <2>2, TimeAssumption DEF Clock
  <2> QED BY <1>0, <1>C, <1>3, <2>1, <2>3 DEF Tick, TypedInv, TypeOK
<1>4. CASE UNCHANGED vars BY <1>0, <1>A, <1>C, <1>4 DEF vars, TypedInv, TypeOK
<1> QED BY <1>1, <1>2, <1>3, <1>4 DEF Next

LEMMA TypedInvariant == Spec => []TypedInv
BY TypedInit, TypedStep, PTL DEF Spec

\* Every variable of the registry and of the instances has its type.
THEOREM WalletWatchTypes == Spec => []TypeOK
BY TypedInvariant, PTL DEF TypedInv

-----------------------------------------------------------------------------
(* A claim notifies a wallet at most once                                   *)

\* An instance whose state is x may still notify w of b under its claim.
MayNotify(x, b, w) ==
  /\ x.at \in {"filter", "notify"} /\ x.block = b
  /\ x.at = "filter" \/ w \in x.todo
Pending(work, b, w) == {i \in Instances : MayNotify(work[i], b, w)}

\* What makes NotifiedOncePerClaim inductive: those who may still notify count
\* against the claims as well.
Counted ==
  \A b \in Blocks : \A w \in Wallets :
    sent[b][w] + Cardinality(Pending(worker, b, w)) <= grants[b]

LEMMA PendingIsFinite ==
  ASSUME NEW work, NEW b, NEW w
  PROVE  IsFiniteSet(Pending(work, b, w)) /\ Cardinality(Pending(work, b, w)) \in Nat
<1>1. Pending(work, b, w) \subseteq Instances BY DEF Pending
<1>2. IsFiniteSet(Pending(work, b, w)) BY <1>1, SetsAssumption, FS_Subset
<1> QED BY <1>2, FS_CardinalityType

\* One instance's step changes the number by at most one.
LEMMA PendingChanges ==
  ASSUME NEW work, NEW after, NEW i \in Instances, NEW b, NEW w,
         \A j \in Instances : j # i => after[j] = work[j]
  PROVE  LET before == Cardinality(Pending(work, b, w))
             later  == Cardinality(Pending(after, b, w))
         IN /\ later <= before + 1
            /\ (MayNotify(after[i], b, w) => MayNotify(work[i], b, w)) => later <= before
            /\ ~MayNotify(after[i], b, w) /\ MayNotify(work[i], b, w) => later + 1 = before
<1> DEFINE P == Pending(work, b, w)
           Q == Pending(after, b, w)
<1>1. IsFiniteSet(P) /\ IsFiniteSet(Q) /\ Cardinality(P) \in Nat /\ Cardinality(Q) \in Nat
  BY PendingIsFinite
<1>2. CASE MayNotify(after[i], b, w) /\ ~MayNotify(work[i], b, w)
  <2>1. Q = P \cup {i} /\ i \notin P BY <1>2 DEF Pending
  <2>2. Cardinality(Q) = Cardinality(P) + 1 BY <1>1, <2>1, FS_AddElement
  <2> QED BY <1>1, <1>2, <2>2
<1>3. CASE MayNotify(after[i], b, w) /\ MayNotify(work[i], b, w)
  <2>1. Q = P BY <1>3 DEF Pending
  <2> QED BY <1>1, <1>3, <2>1
<1>4. CASE ~MayNotify(after[i], b, w) /\ ~MayNotify(work[i], b, w)
  <2>1. Q = P BY <1>4 DEF Pending
  <2> QED BY <1>1, <1>4, <2>1
<1>5. CASE ~MayNotify(after[i], b, w) /\ MayNotify(work[i], b, w)
  <2>1. P = Q \cup {i} /\ i \notin Q BY <1>5 DEF Pending
  <2>2. Cardinality(P) = Cardinality(Q) + 1 BY <1>1, <2>1, FS_AddElement
  <2> QED BY <1>1, <1>5, <2>2
<1> QED BY <1>2, <1>3, <1>4, <1>5

LEMMA CountedInit == Init => Counted
<1> SUFFICES ASSUME Init, NEW b \in Blocks, NEW w \in Wallets
             PROVE  sent[b][w] + Cardinality(Pending(worker, b, w)) <= grants[b]
  BY DEF Counted
<1>1. Idle.at = "idle" BY DEF Idle
<1>2. \A i \in Instances : worker[i] = Idle BY DEF Init
<1>3. Pending(worker, b, w) = {} BY <1>1, <1>2 DEF Pending, MayNotify
<1>4. Cardinality(Pending(worker, b, w)) = 0 BY <1>3, FS_EmptySet
<1>5. sent[b][w] = 0 /\ grants[b] = 0 BY DEF Init
<1> QED BY <1>4, <1>5

LEMMA CountedStep ==
  ASSUME TypedInv, Counted, [Next]_vars
  PROVE  Counted'
<1>0. TypeOK BY DEF TypedInv
<1> SUFFICES ASSUME NEW c \in Blocks, NEW v \in Wallets
             PROVE  sent'[c][v] + Cardinality(Pending(worker', c, v)) <= grants'[c]
  BY DEF Counted, Pending, MayNotify
<1> DEFINE before == Cardinality(Pending(worker, c, v))
           later  == Cardinality(Pending(worker', c, v))
<1>A. /\ before \in Nat /\ later \in Nat /\ sent[c][v] \in Nat /\ grants[c] \in Nat
      /\ sent[c][v] + before <= grants[c]
  BY <1>0, PendingIsFinite DEF Counted, TypeOK
<1>B. ASSUME UNCHANGED <<worker, sent, grants>>
      PROVE  sent'[c][v] + later <= grants'[c]
  BY <1>A, <1>B
<1>C. ASSUME NEW i \in Instances, NEW r, worker' = [worker EXCEPT ![i] = r],
             \/ sent'[c][v] = sent[c][v]
             \/ /\ sent'[c][v] = sent[c][v] + 1
                /\ MayNotify(worker[i], c, v) /\ ~MayNotify(r, c, v),
             \/ grants'[c] = grants[c] /\ (MayNotify(r, c, v) => MayNotify(worker[i], c, v))
             \/ grants'[c] = grants[c] + 1 /\ sent'[c][v] = sent[c][v]
      PROVE  sent'[c][v] + later <= grants'[c]
  <2>1. worker'[i] = r /\ \A j \in Instances : j # i => worker'[j] = worker[j]
    BY <1>0, <1>C DEF TypeOK
  <2>2. /\ later <= before + 1
        /\ (MayNotify(r, c, v) => MayNotify(worker[i], c, v)) => later <= before
        /\ ~MayNotify(r, c, v) /\ MayNotify(worker[i], c, v) => later + 1 = before
    BY <2>1, PendingChanges
  <2> HIDE DEF before, later
  <2> QED BY <1>A, <1>C, <2>2
<1> HIDE DEF before, later
<1>1. CASE \E i \in Instances : NotifyWatchedTransactions(i) \/ Crash(i)
  <2>0. PICK i \in Instances : NotifyWatchedTransactions(i) \/ Crash(i) BY <1>1
  <2>1. InstanceForms(i) BY <2>0, StepForms
  <2>2. CASE \E b \in Blocks : Begin(i, b)
    <3>1. PICK b \in Blocks : Begin(i, b) BY <2>2
    <3>2. ~MayNotify([at |-> "claim", block |-> b, begun |-> now], c, v) BY DEF MayNotify
    <3> QED BY <1>C, <3>1, <3>2 DEF Begin, later
  <2>3. CASE Grants(i)
    <3> DEFINE r == [at |-> "filter", block |-> worker[i].block, begun |-> worker[i].begun,
                     todo |-> {}]
    <3>1. grants'[c] = grants[c] + 1 \/ (grants'[c] = grants[c] /\ worker[i].block # c)
      BY <1>0, <2>3, WorkerKinds DEF Grants, TypeOK
    <3>2. worker[i].block # c => ~MayNotify(r, c, v) BY DEF MayNotify
    <3>3. worker' = [worker EXCEPT ![i] = r] /\ sent' = sent BY <2>3 DEF Grants
    <3> HIDE DEF r
    <3> QED BY <1>C, <3>1, <3>2, <3>3 DEF later
  <2>4. CASE Moves(i)
    <3>1. PICK at \in {"setnx", "find"} : worker' = [worker EXCEPT ![i] = [worker[i] EXCEPT !.at = at]]
      BY <2>4 DEF Moves
    <3>2. [worker[i] EXCEPT !.at = at].at = at BY <2>4 DEF Moves, Claimers
    <3>3. ~MayNotify([worker[i] EXCEPT !.at = at], c, v) BY <3>2 DEF MayNotify
    <3> QED BY <1>C, <2>4, <3>1, <3>3 DEF Moves, later
  <2>5. CASE Ends(i)
    <3>1. ~MayNotify(Idle, c, v) BY DEF MayNotify, Idle
    <3>2. CASE sent' = sent BY <1>C, <2>5, <3>1, <3>2 DEF Ends, later
    <3>3. CASE Arrives(i)
      <4>1. PICK w \in worker[i].todo : sent' = [sent EXCEPT ![worker[i].block][w] = @ + 1]
        BY <3>3 DEF Arrives
      <4>2. worker[i].block \in Blocks /\ w \in Wallets /\ worker[i].at = "notify"
        BY <1>0, <3>3, WorkerKinds DEF Arrives
      <4>3. sent'[c][v] = IF c = worker[i].block /\ v = w THEN sent[c][v] + 1 ELSE sent[c][v]
        BY <1>0, <4>1, <4>2, SentTypes
      <4>4. c = worker[i].block /\ v = w => MayNotify(worker[i], c, v)
        BY <4>1, <4>2 DEF MayNotify
      <4> QED BY <1>C, <2>5, <3>1, <4>3, <4>4 DEF Ends, later
    <3> QED BY <2>5, <3>2, <3>3 DEF Ends
  <2>6. CASE Filter(i)
    <3>1. PICK found : worker' = [worker EXCEPT ![i] = [worker[i] EXCEPT !.at = "notify", !.todo = found]]
      BY <1>0, <2>6 DEF Filter, TypeOK
    <3> DEFINE r == [worker[i] EXCEPT !.at = "notify", !.todo = found]
    <3>2. worker[i] \in Scanners BY <1>0, <2>6, WorkerKinds DEF Filter
    <3>3. r.block = worker[i].block BY <3>2 DEF Scanners
    <3>4. MayNotify(r, c, v) => MayNotify(worker[i], c, v) BY <2>6, <3>3 DEF MayNotify, Filter
    <3> HIDE DEF r
    <3>5. worker' = [worker EXCEPT ![i] = r] BY <3>1 DEF r
    <3> QED BY <1>C, <2>6, <3>4, <3>5 DEF Filter, later
  <2>7. CASE Notify(i)
    <3>1. PICK w \in worker[i].todo :
            /\ worker' = [worker EXCEPT ![i].todo = @ \ {w}]
            /\ sent' = [sent EXCEPT ![worker[i].block][w] = @ + 1]
      BY <2>7 DEF Notify
    <3> DEFINE r == [worker[i] EXCEPT !.todo = @ \ {w}]
    <3>2. worker[i] \in Scanners /\ worker[i].block \in Blocks /\ w \in Wallets
          /\ worker[i].at = "notify"
      BY <1>0, <2>7, WorkerKinds DEF Notify
    <3>3. worker' = [worker EXCEPT ![i] = r] BY <1>0, <3>1 DEF TypeOK
    <3>4. r.block = worker[i].block /\ r.todo = worker[i].todo \ {w} /\ r.at = "notify"
      BY <3>2 DEF Scanners
    <3>5. sent'[c][v] = IF c = worker[i].block /\ v = w THEN sent[c][v] + 1 ELSE sent[c][v]
      BY <1>0, <3>1, <3>2, SentTypes
    <3> HIDE DEF r
    <3>6. MayNotify(r, c, v) => MayNotify(worker[i], c, v) BY <3>2, <3>4 DEF MayNotify
    <3>7. c = worker[i].block /\ v = w => MayNotify(worker[i], c, v) /\ ~MayNotify(r, c, v)
      BY <3>1, <3>2, <3>4 DEF MayNotify
    <3> QED BY <1>C, <2>7, <3>3, <3>5, <3>6, <3>7 DEF Notify, later
  <2> QED BY <2>1, <2>2, <2>3, <2>4, <2>5, <2>6, <2>7 DEF InstanceForms, later
<1>2. CASE \E w \in Wallets : User(w) BY <1>2, <1>B DEF User, later
<1>3. CASE Tick BY <1>3, <1>B DEF Tick, later
<1>4. CASE UNCHANGED vars BY <1>4, <1>B DEF vars, later
<1> QED BY <1>1, <1>2, <1>3, <1>4 DEF Next

\* Whatever fails, dies, expires or loses its reply, and however many instances
\* there are: no wallet is notified of a block more often than it was claimed.
THEOREM AtMostOncePerClaim == Spec => []NotifiedOncePerClaim
<1>1. TypedInv /\ Counted => NotifiedOncePerClaim
  <2> SUFFICES ASSUME TypedInv, Counted, NEW b \in Blocks, NEW w \in Wallets
               PROVE  sent[b][w] <= grants[b]
    BY DEF NotifiedOncePerClaim
  <2>1. /\ Cardinality(Pending(worker, b, w)) \in Nat
        /\ sent[b][w] \in Nat /\ grants[b] \in Nat
        /\ sent[b][w] + Cardinality(Pending(worker, b, w)) <= grants[b]
    BY PendingIsFinite DEF Counted, TypedInv, TypeOK
  <2> QED BY <2>1
<1>2. TypedInv /\ Counted /\ [Next]_vars => Counted' BY CountedStep
<1> QED BY <1>1, <1>2, CountedInit, TypedInvariant, PTL DEF Spec

-----------------------------------------------------------------------------
(* What users are told, and the scans                                       *)

\* All names that users give lead to the key or the rows the pipeline asks for.
NamesAgree ==
  \A engine \in Backends : \A name \in Spellings[engine] :
    IF engine = "postgresql" THEN Upper[name] = PipelineName ELSE name = PipelineName

\* Then the storages keep one set of wallets.
LEMMA OneSetOfWallets ==
  ASSUME NamesAgree, RegistryTypes, NEW w \in Wallets
  PROVE  /\ w \in FilterWatchedWallets(PipelineName, Wallets) <=> <<PipelineName, w>> \in registered
         /\ \A name \in Spellings[backend] :
              /\ RegisterWallet(name, w) = registered \cup {<<PipelineName, w>>}
              /\ UnregisterWallet(name, w) = registered \ {<<PipelineName, w>>}
<1>1. Upper[PipelineName] = PipelineName BY NamesAssumption
<1>2. w \in FilterWatchedWallets(PipelineName, Wallets) <=> <<PipelineName, w>> \in registered
  BY <1>1 DEF FilterWatchedWallets, FilterMonitoredWallets, SMIsMember
<1>3. ASSUME NEW name \in Spellings[backend]
      PROVE  /\ RegisterWallet(name, w) = registered \cup {<<PipelineName, w>>}
             /\ UnregisterWallet(name, w) = registered \ {<<PipelineName, w>>}
  <2>1. backend \in Backends BY DEF RegistryTypes
  <2>2. CASE backend = "postgresql"
    <3>1. Upper[name] = PipelineName BY <2>1, <2>2 DEF NamesAgree
    <3> QED
      BY <1>1, <2>2, <3>1
      DEF RegisterWallet, UnregisterWallet, InsertMonitoredWallet, DeleteMonitoredWallet
  <2>3. CASE backend # "postgresql"
    <3>1. name = PipelineName BY <2>1, <2>3 DEF NamesAgree
    <3> QED BY <2>3, <3>1 DEF RegisterWallet, UnregisterWallet, SAdd, SRem
  <2> QED BY <2>2, <2>3
<1> QED BY <1>2, <1>3

\* AnswersHold, in terms of that set.
Answered ==
  \A w \in Wallets :
    /\ told[w] = "watched" => <<PipelineName, w>> \in registered
    /\ told[w] = "unwatched" => <<PipelineName, w>> \notin registered

LEMMA AnsweredHolds ==
  ASSUME NamesAgree, RegistryTypes
  PROVE  Answered <=> AnswersHold
<1>1. \A w \in Wallets :
        w \in FilterWatchedWallets(PipelineName, Wallets) <=> <<PipelineName, w>> \in registered
  BY OneSetOfWallets
<1> QED BY <1>1 DEF Answered, AnswersHold

LEMMA CommandAnswered ==
  ASSUME NamesAgree, RegistryTypes, Answered, NEW w \in Wallets, WalletCommand(w)
  PROVE  Answered' /\ \A v \in Wallets \ {w} : told'[v] = told[v]
<1> DEFINE this == <<PipelineName, w>>
<1>1. PICK name \in Spellings[backend] :
        StartWatching(name, w) \/ StopWatching(name, w) \/ CommandFails(name, w)
  BY DEF WalletCommand
<1>2. /\ RegisterWallet(name, w) = registered \cup {this}
      /\ UnregisterWallet(name, w) = registered \ {this}
  BY OneSetOfWallets
<1>3. told \in [Wallets -> {"watched", "unwatched", "unknown"}] BY DEF RegistryTypes
<1>4. ASSUME NEW answer, NEW after \in {registered, registered \cup {this}, registered \ {this}},
             Command(w, answer, after),
             answer = "watched" => this \in after, answer = "unwatched" => this \notin after
      PROVE  Answered' /\ \A v \in Wallets \ {w} : told'[v] = told[v]
  <2>1. /\ registered' = after /\ told'[w] = answer
        /\ \A v \in Wallets \ {w} : told'[v] = told[v]
    BY <1>3, <1>4 DEF Command
  <2>2. \A v \in Wallets \ {w} : <<PipelineName, v>> \in after <=> <<PipelineName, v>> \in registered
    BY <1>4
  <2> QED BY <1>4, <2>1, <2>2 DEF Answered
<1> HIDE DEF this
<1>5. CASE StartWatching(name, w) BY <1>2, <1>4, <1>5 DEF StartWatching
<1>6. CASE StopWatching(name, w) BY <1>2, <1>4, <1>6 DEF StopWatching
<1>7. CASE CommandFails(name, w)
  <2>1. PICK after \in {registered, RegisterWallet(name, w), UnregisterWallet(name, w)} :
          Command(w, "unknown", after)
    BY <1>7 DEF CommandFails
  <2> QED BY <1>2, <1>4, <2>1
<1> QED BY <1>1, <1>5, <1>6, <1>7

\* Each wallet that counts for a scan has been notified or will be, and none
\* whose user was told that it is no longer watched.
Owed ==
  \A i \in Instances : worker[i].at = "notify" =>
    \A w \in steady[i] :
      told[w] = "watched" => w \in worker[i].todo \/ sent[worker[i].block][w] > 0

ScanInv == Answered /\ Owed /\ StoppedIsNotNotified

LEMMA ScanInit == Init => ScanInv
<1> SUFFICES ASSUME Init PROVE ScanInv
  OBVIOUS
<1>1. Answered BY DEF Init, RegistryInit, Answered
<1>2. \A i \in Instances : worker[i].at = "idle" BY DEF Init, Idle
<1>3. Owed /\ StoppedIsNotNotified BY <1>2 DEF Owed, StoppedIsNotNotified
<1> QED BY <1>1, <1>3 DEF ScanInv

LEMMA SentGrows ==
  ASSUME TypedInv, NEW i \in Instances, Notify(i) \/ Ends(i)
  PROVE  \A b \in Blocks : \A w \in Wallets : sent[b][w] > 0 => sent'[b][w] > 0
<1>0. TypeOK BY DEF TypedInv
<1>1. CASE sent' = sent BY <1>1
<1>2. CASE worker[i] \in Scanners /\ worker[i].at = "notify"
           /\ \E w \in worker[i].todo : sent' = [sent EXCEPT ![worker[i].block][w] = @ + 1]
  <2>1. PICK w \in worker[i].todo : sent' = [sent EXCEPT ![worker[i].block][w] = @ + 1]
    BY <1>2
  <2>2. worker[i].block \in Blocks /\ w \in Wallets BY <1>0, <1>2, WorkerKinds
  <2>3. \A c \in Blocks : \A v \in Wallets :
          sent[c][v] \in Nat /\ (sent'[c][v] = sent[c][v] \/ sent'[c][v] = sent[c][v] + 1)
    BY <1>0, <2>1, <2>2, SentTypes DEF TypeOK
  <2> QED BY <2>3
<1> QED BY <1>0, <1>1, <1>2, WorkerKinds DEF Notify, Ends, Arrives

LEMMA ScanStep ==
  ASSUME NamesAgree, TypedInv, ScanInv, [Next]_vars
  PROVE  ScanInv'
<1>0. TypeOK /\ RegistryTypes /\ Answered /\ Owed /\ StoppedIsNotNotified
  BY DEF TypedInv, TypeOK, ScanInv
<1>W. \A j \in Instances : worker[j].at = "notify" =>
        worker[j].block \in Blocks /\ worker[j].todo \subseteq Wallets
  BY <1>0, WorkerKinds
<1>S. \A j \in Instances : steady[j] \subseteq Wallets BY <1>0 DEF TypeOK
<1>A. ASSUME UNCHANGED <<registered, told, worker, steady, sent>>
      PROVE  ScanInv'
  BY <1>0, <1>A DEF ScanInv, Answered, Owed, StoppedIsNotNotified
<1>B. ASSUME NEW i \in Instances, UNCHANGED <<registered, told>>,
             \A j \in Instances : j # i => worker'[j] = worker[j] /\ steady'[j] = steady[j],
             \A b \in Blocks : \A w \in Wallets : sent[b][w] > 0 => sent'[b][w] > 0,
             worker'[i].at = "notify" =>
               \A w \in steady'[i] :
                 /\ told[w] = "watched" => w \in worker'[i].todo \/ sent'[worker'[i].block][w] > 0
                 /\ told[w] = "unwatched" => w \notin worker'[i].todo
      PROVE  ScanInv'
  <2>1. Answered' BY <1>0, <1>B DEF Answered
  <2>2. Owed'
    <3> SUFFICES ASSUME NEW j \in Instances, worker'[j].at = "notify",
                        NEW w \in steady'[j], told[w] = "watched"
                 PROVE  w \in worker'[j].todo \/ sent'[worker'[j].block][w] > 0
      BY <1>B DEF Owed
    <3>1. CASE j = i BY <1>B, <3>1
    <3>2. CASE j # i
      <4>1. worker'[j] = worker[j] /\ w \in steady[j] BY <1>B, <3>2
      <4>2. w \in worker[j].todo \/ sent[worker[j].block][w] > 0 BY <1>0, <4>1 DEF Owed
      <4>3. w \in Wallets /\ worker[j].block \in Blocks BY <1>S, <1>W, <4>1
      <4> QED BY <1>B, <4>1, <4>2, <4>3
    <3> QED BY <3>1, <3>2
  <2>3. StoppedIsNotNotified'
    <3> SUFFICES ASSUME NEW j \in Instances, worker'[j].at = "notify",
                        NEW w \in steady'[j], told[w] = "unwatched"
                 PROVE  w \notin worker'[j].todo
      BY <1>B DEF StoppedIsNotNotified
    <3>1. CASE j = i BY <1>B, <3>1
    <3>2. CASE j # i BY <1>0, <1>B, <3>2 DEF StoppedIsNotNotified
    <3> QED BY <3>1, <3>2
  <2> QED BY <2>1, <2>2, <2>3 DEF ScanInv
<1>C. ASSUME NEW i \in Instances, NEW r, worker' = [worker EXCEPT ![i] = r], r.at # "notify",
             \/ UNCHANGED steady
             \/ \E S : steady' = [steady EXCEPT ![i] = S],
             UNCHANGED <<registered, told>>,
             \A b \in Blocks : \A w \in Wallets : sent[b][w] > 0 => sent'[b][w] > 0
      PROVE  ScanInv'
  <2>1. /\ worker'[i] = r
        /\ \A j \in Instances : j # i => worker'[j] = worker[j] /\ steady'[j] = steady[j]
    BY <1>0, <1>C DEF TypeOK
  <2> QED BY <1>B, <1>C, <2>1
<1>1. CASE \E i \in Instances : NotifyWatchedTransactions(i) \/ Crash(i)
  <2>0. PICK i \in Instances : NotifyWatchedTransactions(i) \/ Crash(i) BY <1>1
  <2>1. InstanceForms(i) BY <2>0, StepForms
  <2>2. CASE \E b \in Blocks : Begin(i, b)
    <3>1. PICK b \in Blocks : Begin(i, b) BY <2>2
    <3> DEFINE r == [at |-> "claim", block |-> b, begun |-> now]
    <3>2. /\ worker' = [worker EXCEPT ![i] = r] /\ steady' = [steady EXCEPT ![i] = Wallets]
          /\ UNCHANGED <<registered, told, sent>>
      BY <3>1 DEF Begin, registry
    <3>3. r.at # "notify" OBVIOUS
    <3> HIDE DEF r
    <3> QED BY <1>C, <3>2, <3>3
  <2>3. CASE Grants(i)
    <3> DEFINE r == [at |-> "filter", block |-> worker[i].block, begun |-> worker[i].begun,
                     todo |-> {}]
    <3>1. worker' = [worker EXCEPT ![i] = r] /\ UNCHANGED <<registered, told, steady, sent>>
      BY <2>3 DEF Grants
    <3>2. r.at # "notify" OBVIOUS
    <3> HIDE DEF r
    <3> QED BY <1>C, <3>1, <3>2
  <2>4. CASE Moves(i)
    <3>1. PICK at \in {"setnx", "find"} : worker' = [worker EXCEPT ![i] = [worker[i] EXCEPT !.at = at]]
      BY <2>4 DEF Moves
    <3>2. [worker[i] EXCEPT !.at = at].at = at BY <2>4 DEF Moves, Claimers
    <3> QED BY <1>C, <2>4, <3>1, <3>2 DEF Moves
  <2>5. CASE Ends(i)
    <3>1. \A b \in Blocks : \A w \in Wallets : sent[b][w] > 0 => sent'[b][w] > 0
      BY <2>5, SentGrows
    <3>2. Idle.at # "notify" BY DEF Idle
    <3> QED BY <1>C, <2>5, <3>1, <3>2 DEF Ends
  <2>6. CASE Filter(i)
    <3> DEFINE found == FilterWatchedWallets(PipelineName, Wallets)
    <3>1. \A w \in Wallets : w \in found <=> <<PipelineName, w>> \in registered
      BY <1>0, OneSetOfWallets
    <3>2. worker' = [worker EXCEPT ![i] = [worker[i] EXCEPT !.at = "notify", !.todo = found]]
      BY <1>0, <2>6 DEF Filter, TypeOK
    <3>3. worker[i] \in Scanners BY <1>0, <2>6, WorkerKinds DEF Filter
    <3> HIDE DEF found
    <3>4. worker'[i].todo = found /\ worker'[i].block = worker[i].block
          /\ \A j \in Instances : j # i => worker'[j] = worker[j]
      BY <1>0, <3>2, <3>3 DEF TypeOK, Scanners
    <3>5. \A w \in steady[i] : /\ told[w] = "watched" => w \in found
                               /\ told[w] = "unwatched" => w \notin found
      BY <1>0, <1>S, <3>1 DEF Answered
    <3>6. UNCHANGED <<registered, told, steady, sent>> BY <2>6 DEF Filter, registry
    <3>7. ASSUME NEW w \in steady'[i]
          PROVE  /\ told[w] = "watched" => w \in worker'[i].todo \/ sent'[worker'[i].block][w] > 0
                 /\ told[w] = "unwatched" => w \notin worker'[i].todo
      <4>1. w \in steady[i] /\ worker'[i].todo = found BY <3>4, <3>6
      <4>2. told[w] = "watched" => w \in worker'[i].todo BY <3>5, <4>1
      <4>3. told[w] = "unwatched" => w \notin worker'[i].todo BY <3>5, <4>1
      <4> QED BY <4>2, <4>3
    <3>8. \A j \in Instances : j # i => worker'[j] = worker[j] /\ steady'[j] = steady[j]
      BY <3>4, <3>6
    <3>9. \A b \in Blocks : \A w \in Wallets : sent[b][w] > 0 => sent'[b][w] > 0
      BY <3>6
    <3> QED BY <1>B, <3>6, <3>7, <3>8, <3>9
  <2>7. CASE Notify(i)
    <3>1. PICK w \in worker[i].todo :
            /\ worker' = [worker EXCEPT ![i].todo = @ \ {w}]
            /\ sent' = [sent EXCEPT ![worker[i].block][w] = @ + 1]
      BY <2>7 DEF Notify
    <3>2. worker[i] \in Scanners /\ worker[i].at = "notify" /\ worker[i].block \in Blocks
          /\ w \in Wallets
      BY <1>0, <2>7, WorkerKinds DEF Notify
    <3>3. worker'[i] = [worker[i] EXCEPT !.todo = @ \ {w}]
          /\ \A j \in Instances : j # i => worker'[j] = worker[j]
      BY <1>0, <3>1 DEF TypeOK
    <3>4. worker'[i].todo = worker[i].todo \ {w} /\ worker'[i].block = worker[i].block
      BY <3>2, <3>3 DEF Scanners
    <3>5. \A b \in Blocks : \A v \in Wallets : sent[b][v] > 0 => sent'[b][v] > 0
      BY <2>7, SentGrows
    <3>6. sent'[worker[i].block][w] > 0
      <4>1. sent[worker[i].block][w] \in Nat BY <1>0, <3>2 DEF TypeOK
      <4>2. sent'[worker[i].block][w] = sent[worker[i].block][w] + 1
        BY <1>0, <3>1, <3>2, SentTypes
      <4> QED BY <4>1, <4>2
    <3>7. ASSUME NEW v \in steady[i]
          PROVE  /\ told[v] = "watched" => v \in worker'[i].todo \/ sent'[worker'[i].block][v] > 0
                 /\ told[v] = "unwatched" => v \notin worker'[i].todo
      <4>1. v \in Wallets BY <1>S
      <4>2. /\ told[v] = "watched" => v \in worker[i].todo \/ sent[worker[i].block][v] > 0
            /\ told[v] = "unwatched" => v \notin worker[i].todo
        BY <1>0, <3>2 DEF Owed, StoppedIsNotNotified
      <4> QED BY <3>2, <3>4, <3>5, <3>6, <4>1, <4>2
    <3> QED BY <1>B, <2>7, <3>3, <3>5, <3>7 DEF Notify, registry
  <2> QED BY <2>1, <2>2, <2>3, <2>4, <2>5, <2>6, <2>7 DEF InstanceForms
<1>2. CASE \E w \in Wallets : User(w)
  <2>1. PICK w \in Wallets : User(w) BY <1>2
  <2>2. Answered' /\ \A v \in Wallets \ {w} : told'[v] = told[v]
    BY <1>0, <2>1, CommandAnswered DEF User
  <2>3. \A j \in Instances : steady'[j] = steady[j] \ {w} BY <2>1 DEF User
  <2>4. UNCHANGED <<worker, sent>> BY <2>1 DEF User
  <2>5. Owed' BY <1>0, <1>S, <2>2, <2>3, <2>4 DEF Owed
  <2>6. StoppedIsNotNotified' BY <1>0, <1>S, <2>2, <2>3, <2>4 DEF StoppedIsNotNotified
  <2> QED BY <2>2, <2>5, <2>6 DEF ScanInv
<1>3. CASE Tick BY <1>3, <1>A DEF Tick, registry
<1>4. CASE UNCHANGED vars BY <1>4, <1>A DEF vars, registry
<1> QED BY <1>1, <1>2, <1>3, <1>4 DEF Next

LEMMA ScanInvariant == ASSUME NamesAgree PROVE Spec => []ScanInv
<1>1. TypedInv /\ ScanInv /\ [Next]_vars => ScanInv' BY ScanStep
<1> QED BY <1>1, ScanInit, TypedInvariant, PTL DEF Spec

\* What the commands tell users is what the pipeline finds in the storage, in
\* any order of any number of commands, when all of them spell the network in a
\* way that leads to the pipeline's key.
THEOREM AnswersAreTrue == ASSUME NamesAgree PROVE Spec => []AnswersHold
<1>1. TypedInv /\ ScanInv => AnswersHold
  BY AnsweredHolds DEF ScanInv, TypedInv, TypeOK
<1> QED BY <1>1, ScanInvariant, TypedInvariant, PTL

\* No scan that begins after the answer to an unwatch notifies that wallet.
THEOREM NoneAfterStop == ASSUME NamesAgree PROVE Spec => []StoppedIsNotNotified
<1>1. ScanInv => StoppedIsNotNotified BY DEF ScanInv
<1> QED BY <1>1, ScanInvariant, PTL

\* The only step that makes a block complete is the end of a scan of it.
LEMMA CompletedByScan ==
  ASSUME TypedInv, [Next]_vars, NEW b \in Blocks,
         entry[b].state # "done", entry'[b].state = "done"
  PROVE  \E i \in Instances : Completes(i) /\ worker[i].block = b
<1>0. TypeOK BY DEF TypedInv
<1>1. entry' # entry OBVIOUS
<1>2. PICK i \in Instances : NotifyWatchedTransactions(i) \/ Crash(i)
  <2>1. \A w \in Wallets : ~User(w) BY <1>1 DEF User
  <2>2. ~Tick BY <1>1 DEF Tick
  <2>3. ~UNCHANGED vars BY <1>1 DEF vars
  <2> QED BY <2>1, <2>2, <2>3 DEF Next
<1>3. InstanceForms(i) BY <1>2, StepForms
<1>4. ASSUME worker[i].block \in Blocks, Claims(i) PROVE FALSE
  <2>1. PICK until \in LeaseTimes :
          entry' = [entry EXCEPT ![worker[i].block] = [state |-> "claimed", until |-> until]]
    BY <1>4 DEF Claims
  <2> QED BY <1>0, <1>4, <2>1 DEF TypeOK
<1>5. ~Grants(i)
  <2>1. worker[i] \in Claimers => worker[i].block \in Blocks BY <1>0, WorkerKinds
  <2> QED BY <1>1, <1>4, <2>1 DEF Grants
<1>6. Ends(i)
  <2>1. \A c \in Blocks : ~Begin(i, c) BY <1>1 DEF Begin
  <2>2. ~Moves(i) /\ ~Filter(i) /\ ~Notify(i) BY <1>1 DEF Moves, Filter, Notify
  <2> QED BY <1>3, <1>5, <2>1, <2>2 DEF InstanceForms
<1>7. Completes(i)
  <2>1. worker[i] \in Claimers => worker[i].block \in Blocks BY <1>0, WorkerKinds
  <2> QED BY <1>1, <1>4, <1>6, <2>1 DEF Ends
<1>8. worker[i].block = b
  <2>1. worker[i].block \in Blocks BY <1>0, <1>7, WorkerKinds DEF Completes
  <2>2. entry' = [entry EXCEPT ![worker[i].block].state = "done"] BY <1>7 DEF Completes
  <2> QED BY <1>0, <2>1, <2>2 DEF TypeOK
<1> QED BY <1>7, <1>8

\* A block is complete only when every wallet that was watched throughout a scan
\* of it has been notified, whatever failed and whoever else was at work.
THEOREM CompleteIsNotified == ASSUME NamesAgree PROVE Spec => CompleteMeansNotified
<1>1. ASSUME TypedInv, ScanInv, [Next]_vars, NEW b \in Blocks,
             entry[b].state # "done", entry'[b].state = "done"
      PROVE  \E i \in Instances :
               /\ worker[i].at = "notify" /\ worker[i].block = b
               /\ \A w \in steady[i] : told[w] = "watched" => sent[b][w] > 0
  <2>1. PICK i \in Instances : Completes(i) /\ worker[i].block = b
    BY <1>1, CompletedByScan
  <2>2. worker[i].at = "notify" /\ worker[i].todo = {} BY <2>1 DEF Completes
  <2>3. \A w \in steady[i] : told[w] = "watched" => sent[b][w] > 0
    BY <1>1, <2>1, <2>2 DEF ScanInv, Owed
  <2> QED BY <2>1, <2>2, <2>3
<1>2. TypedInv /\ ScanInv /\ [Next]_vars =>
        [\A b \in Blocks :
           entry[b].state # "done" /\ entry'[b].state = "done" =>
             \E i \in Instances :
               /\ worker[i].at = "notify" /\ worker[i].block = b
               /\ \A w \in steady[i] : told[w] = "watched" => sent[b][w] > 0]_vars
  BY <1>1
<1> QED BY <1>2, ScanInvariant, TypedInvariant, PTL DEF Spec, CompleteMeansNotified

-----------------------------------------------------------------------------
(* The guards                                                               *)

\* Instance i began its claim so long ago that it may have lapsed.
Expired(i) == worker[i].begun + TTL - MaxSkew <= now

\* A block that is scanned has been claimed, and for as long as the claim was
\* granted for, unless that time is over.
HoldsLease ==
  backend # "nop" =>
    \A i \in Instances : Scanning(i) =>
      /\ entry[worker[i].block].state # "none"
      /\ worker[i].begun + TTL - MaxSkew <= entry[worker[i].block].until \/ Expired(i)

\* OverlapNeedsExpiry, with a name for what it asks of each pair.
Apart ==
  backend # "nop" =>
    \A i, j \in Instances :
      i # j /\ Scanning(i) /\ Scanning(j) /\ worker[i].block = worker[j].block
        => Expired(i) \/ Expired(j)

\* No claim was made that no claim was asked for.
FreshEntries ==
  \A b \in Blocks : entry[b].until \in LeaseTimes /\ (entry[b].state = "none" => entry[b].until = 0)

LeaseInv == HoldsLease /\ Apart /\ FreshEntries

LEMMA LeaseInit == Init => LeaseInv
<1> SUFFICES ASSUME Init PROVE LeaseInv
  OBVIOUS
<1>1. \A i \in Instances : ~Scanning(i) BY DEF Init, Idle, Scanning
<1>2. 0 \in LeaseTimes BY TimeAssumption DEF LeaseTimes
<1>3. FreshEntries BY <1>2 DEF Init, FreshEntries
<1> QED BY <1>1, <1>3 DEF LeaseInv, HoldsLease, Apart

\* What becomes of the entries, and what it says of those who are scanning.
LEMMA EntryStep ==
  ASSUME TypedInv, LeaseInv, NEW k \in Instances, worker[k].block \in Blocks,
         entry' = entry \/ Claims(k) \/ Completes(k)
  PROVE  /\ FreshEntries'
         /\ backend # "nop" =>
              \A i \in Instances : Scanning(i) =>
                /\ entry'[worker[i].block].state # "none"
                /\ worker[i].begun + TTL - MaxSkew <= entry'[worker[i].block].until \/ Expired(i)
                /\ Claims(k) /\ worker[i].block = worker[k].block => Expired(i)
<1>0. TypeOK /\ HoldsLease /\ FreshEntries BY DEF TypedInv, LeaseInv
<1> DEFINE b == worker[k].block
<1>1. ASSUME NEW i \in Instances, Scanning(i)
      PROVE  /\ worker[i].block \in Blocks /\ worker[i].begun \in Nat
             /\ entry[worker[i].block].state \in {"none", "claimed", "done"}
             /\ entry[worker[i].block].until \in Int
  <2>1. worker[i].block \in Blocks /\ worker[i].begun \in Nat
    BY <1>0, <1>1, WorkerKinds DEF Scanning
  <2>2. entry[worker[i].block] \in Entry BY <1>0, <2>1 DEF TypeOK
  <2> QED BY <2>1, <2>2 DEF Entry
<1>N. now \in Nat /\ TTL \in Nat /\ MaxSkew \in Nat BY <1>0, TimeAssumption DEF TypeOK
<1>2. CASE entry' = entry /\ ~Claims(k)
  <2>1. FreshEntries' BY <1>0, <1>2 DEF FreshEntries
  <2> QED BY <1>0, <1>2, <2>1 DEF HoldsLease
<1>3. CASE Claims(k)
  <2>1. PICK until \in LeaseTimes :
          entry' = [entry EXCEPT ![b] = [state |-> "claimed", until |-> until]]
    BY <1>3 DEF Claims
  <2>2. \A c \in Blocks : entry'[c] = IF c = b THEN [state |-> "claimed", until |-> until] ELSE entry[c]
    BY <1>0, <2>1 DEF TypeOK
  <2>3. FreshEntries' BY <1>0, <2>2 DEF FreshEntries
  <2>4. ASSUME backend # "nop", NEW i \in Instances, Scanning(i), worker[i].block = b
        PROVE  Expired(i)
    <3>1. entry[b].state = "claimed" /\ entry[b].until <= now
      BY <1>0, <1>3, <2>4 DEF Claims, HoldsLease
    <3>2. worker[i].begun + TTL - MaxSkew <= entry[b].until \/ Expired(i)
      BY <1>0, <2>4 DEF HoldsLease
    <3>3. worker[i].begun \in Nat /\ entry[b].until \in Int BY <1>1, <2>4
    <3> QED BY <1>N, <3>1, <3>2, <3>3 DEF Expired
  <2>5. ASSUME backend # "nop", NEW i \in Instances, Scanning(i), worker[i].block # b
        PROVE  /\ entry'[worker[i].block].state # "none"
               /\ worker[i].begun + TTL - MaxSkew <= entry'[worker[i].block].until \/ Expired(i)
    <3>1. entry'[worker[i].block] = entry[worker[i].block] BY <1>1, <2>2, <2>5
    <3> QED BY <1>0, <2>5, <3>1 DEF HoldsLease
  <2>6. entry'[b].state = "claimed" BY <2>2
  <2> QED BY <2>3, <2>4, <2>5, <2>6
<1>4. CASE Completes(k)
  <2>1. \A c \in Blocks : entry'[c] = IF c = b THEN [entry[b] EXCEPT !.state = "done"] ELSE entry[c]
    BY <1>0, <1>4 DEF TypeOK, Completes
  <2>2. entry[b] \in Entry BY <1>0 DEF TypeOK
  <2>3. entry'[b].state = "done" /\ entry'[b].until = entry[b].until BY <2>1, <2>2 DEF Entry
  <2>4. FreshEntries' BY <1>0, <2>1, <2>3 DEF FreshEntries
  <2>5. ~Claims(k)
    <3>1. ASSUME Claims(k) PROVE FALSE
      <4>1. PICK until \in LeaseTimes :
              entry' = [entry EXCEPT ![b] = [state |-> "claimed", until |-> until]]
        BY <3>1 DEF Claims
      <4>2. entry'[b].state = "claimed" BY <1>0, <4>1 DEF TypeOK
      <4> QED BY <2>3, <4>2
    <3> QED BY <3>1
  <2>6. ASSUME backend # "nop", NEW i \in Instances, Scanning(i)
        PROVE  /\ entry'[worker[i].block].state # "none"
               /\ worker[i].begun + TTL - MaxSkew <= entry'[worker[i].block].until \/ Expired(i)
    <3>1. /\ entry[worker[i].block].state # "none"
          /\ worker[i].begun + TTL - MaxSkew <= entry[worker[i].block].until \/ Expired(i)
      BY <1>0, <2>6 DEF HoldsLease
    <3>2. entry'[worker[i].block].until = entry[worker[i].block].until
          /\ entry'[worker[i].block].state \in {"done", entry[worker[i].block].state}
      BY <1>1, <2>1, <2>3, <2>6
    <3> QED BY <3>1, <3>2
  <2> QED BY <2>4, <2>5, <2>6
<1> QED BY <1>2, <1>3, <1>4

LEMMA LeaseStep ==
  ASSUME TypedInv, LeaseInv, [Next]_vars
  PROVE  LeaseInv'
<1>0. TypeOK /\ HoldsLease /\ Apart /\ FreshEntries BY DEF TypedInv, LeaseInv
<1>K. \A i \in Instances : Scanning(i) => worker[i] \in Scanners BY <1>0, WorkerKinds DEF Scanning
<1>A. ASSUME UNCHANGED <<backend, now, worker, entry>>
      PROVE  LeaseInv'
  BY <1>0, <1>A DEF LeaseInv, HoldsLease, Apart, FreshEntries, Expired, Scanning
\* The instances that scan afterwards were scanning the same block before.
<1>B. ASSUME NEW k \in Instances, worker[k].block \in Blocks \/ entry' = entry,
             entry' = entry \/ Claims(k) \/ Completes(k), UNCHANGED <<backend, now>>,
             \A i \in Instances : worker'[i].at \in {"filter", "notify"} =>
               Scanning(i) /\ worker'[i].block = worker[i].block /\ worker'[i].begun = worker[i].begun
      PROVE  LeaseInv'
  <2>1. FreshEntries'
    <3>1. CASE entry' = entry BY <1>0, <3>1 DEF FreshEntries
    <3>2. CASE worker[k].block \in Blocks BY <1>B, <3>2, EntryStep
    <3> QED BY <1>B, <3>1, <3>2
  <2>2. HoldsLease'
    <3> SUFFICES ASSUME backend # "nop", NEW i \in Instances,
                        worker'[i].at \in {"filter", "notify"}
                 PROVE  /\ entry'[worker'[i].block].state # "none"
                        /\ \/ worker'[i].begun + TTL - MaxSkew <= entry'[worker'[i].block].until
                           \/ worker'[i].begun + TTL - MaxSkew <= now
      BY <1>B DEF HoldsLease, Scanning, Expired
    <3>1. Scanning(i) /\ worker'[i].block = worker[i].block /\ worker'[i].begun = worker[i].begun
      BY <1>B
    <3>2. CASE entry' = entry BY <1>0, <3>1, <3>2 DEF HoldsLease, Expired
    <3>3. CASE worker[k].block \in Blocks
      <4>1. /\ entry'[worker[i].block].state # "none"
            /\ worker[i].begun + TTL - MaxSkew <= entry'[worker[i].block].until \/ Expired(i)
        BY <1>B, <3>1, <3>3, EntryStep
      <4> QED BY <3>1, <4>1 DEF Expired
    <3> QED BY <1>B, <3>2, <3>3
  <2>3. Apart' BY <1>0, <1>B DEF Apart, Scanning, Expired
  <2> QED BY <2>1, <2>2, <2>3 DEF LeaseInv
<1>1. CASE \E i \in Instances : NotifyWatchedTransactions(i) \/ Crash(i)
  <2>0. PICK k \in Instances : NotifyWatchedTransactions(k) \/ Crash(k) BY <1>1
  <2>1. InstanceForms(k) BY <2>0, StepForms
  <2>2. CASE \E b \in Blocks : Begin(k, b)
    <3>1. PICK b \in Blocks : Begin(k, b) BY <2>2
    <3>2. \A i \in Instances : worker'[i].at \in {"filter", "notify"} => worker'[i] = worker[i]
      BY <1>0, <3>1 DEF Begin, TypeOK
    <3> QED BY <1>B, <3>1, <3>2 DEF Begin, Scanning
  <2>3. CASE Moves(k)
    <3>1. PICK at \in {"setnx", "find"} : worker' = [worker EXCEPT ![k] = [worker[k] EXCEPT !.at = at]]
      BY <2>3 DEF Moves
    <3>2. [worker[k] EXCEPT !.at = at].at = at BY <2>3 DEF Moves, Claimers
    <3>3. \A i \in Instances : worker'[i].at \in {"filter", "notify"} => worker'[i] = worker[i]
      BY <1>0, <3>1, <3>2 DEF TypeOK
    <3> QED BY <1>B, <2>3, <3>3 DEF Moves, Scanning
  <2>4. CASE Ends(k)
    <3>1. \A i \in Instances : worker'[i].at \in {"filter", "notify"} => worker'[i] = worker[i]
      BY <1>0, <2>4 DEF Ends, Idle, TypeOK
    <3>2. worker[k].block \in Blocks \/ entry' = entry
      BY <1>0, <2>4, WorkerKinds DEF Ends, Completes
    <3> QED BY <1>B, <2>4, <3>1, <3>2 DEF Ends, Scanning
  <2>5. CASE Filter(k)
    <3>1. PICK found : worker' = [worker EXCEPT ![k] = [worker[k] EXCEPT !.at = "notify", !.todo = found]]
      BY <1>0, <2>5 DEF Filter, TypeOK
    <3>2. Scanning(k) BY <2>5 DEF Filter, Scanning
    <3>3. worker'[k].block = worker[k].block /\ worker'[k].begun = worker[k].begun
      BY <1>0, <1>K, <3>1, <3>2 DEF TypeOK, Scanners
    <3>4. \A i \in Instances : i # k => worker'[i] = worker[i] BY <1>0, <3>1 DEF TypeOK
    <3>5. ASSUME NEW i \in Instances, worker'[i].at \in {"filter", "notify"}
          PROVE  Scanning(i) /\ worker'[i].block = worker[i].block /\ worker'[i].begun = worker[i].begun
      BY <3>2, <3>3, <3>4, <3>5 DEF Scanning
    <3> QED BY <1>B, <2>5, <3>5 DEF Filter
  <2>6. CASE Notify(k)
    <3>1. PICK w : worker' = [worker EXCEPT ![k] = [worker[k] EXCEPT !.todo = @ \ {w}]]
      BY <1>0, <2>6 DEF Notify, TypeOK
    <3>2. Scanning(k) BY <2>6 DEF Notify, Scanning
    <3>3. worker'[k].block = worker[k].block /\ worker'[k].begun = worker[k].begun
      BY <1>0, <1>K, <3>1, <3>2 DEF TypeOK, Scanners
    <3>4. \A i \in Instances : i # k => worker'[i] = worker[i] BY <1>0, <3>1 DEF TypeOK
    <3>5. ASSUME NEW i \in Instances, worker'[i].at \in {"filter", "notify"}
          PROVE  Scanning(i) /\ worker'[i].block = worker[i].block /\ worker'[i].begun = worker[i].begun
      BY <3>2, <3>3, <3>4, <3>5 DEF Scanning
    <3> QED BY <1>B, <2>6, <3>5 DEF Notify
  <2>7. CASE Grants(k)
    <3> DEFINE b == worker[k].block
    <3>1. b \in Blocks /\ worker[k].begun \in Nat BY <1>0, <2>7, WorkerKinds DEF Grants
    <3>2. /\ worker'[k].at = "filter" /\ worker'[k].block = b /\ worker'[k].begun = worker[k].begun
          /\ \A i \in Instances : i # k => worker'[i] = worker[i]
      BY <1>0, <2>7 DEF Grants, TypeOK
    <3>3. ~Scanning(k) BY <1>0, <2>7, WorkerKinds DEF Grants, Scanning
    <3>4. UNCHANGED <<backend, now>> BY <2>7 DEF Grants
    <3>5. entry' = entry \/ Claims(k) BY <2>7 DEF Grants
    <3>6. FreshEntries' BY <3>1, <3>5, EntryStep
    <3>7. ASSUME backend # "nop"
          PROVE  /\ entry'[b].state # "none" /\ worker[k].begun + TTL - MaxSkew <= entry'[b].until
                 /\ \A i \in Instances : Scanning(i) =>
                      /\ entry'[worker[i].block].state # "none"
                      /\ worker[i].begun + TTL - MaxSkew <= entry'[worker[i].block].until \/ Expired(i)
                      /\ worker[i].block = b => Expired(i)
      <4>1. Claims(k) BY <2>7, <3>7 DEF Grants
      <4>2. PICK until \in LeaseTimes :
              /\ worker[k].begun + TTL - MaxSkew <= until
              /\ entry' = [entry EXCEPT ![b] = [state |-> "claimed", until |-> until]]
        BY <4>1 DEF Claims
      <4>3. entry'[b] = [state |-> "claimed", until |-> until] BY <1>0, <3>1, <4>2 DEF TypeOK
      <4> QED BY <3>1, <3>7, <4>1, <4>2, <4>3, EntryStep
    <3> HIDE DEF b
    <3>8. HoldsLease'
      <4> SUFFICES ASSUME backend # "nop", NEW i \in Instances,
                          worker'[i].at \in {"filter", "notify"}
                   PROVE  /\ entry'[worker'[i].block].state # "none"
                          /\ \/ worker'[i].begun + TTL - MaxSkew <= entry'[worker'[i].block].until
                             \/ worker'[i].begun + TTL - MaxSkew <= now
        BY <3>4 DEF HoldsLease, Scanning, Expired
      <4>1. CASE i = k BY <3>2, <3>7, <4>1
      <4>2. CASE i # k BY <3>2, <3>7, <4>2 DEF Scanning, Expired
      <4> QED BY <4>1, <4>2
    <3>9. Apart'
      <4> SUFFICES ASSUME backend # "nop", NEW i \in Instances, NEW j \in Instances, i # j,
                          worker'[i].at \in {"filter", "notify"},
                          worker'[j].at \in {"filter", "notify"},
                          worker'[i].block = worker'[j].block
                   PROVE  \/ worker'[i].begun + TTL - MaxSkew <= now
                          \/ worker'[j].begun + TTL - MaxSkew <= now
        BY <3>4 DEF Apart, Scanning, Expired
      <4>1. CASE i = k BY <3>2, <3>7, <4>1 DEF Scanning, Expired
      <4>2. CASE j = k BY <3>2, <3>7, <4>2 DEF Scanning, Expired
      <4>3. CASE i # k /\ j # k BY <1>0, <3>2, <4>3 DEF Apart, Scanning, Expired
      <4> QED BY <4>1, <4>2, <4>3
    <3> QED BY <3>6, <3>8, <3>9 DEF LeaseInv
  <2> QED BY <2>1, <2>2, <2>3, <2>4, <2>5, <2>6, <2>7 DEF InstanceForms
<1>2. CASE \E w \in Wallets : User(w)
  <2>1. UNCHANGED <<backend, now, worker, entry>>
    BY <1>2 DEF User, WalletCommand, StartWatching, StopWatching, CommandFails, Command
  <2> QED BY <1>A, <2>1
<1>3. CASE Tick
  <2>1. now' = now + 1 /\ now \in Nat /\ UNCHANGED <<backend, worker, entry>>
    BY <1>0, <1>3 DEF Tick, TypeOK
  <2>2. ASSUME NEW i \in Instances, Scanning(i), Expired(i) PROVE Expired(i)'
    <3>1. worker[i].begun \in Nat /\ TTL \in Nat /\ MaxSkew \in Nat
      BY <1>0, <2>2, WorkerKinds, TimeAssumption DEF Scanning
    <3> QED BY <2>1, <2>2, <3>1 DEF Expired
  <2>3. HoldsLease' BY <1>0, <2>1, <2>2 DEF HoldsLease, Scanning
  <2>4. Apart' BY <1>0, <2>1, <2>2 DEF Apart, Scanning
  <2>5. FreshEntries' BY <1>0, <2>1 DEF FreshEntries
  <2> QED BY <2>3, <2>4, <2>5 DEF LeaseInv
<1>4. CASE UNCHANGED vars BY <1>4, <1>A DEF vars
<1> QED BY <1>1, <1>2, <1>3, <1>4 DEF Next

LEMMA LeaseInvariant == Spec => []LeaseInv
<1>1. TypedInv /\ LeaseInv /\ [Next]_vars => LeaseInv' BY LeaseStep
<1> QED BY <1>1, LeaseInit, TypedInvariant, PTL DEF Spec

\* With either storage two instances scan a block at the same time only when a
\* claim has run out, whatever their clocks say within MaxSkew.
THEOREM OverlapsOnlyAfterExpiry == Spec => []OverlapNeedsExpiry
<1>1. LeaseInv => OverlapNeedsExpiry
  BY DEF LeaseInv, Apart, OverlapNeedsExpiry, Expired
<1> QED BY <1>1, LeaseInvariant, PTL

LEMMA GuardInit == Init => Guard!Init
<1> SUFFICES ASSUME Init PROVE Guard!Init
  OBVIOUS
<1>1. 0 \in -MaxSkew..(MaxTime + MaxSkew + TTL) BY TimeAssumption
<1>2. now = 0 /\ \A b \in Blocks : entry[b].until = 0 /\ entry[b].state = "none"
  BY DEF Init
<1>3. {b \in Blocks : entry[b].state = "done"} = {} BY <1>2
<1>4. [b \in Blocks |-> entry[b].until] = [b \in Blocks |-> 0] BY <1>2
<1> QED BY <1>1, <1>2, <1>3, <1>4 DEF Guard!Init

LEMMA GuardStep ==
  ASSUME TypedInv, LeaseInv, [Next]_vars
  PROVE  [Guard!Next]_(Guard!vars)
<1>0. TypeOK /\ FreshEntries BY DEF TypedInv, LeaseInv
<1> DEFINE lease == [b \in Blocks |-> entry[b].until]
           complete == {b \in Blocks : entry[b].state = "done"}
<1>A. ASSUME UNCHANGED <<now, entry>> PROVE UNCHANGED Guard!vars
  BY <1>A DEF Guard!vars
<1>B. ASSUME NEW k \in Instances, worker[k].block \in Blocks, Claims(k), UNCHANGED now
      PROVE  Guard!Next
  <2> DEFINE mine == worker[k].block
  <2>1. PICK until \in LeaseTimes :
          entry' = [entry EXCEPT ![mine] = [state |-> "claimed", until |-> until]]
    BY <1>B DEF Claims
  <2>2. \A c \in Blocks : entry'[c] = IF c = mine THEN [state |-> "claimed", until |-> until] ELSE entry[c]
    BY <1>0, <2>1 DEF TypeOK
  <2>3. entry[mine].state # "done" /\ entry[mine].until <= now
    <3>1. now \in Nat BY <1>0 DEF TypeOK
    <3>2. CASE entry[mine].state = "none" BY <1>0, <1>B, <3>1, <3>2 DEF FreshEntries
    <3>3. CASE entry[mine].state = "claimed" /\ entry[mine].until <= now BY <3>3
    <3> QED BY <1>B, <3>2, <3>3 DEF Claims
  <2>4. until \in -MaxSkew..(MaxTime + MaxSkew + TTL) BY DEF LeaseTimes
  <2>5. lease' = [lease EXCEPT ![mine] = until]
    <3>1. \A c \in Blocks : entry'[c].until = IF c = mine THEN until ELSE entry[c].until
      BY <2>2
    <3> QED BY <3>1
  <2>6. complete' = complete BY <2>2, <2>3
  <2>7. mine \notin complete /\ lease[mine] <= now BY <1>B, <2>3
  <2>8. mine \in Blocks BY <1>B
  <2> HIDE DEF mine
  <2>9. Guard!Claim(mine) BY <1>B, <2>4, <2>5, <2>6, <2>7 DEF Guard!Claim
  <2> QED BY <2>8, <2>9 DEF Guard!Next, Guard!Claim
<1>C. ASSUME NEW k \in Instances, Completes(k), UNCHANGED now
      PROVE  Guard!Next
  <2> DEFINE mine == worker[k].block
  <2>1. mine \in Blocks BY <1>0, <1>C, WorkerKinds DEF Completes
  <2>2. \A c \in Blocks : entry'[c] = IF c = mine THEN [entry[mine] EXCEPT !.state = "done"] ELSE entry[c]
    BY <1>0, <1>C DEF Completes, TypeOK
  <2>3. entry[mine] \in Entry BY <1>0, <2>1 DEF TypeOK
  <2>4. entry'[mine].state = "done" /\ entry'[mine].until = entry[mine].until BY <2>1, <2>2, <2>3 DEF Entry
  <2> HIDE DEF mine
  <2>5. complete' = complete \cup {mine} BY <2>1, <2>2, <2>4
  <2>6. lease' = lease BY <2>1, <2>2, <2>4
  <2>7. Guard!MarkComplete(mine) BY <1>C, <2>5, <2>6 DEF Guard!MarkComplete
  <2> QED BY <2>1, <2>7 DEF Guard!Next, Guard!MarkComplete
<1>1. CASE \E i \in Instances : NotifyWatchedTransactions(i) \/ Crash(i)
  <2>0. PICK k \in Instances : NotifyWatchedTransactions(k) \/ Crash(k) BY <1>1
  <2>1. InstanceForms(k) BY <2>0, StepForms
  <2>2. worker[k] \in Claimers => worker[k].block \in Blocks BY <1>0, WorkerKinds
  <2>3. UNCHANGED now /\ (entry' = entry \/ (worker[k] \in Claimers /\ Claims(k)) \/ Completes(k))
    BY <2>1 DEF InstanceForms, Begin, Grants, Moves, Ends, Filter, Notify
  <2> QED BY <1>A, <1>B, <1>C, <2>2, <2>3
<1>2. CASE \E w \in Wallets : User(w) BY <1>2, <1>A DEF User
<1>3. CASE Tick
  <2>1. Guard!Tick BY <1>3 DEF Tick, Guard!Tick
  <2> QED BY <2>1 DEF Guard!Next
<1>4. CASE UNCHANGED vars BY <1>4, <1>A DEF vars
<1> QED BY <1>1, <1>2, <1>3, <1>4 DEF Next

\* The guards of both storages are the guard that walletwatch asks for: one live
\* claim at a time, and none once the block is complete.
THEOREM GuardIsClaimGuard == Spec => ImplementsGuard
<1>1. TypedInv /\ LeaseInv /\ [Next]_vars => [Guard!Next]_(Guard!vars) BY GuardStep
<1> QED BY <1>1, GuardInit, LeaseInvariant, TypedInvariant, PTL DEF Spec, ImplementsGuard, Guard!Spec
=============================================================================
