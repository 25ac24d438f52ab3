------------------------------- MODULE Registry -------------------------------
(***************************************************************************)
(* internal/walletregistry and the wallet storages behind it               *)
(* (internal/infra/storage): the wallets registered for one network, as    *)
(* the commands watch and unwatch change them and the pipeline reads them. *)
(* Redis keeps a set per network under the name as it is given, PostgreSQL *)
(* a row per network and address with the name in upper case.              *)
(***************************************************************************)
EXTENDS Naturals

CONSTANTS
  Wallets,      \* addresses
  Backends,     \* storages to consider: subset of {"redis", "postgresql", "nop"}
  Upper,        \* strings.ToUpper, over the spellings of the network's name
  Spellings,    \* per backend: the spellings users give
  PipelineName, \* the spelling the pipeline knows the network by
  MaxCommands   \* bound: commands of users

ASSUME BackendsAssumption == Backends \subseteq {"redis", "postgresql", "nop"}
ASSUME NamesAssumption ==
  /\ Upper \in [DOMAIN Upper -> DOMAIN Upper]
  /\ \A name \in DOMAIN Upper : Upper[Upper[name]] = Upper[name]
  /\ PipelineName \in DOMAIN Upper /\ Upper[PipelineName] = PipelineName
  /\ Spellings \in [Backends -> SUBSET DOMAIN Upper]
ASSUME CommandsAssumption == MaxCommands \in Nat

VARIABLES
  backend,      \* which storage this behaviour is about; never changes
  registered,   \* <<key of the network, address>>: members of the sets, or rows
  told,         \* history, per wallet: what its user knows from the last command
  commands      \* commands so far

registry == <<registered, told, commands>>

-----------------------------------------------------------------------------
(* Redis: the members of the set wallet:storage:{network}                   *)

SAdd(name, w) == registered \cup {<<name, w>>}
SRem(name, w) == registered \ {<<name, w>>}
SMIsMember(name, addresses) == {w \in addresses : <<name, w>> \in registered}

(* PostgreSQL: the rows of monitored_wallets.  The statements, and a trigger, *)
(* put the network in upper case, and so does the adapter before them.      *)

InsertMonitoredWallet(network, w) == registered \cup {<<Upper[network], w>>}
DeleteMonitoredWallet(network, w) == registered \ {<<Upper[network], w>>}
FilterMonitoredWallets(network, addresses) ==
  {w \in addresses : <<Upper[network], w>> \in registered}

\* With "nop", which is about the idempotency guard, the wallets are in Redis.
RegisterWallet(name, w) ==
  IF backend = "postgresql" THEN InsertMonitoredWallet(Upper[name], w) ELSE SAdd(name, w)
UnregisterWallet(name, w) ==
  IF backend = "postgresql" THEN DeleteMonitoredWallet(Upper[name], w) ELSE SRem(name, w)
FilterWatchedWallets(name, addresses) ==
  IF backend = "postgresql" THEN FilterMonitoredWallets(Upper[name], addresses)
  ELSE SMIsMember(name, addresses)

-----------------------------------------------------------------------------
\* A command about w, after which the storage holds after.  An empty name or
\* address is rejected before the storage is asked, and changes nothing.
Command(w, answer, after) ==
  /\ commands < MaxCommands /\ commands' = commands + 1
  /\ registered' = after
  /\ told' = [told EXCEPT ![w] = answer]
  /\ UNCHANGED backend

\* ErrWalletAlreadyRegistered tells the user the same as success,
StartWatching(name, w) == Command(w, "watched", RegisterWallet(name, w))

\* and so does ErrWalletNotFound.
StopWatching(name, w) == Command(w, "unwatched", UnregisterWallet(name, w))

\* Mutant: every error of the INSERT counts as a unique violation.
AnyErrorIsAlreadyRegistered(name, w) == Command(w, "watched", registered)

\* The storage fails, or its reply is lost after it did what it was asked.
CommandFails(name, w) ==
  \E after \in {registered, RegisterWallet(name, w), UnregisterWallet(name, w)} :
    Command(w, "unknown", after)

WalletCommand(w) ==
  \E name \in Spellings[backend] :
    StartWatching(name, w) \/ StopWatching(name, w) \/ CommandFails(name, w)

\* Some wallets were registered before, under the pipeline's name.
RegistryInit ==
  /\ backend \in Backends /\ commands = 0
  /\ \E before \in SUBSET Wallets :
       /\ registered = {<<PipelineName, w>> : w \in before}
       /\ told = [w \in Wallets |-> IF w \in before THEN "watched" ELSE "unwatched"]

RegistryTypes ==
  /\ backend \in Backends /\ commands \in Nat
  /\ registered \subseteq (DOMAIN Upper) \X Wallets
  /\ told \in [Wallets -> {"watched", "unwatched", "unknown"}]

\* What a user was told of a wallet is what the pipeline finds, through any
\* sequence of commands, whichever spelling each of them used.
AnswersHold ==
  \A w \in Wallets :
    LET found == FilterWatchedWallets(PipelineName, Wallets)
    IN (told[w] = "watched" => w \in found) /\ (told[w] = "unwatched" => w \notin found)
=============================================================================
