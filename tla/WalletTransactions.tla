-------------------------- MODULE WalletTransactions --------------------------
(***************************************************************************)
(* From the block a node answered with to the transactions each watched    *)
(* wallet is told of: the conversion of a block by the Ethereum and Solana *)
(* clients (internal/infra/blockchain), the copy made by blockproc, and    *)
(* notifyWatchedWalletTransactions of internal/walletwatch, step by step,  *)
(* down to the messages its notifier publishes (internal/infra/messaging). *)
(***************************************************************************)
EXTENDS Integers, SequencesExt

CONSTANTS
  Wallets,         \* addresses that occur in the blocks
  NoOne,           \* the empty recipient of a contract creation
  Formats,         \* subset of {"ethereum", "solana"}
  MaxTransactions, \* bound on the transactions of a block
  MaxInstructions  \* bound on the instructions of a Solana transaction

ASSUME SetsAssumption ==
  NoOne \notin Wallets /\ Formats \subseteq {"ethereum", "solana"}
ASSUME BoundAssumption == MaxTransactions \in Nat /\ MaxInstructions \in Nat

\* The transactions of a block have hashes of their own: the i-th has hash i.
Hashes    == 1..MaxTransactions
Addresses == Wallets \cup {NoOne}

\* A Transaction as chainstream and walletwatch know it.
Transaction == [hash : Hashes, from : Addresses, to : Addresses]

\* What a node answers.  Ethereum: one sender and one recipient each.
EthereumBlocks == BoundedSeq([from : Wallets, to : Addresses], MaxTransactions)

\* Solana: a transaction may lack signatures; an instruction is a transfer, or
\* anything else (another type, or not parsed).
Transfers == [type : {"transfer"}, source : Wallets, destination : Wallets]
Others    == [type : {"other"}]
SolanaBlocks ==
  BoundedSeq([signed : BOOLEAN, instructions : BoundedSeq(Transfers \cup Others, MaxInstructions)],
             MaxTransactions)

VARIABLES
  format,               \* which client fetched the block; never changes
  block,                \* the node's answer; never changes
  at,                   \* where the conversion or notifyWatchedWalletTransactions is
  place, instruction,   \* indices of the loops of the conversion
  txs,                  \* the transactions of the block, as converted so far
  next,                 \* index of the loop over txs
  walletsSet, transactionsMap, transactionsByWallet,
  watchedWallets,       \* answer of FilterWatchedWallets
  turns,                \* per watched wallet: hashes its loop still has to visit
  matchingTxsByWallet,
  unsent,               \* wallets the loop over the result has still to visit
  stream                \* messages in the stream or at the exchange

conversion == <<place, instruction, txs>>
index      == <<next, walletsSet, transactionsMap, transactionsByWallet>>
result     == <<watchedWallets, turns, matchingTxsByWallet, unsent, stream>>
vars       == <<format, block, at, conversion, index, result>>

-----------------------------------------------------------------------------
(* The clients' conversions, one turn of a loop at a time                   *)

\* Mutant: sender and recipient change places.
SwappedTransaction(i) == [hash |-> i, from |-> block[i].to, to |-> block[i].from]

ToWatcherTransaction(i) == [hash |-> i, from |-> block[i].from, to |-> block[i].to]

\* Ethereum: one transaction.
ToWatcherBlock ==
  /\ at = "convert" /\ format = "ethereum" /\ place \in DOMAIN block
  /\ txs' = Append(txs, ToWatcherTransaction(place))
  /\ place' = place + 1
  /\ UNCHANGED <<format, block, at, instruction, index, result>>

Transfer(i, x) == [hash |-> i, from |-> x.source, to |-> x.destination]

\* Mutant: an unsigned transaction is not left out.
UnsignedTransactions ==
  /\ at = "convert" /\ format = "solana" /\ place \in DOMAIN block
  /\ instruction \in DOMAIN block[place].instructions
  /\ LET x == block[place].instructions[instruction]
     IN txs' = IF x.type = "transfer" THEN Append(txs, Transfer(place, x)) ELSE txs
  /\ instruction' = instruction + 1
  /\ UNCHANGED <<format, block, at, place, index, result>>

\* Solana: one instruction of a signed transaction.  Each transfer becomes an
\* entry of its own, under the first signature.
ToStreamTransactions ==
  /\ at = "convert" /\ format = "solana" /\ place \in DOMAIN block
  /\ block[place].signed /\ instruction \in DOMAIN block[place].instructions
  /\ LET x == block[place].instructions[instruction]
     IN txs' = IF x.type = "transfer" THEN Append(txs, Transfer(place, x)) ELSE txs
  /\ instruction' = instruction + 1
  /\ UNCHANGED <<format, block, at, place, index, result>>

\* The transaction has no signature, or no further instruction.
ToStreamBlock ==
  /\ at = "convert" /\ format = "solana" /\ place \in DOMAIN block
  /\ block[place].signed => instruction \notin DOMAIN block[place].instructions
  /\ place' = place + 1 /\ instruction' = 1
  /\ UNCHANGED <<format, block, at, txs, index, result>>

\* The block is complete, and goes through blockproc to walletwatch.
Converted ==
  /\ at = "convert" /\ place \notin DOMAIN block /\ at' = "index"
  /\ UNCHANGED <<format, block, conversion, index, result>>

-----------------------------------------------------------------------------
(* getTransactionsByWallet                                                  *)

\* DefaultMap: a key that is missing has the default.
Get(map, key, default) == IF key \in DOMAIN map THEN map[key] ELSE default

\* An assignment to a key of a map.
Put(map, key, value) ==
  [k \in DOMAIN map \cup {key} |-> IF k = key THEN value ELSE map[k]]

\* Mutant: the wallets are collected under the hash.
IndexHash ==
  /\ at = "index" /\ next <= Len(txs)
  /\ LET tx == txs[next]
         Adding(map, w) == Put(map, w, Get(map, w, {}) \cup {tx.hash})
     IN /\ walletsSet' = walletsSet \cup {tx.from, tx.hash}
        /\ transactionsMap' = Put(transactionsMap, tx.hash, tx)
        /\ transactionsByWallet' = Adding(Adding(transactionsByWallet, tx.from), tx.to)
  /\ next' = next + 1
  /\ UNCHANGED <<format, block, at, conversion, result>>

\* One turn of the loop over txs; an entry with a known hash replaces the one
\* before it in transactionsMap.
Index ==
  /\ at = "index" /\ next <= Len(txs)
  /\ LET tx == txs[next]
         Adding(map, w) == Put(map, w, Get(map, w, {}) \cup {tx.hash})
     IN /\ walletsSet' = walletsSet \cup {tx.from, tx.to}
        /\ transactionsMap' = Put(transactionsMap, tx.hash, tx)
        /\ transactionsByWallet' = Adding(Adding(transactionsByWallet, tx.from), tx.to)
  /\ next' = next + 1
  /\ UNCHANGED <<format, block, at, conversion, result>>

\* FilterWatchedWallets: the storage keeps those that are registered.
FilterWatchedWallets ==
  /\ at = "index" /\ next > Len(txs)
  /\ \E registered \in SUBSET Wallets :
       /\ watchedWallets' = walletsSet \cap registered
       /\ turns' = [w \in walletsSet \cap registered |-> Get(transactionsByWallet, w, {})]
  /\ at' = "match"
  /\ UNCHANGED <<format, block, conversion, index, matchingTxsByWallet, unsent, stream>>

\* It fails, and the whole call with it.
FilterFails ==
  /\ at = "index" /\ next > Len(txs)
  /\ at' = "failed"
  /\ UNCHANGED <<format, block, conversion, index, result>>

\* One turn of the loops over watchedWallets and over a wallet's hashes.  A set
\* is visited in any order; so, for the result, are the wallets.
Match ==
  /\ at = "match"
  /\ \E w \in watchedWallets : \E hash \in turns[w] :
       /\ turns' = [turns EXCEPT ![w] = @ \ {hash}]
       /\ matchingTxsByWallet' =
            Put(matchingTxsByWallet, w,
                Append(Get(matchingTxsByWallet, w, <<>>), transactionsMap[hash]))
  /\ UNCHANGED <<format, block, at, conversion, index, watchedWallets, unsent, stream>>

Return ==
  /\ at = "match" /\ \A w \in watchedWallets : turns[w] = {}
  /\ at' = "notify" /\ unsent' = DOMAIN matchingTxsByWallet
  /\ UNCHANGED <<format, block, conversion, index, watchedWallets, turns,
                 matchingTxsByWallet, stream>>

-----------------------------------------------------------------------------
(* notifyWatchedWalletTransactions and the notifiers                        *)

\* makeNotifyTransactionsMessage: each transaction keeps its hash and addresses.
Message(w) == [wallet |-> w, transactions |-> matchingTxsByWallet[w]]

\* NotifyTransactions publishes one message per wallet, in the random order of a
\* Go map.
NotifyTransactions ==
  /\ at = "notify"
  /\ \E w \in unsent :
       unsent' = unsent \ {w} /\ stream' = Append(stream, Message(w))
  /\ UNCHANGED <<format, block, at, conversion, index, watchedWallets, turns,
                 matchingTxsByWallet>>

\* Publishing fails, and ends the loop; the message may have arrived.
NotifyFails ==
  /\ at = "notify" /\ at' = "failed"
  /\ \E w \in unsent : stream' \in {stream, Append(stream, Message(w))}
  /\ UNCHANGED <<format, block, conversion, index, watchedWallets, turns,
                 matchingTxsByWallet, unsent>>

AllNotified ==
  /\ at = "notify" /\ unsent = {} /\ at' = "returned"
  /\ UNCHANGED <<format, block, conversion, index, result>>

-----------------------------------------------------------------------------
Init ==
  /\ format \in Formats
  /\ block \in IF format = "ethereum" THEN EthereumBlocks ELSE SolanaBlocks
  /\ at = "convert" /\ place = 1 /\ instruction = 1 /\ txs = <<>>
  /\ next = 1
  /\ walletsSet = {} /\ transactionsMap = <<>> /\ transactionsByWallet = <<>>
  /\ watchedWallets = {} /\ turns = <<>> /\ matchingTxsByWallet = <<>>
  /\ unsent = {} /\ stream = <<>>

Conversion == ToWatcherBlock \/ ToStreamTransactions \/ ToStreamBlock \/ Converted

GetTransactionsByWallet == Index \/ FilterWatchedWallets \/ FilterFails \/ Match \/ Return

NotifyWatchedWalletTransactions ==
  GetTransactionsByWallet \/ NotifyTransactions \/ NotifyFails \/ AllNotified

Next == Conversion \/ NotifyWatchedWalletTransactions

Spec == Init /\ [][Next]_vars

-----------------------------------------------------------------------------
(* Properties                                                               *)

TypeOK ==
  /\ at \in {"convert", "index", "match", "notify", "returned", "failed"}
  /\ place \in 1..(Len(block) + 1) /\ instruction \in 1..(MaxInstructions + 1)
  /\ txs \in Seq(Transaction) /\ next \in 1..(Len(txs) + 1)
  /\ walletsSet \subseteq Addresses
  /\ DOMAIN transactionsMap \subseteq Hashes
  /\ \A hash \in DOMAIN transactionsMap : transactionsMap[hash] \in Transaction
  /\ transactionsByWallet \in [walletsSet -> SUBSET Hashes]
  /\ watchedWallets \subseteq Wallets /\ turns \in [watchedWallets -> SUBSET Hashes]
  /\ unsent \subseteq DOMAIN matchingTxsByWallet
  /\ DOMAIN matchingTxsByWallet \subseteq watchedWallets
  /\ \A w \in DOMAIN matchingTxsByWallet : matchingTxsByWallet[w] \in Seq(Transaction)
  /\ stream \in Seq([wallet : Wallets, transactions : Seq(Transaction)])

\* The movements of the node's answer, as it states them.
MovementsOf(i) ==
  IF format = "ethereum" THEN {[hash |-> i, from |-> block[i].from, to |-> block[i].to]}
  ELSE {[hash |-> i, from |-> x.source, to |-> x.destination] :
          x \in {y \in Range(block[i].instructions) : block[i].signed /\ y.type = "transfer"}}

Movements == UNION {MovementsOf(i) : i \in DOMAIN block}

Involving(w) == {m \in Movements : w \in {m.from, m.to}}

\* A call gets at most one message to a wallet, and only to a watched one, even
\* when it fails half way.  When it succeeds each watched wallet has been sent
\* the hash of every transaction of the block that moves something from or to
\* it, once each, a transfer to itself included, and under it a movement the
\* node stated.  On Solana that may be another movement of the same hash.
OncePerHash ==
  /\ \A j, k \in DOMAIN stream : j # k => stream[j].wallet # stream[k].wallet
  /\ \A k \in DOMAIN stream :
       LET w == stream[k].wallet
           hashes == [j \in DOMAIN stream[k].transactions |-> stream[k].transactions[j].hash]
       IN /\ w \in watchedWallets /\ IsInjective(hashes)
          /\ Range(stream[k].transactions) \subseteq Movements
          /\ Range(hashes) = {m.hash : m \in Involving(w)}
  /\ at = "returned" =>
       watchedWallets \subseteq {stream[k].wallet : k \in DOMAIN stream}

\* On Ethereum, where a hash has one movement, a message holds exactly the
\* movements its wallet takes part in.
ExactOnEthereum ==
  format = "ethereum" =>
    \A k \in DOMAIN stream : Range(stream[k].transactions) = Involving(stream[k].wallet)

-----------------------------------------------------------------------------
(* What the documentation says and the code does not do                     *)

\* walletwatch/wallet.go: each watched wallet is associated with the full
\* transaction objects it was involved in.
FullTransactions ==
  \A k \in DOMAIN stream : Range(stream[k].transactions) = Involving(stream[k].wallet)
=============================================================================
