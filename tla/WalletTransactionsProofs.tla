----------------------- MODULE WalletTransactionsProofs -----------------------
(***************************************************************************)
(* Theorems about WalletTransactions, for blocks of either client with any *)
(* number of transactions and instructions between any wallets.            *)
(***************************************************************************)
EXTENDS WalletTransactions, TLAPS

-----------------------------------------------------------------------------
(* The invariant                                                            *)

\* The node's answer, in the form of its client.
TheAnswer ==
  /\ format \in {"ethereum", "solana"} /\ Len(block) <= MaxTransactions
  /\ format = "ethereum" => block \in Seq([from : Wallets, to : Addresses])
  /\ format = "solana" =>
       /\ block \in Seq([signed : BOOLEAN, instructions : Seq(Transfers \cup Others)])
       /\ \A i \in DOMAIN block : Len(block[i].instructions) <= MaxInstructions

\* The movements in the first k instructions of a Solana transaction.
Stated(i, k) ==
  {Transfer(i, block[i].instructions[j]) :
     j \in {l \in 1..k : block[i].signed /\ block[i].instructions[l].type = "transfer"}}

\* Of the transaction that is being converted.
Begun ==
  IF format = "solana" /\ place \in DOMAIN block THEN Stated(place, instruction - 1) ELSE {}

\* The movements of the first k transactions.
Visited(k) == UNION {MovementsOf(i) : i \in 1..k}

\* The entries converted so far are the movements visited so far.
ConversionHolds ==
  /\ txs \in Seq(Transaction)
  /\ place \in 1..(Len(block) + 1) /\ instruction \in 1..(MaxInstructions + 1)
  /\ format = "solana" /\ place \in DOMAIN block =>
       instruction \in 1..(Len(block[place].instructions) + 1)
  /\ Range(txs) = Visited(place - 1) \cup Begun

\* The hashes that lead to the wallet, of the entries indexed so far.
Indexed(w) ==
  {txs[k].hash : k \in {j \in 1..(next - 1) : w \in {txs[j].from, txs[j].to}}}

\* The maps hold what the loop over txs has visited; of the entries with one hash
\* transactionsMap has one.
MapsHold ==
  /\ next \in 1..(Len(txs) + 1)
  /\ walletsSet = {w \in Addresses : Indexed(w) # {}}
  /\ DOMAIN transactionsMap = {txs[k].hash : k \in 1..(next - 1)}
  /\ \A hash \in DOMAIN transactionsMap :
       transactionsMap[hash] \in Range(txs) /\ transactionsMap[hash].hash = hash
  /\ transactionsByWallet = [w \in walletsSet |-> Indexed(w)]

Matched(w) == Get(matchingTxsByWallet, w, <<>>)

\* What a watched wallet's loop has appended and what it still has to visit are
\* its hashes, each once.
MatchesOf(w) ==
  /\ Matched(w) \in Seq(Transaction)
  /\ \A k \in DOMAIN Matched(w) :
       Matched(w)[k] \in Range(txs) /\ Matched(w)[k].hash \in Indexed(w) \ turns[w]
  /\ \A j, k \in DOMAIN Matched(w) : Matched(w)[j].hash = Matched(w)[k].hash => j = k
  /\ turns[w] \subseteq Indexed(w)
  /\ \A hash \in Indexed(w) \ turns[w] : \E k \in DOMAIN Matched(w) : Matched(w)[k].hash = hash
MatchesHold ==
  /\ watchedWallets \subseteq walletsSet \cap Wallets
  /\ turns = [w \in watchedWallets |-> turns[w]]
  /\ DOMAIN matchingTxsByWallet \subseteq watchedWallets
  /\ \A w \in watchedWallets : MatchesOf(w)

\* The messages are those of wallets the loop over the result has visited.
MessagesHold ==
  /\ unsent \subseteq DOMAIN matchingTxsByWallet
  /\ stream \in Seq([wallet : Wallets, transactions : Seq(Transaction)])
  /\ \A k \in DOMAIN stream :
       stream[k].wallet \in DOMAIN matchingTxsByWallet /\ stream[k] = Message(stream[k].wallet)
  /\ \A j, k \in DOMAIN stream : stream[j].wallet = stream[k].wallet => j = k
  /\ at \in {"notify", "returned"} =>
       \A w \in DOMAIN matchingTxsByWallet :
         w \in unsent <=> ~(\E k \in DOMAIN stream : stream[k].wallet = w)

\* What each place of the call has behind it.
StagesHold ==
  /\ at \in {"convert", "index", "match", "notify", "returned", "failed"}
  /\ at # "convert" => place = Len(block) + 1
  /\ at = "convert" => next = 1
  /\ at \notin {"convert", "index"} => next = Len(txs) + 1
  /\ at \in {"convert", "index"} => watchedWallets = {}
  /\ at \in {"convert", "index", "match"} => stream = <<>> /\ unsent = {}
  /\ at \in {"notify", "returned"} => \A w \in watchedWallets : turns[w] = {}
  /\ stream # <<>> => \A w \in watchedWallets : turns[w] = {}
  /\ at = "returned" => unsent = {}

TransactionsInv ==
  TheAnswer /\ ConversionHolds /\ MapsHold /\ MatchesHold /\ MessagesHold /\ StagesHold

-----------------------------------------------------------------------------
(* Sequences                                                                *)

\* What a sequence is as a function, and back.
LEMMA Sequence ==
  ASSUME NEW S
  PROVE  /\ \A s \in Seq(S) : /\ Len(s) \in Nat /\ DOMAIN s = 1..Len(s)
                              /\ \A i \in 1..Len(s) : s[i] \in S
         /\ \A m \in Nat : \A s \in [1..m -> S] : s \in Seq(S) /\ Len(s) = m
OBVIOUS

\* What an append does to a sequence.
LEMMA Appended ==
  ASSUME NEW S, NEW s \in Seq(S), NEW x \in S, NEW new, new = Append(s, x)
  PROVE  /\ Len(s) \in Nat /\ DOMAIN s = 1..Len(s) /\ DOMAIN new = 1..(Len(s) + 1)
         /\ new \in Seq(S) /\ new[Len(s) + 1] = x
         /\ \A k \in 1..Len(s) : new[k] = s[k]
OBVIOUS

\* And to what is in it.
LEMMA AppendedRange ==
  ASSUME NEW S, NEW s \in Seq(S), NEW x \in S
  PROVE  Range(Append(s, x)) = Range(s) \cup {x}
<1> PICK new : new = Append(s, x) OBVIOUS
<1>1. /\ Len(s) \in Nat /\ DOMAIN s = 1..Len(s) /\ DOMAIN new = 1..(Len(s) + 1)
      /\ new[Len(s) + 1] = x
      /\ \A k \in 1..Len(s) : new[k] = s[k]
  BY Appended
<1>2. 1..(Len(s) + 1) = 1..Len(s) \cup {Len(s) + 1} BY <1>1
<1> QED BY <1>1, <1>2 DEF Range

\* A bounded sequence is a sequence.
LEMMA Bounded ==
  ASSUME NEW S, NEW m \in Nat, NEW s \in BoundedSeq(S, m)
  PROVE  s \in Seq(S) /\ Len(s) <= m
<1>1. PICK n \in 0..m : s \in [1..n -> S] BY DEF BoundedSeq, SeqOf
<1>2. n \in Nat /\ n <= m BY <1>1
<1> QED BY <1>1, <1>2, Sequence

-----------------------------------------------------------------------------
(* The node's answer and the conversion                                     *)

\* The places of a block, and what is at them.
LEMMA Places ==
  ASSUME TheAnswer
  PROVE  /\ Len(block) \in Nat /\ DOMAIN block = 1..Len(block) /\ 1..Len(block) \subseteq Hashes
         /\ format = "ethereum" => \A i \in DOMAIN block : block[i] \in [from : Wallets, to : Addresses]
         /\ format = "solana" =>
              \A i \in DOMAIN block :
                /\ block[i].signed \in BOOLEAN
                /\ block[i].instructions \in Seq(Transfers \cup Others)
                /\ Len(block[i].instructions) \in Nat
                /\ Len(block[i].instructions) <= MaxInstructions
                /\ DOMAIN block[i].instructions = 1..Len(block[i].instructions)
<1>n. \A n \in Nat : n <= MaxTransactions => 1..n \subseteq Hashes
  BY BoundAssumption DEF Hashes
<1>1. CASE format = "ethereum"
  <2>1. block \in Seq([from : Wallets, to : Addresses]) /\ Len(block) <= MaxTransactions
    BY <1>1 DEF TheAnswer
  <2>2. /\ Len(block) \in Nat /\ DOMAIN block = 1..Len(block)
        /\ \A i \in DOMAIN block : block[i] \in [from : Wallets, to : Addresses]
    BY <2>1, Sequence
  <2> QED BY <1>1, <1>n, <2>1, <2>2
<1>2. CASE format = "solana"
  <2>1. block \in Seq([signed : BOOLEAN, instructions : Seq(Transfers \cup Others)])
    BY <1>2 DEF TheAnswer
  <2>2. /\ Len(block) \in Nat /\ DOMAIN block = 1..Len(block)
        /\ \A i \in DOMAIN block :
             block[i] \in [signed : BOOLEAN, instructions : Seq(Transfers \cup Others)]
    BY <2>1, Sequence
  <2>4. 1..Len(block) \subseteq Hashes BY <1>n, <2>2 DEF TheAnswer
  <2>3. ASSUME NEW i \in DOMAIN block
        PROVE  /\ block[i].signed \in BOOLEAN
               /\ block[i].instructions \in Seq(Transfers \cup Others)
               /\ Len(block[i].instructions) \in Nat
               /\ Len(block[i].instructions) <= MaxInstructions
               /\ DOMAIN block[i].instructions = 1..Len(block[i].instructions)
    BY <1>2, <2>2, Sequence DEF TheAnswer
  <2> QED BY <1>2, <2>2, <2>3, <2>4
<1> QED BY <1>1, <1>2 DEF TheAnswer

\* A transaction of an Ethereum block moves one thing.
LEMMA EthereumMovement ==
  ASSUME TheAnswer, format = "ethereum", NEW i \in DOMAIN block
  PROVE  /\ MovementsOf(i) = {ToWatcherTransaction(i)}
         /\ ToWatcherTransaction(i) \in Transaction
<1>1. block[i] \in [from : Wallets, to : Addresses] /\ i \in Hashes BY Places
<1> QED BY <1>1 DEF MovementsOf, ToWatcherTransaction, Transaction, Addresses

\* One more instruction of a Solana transaction.
LEMMA OneMoreInstruction ==
  ASSUME TheAnswer, format = "solana", NEW i \in DOMAIN block, block[i].signed,
         NEW k \in 1..Len(block[i].instructions)
  PROVE  LET x == block[i].instructions[k]
         IN /\ x.type = "transfer" =>
                 /\ Transfer(i, x) \in Transaction
                 /\ Stated(i, k) = Stated(i, k - 1) \cup {Transfer(i, x)}
            /\ x.type # "transfer" => Stated(i, k) = Stated(i, k - 1)
<1>1. /\ Len(block[i].instructions) \in Nat /\ i \in Hashes
      /\ block[i].instructions[k] \in Transfers \cup Others
  BY Places, Sequence
<1>2. k \in Nat /\ 1..k = 1..(k - 1) \cup {k} BY <1>1
<1>3. block[i].instructions[k].type = "transfer" =>
        Transfer(i, block[i].instructions[k]) \in Transaction
  BY <1>1 DEF Transfers, Others, Transfer, Transaction, Addresses
<1>4. block[i].instructions[k].type = "transfer" =>
        Stated(i, k) = Stated(i, k - 1) \cup {Transfer(i, block[i].instructions[k])}
  BY <1>2 DEF Stated
<1>5. block[i].instructions[k].type # "transfer" => Stated(i, k) = Stated(i, k - 1)
  BY <1>2 DEF Stated
<1> QED BY <1>3, <1>4, <1>5

\* All of its instructions, or none when it is not signed.
LEMMA AllInstructions ==
  ASSUME TheAnswer, format = "solana", NEW i \in DOMAIN block
  PROVE  /\ Stated(i, 0) = {}
         /\ Stated(i, Len(block[i].instructions)) = MovementsOf(i)
         /\ ~block[i].signed => MovementsOf(i) = {} /\ \A k : Stated(i, k) = {}
<1>1. DOMAIN block[i].instructions = 1..Len(block[i].instructions) BY Places
<1>2. 1..0 = {} OBVIOUS
<1>3. Stated(i, 0) = {} BY <1>2 DEF Stated
<1>4. ~block[i].signed => MovementsOf(i) = {} /\ \A k : Stated(i, k) = {}
  BY DEF Stated, MovementsOf
<1>5. Stated(i, Len(block[i].instructions)) = MovementsOf(i)
  BY <1>1 DEF Stated, MovementsOf, Transfer, Range
<1> QED BY <1>3, <1>4, <1>5

\* The movements of one more transaction.
LEMMA OneMorePlace ==
  ASSUME NEW k \in Nat \ {0}
  PROVE  Visited(k) = Visited(k - 1) \cup MovementsOf(k)
<1>1. 1..k = 1..(k - 1) \cup {k} OBVIOUS
<1>2. \A l, m : m \in Visited(l) <=> \E i \in 1..l : m \in MovementsOf(i) BY DEF Visited
<1>3. \A m : m \in Visited(k) <=> (m \in Visited(k - 1) \/ m \in MovementsOf(k)) BY <1>1, <1>2
<1> QED BY <1>3


-----------------------------------------------------------------------------
(* The invariant holds at first and is kept                                 *)

\* No loop has begun.
LEMMA InvariantAtFirst ==
  ASSUME Init
  PROVE  TransactionsInv
<1> USE BoundAssumption
<1>1. TheAnswer
  <2>1. format \in {"ethereum", "solana"} BY SetsAssumption DEF Init
  <2>2. CASE format = "ethereum"
    <3>1. block \in BoundedSeq([from : Wallets, to : Addresses], MaxTransactions)
      BY <2>2 DEF Init, EthereumBlocks
    <3> QED BY <2>1, <2>2, <3>1, Bounded DEF TheAnswer
  <2>3. CASE format = "solana"
    <3>1. block \in BoundedSeq(
            [signed : BOOLEAN, instructions : BoundedSeq(Transfers \cup Others, MaxInstructions)],
            MaxTransactions)
      BY <2>3 DEF Init, SolanaBlocks
    <3>2. /\ block \in Seq([signed : BOOLEAN,
                            instructions : BoundedSeq(Transfers \cup Others, MaxInstructions)])
          /\ Len(block) <= MaxTransactions
      BY <3>1, Bounded
    <3>3. ASSUME NEW i \in 1..Len(block)
          PROVE  /\ block[i] \in [signed : BOOLEAN, instructions : Seq(Transfers \cup Others)]
                 /\ Len(block[i].instructions) <= MaxInstructions
      <4>1. block[i] \in [signed : BOOLEAN,
                          instructions : BoundedSeq(Transfers \cup Others, MaxInstructions)]
        BY <3>2, Sequence
      <4>2. /\ block[i].instructions \in Seq(Transfers \cup Others)
            /\ Len(block[i].instructions) <= MaxInstructions
        BY <4>1, Bounded
      <4> QED BY <4>1, <4>2
    <3>4. block \in [1..Len(block) -> [signed : BOOLEAN, instructions : Seq(Transfers \cup Others)]]
      BY <3>2, <3>3
    <3>5. Len(block) \in Nat /\ DOMAIN block = 1..Len(block) BY <3>2
    <3>6. block \in Seq([signed : BOOLEAN, instructions : Seq(Transfers \cup Others)])
      BY <3>4, <3>5, Sequence
    <3> QED BY <2>1, <2>3, <3>2, <3>3, <3>5, <3>6 DEF TheAnswer
  <2> QED BY <2>1, <2>2, <2>3
<1>2. ConversionHolds
  <2>1. txs = <<>> /\ place = 1 /\ instruction = 1 BY DEF Init
  <2>2. txs \in Seq(Transaction) /\ Range(txs) = {} BY <2>1 DEF Range
  <2>3. Visited(place - 1) = {}
    <3>1. 1..(place - 1) = {} BY <2>1
    <3> QED BY <3>1 DEF Visited
  <2>4. Begun = {} BY <1>1, <2>1, AllInstructions DEF Begun
  <2>5. place \in 1..(Len(block) + 1) /\ instruction \in 1..(MaxInstructions + 1)
    BY <1>1, <2>1, Places
  <2>6. format = "solana" /\ place \in DOMAIN block =>
          instruction \in 1..(Len(block[place].instructions) + 1)
    BY <1>1, <2>1, Places
  <2> QED BY <2>2, <2>3, <2>4, <2>5, <2>6 DEF ConversionHolds
<1>3. \A w : Indexed(w) = {}
  <2>1. 1..(next - 1) = {} BY DEF Init
  <2> QED BY <2>1 DEF Indexed
<1>4. MapsHold
  <2>1. next = 1 /\ txs = <<>> /\ walletsSet = {} /\ transactionsMap = <<>>
        /\ transactionsByWallet = <<>>
    BY DEF Init
  <2>2. Len(txs) = 0 /\ 1..(next - 1) = {} BY <2>1
  <2>3. DOMAIN transactionsMap = {} /\ transactionsByWallet = [w \in walletsSet |-> Indexed(w)]
    BY <2>1
  <2> QED BY <1>3, <2>1, <2>2, <2>3 DEF MapsHold
<1>5. MatchesHold
  <2>1. watchedWallets = {} /\ turns = <<>> /\ matchingTxsByWallet = <<>> BY DEF Init
  <2>2. DOMAIN matchingTxsByWallet = {} /\ turns = [w \in watchedWallets |-> turns[w]]
    BY <2>1
  <2> QED BY <2>1, <2>2 DEF MatchesHold
<1>6. MessagesHold
  <2>1. unsent = {} /\ at = "convert" /\ stream = <<>> BY DEF Init
  <2>2. stream \in Seq([wallet : Wallets, transactions : Seq(Transaction)]) /\ DOMAIN stream = {}
    BY <2>1
  <2> QED BY <2>1, <2>2 DEF MessagesHold
<1>7. StagesHold BY DEF Init, StagesHold
<1> QED BY <1>1, <1>2, <1>4, <1>5, <1>6, <1>7 DEF TransactionsInv

\* The node's answer does not change, nor what is read off it.
LEMMA AnswerStays ==
  ASSUME TheAnswer, UNCHANGED <<format, block>>
  PROVE  /\ TheAnswer'
         /\ \A i : MovementsOf(i)' = MovementsOf(i) /\ Visited(i)' = Visited(i)
         /\ Visited(place - 1)' = Visited(place' - 1)
         /\ Begun' = IF format = "solana" /\ place' \in DOMAIN block
                     THEN Stated(place', instruction' - 1) ELSE {}
<1>1. \A i : MovementsOf(i)' = MovementsOf(i) BY DEF MovementsOf
<1>2. /\ \A i : Visited(i)' = Visited(i)
      /\ Visited(place - 1)' = Visited(place' - 1)
  BY <1>1 DEF Visited
<1>3. Begun' = IF format = "solana" /\ place' \in DOMAIN block
               THEN Stated(place', instruction' - 1) ELSE {}
  BY DEF Begun, Stated, Transfer
<1> QED BY <1>1, <1>2, <1>3 DEF TheAnswer

\* Nothing is indexed, matched or sent during the conversion.
LEMMA RestStays ==
  ASSUME TransactionsInv, at \in {"convert", "index"}, next = 1, UNCHANGED <<index, result>>,
         at' \in {"convert", "index"}, Len(txs') \in Nat, at' = "index" => place' = Len(block') + 1
  PROVE  MapsHold' /\ MatchesHold' /\ MessagesHold' /\ StagesHold'
<1>1. next' = 1 /\ 1..(next - 1) = {} /\ 1..(next' - 1) = {} BY DEF index
<1>2. UNCHANGED <<next, walletsSet, transactionsMap, transactionsByWallet, watchedWallets, turns,
                  matchingTxsByWallet, unsent, stream>>
  BY DEF index, result
<1>3. \A w : Indexed(w) = {} /\ Indexed(w)' = {} BY <1>1 DEF Indexed
<1>4. MapsHold'
  <2>1. DOMAIN transactionsMap = {} BY <1>1 DEF TransactionsInv, MapsHold
  <2> QED BY <1>1, <1>2, <1>3, <2>1 DEF TransactionsInv, MapsHold
<1>5. watchedWallets = {} /\ stream = <<>> /\ unsent = {} BY DEF TransactionsInv, StagesHold
<1>6. MatchesHold' BY <1>2, <1>5 DEF TransactionsInv, MatchesHold
<1>7. MessagesHold' BY <1>2, <1>5 DEF TransactionsInv, MessagesHold
<1>8. StagesHold' BY <1>1, <1>2, <1>5 DEF StagesHold
<1> QED BY <1>4, <1>6, <1>7, <1>8

\* One turn of a loop of the conversion.
LEMMA ConversionStep ==
  ASSUME TransactionsInv, Conversion
  PROVE  TransactionsInv'
<1>1. /\ at = "convert" /\ at' \in {"convert", "index"} /\ next = 1
      /\ UNCHANGED <<format, block, index, result>>
  BY DEF Conversion, ToWatcherBlock, ToStreamTransactions, ToStreamBlock, Converted,
         TransactionsInv, StagesHold
<1>2. /\ TheAnswer /\ TheAnswer'
      /\ \A i : MovementsOf(i)' = MovementsOf(i) /\ Visited(i)' = Visited(i)
      /\ Visited(place - 1)' = Visited(place' - 1)
      /\ Begun' = IF format = "solana" /\ place' \in DOMAIN block
                  THEN Stated(place', instruction' - 1) ELSE {}
  <2>1. TheAnswer BY DEF TransactionsInv
  <2>2. UNCHANGED <<format, block>> BY <1>1
  <2> QED BY <2>1, <2>2, AnswerStays
<1>3. /\ Len(block) \in Nat /\ DOMAIN block = 1..Len(block)
      /\ place \in Nat \ {0} /\ place <= Len(block) + 1
      /\ instruction \in Nat \ {0} /\ instruction <= MaxInstructions + 1
      /\ txs \in Seq(Transaction) /\ Range(txs) = Visited(place - 1) \cup Begun
  BY <1>2, Places, BoundAssumption DEF TransactionsInv, ConversionHolds
<1>4. ConversionHolds' /\ (at' = "index" => place' = Len(block') + 1)
  <2>1. CASE ToWatcherBlock
    <3>1. /\ format = "ethereum" /\ place \in DOMAIN block /\ at' = "convert"
          /\ txs' = Append(txs, ToWatcherTransaction(place))
          /\ place' = place + 1 /\ instruction' = instruction
      BY <1>1, <2>1 DEF ToWatcherBlock
    <3>2. /\ MovementsOf(place) = {ToWatcherTransaction(place)}
          /\ ToWatcherTransaction(place) \in Transaction
      BY <1>2, <3>1, EthereumMovement
    <3>3. /\ txs' \in Seq(Transaction)
          /\ Range(txs') = Range(txs) \cup {ToWatcherTransaction(place)}
      BY <1>3, <3>1, <3>2, AppendedRange
    <3>4. Begun = {} /\ Begun' = {} BY <1>1, <3>1 DEF Begun
    <3>5. Visited(place) = Visited(place - 1) \cup MovementsOf(place) BY <1>3, OneMorePlace
    <3>6. place' - 1 = place /\ place' \in 1..(Len(block) + 1) BY <1>3, <3>1
    <3>7. Range(txs') = Visited(place - 1)' \cup Begun'
      BY <1>2, <1>3, <3>2, <3>3, <3>4, <3>5, <3>6
    <3> QED BY <1>1, <1>3, <3>1, <3>3, <3>6, <3>7 DEF ConversionHolds
  <2>2. CASE ToStreamTransactions
    <3>1. PICK x : x = block[place].instructions[instruction] OBVIOUS
    <3>2. /\ format = "solana" /\ place \in DOMAIN block /\ block[place].signed
          /\ instruction \in DOMAIN block[place].instructions
          /\ at' = "convert" /\ place' = place /\ instruction' = instruction + 1
          /\ txs' = IF x.type = "transfer" THEN Append(txs, Transfer(place, x)) ELSE txs
      BY <1>1, <2>2, <3>1 DEF ToStreamTransactions
    <3>3. /\ Len(block[place].instructions) \in Nat
          /\ Len(block[place].instructions) <= MaxInstructions
          /\ instruction \in 1..Len(block[place].instructions)
      BY <1>2, <3>2, Places
    <3>4. /\ instruction' \in 1..(Len(block[place].instructions) + 1)
          /\ instruction' \in 1..(MaxInstructions + 1) /\ instruction' - 1 = instruction
      BY <3>2, <3>3, BoundAssumption
    <3>5. Begun = Stated(place, instruction - 1) /\ Begun' = Stated(place, instruction)
      BY <1>1, <1>2, <3>2, <3>4 DEF Begun
    <3>6. CASE x.type = "transfer"
      <4>1. /\ Transfer(place, x) \in Transaction
            /\ Stated(place, instruction) = Stated(place, instruction - 1) \cup {Transfer(place, x)}
        BY <1>2, <3>1, <3>2, <3>3, <3>6, OneMoreInstruction
      <4>2. /\ txs' \in Seq(Transaction)
            /\ Range(txs') = Range(txs) \cup {Transfer(place, x)}
        BY <1>3, <3>2, <3>6, <4>1, AppendedRange
      <4>3. Range(txs') = Visited(place - 1)' \cup Begun'
        BY <1>2, <1>3, <3>2, <3>5, <4>1, <4>2
      <4> QED BY <1>1, <1>3, <3>2, <3>4, <4>2, <4>3 DEF ConversionHolds
    <3>7. CASE x.type # "transfer"
      <4>1. Stated(place, instruction) = Stated(place, instruction - 1)
        BY <1>2, <3>1, <3>2, <3>3, <3>7, OneMoreInstruction
      <4>2. txs' = txs BY <3>2, <3>7
      <4>3. Range(txs') = Visited(place - 1)' \cup Begun'
        BY <1>2, <1>3, <3>2, <3>5, <4>1, <4>2
      <4> QED BY <1>1, <1>3, <3>2, <3>4, <4>2, <4>3 DEF ConversionHolds
    <3> QED BY <3>6, <3>7
  <2>3. CASE ToStreamBlock
    <3>1. /\ format = "solana" /\ place \in DOMAIN block /\ at' = "convert"
          /\ block[place].signed => instruction \notin DOMAIN block[place].instructions
          /\ place' = place + 1 /\ instruction' = 1 /\ txs' = txs
      BY <1>1, <2>3 DEF ToStreamBlock
    <3>2. /\ Len(block[place].instructions) \in Nat
          /\ DOMAIN block[place].instructions = 1..Len(block[place].instructions)
          /\ instruction \in 1..(Len(block[place].instructions) + 1)
      BY <1>2, <3>1, Places DEF TransactionsInv, ConversionHolds
    <3>3. Begun = MovementsOf(place)
      <4>1. Begun = Stated(place, instruction - 1) BY <3>1 DEF Begun
      <4>2. CASE block[place].signed
        <5>1. instruction - 1 = Len(block[place].instructions) BY <3>1, <3>2, <4>2
        <5> QED BY <1>2, <3>1, <4>1, <5>1, AllInstructions
      <4>3. CASE ~block[place].signed BY <1>2, <3>1, <4>1, <4>3, AllInstructions
      <4> QED BY <4>2, <4>3
    <3>4. Visited(place) = Visited(place - 1) \cup MovementsOf(place) BY <1>3, OneMorePlace
    <3>5. place' - 1 = place /\ place' \in 1..(Len(block) + 1) BY <1>3, <3>1
    <3>6. Begun' = {}
      <4>1. instruction' - 1 = 0 BY <3>1
      <4>2. place' \in DOMAIN block => Stated(place', 0) = {} BY <1>2, <3>1, AllInstructions
      <4> QED BY <1>1, <1>2, <4>1, <4>2 DEF Begun
    <3>7. Range(txs') = Visited(place - 1)' \cup Begun'
      BY <1>2, <1>3, <3>1, <3>3, <3>4, <3>5, <3>6
    <3>8. place' \in DOMAIN block => instruction' \in 1..(Len(block[place'].instructions) + 1)
      BY <1>2, <3>1, Places
    <3> QED BY <1>1, <1>3, <3>1, <3>5, <3>7, <3>8, BoundAssumption DEF ConversionHolds
  <2>4. CASE Converted
    <3>1. /\ place \notin DOMAIN block /\ UNCHANGED <<place, instruction, txs>>
      BY <2>4 DEF Converted, conversion
    <3>2. place = Len(block) + 1 BY <1>3, <3>1
    <3>3. Begun' = Begun BY <1>1, <1>2, <3>1 DEF Begun
    <3> QED BY <1>1, <1>2, <3>1, <3>2, <3>3 DEF TransactionsInv, ConversionHolds
  <2> QED BY <2>1, <2>2, <2>3, <2>4 DEF Conversion
<1>5. Len(txs') \in Nat BY <1>4, Sequence DEF ConversionHolds
<1> QED BY <1>1, <1>2, <1>4, <1>5, RestStays DEF TransactionsInv

\* One turn of the loop over txs.
LEMMA IndexStep ==
  ASSUME TransactionsInv, Index
  PROVE  TransactionsInv'
<1>1. UNCHANGED <<format, block, at, place, instruction, txs, watchedWallets, turns,
                  matchingTxsByWallet, unsent, stream>>
      /\ at = "index"
  BY DEF Index, conversion, result
<1>2. /\ txs \in Seq(Transaction) /\ Len(txs) \in Nat /\ DOMAIN txs = 1..Len(txs)
      /\ next \in 1..Len(txs) /\ next' = next + 1
      /\ 1..(next' - 1) = 1..(next - 1) \cup {next} /\ next' \in 1..(Len(txs) + 1)
  <2>1. txs \in Seq(Transaction) BY DEF TransactionsInv, ConversionHolds
  <2>2. Len(txs) \in Nat /\ DOMAIN txs = 1..Len(txs) BY <2>1, Sequence
  <2>3. next \in Nat /\ next >= 1 /\ next <= Len(txs) /\ next' = next + 1
    BY <2>2 DEF Index, TransactionsInv, MapsHold
  <2> QED BY <2>1, <2>2, <2>3
<1>3. PICK tx \in Transaction : tx = txs[next]
  BY <1>2, Sequence
<1>4. tx.from \in Addresses /\ tx.to \in Addresses /\ tx \in Range(txs)
  BY <1>2, <1>3 DEF Transaction, Range
<1>5. /\ walletsSet' = walletsSet \cup {tx.from, tx.to}
      /\ transactionsMap' = Put(transactionsMap, tx.hash, tx)
      /\ \E added : /\ added = Put(transactionsByWallet, tx.from,
                                   Get(transactionsByWallet, tx.from, {}) \cup {tx.hash})
                    /\ transactionsByWallet' =
                         Put(added, tx.to, Get(added, tx.to, {}) \cup {tx.hash})
  BY <1>3 DEF Index
<1>6. TheAnswer' BY <1>1 DEF TransactionsInv, TheAnswer
<1>7. ConversionHolds'
  BY <1>1 DEF TransactionsInv, ConversionHolds, Visited, MovementsOf, Begun, Stated, Transfer
<1>8. \A w : Indexed(w)' = IF w \in {tx.from, tx.to} THEN Indexed(w) \cup {tx.hash} ELSE Indexed(w)
  <2>1. \A w, hash : hash \in Indexed(w)' <=>
          \E k \in 1..(next' - 1) : hash = txs[k].hash /\ w \in {txs[k].from, txs[k].to}
    BY <1>1 DEF Indexed
  <2>2. \A w, hash : hash \in Indexed(w) <=>
          \E k \in 1..(next - 1) : hash = txs[k].hash /\ w \in {txs[k].from, txs[k].to}
    BY DEF Indexed
  <2>3. \A w, hash : hash \in Indexed(w)' <=>
          (hash \in Indexed(w) \/ (hash = tx.hash /\ w \in {tx.from, tx.to}))
    BY <1>2, <1>3, <2>1, <2>2
  <2> QED BY <2>3
<1>9. MapsHold'
  <2>1. walletsSet' = {w \in Addresses : Indexed(w)' # {}}
    BY <1>4, <1>5, <1>8 DEF TransactionsInv, MapsHold
  <2>2. DOMAIN transactionsMap' = {txs[k].hash : k \in 1..(next' - 1)}
    <3>1. DOMAIN transactionsMap' = DOMAIN transactionsMap \cup {tx.hash} BY <1>5 DEF Put
    <3>2. DOMAIN transactionsMap = {txs[k].hash : k \in 1..(next - 1)}
      BY DEF TransactionsInv, MapsHold
    <3> QED BY <1>2, <1>3, <3>1, <3>2
  <2>3. \A hash \in DOMAIN transactionsMap' :
          transactionsMap'[hash] \in Range(txs) /\ transactionsMap'[hash].hash = hash
    <3>1. \A hash \in DOMAIN transactionsMap :
            transactionsMap[hash] \in Range(txs) /\ transactionsMap[hash].hash = hash
      BY DEF TransactionsInv, MapsHold
    <3>2. transactionsMap' = [k \in DOMAIN transactionsMap \cup {tx.hash} |->
                                IF k = tx.hash THEN tx ELSE transactionsMap[k]]
      BY <1>5 DEF Put
    <3> QED BY <1>4, <3>1, <3>2
  <2>4. transactionsByWallet' = [w \in walletsSet' |-> Indexed(w)']
    <3>0. /\ transactionsByWallet = [w \in walletsSet |-> Indexed(w)]
          /\ \A w \in Addresses \ walletsSet : Indexed(w) = {}
      BY DEF TransactionsInv, MapsHold
    <3>2. PICK added : /\ added = Put(transactionsByWallet, tx.from,
                                      Get(transactionsByWallet, tx.from, {}) \cup {tx.hash})
                       /\ transactionsByWallet' =
                            Put(added, tx.to, Get(added, tx.to, {}) \cup {tx.hash})
      BY <1>5
    <3>3. added = [w \in walletsSet \cup {tx.from} |->
                     IF w = tx.from THEN Indexed(w) \cup {tx.hash} ELSE Indexed(w)]
      BY <1>4, <3>0, <3>2 DEF Put, Get
    <3>4. transactionsByWallet' =
            [w \in walletsSet \cup {tx.from} \cup {tx.to} |->
               IF w \in {tx.from, tx.to} THEN Indexed(w) \cup {tx.hash} ELSE Indexed(w)]
      <4>1. Get(added, tx.to, {}) =
              IF tx.to = tx.from THEN Indexed(tx.to) \cup {tx.hash} ELSE Indexed(tx.to)
        BY <1>4, <3>0, <3>3 DEF Get
      <4>2. transactionsByWallet' =
              [w \in walletsSet \cup {tx.from} \cup {tx.to} |->
                 IF w = tx.to THEN Indexed(tx.to) \cup {tx.hash} ELSE added[w]]
        BY <3>2, <3>3, <4>1 DEF Put
      <4>3. \A w \in walletsSet \cup {tx.from} \cup {tx.to} :
              (IF w = tx.to THEN Indexed(tx.to) \cup {tx.hash} ELSE added[w])
                = (IF w \in {tx.from, tx.to} THEN Indexed(w) \cup {tx.hash} ELSE Indexed(w))
        BY <3>3
      <4> QED BY <4>2, <4>3
    <3>5. walletsSet' = walletsSet \cup {tx.from} \cup {tx.to} BY <1>5
    <3> QED BY <1>8, <3>4, <3>5
  <2> QED BY <1>1, <1>2, <2>1, <2>2, <2>3, <2>4 DEF MapsHold
<1>10. watchedWallets' = {} BY <1>1 DEF TransactionsInv, StagesHold
<1>11. MatchesHold' BY <1>1, <1>10 DEF TransactionsInv, MatchesHold
<1>12. MessagesHold' BY <1>1 DEF TransactionsInv, MessagesHold, Message
<1>13. StagesHold' BY <1>1 DEF TransactionsInv, StagesHold
<1> QED BY <1>6, <1>7, <1>9, <1>11, <1>12, <1>13 DEF TransactionsInv

\* Where the conversion and the maps stay, what they hold stays.
LEMMA MapsStay ==
  ASSUME TransactionsInv, UNCHANGED <<format, block, conversion, index>>
  PROVE  /\ TheAnswer' /\ ConversionHolds' /\ MapsHold'
         /\ txs' = txs /\ next' = next /\ place' = place
         /\ \A w : Indexed(w)' = Indexed(w)
<1>1. UNCHANGED <<place, instruction, txs, next, walletsSet, transactionsMap, transactionsByWallet>>
  BY DEF conversion, index
<1>2. TheAnswer' BY DEF TransactionsInv, TheAnswer
<1>3. ConversionHolds'
  BY <1>1 DEF TransactionsInv, ConversionHolds, Visited, MovementsOf, Begun, Stated, Transfer
<1>4. \A w : Indexed(w)' = Indexed(w) BY <1>1 DEF Indexed
<1> QED BY <1>1, <1>2, <1>3, <1>4 DEF TransactionsInv, MapsHold

\* The answer of the storage: nothing is matched yet, all hashes are left to visit.
LEMMA FilterStep ==
  ASSUME TransactionsInv, FilterWatchedWallets \/ FilterFails
  PROVE  TransactionsInv'
<1>1. UNCHANGED <<format, block, conversion, index, matchingTxsByWallet, unsent, stream>>
      /\ at = "index" /\ at' \in {"match", "failed"}
  BY DEF FilterWatchedWallets, FilterFails, result
<1>2. /\ TheAnswer' /\ ConversionHolds' /\ MapsHold'
      /\ txs' = txs /\ next' = next /\ place' = place
      /\ \A w : Indexed(w)' = Indexed(w)
  BY <1>1, MapsStay
<1>3. next' = Len(txs') + 1
  <2>1. Len(txs) \in Nat BY Sequence DEF TransactionsInv, ConversionHolds
  <2>2. next \in Nat /\ next <= Len(txs) + 1 /\ next > Len(txs)
    BY <2>1 DEF FilterWatchedWallets, FilterFails, TransactionsInv, MapsHold
  <2> QED BY <1>2, <2>1, <2>2
<1>4. /\ watchedWallets = {} /\ stream = <<>> /\ unsent = {} /\ DOMAIN matchingTxsByWallet = {}
      /\ place = Len(block) + 1
  BY <1>1 DEF TransactionsInv, StagesHold, MatchesHold
<1>5. MessagesHold' BY <1>1, <1>4 DEF TransactionsInv, MessagesHold
<1>6. StagesHold' BY <1>1, <1>2, <1>3, <1>4 DEF StagesHold
<1>7. CASE FilterFails
  <2>1. watchedWallets' = {} /\ turns' = turns BY <1>4, <1>7 DEF FilterFails, result
  <2>2. MatchesHold' BY <1>1, <1>4, <2>1 DEF TransactionsInv, MatchesHold
  <2> QED BY <1>2, <1>5, <1>6, <2>2 DEF TransactionsInv
<1>8. CASE FilterWatchedWallets
  <2>1. PICK registered \in SUBSET Wallets :
          /\ watchedWallets' = walletsSet \cap registered
          /\ turns' = [w \in walletsSet \cap registered |-> Get(transactionsByWallet, w, {})]
    BY <1>8 DEF FilterWatchedWallets
  <2>2. turns' = [w \in watchedWallets' |-> Indexed(w)]
    BY <2>1 DEF TransactionsInv, MapsHold, Get
  <2>3. \A w \in watchedWallets' : Matched(w)' = <<>>
    BY <1>1, <1>4 DEF Matched, Get
  <2>4. <<>> \in Seq(Transaction) /\ DOMAIN <<>> = {} OBVIOUS
  <2>5. \A w \in watchedWallets' : MatchesOf(w)'
    BY <1>2, <2>2, <2>3, <2>4 DEF MatchesOf
  <2>6. walletsSet' = walletsSet BY <1>1 DEF index
  <2>7. MatchesHold' BY <1>1, <1>4, <2>1, <2>2, <2>5, <2>6 DEF MatchesHold
  <2> QED BY <1>2, <1>5, <1>6, <2>7 DEF TransactionsInv
<1> QED BY <1>7, <1>8

\* One turn of the loops over the watched wallets and their hashes.
LEMMA MatchStep ==
  ASSUME TransactionsInv, Match
  PROVE  TransactionsInv'
<1>1. UNCHANGED <<format, block, conversion, index>> BY DEF Match
<1>2. /\ TheAnswer' /\ ConversionHolds' /\ MapsHold'
      /\ txs' = txs /\ next' = next /\ place' = place
      /\ \A v : Indexed(v)' = Indexed(v)
  BY <1>1, MapsStay
<1> PICK w \in watchedWallets : \E hash \in turns[w] :
       /\ turns' = [turns EXCEPT ![w] = turns[w] \ {hash}]
       /\ matchingTxsByWallet' =
            Put(matchingTxsByWallet, w, Append(Matched(w), transactionsMap[hash]))
  BY DEF Match, Matched
<1>3. PICK hash \in turns[w] :
        /\ turns' = [turns EXCEPT ![w] = turns[w] \ {hash}]
        /\ matchingTxsByWallet' =
             Put(matchingTxsByWallet, w, Append(Matched(w), transactionsMap[hash]))
  OBVIOUS
<1>4. UNCHANGED <<watchedWallets, at, unsent, stream>> /\ at = "match"
  BY DEF Match
<1>5. stream = <<>> /\ unsent = {} BY <1>4 DEF TransactionsInv, StagesHold
<1>6. PICK tx : tx = transactionsMap[hash] OBVIOUS
<1>7. hash \in Indexed(w) /\ tx \in Range(txs) /\ tx \in Transaction /\ tx.hash = hash
  <2>1. hash \in Indexed(w) BY <1>3 DEF TransactionsInv, MatchesHold, MatchesOf
  <2>2. hash \in DOMAIN transactionsMap BY <2>1 DEF Indexed, TransactionsInv, MapsHold
  <2>3. tx \in Range(txs) /\ tx.hash = hash BY <1>6, <2>2 DEF TransactionsInv, MapsHold
  <2>4. txs \in Seq(Transaction) BY DEF TransactionsInv, ConversionHolds
  <2>5. tx \in Transaction BY <2>3, <2>4, Sequence DEF Range
  <2> QED BY <2>1, <2>3, <2>5
<1>8. /\ turns = [v \in watchedWallets |-> turns[v]]
      /\ watchedWallets \subseteq walletsSet \cap Wallets
      /\ DOMAIN matchingTxsByWallet \subseteq watchedWallets
  BY DEF TransactionsInv, MatchesHold
<1>9. turns' = [v \in watchedWallets |-> IF v = w THEN turns[w] \ {hash} ELSE turns[v]]
  BY <1>3, <1>8
<1>10. \A v \in watchedWallets \ {w} : Matched(v)' = Matched(v) /\ turns'[v] = turns[v]
  BY <1>3, <1>9 DEF Matched, Get, Put
<1>11. Matched(w)' = Append(Matched(w), tx) /\ turns'[w] = turns[w] \ {hash}
  BY <1>3, <1>6, <1>9 DEF Matched, Get, Put
<1>12. DOMAIN matchingTxsByWallet' = DOMAIN matchingTxsByWallet \cup {w}
  BY <1>3 DEF Put
<1>13. \A v \in watchedWallets : MatchesOf(v) BY DEF TransactionsInv, MatchesHold
<1>14. ASSUME NEW v \in watchedWallets \ {w} PROVE MatchesOf(v)'
  BY <1>2, <1>10, <1>13 DEF MatchesOf
<1>15. MatchesOf(w)'
  <2>1. PICK old \in Seq(Transaction) : old = Matched(w) BY <1>13 DEF MatchesOf
  <2>2. PICK new : new = Append(old, tx) OBVIOUS
  <2>3. /\ Len(old) \in Nat /\ DOMAIN old = 1..Len(old) /\ DOMAIN new = 1..(Len(old) + 1)
        /\ new \in Seq(Transaction) /\ new[Len(old) + 1] = tx
        /\ \A k \in 1..Len(old) : new[k] = old[k]
    BY <1>7, <2>1, <2>2, Appended
  <2>4. Matched(w)' = new BY <1>11, <2>1, <2>2
  <2>5. /\ \A k \in DOMAIN old : old[k] \in Range(txs) /\ old[k].hash \in Indexed(w) \ turns[w]
        /\ \A j, k \in DOMAIN old : old[j].hash = old[k].hash => j = k
        /\ turns[w] \subseteq Indexed(w)
        /\ \A i \in Indexed(w) \ turns[w] : \E k \in DOMAIN old : old[k].hash = i
    BY <1>13, <2>1 DEF MatchesOf
  <2>6. \A k \in DOMAIN new : new[k] \in Range(txs) /\ new[k].hash \in Indexed(w) \ turns'[w]
    BY <1>3, <1>7, <1>11, <2>3, <2>5
  <2>7. \A j, k \in DOMAIN new : new[j].hash = new[k].hash => j = k
    <3>1. \A k \in DOMAIN old : old[k].hash # hash BY <1>3, <2>5
    <3> QED BY <1>7, <2>3, <2>5, <3>1
  <2>8. \A i \in Indexed(w) \ turns'[w] : \E k \in DOMAIN new : new[k].hash = i
    <3> SUFFICES ASSUME NEW i \in Indexed(w) \ turns'[w] PROVE \E k \in DOMAIN new : new[k].hash = i
      OBVIOUS
    <3>1. CASE i = hash BY <1>7, <2>3, <3>1
    <3>2. CASE i # hash BY <1>11, <2>3, <2>5, <3>2
    <3> QED BY <3>1, <3>2
  <2>9. turns'[w] \subseteq Indexed(w) BY <1>11, <2>5
  <2> QED BY <1>2, <2>3, <2>4, <2>6, <2>7, <2>8, <2>9 DEF MatchesOf
<1>16. \A v \in watchedWallets' : MatchesOf(v)' BY <1>4, <1>14, <1>15
<1>17. turns' = [v \in watchedWallets' |-> turns'[v]] BY <1>4, <1>9
<1>18. walletsSet' = walletsSet BY <1>1 DEF index
<1>19. MatchesHold' BY <1>4, <1>8, <1>12, <1>16, <1>17, <1>18 DEF MatchesHold
<1>20. MessagesHold' BY <1>4, <1>5, <1>12 DEF TransactionsInv, MessagesHold
<1>21. StagesHold' BY <1>1, <1>2, <1>4, <1>5 DEF TransactionsInv, StagesHold
<1> QED BY <1>2, <1>19, <1>20, <1>21 DEF TransactionsInv

\* From the return of the result to the last message.
LEMMA NotifyStep ==
  ASSUME TransactionsInv, Return \/ NotifyTransactions \/ NotifyFails \/ AllNotified
  PROVE  TransactionsInv'
<1>1. UNCHANGED <<format, block, conversion, index, watchedWallets, turns, matchingTxsByWallet>>
  BY DEF Return, NotifyTransactions, NotifyFails, AllNotified, result
<1>2. /\ TheAnswer' /\ ConversionHolds' /\ MapsHold'
      /\ txs' = txs /\ next' = next /\ place' = place
      /\ \A v : Indexed(v)' = Indexed(v)
  BY <1>1, MapsStay
<1>3. MatchesHold' BY <1>1, <1>2 DEF TransactionsInv, MatchesHold, MatchesOf, Matched, index
<1>m. \A w : Message(w)' = Message(w) BY <1>1 DEF Message
<1>4. CASE Return
  <2>1. /\ at = "match" /\ stream = <<>> /\ at' = "notify" /\ UNCHANGED stream
        /\ unsent' = DOMAIN matchingTxsByWallet
        /\ \A w \in watchedWallets : turns[w] = {}
    BY <1>4 DEF Return, TransactionsInv, StagesHold
  <2>2. DOMAIN stream = {} BY <2>1
  <2>3. MessagesHold' BY <1>1, <2>1, <2>2 DEF TransactionsInv, MessagesHold
  <2>4. StagesHold' BY <1>1, <1>2, <2>1 DEF TransactionsInv, StagesHold
  <2> QED BY <1>2, <1>3, <2>3, <2>4 DEF TransactionsInv
<1>5. CASE AllNotified
  <2>1. MessagesHold' BY <1>1, <1>m, <1>5 DEF AllNotified, result, TransactionsInv, MessagesHold
  <2>2. StagesHold' BY <1>1, <1>2, <1>5 DEF AllNotified, result, TransactionsInv, StagesHold
  <2> QED BY <1>2, <1>3, <2>1, <2>2 DEF TransactionsInv
<1>6. CASE NotifyTransactions \/ NotifyFails
  <2>1. PICK w \in unsent :
          /\ at = "notify" /\ stream' \in {stream, Append(stream, Message(w))}
          /\ \/ /\ at' = at /\ unsent' = unsent \ {w} /\ stream' = Append(stream, Message(w))
             \/ at' = "failed" /\ unsent' = unsent
    BY <1>6 DEF NotifyTransactions, NotifyFails
  <2>2. StagesHold' BY <1>1, <1>2, <2>1 DEF TransactionsInv, StagesHold
  <2>3. CASE stream' = stream
    <3>1. at' = "failed" /\ unsent' = unsent
      <4>1. stream \in Seq([wallet : Wallets, transactions : Seq(Transaction)])
        BY DEF TransactionsInv, MessagesHold
      <4>2. Append(stream, Message(w)) # stream BY <4>1
      <4> QED BY <2>1, <2>3, <4>2
    <3>2. MessagesHold' BY <1>1, <1>m, <2>3, <3>1 DEF TransactionsInv, MessagesHold
    <3> QED BY <1>2, <1>3, <2>2, <3>2 DEF TransactionsInv
  <2>4. CASE stream' = Append(stream, Message(w))
    <3>1. /\ w \in DOMAIN matchingTxsByWallet /\ w \in watchedWallets /\ w \in Wallets
          /\ \A k \in DOMAIN stream : stream[k].wallet # w
      BY <2>1 DEF TransactionsInv, MessagesHold, MatchesHold
    <3>2. PICK x : x = Message(w) OBVIOUS
    <3>3. x \in [wallet : Wallets, transactions : Seq(Transaction)] /\ x.wallet = w
      BY <3>1, <3>2 DEF Message, TransactionsInv, MatchesHold, MatchesOf, Matched, Get
    <3>4. /\ Len(stream) \in Nat /\ DOMAIN stream = 1..Len(stream)
          /\ DOMAIN stream' = 1..(Len(stream) + 1)
          /\ stream' \in Seq([wallet : Wallets, transactions : Seq(Transaction)])
          /\ stream'[Len(stream) + 1] = x
          /\ \A k \in 1..Len(stream) : stream'[k] = stream[k]
      BY <2>4, <3>2, <3>3, Appended DEF TransactionsInv, MessagesHold
    <3>5. /\ \A k \in DOMAIN stream :
               stream[k].wallet \in DOMAIN matchingTxsByWallet
                 /\ stream[k] = Message(stream[k].wallet)
          /\ \A j, k \in DOMAIN stream : stream[j].wallet = stream[k].wallet => j = k
      BY DEF TransactionsInv, MessagesHold
    <3>6. \A k \in DOMAIN stream' :
            stream'[k].wallet \in DOMAIN matchingTxsByWallet
              /\ stream'[k] = Message(stream'[k].wallet)
      BY <3>1, <3>2, <3>3, <3>4, <3>5
    <3>7. \A j, k \in DOMAIN stream' : stream'[j].wallet = stream'[k].wallet => j = k
      <4> SUFFICES ASSUME NEW j \in DOMAIN stream', NEW k \in DOMAIN stream',
                          stream'[j].wallet = stream'[k].wallet
                   PROVE  j = k
        OBVIOUS
      <4>1. (j \in DOMAIN stream \/ j = Len(stream) + 1) /\ (k \in DOMAIN stream \/ k = Len(stream) + 1)
        BY <3>4
      <4>2. CASE j \in DOMAIN stream /\ k \in DOMAIN stream BY <3>4, <3>5, <4>2
      <4>3. CASE j \in DOMAIN stream /\ k = Len(stream) + 1 BY <3>1, <3>3, <3>4, <4>3
      <4>4. CASE j = Len(stream) + 1 /\ k \in DOMAIN stream BY <3>1, <3>3, <3>4, <4>4
      <4> QED BY <4>1, <4>2, <4>3, <4>4
    <3>8. at' \in {"notify", "returned"} =>
            \A v \in DOMAIN matchingTxsByWallet :
              v \in unsent' <=> ~(\E k \in DOMAIN stream' : stream'[k].wallet = v)
      <4> SUFFICES ASSUME at' \in {"notify", "returned"}, NEW v \in DOMAIN matchingTxsByWallet
                   PROVE  v \in unsent' <=> ~(\E k \in DOMAIN stream' : stream'[k].wallet = v)
        OBVIOUS
      <4>1. unsent' = unsent \ {w} BY <2>1
      <4>2. v \in unsent <=> ~(\E k \in DOMAIN stream : stream[k].wallet = v)
        BY <2>1 DEF TransactionsInv, MessagesHold
      <4>3. (\E k \in DOMAIN stream' : stream'[k].wallet = v)
              <=> (v = w \/ \E k \in DOMAIN stream : stream[k].wallet = v)
        <5>1. Len(stream) + 1 \in DOMAIN stream' /\ stream'[Len(stream) + 1].wallet = w
          BY <3>3, <3>4
        <5>2. \A k \in DOMAIN stream : k \in DOMAIN stream' /\ stream'[k] = stream[k]
          BY <3>4
        <5>3. \A k \in DOMAIN stream' : k \in DOMAIN stream \/ k = Len(stream) + 1
          BY <3>4
        <5> QED BY <5>1, <5>2, <5>3
      <4> QED BY <4>1, <4>2, <4>3
    <3>9. unsent' \subseteq DOMAIN matchingTxsByWallet
      BY <2>1 DEF TransactionsInv, MessagesHold
    <3>10. MessagesHold' BY <1>1, <1>m, <3>4, <3>6, <3>7, <3>8, <3>9 DEF MessagesHold
    <3> QED BY <1>2, <1>3, <2>2, <3>10 DEF TransactionsInv
  <2> QED BY <2>1, <2>3, <2>4
<1> QED BY <1>4, <1>5, <1>6

\* Every step keeps the invariant.
LEMMA InvariantStep ==
  ASSUME TransactionsInv, [Next]_vars
  PROVE  TransactionsInv'
<1>1. CASE UNCHANGED vars
  <2>1. UNCHANGED <<format, block, conversion, index>> /\ UNCHANGED <<at, result>>
    BY <1>1 DEF vars
  <2>2. UNCHANGED <<watchedWallets, turns, matchingTxsByWallet, unsent, stream>>
    BY <2>1 DEF result
  <2>3. /\ TheAnswer' /\ ConversionHolds' /\ MapsHold'
        /\ txs' = txs /\ next' = next /\ place' = place
        /\ \A v : Indexed(v)' = Indexed(v)
    BY <2>1, MapsStay
  <2>4. MatchesHold'
    BY <2>1, <2>2, <2>3 DEF TransactionsInv, MatchesHold, MatchesOf, Matched, index
  <2>5. MessagesHold' BY <2>1, <2>2 DEF TransactionsInv, MessagesHold, Message
  <2>6. StagesHold' BY <2>1, <2>2, <2>3 DEF TransactionsInv, StagesHold
  <2> QED BY <2>3, <2>4, <2>5, <2>6 DEF TransactionsInv
<1> QED
  BY <1>1, ConversionStep, IndexStep, FilterStep, MatchStep, NotifyStep
  DEF Next, NotifyWatchedWalletTransactions, GetTransactionsByWallet

LEMMA TransactionsInvariant == Spec => []TransactionsInv
BY InvariantAtFirst, InvariantStep, PTL DEF Spec

-----------------------------------------------------------------------------
(* The properties                                                           *)

\* After the conversion the entries are the movements of the block, and after the
\* loop over them a wallet's hashes are those of the movements it takes part in.
LEMMA AllVisited ==
  ASSUME TransactionsInv
  PROVE  /\ at # "convert" => Range(txs) = Movements
         /\ at \notin {"convert", "index"} =>
              \A w : Indexed(w) = {m.hash : m \in Involving(w)}
<1>1. at # "convert" => Range(txs) = Movements
  <2> SUFFICES ASSUME at # "convert" PROVE Range(txs) = Movements OBVIOUS
  <2>1. Len(block) \in Nat /\ DOMAIN block = 1..Len(block) BY Places DEF TransactionsInv
  <2>2. place = Len(block) + 1 BY DEF TransactionsInv, StagesHold
  <2>3. place - 1 = Len(block) /\ place \notin DOMAIN block BY <2>1, <2>2
  <2>4. Begun = {} BY <2>3 DEF Begun
  <2>5. Movements = Visited(place - 1) BY <2>1, <2>3 DEF Movements, Visited
  <2> QED BY <2>4, <2>5 DEF TransactionsInv, ConversionHolds
<1>2. ASSUME at \notin {"convert", "index"}, NEW w
      PROVE  Indexed(w) = {m.hash : m \in Involving(w)}
  <2>1. Len(txs) \in Nat /\ DOMAIN txs = 1..Len(txs)
    BY Sequence DEF TransactionsInv, ConversionHolds
  <2>2. next - 1 = Len(txs) BY <1>2, <2>1 DEF TransactionsInv, StagesHold
  <2>3. \A hash : hash \in Indexed(w) <=>
          \E m \in Range(txs) : hash = m.hash /\ w \in {m.from, m.to}
    BY <2>1, <2>2 DEF Indexed, Range
  <2>4. \A hash : hash \in {m.hash : m \in Involving(w)} <=>
          \E m \in Movements : hash = m.hash /\ w \in {m.from, m.to}
    BY DEF Involving
  <2> QED BY <1>1, <1>2, <2>3, <2>4
<1> QED BY <1>1, <1>2

\* A finished loop over the hashes of a watched wallet has left each of them in
\* the result, once, with a movement of the block.
LEMMA ResultOf ==
  ASSUME TransactionsInv, NEW w \in watchedWallets, at \notin {"convert", "index"}, turns[w] = {}
  PROVE  /\ w \in DOMAIN matchingTxsByWallet
         /\ Range(matchingTxsByWallet[w]) \subseteq Movements
         /\ {t.hash : t \in Range(matchingTxsByWallet[w])} = {m.hash : m \in Involving(w)}
         /\ \A j, k \in DOMAIN matchingTxsByWallet[w] :
              matchingTxsByWallet[w][j].hash = matchingTxsByWallet[w][k].hash => j = k
<1>1. PICK s \in Seq(Transaction) : s = Matched(w)
  BY DEF TransactionsInv, MatchesHold, MatchesOf
<1>2. /\ \A k \in DOMAIN s : s[k] \in Range(txs) /\ s[k].hash \in Indexed(w)
      /\ \A i \in Indexed(w) : \E k \in DOMAIN s : s[k].hash = i
      /\ \A j, k \in DOMAIN s : s[j].hash = s[k].hash => j = k
  BY <1>1 DEF TransactionsInv, MatchesHold, MatchesOf
<1>3. Indexed(w) # {} BY DEF TransactionsInv, MatchesHold, MapsHold
<1>4. w \in DOMAIN matchingTxsByWallet /\ s = matchingTxsByWallet[w]
  <2>1. DOMAIN s # {} BY <1>2, <1>3
  <2>2. s # <<>> BY <2>1
  <2> QED BY <1>1, <2>2 DEF Matched, Get
<1>5. Range(s) \subseteq Movements BY <1>2, AllVisited DEF Range
<1>6. {t.hash : t \in Range(s)} = Indexed(w) BY <1>2 DEF Range
<1> QED BY <1>2, <1>4, <1>5, <1>6, AllVisited

\* What is in the stream is the whole result of its wallet.
LEMMA MessageOf ==
  ASSUME TransactionsInv, NEW k \in DOMAIN stream
  PROVE  /\ stream[k].wallet \in watchedWallets
         /\ Range(stream[k].transactions) \subseteq Movements
         /\ {t.hash : t \in Range(stream[k].transactions)}
              = {m.hash : m \in Involving(stream[k].wallet)}
         /\ \A i, j \in DOMAIN stream[k].transactions :
              stream[k].transactions[i].hash = stream[k].transactions[j].hash => i = j
<1>1. PICK w : w = stream[k].wallet OBVIOUS
<1>2. /\ w \in watchedWallets
      /\ stream[k].transactions = matchingTxsByWallet[w]
  BY <1>1 DEF TransactionsInv, MessagesHold, MatchesHold, Message
<1>3. at \notin {"convert", "index"} /\ turns[w] = {}
  <2>1. stream # <<>> OBVIOUS
  <2> QED BY <1>2, <2>1 DEF TransactionsInv, StagesHold
<1> QED BY <1>1, <1>2, <1>3, ResultOf

\* The invariant implies that each hash is sent once.
LEMMA HashesAreSentOnce ==
  ASSUME TransactionsInv
  PROVE  OncePerHash
<1>1. \A j, k \in DOMAIN stream : j # k => stream[j].wallet # stream[k].wallet
  BY DEF TransactionsInv, MessagesHold
<1>2. ASSUME NEW k \in DOMAIN stream
      PROVE  LET w == stream[k].wallet
                 hashes == [j \in DOMAIN stream[k].transactions |-> stream[k].transactions[j].hash]
             IN /\ w \in watchedWallets /\ IsInjective(hashes)
                /\ Range(stream[k].transactions) \subseteq Movements
                /\ Range(hashes) = {m.hash : m \in Involving(w)}
  <2> DEFINE w == stream[k].wallet
             sent == stream[k].transactions
             hashes == [j \in DOMAIN sent |-> sent[j].hash]
  <2>1. /\ w \in watchedWallets /\ Range(sent) \subseteq Movements
        /\ {t.hash : t \in Range(sent)} = {m.hash : m \in Involving(w)}
        /\ \A i, j \in DOMAIN sent : sent[i].hash = sent[j].hash => i = j
    BY MessageOf
  <2> HIDE DEF w, sent
  <2>2. IsInjective(hashes) BY <2>1 DEF IsInjective
  <2>3. Range(hashes) = {t.hash : t \in Range(sent)} BY DEF Range
  <2>4. /\ w \in watchedWallets /\ IsInjective(hashes) /\ Range(sent) \subseteq Movements
        /\ Range(hashes) = {m.hash : m \in Involving(w)}
    BY <2>1, <2>2, <2>3
  <2> QED BY <2>4 DEF w, sent
<1>3. ASSUME at = "returned", NEW w \in watchedWallets
      PROVE  w \in {stream[k].wallet : k \in DOMAIN stream}
  <2>1. unsent = {} /\ turns[w] = {} BY <1>3 DEF TransactionsInv, StagesHold
  <2>2. w \in DOMAIN matchingTxsByWallet BY <1>3, <2>1, ResultOf
  <2> QED BY <1>3, <2>1, <2>2 DEF TransactionsInv, MessagesHold
<1> QED BY <1>1, <1>2, <1>3 DEF OncePerHash

\* Where a hash has one movement, the hashes say which movements.
LEMMA EthereumIsExact ==
  ASSUME TransactionsInv
  PROVE  ExactOnEthereum
<1> SUFFICES ASSUME format = "ethereum", NEW k \in DOMAIN stream
             PROVE  Range(stream[k].transactions) = Involving(stream[k].wallet)
  BY DEF ExactOnEthereum
<1> DEFINE w == stream[k].wallet
           sent == Range(stream[k].transactions)
<1>1. /\ sent \subseteq Movements
      /\ {t.hash : t \in sent} = {m.hash : m \in Involving(w)}
  BY MessageOf
<1>2. \A m, o \in Movements : m.hash = o.hash => m = o
  <2>1. \A m \in Movements : \E i \in DOMAIN block : m = ToWatcherTransaction(i)
    BY EthereumMovement DEF Movements, TransactionsInv
  <2> QED BY <2>1 DEF ToWatcherTransaction
<1>3. Involving(w) \subseteq Movements BY DEF Involving
<1> HIDE DEF w, sent
<1>4. ASSUME NEW t \in sent PROVE t \in Involving(w)
  <2>1. PICK m \in Involving(w) : m.hash = t.hash BY <1>1
  <2> QED BY <1>1, <1>2, <1>3, <2>1
<1>5. ASSUME NEW m \in Involving(w) PROVE m \in sent
  <2>1. PICK t \in sent : t.hash = m.hash BY <1>1
  <2> QED BY <1>1, <1>2, <1>3, <2>1
<1>6. sent = Involving(w) BY <1>4, <1>5
<1> QED BY <1>6 DEF w, sent

\* It implies the types as well.
LEMMA InvariantTypes ==
  ASSUME TransactionsInv
  PROVE  TypeOK
<1>1. /\ txs \in Seq(Transaction) /\ Len(txs) \in Nat /\ DOMAIN txs = 1..Len(txs)
      /\ \A k \in 1..Len(txs) : txs[k] \in Transaction
      /\ Range(txs) \subseteq Transaction
  <2>1. txs \in Seq(Transaction) BY DEF TransactionsInv, ConversionHolds
  <2>2. /\ Len(txs) \in Nat /\ DOMAIN txs = 1..Len(txs)
        /\ \A k \in 1..Len(txs) : txs[k] \in Transaction
    BY <2>1, Sequence
  <2> QED BY <2>1, <2>2 DEF Range
<1>2. \A k \in 1..(next - 1) : txs[k].hash \in Hashes
  <2>1. \A k \in 1..(next - 1) : k \in 1..Len(txs) BY <1>1 DEF TransactionsInv, MapsHold
  <2> QED BY <1>1, <2>1 DEF Transaction
<1>3. \A w : Indexed(w) \subseteq Hashes BY <1>2 DEF Indexed
<1>4. /\ DOMAIN transactionsMap \subseteq Hashes
      /\ \A hash \in DOMAIN transactionsMap : transactionsMap[hash] \in Transaction
  BY <1>1, <1>2 DEF TransactionsInv, MapsHold
<1>5. walletsSet \subseteq Addresses /\ transactionsByWallet \in [walletsSet -> SUBSET Hashes]
  BY <1>3 DEF TransactionsInv, MapsHold
<1>6. watchedWallets \subseteq Wallets /\ turns \in [watchedWallets -> SUBSET Hashes]
  <2>1. \A w \in watchedWallets : turns[w] \subseteq Hashes
    BY <1>3 DEF TransactionsInv, MatchesHold, MatchesOf
  <2> QED BY <2>1 DEF TransactionsInv, MatchesHold
<1>7. \A w \in DOMAIN matchingTxsByWallet : matchingTxsByWallet[w] \in Seq(Transaction)
  BY DEF TransactionsInv, MatchesHold, MatchesOf, Matched, Get
<1> QED
  BY <1>1, <1>4, <1>5, <1>6, <1>7
  DEF TypeOK, TransactionsInv, ConversionHolds, MapsHold, MatchesHold, MessagesHold, StagesHold

\* Every variable has its type, whatever the block and whichever client converts it.
THEOREM TransactionTypes == Spec => []TypeOK
BY TransactionsInvariant, InvariantTypes, PTL

\* Of a block of either client, with any number of transactions and instructions
\* between any wallets, in whatever order the loops visit sets and maps: each
\* watched wallet is sent the hash of every transaction it takes part in, once, with
\* a movement of the block, and no other wallet is sent anything.
THEOREM EachHashOnce == Spec => []OncePerHash
BY TransactionsInvariant, HashesAreSentOnce, PTL

\* A message holds exactly the movements of the block that its wallet takes
\* part in, as the node states them.
THEOREM MessagesHoldTheMovements == Spec => []ExactOnEthereum
BY TransactionsInvariant, EthereumIsExact, PTL
===============================================================================
