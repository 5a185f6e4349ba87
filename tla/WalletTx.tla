------------------------------ MODULE WalletTx ------------------------------
(***************************************************************************)
(* The wallet's transactions (wallet.cpp): mapWallet, the multimap         *)
(* mapTxSpends that tells which coins are spent, the metadata that         *)
(* conflicting transactions share, and the "tx" records of wallet.dat.     *)
(*                                                                         *)
(* Transactions are added by CommitTransaction, by SyncTransaction when    *)
(* the memory pool or a block has them, and are erased, loaded at start    *)
(* and offered to the memory pool again.  Every function runs under        *)
(* cs_main and cs_wallet and is one step; a send is two, because nothing   *)
(* holds the locks from CreateTransaction to CommitTransaction.            *)
(*                                                                         *)
(* All coins belong to this wallet.  Signing, amounts and fees are left    *)
(* out: a transaction is given by the coins it spends, in order.  main.cpp *)
(* is not in the repository; the chain and the memory pool are modelled by *)
(* what the wallet relies on: of two conflicting transactions at most one  *)
(* is accepted, and none without its parents.  The members nOrderPos and   *)
(* nOrderPosNext are not declared in wallet.h; a new CWalletTx is taken to *)
(* have the -1 that accounting_tests.cpp uses for "no position".           *)
(***************************************************************************)
EXTENDS Integers, FiniteSets, Sequences, SequencesExt

CONSTANTS
    Txs,         \* transactions, in the order of their hashes: a sequence
    Coins,
    Vin,         \* Txs -> sequence of the coins a transaction spends
    CreatedBy,   \* Coins -> the transaction the coin is an output of
    Senders,     \* threads that send money
    NoTx,        \* no transaction
    MaxOrder     \* bound of the model: positions handed out per run

VARIABLES
    mapWallet,       \* CWallet::mapWallet
    mapTxSpends,     \* CWallet::mapTxSpends
    nOrderPosNext,
    disk,            \* the "tx" records of wallet.dat
    chain,           \* where the network has each transaction
    sender,          \* the locals of a send in progress
    made,            \* transactions that exist (ghost)
    loaded,          \* transactions this run found in wallet.dat (ghost)
    shadowed         \* hashes that ever had a default CWalletTx (ghost)

vars == <<mapWallet, mapTxSpends, nOrderPosNext, disk, chain, sender, made, loaded,
          shadowed>>
walletVars == <<mapWallet, mapTxSpends, nOrderPosNext, disk>>

Tx == ToSet(Txs)

ASSUME WalletAssumption ==
    /\ Txs \in Seq(Tx)
    /\ Vin \in [Tx -> Seq(Coins)]
    /\ CreatedBy \in [Coins -> Tx]
    /\ NoTx \notin Tx
    /\ MaxOrder \in Nat

Inputs(t) == ToSet(Vin[t])
Parents(t) == {CreatedBy[c] : c \in Inputs(t)}
Outputs(t) == {c \in Coins : CreatedBy[c] = t}
Conflict(t, u) == t # u /\ Inputs(t) \cap Inputs(u) # {}

\* fromAccount stands for strFromAccount, mapValue and vOrderForm: the send they
\* were entered for.  "own" is FALSE for a CWalletTx that was never assigned a
\* transaction.
CWalletTx == [own : BOOLEAN, hashBlock : BOOLEAN, fFromMe : BOOLEAN,
              fromAccount : Tx \cup {NoTx}, nOrderPos : -1..MaxOrder,
              vfSpent : SUBSET Coins]
Record == [hashBlock : BOOLEAN, fFromMe : BOOLEAN,
           fromAccount : Tx \cup {NoTx}, vfSpent : SUBSET Coins]

TypeOK ==
    /\ DOMAIN mapWallet \subseteq Tx
    /\ \A t \in DOMAIN mapWallet :
          /\ mapWallet[t] \in CWalletTx
          /\ mapWallet[t].vfSpent \subseteq (IF mapWallet[t].own THEN Outputs(t) ELSE {})
    /\ mapTxSpends \in [Coins -> SUBSET Tx]
    /\ nOrderPosNext \in 0..MaxOrder
    /\ DOMAIN disk \subseteq Tx
    /\ \A t \in DOMAIN disk : disk[t] \in Record
    /\ chain \in [Tx -> {"none", "pool", "block"}]
    /\ sender \in [Senders -> [tx : Tx \cup {NoTx}, stale : BOOLEAN]]
    /\ made \subseteq Tx
    /\ loaded \cup shadowed \subseteq Tx

Idle == [tx |-> NoTx, stale |-> FALSE]

Init ==
    /\ mapWallet = << >>
    /\ mapTxSpends = [c \in Coins |-> {}]
    /\ nOrderPosNext = 0
    /\ disk = << >>
    /\ chain = [t \in Tx |-> "none"]
    /\ sender = [s \in Senders |-> Idle]
    /\ made = {}
    /\ loaded = {}
    /\ shadowed = {}

-----------------------------------------------------------------------------
(* Queries *)

Accepted == {t \in Tx : chain[t] # "none"}

\* mapWallet has it, as a transaction and not as the default that operator[] made
Has(t) == t \in DOMAIN mapWallet /\ mapWallet[t].own

GetDepthInMainChain(t) ==
    CASE Has(t) /\ chain[t] = "block" /\ mapWallet[t].hashBlock -> 1
      [] Has(t) /\ chain[t] = "pool" -> 0
      [] OTHER -> -1

IsMine(t)   == Outputs(t) # {}
IsFromMe(t) == \E u \in Parents(t) : Has(u)

\* Mutant of IsSpent: a spend in the memory pool does not count.
IsSpentConfirmed(c) ==
    \E t \in mapTxSpends[c] : t \in DOMAIN mapWallet /\ GetDepthInMainChain(t) > 0
IsSpent(c) ==
    \E t \in mapTxSpends[c] : t \in DOMAIN mapWallet /\ GetDepthInMainChain(t) >= 0

\* The checks AvailableCoins makes of a transaction.  CWalletTx::IsTrusted is not in
\* the repository and is taken wide: the older IsConfirmed of wallet.h asks more of
\* a transaction that is from us.
IsTrusted(t) ==
    \/ GetDepthInMainChain(t) >= 1
    \/ GetDepthInMainChain(t) = 0 /\ IsFromMe(t)

AvailableCoins == {c \in Coins : IsTrusted(CreatedBy[c]) /\ ~IsSpent(c)}

-----------------------------------------------------------------------------
(* Adding a transaction *)

Default == [own |-> FALSE, hashBlock |-> FALSE, fFromMe |-> FALSE,
            fromAccount |-> NoTx, nOrderPos |-> -1, vfSpent |-> {}]

\* mapWallet[hash], which inserts a default CWalletTx for a hash it does not have
Touched(wallet, S) ==
    [t \in DOMAIN wallet \cup S |-> IF t \in DOMAIN wallet THEN wallet[t] ELSE Default]

\* The whole range gets the metadata of the member with the smallest nOrderPos.
SyncMetaData(wallet, range) ==
    LET w == Touched(wallet, range)
        copyFrom == CHOOSE t \in range : \A u \in range : w[t].nOrderPos <= w[u].nOrderPos
    IN  [t \in DOMAIN w |->
            IF t \in range
            THEN [w[t] EXCEPT !.fromAccount = w[copyFrom].fromAccount,
                              !.fFromMe = w[copyFrom].fFromMe]
            ELSE w[t]]

\* Mutant of AddToSpends: the range is taken before the insertion.
AddToSpendsTooLate(st, c, t) ==
    [wallet |-> IF st.spends[c] = {} THEN st.wallet
                ELSE SyncMetaData(st.wallet, st.spends[c]),
     spends |-> [st.spends EXCEPT ![c] = @ \cup {t}]]
AddToSpends(st, c, t) ==
    [wallet |-> SyncMetaData(st.wallet, st.spends[c] \cup {t}),
     spends |-> [st.spends EXCEPT ![c] = @ \cup {t}]]

\* mapWallet.insert
WithNew(t, wtxIn) ==
    [u \in DOMAIN mapWallet \cup {t} |->
        IF u = t THEN [wtxIn EXCEPT !.nOrderPos = nOrderPosNext] ELSE mapWallet[u]]

\* The wallet and the spends after the insertion of a transaction, coin by coin.
Inserted(t, wtxIn) ==
    LET after[i \in 0..Len(Vin[t])] ==
            IF i = 0 THEN [wallet |-> WithNew(t, wtxIn), spends |-> mapTxSpends]
            ELSE AddToSpends(after[i - 1], Vin[t][i], t)
    IN  after[Len(Vin[t])]

Merged(wtx, wtxIn) ==
    [wtx EXCEPT !.hashBlock = @ \/ wtxIn.hashBlock, !.fFromMe = @ \/ wtxIn.fFromMe]

AddToWalletMemory(t, wtxIn) ==
    IF t \in DOMAIN mapWallet
    THEN [wallet |-> [mapWallet EXCEPT ![t] = Merged(@, wtxIn)], spends |-> mapTxSpends]
    ELSE Inserted(t, wtxIn)

ToRecord(wtx) == [hashBlock |-> wtx.hashBlock, fFromMe |-> wtx.fFromMe,
                  fromAccount |-> wtx.fromAccount, vfSpent |-> wtx.vfSpent]

\* CWalletTx::WriteToDisk; the record of a default CWalletTx goes under the hash of
\* an empty transaction.
Written(records, wallet, t) ==
    [u \in DOMAIN records \cup (IF wallet[t].own THEN {t} ELSE {}) |->
        IF u = t /\ wallet[t].own THEN ToRecord(wallet[t]) ELSE records[u]]

\* AddToWallet: in memory, and on disk if there is anything new.
Added(t, wtxIn) ==
    LET st  == AddToWalletMemory(t, wtxIn)
        new == t \notin DOMAIN mapWallet
    IN  [wallet |-> st.wallet, spends |-> st.spends,
         next   |-> IF new THEN nOrderPosNext + 1 ELSE nOrderPosNext,
         disk   |-> IF new \/ st.wallet[t] # mapWallet[t]
                    THEN Written(disk, st.wallet, t) ELSE disk]

Shadows(wallet) == {t \in DOMAIN wallet : ~wallet[t].own}
Room(t) == t \in DOMAIN mapWallet \/ nOrderPosNext < MaxOrder

\* SyncTransaction: the pool or a block has t.
SyncTransaction(t, inBlock) ==
    IF t \in DOMAIN mapWallet \/ IsMine(t) \/ IsFromMe(t)
    THEN LET new == Added(t, [Default EXCEPT !.own = TRUE, !.hashBlock = inBlock])
         IN  /\ Room(t)
             /\ mapWallet' = new.wallet
             /\ mapTxSpends' = new.spends
             /\ nOrderPosNext' = new.next
             /\ disk' = new.disk
             /\ shadowed' = shadowed \cup Shadows(new.wallet)
    ELSE UNCHANGED <<walletVars, shadowed>>

-----------------------------------------------------------------------------
(* The chain and the memory pool *)

Acceptable(net, t) ==
    /\ net[t] = "none"
    /\ \A u \in Tx : Conflict(t, u) => net[u] = "none"
    /\ \A u \in Parents(t) : net[u] # "none"

\* A send that is between its two steps notices none of this.
Stale == sender' = [s \in Senders |->
                       [sender[s] EXCEPT !.stale = sender[s].tx # NoTx]]

\* A peer sends t, which this wallet, a copy of it or somebody else made.
Receive(t) ==
    /\ \A s \in Senders : sender[s].tx # t
    /\ Acceptable(chain, t)
    /\ chain' = [chain EXCEPT ![t] = "pool"]
    /\ SyncTransaction(t, FALSE)
    /\ made' = made \cup {t}
    /\ Stale
    /\ UNCHANGED loaded

\* What spends an output of S, or of such a transaction, and so on: the least set
\* with S that has all its children.
Descendants(S) ==
    {t \in Tx : \A D \in SUBSET Tx :
        S \subseteq D /\ (\A u \in Tx : Parents(u) \cap D # {} => u \in D) => t \in D}

\* What leaves the pool for t.
Displaced == [t \in Tx |-> Descendants({u \in Tx : Conflict(t, u)})]

\* A block has t, so what conflicts with it leaves the pool with all that
\* descends from it.
ConnectBlock(t) ==
    LET gone == Displaced[t] IN
    /\ \A s \in Senders : sender[s].tx # t
    /\ chain[t] # "block"
    /\ \A u \in Parents(t) : chain[u] = "block"
    /\ \A u \in gone : chain[u] # "block"
    /\ chain' = [u \in Tx |-> IF u = t THEN "block"
                              ELSE IF u \in gone THEN "none" ELSE chain[u]]
    /\ SyncTransaction(t, TRUE)
    /\ made' = made \cup {t}
    /\ Stale
    /\ UNCHANGED loaded

\* The block of t is disconnected; t goes back to the pool.
DisconnectBlock(t) ==
    /\ chain[t] = "block"
    /\ \A u \in Tx : t \in Parents(u) => chain[u] # "block"
    /\ chain' = [chain EXCEPT ![t] = "pool"]
    /\ SyncTransaction(t, FALSE)
    /\ Stale
    /\ UNCHANGED <<made, loaded>>

-----------------------------------------------------------------------------
(* Sending *)

\* CreateTransaction: a new transaction of available coins.
CreateTransaction(s, t) ==
    /\ sender[s] = Idle
    /\ t \notin made
    /\ Vin[t] # << >> /\ Inputs(t) \subseteq AvailableCoins
    /\ sender' = [sender EXCEPT ![s].tx = t]
    /\ made' = made \cup {t}
    /\ UNCHANGED <<walletVars, chain, loaded, shadowed>>

\* The user declines the fee, or the send fails.
Abort(s) ==
    /\ sender[s] # Idle
    /\ sender' = [sender EXCEPT ![s] = Idle]
    /\ UNCHANGED <<walletVars, chain, made, loaded, shadowed>>

\* Mutant of MarkSpent: the coin is not written.
MarkSpentInMemory(st, c) ==
    LET w == Touched(st.wallet, {CreatedBy[c]}) IN
    IF ~st.ok \/ ~w[CreatedBy[c]].own THEN [st EXCEPT !.ok = FALSE]
    ELSE [st EXCEPT !.wallet = [w EXCEPT ![CreatedBy[c]].vfSpent = @ \cup {c}]]

\* One turn of the loop over vin: mapWallet[prevout.hash].MarkSpent(n), which throws
\* for a default CWalletTx, and WriteToDisk.
MarkSpent(st, c) ==
    LET p == CreatedBy[c]
        w == Touched(st.wallet, {p})
        marked == [w EXCEPT ![p].vfSpent = @ \cup {c}]
    IN  IF ~st.ok THEN st
        ELSE IF ~w[p].own THEN [st EXCEPT !.ok = FALSE, !.wallet = w]
        ELSE [st EXCEPT !.wallet = marked, !.disk = Written(st.disk, marked, p)]

Marked(t, wallet, records) ==
    LET after[i \in 0..Len(Vin[t])] ==
            IF i = 0 THEN [wallet |-> wallet, disk |-> records, ok |-> TRUE]
            ELSE MarkSpent(after[i - 1], Vin[t][i])
    IN  after[Len(Vin[t])]

\* CommitTransaction: record, mark the coins, offer to the pool.
CommitTransaction(s) ==
    LET t     == sender[s].tx
        added == Added(t, [Default EXCEPT !.own = TRUE, !.fFromMe = TRUE,
                                          !.fromAccount = t])
        st    == Marked(t, added.wallet, added.disk)
        taken == st.ok /\ Acceptable(chain, t)
    IN  /\ t # NoTx
        /\ Room(t)
        /\ mapWallet' = st.wallet
        /\ mapTxSpends' = added.spends
        /\ nOrderPosNext' = added.next
        /\ disk' = st.disk
        /\ shadowed' = shadowed \cup Shadows(st.wallet)
        /\ chain' = IF taken THEN [chain EXCEPT ![t] = "pool"] ELSE chain
        /\ sender' = [u \in Senders |->
                         IF u = s THEN Idle
                         ELSE [sender[u] EXCEPT
                                  !.stale = @ \/ (taken /\ sender[u].tx # NoTx)]]
        /\ UNCHANGED <<made, loaded>>

-----------------------------------------------------------------------------
(* Erasing, restarting *)

\* EraseFromWallet, for a transaction the network does not have.  mapTxSpends keeps
\* its entries.
EraseFromWallet(t) ==
    /\ t \in DOMAIN mapWallet
    /\ chain[t] = "none"
    /\ mapWallet' = [u \in DOMAIN mapWallet \ {t} |-> mapWallet[u]]
    /\ disk' = [u \in DOMAIN disk \ {t} |-> disk[u]]
    /\ UNCHANGED <<mapTxSpends, nOrderPosNext, chain, sender, made, loaded, shadowed>>

\* CWalletDB::LoadWallet puts the records into mapWallet, and nothing else.
LoadWallet ==
    [t \in DOMAIN disk |->
        [own |-> TRUE, hashBlock |-> disk[t].hashBlock, fFromMe |-> disk[t].fFromMe,
         fromAccount |-> disk[t].fromAccount, nOrderPos |-> -1,
         vfSpent |-> disk[t].vfSpent]]

Restart ==
    /\ mapWallet' = LoadWallet
    /\ mapTxSpends' = [c \in Coins |-> {}]
    /\ nOrderPosNext' = 0
    /\ chain' = [t \in Tx |-> IF chain[t] = "pool" THEN "none" ELSE chain[t]]
    /\ sender' = [s \in Senders |-> Idle]
    /\ loaded' = DOMAIN disk
    /\ UNCHANGED <<disk, made, shadowed>>

\* AcceptToMemoryPool of a wallet transaction that the pool does not have.
Offered(net, t) ==
    IF Has(t) /\ Acceptable(net, t) THEN [net EXCEPT ![t] = "pool"] ELSE net

\* ReacceptWalletTransactions: in the order of the hashes, so a child may come
\* before its parent and be refused.
ReacceptWalletTransactions ==
    /\ \A t \in DOMAIN mapWallet : mapWallet[t].own         \* assert
    /\ LET after[i \in 0..Len(Txs)] ==
               IF i = 0 THEN chain ELSE Offered(after[i - 1], Txs[i])
       IN  chain' = after[Len(Txs)]
    /\ Stale
    /\ UNCHANGED <<walletVars, made, loaded, shadowed>>

Next ==
    \/ \E t \in Tx : Receive(t) \/ ConnectBlock(t) \/ DisconnectBlock(t)
    \/ \E s \in Senders : \/ \E t \in Tx : CreateTransaction(s, t)
                          \/ Abort(s)
                          \/ CommitTransaction(s)
    \/ \E t \in Tx : EraseFromWallet(t)
    \/ Restart
    \/ ReacceptWalletTransactions

Spec == Init /\ [][Next]_vars

-----------------------------------------------------------------------------
(* Properties *)

\* AvailableCoins, IsSpent: a coin that an accepted transaction spends is not offered
\* for another send, whoever made the transaction and in whatever order the wallet
\* heard of it.  Spends of transactions this run read from wallet.dat are excepted,
\* because LoadWallet does not enter them in mapTxSpends, and so are wallets in
\* which a default CWalletTx took the place of a transaction.
NoSpentCoinOffered ==
    shadowed = {} => \A t \in Accepted \ loaded : Inputs(t) \cap AvailableCoins = {}

\* IsSpent, "Outpoint is spent if any non-conflicted transaction spends it".
SpentIfSpent ==
    \A t \in DOMAIN mapWallet : GetDepthInMainChain(t) >= 0 =>
        \A c \in Inputs(t) : IsSpent(c)

\* CommitTransaction, "This must not fail": when nothing was accepted between the two
\* steps of a send, and no spend was forgotten by a restart or behind a default
\* CWalletTx, the pool takes the transaction.
CommitAccepted ==
    [][\A s \in Senders :
         /\ sender[s].tx # NoTx /\ sender'[s] = Idle /\ mapWallet' # mapWallet
         /\ ~sender[s].stale
         /\ loaded = {} /\ loaded' = {} /\ shadowed = {}
         => chain'[sender[s].tx] = "pool"]_vars

\* CWalletTx::WriteToDisk: what a restart would load is what the wallet has: every
\* transaction, its block and the coins marked spent.
DiskCurrent ==
    \A t \in DOMAIN mapWallet : mapWallet[t].own =>
        /\ t \in DOMAIN disk
        /\ disk[t].hashBlock = mapWallet[t].hashBlock
        /\ disk[t].vfSpent = mapWallet[t].vfSpent

\* SyncMetaData, "all the wallet transactions in range to have the same metadata": it
\* holds of transactions that spend the same single coin (one of two coins takes
\* the metadata of the second, and the first one's range is left behind).
MetadataShared ==
    \A c \in Coins : \A t, u \in mapTxSpends[c] :
        Has(t) /\ Has(u) /\ Vin[t] = <<c>> /\ Vin[u] = <<c>> =>
            mapWallet[t].fromAccount = mapWallet[u].fromAccount

\* The types, and both of these.
RecordsAgree == TypeOK /\ DiskCurrent /\ MetadataShared
=============================================================================
