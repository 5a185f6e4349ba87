------------------------------- MODULE TxTable -------------------------------
(***************************************************************************)
(* The list of transactions in the graphical interface                     *)
(* (qt/transactiontablemodel.cpp, qt/transactionrecord.cpp): a copy of     *)
(* mapWallet in which a transaction is one row or several, sorted by hash. *)
(*                                                                         *)
(* A timer moves the hashes in vWalletUpdated to the model, under a lock   *)
(* that it only tries to take; the rows are changed under a second lock,   *)
(* by what the wallet has then.  Only CommitTransaction, for the coins it  *)
(* spends, and main.cpp put hashes there: AddToWallet and EraseFromWallet  *)
(* do not.  The confirmations of a row are read again when it is looked at *)
(* and the height differs from the one they were read at.                  *)
(*                                                                         *)
(* What a transaction costs is asked of the transaction, which caches it:  *)
(* it is dropped when the transaction or one that spends it is synced, but *)
(* not when one that it spends comes or goes.                              *)
(*                                                                         *)
(* Whether an output is ours never changes, nor does the time: a lock by   *)
(* date never passes, and who has asked for a transaction is given.        *)
(* Texts, dates and the sort key of the view are left out.                 *)
(***************************************************************************)
EXTENDS Integers, Sequences, SequencesExt

CONSTANTS
    Txs,        \* in the order of their hashes: [coinbase, nLockTime, offline, vin,
                \* vout]; offline if nobody has asked for it; an input is
                \* [from, value], from 0 if it is not ours, and an output
                \* [mine, change, simple, value], simple if it has an address
    Threshold,          \* LOCKTIME_THRESHOLD
    NumConfirmations,
    Maturity,           \* COINBASE_MATURITY
    Limits              \* bounds: [txs, blocks, updated], the transactions of a
                        \* behaviour, its blocks and the hashes in vWalletUpdated

VARIABLES
    mapWallet, nBestHeight,
    at,             \* where the chain has each transaction: 0 or a height
    nDebitCached,   \* of each transaction, or NotCached
    vWalletUpdated,
    updated,        \* what update() has taken and not yet handled
    cachedWallet,
    told,           \* ghost: transactions notified since they came, went or matured
    moved,          \* ghost: transactions of which one they spend came or went since
                    \* they were synced last
    undone,         \* ghost: a block was disconnected since the start
    shown,          \* ghost: the row that was just looked at, or 0
    limits

caches == <<nDebitCached, moved>>
vars == <<mapWallet, nBestHeight, at, caches, vWalletUpdated, updated, cachedWallet, told,
          undone, shown, limits>>
model == <<updated, cachedWallet>>

Tx == DOMAIN Txs
Sum(s, Value(_)) == FoldLeft(LAMBDA v, x : v + Value(x), 0, s)

-----------------------------------------------------------------------------
(* The wallet's answers *)

GetDepthInMainChain(t) == IF at[t] = 0 THEN 0 ELSE nBestHeight - at[t] + 1
Immature(t) == Txs[t].coinbase /\ GetDepthInMainChain(t) <= Maturity
CreditOf(o) == IF o.mine THEN o.value ELSE 0
IsMine(i) == i.from \in mapWallet
DebitOf(i) == IF IsMine(i) THEN i.value ELSE 0
nCredit(t) == IF Immature(t) THEN 0 ELSE Sum(Txs[t].vout, CreditOf)
NotCached == -1
GetDebit(t) == Sum(Txs[t].vin, DebitOf)
nDebit(t) == IF nDebitCached[t] # NotCached THEN nDebitCached[t] ELSE GetDebit(t)
GetValueOut(t) == LET Value(o) == o.value IN Sum(Txs[t].vout, Value)
GetChange(t) ==     \* ours, without an entry in the address book
    LET Value(o) == IF o.mine /\ o.change THEN o.value ELSE 0 IN Sum(Txs[t].vout, Value)

-----------------------------------------------------------------------------
(* The rows of a transaction *)

Unread == [nBestHeight |-> -1, depth |-> 0, status |-> "unread", maturity |-> "mature"]
TransactionRecord(t, idx, type, debit, credit) ==
    [hash |-> t, idx |-> idx, type |-> type, debit |-> debit, credit |-> credit,
     status |-> Unread]

showTransaction(t) == Txs[t].coinbase => GetDepthInMainChain(t) >= 2

IsOurs(o) == o.mine
IsTheirs(o) == ~o.mine

Received(t) ==
    LET outs == SelectSeq(Txs[t].vout, IsOurs)
        Type(o) == IF Txs[t].coinbase THEN "Generated"
                   ELSE IF o.simple THEN "RecvWithAddress" ELSE "RecvFromOther"
    IN  [i \in DOMAIN outs |->
            TransactionRecord(t, i - 1, Type(outs[i]), 0, outs[i].value)]

\* The fee goes with the first output.
WithFeeEach(i, nTxFee) == IF nTxFee > 0 THEN nTxFee ELSE 0
WithFee(i, nTxFee) == IF i = 1 /\ nTxFee > 0 THEN nTxFee ELSE 0

Sent(t, debit) ==
    LET outs == SelectSeq(Txs[t].vout, IsTheirs)
        Type(o) == IF o.simple THEN "SendToAddress" ELSE "SendToOther"
    IN  [i \in DOMAIN outs |->
            TransactionRecord(t, i - 1, Type(outs[i]),
                -(outs[i].value + WithFee(i, debit - GetValueOut(t))), 0)]

decomposeTransaction(t, debit) ==
    LET nNet == nCredit(t) - debit
        fAllFromMe == \A i \in DOMAIN Txs[t].vin : IsMine(Txs[t].vin[i])
        fAllToMe == \A i \in DOMAIN Txs[t].vout : Txs[t].vout[i].mine
    IN  IF ~showTransaction(t) THEN << >>
        ELSE IF nNet > 0 \/ Txs[t].coinbase THEN Received(t)
        ELSE IF fAllFromMe /\ fAllToMe
             THEN << TransactionRecord(t, 0, "SendToSelf", -(debit - GetChange(t)),
                                       nCredit(t) - GetChange(t)) >>
        ELSE IF fAllFromMe THEN Sent(t, debit)
        ELSE << TransactionRecord(t, 0, "Other", nNet, 0) >>

-----------------------------------------------------------------------------
(* The wallet's side *)

Init ==
    /\ mapWallet = {} /\ nBestHeight = 0 /\ at = [t \in Tx |-> 0]
    /\ nDebitCached = [t \in Tx |-> NotCached] /\ moved = {}
    /\ vWalletUpdated = << >> /\ updated = << >> /\ cachedWallet = << >>
    /\ told = Tx /\ undone = FALSE
    /\ shown = 0 /\ limits \in Limits

Notified(hashes) ==
    /\ Len(vWalletUpdated \o hashes) <= limits.updated
    /\ vWalletUpdated' = vWalletUpdated \o hashes
    /\ told' = told \cup ToSet(hashes)

Parents(S) == {t \in Tx : \E c \in S : \E i \in DOMAIN Txs[c].vin : Txs[c].vin[i].from = t}
Children(S) == {t \in Tx : \E i \in DOMAIN Txs[t].vin : Txs[t].vin[i].from \in S}
\* Mutant of MarkDirty: the caches of what is synced itself are kept.
MarkDirtyParents(S, came) ==
    /\ nDebitCached' = [t \in Tx |-> IF t \in Parents(S) THEN NotCached
                                     ELSE nDebitCached[t]]
    /\ moved' = (moved \cup Children(came)) \ (S \cup Parents(S))
\* The transactions S are synced, the ones in came, of S, for the first time: their
\* caches are dropped, and those of what they spend.
MarkDirty(S, came) ==
    /\ nDebitCached' = [t \in Tx |-> IF t \in S \cup Parents(S) THEN NotCached
                                     ELSE nDebitCached[t]]
    /\ moved' = (moved \cup Children(came)) \ (S \cup Parents(S))

\* GetDebit is asked by a listing or a balance.
CacheDebit(t) ==
    /\ t \in mapWallet /\ nDebitCached[t] = NotCached
    /\ nDebitCached' = [nDebitCached EXCEPT ![t] = GetDebit(t)]
    /\ UNCHANGED <<mapWallet, nBestHeight, at, moved, vWalletUpdated, model, told, undone>>

\* CommitTransaction
Commit(t) ==
    LET from == [i \in DOMAIN Txs[t].vin |-> Txs[t].vin[i].from]
    IN  /\ ~Txs[t].coinbase /\ t \notin mapWallet
        /\ ToSet(from) \subseteq mapWallet
        /\ mapWallet' = mapWallet \cup {t}
        /\ Len(vWalletUpdated \o from) <= limits.updated
        /\ vWalletUpdated' = vWalletUpdated \o from
        /\ told' = (told \cup ToSet(from)) \ {t}
        /\ MarkDirty({t}, {t})
        /\ UNCHANGED <<nBestHeight, at, model, undone>>

\* SyncTransaction, of one that is new or known; EraseFromWallet
Receive(t) ==
    /\ ~Txs[t].coinbase
    /\ mapWallet' = mapWallet \cup {t} /\ told' = told \ ({t} \ mapWallet)
    /\ MarkDirty({t}, {t} \ mapWallet)
    /\ UNCHANGED <<nBestHeight, at, vWalletUpdated, model, undone>>
EraseFromWallet(t) ==
    /\ t \in mapWallet /\ at[t] = 0
    /\ mapWallet' = mapWallet \ {t} /\ told' = told \ {t}
    /\ nDebitCached' = [nDebitCached EXCEPT ![t] = NotCached]
    /\ moved' = (moved \cup Children({t})) \ {t}
    /\ UNCHANGED <<nBestHeight, at, vWalletUpdated, model, undone>>

UpdatedTransaction(t) ==
    /\ Notified(<<t>>)
    /\ UNCHANGED <<mapWallet, nBestHeight, at, caches, model, undone>>

\* A block has some of the transactions, and its coinbase comes with it.
ConnectBlock(S) ==
    /\ nBestHeight < limits.blocks
    /\ \A t \in S : at[t] = 0
    /\ nBestHeight' = nBestHeight + 1
    /\ at' = [t \in Tx |-> IF t \in S THEN nBestHeight' ELSE at[t]]
    /\ mapWallet' = mapWallet \cup S
    /\ MarkDirty(S, S \ mapWallet)
    /\ told' = told \ ((S \ mapWallet)
                       \cup {t \in Tx : Txs[t].coinbase /\ at[t] = nBestHeight})
    /\ UNCHANGED <<vWalletUpdated, model, undone>>
DisconnectBlock ==
    /\ nBestHeight > 0
    /\ MarkDirty({t \in Tx : at[t] = nBestHeight}, {})
    /\ nBestHeight' = nBestHeight - 1
    /\ at' = [t \in Tx |-> IF at[t] = nBestHeight THEN 0 ELSE at[t]]
    /\ undone' = TRUE
    /\ UNCHANGED <<mapWallet, vWalletUpdated, model, told>>

-----------------------------------------------------------------------------
(* The model *)

\* updateWallet, one hash of it: lower and upper enclose the rows it has
Lower(rows, hash) == Len(SelectSeq(rows, LAMBDA r : r.hash < hash))
Upper(rows, hash) == Len(SelectSeq(rows, LAMBDA r : r.hash <= hash))
Inserted(rows, place, toInsert) ==
    SubSeq(rows, 1, place) \o toInsert \o SubSeq(rows, place + 1, Len(rows))
UpdatedEach(rows, hash) ==
    IF hash \in mapWallet
    THEN Inserted(rows, Lower(rows, hash), decomposeTransaction(hash, nDebit(hash)))
    ELSE SelectSeq(rows, LAMBDA r : r.hash # hash)
Updated(rows, hash) ==
    LET lower == Lower(rows, hash)
        upper == Upper(rows, hash)
        inModel == lower # upper
    IN  IF hash \in mapWallet /\ ~inModel
        THEN Inserted(rows, lower, decomposeTransaction(hash, nDebit(hash)))
        ELSE IF hash \notin mapWallet /\ inModel
        THEN SubSeq(rows, 1, lower) \o SubSeq(rows, upper + 1, Len(rows))
        ELSE rows

\* update(): the timer takes the hashes if nobody holds the wallet, ...
Take ==
    /\ updated = << >> /\ vWalletUpdated # << >>
    /\ updated' = vWalletUpdated /\ vWalletUpdated' = << >>
    /\ UNCHANGED <<mapWallet, nBestHeight, at, caches, cachedWallet, told, undone>>

\* ... and updateWallet handles them, the greatest first.
UpdateWallet ==
    /\ updated # << >>
    /\ cachedWallet' =
            FoldLeft(Updated, cachedWallet, SortSeq(updated, LAMBDA a, b : a > b))
    /\ nDebitCached' =     \* by decomposeTransaction
            [t \in Tx |-> IF t \in ToSet(updated) \cap mapWallet
                             /\ Lower(cachedWallet, t) = Upper(cachedWallet, t)
                          THEN nDebit(t) ELSE nDebitCached[t]]
    /\ updated' = << >>
    /\ UNCHANGED <<mapWallet, nBestHeight, at, moved, vWalletUpdated, told, undone>>

statusUpdateNeededOnce(rec) == rec.status.nBestHeight = -1
statusUpdateNeeded(rec) == rec.status.nBestHeight # nBestHeight

\* updateStatus: offline if nobody asked for it in two minutes.
Maturing(rec) ==
    IF rec.type # "Generated" \/ nCredit(rec.hash) # 0 THEN "mature"
    ELSE IF at[rec.hash] = 0 THEN "not accepted"
    ELSE IF Txs[rec.hash].offline THEN "warning" ELSE "immature"
updateStatus(rec) ==
    LET t == Txs[rec.hash]
        depth == GetDepthInMainChain(rec.hash)
    IN  [rec EXCEPT !.status =
            [nBestHeight |-> nBestHeight, depth |-> depth,
             status |-> IF t.nLockTime > nBestHeight /\ t.nLockTime < Threshold
                        THEN "open until block"
                        ELSE IF t.nLockTime > nBestHeight THEN "open until date"
                        ELSE IF t.offline THEN "offline"
                        ELSE IF depth < NumConfirmations THEN "unconfirmed" ELSE "confirmed",
             maturity |-> Maturing(rec)]]

\* index(): a row is looked at.
Look(i) ==
    /\ cachedWallet' =
            [cachedWallet EXCEPT ![i] = IF statusUpdateNeeded(@) /\ @.hash \in mapWallet
                                        THEN updateStatus(@) ELSE @]
    /\ shown' = i
    /\ UNCHANGED <<mapWallet, nBestHeight, at, caches, vWalletUpdated, updated, told, undone>>

\* The program starts again: refreshWallet.
Restart ==
    /\ cachedWallet' =
            FlattenSeq([t \in Tx |->
                IF t \in mapWallet THEN decomposeTransaction(t, GetDebit(t)) ELSE << >>])
    /\ nDebitCached' = [t \in Tx |-> IF t \in mapWallet THEN GetDebit(t) ELSE NotCached]
    /\ moved' = {}
    /\ vWalletUpdated' = << >> /\ updated' = << >>
    /\ told' = Tx /\ undone' = FALSE
    /\ UNCHANGED <<mapWallet, nBestHeight, at>>

Step ==
    \/ \E t \in limits.txs :
          \/ Commit(t) \/ Receive(t) \/ EraseFromWallet(t)
          \/ UpdatedTransaction(t) \/ CacheDebit(t)
    \/ \E S \in SUBSET limits.txs : ConnectBlock(S)
    \/ DisconnectBlock
    \/ Take \/ UpdateWallet
    \/ Restart

Next ==
    /\ (Step /\ shown' = 0) \/ \E i \in DOMAIN cachedWallet : Look(i)
    /\ UNCHANGED limits

Spec == Init /\ [][Next]_vars

-----------------------------------------------------------------------------
(* Properties *)

Rows(t) == SelectSeq(cachedWallet, LAMBDA r : r.hash = t)

\* "this is sorted by sha256": the rows are in the order of the hashes, and those of a
\* transaction are numbered without a gap and none is there twice.
RowsOrdered ==
    \A i \in DOMAIN cachedWallet :
        LET r == cachedWallet[i]
        IN  IF i > 1 /\ r.idx > 0
            THEN cachedWallet[i - 1].hash = r.hash /\ cachedWallet[i - 1].idx = r.idx - 1
            ELSE r.idx = 0 /\ (i > 1 => cachedWallet[i - 1].hash < r.hash)

\* updateWallet, "that were added, removed or changed": once a notification that came
\* after the last change is handled, however late, the rows are there if and only if
\* the transaction is (a generated one that is shown stays when its block goes).
RowsCurrent ==
    \A t \in told \ ToSet(vWalletUpdated \o updated) :
        IF t \in mapWallet THEN decomposeTransaction(t, nDebit(t)) # << >> => Rows(t) # << >>
        ELSE Rows(t) = << >>

\* decomposeTransaction: the rows of a transaction add up to what it brought or cost, by
\* the transactions the wallet knows; one that brings more than it costs shows what it
\* brings.  Not so when one that it spends has come or gone since it was synced: its
\* debit may have been cached before.
RowsAddUp ==
    \A t \in mapWallet \ moved : showTransaction(t) =>
        LET Value(r) == r.credit + r.debit
            brought == Sum(Txs[t].vout, CreditOf)
        IN  Sum(decomposeTransaction(t, nDebit(t)), Value) =
                IF Txs[t].coinbase \/ brought > GetDebit(t) THEN brought
                ELSE brought - GetDebit(t)

\* index(): a row that is looked at has the depth its transaction has, and a generated
\* coin is called mature when it can be spent; unless blocks were disconnected, after
\* which the height may be one at which the row was read.
StatusCurrent ==
    ~undone /\ shown # 0 =>
        LET r == cachedWallet[shown]
        IN  r.hash \in mapWallet =>
                /\ r.status.depth = GetDepthInMainChain(r.hash)
                /\ r.type = "Generated" =>
                        (r.status.maturity = "mature" <=> ~Immature(r.hash))

TableMirrors == RowsOrdered /\ RowsCurrent /\ RowsAddUp /\ StatusCurrent
=============================================================================
