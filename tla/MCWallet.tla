------------------------------ MODULE MCWallet -------------------------------
(* What the wallet keeps beside its keys, in parts that share no step: a     *)
(* behaviour is one of mapWallet and the coins that are spent, of accounts   *)
(* and balances, of one choice of coins, of the flush thread, or of the list *)
(* of transactions in the graphical interface.                               *)
EXTENDS WalletTx

CONSTANTS
    tf, ta, tb, tm, c1, c2, c3, none,
    Importable, Change, Script, Maturity,
    Fees, CENT, MIN_TX_FEE, BytesPerInput, BytesPerOutput, MaxBytes, FreeBytes,
    Users, Records, CountedRecords, NoEntry,
    Threshold, NumConfirmations

VARIABLES
    part,
    book, current, issued, mine, wallet, height, tip, acentry, nAccountingEntryNumber,
    nOrderPos, setLockedCoins, limits, calls, moves, relabelled,
    vCoins, vecSend, nTransactionFee, nFeeRet, setCoins, level, nChange, reserved, state,
    useCount, otherCount, cs_db, nWalletDBUpdated, handles, logged, dat, flusher, backup,
    fShutdown,
    walletCopied, nBestHeight, at, nDebitCached, vWalletUpdated, updated, cachedWallet, told,
    moved, undone, shown

-----------------------------------------------------------------------------
\* A receipt of two coins, two spends of the one, and a spend of the other with the
\* change of the first; the child has a smaller hash than its parent.
MCTxs == <<tm, tf, ta, tb>>
MCVin == [t \in {tf, ta, tb, tm} |->
            IF t = tf THEN << >> ELSE IF t = tm THEN <<c2, c3>> ELSE <<c1>>]
MCCreatedBy == [c \in {c1, c2, c3} |-> IF c = c3 THEN ta ELSE tf]

To(dest, value) == [dest |-> dest, value |-> value]
Entry(coinbase, ours, vin, vout) ==
    [coinbase |-> coinbase, ours |-> ours, vin |-> vin, vout |-> vout]
Bounds(txs, maxBlocks, maxMoves, maxCalls) ==
    [txs |-> txs, blocks |-> maxBlocks, moves |-> maxMoves, calls |-> maxCalls]

\* A send with change that spends a receipt, a mined coin, a receipt that is also to an
\* address whose key may be imported, a receipt of a spend that is not ours, and one to
\* the importable address only.
A == INSTANCE Accounts WITH
    Txs <- << Entry(FALSE, TRUE, {<<3, 1>>}, <<To("x", 2), To("k1", 1), To("c", 1)>>),
              Entry(TRUE, FALSE, {}, <<To("k1", 4)>>),
              Entry(FALSE, FALSE, {}, <<To("k1", 5), To("i1", 3)>>),
              Entry(FALSE, FALSE, {<<5, 1>>}, <<To("k1", 2)>>),
              Entry(FALSE, FALSE, {}, <<To("i1", 3)>>) >>,
    Keys <- <<"k1", "k2">>, Names <- {"", "a"}, Default <- "", None <- none,
    nOrderPosNext <- nOrderPos,
    Limits <- {Bounds({3}, 0, 0, 3), Bounds({1, 3}, 2, 0, 1), Bounds({2}, 2, 0, 1),
               Bounds({3}, 0, 2, 1), Bounds({3}, 1, 1, 1), Bounds({4, 5}, 1, 0, 2)}

Coin(value, nDepth, fromMe) == [value |-> value, nDepth |-> nDepth, fromMe |-> fromMe]
S == INSTANCE CoinSelect WITH
    Wallets <- {<<Coin(v, 6, FALSE), Coin(w, d, FALSE), Coin(4, 1, TRUE), Coin(y, e, TRUE)>> :
                    v \in {3, 5}, w \in {2, 9}, y \in {1, 10}, d \in {1, 6}, e \in {0, 1}},
    Payments <- {<<1>>, <<5>>, <<7>>, <<4, 6>>, <<11>>}

D == INSTANCE WalletFlush

Out(ours, change, simple, value) ==
    [mine |-> ours, change |-> change, simple |-> simple, value |-> value]
In(from, value) == [from |-> from, value |-> value]
Shown(coinbase, nLockTime, offline, vin, vout) ==
    [coinbase |-> coinbase, nLockTime |-> nLockTime, offline |-> offline, vin |-> vin,
     vout |-> vout]

\* A receipt of two outputs, a send of both with change, and a mined coin.
G == INSTANCE TxTable WITH
    Txs <- << Shown(FALSE, 1, FALSE, <<In(0, 9)>>,
                    <<Out(TRUE, FALSE, TRUE, 5), Out(FALSE, FALSE, TRUE, 2),
                      Out(TRUE, FALSE, FALSE, 1)>>),
              Shown(FALSE, 7, FALSE, <<In(1, 5), In(1, 1)>>,
                    <<Out(FALSE, FALSE, TRUE, 2), Out(TRUE, TRUE, TRUE, 1),
                      Out(FALSE, FALSE, FALSE, 1)>>),
              Shown(TRUE, 0, TRUE, <<In(0, 0)>>, <<Out(TRUE, FALSE, TRUE, 3)>>) >>,
    Maturity <- 2, mapWallet <- walletCopied,
    Limits <- {[txs |-> {1, 2}, blocks |-> 0, updated |-> 1],
               [txs |-> {1}, blocks |-> 2, updated |-> 2],
               [txs |-> {3}, blocks |-> 3, updated |-> 2]}

-----------------------------------------------------------------------------
accounts == <<book, current, issued, mine, wallet, height, tip, acentry,
              nAccountingEntryNumber, nOrderPos, setLockedCoins, calls, moves, relabelled>>
coins == <<vCoins, vecSend, nTransactionFee, nFeeRet, setCoins, level, nChange, reserved,
           state>>
flush == <<useCount, otherCount, cs_db, nWalletDBUpdated, handles, logged, dat, flusher,
           backup, fShutdown>>
table == <<walletCopied, nBestHeight, at, nDebitCached, vWalletUpdated, updated,
           cachedWallet, told, moved, undone, shown>>
allVars == <<part, limits, vars, accounts, coins, flush, table>>

\* The parts that a behaviour is not of stay as they are here.
WalletInit ==
    /\ part \in {"tx", "accounts", "coins", "flush", "table"}
    /\ Init
    /\ IF part = "accounts" THEN A!Init
       ELSE /\ book = 0 /\ current = 0 /\ issued = 0 /\ mine = 0 /\ wallet = 0
            /\ height = 0 /\ tip = 0 /\ acentry = 0 /\ nAccountingEntryNumber = 0
            /\ nOrderPos = 0 /\ setLockedCoins = 0 /\ calls = 0 /\ moves = 0
            /\ relabelled = 0
    /\ IF part = "coins" THEN S!Init
       ELSE /\ vCoins = 0 /\ vecSend = 0 /\ nTransactionFee = 0 /\ nFeeRet = 0
            /\ setCoins = 0 /\ level = 0 /\ nChange = 0 /\ reserved = 0 /\ state = 0
    /\ IF part = "flush" THEN D!Init
       ELSE /\ useCount = 0 /\ otherCount = 0 /\ cs_db = 0 /\ nWalletDBUpdated = 0
            /\ handles = 0 /\ logged = 0 /\ dat = 0 /\ flusher = 0 /\ backup = 0
            /\ fShutdown = 0
    /\ IF part = "table" THEN G!Init
       ELSE /\ walletCopied = 0 /\ nBestHeight = 0 /\ at = 0 /\ vWalletUpdated = 0
            /\ updated = 0 /\ cachedWallet = 0 /\ told = 0 /\ undone = 0 /\ shown = 0
            /\ nDebitCached = 0 /\ moved = 0
    /\ part \notin {"accounts", "table"} => limits = 0

TxNext ==
    part = "tx" /\ Next /\ UNCHANGED <<part, limits, accounts, coins, flush, table>>
AccountsNext ==
    part = "accounts" /\ A!Next /\ UNCHANGED <<part, vars, coins, flush, table>>
CoinsNext ==
    part = "coins" /\ S!Next
    /\ UNCHANGED <<part, limits, vars, accounts, flush, table>>
FlushNext ==
    part = "flush" /\ D!Next
    /\ UNCHANGED <<part, limits, vars, accounts, coins, table>>
TableNext ==
    part = "table" /\ G!Next /\ UNCHANGED <<part, vars, accounts, coins, flush>>

WalletNext == TxNext \/ AccountsNext \/ CoinsNext \/ FlushNext \/ TableNext

WalletSpec == WalletInit /\ [][WalletNext]_allVars

-----------------------------------------------------------------------------
(* Properties, beside those of WalletTx *)

\* Every way rpcwallet.cpp adds amounts up agrees, and no cache of a transaction is
\* stale where one is asked for; what CreateTransaction spends is what is paid, the
\* change and the fee that the size needs, out of coins allowed by their depth, and it
\* fails only for want of them; ThreadFlushWalletDB: what it takes for flushed is, and
\* nothing is read from wallet.dat while the log has more.
BooksAgree ==
    /\ part = "accounts" => A!AccountsAgree
    /\ part = "coins" => S!MadeBalances /\ S!FailsForWant /\ S!CoinsSelected
    /\ part = "flush" => D!FlushedSafely

\* TransactionTableModel: the list in the interface is a copy of the wallet as far as
\* it was told, whatever happens between the telling and the reading.
TableMirrors == part = "table" => G!TableMirrors
=============================================================================
