------------------------------ MODULE Accounts ------------------------------
(* The account calls of rpcwallet.cpp: the address book, the current address *)
(* of each account, moves, sends and imports, the caches of CWalletTx and    *)
(* the many ways to add the same amounts up.  Every call runs under cs_main  *)
(* and cs_wallet, so it is one action.  All transactions are final and none  *)
(* is watch-only.                                                            *)
EXTENDS Integers, FiniteSets, FiniteSetsExt, SequencesExt

CONSTANTS
    Txs,        \* transactions in the order of their hashes, see Tx below
    Keys,       \* the addresses of the key pool, in the order they are issued
    Importable, \* addresses whose keys importprivkey may bring
    Change,     \* an address of ours that is never entered in the address book
    Script,     \* the address of a multi-signature script
    Names,      \* account names
    Default,    \* the name of the account that is called ""
    None,
    Maturity,   \* COINBASE_MATURITY
    Limits      \* bounds: the transactions, blocks, moves and calls of a behaviour

Amount == 1     \* what every move moves

VARIABLES
    book,       \* mapAddressBook and the "name" records
    current,    \* the "acc" records: the current address of an account
    issued,     \* how many addresses of the pool were issued
    mine,       \* addresses of the key store
    wallet,     \* mapWallet: the position, account and spent coins of each transaction
    height,     \* where the network has each transaction: -1, 0 for the pool, a block
    tip,        \* chainActive.Height()
    acentry,    \* the "acentry" records, by account and number
    nAccountingEntryNumber, nOrderPosNext,
    setLockedCoins,
    limits, calls, moves,   \* the bounds, and what they bound
    relabelled              \* ghost: addresses that the GUI or an import named

vars == <<book, current, issued, mine, wallet, height, tip, acentry,
          nAccountingEntryNumber, nOrderPosNext, setLockedCoins, limits, calls, moves,
          relabelled>>
names == <<book, current, issued, relabelled>>
ledger == <<acentry, nAccountingEntryNumber, moves>>

chain == <<height, tip>>

Tx == DOMAIN Txs
Uncached == [debit |-> None, credit |-> None, available |-> None]

Init ==
    /\ book = << >>
    /\ current = [a \in Names |-> None]
    /\ issued = 0
    /\ mine = ToSet(Keys) \cup {Change}
    /\ wallet = << >>
    /\ height = [t \in Tx |-> -1]
    /\ tip = 0
    /\ acentry = << >>
    /\ nAccountingEntryNumber = 0
    /\ nOrderPosNext = 0
    /\ setLockedCoins = {}
    /\ limits \in Limits
    /\ calls = 0 /\ moves = 0 /\ relabelled = {}

-----------------------------------------------------------------------------
(* What a transaction means to the wallet *)

Sum(S, value(_)) == MapThenSumSet(value, S)
Outputs(t) == DOMAIN Txs[t].vout
ValueOut(t) == Sum(Outputs(t), LAMBDA i : Txs[t].vout[i].value)

GetDepthInMainChain(t) ==
    IF height[t] > 0 THEN 1 + tip - height[t] ELSE height[t]
GetBlocksToMaturity(t) ==
    IF Txs[t].coinbase THEN Max({0, Maturity + 1 - GetDepthInMainChain(t)}) ELSE 0

IsMineOut(t, i) == Txs[t].vout[i].dest \in mine
Debit(t) == Sum({c \in Txs[t].vin : c[1] \in DOMAIN wallet /\ IsMineOut(c[1], c[2])},
                LAMBDA c : Txs[c[1]].vout[c[2]].value)
Credit(t) == Sum({i \in Outputs(t) : IsMineOut(t, i)}, LAMBDA i : Txs[t].vout[i].value)
Available(t) == Sum({i \in Outputs(t) \ wallet[t].vfSpent : IsMineOut(t, i)},
                    LAMBDA i : Txs[t].vout[i].value)

\* CWalletTx::GetDebit, GetCredit and GetAvailableCredit: what is cached is returned,
\* and an immature coinbase counts for nothing and is not cached.
Cached(value, computed) == IF value # None THEN value ELSE computed
GetDebit(t) == Cached(wallet[t].cache.debit, Debit(t))
GetCredit(t) ==
    IF GetBlocksToMaturity(t) > 0 THEN 0 ELSE Cached(wallet[t].cache.credit, Credit(t))
GetAvailableCredit(t) ==
    IF GetBlocksToMaturity(t) > 0 THEN 0
    ELSE Cached(wallet[t].cache.available, Available(t))

IsFromMe(t) == GetDebit(t) > 0
\* CWalletTx::IsTrusted is not in the repository; WalletTx takes it the same way.
IsTrusted(t) == \/ GetDepthInMainChain(t) >= 1
                \/ GetDepthInMainChain(t) = 0 /\ IsFromMe(t)

\* A payment to us whose address is not in the address book.
IsChange(t, i) == IsMineOut(t, i) /\ Txs[t].vout[i].dest \notin DOMAIN book

\* CWalletTx::GetAmounts: what is listed as sent and as received, and the fee.
GetAmounts(t) ==
    LET listed == IF IsFromMe(t) THEN {i \in Outputs(t) : ~IsChange(t, i)}
                  ELSE {i \in Outputs(t) : IsMineOut(t, i)}
    IN  [listSent |-> IF IsFromMe(t) THEN listed ELSE {},
         listReceived |-> {i \in listed : IsMineOut(t, i)},
         nFee |-> IF IsFromMe(t) THEN GetDebit(t) - ValueOut(t) ELSE 0]
AmountOf(t, S) == Sum(S, LAMBDA i : Txs[t].vout[i].value)

\* The account an output is received by: one that is not in the address book, the
\* account without a name.
AccountOf(t, i) ==
    IF Txs[t].vout[i].dest \in DOMAIN book THEN book[Txs[t].vout[i].dest] ELSE Default

\* CWalletTx::GetAccountAmounts
GetAccountAmounts(t, name) ==
    LET a == GetAmounts(t)
        sent == wallet[t].fromAccount = name
    IN  [nReceived |-> AmountOf(t, {i \in a.listReceived : AccountOf(t, i) = name}),
         nSent |-> IF sent THEN AmountOf(t, a.listSent) ELSE 0,
         nFee |-> IF sent THEN a.nFee ELSE 0]

-----------------------------------------------------------------------------
(* Balances *)

\* CWalletDB::ListAccountCreditDebit: a scan of the records from the account's first.
ListAccountCreditDebit(name) == {k \in DOMAIN acentry : k[1] = name}
GetAccountCreditDebit(name) ==
    Sum(ListAccountCreditDebit(name), LAMBDA k : acentry[k].nCreditDebit)

Counted(t) == GetBlocksToMaturity(t) = 0 /\ GetDepthInMainChain(t) >= 0

\* Mutant of GetAccountBalance: the fee is not the account's.
GetAccountBalanceFree(name, nMinDepth) ==
    GetAccountCreditDebit(name)
    + Sum({t \in DOMAIN wallet : Counted(t)},
          LAMBDA t : LET a == GetAccountAmounts(t, name)
                     IN  (IF GetDepthInMainChain(t) >= nMinDepth THEN a.nReceived ELSE 0)
                         - a.nSent)

\* GetAccountBalance: spends count from the start, receipts from nMinDepth on.
GetAccountBalance(name, nMinDepth) ==
    GetAccountCreditDebit(name)
    + Sum({t \in DOMAIN wallet : Counted(t)},
          LAMBDA t : LET a == GetAccountAmounts(t, name)
                     IN  (IF GetDepthInMainChain(t) >= nMinDepth THEN a.nReceived ELSE 0)
                         - a.nSent - a.nFee)

\* CWallet::GetBalance
GetBalance ==
    Sum({t \in DOMAIN wallet : IsTrusted(t)}, LAMBDA t : GetAvailableCredit(t))

\* getbalance "*": what was received less what was sent
GetBalanceOfAll(nMinDepth) ==
    Sum({t \in DOMAIN wallet : IsTrusted(t) /\ GetBlocksToMaturity(t) = 0},
        LAMBDA t : LET a == GetAmounts(t)
                   IN  (IF GetDepthInMainChain(t) >= nMinDepth
                        THEN AmountOf(t, a.listReceived) ELSE 0)
                       - AmountOf(t, a.listSent) - a.nFee)

\* listaccounts: an account for every address of ours and for whatever else comes up
ListAccounts(nMinDepth) ==
    LET counted == {t \in DOMAIN wallet : Counted(t)}
        own == {book[d] : d \in DOMAIN book \cap mine}
        senders == {wallet[t].fromAccount : t \in counted}
        receivers(t) == {AccountOf(t, i) : i \in GetAmounts(t).listReceived}
        shown == own \cup senders \cup {k[1] : k \in DOMAIN acentry} \cup
                 UNION {receivers(t) : t \in {u \in counted :
                                          GetDepthInMainChain(u) >= nMinDepth}}
    IN  [a \in shown |->
            GetAccountCreditDebit(a)
            + Sum(counted, LAMBDA t :
                LET m == GetAmounts(t)
                    got == {i \in m.listReceived : AccountOf(t, i) = a}
                IN  (IF wallet[t].fromAccount = a
                     THEN -(m.nFee + AmountOf(t, m.listSent)) ELSE 0)
                    + (IF GetDepthInMainChain(t) >= nMinDepth
                       THEN AmountOf(t, got) ELSE 0))]

-----------------------------------------------------------------------------
(* What was received *)

Tallied(t, nMinDepth) == ~Txs[t].coinbase /\ GetDepthInMainChain(t) >= nMinDepth

\* getreceivedbyaddress
GetReceivedByAddress(d, nMinDepth) ==
    IF d \notin mine THEN 0
    ELSE Sum({<<t, i>> \in (DOMAIN wallet) \X (1..3) :
                 /\ Tallied(t, nMinDepth)
                 /\ i \in Outputs(t) /\ Txs[t].vout[i].dest = d},
             LAMBDA c : Txs[c[1]].vout[c[2]].value)

\* getreceivedbyaccount
GetReceivedByAccount(name, nMinDepth) ==
    LET setAddress == {d \in DOMAIN book : book[d] = name} IN
    Sum({t \in DOMAIN wallet : Tallied(t, nMinDepth)},
        LAMBDA t : AmountOf(t, {i \in Outputs(t) : /\ IsMineOut(t, i)
                                                   /\ Txs[t].vout[i].dest \in setAddress}))

\* ListReceived: a tally by address, read through the address book
Tally(nMinDepth) ==
    LET at == {<<t, i>> \in (DOMAIN wallet) \X (1..3) :
                  i \in Outputs(t) /\ Tallied(t, nMinDepth) /\ IsMineOut(t, i)}
        dest(c) == Txs[c[1]].vout[c[2]].dest
    IN  [d \in {dest(c) : c \in at} |->
            [nAmount |-> Sum({c \in at : dest(c) = d},
                             LAMBDA c : Txs[c[1]].vout[c[2]].value),
             nConf |-> Min({GetDepthInMainChain(c[1]) : c \in {e \in at : dest(e) = d}})]]
ListReceivedByAccount(nMinDepth) ==
    LET mapTally == Tally(nMinDepth)
        seen == {d \in DOMAIN book : d \in DOMAIN mapTally}
    IN  [a \in {book[d] : d \in seen} |->
            LET of == {d \in seen : book[d] = a} IN
            [nAmount |-> Sum(of, LAMBDA d : mapTally[d].nAmount),
             nConf |-> Min({mapTally[d].nConf : d \in of})]]

-----------------------------------------------------------------------------
(* Lists *)

\* ListTransactions: the entries of one transaction, what was sent before what was
\* received, each with the account it is listed under.
ListTransactions(t, name, nMinDepth) ==
    LET a == GetAmounts(t)
        received == IF GetDepthInMainChain(t) >= nMinDepth THEN a.listReceived ELSE {}
        listed(S, sign) ==
            [n \in 1..Cardinality(S) |->
                LET i == SetToSortSeq(S, <)[n] IN
                [of |-> t, amount |-> sign * Txs[t].vout[i].value,
                 account |-> IF sign < 0 THEN wallet[t].fromAccount ELSE AccountOf(t, i)]]
    IN  SelectSeq(listed(a.listSent, -1) \o listed(received, 1),
                  LAMBDA e : name = "*" \/ e.account = name)

\* AcentryToJSON, for the entry of a number
AcentryToJSON(number) ==
    LET k == CHOOSE e \in DOMAIN acentry : e[2] = number
    IN  [of |-> 0, amount |-> acentry[k].nCreditDebit, account |-> k[1]]

\* CWallet::OrderedTxItems, backwards: by position, and transactions before accounting
\* entries of the same.  A position is not part of what CAccountingEntry writes, so
\* every entry comes back with -1.
OrderedTxItems(name) ==
    LET txs == {<<wallet[t].nOrderPos, 0, t>> : t \in DOMAIN wallet}
        entries == {<<-1, 1, k[2]>> : k \in {e \in DOMAIN acentry : name \in {"*", e[1]}}}
        after(x, y) == \/ x[1] > y[1]
                       \/ x[1] = y[1] /\ x[2] > y[2]
                       \/ x[1] = y[1] /\ x[2] = y[2] /\ x[3] > y[3]
    IN  SetToSortSeq(txs \cup entries, after)

Item(x, name) ==
    IF x[2] = 0 THEN ListTransactions(x[3], name, 0) ELSE <<AcentryToJSON(x[3])>>

\* Mutant of Enough: the entries to be skipped are not counted.
EnoughForCount(n, nCount, nFrom) == n >= nCount
Enough(n, nCount, nFrom) == n >= nCount + nFrom

\* listtransactions: items from the newest until there are enough, then the window.
ListTransactionsPage(name, nCount, nFrom) ==
    LET items == OrderedTxItems(name)
        upTo[n \in 0..Len(items)] ==
            IF n = 0 THEN << >>
            ELSE LET ret == upTo[n - 1]
                 IN  IF n > 1 /\ Enough(Len(ret), nCount, nFrom) THEN ret
                     ELSE ret \o Item(items[n], name)
        all == upTo[Len(items)]
        from == Min({nFrom, Len(all)})
        last == Min({nFrom + nCount, Len(all)})
    IN  Reverse(SubSeq(all, from + 1, last))

\* listsinceblock of a block of the active chain: what is not as deep as the block.
ListSinceBlock(nHeight) ==
    LET depth == 1 + tip - nHeight
    IN  {t \in DOMAIN wallet : GetDepthInMainChain(t) < depth}

\* gettransaction: the net amount without the fee
GetTransaction(t) ==
    LET nFee == IF IsFromMe(t) THEN ValueOut(t) - GetDebit(t) ELSE 0
    IN  GetCredit(t) - GetDebit(t) - nFee

-----------------------------------------------------------------------------
(* Caches *)

\* The queries leave what they computed in the caches of the transactions.
Fill(debits, credits, availables) ==
    wallet' = [t \in DOMAIN wallet |->
        [wallet[t] EXCEPT
            !.cache.debit = IF t \in debits THEN GetDebit(t) ELSE @,
            !.cache.credit = IF t \in credits /\ GetBlocksToMaturity(t) = 0
                             THEN GetCredit(t) ELSE @,
            !.cache.available = IF t \in availables /\ GetBlocksToMaturity(t) = 0
                                THEN GetAvailableCredit(t) ELSE @]]

QueryBalance ==
    /\ Fill({t \in DOMAIN wallet : GetDepthInMainChain(t) = 0}, {},
            {t \in DOMAIN wallet : IsTrusted(t)})
    /\ UNCHANGED <<names, mine, chain, ledger, nOrderPosNext, setLockedCoins, limits, calls>>
QueryList ==
    /\ Fill(DOMAIN wallet, {}, {})
    /\ UNCHANGED <<names, mine, chain, ledger, nOrderPosNext, setLockedCoins, limits, calls>>
QueryTransaction(t) ==
    /\ t \in DOMAIN wallet
    /\ Fill({t}, {t}, {})
    /\ UNCHANGED <<names, mine, chain, ledger, nOrderPosNext, setLockedCoins, limits, calls>>

\* Mutant of Dirty: the credit that is available is kept.
DirtyButAvailable(w, S) ==
    [t \in DOMAIN w |->
        IF t \in S THEN [w[t] EXCEPT !.cache.debit = None, !.cache.credit = None]
        ELSE w[t]]
\* CWalletTx::MarkDirty of some transactions
Dirty(w, S) == [t \in DOMAIN w |-> IF t \in S THEN [w[t] EXCEPT !.cache = Uncached] ELSE w[t]]

-----------------------------------------------------------------------------
(* The network and the chain *)

Parents(t) == {c[1] : c \in Txs[t].vin}
Involved(w, own, t) ==
    \/ \E i \in Outputs(t) : Txs[t].vout[i].dest \in own
    \/ \E c \in Txs[t].vin : c[1] \in DOMAIN w /\ Txs[c[1]].vout[c[2]].dest \in own

\* AddToWallet of one that is new or known: its caches are broken.
Added(w, t, pos, name) ==
    [u \in DOMAIN w \cup {t} |->
        IF u # t THEN w[u]
        ELSE IF t \in DOMAIN w THEN [w[t] EXCEPT !.cache = Uncached]
        ELSE [nOrderPos |-> pos, fromAccount |-> name, vfSpent |-> {}, cache |-> Uncached]]

\* SyncTransaction, for the pool and blocks: t and what it spends are recomputed.
Synced(w, S) ==
    LET step(st, t) ==
            IF t \notin DOMAIN st.w /\ ~Involved(st.w, mine, t) THEN st
            ELSE [w |-> Dirty(Added(st.w, t, st.next, Default),
                              Parents(t) \cap DOMAIN st.w),
                  next |-> IF t \in DOMAIN st.w THEN st.next ELSE st.next + 1]
    IN  FoldLeft(step, [w |-> w, next |-> nOrderPosNext], SetToSortSeq(S, <))
Sync(S) ==
    LET st == Synced(wallet, S) IN wallet' = st.w /\ nOrderPosNext' = st.next

\* A transaction may pay a key of the pool once its address was given to somebody.
Payable(t) == t \in limits.txs /\ \A i \in Outputs(t) : \A n \in DOMAIN Keys :
                 Txs[t].vout[i].dest = Keys[n] => n <= issued

Receive(t) ==
    /\ height[t] = -1 /\ ~Txs[t].coinbase /\ ~Txs[t].ours /\ Payable(t)
    /\ \A u \in Parents(t) : height[u] >= 0
    /\ height' = [height EXCEPT ![t] = 0]
    /\ Sync({t})
    /\ UNCHANGED <<names, mine, tip, ledger, setLockedCoins, limits, calls>>

\* A block takes a coinbase or part of the pool, with the parents.
ConnectBlock(S) ==
    /\ tip < limits.blocks
    /\ \A t \in S : IF Txs[t].coinbase THEN height[t] = -1 /\ Payable(t) ELSE height[t] = 0
    /\ \A t \in S : \A u \in Parents(t) : u \in S \/ height[u] > 0
    /\ tip' = tip + 1
    /\ height' = [t \in Tx |-> IF t \in S THEN tip + 1 ELSE height[t]]
    /\ Sync(S)
    /\ UNCHANGED <<names, mine, ledger, setLockedCoins, limits, calls>>

DisconnectBlock ==
    LET S == {t \in Tx : height[t] = tip} IN
    /\ tip > 0
    /\ tip' = tip - 1
    /\ height' = [t \in Tx |-> IF t \notin S THEN height[t]
                               ELSE IF Txs[t].coinbase THEN -1 ELSE 0]
    /\ Sync(S)
    /\ UNCHANGED <<names, mine, ledger, setLockedCoins, limits, calls>>

-----------------------------------------------------------------------------
(* Calls *)

\* A call that changes the address book or the current addresses.
Calling == calls < limits.calls /\ calls' = calls + 1

Named(d, name) == [x \in DOMAIN book \cup {d} |-> IF x = d THEN name ELSE book[x]]
HasReceived(d) == \E t \in DOMAIN wallet : \E i \in Outputs(t) : Txs[t].vout[i].dest = d

\* getnewaddress: the next key of the pool, which has one (KeyPool models the pool).
GetNewAddress(name) ==
    /\ Calling
    /\ issued < Len(Keys)
    /\ issued' = issued + 1
    /\ book' = Named(Keys[issued + 1], name)
    /\ UNCHANGED <<current, relabelled, mine, wallet, chain, ledger, nOrderPosNext,
                   setLockedCoins, limits>>

\* GetAccountAddress, on a copy of the names: the current address while it has not
\* received anything, otherwise a new one; the pool may have run out.
Naming == [book |-> book, current |-> current, issued |-> issued, ok |-> TRUE]
GetAccountAddress(n, name, bForceNew) ==
    IF n.current[name] # None /\ ~bForceNew /\ ~HasReceived(n.current[name]) THEN n
    ELSE IF n.issued = Len(Keys) THEN [n EXCEPT !.ok = FALSE]
    ELSE LET d == Keys[n.issued + 1] IN
         [book |-> [x \in DOMAIN n.book \cup {d} |-> IF x = d THEN name ELSE n.book[x]],
          current |-> [n.current EXCEPT ![name] = d],
          issued |-> n.issued + 1, ok |-> TRUE]

\* getaccountaddress
GetAccountAddressCall(name) ==
    LET n == GetAccountAddress(Naming, name, FALSE) IN
    /\ Calling
    /\ book' = n.book /\ current' = n.current /\ issued' = n.issued
    /\ UNCHANGED <<relabelled, mine, wallet, chain, ledger, nOrderPosNext, setLockedCoins, limits>>

\* Mutant of GivenUp: the old account keeps the address as its current one.
GivenUpNever(d) == Naming
\* An address that is the unused current address of its account is replaced there.
GivenUp(d) ==
    IF d \notin DOMAIN book THEN Naming
    ELSE LET n == GetAccountAddress(Naming, book[d], FALSE) IN
         IF n.ok /\ n.current[book[d]] = d THEN GetAccountAddress(n, book[d], TRUE) ELSE n

\* setaccount; when the pool has run out the call ends before the name is set.
SetAccount(d, name) ==
    LET n == GivenUp(d) IN
    /\ Calling
    /\ book' = IF n.ok THEN [x \in DOMAIN n.book \cup {d} |-> IF x = d THEN name
                                                             ELSE n.book[x]]
               ELSE n.book
    /\ current' = n.current /\ issued' = n.issued
    /\ UNCHANGED <<relabelled, mine, wallet, chain, ledger, nOrderPosNext, setLockedCoins, limits>>

\* AddressTableModel::setData for a receiving address, which asks none of this.
Relabel(d, name) ==
    /\ Calling
    /\ d \in DOMAIN book
    /\ book' = Named(d, name)
    /\ relabelled' = relabelled \cup {d}
    /\ UNCHANGED <<current, issued, mine, wallet, chain, ledger, nOrderPosNext,
                   setLockedCoins, limits>>

\* addmultisigaddress
AddMultiSigAddress(name) ==
    /\ Calling
    /\ book' = Named(Script, name)
    /\ UNCHANGED <<current, issued, relabelled, mine, wallet, chain, ledger, nOrderPosNext,
                   setLockedCoins, limits>>

\* Mutant of Recomputed: importprivkey leaves the caches to the rescan.
RecomputedNever == wallet
Recomputed == Dirty(wallet, DOMAIN wallet)

\* ScanForWalletTransactions from the first block, in the order of the chain: what the
\* wallet has is updated, what involves it is added.
Rescanned(own) ==
    LET inChain == {t \in Tx : height[t] > 0}
        earlier(t, u) == \/ height[t] < height[u]
                         \/ height[t] = height[u] /\ t < u
        step(st, t) ==
            IF t \notin DOMAIN st.w /\ ~Involved(st.w, own, t) THEN st
            ELSE [w |-> Added(st.w, t, st.next, Default),
                  next |-> IF t \in DOMAIN st.w THEN st.next ELSE st.next + 1]
    IN  FoldLeft(step, [w |-> Recomputed, next |-> nOrderPosNext],
                 SetToSortSeq(inChain, earlier))

\* importprivkey
ImportPrivKey(d, name) ==
    LET st == Rescanned(mine \cup {d}) IN
    /\ Calling
    /\ book' = Named(d, name)
    /\ mine' = mine \cup {d}
    /\ wallet' = st.w /\ nOrderPosNext' = st.next
    /\ relabelled' = relabelled \cup {d}
    /\ UNCHANGED <<current, issued, chain, ledger, setLockedCoins, limits>>
\* AddKey fails: the name is set and the call throws.
ImportFails(d, name) ==
    /\ Calling
    /\ book' = Named(d, name)
    /\ wallet' = Recomputed
    /\ relabelled' = relabelled \cup {d}
    /\ UNCHANGED <<current, issued, mine, chain, ledger, nOrderPosNext, setLockedCoins, limits>>

\* WriteAccountingEntry: the next number, whoever's account it is.
Entered(records, name, n, amount) ==
    [k \in DOMAIN records \cup {<<name, n>>} |->
        IF k = <<name, n>> THEN [nCreditDebit |-> amount] ELSE records[k]]

\* movecmd: debit and credit in one transaction of the database; positions are taken
\* for both.
Move(from, to) ==
    LET n == nAccountingEntryNumber IN
    /\ moves < limits.moves
    /\ moves' = moves + 1
    /\ acentry' = Entered(Entered(acentry, from, n + 1, -Amount), to, n + 2, Amount)
    /\ nAccountingEntryNumber' = n + 2
    /\ nOrderPosNext' = nOrderPosNext + 2
    /\ UNCHANGED <<names, mine, wallet, chain, setLockedCoins, limits, calls>>
\* TxnCommit fails, and what was taken stays taken.
MoveFails ==
    /\ moves < limits.moves
    /\ moves' = moves + 1
    /\ nAccountingEntryNumber' = nAccountingEntryNumber + 2
    /\ nOrderPosNext' = nOrderPosNext + 2
    /\ UNCHANGED <<names, acentry, mine, wallet, chain, setLockedCoins, limits, calls>>

\* Coins that a send may take (CoinSelect chooses among them).
AvailableCoins ==
    {<<t, i>> \in (DOMAIN wallet) \X (1..3) :
        /\ i \in Outputs(t) /\ IsTrusted(t) /\ GetBlocksToMaturity(t) = 0
        /\ IsMineOut(t, i) /\ i \notin wallet[t].vfSpent
        /\ <<t, i>> \notin setLockedCoins}
AmountSent(t) == Sum({i \in Outputs(t) : Txs[t].vout[i].dest # Change},
                     LAMBDA i : Txs[t].vout[i].value)

\* CommitTransaction: the transaction is added for the account, then the coins are
\* marked, which breaks the cache of what is available of them.
Committed(t, name) ==
    LET w == Added(wallet, t, nOrderPosNext, name) IN
    Dirty([u \in DOMAIN w |->
              [w[u] EXCEPT !.vfSpent = @ \cup {c[2] : c \in {d \in Txs[t].vin : d[1] = u}}]],
          Parents(t))

\* SendMoney of sendtoaddress (no account) and of sendfrom and sendmany, which look
\* first whether the account has as much.
Send(t, name, account) ==
    /\ Txs[t].ours /\ height[t] = -1 /\ t \notin DOMAIN wallet /\ Payable(t)
    /\ Txs[t].vin \subseteq AvailableCoins
    /\ IF account THEN AmountSent(t) <= GetAccountBalance(name, 1)
       ELSE AmountSent(t) <= GetBalance /\ name = Default
    /\ wallet' = Committed(t, name)
    /\ nOrderPosNext' = nOrderPosNext + 1
    /\ height' = [height EXCEPT ![t] = 0]
    /\ UNCHANGED <<names, mine, tip, ledger, setLockedCoins, limits, calls>>

\* lockunspent of a coin, and of all of them
LockCoin(c) ==
    /\ Calling
    /\ setLockedCoins' \in {setLockedCoins \cup {c}, setLockedCoins \ {c}, {}}
    /\ UNCHANGED <<names, mine, wallet, chain, ledger, nOrderPosNext, limits>>

\* CWalletDB::LoadWallet: the number of entries is found again; positions are not kept,
\* and neither are locks and caches.
Restart ==
    /\ nAccountingEntryNumber' = Max({0} \cup {k[2] : k \in DOMAIN acentry})
    /\ nOrderPosNext' = 0
    /\ setLockedCoins' = {}
    /\ wallet' = [t \in DOMAIN wallet |->
                     [wallet[t] EXCEPT !.nOrderPos = -1, !.cache = Uncached]]
    /\ UNCHANGED <<names, acentry, moves, mine, chain, limits, calls>>

Next ==
    \/ \E t \in Tx : Receive(t) \/ QueryTransaction(t)
    \/ \E S \in SUBSET Tx : ConnectBlock(S)
    \/ DisconnectBlock
    \/ QueryBalance \/ QueryList
    \/ \E a \in Names : GetNewAddress(a) \/ GetAccountAddressCall(a) \/ AddMultiSigAddress(a)
    \/ \E d \in DOMAIN book, a \in Names : SetAccount(d, a) \/ Relabel(d, a)
    \/ \E d \in Importable, a \in Names : ImportPrivKey(d, a) \/ ImportFails(d, a)
    \/ \E a, b \in Names : Move(a, b)
    \/ MoveFails
    \/ \E t \in Tx, a \in Names, account \in BOOLEAN : Send(t, a, account)
    \/ \E c \in AvailableCoins \cup setLockedCoins : LockCoin(c)
    \/ Restart

Spec == Init /\ [][Next]_vars

-----------------------------------------------------------------------------
(* Properties *)

\* listaccounts and GetAccountBalance add the same entries up in two ways.
ListsAgree == \A m \in {0, 2} :
    LET l == ListAccounts(m) IN
    \A a \in Names : GetAccountBalance(a, m) = IF a \in DOMAIN l THEN l[a] ELSE 0

\* What the accounts have is what getbalance "*" says.
AccountsMakeTotal ==
    LET l == ListAccounts(1) IN Sum(DOMAIN l, LAMBDA a : l[a]) = GetBalanceOfAll(1)

\* getbalance, "getbalance and getbalance '*' 0 should return the same number": as long
\* as the coins marked spent are those of trusted transactions that trusted ones spend.
SpendsMarked ==
    /\ \A u \in DOMAIN wallet : \A c \in Txs[u].vin :
          IsTrusted(u) /\ c[1] \in DOMAIN wallet =>
              IsTrusted(c[1]) /\ (IsMineOut(c[1], c[2]) => c[2] \in wallet[c[1]].vfSpent)
    /\ \A t \in DOMAIN wallet : \A i \in wallet[t].vfSpent :
          \E u \in DOMAIN wallet : IsTrusted(u) /\ <<t, i>> \in Txs[u].vin
TotalsAgree == SpendsMarked => GetBalance = GetBalanceOfAll(0)

\* listreceivedbyaccount, getreceivedbyaccount and getreceivedbyaddress agree.
ReceivedAgree == \A m \in {0, 2} :
    LET l == ListReceivedByAccount(m) IN
    \A a \in Names :
    /\ GetReceivedByAccount(a, m) = IF a \in DOMAIN l THEN l[a].nAmount ELSE 0
    /\ GetReceivedByAccount(a, m) =
         Sum({d \in DOMAIN book : book[d] = a}, LAMBDA d : GetReceivedByAddress(d, m))

\* gettransaction: the amount is the sum of the details, once they count.
DetailsAddUp == \A t \in DOMAIN wallet : Counted(t) =>
    LET details == ListTransactions(t, "*", 0) IN
    GetTransaction(t) = Sum(DOMAIN details, LAMBDA n : details[n].amount)

\* listtransactions: every page is the page of the whole list.
PagesTile == \A name \in {Default, "*"} :
    LET items == OrderedTxItems(name)
        all == FlattenSeq([n \in DOMAIN items |-> Item(items[n], name)])
    IN  \A nCount \in 1..2, nFrom \in {0, 1} : ListTransactionsPage(name, nCount, nFrom) =
            Reverse(SubSeq(all, nFrom + 1, Min({nFrom + nCount, Len(all)})))

\* listsinceblock: whatever is not in the active chain up to the block.
SinceComplete == \A h \in 0..tip :
    ListSinceBlock(h) = {t \in DOMAIN wallet : height[t] \notin 1..h}

\* The caches of CWalletTx hold what would be computed anew, but for a
\* debit that was cached before the wallet learnt of a transaction it spends.
CachesRight == \A t \in DOMAIN wallet :
    LET c == wallet[t].cache IN
    /\ \/ c.debit \in {None, Debit(t)}
       \/ \E u \in Parents(t) \cap DOMAIN wallet : wallet[u].nOrderPos > wallet[t].nOrderPos
    /\ c.credit \in {None, Credit(t)}
    /\ c.available \in {None, Available(t)}

\* movecmd: whatever fails and whenever the program starts again, no entry is written
\* over another, so moves give one account what they take from another.
MovesBalanced == Sum(DOMAIN acentry, LAMBDA k : acentry[k].nCreditDebit) = 0

\* setaccount, "Detect when changing the account of an address that is the 'unused
\* current key' of another account": nobody is given an address as that of an account
\* when the address book has it under another, unless the GUI or an import renamed it.
CurrentKept == \A a \in Names :
    current[a] \notin relabelled \cup {None} => book[current[a]] = a

AccountsAgree ==
    /\ ListsAgree /\ AccountsMakeTotal /\ TotalsAgree /\ ReceivedAgree
    /\ DetailsAddUp /\ PagesTile /\ SinceComplete
    /\ CachesRight /\ MovesBalanced /\ CurrentKept
=============================================================================
