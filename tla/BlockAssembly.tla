--------------------------- MODULE BlockAssembly ---------------------------
(***************************************************************************)
(* CreateNewBlock (miner.cpp): the transactions of the memory pool are     *)
(* gathered in the order of their hashes, those with inputs in the pool    *)
(* wait as orphans, and the rest enter a heap from which they are taken by *)
(* priority and later by fee; a transaction that goes into the block frees *)
(* the orphans that waited for it alone.                                   *)
(*                                                                         *)
(* All of it runs under cs_main and mempool.cs, so the pool and the chain  *)
(* stand still; what is nondeterministic is the order among equals in the  *)
(* heap, what a read through a pointer to a destroyed COrphan finds, and   *)
(* how the writes to a coinbase without inputs and outputs end.            *)
(***************************************************************************)
EXTENDS Integers, SequencesExt, FiniteSetsExt

CONSTANTS
    Scenarios,        \* pools and coins to build from; see Scenario
    MaxBlockSize,     \* MAX_BLOCK_SIZE
    Kilobyte,         \* 1000: the space kept for the coinbase and the headers
    MaxBlockSigOps,   \* MAX_BLOCK_SIGOPS
    CoinbaseSigOps,   \* 100
    MinTxFee,         \* CTransaction::nMinTxFee, by Unit of size
    FreePriority,     \* COIN * 144 / 250
    Unit              \* a multiple of the sizes, that a quotient by one is exact

VARIABLES
    scenario,         \* the pool, the coins of the chain and the options
    waiting,          \* transactions of the pool not looked at yet
    vOrphan,          \* the COrphan made for a transaction, destroyed or not
    mapDependers,     \* hash -> the transactions whose COrphan waits for it
    vecPriority,      \* the heap
    fSortedByFee,
    view,             \* unspent outputs, with those of the block so far
    block,            \* the transactions after the coinbase
    totals,           \* nBlockSize, nBlockSigOps, nFees
    refused,          \* ghost: taken from the heap and left out
    dangling,         \* ghost: whose destroyed COrphan has been read
    pblocktemplate    \* how the call ended

vars == <<scenario, waiting, vOrphan, mapDependers, vecPriority, fSortedByFee,
          view, block, totals, refused, dangling, pblocktemplate>>

pool == scenario.pool
mempool == DOMAIN pool
SizeOf(t) == pool[t].size

SumOf(f(_), S) == FoldSet(LAMBDA x, sum : f(x) + sum, 0, S)
GetValueOut(t) == FoldLeft(LAMBDA sum, v : sum + v, 0, pool[t].vout)

-----------------------------------------------------------------------------
(* The options *)

AtMost(a, b) == IF a < b THEN a ELSE b
AtLeast(a, b) == IF a > b THEN a ELSE b

nBlockMaxSize ==
    AtLeast(Kilobyte, AtMost(MaxBlockSize - Kilobyte, scenario.blockmaxsize))
nBlockPrioritySize == AtMost(nBlockMaxSize, scenario.blockprioritysize)
nBlockMinSize == AtMost(nBlockMaxSize, scenario.blockminsize)

Init ==
    /\ scenario \in Scenarios
    /\ waiting = {t \in mempool : ~pool[t].coinbase /\ pool[t].final}
    /\ vOrphan = << >>
    /\ mapDependers = [t \in mempool |-> << >>]
    /\ vecPriority = {}
    /\ fSortedByFee = (nBlockPrioritySize <= 0)
    /\ view = scenario.coins
    /\ block = << >>
    /\ totals = [size |-> Kilobyte, sigops |-> CoinbaseSigOps, fees |-> 0]
    /\ refused = {}
    /\ dangling = {}
    /\ pblocktemplate = << >>

-----------------------------------------------------------------------------
(* Gathering.  An output is <<hash, n>>; a coin has a value and a height.  *)

HaveCoins(hash) == \E o \in DOMAIN view : o[1] = hash
Value(o) == IF o \in DOMAIN view THEN view[o].value ELSE -1    \* a spent one is null
CoinHeight(hash) == view[CHOOSE o \in DOMAIN view : o[1] = hash].height

\* What the loop over vin knows: the orphan's setDependsOn and whether it exists,
\* the sums, and whether it broke off.
NoInputs == [porphan |-> FALSE, setDependsOn |-> {}, nTotalIn |-> 0, weight |-> 0,
             fMissingInputs |-> FALSE]

ReadInput(read, o) ==
    CASE read.fMissingInputs -> read
      [] HaveCoins(o[1]) ->
           [read EXCEPT !.nTotalIn = @ + Value(o),
                        !.weight = @ + Value(o)
                                     * (scenario.height - CoinHeight(o[1]) + 1)]
      [] o[1] \notin mempool -> [read EXCEPT !.fMissingInputs = TRUE]
      [] OTHER ->
           [read EXCEPT !.porphan = TRUE, !.setDependsOn = @ \cup {o[1]},
                        !.nTotalIn = @ + pool[o[1]].vout[o[2]]]

\* The inputs before the one that is missing have been entered all the same.
Depends(t) ==
    LET vin == pool[t].vin
        missing == {i \in DOMAIN vin : ~HaveCoins(vin[i][1]) /\ vin[i][1] \notin mempool}
        read == IF missing = {} THEN vin ELSE SubSeq(vin, 1, Min(missing) - 1)
    IN  SelectSeq(read, LAMBDA o : ~HaveCoins(o[1]))

\* Mutant of Dependers: only the first input is waited for.
DependersFirst(t) ==
    [h \in mempool |->
        IF Depends(t) # << >> /\ Depends(t)[1][1] = h THEN Append(mapDependers[h], t)
        ELSE mapDependers[h]]

Dependers(t) ==
    [h \in mempool |->
        mapDependers[h]
        \o [i \in DOMAIN SelectSeq(Depends(t), LAMBDA o : o[1] = h) |-> t]]

\* Mutant of Orphans: pop_back whether or not the transaction has a COrphan.
OrphansPopped(t, read, orphan) ==
    IF read.porphan
    THEN [u \in DOMAIN vOrphan \cup {t} |-> IF u = t THEN orphan ELSE vOrphan[u]]
    ELSE [u \in DOMAIN vOrphan |->
            IF read.fMissingInputs /\ u = Max(DOMAIN vOrphan)
            THEN [vOrphan[u] EXCEPT !.destroyed = TRUE] ELSE vOrphan[u]]

\* The list after a transaction: its COrphan, if it has got one, is destroyed by
\* pop_back when an input is missing.
Orphans(t, read, orphan) ==
    IF ~read.porphan THEN vOrphan
    ELSE [u \in DOMAIN vOrphan \cup {t} |-> IF u = t THEN orphan ELSE vOrphan[u]]

\* One transaction of the pool; mapTx is in the order of the hashes.
Gather ==
    /\ waiting # {}
    /\ LET t == Min(waiting)
           read == FoldLeft(ReadInput, NoInputs, pool[t].vin)
           dPriority == (read.weight * Unit) \div SizeOf(t)
           dFeePerKb == ((read.nTotalIn - GetValueOut(t)) * Unit) \div SizeOf(t)
           orphan == [setDependsOn |-> read.setDependsOn,
                      dPriority |-> IF read.fMissingInputs THEN 0 ELSE dPriority,
                      dFeePerKb |-> IF read.fMissingInputs THEN 0 ELSE dFeePerKb,
                      destroyed |-> read.fMissingInputs]
       IN  /\ waiting' = waiting \ {t}
           /\ mapDependers' = Dependers(t)
           /\ vOrphan' = Orphans(t, read, orphan)
           /\ vecPriority' = IF read.porphan \/ read.fMissingInputs THEN vecPriority
                             ELSE vecPriority \cup {<<dPriority, dFeePerKb, t>>}
    /\ UNCHANGED <<scenario, fSortedByFee, view, block, totals, refused, dangling,
                   pblocktemplate>>

-----------------------------------------------------------------------------
(* Filling the block *)

TxPriorityCompare(byFee, a, b) ==
    IF byFee THEN a[2] < b[2] \/ (a[2] = b[2] /\ a[1] < b[1])
    ELSE a[1] < b[1] \/ (a[1] = b[1] /\ a[2] < b[2])

Top == {a \in vecPriority :
            \A b \in vecPriority : ~TxPriorityCompare(fSortedByFee, a, b)}

Filled(t) == totals.size + SizeOf(t)

\* The tests before the heap is sorted anew.
Skipped(top) ==
    \/ Filled(top[3]) >= nBlockMaxSize
    \/ totals.sigops + pool[top[3]].sigops >= MaxBlockSigOps
    \/ fSortedByFee /\ top[2] < MinTxFee /\ Filled(top[3]) >= nBlockMinSize

\* Once past the priority size, or out of transactions of high priority.
SortedByFee(top) ==
    \/ fSortedByFee
    \/ Filled(top[3]) >= nBlockPrioritySize
    \/ top[1] < FreePriority

HaveInputs(t) == \A o \in Range(pool[t].vin) : o \in DOMAIN view
SigOps(t) == pool[t].sigops + pool[t].p2sh

\* Mutant of Connects: the operations of P2SH inputs are not counted.
ConnectsLegacy(t) ==
    HaveInputs(t) /\ totals.sigops + pool[t].sigops < MaxBlockSigOps /\ pool[t].valid

\* CheckInputs is main.cpp's: a field of the transaction.
Connects(t) ==
    /\ HaveInputs(t)
    /\ totals.sigops + SigOps(t) < MaxBlockSigOps
    /\ pool[t].valid

\* UpdateCoins: main.cpp's.
UpdateCoins(t) ==
    LET spent == Range(pool[t].vin)
        made == {<<t, n>> : n \in DOMAIN pool[t].vout}
    IN  [o \in (DOMAIN view \ spent) \cup made |->
            IF o \in made THEN [value |-> pool[t].vout[o[2]],
                                height |-> scenario.height + 1]
            ELSE view[o]]

Spends(t) == SumOf(LAMBDA o : view[o].value, Range(pool[t].vin))

\* Erasing hash from the set of an orphan that waits for it; the orphans left
\* without one enter the heap.
Waits(u) == vOrphan[u].setDependsOn
Erased(t, reads) ==
    [u \in DOMAIN vOrphan |->
        IF u \in reads THEN [vOrphan[u] EXCEPT !.setDependsOn = @ \ {t}] ELSE vOrphan[u]]
\* Mutant of Freed: an orphan of several parents goes with the first of them.
FreedEarly(t, reads) ==
    {<<vOrphan[u].dPriority, vOrphan[u].dFeePerKb, u>> : u \in {v \in reads : Waits(v) # {}}}

Freed(t, reads) ==
    {<<vOrphan[u].dPriority, vOrphan[u].dFeePerKb, u>> :
        u \in {v \in reads : Waits(v) # {} /\ Waits(v) \ {t} = {}}}

Skip ==
    /\ waiting = {}
    /\ \E top \in Top :
         /\ Skipped(top)
         /\ vecPriority' = vecPriority \ {top}
         /\ refused' = refused \cup {top[3]}
    /\ UNCHANGED <<scenario, waiting, vOrphan, mapDependers, fSortedByFee, view, block,
                   totals, dangling, pblocktemplate>>

Reject ==
    /\ waiting = {}
    /\ \E top \in Top :
         /\ ~Skipped(top) /\ ~Connects(top[3])
         /\ vecPriority' = vecPriority \ {top}
         /\ fSortedByFee' = SortedByFee(top)
         /\ refused' = refused \cup {top[3]}
    /\ UNCHANGED <<scenario, waiting, vOrphan, mapDependers, view, block, totals, dangling,
                   pblocktemplate>>

\* A destroyed COrphan may still hold what it held, or something that is not
\* waiting for this transaction.
Add ==
    /\ waiting = {}
    /\ \E top \in Top :
         LET t == top[3]
             pointed == Range(mapDependers[t])
             dead == {u \in pointed : vOrphan[u].destroyed}
         IN  /\ ~Skipped(top) /\ Connects(t)
             /\ block' = Append(block, t)
             /\ totals' = [size |-> Filled(t), sigops |-> totals.sigops + SigOps(t),
                           fees |-> totals.fees + Spends(t) - GetValueOut(t)]
             /\ view' = UpdateCoins(t)
             /\ fSortedByFee' = SortedByFee(top)
             /\ dangling' = dangling \cup dead
             /\ \E intact \in SUBSET dead :
                  LET reads == (pointed \ dead) \cup intact IN
                  /\ vOrphan' = Erased(t, reads)
                  /\ vecPriority' = (vecPriority \ {top}) \cup Freed(t, reads)
    /\ UNCHANGED <<scenario, waiting, mapDependers, refused, pblocktemplate>>

\* vtx[0] is the CTransaction() pushed before the loop, and nothing stores txNew, the
\* coinbase that pays scriptPubKeyIn, over it.
NullTransaction == [vin |-> << >>, vout |-> << >>]

\* nValue and scriptSig are written to vout[0] and vin[0] of vtx[0], which it does not
\* have: the process faults, or the writes end outside and vtx[0] stays as it is.
\* Then ConnectBlock, main.cpp's, accepts the block or CreateNewBlock throws.
Finish ==
    /\ waiting = {} /\ vecPriority = {} /\ pblocktemplate = << >>
    /\ \E outcome \in {"faults", "throws", "returns"} :
         pblocktemplate' =
            [outcome |-> outcome, coinbase |-> NullTransaction, vtx |-> block,
             vTxFees0 |-> -totals.fees, nHeight |-> scenario.height + 1]
    /\ UNCHANGED <<scenario, waiting, vOrphan, mapDependers, vecPriority, fSortedByFee,
                   view, block, totals, refused, dangling>>

Next == Gather \/ Skip \/ Reject \/ Add \/ Finish

Spec == Init /\ [][Next]_vars
-----------------------------------------------------------------------------
(* Properties *)

Scenario ==
    /\ \A o \in DOMAIN scenario.coins : scenario.coins[o].height <= scenario.height
    /\ \A t \in mempool : Len(pool[t].vin) > 0 /\ Unit % SizeOf(t) = 0

Before(i) == {block[j] : j \in 1..(i - 1)}

\* Replays what follows the coinbase from the chain's coins, without the view the
\* code keeps.  It gives ConnectBlock, on whose failure CreateNewBlock throws, no
\* reason to refuse: every input is a coin of the chain or an output of an earlier
\* transaction of the block, and no two of the block's transactions spend the same
\* one; the operations, the size and the fees are those of the block.  Of the
\* coinbase, which is a null transaction, it says nothing.
BlockConnects ==
    /\ \A i \in DOMAIN block : \A o \in Range(pool[block[i]].vin) :
         /\ o \in DOMAIN scenario.coins \/ o[1] \in Before(i)
         /\ \A j \in 1..(i - 1) : o \notin Range(pool[block[j]].vin)
    /\ totals.sigops = CoinbaseSigOps + SumOf(SigOps, Range(block))
    /\ totals.size = Kilobyte + SumOf(SizeOf, Range(block))
    /\ totals.sigops < MaxBlockSigOps
    /\ totals.size <= nBlockMaxSize
    /\ totals.fees =
         SumOf(LAMBDA t :
                 SumOf(LAMBDA o : IF o \in DOMAIN scenario.coins
                                  THEN scenario.coins[o].value
                                  ELSE pool[o[1]].vout[o[2]],
                       Range(pool[t].vin)) - GetValueOut(t),
               Range(block))

Known(t) == \A o \in Range(pool[t].vin) :
              o[1] \in mempool \/ \E c \in DOMAIN scenario.coins : c[1] = o[1]
Parents(t) == {o[1] : o \in {p \in Range(pool[t].vin) :
                               \A c \in DOMAIN scenario.coins : c[1] # p[1]}}

\* No transaction is forgotten among the orphans, and none leaves them early: what
\* is in the heap has its inputs, and at the end one whose inputs are all known and
\* whose parents in the pool are all in the block is in it too, unless it was taken
\* from the heap and refused.
NobodyForgotten ==
    /\ \A top \in vecPriority : Known(top[3]) => HaveInputs(top[3])
    /\ pblocktemplate # << >> =>
         \A t \in mempool :
            \/ pool[t].coinbase \/ ~pool[t].final \/ ~Known(t)
            \/ t \in Range(block) \cup refused
            \/ \E p \in Parents(t) : p \notin Range(block)

\* mapDependers is followed to a COrphan that pop_back destroyed only for a
\* transaction with an input that is neither in the chain nor in the pool, which
\* the comment in the loop says never happens.
NoDanglingRead == \A t \in dangling : ~Known(t)

=============================================================================
