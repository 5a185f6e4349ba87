------------------------------- MODULE Miner -------------------------------
(***************************************************************************)
(* The miner threads (DystaterMiner, CheckWork, GenerateDystaters in       *)
(* miner.cpp): each reads the best block without a lock, has a template    *)
(* made under cs_main, puts the height and its extra nonce into the        *)
(* coinbase, and searches until it finds, is stopped, or has reason to     *)
(* start over.                                                             *)
(*                                                                         *)
(* A block is a number, 1 the genesis block.  What BlockAssembly models is *)
(* here one step: the block a template is built on, and the key it is made *)
(* for.  CreateNewBlock writes that key's script into a transaction it     *)
(* does not put into the block: what is said of keys is said of those the  *)
(* threads reserve and give up, not of what the block pays.  The key pool  *)
(* (KeyPool) is the set of keys no thread has reserved; the wallet is      *)
(* locked, so that nothing tops it up.  ProcessBlock, main.cpp's, may      *)
(* refuse a block.                                                         *)
(***************************************************************************)
EXTENDS Integers, Sequences, FiniteSetsExt

CONSTANTS
    Threads,         \* as many as are ever started
    Keys,            \* of the key pool, in order: positive numbers
    NonceRange,      \* 2 ^ 32, of nExtraNonce
    Limits,          \* bounds of the model: blocks, changes of the pool of
                     \*   transactions, and keys of the pool of keys at first;
    MaxScans         \*   scans of one template (nBlockNonce >= 0xffff0000)

NoKey == 0            \* CReserveKey::nIndex = -1
DefaultKey == -1      \* vchDefaultKey

VARIABLES
    miner,           \* each thread's locals
    blocks,          \* the block index: prev, height, and what the miner wrote
    best,            \* pindexBest, hashBestChain
    pool,            \* keys that are neither reserved nor kept
    nTransactionsUpdated,
    peers,           \* ~vNodes.empty()
    staticPrev,      \* the static hashPrevBlock of IncrementExtraNonce
    limits           \* of this behaviour

vars == <<miner, blocks, best, pool, nTransactionsUpdated, peers, staticPrev, limits>>

Template == [prev : Nat, height : Nat, nExtraNonce : Nat,
             key : Keys \cup {NoKey, DefaultKey}]
NoTemplate == [prev |-> 0, height |-> 0, nExtraNonce |-> 0, key |-> NoKey]
Stopped == [pc |-> "stopped", interrupted |-> FALSE, nTransactionsUpdatedLast |-> 0,
            pindexPrev |-> 1, nExtraNonce |-> 0, key |-> NoKey, block |-> NoTemplate,
            scans |-> 0]

Init ==
    /\ miner = [t \in Threads |-> Stopped]
    /\ blocks = <<[prev |-> 0, height |-> 0, coinbase |-> NoTemplate]>>
    /\ best = 1
    /\ limits \in Limits
    /\ pool = limits.keys
    /\ nTransactionsUpdated = 0
    /\ peers \in BOOLEAN
    /\ staticPrev = 0

At(t, pc) == miner[t].pc = pc
Goto(t, pc) == miner' = [miner EXCEPT ![t].pc = pc]
\* The next round; the block and the counters of this one are gone.
Restart(t, key) ==
    miner' = [miner EXCEPT ![t] = [Stopped EXCEPT !.pc = "idle", !.key = key,
                                     !.interrupted = miner[t].interrupted,
                                     !.nExtraNonce = miner[t].nExtraNonce]]

-----------------------------------------------------------------------------
(* Before the search *)

\* A destroyed CReserveKey returns its key.
Exit(t) ==
    /\ miner' = [miner EXCEPT ![t] = Stopped]
    /\ pool' = pool \cup ({miner[t].key} \ {NoKey})
    /\ UNCHANGED <<blocks, best, nTransactionsUpdated, peers, staticPrev>>

\* MilliSleep, while there are no nodes.
Interrupted(t) ==
    /\ At(t, "idle") /\ ~peers /\ miner[t].interrupted
    /\ Exit(t)

ReadUpdates(t) ==
    /\ At(t, "idle") /\ peers
    /\ miner' = [miner EXCEPT ![t].pc = "read",
                              ![t].nTransactionsUpdatedLast = nTransactionsUpdated]
    /\ UNCHANGED <<blocks, best, pool, nTransactionsUpdated, peers, staticPrev>>

ReadBest(t) ==
    /\ At(t, "read")
    /\ miner' = [miner EXCEPT ![t].pc = "create", ![t].pindexPrev = best]
    /\ UNCHANGED <<blocks, best, pool, nTransactionsUpdated, peers, staticPrev>>

\* The thread's CReserveKey takes a key from the pool unless it holds one; from an
\* empty pool it gets none and answers with the default key.
GetReservedKey(t) ==
    IF miner[t].key # NoKey \/ pool = {} THEN miner[t].key ELSE Min(pool)
vchPubKey(key) == IF key = NoKey THEN DefaultKey ELSE key

\* Under cs_main; the block is built on the best one as it is now.
CreateNewBlock(t) ==
    /\ At(t, "create")
    /\ LET key == GetReservedKey(t) IN
       /\ pool' = pool \ {key}
       /\ miner' = [miner EXCEPT
                       ![t].pc = "nonce", ![t].key = key,
                       ![t].block = [NoTemplate EXCEPT !.prev = best,
                                                       !.key = vchPubKey(key)]]
    /\ UNCHANGED <<blocks, best, nTransactionsUpdated, peers, staticPrev>>

\* CreateNewBlock(reservekey), which calls the one of BlockAssembly and is not in the
\* repository, returns NULL: the thread ends.
NoTemplateMade(t) ==
    /\ At(t, "create")
    /\ Exit(t)

\* GetReservedKey or CreateNewBlock throws what the thread does not catch, or a write
\* to the coinbase's missing elements faults: the process ends.  Started again, it
\* has in its pool what was reserved and not kept.
ProcessEnds(t) ==
    /\ At(t, "create") \/ At(t, "nonce")
    /\ miner' = [u \in Threads |-> Stopped]
    /\ pool' = pool \cup ({miner[u].key : u \in Threads} \ {NoKey})
    /\ nTransactionsUpdated' = 0 /\ peers' = FALSE /\ staticPrev' = 0
    /\ UNCHANGED <<blocks, best>>

IncrementExtraNonce(t) ==
    /\ At(t, "nonce")
    /\ LET block == miner[t].block
           n == IF staticPrev # block.prev THEN 1 % NonceRange
                ELSE (miner[t].nExtraNonce + 1) % NonceRange
       IN  miner' = [miner EXCEPT
                       ![t].pc = "search", ![t].nExtraNonce = n, ![t].scans = 0,
                       ![t].block = [block EXCEPT
                            !.nExtraNonce = n,
                            !.height = blocks[miner[t].pindexPrev].height + 1]]
    /\ staticPrev' = miner[t].block.prev
    /\ UNCHANGED <<blocks, best, pool, nTransactionsUpdated, peers>>

-----------------------------------------------------------------------------
(* The search *)

ScanHash(t) ==
    /\ At(t, "search")
    /\ \E pc \in {"found", "check"} :
         miner' = [miner EXCEPT ![t].pc = pc, ![t].scans = @ + 1]
    /\ UNCHANGED <<blocks, best, pool, nTransactionsUpdated, peers, staticPrev>>

\* Mutant of KeepKey: the key stays with the thread.
KeepKeyNot(key) == key

\* reservekey.KeepKey(): the thread has no key from here on.
KeepKey(key) == NoKey

Connect(prev, coinbase) ==
    /\ blocks' = Append(blocks, [prev |-> prev, height |-> blocks[prev].height + 1,
                                 coinbase |-> coinbase])
    /\ best' = Len(blocks) + 1

CheckWork(t) ==
    /\ At(t, "found")
    /\ LET block == miner[t].block IN
       IF block.prev # best
       THEN /\ Restart(t, miner[t].key)
            /\ UNCHANGED <<blocks, best>>
       ELSE /\ Restart(t, KeepKey(miner[t].key))
            /\ \/ Len(blocks) < limits.blocks /\ Connect(best, block)
               \/ UNCHANGED <<blocks, best>>
    /\ UNCHANGED <<pool, nTransactionsUpdated, peers, staticPrev>>

\* Mutant of Interruption: the search does not look whether it is interrupted.
InterruptionLate(t) == FALSE

Interruption(t) == miner[t].interrupted

Stop(t) ==
    /\ At(t, "check") /\ Interruption(t)
    /\ Exit(t)

Rebuild(t) ==
    \/ ~peers
    \/ miner[t].scans >= MaxScans
    \/ miner[t].pindexPrev # best

\* The minute that must pass before a change of the pool counts may have passed.
Check(t) ==
    /\ At(t, "check") /\ ~Interruption(t)
    /\ \E minute \in BOOLEAN :
         IF \/ Rebuild(t)
            \/ minute /\ miner[t].nTransactionsUpdatedLast # nTransactionsUpdated
         THEN Restart(t, miner[t].key) ELSE Goto(t, "search")
    /\ UNCHANGED <<blocks, best, pool, nTransactionsUpdated, peers, staticPrev>>

-----------------------------------------------------------------------------
(* The rest of the node *)

\* setgenerate: the running threads are interrupted and forgotten, and new ones
\* started, whether or not the old ones have ended.
GenerateDystaters(started) ==
    /\ \A t \in started : At(t, "stopped")
    /\ miner' = [t \in Threads |->
                    IF t \in started THEN [Stopped EXCEPT !.pc = "idle"]
                    ELSE IF At(t, "stopped") THEN Stopped
                    ELSE [miner[t] EXCEPT !.interrupted = TRUE]]
    /\ UNCHANGED <<blocks, best, pool, nTransactionsUpdated, peers, staticPrev>>

\* A block from the network: on the best one, or on its parent, which main.cpp
\* makes the best if it has more work; or the best one is disconnected.
ReceiveBlock ==
    /\ Len(blocks) < limits.blocks
    /\ \E prev \in {best, blocks[best].prev} \ {0} : Connect(prev, NoTemplate)
    /\ UNCHANGED <<miner, pool, nTransactionsUpdated, peers, staticPrev>>

UpdatePool ==
    /\ nTransactionsUpdated < limits.updates
    /\ nTransactionsUpdated' = nTransactionsUpdated + 1
    /\ UNCHANGED <<miner, blocks, best, pool, peers, staticPrev>>

ConnectOrLosePeers ==
    /\ peers' = ~peers
    /\ UNCHANGED <<miner, blocks, best, pool, nTransactionsUpdated, staticPrev>>

Step(t) ==
    \/ Interrupted(t) \/ ReadUpdates(t) \/ ReadBest(t)
    \/ CreateNewBlock(t)
    \/ NoTemplateMade(t) \/ ProcessEnds(t) \/ IncrementExtraNonce(t)
    \/ ScanHash(t) \/ CheckWork(t) \/ Stop(t) \/ Check(t)

Next ==
    /\ \/ \E t \in Threads : Step(t)
       \/ \E started \in SUBSET Threads : GenerateDystaters(started)
       \/ ReceiveBlock \/ UpdatePool \/ ConnectOrLosePeers
    /\ UNCHANGED limits

\* A running thread is scheduled; each of its steps changes its locals.
Fairness == \A t \in Threads : WF_miner(Step(t))

Spec == Init /\ [][Next]_vars /\ Fairness
-----------------------------------------------------------------------------
(* Properties *)

Mined == {b \in DOMAIN blocks : blocks[b].coinbase # NoTemplate}

KeyOf(b) == blocks[b].coinbase.key

\* No two mined blocks are made for the same key of the pool, whichever threads made
\* them, whatever was interrupted or ended with the process, and though a refused
\* block's key is spent and an unused one returned; no two threads hold one key, and
\* the key of a mined block is neither held nor in the pool.  Blocks made when the
\* pool is empty are all made for the default key.
OneKeyOneBlock ==
    /\ \A b, c \in Mined : b # c /\ KeyOf(b) # DefaultKey => KeyOf(b) # KeyOf(c)
    /\ \A t, u \in Threads : t # u /\ miner[t].key # NoKey => miner[t].key # miner[u].key
    /\ \A b \in Mined : KeyOf(b) \notin pool \cup {miner[t].key : t \in Threads}

\* An interrupted miner stops unless it finds blocks for ever: the way round its
\* loops through CheckWork passes no interruption point while there are nodes, but
\* the search passes one after every scan that finds nothing.
InterruptedStops ==
    \A t \in Threads :
        (miner[t].interrupted ~> At(t, "stopped")) \/ []<>At(t, "found")

\* "Height first in coinbase required for block.version=2" (IncrementExtraNonce):
\* the height in a mined block's coinbase is the block's.
HeightInCoinbase == \A b \in Mined : blocks[b].coinbase.height = blocks[b].height
=============================================================================
