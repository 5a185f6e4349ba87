------------------------------ MODULE KeyPool ------------------------------
(***************************************************************************)
(* The wallet's key pool (wallet.cpp, "setKeyPool" and the "pool" records  *)
(* of wallet.dat) and the CReserveKey objects that take keys out of it.    *)
(*                                                                         *)
(* A key is the order number of its GenerateNewKey() call.  A pool index   *)
(* is the int64 under which the key is recorded on disk.  CWallet keeps    *)
(* only the set of indices in memory; CReserveKey objects (a miner thread, *)
(* a send from the RPC server, a send from the GUI) live on the stacks of  *)
(* different threads and hold an index between calls, while every CWallet  *)
(* function below runs under cs_wallet and is one atomic step.             *)
(***************************************************************************)
EXTENDS Integers, FiniteSets

CONSTANTS
    Holders,   \* the CReserveKey objects
    Target,    \* -keypool
    MaxKeys    \* bound of the model: keys ever generated

ASSUME TargetAssumption == Target \in Nat
ASSUME MaxKeysAssumption == MaxKeys \in Nat \ {0}

Keys  == 1..MaxKeys
Index == 1..MaxKeys   \* every index is written together with a new key

NoKey      == 0       \* empty vchPubKey, or no such record on disk
DefaultKey == -1      \* vchDefaultKey
NoIndex    == -1      \* nIndex == -1

VARIABLES
    setKeyPool,   \* CWallet::setKeyPool
    pool,         \* wallet.dat: index -> key recorded there, or NoKey
    generated,    \* number of GenerateNewKey() calls so far
    held,         \* CReserveKey: index and key, per holder
    peek,         \* nIndex of a GetOldestKeyPoolTime() in progress
    crypted,      \* the wallet is encrypted
    locked,       \* CCryptoKeyStore::IsLocked()
    fShutdown,    \* the global of that name
    uses,         \* how often each key was put to use (ghost)
    overwritten   \* WritePool() replaced the record of an index not in the set (ghost)

vars == <<setKeyPool, pool, generated, held, peek, crypted, locked,
          fShutdown, uses, overwritten>>

Free == [idx |-> NoIndex, key |-> NoKey]

TypeOK ==
    /\ setKeyPool \subseteq Index
    /\ pool \in [Index -> Keys \cup {NoKey}]
    /\ generated \in 0..MaxKeys
    /\ held \in [Holders -> [idx : Index \cup {NoIndex},
                             key : Keys \cup {NoKey, DefaultKey}]]
    /\ peek \in Index \cup {NoIndex}
    /\ crypted \in BOOLEAN /\ locked \in BOOLEAN /\ fShutdown \in BOOLEAN
    /\ uses \in [Keys -> Nat]
    /\ overwritten \in BOOLEAN

-----------------------------------------------------------------------------
(* Filling the pool *)

Largest(S)  == IF S = {} THEN 0
               ELSE CHOOSE m \in S : \A i \in S : i <= m
Smallest(S) == CHOOSE m \in S : \A i \in S : m <= i

\* How many keys TopUpKeyPool() adds, and under which indices.
Deficit(S) == IF Cardinality(S) < Target + 1
              THEN (Target + 1) - Cardinality(S) ELSE 0
NewIndices(S) == (Largest(S) + 1)..(Largest(S) + Deficit(S))

\* WritePool(first + j, GenerateNewKey()) for j = 0, 1, ... over S
Written(S, first) ==
    [i \in Index |-> IF i \in S THEN generated + 1 + (i - first) ELSE pool[i]]

\* The wallet after TopUpKeyPool(), which does nothing when it is locked.
ToppedSet  == IF locked THEN setKeyPool
              ELSE setKeyPool \cup NewIndices(setKeyPool)
ToppedPool == IF locked THEN pool
              ELSE Written(NewIndices(setKeyPool), Largest(setKeyPool) + 1)
ToppedGenerated == IF locked THEN generated
                   ELSE generated + Deficit(setKeyPool)
ToppedOverwritten ==
    \/ overwritten
    \/ ~locked /\ \E i \in NewIndices(setKeyPool) \cap Index : pool[i] # NoKey
Bounded == ToppedGenerated <= MaxKeys /\ ToppedSet \subseteq Index

\* keypoolrefill, walletpassphrase, getnewaddress
TopUpKeyPool ==
    /\ Bounded
    /\ setKeyPool' = ToppedSet
    /\ pool' = ToppedPool
    /\ generated' = ToppedGenerated
    /\ overwritten' = ToppedOverwritten
    /\ UNCHANGED <<held, peek, crypted, locked, fShutdown, uses>>

-----------------------------------------------------------------------------
(* Taking keys out *)

\* Mutant of Reserve: the index is read but stays in the set.
ReserveWithoutErase ==
    /\ Bounded
    /\ setKeyPool' = ToppedSet
    /\ generated' = ToppedGenerated
    /\ overwritten' = ToppedOverwritten

\* The common part of every ReserveKeyFromKeyPool(): top up, then take the
\* smallest index when there is one.
Reserve ==
    /\ Bounded
    /\ setKeyPool' = IF ToppedSet = {} THEN {}
                     ELSE ToppedSet \ {Smallest(ToppedSet)}
    /\ generated' = ToppedGenerated
    /\ overwritten' = ToppedOverwritten

\* Mutant of GetReservedKey: the record is erased when the key is reserved.
GetReservedKeyErasing(h) ==
    /\ held[h] = Free
    /\ Reserve
    /\ pool' = [i \in Index |-> IF ToppedSet # {} /\ i = Smallest(ToppedSet)
                                THEN NoKey ELSE ToppedPool[i]]
    /\ held' = [held EXCEPT ![h] =
                   IF ToppedSet = {} THEN [idx |-> NoIndex, key |-> DefaultKey]
                   ELSE [idx |-> Smallest(ToppedSet),
                         key |-> ToppedPool[Smallest(ToppedSet)]]]
    /\ UNCHANGED <<peek, crypted, locked, fShutdown, uses>>

\* CReserveKey::GetReservedKey.  The index is passed by reference, so when
\* ReadPool finds no record the holder has the index but no key: the exception
\* unwinds to its destructor.
GetReservedKey(h) ==
    /\ held[h] = Free
    /\ Reserve
    /\ pool' = ToppedPool
    /\ held' = [held EXCEPT ![h] =
                   IF ToppedSet = {} THEN [idx |-> NoIndex, key |-> DefaultKey]
                   ELSE [idx |-> Smallest(ToppedSet),
                         key |-> ToppedPool[Smallest(ToppedSet)]]]
    /\ UNCHANGED <<peek, crypted, locked, fShutdown, uses>>

\* Mutant of Erased: KeepKey() forgets ErasePool().
NotErased(i) == pool
Erased(i) == IF i \in Index THEN [pool EXCEPT ![i] = NoKey] ELSE pool
Used(k)   == IF k \in Keys THEN [uses EXCEPT ![k] = @ + 1] ELSE uses

\* CommitTransaction, or a block found by the miner: KeepKey() and the key is
\* in a transaction from now on.
KeepKey(h) ==
    /\ held[h].key # NoKey
    /\ pool' = Erased(held[h].idx)
    /\ uses' = Used(held[h].key)
    /\ held' = [held EXCEPT ![h] = Free]
    /\ UNCHANGED <<setKeyPool, generated, peek, crypted, locked, fShutdown,
                   overwritten>>

\* Mutant of ReturnKey: no test for nIndex == -1.
ReturnKeyUnguarded(h) ==
    /\ held[h] # Free
    /\ setKeyPool' = IF fShutdown THEN setKeyPool
                     ELSE setKeyPool \cup {held[h].idx}
    /\ held' = [held EXCEPT ![h] = Free]
    /\ UNCHANGED <<pool, generated, peek, crypted, locked, fShutdown, uses,
                   overwritten>>

\* The destructor ~CReserveKey, which calls ReturnKey() unless shutting down.
ReturnKey(h) ==
    /\ held[h] # Free
    /\ setKeyPool' = IF held[h].idx = NoIndex \/ fShutdown THEN setKeyPool
                     ELSE setKeyPool \cup {held[h].idx}
    /\ held' = [held EXCEPT ![h] = Free]
    /\ UNCHANGED <<pool, generated, peek, crypted, locked, fShutdown, uses,
                   overwritten>>

\* Mutant of GetKeyFromPool: the key is handed out without KeepKey().
GetKeyFromPoolWithoutKeep ==
    /\ Reserve
    /\ pool' = ToppedPool
    /\ uses' = IF ToppedSet = {} THEN uses
               ELSE Used(ToppedPool[Smallest(ToppedSet)])
    /\ UNCHANGED <<held, peek, crypted, locked, fShutdown>>

\* GetKeyFromPool: reserve and keep in one critical section.  With an empty
\* pool it answers the default key or fails; with no record it throws, and the
\* index (a local variable here) is gone from the set.
GetKeyFromPool ==
    /\ Reserve
    /\ IF ToppedSet = {} THEN UNCHANGED <<pool, uses>>
       ELSE LET i == Smallest(ToppedSet) IN
            /\ pool' = [ToppedPool EXCEPT ![i] = NoKey]
            /\ uses' = Used(ToppedPool[i])
    /\ UNCHANGED <<held, peek, crypted, locked, fShutdown>>

\* GetOldestKeyPoolTime: reserves, and returns in a second critical section.
PeekOldest ==
    /\ peek = NoIndex
    /\ Reserve
    /\ pool' = ToppedPool
    /\ peek' = IF ToppedSet = {} \/ ToppedPool[Smallest(ToppedSet)] = NoKey
               THEN NoIndex ELSE Smallest(ToppedSet)
    /\ UNCHANGED <<held, crypted, locked, fShutdown, uses>>

PeekReturn ==
    /\ peek # NoIndex
    /\ setKeyPool' = setKeyPool \cup {peek}
    /\ peek' = NoIndex
    /\ UNCHANGED <<pool, generated, held, crypted, locked, fShutdown, uses,
                   overwritten>>

-----------------------------------------------------------------------------
(* Encryption, locking, restart *)

\* EncryptWallet: after the keys are encrypted, NewKeyPool() erases the records
\* of the indices in the set, writes 1..Target anew, and the wallet is locked.
EncryptWallet ==
    /\ ~crypted
    /\ generated + Target <= MaxKeys
    /\ pool' = [i \in Index |->
                  CASE i \in 1..Target        -> generated + i
                    [] i \in setKeyPool \ (1..Target) -> NoKey
                    [] OTHER                  -> pool[i]]
    /\ setKeyPool' = 1..Target
    /\ generated' = generated + Target
    /\ overwritten' = (overwritten \/ \E i \in (1..Target) \ setKeyPool :
                                         pool[i] # NoKey)
    /\ crypted' = TRUE
    /\ locked' = TRUE
    /\ UNCHANGED <<held, peek, fShutdown, uses>>

\* Unlock() with the right passphrase, and Lock() by the timer or a user.
Unlock ==
    /\ crypted /\ locked /\ locked' = FALSE
    /\ UNCHANGED <<setKeyPool, pool, generated, held, peek, crypted,
                   fShutdown, uses, overwritten>>

Lock ==
    /\ crypted /\ ~locked /\ locked' = TRUE
    /\ UNCHANGED <<setKeyPool, pool, generated, held, peek, crypted,
                   fShutdown, uses, overwritten>>

StartShutdown ==
    /\ ~fShutdown /\ fShutdown' = TRUE
    /\ UNCHANGED <<setKeyPool, pool, generated, held, peek, crypted, locked,
                   uses, overwritten>>

\* A crash or an exit, and LoadWallet() reading the "pool" records back.
Restart ==
    /\ setKeyPool' = {i \in Index : pool[i] # NoKey}
    /\ held' = [h \in Holders |-> Free]
    /\ peek' = NoIndex
    /\ locked' = crypted
    /\ fShutdown' = FALSE
    /\ UNCHANGED <<pool, generated, crypted, uses, overwritten>>

-----------------------------------------------------------------------------
\* A new wallet, or one encrypted by version 0.4.0 or 0.5.0rc whose first load
\* has just dropped every "pool" record (DB_NEED_REWRITE).
Init ==
    /\ setKeyPool = {}
    /\ pool = [i \in Index |-> NoKey]
    /\ generated = 0
    /\ held = [h \in Holders |-> Free]
    /\ peek = NoIndex
    /\ crypted \in BOOLEAN /\ locked = crypted
    /\ fShutdown = FALSE
    /\ uses = [k \in Keys |-> 0]
    /\ overwritten = FALSE

Next ==
    \/ TopUpKeyPool
    \/ \E h \in Holders : GetReservedKey(h) \/ KeepKey(h) \/ ReturnKey(h)
    \/ GetKeyFromPool
    \/ PeekOldest \/ PeekReturn
    \/ EncryptWallet \/ Unlock \/ Lock
    \/ StartShutdown \/ Restart

Spec == Init /\ [][Next]_vars

-----------------------------------------------------------------------------
(* Properties *)

\* wallet.cpp, KeepKey()/GetKeyFromPool(): a key that was put to use has no
\* record left, so no later reservation and no restart can bring it back.
UsedKeyLeavesDisk ==
    \A i \in Index : pool[i] # NoKey => uses[pool[i]] = 0

\* As long as no record was written over one that a holder (or a restart)
\* still needs, every index in memory has its record (ReserveKeyFromKeyPool
\* never throws), an index has one owner, and a holder's key is the one
\* recorded for its index.
Consistent ==
    /\ \A i \in setKeyPool : pool[i] # NoKey
    /\ \A h \in Holders : held[h].idx # NoIndex =>
         /\ held[h].idx \notin setKeyPool
         /\ held[h].key = pool[held[h].idx]
         /\ held[h].key # NoKey
         /\ held[h].idx # peek
         /\ \A g \in Holders \ {h} : held[g].idx # held[h].idx
    /\ peek # NoIndex => peek \notin setKeyPool /\ pool[peek] # NoKey
OwnedOnce == overwritten \/ Consistent

\* Under the same condition no key is put to use twice.
KeyUsedOnceUnlessOverwritten == overwritten \/ \A k \in Keys : uses[k] <= 1

\* Losing a key on disk loses coins after a restart: a record disappears only
\* when its key is put to use, when NewKeyPool() drops the pool of a wallet being
\* encrypted, or through an index that had been written over.
NoRecordLost ==
    [][\A i \in Index : pool[i] # NoKey /\ pool'[i] # pool[i] =>
         \/ uses'[pool[i]] > uses[pool[i]]
         \/ ~crypted /\ crypted'
         \/ overwritten']_vars
=============================================================================
