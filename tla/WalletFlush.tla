---------------------------- MODULE WalletFlush -----------------------------
(* ThreadFlushWalletDB and BackupWallet against the threads that use         *)
(* wallet.dat.  db.cpp, which counts the open handles of a file under cs_db, *)
(* is taken from how walletdb.cpp uses it.  nWalletDBUpdated is incremented  *)
(* under no lock, in a load and a store.                                     *)
EXTENDS Integers, FiniteSets

CONSTANTS
    Users,      \* threads that open a CWalletDB
    Records,    \* the updates they write, once each
    CountedRecords, \* those whose method increments nWalletDBUpdated
    NoEntry     \* no count of the wallet in mapFileUseCount

VARIABLES
    useCount,           \* mapFileUseCount of the wallet
    otherCount,         \* and of the other databases
    cs_db,              \* who holds it: nobody, the flush thread or the backup
    nWalletDBUpdated,
    handles,            \* each user: closed or open, the value it loaded, the update
    logged, dat,        \* updates in the log only, and in wallet.dat itself
    flusher,            \* the flush thread: its place and its local variables
    backup,             \* the place of BackupWallet
    fShutdown

vars == <<useCount, otherCount, cs_db, nWalletDBUpdated, handles, logged, dat, flusher,
          backup, fShutdown>>

Closed == [open |-> FALSE, loaded |-> -1, record |-> {}]

Init ==
    /\ useCount = 0 /\ otherCount = 0
    /\ cs_db = "free"
    /\ nWalletDBUpdated = 0
    /\ handles = [u \in Users |-> Closed]
    /\ logged = {} /\ dat = {}
    /\ flusher = [at |-> "sleeping", nLastSeen |-> 0, nLastFlushed |-> 0, quiet |-> 0]
    /\ backup = "waiting"
    /\ fShutdown = FALSE

-----------------------------------------------------------------------------
(* The users of the database *)

\* CDB::CDB and CDB::Close
OpenWallet(u) ==
    /\ ~handles[u].open /\ cs_db = "free"
    /\ handles' = [handles EXCEPT ![u].open = TRUE]
    /\ useCount' = IF useCount = NoEntry THEN 1 ELSE useCount + 1
    /\ UNCHANGED <<otherCount, cs_db, nWalletDBUpdated, logged, dat, flusher, backup,
                   fShutdown>>
CloseWallet(u) ==
    /\ handles[u].open /\ handles[u].record = {} /\ cs_db = "free"
    /\ handles' = [handles EXCEPT ![u] = Closed]
    /\ useCount' = useCount - 1
    /\ UNCHANGED <<otherCount, cs_db, nWalletDBUpdated, logged, dat, flusher, backup,
                   fShutdown>>
\* The block index and the addresses are databases of the same environment.
UseOther ==
    /\ cs_db = "free"
    /\ otherCount' = 1 - otherCount
    /\ UNCHANGED <<useCount, cs_db, nWalletDBUpdated, handles, logged, dat, flusher, backup,
                   fShutdown>>

\* WriteTx, WriteName and the others count first and write then; WriteAccount,
\* WriteAccountingEntry and WriteMinVersion do not count.
Writing == UNION {handles[u].record : u \in Users}
LoadCount(u, r) ==
    /\ handles[u].open /\ handles[u].record = {}
    /\ r \in Records \ (logged \cup dat \cup Writing)
    /\ handles' = [handles EXCEPT
                    ![u].record = {r},
                    ![u].loaded = IF r \in CountedRecords THEN nWalletDBUpdated ELSE -1]
    /\ UNCHANGED <<useCount, otherCount, cs_db, nWalletDBUpdated, logged, dat, flusher,
                   backup, fShutdown>>
StoreCount(u) ==
    /\ handles[u].loaded >= 0
    /\ nWalletDBUpdated' = handles[u].loaded + 1
    /\ handles' = [handles EXCEPT ![u].loaded = -1]
    /\ UNCHANGED <<useCount, otherCount, cs_db, logged, dat, flusher, backup, fShutdown>>
WriteRecord(u) ==
    /\ handles[u].record # {} /\ handles[u].loaded = -1
    /\ logged' = logged \cup handles[u].record
    /\ handles' = [handles EXCEPT ![u].record = {}]
    /\ UNCHANGED <<useCount, otherCount, cs_db, nWalletDBUpdated, dat, flusher, backup,
                   fShutdown>>

-----------------------------------------------------------------------------
(* ThreadFlushWalletDB *)

\* Half a second later: an update restarts the two seconds of quiet.
Look ==
    /\ flusher.at = "sleeping" /\ ~fShutdown
    /\ \E passed \in {0, 1} :
        LET f == IF flusher.nLastSeen # nWalletDBUpdated
                 THEN [flusher EXCEPT !.nLastSeen = nWalletDBUpdated, !.quiet = 0]
                 ELSE [flusher EXCEPT !.quiet = IF @ + passed > 2 THEN 2 ELSE @ + passed]
        IN flusher' = [f EXCEPT !.at = "deciding"]
    /\ UNCHANGED <<useCount, otherCount, cs_db, nWalletDBUpdated, handles, logged, dat,
                   backup, fShutdown>>

\* TRY_LOCK: the lock is taken if it is free, and otherwise the thread sleeps again.
Decide ==
    /\ flusher.at = "deciding"
    /\ LET due == flusher.nLastFlushed # nWalletDBUpdated /\ flusher.quiet = 2
           locks == due /\ cs_db = "free"
       IN  /\ cs_db' = IF locks THEN "flush" ELSE cs_db
           /\ flusher' = [flusher EXCEPT !.at = IF locks THEN "locked" ELSE "sleeping"]
    /\ UNCHANGED <<useCount, otherCount, nWalletDBUpdated, handles, logged, dat, backup,
                   fShutdown>>

\* Mutant of Unused: only the files other than the wallet are looked at.
UnusedOthers == otherCount = 0
\* nRefCount: no database is in use at all.
Unused == otherCount = 0 /\ useCount \in {0, NoEntry}

Flushing == Unused /\ ~fShutdown /\ useCount # NoEntry
FlushBegin ==
    /\ flusher.at = "locked"
    /\ IF Flushing
       THEN /\ flusher' = [flusher EXCEPT !.at = "flushing", !.nLastFlushed = nWalletDBUpdated]
            /\ UNCHANGED cs_db
       ELSE /\ flusher' = [flusher EXCEPT !.at = "sleeping"]
            /\ cs_db' = "free"
    /\ UNCHANGED <<useCount, otherCount, nWalletDBUpdated, handles, logged, dat, backup,
                   fShutdown>>

\* CloseDb, the checkpoint and lsn_reset; the entry is erased and the lock released.
FlushEnd ==
    /\ flusher.at = "flushing"
    /\ dat' = dat \cup logged /\ logged' = {}
    /\ useCount' = NoEntry
    /\ cs_db' = "free"
    /\ flusher' = [flusher EXCEPT !.at = "sleeping"]
    /\ UNCHANGED <<otherCount, nWalletDBUpdated, handles, backup, fShutdown>>

-----------------------------------------------------------------------------
(* BackupWallet *)

\* It waits, a tenth of a second at a time, until the wallet is not in use.
BackupBegin ==
    /\ backup = "waiting" /\ ~fShutdown /\ cs_db = "free"
    /\ useCount \in {0, NoEntry}
    /\ cs_db' = "backup"
    /\ dat' = dat \cup logged /\ logged' = {}
    /\ useCount' = NoEntry
    /\ backup' = "copying"
    /\ UNCHANGED <<otherCount, nWalletDBUpdated, handles, flusher, fShutdown>>
BackupEnd ==
    /\ backup = "copying"
    /\ backup' \in {"copied", "failed"}
    /\ cs_db' = "free"
    /\ UNCHANGED <<useCount, otherCount, nWalletDBUpdated, handles, logged, dat, flusher,
                   fShutdown>>

Shutdown ==
    /\ fShutdown' = TRUE
    /\ UNCHANGED <<useCount, otherCount, cs_db, nWalletDBUpdated, handles, logged, dat,
                   flusher, backup>>

Next ==
    \/ \E u \in Users : \/ OpenWallet(u) \/ CloseWallet(u) \/ StoreCount(u) \/ WriteRecord(u)
                        \/ \E r \in Records : LoadCount(u, r)
    \/ UseOther
    \/ Look \/ Decide \/ FlushBegin \/ FlushEnd
    \/ BackupBegin \/ BackupEnd
    \/ Shutdown

Spec == Init /\ [][Next]_vars

-----------------------------------------------------------------------------
(* Properties *)

\* ThreadFlushWalletDB and BackupWallet: the database is never closed under a thread
\* that has it open.
ClosedUnused ==
    flusher.at = "flushing" \/ backup = "copying" => \A u \in Users : ~handles[u].open

\* ThreadFlushWalletDB: while an update that counts is only in the log, the thread has
\* a flush to do, whatever the unlocked counter lost to a race.
NoUpdateForgotten ==
    (logged \cap CountedRecords # {} /\ \A u \in Users : handles[u].loaded = -1)
        => flusher.nLastFlushed # nWalletDBUpdated \/ flusher.at = "flushing"

\* BackupWallet: it copies a file that has all there is, and that nobody writes to.
BackupWhole == backup = "copying" => logged = {} /\ Writing = {}

FlushedSafely == ClosedUnused /\ NoUpdateForgotten /\ BackupWhole
=============================================================================
