---------------------------- MODULE WalletCrypt ----------------------------
(***************************************************************************)
(* Wallet encryption: CCryptoKeyStore (crypter.cpp), the encrypting half   *)
(* of CWallet (wallet.cpp), the RPC calls that lock and unlock             *)
(* (rpcwallet.cpp), the GUI's UnlockContext (qt/walletmodel.cpp), and what *)
(* of all this is in wallet.dat when the program dies.                     *)
(*                                                                         *)
(* A master key is named by its id; what is encrypted with a master key    *)
(* or a passphrase is a record of which one it was, so decrypting with     *)
(* another fails.  A step ends where a lock is released or the disk is     *)
(* written.  Nothing here needs both cs_wallet and a second thread, except *)
(* that Lock() takes only cs_KeyStore and so may come between any two      *)
(* steps.                                                                  *)
(***************************************************************************)
EXTENDS Integers, FiniteSetsExt, Functions

CONSTANTS
    Rpc,              \* RPC threads
    Gui,              \* the GUI thread
    Keys,
    Passphrases,
    Open,             \* not a passphrase: the state of an unencrypted wallet
    MayFail,          \* the records whose write to wallet.dat may fail
    MaxMasterKeyID    \* bound of the model

ASSUME CryptAssumption ==
    /\ Gui \notin Rpc
    /\ Open \notin Passphrases
    /\ MayFail \subseteq {"key", "pool", "mkey"}
    /\ MaxMasterKeyID \in Nat

Threads == Rpc \cup {Gui}
MasterKeyIDs == 1..MaxMasterKeyID
Empty == 0                     \* vMasterKey.empty()
NoTimer == 0
NoFile == [key |-> {}, ckey |-> << >>, mkey |-> << >>]

VARIABLES
    mapKeys,           \* plain keys in memory
    mapCryptedKeys,    \* key -> id of the master key it is encrypted with
    vMasterKey,        \* id of the master key, or Empty when locked
    fUseCrypto,
    mapMasterKeys,     \* id -> the passphrase it is encrypted with
    disk,              \* wallet.dat: the records key, ckey and mkey
    txn,               \* wallet.dat as pwalletdbEncryption will leave it
    call,              \* what each thread is in the middle of
    timer,             \* the LockWallet call that is scheduled, or NoTimer
    issued,            \* keys the wallet has handed out or put into its pool
    acked              \* the passphrase the user was last told is in force

store == <<mapKeys, mapCryptedKeys, vMasterKey, fUseCrypto, mapMasterKeys>>
vars == <<store, disk, txn, call, timer, issued, acked>>

TypeOK ==
    /\ mapKeys \subseteq Keys
    /\ DOMAIN mapCryptedKeys \subseteq Keys
    /\ Range(mapCryptedKeys) \subseteq MasterKeyIDs
    /\ vMasterKey \in MasterKeyIDs \cup {Empty}
    /\ fUseCrypto \in BOOLEAN
    /\ DOMAIN mapMasterKeys \subseteq MasterKeyIDs
    /\ Range(mapMasterKeys) \subseteq Passphrases
    /\ \A f \in {disk, txn} :
         /\ f.key \subseteq Keys
         /\ DOMAIN f.ckey \subseteq Keys
         /\ Range(f.ckey) \subseteq MasterKeyIDs
         /\ DOMAIN f.mkey \subseteq MasterKeyIDs
         /\ Range(f.mkey) \subseteq Passphrases
    /\ call \in [Threads -> [at : {"idle", "encrypt", "commit", "newpool", "change",
                                   "passphrase", "context"},
                             pass : Passphrases \cup {Open},
                             fWasLocked : BOOLEAN]]
    /\ timer \in {NoTimer, 1, 2}
    /\ issued \subseteq Keys
    /\ acked \in Passphrases \cup {Open}

Idle == [at |-> "idle", pass |-> Open, fWasLocked |-> FALSE]

\* f with x mapped to v, whether or not x was in its domain.
Put(f, x, v) == [y \in DOMAIN f \cup {x} |-> IF y = x THEN v ELSE f[y]]

Init ==
    \* The wallet of a first run: the default key was made and saved.
    /\ \E k \in Keys : issued = {k}
    /\ mapKeys = issued
    /\ disk = [NoFile EXCEPT !.key = issued]
    /\ mapCryptedKeys = << >> /\ mapMasterKeys = << >>
    /\ vMasterKey = Empty /\ fUseCrypto = FALSE
    /\ txn = NoFile
    /\ call = [t \in Threads |-> Idle]
    /\ timer = NoTimer
    /\ acked = Open

IsCrypted == fUseCrypto
IsLocked == IsCrypted /\ vMasterKey = Empty

\* cs_wallet is free for t: EncryptWallet holds it from its first change of
\* the key store to its end.
CsWalletFree(t) == \A u \in Threads \ {t} : call[u].at \notin {"commit", "newpool"}

Begin(t, where, p) ==
    /\ call[t].at = "idle"
    /\ call' = [call EXCEPT ![t] = [Idle EXCEPT !.at = where, !.pass = p]]
Goto(t, where) == call' = [call EXCEPT ![t].at = where]
Return(t) == call' = [call EXCEPT ![t] = Idle]

\* Mutant of Decrypts: any master key the passphrase decrypts is taken.
DecryptsUnchecked(id) == mapCryptedKeys # << >>
\* CCryptoKeyStore::Unlock succeeds with the master key that decrypts the keys.
Decrypts(id) ==
    mapCryptedKeys # << >> /\ \A k \in DOMAIN mapCryptedKeys : mapCryptedKeys[k] = id

\* CWallet::Unlock: any of the master keys that p decrypts will do.
UnlockedBy(p) ==
    {id \in DOMAIN mapMasterKeys : mapMasterKeys[id] = p /\ Decrypts(id)}

-----------------------------------------------------------------------------
(* Keys *)

\* wallet.dat after AddKeyPubKey or AddCryptedKey has saved key k.
NewKeyWrites(k) ==
    IF IsCrypted THEN [disk EXCEPT !.ckey = Put(@, k, vMasterKey), !.key = @ \ {k}]
                 ELSE [disk EXCEPT !.key = @ \cup {k}]

\* Mutant of Saved: the result of WriteKey is not looked at.
SavedUnchecked(k) ==
    /\ disk' = NewKeyWrites(k) \/ ("key" \in MayFail /\ UNCHANGED disk)
    /\ issued' = issued \cup {k}
Saved(k) ==
    \/ disk' = NewKeyWrites(k) /\ issued' = issued \cup {k}
    \/ "key" \in MayFail /\ UNCHANGED <<disk, issued>>

\* A key that memory holds and the file may hold before long.
MakeKey(k) ==
    /\ ~IsLocked
    /\ k \notin mapKeys \cup DOMAIN mapCryptedKeys \cup issued
    /\ IF IsCrypted
       THEN mapCryptedKeys' = Put(mapCryptedKeys, k, vMasterKey) /\ UNCHANGED mapKeys
       ELSE mapKeys' = mapKeys \cup {k} /\ UNCHANGED mapCryptedKeys

\* GenerateNewKey; when the save fails it throws, and the key stays in memory and
\* is not handed out.
NewKey(k) == MakeKey(k) /\ Saved(k)

\* getnewaddress and the like, under cs_wallet.
GenerateNewKey(t, k) ==
    /\ call[t].at = "idle" /\ CsWalletFree(t)
    /\ NewKey(k)
    /\ UNCHANGED <<vMasterKey, fUseCrypto, mapMasterKeys, txn, call, timer, acked>>

-----------------------------------------------------------------------------
(* EncryptWallet *)

\* if (IsCrypted()) return false; -- before LOCK(cs_wallet)
EncryptCheck(t, p) ==
    /\ ~IsCrypted
    /\ Begin(t, "encrypt", p)
    /\ UNCHANGED <<store, disk, txn, timer, issued, acked>>

\* The program dies: memory, locks and the open transaction are gone, and the
\* next start loads what the disk holds.
LoadWallet ==
    /\ disk.key = {} \/ disk.ckey = << >>        \* else DB_CORRUPT
    /\ mapKeys' = disk.key
    /\ mapCryptedKeys' = disk.ckey
    /\ fUseCrypto' = (disk.ckey # << >>)
    /\ vMasterKey' = Empty
    /\ mapMasterKeys' = disk.mkey
    /\ txn' = NoFile
    /\ call' = [t \in Threads |-> Idle]
    /\ timer' = NoTimer
    /\ UNCHANGED <<disk, issued, acked>>

\* Mutant of Encrypted: the plain records are left in the file.
EncryptedKeepingPlain(id, p) ==
    [key |-> disk.key,
     ckey |-> [k \in mapKeys |-> id], mkey |-> Put(disk.mkey, id, p)]
\* Mutant of Encrypted: the master key is not part of the transaction.
EncryptedWithoutMaster(id, p) ==
    [key |-> disk.key \ mapKeys, ckey |-> [k \in mapKeys |-> id], mkey |-> disk.mkey]
\* wallet.dat with the master key id under passphrase p and every key under id.
Encrypted(id, p) ==
    [key |-> disk.key \ mapKeys,
     ckey |-> [k \in mapKeys |-> id], mkey |-> Put(disk.mkey, id, p)]

\* ++nMasterKeyMaxID, the largest id in mapMasterKeys
NextMasterKeyID == Max({0} \cup DOMAIN mapMasterKeys) + 1

\* mapMasterKeys[++nMasterKeyMaxID], TxnBegin, WriteMasterKey, EncryptKeys.  The
\* result of WriteMasterKey is not looked at.  EncryptKeys fails when another
\* thread has encrypted the wallet since the check: assert(false).
EncryptKeys(t) ==
    LET id == NextMasterKeyID
        f == Encrypted(id, call[t].pass)
    IN  /\ call[t].at = "encrypt" /\ CsWalletFree(t)
        /\ id <= MaxMasterKeyID
        /\ \/ /\ mapMasterKeys' = Put(mapMasterKeys, id, call[t].pass)
              /\ \/ /\ Return(t)                               \* TxnBegin failed
                    /\ UNCHANGED <<mapKeys, mapCryptedKeys, fUseCrypto, txn>>
                 \/ /\ ~IsCrypted
                    /\ fUseCrypto' = TRUE
                    /\ mapCryptedKeys' = [k \in mapKeys |-> id]
                    /\ mapKeys' = {}
                    /\ txn' \in {f} \cup (IF "mkey" \in MayFail
                                         THEN {[f EXCEPT !.mkey = disk.mkey]} ELSE {})
                    /\ Goto(t, "commit")
              /\ UNCHANGED <<vMasterKey, disk, timer, issued, acked>>
           \/ IsCrypted /\ LoadWallet

\* TxnCommit; when it fails, assert(false).
EncryptCommit(t) ==
    /\ call[t].at = "commit"
    /\ \/ /\ disk' = txn
          /\ txn' = NoFile
          /\ Goto(t, "newpool")
          /\ UNCHANGED <<store, timer, issued, acked>>
       \/ LoadWallet

\* Lock, Unlock, NewKeyPool, Lock, and CDB::Rewrite, which is code outside the
\* repository: it is taken to change no record and not to be interrupted.  Another
\* thread may lock in between, and then NewKeyPool makes no key.
EncryptNewPool(t) ==
    /\ call[t].at = "newpool"
    /\ \/ UNCHANGED <<mapCryptedKeys, disk, issued>>
       \/ \E id \in UnlockedBy(call[t].pass), k \in Keys :
            /\ k \notin mapKeys \cup DOMAIN mapCryptedKeys \cup issued
            /\ mapCryptedKeys' = Put(mapCryptedKeys, k, id)
            /\ disk' = [disk EXCEPT !.ckey = Put(@, k, id)]
            /\ issued' = issued \cup {k}
    /\ vMasterKey' = Empty
    /\ Return(t)
    /\ acked' = call[t].pass
    /\ UNCHANGED <<mapKeys, fUseCrypto, mapMasterKeys, txn, timer>>

\* The same, but a key of the new pool is not saved: GenerateNewKey throws, and
\* EncryptWallet is left unlocked and with nothing said to the user.
EncryptNewPoolThrows(t) ==
    /\ call[t].at = "newpool"
    /\ "key" \in MayFail
    /\ \E id \in UnlockedBy(call[t].pass), k \in Keys :
         /\ k \notin mapKeys \cup DOMAIN mapCryptedKeys \cup issued
         /\ mapCryptedKeys' = Put(mapCryptedKeys, k, id)
         /\ vMasterKey' = id
    /\ Return(t)
    /\ UNCHANGED <<mapKeys, fUseCrypto, mapMasterKeys, disk, txn, timer, issued, acked>>

-----------------------------------------------------------------------------
(* ChangeWalletPassphrase *)

\* bool fWasLocked = IsLocked(); -- before LOCK(cs_wallet), for an RPC thread.
ChangeCheck(t, old) ==
    /\ t \in Rpc /\ IsCrypted
    /\ call[t].at = "idle"
    /\ call' = [call EXCEPT ![t] = [at |-> "change", pass |-> old,
                                    fWasLocked |-> IsLocked]]
    /\ UNCHANGED <<store, disk, txn, timer, issued, acked>>

\* The loop over the master keys gives up at the first that old does not decrypt
\* and goes on past one that does not decrypt the keys.
Skipped(old, id) == mapMasterKeys[id] = old /\ ~Decrypts(id)
Found(old) ==
    {id \in UnlockedBy(old) :
        \A i \in DOMAIN mapMasterKeys : i < id => Skipped(old, i)}

\* Mutant of ChangedTo: the master key is not saved.
ChangedToUnsaved(t, id, new, wasLocked) ==
    /\ mapMasterKeys' = [mapMasterKeys EXCEPT ![id] = new]
    /\ UNCHANGED disk
    /\ vMasterKey' = IF wasLocked THEN Empty ELSE id
    /\ acked' = new
\* Lock; then, with the master key found, encrypt it anew, save it (the result is
\* not looked at) and stay unlocked unless wasLocked.
ChangedTo(t, id, new, wasLocked) ==
    /\ mapMasterKeys' = [mapMasterKeys EXCEPT ![id] = new]
    /\ disk' \in {[disk EXCEPT !.mkey = Put(@, id, new)]} \cup
                 (IF "mkey" \in MayFail THEN {disk} ELSE {})
    /\ vMasterKey' = IF wasLocked THEN Empty ELSE id
    /\ acked' = new
NotChanged ==
    vMasterKey' = Empty /\ UNCHANGED <<mapMasterKeys, disk, acked>>

ChangeWalletPassphrase(t, new) ==
    /\ call[t].at = "change" /\ CsWalletFree(t)
    /\ \/ \E id \in Found(call[t].pass) : ChangedTo(t, id, new, call[t].fWasLocked)
       \/ Found(call[t].pass) = {} /\ NotChanged
    /\ Return(t)
    /\ UNCHANGED <<mapKeys, mapCryptedKeys, fUseCrypto, txn, timer, issued>>

\* WalletModel::changePassphrase locks the wallet first, all under cs_wallet.
GuiChangePassphrase(old, new) ==
    /\ IsCrypted
    /\ call[Gui].at = "idle" /\ CsWalletFree(Gui)
    /\ \/ \E id \in Found(old) : ChangedTo(Gui, id, new, TRUE)
       \/ Found(old) = {} /\ NotChanged
    /\ UNCHANGED <<mapKeys, mapCryptedKeys, fUseCrypto, txn, call, timer, issued>>

-----------------------------------------------------------------------------
(* Locking and unlocking *)

\* walletpassphrase, up to the return of Unlock
WalletPassphrase(t, p) ==
    /\ t \in Rpc /\ IsCrypted /\ CsWalletFree(t)
    /\ \E id \in UnlockedBy(p) : vMasterKey' = id
    /\ Begin(t, "passphrase", Open)
    /\ UNCHANGED <<mapKeys, mapCryptedKeys, fUseCrypto, mapMasterKeys, disk, txn,
                   timer, issued, acked>>

\* RPCRunLater puts a new timer in the place of the one there is.
NextTimer == IF timer = 1 THEN 2 ELSE 1

\* TopUpKeyPool, when it can, and RPCRunLater.  An exception leaves before the timer
\* is set: from GenerateNewKey, or since WritePool failed for a key that is saved.
RunLater(t) ==
    /\ call[t].at = "passphrase" /\ CsWalletFree(t)
    /\ \/ timer' = NextTimer /\ UNCHANGED <<mapKeys, mapCryptedKeys, disk, issued>>
       \/ \E k \in Keys : NewKey(k) /\ timer' = IF k \in issued' THEN NextTimer ELSE timer
       \/ /\ "pool" \in MayFail
          /\ \E k \in Keys : MakeKey(k) /\ disk' = NewKeyWrites(k)
          /\ UNCHANGED <<timer, issued>>
    /\ Return(t)
    /\ UNCHANGED <<vMasterKey, fUseCrypto, mapMasterKeys, txn, acked>>

\* LockWallet, when the time of timer i is over.
LockWallet(i) ==
    /\ timer = i
    /\ timer' = NoTimer
    /\ vMasterKey' = Empty
    /\ UNCHANGED <<mapKeys, mapCryptedKeys, fUseCrypto, mapMasterKeys, disk, txn,
                   call, issued, acked>>

WalletLock(t) ==
    /\ t \in Rpc /\ call[t].at = "idle" /\ IsCrypted
    /\ vMasterKey' = Empty
    /\ UNCHANGED <<mapKeys, mapCryptedKeys, fUseCrypto, mapMasterKeys, disk, txn,
                   call, timer, issued, acked>>

\* requestUnlock found the wallet locked and its dialog unlocks it, unless
\* another thread has.  Found unlocked, nothing is done and nothing relocks.
RequestUnlock(p) ==
    /\ IsLocked /\ CsWalletFree(Gui)
    /\ \E id \in UnlockedBy(p) : vMasterKey' = id
    /\ Begin(Gui, "context", Open)
    /\ UNCHANGED <<mapKeys, mapCryptedKeys, fUseCrypto, mapMasterKeys, disk, txn,
                   timer, issued, acked>>

\* Mutant of Relock: the context was copied and neither copy relocks.
RelockCopied ==
    /\ call[Gui].at = "context"
    /\ Return(Gui)
    /\ UNCHANGED <<store, disk, txn, timer, issued, acked>>
\* ~UnlockContext
Relock ==
    /\ call[Gui].at = "context"
    /\ vMasterKey' = Empty
    /\ Return(Gui)
    /\ UNCHANGED <<mapKeys, mapCryptedKeys, fUseCrypto, mapMasterKeys, disk, txn,
                   timer, issued, acked>>

Next ==
    \/ \E t \in Threads :
         \/ \E k \in Keys : GenerateNewKey(t, k)
         \/ \E p \in Passphrases :
              \/ EncryptCheck(t, p)
              \/ ChangeCheck(t, p)
              \/ ChangeWalletPassphrase(t, p)
              \/ WalletPassphrase(t, p)
         \/ EncryptKeys(t)
         \/ EncryptCommit(t)
         \/ EncryptNewPool(t)
         \/ EncryptNewPoolThrows(t)
         \/ RunLater(t)
         \/ WalletLock(t)
    \/ \E old, new \in Passphrases : GuiChangePassphrase(old, new)
    \/ \E p \in Passphrases : RequestUnlock(p)
    \/ Relock
    \/ \E i \in {1, 2} : LockWallet(i)
    \/ LoadWallet

Spec == Init /\ [][Next]_vars

\* The time of a timer that is not replaced runs out, and the GUI ends what it
\* began; that a timer is left to run out, or that calls are made, is not assumed.
Fairness ==
    /\ \A i \in {1, 2} : WF_vars(LockWallet(i))
    /\ WF_vars(Relock)
FairSpec == Spec /\ Fairness

-----------------------------------------------------------------------------
(* Properties *)

\* crypter.h: "if fUseCrypto is true, mapKeys must be empty; if fUseCrypto is
\* false, vMasterKey must be empty"; and the master key in memory is the one that
\* every key is encrypted with.
KeyStoreConsistent ==
    /\ TypeOK
    /\ fUseCrypto => mapKeys = {}
    /\ ~fUseCrypto => vMasterKey = Empty /\ mapCryptedKeys = << >>
    /\ vMasterKey # Empty => Range(mapCryptedKeys) = {vMasterKey}

\* EncryptWallet and LoadWallet: whenever the program dies, the file it leaves
\* loads (plain and encrypted keys are never mixed), and every encrypted key has
\* its master key there.
FileLoads ==
    /\ disk.key = {} \/ disk.ckey = << >>
    /\ Range(disk.ckey) \subseteq DOMAIN disk.mkey

\* GenerateNewKey, "AddKey failed": a key that was handed out is in the file.
IssuedKeysStored == issued \subseteq disk.key \cup DOMAIN disk.ckey

\* The passphrase that opens every key of the file.
Protection ==
    LET opens == {disk.mkey[id] : id \in
                    {i \in DOMAIN disk.mkey : Range(disk.ckey) = {i}}}
    IN  IF disk.ckey = << >> THEN Open
        ELSE IF opens = {} THEN "lost" ELSE CHOOSE p \in opens : TRUE

\* walletpassphrasechange, "Changes the wallet passphrase from <oldpassphrase> to
\* <newpassphrase>": the passphrase that encryption or a change last reported to
\* be in force opens the wallet at the next start.
AckedPassphraseOpens == acked # Open => Protection = acked

\* The file goes through the steps of WalletVault, whatever the threads do and
\* wherever the program dies.
Vault == INSTANCE WalletVault
            WITH stored <- disk.key \cup DOMAIN disk.ckey, protection <- Protection
VaultSpec == Vault!Spec

\* LockWallet, the help of walletpassphrase ("will set a new unlock time that
\* overrides the old one"): once no walletpassphrase call is made any more, an
\* unlocked wallet is locked again, as long as no RPC thread changes the passphrase
\* and every key that was made is saved, the pool's record of it too (otherwise
\* walletpassphrase and EncryptWallet throw and leave the wallet unlocked).
AllSaved == mapKeys \cup DOMAIN mapCryptedKeys \subseteq issued
LockedAgain ==
    [](AllSaved /\ \A t \in Rpc : call[t].at # "change")
        /\ <>[](\A t \in Rpc : call[t].at # "passphrase")
    => ((vMasterKey # Empty) ~> (vMasterKey = Empty))
=============================================================================
