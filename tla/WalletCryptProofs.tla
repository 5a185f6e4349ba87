-------------------------- MODULE WalletCryptProofs --------------------------
(***************************************************************************)
(* What holds of an encrypted wallet for every number of threads, keys,    *)
(* passphrases and master keys: the key store is consistent, a key that    *)
(* was handed out is in the file, and, when master keys are written, the   *)
(* file always loads and goes through the steps of WalletVault.  At the    *)
(* end, that wallet.dat is flushed safely (WalletFlush).                   *)
(***************************************************************************)
EXTENDS WalletCrypt, IntervalFacts, FiniteSetTheorems

-----------------------------------------------------------------------------
(* std::map<K, V> as a function *)

IsMap(f) == f = [x \in DOMAIN f |-> f[x]]

\* map.empty() says that the map has no key.
LEMMA EmptyMap ==
    ASSUME NEW f, IsMap(f)
    PROVE  f = << >> <=> DOMAIN f = {}
<1>1. DOMAIN << >> = {}
  OBVIOUS
<1>2. ASSUME DOMAIN f = {} PROVE f = << >>
  BY <1>2 DEF IsMap
<1> QED
  BY <1>1, <1>2

\* A map with one more key, or with another value of a key, is a map still.
MapOver(f, D, R) == IsMap(f) /\ DOMAIN f \subseteq D /\ Range(f) \subseteq R
LEMMA PutKeeps ==
    ASSUME NEW f, NEW D, NEW R, MapOver(f, D, R), NEW x \in D, NEW v \in R
    PROVE  MapOver(Put(f, x, v), D, R)
<1> DEFINE E == DOMAIN f \cup {x}
           g == [y \in E |-> IF y = x THEN v ELSE f[y]]
<1>1. E \subseteq D /\ \A y \in DOMAIN f : f[y] \in R
  BY DEF MapOver, Range
<1>2. \A y \in E : (IF y = x THEN v ELSE f[y]) \in R
  BY <1>1
<1> HIDE DEF E
<1>3. DOMAIN g = E /\ \A y \in E : g[y] \in R
  BY <1>2
<1>4. IsMap(g) /\ Range(g) \subseteq R
  BY <1>3 DEF IsMap, Range
<1>5. Put(f, x, v) = g
  BY DEF Put, E
<1> HIDE DEF g
<1> QED
  BY <1>1, <1>3, <1>4, <1>5 DEF MapOver
LEMMA SetKeeps ==
    ASSUME NEW f, NEW D, NEW R, MapOver(f, D, R), NEW x, NEW v \in R
    PROVE  MapOver([f EXCEPT ![x] = v], D, R)
<1> DEFINE g == [f EXCEPT ![x] = v]
<1>1. \A y \in DOMAIN f : f[y] \in R
  BY DEF MapOver, Range
<1>2. DOMAIN g = DOMAIN f /\ (\A y \in DOMAIN f : g[y] \in R) /\ IsMap(g)
  BY <1>1 DEF IsMap
<1> HIDE DEF g
<1>3. Range(g) \subseteq R
  BY <1>2 DEF Range
<1> QED
  BY <1>2, <1>3 DEF MapOver, g

-----------------------------------------------------------------------------
(* The inductive invariant.  The first three parts hold whichever writes    *)
(* fail; MasterKept is about the records mkey and needs them written.       *)

Holding == {"commit", "newpool"}          \* where EncryptWallet holds cs_wallet
Passing == {"encrypt", "change"} \cup Holding      \* where the passphrase is needed yet

Maps == {mapCryptedKeys, mapMasterKeys, disk.ckey, disk.mkey, txn.ckey, txn.mkey}
StoreType ==
    /\ TypeOK
    /\ \A f \in Maps : IsMap(f)
    /\ \A t \in Threads : call[t].at \in Passing => call[t].pass \in Passphrases

\* Plain keys, or keys all encrypted with one master key; only that one is in memory.
MemoryRight ==
    /\ fUseCrypto <=> DOMAIN mapCryptedKeys # {}
    /\ fUseCrypto => mapKeys = {}
    /\ ~fUseCrypto => vMasterKey = Empty
    /\ \A k, l \in DOMAIN mapCryptedKeys : mapCryptedKeys[k] = mapCryptedKeys[l]
    /\ vMasterKey # Empty => \A k \in DOMAIN mapCryptedKeys : mapCryptedKeys[k] = vMasterKey

\* EncryptWallet is past its check in one thread at most, and then memory is encrypted.
OneEncrypts ==
    /\ \A t, u \in Threads : call[t].at \in Holding /\ call[u].at \in Holding => t = u
    /\ \A t \in Threads : call[t].at \in Holding => fUseCrypto

\* The file is encrypted as soon as memory is, but for the time before TxnCommit.
Committing == \E t \in Threads : call[t].at = "commit"
FileRight ==
    /\ DOMAIN disk.ckey # {} <=> fUseCrypto /\ ~Committing
    /\ DOMAIN disk.ckey = {} => disk.key # {}
    /\ DOMAIN disk.ckey # {} => disk.key = {}
    /\ disk.key \subseteq mapKeys \cup DOMAIN mapCryptedKeys
    /\ \A k \in DOMAIN disk.ckey :
         k \in DOMAIN mapCryptedKeys /\ disk.ckey[k] = mapCryptedKeys[k]
    /\ Committing => txn.key = {} /\ txn.ckey = mapCryptedKeys
    /\ issued \subseteq disk.key \cup DOMAIN disk.ckey

StoreInv == StoreType /\ MemoryRight /\ OneEncrypts /\ FileRight

\* The master key of the encrypted keys is under the same passphrase in memory, in
\* the file and in the open transaction: the one EncryptWallet was called with until
\* it returns, and then the one last acknowledged.
MasterKept ==
    /\ \A k \in DOMAIN mapCryptedKeys : mapCryptedKeys[k] \in DOMAIN mapMasterKeys
    /\ \A k \in DOMAIN disk.ckey :
         /\ disk.ckey[k] \in DOMAIN disk.mkey
         /\ disk.mkey[disk.ckey[k]] = mapMasterKeys[disk.ckey[k]]
         /\ acked # Open => disk.mkey[disk.ckey[k]] = acked
         /\ \A t \in Threads :
              call[t].at = "newpool" => disk.mkey[disk.ckey[k]] = call[t].pass
    /\ \A t \in Threads : call[t].at = "commit" =>
         \A k \in DOMAIN txn.ckey :
            /\ txn.ckey[k] \in DOMAIN txn.mkey
            /\ txn.mkey[txn.ckey[k]] = mapMasterKeys[txn.ckey[k]]
            /\ txn.mkey[txn.ckey[k]] = call[t].pass
    /\ acked # Open => DOMAIN disk.ckey # {}

CryptInv == StoreInv /\ MasterKept

-----------------------------------------------------------------------------
(* Steps that share their proof *)

\* What a thread begins or ends leaves cs_wallet alone.
CallsKept ==
    /\ call' \in [Threads -> [at : {"idle", "encrypt", "commit", "newpool", "change",
                                   "passphrase", "context"},
                             pass : Passphrases \cup {Open},
                             fWasLocked : BOOLEAN]]
    /\ \A u \in Threads :
         \/ call'[u] = call[u]
         \/ /\ call[u].at # "commit" /\ call'[u].at \notin Holding
            /\ call'[u].at \in Passing => call'[u].pass \in Passphrases

\* A call that begins leaves the others where they are,
LEMMA BeginKeeps ==
    ASSUME StoreType, NEW t \in Threads, NEW p \in Passphrases \cup {Open},
           NEW where \in {"encrypt", "passphrase", "context"}, Begin(t, where, p),
           where = "encrypt" => p \in Passphrases
    PROVE  CallsKept
BY DEF StoreType, TypeOK, Begin, Idle, CallsKept, Holding, Passing

\* and so does one that returns.
LEMMA ReturnKeeps ==
    ASSUME StoreType, NEW t \in Threads, call[t].at # "commit", Return(t)
    PROVE  CallsKept
BY DEF StoreType, TypeOK, Return, Idle, CallsKept, Holding, Passing

\* Nobody commits while another thread has cs_wallet.
LEMMA NoneCommits ==
    ASSUME StoreInv, NEW t \in Threads, CsWalletFree(t), call[t].at # "commit"
    PROVE  ~Committing
BY DEF CsWalletFree, Committing

\* Beginning, ending, locking, unlocking and changing the passphrase: the keys stay.
LEMMA KeysKept ==
    ASSUME StoreInv, CallsKept,
           UNCHANGED <<mapKeys, mapCryptedKeys, fUseCrypto, txn, issued>>,
           UNCHANGED disk \/ (disk'.key = disk.key /\ disk'.ckey = disk.ckey),
           vMasterKey' \in {vMasterKey, Empty} \/ (fUseCrypto /\ Decrypts(vMasterKey')),
           StoreType'
    PROVE  StoreInv'
<1> USE DEF StoreInv
<1>1. Committing' <=> Committing
  BY DEF CallsKept, Committing, Holding
<1>2. disk'.key = disk.key /\ disk'.ckey = disk.ckey
  OBVIOUS
<1>3. MemoryRight'
  BY DEF MemoryRight, Decrypts
<1>4. OneEncrypts'
  BY DEF OneEncrypts, CallsKept
<1>5. FileRight'
  BY <1>1, <1>2 DEF FileRight
<1> QED
  BY <1>3, <1>4, <1>5

-----------------------------------------------------------------------------
(* A new key *)

Timers == {NoTimer, 1, 2}

\* A key that is made, saved or not, and if it is, handed out or not.
KeyMade(k) ==
    /\ MakeKey(k)
    /\ \/ disk' = NewKeyWrites(k) /\ issued' \in {issued, issued \cup {k}}
       \/ UNCHANGED <<disk, issued>>
\* walletpassphrase's top-up, with or without an exception, and its timer.
LEMMA RunLaterCases ==
    ASSUME StoreType, NEW t \in Threads, RunLater(t)
    PROVE  /\ timer' \in Timers
           /\ \/ UNCHANGED <<mapKeys, mapCryptedKeys, disk, issued>>
              \/ \E k \in Keys : KeyMade(k)
BY DEF RunLater, NewKey, Saved, KeyMade, Timers, NextTimer, StoreType, TypeOK

\* A key that is new in memory, encrypted with the master key of the others, is
\* new in the file too, where it is saved or not.
LEMMA NewKeyStore ==
    ASSUME StoreInv, NEW k \in Keys, KeyMade(k), ~Committing, CallsKept,
           UNCHANGED <<vMasterKey, fUseCrypto, mapMasterKeys, txn, acked>>,
           timer' \in Timers
    PROVE  StoreInv'
<1> USE DEF StoreInv
<1>1. ~Committing'
  BY DEF CallsKept, Committing, Holding
<1>2. vMasterKey \in MasterKeyIDs \cup {Empty}
  BY DEF StoreType, TypeOK
<1>3. OneEncrypts'
  BY DEF OneEncrypts, CallsKept
<1>4. CASE IsCrypted
  <2> DEFINE m == Put(mapCryptedKeys, k, vMasterKey)
             d == Put(disk.ckey, k, vMasterKey)
  <2>1. /\ IsMap(m) /\ DOMAIN m = DOMAIN mapCryptedKeys \cup {k} /\ m[k] = vMasterKey
        /\ \A y \in DOMAIN mapCryptedKeys \ {k} : m[y] = mapCryptedKeys[y]
    BY DEF Put, IsMap
  <2>2. /\ IsMap(d) /\ DOMAIN d = DOMAIN disk.ckey \cup {k} /\ d[k] = vMasterKey
        /\ \A y \in DOMAIN disk.ckey \ {k} : d[y] = disk.ckey[y]
    BY DEF Put, IsMap
  <2>3. /\ vMasterKey # Empty /\ vMasterKey \in MasterKeyIDs
        /\ k \notin DOMAIN mapCryptedKeys
        /\ mapCryptedKeys' = m /\ UNCHANGED mapKeys
        /\ \/ disk' = [disk EXCEPT !.ckey = d, !.key = @ \ {k}] /\ issued' \in {issued, issued \cup {k}}
           \/ UNCHANGED <<disk, issued>>
    BY <1>4, <1>2 DEF KeyMade, MakeKey, IsLocked, NewKeyWrites
  <2> HIDE DEF m, d
  <2>4. MemoryRight'
    BY <1>4, <2>1, <2>3 DEF MemoryRight, IsCrypted
  <2>5. CASE UNCHANGED <<disk, issued>>
    <3>1. StoreType'
      BY <2>1, <2>3, <2>5 DEF StoreType, TypeOK, Maps, CallsKept, Range, Timers
    <3>2. FileRight'
      BY <1>1, <2>1, <2>3, <2>5 DEF FileRight
    <3> QED
      BY <1>3, <2>4, <3>1, <3>2
  <2>6. CASE /\ disk' = [disk EXCEPT !.ckey = d, !.key = @ \ {k}]
             /\ issued' \in {issued, issued \cup {k}}
    <3>0. disk'.ckey = d /\ disk'.key = disk.key \ {k} /\ disk'.mkey = disk.mkey
      BY <2>6
    <3>1. StoreType'
      BY <2>1, <2>2, <2>3, <2>6, <3>0 DEF StoreType, TypeOK, Maps, CallsKept, Range, Timers
    <3>2. FileRight'
      BY <1>1, <1>4, <2>1, <2>2, <2>3, <2>6, <3>0 DEF FileRight, MemoryRight, IsCrypted
    <3> QED
      BY <1>3, <2>4, <3>1, <3>2
  <2> QED
    BY <2>3, <2>5, <2>6
<1>5. CASE ~IsCrypted
  <2>1. /\ mapKeys' = mapKeys \cup {k} /\ UNCHANGED mapCryptedKeys
        /\ \/ disk' = [disk EXCEPT !.key = @ \cup {k}] /\ issued' \in {issued, issued \cup {k}}
           \/ UNCHANGED <<disk, issued>>
    BY <1>5 DEF KeyMade, MakeKey, NewKeyWrites
  <2>2. /\ disk'.key \in {disk.key, disk.key \cup {k}}
        /\ disk'.ckey = disk.ckey /\ disk'.mkey = disk.mkey
        /\ issued' \subseteq issued \cup (disk'.key \cap {k})
        /\ issued' \subseteq issued \cup {k}
    <3>1. CASE UNCHANGED <<disk, issued>>
      BY <3>1
    <3>2. CASE disk' = [disk EXCEPT !.key = @ \cup {k}] /\ issued' \in {issued, issued \cup {k}}
      BY <3>2
    <3> QED
      BY <2>1, <3>1, <3>2
  <2>3. StoreType'
    BY <2>1, <2>2 DEF StoreType, TypeOK, Maps, CallsKept, Timers
  <2>4. MemoryRight'
    BY <1>5, <2>1 DEF MemoryRight, IsCrypted
  <2>5. FileRight'
    BY <1>1, <1>5, <2>1, <2>2 DEF FileRight, IsCrypted
  <2> QED
    BY <1>3, <2>3, <2>4, <2>5
<1> QED
  BY <1>4, <1>5

-----------------------------------------------------------------------------
(* The other steps *)

\* The store's part of the invariant holds at the start.
LEMMA InitStore == Init => StoreInv
<1> SUFFICES ASSUME Init PROVE StoreInv
  OBVIOUS
<1>1. DOMAIN << >> = {} /\ IsMap(<< >>) /\ Range(<< >>) = {}
  BY DEF IsMap, Range
<1>2. PICK k \in Keys : issued = {k}
  BY DEF Init
<1>3. /\ disk.key = issued /\ disk.ckey = << >> /\ disk.mkey = << >>
      /\ txn.key = {} /\ txn.ckey = << >> /\ txn.mkey = << >>
  BY DEF Init, NoFile
<1>4. \A t \in Threads : call[t] = Idle
  BY DEF Init
<1>5. StoreType
  BY <1>1, <1>2, <1>3, <1>4 DEF Init, StoreType, TypeOK, Maps, Idle, Passing, Holding
<1>6. MemoryRight /\ OneEncrypts /\ ~Committing
  BY <1>1, <1>4 DEF Init, MemoryRight, OneEncrypts, Committing, Holding, Idle
<1>7. FileRight
  BY <1>1, <1>2, <1>3, <1>6 DEF Init, FileRight
<1> QED
  BY <1>5, <1>6, <1>7 DEF StoreInv

\* The next start of the program: what the file holds is in memory.
LEMMA LoadStore ==
    ASSUME StoreInv, LoadWallet
    PROVE  StoreInv'
<1> USE DEF StoreInv
<1>1. DOMAIN << >> = {} /\ IsMap(<< >>) /\ Range(<< >>) = {}
  BY DEF IsMap, Range
<1>2. /\ txn'.key = {} /\ txn'.ckey = << >> /\ txn'.mkey = << >>
      /\ \A t \in Threads : call'[t] = Idle
  BY DEF LoadWallet, NoFile
<1>3. fUseCrypto' <=> DOMAIN disk.ckey # {}
  BY EmptyMap DEF LoadWallet, StoreType, Maps
<1>4. call' \in [Threads -> [at : {"idle", "encrypt", "commit", "newpool", "change",
                                   "passphrase", "context"},
                             pass : Passphrases \cup {Open},
                             fWasLocked : BOOLEAN]]
  BY DEF LoadWallet, Idle
<1>5. StoreType'
  <2>1. /\ mapKeys' = disk.key /\ mapCryptedKeys' = disk.ckey /\ mapMasterKeys' = disk.mkey
        /\ vMasterKey' = Empty /\ timer' = NoTimer /\ fUseCrypto' \in BOOLEAN
        /\ disk' = disk /\ issued' = issued /\ acked' = acked
    BY DEF LoadWallet
  <2>2. /\ disk.key \subseteq Keys
        /\ MapOver(disk.ckey, Keys, MasterKeyIDs)
        /\ MapOver(disk.mkey, MasterKeyIDs, Passphrases)
        /\ issued \subseteq Keys /\ acked \in Passphrases \cup {Open}
    BY DEF StoreType, TypeOK, Maps, MapOver
  <2>3. /\ txn'.key \subseteq Keys
        /\ MapOver(txn'.ckey, Keys, MasterKeyIDs)
        /\ MapOver(txn'.mkey, MasterKeyIDs, Passphrases)
    BY <1>1, <1>2 DEF MapOver
  <2>4. TypeOK'
    BY <1>4, <2>1, <2>2, <2>3 DEF TypeOK, MapOver
  <2>5. \A f \in Maps' : IsMap(f)
    BY <2>1, <2>2, <2>3 DEF Maps, MapOver
  <2> QED
    BY <1>2, <2>4, <2>5 DEF StoreType, Idle, Passing, Holding
<1>6. OneEncrypts' /\ ~Committing'
  BY <1>2 DEF OneEncrypts, Committing, Holding, Idle
<1>7. MemoryRight'
  BY <1>3 DEF LoadWallet, MemoryRight, FileRight
<1>8. FileRight'
  BY <1>3, <1>6 DEF LoadWallet, FileRight
<1> QED
  BY <1>5, <1>6, <1>7, <1>8

\* ++nMasterKeyMaxID is the id of no master key.
LEMMA NextIsFresh ==
    ASSUME StoreType
    PROVE  NextMasterKeyID \notin DOMAIN mapMasterKeys /\ NextMasterKeyID \in Nat \ {0}
<1> DEFINE D == DOMAIN mapMasterKeys
<1>1. D \in SUBSET (1..MaxMasterKeyID) /\ MaxMasterKeyID \in Nat
  BY CryptAssumption DEF StoreType, TypeOK, MasterKeyIDs
<1> HIDE DEF D
<1>2. \E m \in {0} \cup D : \A y \in {0} \cup D : m >= y
  <2>1. CASE D = {}
    BY <2>1
  <2>2. CASE D # {}
    <3>1. PICK m \in D : \A y \in D : y <= m
      BY <1>1, <2>2, MaxExists
    <3>2. m \in Nat /\ \A y \in D : y \in Nat
      BY <1>1
    <3>3. \A y \in {0} \cup D : m >= y
      BY <3>1, <3>2
    <3> QED
      BY <3>3
  <2> QED
    BY <2>1, <2>2
<1>3. /\ Max({0} \cup D) \in {0} \cup D
      /\ \A y \in {0} \cup D : Max({0} \cup D) >= y
  BY <1>2 DEF Max
<1>4. NextMasterKeyID = Max({0} \cup D) + 1
  BY DEF NextMasterKeyID, D
<1> QED
  BY <1>1, <1>3, <1>4 DEF D

\* A master key that is not used for any key: TxnBegin failed.
LEMMA StrayStore ==
    ASSUME StoreInv, NEW t \in Threads, call[t].at = "encrypt",
           mapMasterKeys' = Put(mapMasterKeys, NextMasterKeyID, call[t].pass),
           NextMasterKeyID <= MaxMasterKeyID, Return(t),
           UNCHANGED <<mapKeys, mapCryptedKeys, fUseCrypto, txn, vMasterKey, disk,
                       timer, issued, acked>>
    PROVE  StoreInv'
<1>1. /\ IsMap(mapMasterKeys') /\ Range(mapMasterKeys') \subseteq Passphrases
      /\ DOMAIN mapMasterKeys' \subseteq MasterKeyIDs
  <2>1. call[t].pass \in Passphrases
    BY DEF StoreInv, StoreType, Passing, Holding
  <2>2. NextMasterKeyID \in MasterKeyIDs
    BY CryptAssumption, NextIsFresh DEF StoreInv, MasterKeyIDs
  <2> QED
    <3>1. MapOver(mapMasterKeys, MasterKeyIDs, Passphrases)
      BY DEF StoreInv, StoreType, Maps, TypeOK, MapOver
    <3> QED
      BY <2>1, <2>2, <3>1, PutKeeps DEF MapOver
<1>2. CallsKept
  BY ReturnKeeps DEF StoreInv
<1>3. StoreType'
  BY <1>1, <1>2 DEF StoreInv, StoreType, TypeOK, Maps, CallsKept
<1> QED
  BY <1>2, <1>3, KeysKept

\* Every key in memory is encrypted; the file stays as it was until TxnCommit.
EncryptsInMemory(t) ==
    LET id == NextMasterKeyID
        f == Encrypted(id, call[t].pass)
    IN  /\ call[t].at = "encrypt" /\ CsWalletFree(t)
        /\ id <= MaxMasterKeyID
        /\ mapMasterKeys' = Put(mapMasterKeys, id, call[t].pass)
        /\ ~IsCrypted
        /\ fUseCrypto' = TRUE
        /\ mapCryptedKeys' = [k \in mapKeys |-> id]
        /\ mapKeys' = {}
        /\ txn' \in {f} \cup (IF "mkey" \in MayFail
                                         THEN {[f EXCEPT !.mkey = disk.mkey]} ELSE {})
        /\ Goto(t, "commit")
        /\ UNCHANGED <<vMasterKey, disk, timer, issued, acked>>

\* EncryptKeys encrypts in memory, or leaves a master key behind that no key has.
LEMMA EncryptKeysCases ==
    ASSUME NEW t \in Threads, EncryptKeys(t)
    PROVE  \/ EncryptsInMemory(t)
           \/ /\ call[t].at = "encrypt"
              /\ mapMasterKeys' = Put(mapMasterKeys, NextMasterKeyID, call[t].pass)
              /\ NextMasterKeyID <= MaxMasterKeyID
              /\ Return(t)
              /\ UNCHANGED <<mapKeys, mapCryptedKeys, fUseCrypto, txn, vMasterKey, disk,
                             timer, issued, acked>>
           \/ LoadWallet
BY DEF EncryptKeys, EncryptsInMemory

\* EncryptKeys, in memory.
LEMMA EncryptsStore ==
    ASSUME StoreInv, NEW t \in Threads, EncryptsInMemory(t)
    PROVE  StoreInv'
<1> USE DEF StoreInv
<1> DEFINE id == NextMasterKeyID
<1>1. id \in MasterKeyIDs /\ call[t].pass \in Passphrases
  BY CryptAssumption, NextIsFresh DEF EncryptsInMemory, MasterKeyIDs, StoreType, Passing, Holding
<1>2. /\ mapCryptedKeys' = [k \in mapKeys |-> id] /\ mapKeys' = {}
      /\ mapMasterKeys' = Put(mapMasterKeys, id, call[t].pass)
      /\ fUseCrypto' = TRUE /\ fUseCrypto = FALSE
      /\ UNCHANGED <<vMasterKey, disk, timer, issued, acked>>
  BY DEF EncryptsInMemory, IsCrypted, StoreType, TypeOK
<1>3. /\ DOMAIN disk.ckey = {} /\ disk.key # {} /\ disk.key \subseteq mapKeys
      /\ vMasterKey = Empty
  BY <1>2 DEF FileRight, MemoryRight
<1>4. /\ txn'.key = disk.key \ mapKeys
      /\ txn'.ckey = [k \in mapKeys |-> id]
      /\ txn'.mkey \in {Put(disk.mkey, id, call[t].pass), disk.mkey}
  BY DEF EncryptsInMemory, Encrypted
<1>5. /\ call' = [call EXCEPT ![t].at = "commit"]
      /\ \A u \in Threads \ {t} : call[u].at \notin Holding
  BY DEF EncryptsInMemory, Goto, CsWalletFree, Holding
<1>6. /\ \A f \in {mapMasterKeys', txn'.mkey} :
            IsMap(f) /\ DOMAIN f \subseteq MasterKeyIDs /\ Range(f) \subseteq Passphrases
  <2>1. /\ IsMap(mapMasterKeys) /\ DOMAIN mapMasterKeys \subseteq MasterKeyIDs
        /\ Range(mapMasterKeys) \subseteq Passphrases
        /\ IsMap(disk.mkey) /\ DOMAIN disk.mkey \subseteq MasterKeyIDs
        /\ Range(disk.mkey) \subseteq Passphrases
    BY DEF StoreType, TypeOK, Maps
  <2> HIDE DEF id
  <2>2. /\ IsMap(mapMasterKeys') /\ DOMAIN mapMasterKeys' \subseteq MasterKeyIDs
        /\ Range(mapMasterKeys') \subseteq Passphrases
    BY <1>1, <1>2, <2>1 DEF Put, IsMap, Range
  <2>3. CASE txn'.mkey = disk.mkey
    BY <2>1, <2>2, <2>3
  <2>4. CASE txn'.mkey = Put(disk.mkey, id, call[t].pass)
    <3>1. /\ IsMap(txn'.mkey) /\ DOMAIN txn'.mkey \subseteq MasterKeyIDs
          /\ Range(txn'.mkey) \subseteq Passphrases
      BY <1>1, <2>1, <2>4 DEF Put, IsMap, Range
    <3> QED
      BY <2>2, <3>1
  <2> QED
    BY <1>4, <2>3, <2>4
<1> HIDE DEF id
<1>7. call' \in [Threads -> [at : {"idle", "encrypt", "commit", "newpool", "change",
                                   "passphrase", "context"},
                             pass : Passphrases \cup {Open},
                             fWasLocked : BOOLEAN]]
      /\ \A u \in Threads : call'[u].at \in Passing => call'[u].pass \in Passphrases
  BY <1>1, <1>5 DEF StoreType, TypeOK
<1>8. /\ mapKeys \subseteq Keys
      /\ IsMap([k \in mapKeys |-> id]) /\ Range([k \in mapKeys |-> id]) \subseteq MasterKeyIDs
      /\ DOMAIN [k \in mapKeys |-> id] \subseteq Keys
  BY <1>1 DEF StoreType, TypeOK, IsMap, Range
<1>9. StoreType'
  BY <1>2, <1>4, <1>6, <1>7, <1>8 DEF StoreType, TypeOK, Maps
<1>10. OneEncrypts' /\ Committing'
  <2>1. /\ call'[t].at = "commit"
        /\ \A u \in Threads \ {t} : call'[u].at \notin Holding
    BY <1>5 DEF StoreType, TypeOK
  <2> QED
    BY <1>2, <2>1 DEF OneEncrypts, Committing
<1>11. MemoryRight'
  BY <1>2, <1>3 DEF MemoryRight
<1>12. FileRight'
  BY <1>2, <1>3, <1>4, <1>10 DEF FileRight
<1> QED
  BY <1>9, <1>10, <1>11, <1>12

\* TxnCommit: what the transaction holds is the file.
CommitsFile(t) ==
    /\ call[t].at = "commit"
    /\ disk' = txn
    /\ txn' = NoFile
    /\ Goto(t, "newpool")
    /\ UNCHANGED <<store, timer, issued, acked>>

\* The commit of an encryption, and the end of the plain keys.
LEMMA CommitStore ==
    ASSUME StoreInv, NEW t \in Threads, CommitsFile(t)
    PROVE  StoreInv'
<1> USE DEF StoreInv
<1>1. DOMAIN << >> = {} /\ IsMap(<< >>) /\ Range(<< >>) = {}
  BY DEF IsMap, Range
<1>2. txn'.key = {} /\ txn'.ckey = << >> /\ txn'.mkey = << >> /\ disk' = txn
  BY DEF CommitsFile, NoFile
<1>3. /\ call' = [call EXCEPT ![t].at = "newpool"] /\ call[t].at = "commit"
      /\ UNCHANGED <<store, timer, issued, acked>>
  BY DEF CommitsFile, Goto
<1>4. /\ call' \in [Threads -> [at : {"idle", "encrypt", "commit", "newpool", "change",
                                   "passphrase", "context"},
                             pass : Passphrases \cup {Open},
                             fWasLocked : BOOLEAN]]
      /\ \A u \in Threads : call'[u].at \in Passing => call'[u].pass \in Passphrases
      /\ call'[t].at = "newpool"
      /\ \A u \in Threads \ {t} : call'[u] = call[u]
  BY <1>3 DEF StoreType, TypeOK, Passing, Holding
<1>5. StoreType'
  BY <1>1, <1>2, <1>3, <1>4 DEF StoreType, TypeOK, Maps, store
<1>6. fUseCrypto /\ \A u \in Threads \ {t} : call[u].at \notin Holding
  BY <1>3 DEF OneEncrypts, Holding
<1>7. OneEncrypts' /\ ~Committing'
  BY <1>3, <1>4, <1>6 DEF OneEncrypts, Committing, Holding, store
<1>8. MemoryRight'
  BY <1>3 DEF MemoryRight, store
<1>9. /\ txn.key = {} /\ txn.ckey = mapCryptedKeys
      /\ DOMAIN disk.ckey = {} /\ disk.key \subseteq mapKeys \cup DOMAIN mapCryptedKeys
      /\ issued \subseteq disk.key \cup DOMAIN disk.ckey
  BY <1>3 DEF FileRight, Committing
<1>10. FileRight'
  BY <1>2, <1>3, <1>6, <1>7, <1>9 DEF FileRight, MemoryRight, store
<1> QED
  BY <1>5, <1>7, <1>8, <1>10

\* The new key pool: at most a key with the master key of the others, saved.
LEMMA NewPoolStore ==
    ASSUME StoreInv, NEW t \in Threads, EncryptNewPool(t)
    PROVE  StoreInv'
<1> USE DEF StoreInv
<1>1. /\ call[t].at = "newpool" /\ vMasterKey' = Empty /\ Return(t) /\ acked' = call[t].pass
      /\ UNCHANGED <<mapKeys, fUseCrypto, mapMasterKeys, txn, timer>>
  BY DEF EncryptNewPool
<1>2. CallsKept /\ acked' \in Passphrases
  BY <1>1, ReturnKeeps DEF StoreType, Passing, Holding
<1>3. fUseCrypto /\ ~Committing /\ mapKeys = {}
  BY <1>1 DEF OneEncrypts, Committing, Holding, MemoryRight
<1>4. CASE UNCHANGED <<mapCryptedKeys, disk, issued>>
  <2>1. StoreType'
    BY <1>1, <1>2, <1>4 DEF StoreType, TypeOK, Maps, CallsKept
  <2> QED
    BY <1>1, <1>2, <1>4, <2>1, KeysKept
<1>5. ASSUME NEW id \in UnlockedBy(call[t].pass), NEW k \in Keys,
             k \notin mapKeys \cup DOMAIN mapCryptedKeys \cup issued,
             mapCryptedKeys' = Put(mapCryptedKeys, k, id),
             disk' = [disk EXCEPT !.ckey = Put(@, k, id)],
             issued' = issued \cup {k}
      PROVE  StoreInv'
  <2>1. /\ id \in MasterKeyIDs
        /\ \A l \in DOMAIN mapCryptedKeys : mapCryptedKeys[l] = id
    BY DEF UnlockedBy, Decrypts, StoreType, TypeOK
  <2> DEFINE m == Put(mapCryptedKeys, k, id)
             d == Put(disk.ckey, k, id)
  <2>2. /\ IsMap(m) /\ DOMAIN m = DOMAIN mapCryptedKeys \cup {k} /\ m[k] = id
        /\ \A y \in DOMAIN mapCryptedKeys \ {k} : m[y] = mapCryptedKeys[y]
    BY DEF Put, IsMap
  <2>3. /\ IsMap(d) /\ DOMAIN d = DOMAIN disk.ckey \cup {k} /\ d[k] = id
        /\ \A y \in DOMAIN disk.ckey \ {k} : d[y] = disk.ckey[y]
    BY DEF Put, IsMap
  <2>4. mapCryptedKeys' = m /\ disk' = [disk EXCEPT !.ckey = d]
    BY <1>5
  <2> HIDE DEF m, d
  <2>5. disk'.ckey = d /\ disk'.key = disk.key /\ disk'.mkey = disk.mkey
    BY <2>4
  <2>6. StoreType'
    BY <1>1, <1>2, <1>5, <2>1, <2>2, <2>3, <2>4, <2>5 DEF StoreType, TypeOK, Maps, CallsKept, Range
  <2>7. ~Committing' /\ OneEncrypts'
    BY <1>1, <1>2, <1>3 DEF OneEncrypts, Committing, CallsKept, Holding
  <2>8. MemoryRight'
    BY <1>1, <1>3, <2>1, <2>2, <2>4 DEF MemoryRight
  <2>9. FileRight'
    BY <1>1, <1>3, <1>5, <2>1, <2>2, <2>3, <2>4, <2>5, <2>7 DEF FileRight
  <2> QED
    BY <2>6, <2>7, <2>8, <2>9
<1> QED
  BY <1>4, <1>5 DEF EncryptNewPool

\* The same when a key of the new pool is not saved: it is in memory only.
LEMMA NewPoolThrowsStore ==
    ASSUME StoreInv, NEW t \in Threads, EncryptNewPoolThrows(t)
    PROVE  StoreInv'
<1> USE DEF StoreInv
<1>1. /\ call[t].at = "newpool" /\ Return(t)
      /\ UNCHANGED <<mapKeys, fUseCrypto, mapMasterKeys, disk, txn, timer, issued, acked>>
  BY DEF EncryptNewPoolThrows
<1>2. CallsKept
  BY <1>1, ReturnKeeps
<1>3. fUseCrypto /\ ~Committing /\ mapKeys = {}
  BY <1>1 DEF OneEncrypts, Committing, Holding, MemoryRight
<1>4. PICK id \in UnlockedBy(call[t].pass), k \in Keys :
        /\ k \notin mapKeys \cup DOMAIN mapCryptedKeys \cup issued
        /\ mapCryptedKeys' = Put(mapCryptedKeys, k, id)
        /\ vMasterKey' = id
  BY DEF EncryptNewPoolThrows
<1>5. /\ id \in MasterKeyIDs
      /\ \A l \in DOMAIN mapCryptedKeys : mapCryptedKeys[l] = id
  BY DEF UnlockedBy, Decrypts, StoreType, TypeOK
<1> DEFINE m == Put(mapCryptedKeys, k, id)
<1>6. /\ IsMap(m) /\ DOMAIN m = DOMAIN mapCryptedKeys \cup {k} /\ m[k] = id
      /\ \A y \in DOMAIN mapCryptedKeys \ {k} : m[y] = mapCryptedKeys[y]
  BY DEF Put, IsMap
<1>7. mapCryptedKeys' = m
  BY <1>4
<1> HIDE DEF m
<1>8. StoreType'
  BY <1>1, <1>2, <1>4, <1>5, <1>6, <1>7 DEF StoreType, TypeOK, Maps, CallsKept, Range
<1>9. ~Committing' /\ OneEncrypts'
  BY <1>1, <1>2, <1>3 DEF OneEncrypts, Committing, CallsKept, Holding
<1>10. MemoryRight'
  BY <1>1, <1>3, <1>4, <1>5, <1>6, <1>7 DEF MemoryRight
<1>11. FileRight'
  BY <1>1, <1>3, <1>4, <1>6, <1>7, <1>9 DEF FileRight
<1> QED
  BY <1>8, <1>9, <1>10, <1>11

\* A changed passphrase changes no key record.
LEMMA ChangeStore ==
    ASSUME StoreInv, CallsKept, NEW t \in Threads, NEW old, NEW new \in Passphrases,
           NEW wasLocked \in BOOLEAN,
           \/ \E id \in Found(old) : ChangedTo(t, id, new, wasLocked)
           \/ NotChanged,
           UNCHANGED <<mapKeys, mapCryptedKeys, fUseCrypto, txn, timer, issued>>
    PROVE  StoreInv'
<1> USE DEF StoreInv
<1>1. CASE NotChanged
  <2>1. StoreType'
    BY <1>1 DEF NotChanged, StoreType, TypeOK, Maps, CallsKept
  <2> QED
    BY <1>1, <2>1, KeysKept DEF NotChanged
<1>2. ASSUME NEW id \in Found(old), ChangedTo(t, id, new, wasLocked)
      PROVE  StoreInv'
  <2>1. id \in DOMAIN mapMasterKeys /\ Decrypts(id) /\ id \in MasterKeyIDs
    BY DEF Found, UnlockedBy, StoreType, TypeOK
  <2>2. fUseCrypto
    BY <2>1, EmptyMap DEF Decrypts, MemoryRight, StoreType, Maps
  <2>3. /\ mapMasterKeys' = [mapMasterKeys EXCEPT ![id] = new]
        /\ disk' \in {[disk EXCEPT !.mkey = Put(@, id, new)], disk}
        /\ vMasterKey' \in {Empty, id} /\ acked' = new
    BY <1>2 DEF ChangedTo
  <2> DEFINE d == Put(disk.mkey, id, new)
  <2>4. /\ IsMap(disk.mkey) /\ DOMAIN disk.mkey \subseteq MasterKeyIDs
        /\ Range(disk.mkey) \subseteq Passphrases
        /\ IsMap(mapMasterKeys) /\ DOMAIN mapMasterKeys \subseteq MasterKeyIDs
        /\ Range(mapMasterKeys) \subseteq Passphrases
    BY DEF StoreType, TypeOK, Maps
  <2>5. IsMap(d) /\ DOMAIN d \subseteq MasterKeyIDs /\ Range(d) \subseteq Passphrases
    BY <2>1, <2>4, PutKeeps DEF MapOver
  <2>6. /\ IsMap(mapMasterKeys') /\ DOMAIN mapMasterKeys' \subseteq MasterKeyIDs
        /\ Range(mapMasterKeys') \subseteq Passphrases
    BY <2>3, <2>4, SetKeeps DEF MapOver
  <2>7. disk' \in {[disk EXCEPT !.mkey = d], disk}
    BY <2>3
  <2> HIDE DEF d
  <2>8. /\ disk'.key = disk.key /\ disk'.ckey = disk.ckey
        /\ disk'.mkey \in {d, disk.mkey}
    <3>1. CASE disk' = [disk EXCEPT !.mkey = d]
      BY <3>1
    <3> QED
      BY <2>7, <3>1
  <2>9. StoreType'
    <3>1. IsMap(disk'.mkey) /\ DOMAIN disk'.mkey \subseteq MasterKeyIDs
          /\ Range(disk'.mkey) \subseteq Passphrases
      BY <2>4, <2>5, <2>8
    <3>2. \A f \in Maps' : IsMap(f)
      BY <2>3, <2>6, <2>8, <3>1 DEF StoreType, Maps
    <3>3. TypeOK'
      BY <2>1, <2>3, <2>6, <2>8, <3>1 DEF StoreType, TypeOK, CallsKept
    <3> QED
      BY <3>2, <3>3 DEF StoreType, CallsKept
  <2> QED
    BY <2>1, <2>2, <2>3, <2>8, <2>9, KeysKept
<1> QED
  BY <1>1, <1>2

-----------------------------------------------------------------------------
(* Whatever fails to be written *)

\* Steps that only begin or end a call, and lock or unlock.
LEMMA LockKeeps ==
    ASSUME StoreInv,
           \/ \E t \in Threads, p \in Passphrases :
                EncryptCheck(t, p) \/ ChangeCheck(t, p) \/ WalletPassphrase(t, p)
           \/ \E t \in Threads : WalletLock(t)
           \/ \E p \in Passphrases : RequestUnlock(p)
           \/ Relock \/ (\E i \in {1, 2} : LockWallet(i)) \/ UNCHANGED vars
    PROVE  /\ UNCHANGED <<mapKeys, mapCryptedKeys, fUseCrypto, mapMasterKeys, disk, txn,
                          issued, acked>>
           /\ CallsKept
           /\ timer' \in Timers
           /\ \/ vMasterKey' \in {vMasterKey, Empty}
              \/ fUseCrypto /\ Decrypts(vMasterKey') /\ vMasterKey' \in MasterKeyIDs
<1>1. UNCHANGED <<mapKeys, mapCryptedKeys, fUseCrypto, mapMasterKeys, disk, txn, issued, acked>>
  BY DEF EncryptCheck, ChangeCheck, WalletPassphrase, WalletLock, RequestUnlock, Relock,
         LockWallet, store, vars
<1>2. timer' \in Timers
  BY DEF EncryptCheck, ChangeCheck, WalletPassphrase, WalletLock, RequestUnlock, Relock,
         LockWallet, store, vars, StoreInv, StoreType, TypeOK, Timers
<1>3. \/ vMasterKey' \in {vMasterKey, Empty}
      \/ \E p \in Passphrases : IsCrypted /\ vMasterKey' \in UnlockedBy(p)
  BY DEF EncryptCheck, ChangeCheck, WalletPassphrase, WalletLock, RequestUnlock, Relock,
         LockWallet, IsLocked, store, vars
<1>4. CallsKept
  <2> USE DEF StoreInv
  <2>1. Gui \in Threads
    BY DEF Threads
  <2>2. ASSUME NEW t \in Threads, NEW p \in Passphrases, EncryptCheck(t, p) PROVE CallsKept
    BY <2>2, BeginKeeps DEF EncryptCheck
  <2>3. ASSUME NEW t \in Threads, NEW p \in Passphrases, ChangeCheck(t, p) PROVE CallsKept
    BY <2>3 DEF ChangeCheck, StoreType, TypeOK, CallsKept, IsLocked, IsCrypted, Holding, Passing
  <2>4. ASSUME NEW t \in Threads, NEW p \in Passphrases, WalletPassphrase(t, p)
        PROVE  CallsKept
    BY <2>4, BeginKeeps DEF WalletPassphrase
  <2>5. ASSUME NEW p \in Passphrases, RequestUnlock(p) PROVE CallsKept
    BY <2>1, <2>5, BeginKeeps DEF RequestUnlock
  <2>6. CASE Relock
    BY <2>1, <2>6, ReturnKeeps DEF Relock
  <2>7. CASE call' = call
    BY <2>7 DEF StoreType, TypeOK, CallsKept
  <2> QED
    BY <2>2, <2>3, <2>4, <2>5, <2>6, <2>7 DEF WalletLock, LockWallet, vars
<1>5. \/ vMasterKey' \in {vMasterKey, Empty}
      \/ fUseCrypto /\ Decrypts(vMasterKey') /\ vMasterKey' \in MasterKeyIDs
  BY <1>3 DEF UnlockedBy, IsCrypted, StoreInv, StoreType, TypeOK
<1> QED
  BY <1>1, <1>2, <1>4, <1>5

\* Calls that lock, unlock or begin.
LEMMA LockStore ==
    ASSUME StoreInv,
           \/ \E t \in Threads, p \in Passphrases :
                EncryptCheck(t, p) \/ ChangeCheck(t, p) \/ WalletPassphrase(t, p)
           \/ \E t \in Threads : WalletLock(t)
           \/ \E p \in Passphrases : RequestUnlock(p)
           \/ Relock \/ (\E i \in {1, 2} : LockWallet(i)) \/ UNCHANGED vars
    PROVE  StoreInv'
<1>1. StoreType'
  BY LockKeeps DEF StoreInv, StoreType, TypeOK, Maps, CallsKept, Timers
<1> QED
  BY <1>1, LockKeeps, KeysKept

\* Every step keeps the store's part.
LEMMA StoreStep == StoreInv /\ [Next]_vars => StoreInv'
<1> SUFFICES ASSUME StoreInv, [Next]_vars PROVE StoreInv'
  OBVIOUS
<1>1. ASSUME NEW t \in Threads, NEW k \in Keys, GenerateNewKey(t, k) PROVE StoreInv'
  <2>1. CallsKept /\ timer' \in Timers
    BY <1>1 DEF GenerateNewKey, CallsKept, StoreInv, StoreType, TypeOK, Timers
  <2>2. ~Committing
    BY <1>1, NoneCommits DEF GenerateNewKey
  <2>3. KeyMade(k)
    BY <1>1 DEF GenerateNewKey, NewKey, Saved, KeyMade
  <2> QED
    BY <1>1, <2>1, <2>2, <2>3, NewKeyStore DEF GenerateNewKey
<1>2. ASSUME NEW t \in Threads, RunLater(t) PROVE StoreInv'
  <2>1. ~Committing /\ CallsKept
    BY <1>2, NoneCommits, ReturnKeeps DEF RunLater, StoreInv
  <2>2. timer' \in Timers
    BY <1>2, RunLaterCases DEF StoreInv
  <2>3. CASE UNCHANGED <<mapKeys, mapCryptedKeys, disk, issued>>
    <3>1. StoreType'
      BY <1>2, <2>1, <2>2, <2>3 DEF RunLater, StoreInv, StoreType, TypeOK, Maps, CallsKept, Timers
    <3> QED
      BY <1>2, <2>1, <2>3, <3>1, KeysKept DEF RunLater
  <2>4. ASSUME NEW k \in Keys, KeyMade(k) PROVE StoreInv'
    BY <1>2, <2>1, <2>2, <2>4, NewKeyStore DEF RunLater
  <2> QED
    BY <1>2, <2>3, <2>4, RunLaterCases DEF StoreInv
<1>3. ASSUME NEW t \in Threads, EncryptKeys(t) PROVE StoreInv'
  BY <1>3, EncryptKeysCases, EncryptsStore, StrayStore, LoadStore
<1>4. ASSUME NEW t \in Threads, EncryptCommit(t) PROVE StoreInv'
  BY <1>4, CommitStore, LoadStore DEF EncryptCommit, CommitsFile
<1>5. ASSUME NEW t \in Threads, NEW p \in Passphrases, ChangeWalletPassphrase(t, p)
      PROVE  StoreInv'
  <2>1. CallsKept
    BY <1>5, ReturnKeeps DEF ChangeWalletPassphrase, StoreInv
  <2>2. call[t].fWasLocked \in BOOLEAN
    BY DEF StoreInv, StoreType, TypeOK
  <2> QED
    BY <1>5, <2>1, <2>2, ChangeStore DEF ChangeWalletPassphrase
<1>6. ASSUME NEW old \in Passphrases, NEW new \in Passphrases, GuiChangePassphrase(old, new)
      PROVE  StoreInv'
  <2>1. CallsKept /\ Gui \in Threads
    BY <1>6 DEF GuiChangePassphrase, CallsKept, StoreInv, StoreType, TypeOK, Threads
  <2> QED
    BY <1>6, <2>1, ChangeStore DEF GuiChangePassphrase
<1> QED
  BY <1>1, <1>2, <1>3, <1>4, <1>5, <1>6, NewPoolStore, NewPoolThrowsStore, LoadStore,
     LockStore DEF Next

\* The store's part holds throughout.
LEMMA StoreAlways == Spec => []StoreInv
BY InitStore, StoreStep, PTL DEF Spec

\* crypter.h and GenerateNewKey, for any number of threads and whatever fails.
THEOREM KeyStoreIsConsistent == Spec => []KeyStoreConsistent
<1>1. StoreInv => KeyStoreConsistent
  BY EmptyMap DEF StoreInv, StoreType, Maps, MemoryRight, KeyStoreConsistent, Range
<1> QED
  BY <1>1, StoreAlways, PTL

\* A key is handed out only when its record is written, plain or encrypted, and no
\* later step loses the record.
THEOREM IssuedKeysAreStored == Spec => []IssuedKeysStored
<1>1. StoreInv => IssuedKeysStored
  BY DEF StoreInv, FileRight, IssuedKeysStored
<1> QED
  BY <1>1, StoreAlways, PTL

-----------------------------------------------------------------------------
(* When master keys are written *)

\* No key is crypted at the start.
LEMMA InitMaster == Init => MasterKept
BY DEF Init, MasterKept, NoFile, Idle

\* Steps that leave the keys, the master keys and the file as they are.
LEMMA MasterKeysKept ==
    ASSUME MasterKept, CallsKept,
           UNCHANGED <<mapCryptedKeys, mapMasterKeys, disk, txn, acked>>
    PROVE  MasterKept'
BY DEF MasterKept, CallsKept, Holding

\* A load leaves the file as it is.
LEMMA LoadMaster ==
    ASSUME MasterKept, LoadWallet
    PROVE  MasterKept'
BY DEF MasterKept, LoadWallet, NoFile, Idle

\* The master key of the other keys is that of the new one.
LEMMA NewKeyMaster ==
    ASSUME CryptInv, NEW k \in Keys, NEW id, ~Committing, CallsKept,
           fUseCrypto, \A l \in DOMAIN mapCryptedKeys : mapCryptedKeys[l] = id,
           mapCryptedKeys' = Put(mapCryptedKeys, k, id),
           UNCHANGED mapMasterKeys, acked' = acked,
           disk'.mkey = disk.mkey, disk'.ckey \in {disk.ckey, Put(disk.ckey, k, id)}
    PROVE  MasterKept'
<1> USE DEF CryptInv, StoreInv
<1> DEFINE m == Put(mapCryptedKeys, k, id)
           d == Put(disk.ckey, k, id)
<1>1. /\ DOMAIN m = DOMAIN mapCryptedKeys \cup {k}
      /\ \A y \in DOMAIN m : m[y] = id
  BY DEF Put
<1>2. DOMAIN disk.ckey # {} /\ \A y \in DOMAIN disk.ckey : disk.ckey[y] = id
  BY DEF FileRight
<1>3. /\ DOMAIN d = DOMAIN disk.ckey \cup {k}
      /\ \A y \in DOMAIN d : d[y] = id
  BY <1>2 DEF Put
<1>4. mapCryptedKeys' = m /\ disk'.ckey \in {disk.ckey, d}
  OBVIOUS
<1> HIDE DEF m, d
<1>5. /\ id \in DOMAIN mapMasterKeys
      /\ id \in DOMAIN disk.mkey /\ disk.mkey[id] = mapMasterKeys[id]
      /\ acked # Open => disk.mkey[id] = acked
      /\ \A t \in Threads : call[t].at = "newpool" => disk.mkey[id] = call[t].pass
  BY <1>2 DEF MasterKept, FileRight
<1>6. DOMAIN disk'.ckey # {} /\ \A y \in DOMAIN disk'.ckey : disk'.ckey[y] = id
  BY <1>2, <1>3, <1>4
<1>7. \A t \in Threads : call'[t].at # "commit"
  BY DEF CallsKept, Committing, Holding
<1>8. \A t \in Threads : call'[t].at = "newpool" => call'[t] = call[t]
  BY DEF CallsKept, Holding
<1> QED
  BY <1>1, <1>4, <1>5, <1>6, <1>7, <1>8 DEF MasterKept

\* The key pool made anew after an encryption.
LEMMA NewPoolMaster ==
    ASSUME CryptInv, NEW t \in Threads, EncryptNewPool(t)
    PROVE  MasterKept'
<1> USE DEF CryptInv, StoreInv
<1>1. /\ call[t].at = "newpool" /\ Return(t) /\ acked' = call[t].pass
      /\ UNCHANGED <<mapKeys, fUseCrypto, mapMasterKeys, txn, timer>>
  BY DEF EncryptNewPool
<1>2. CallsKept /\ fUseCrypto /\ ~Committing /\ DOMAIN disk.ckey # {}
  BY <1>1, ReturnKeeps DEF OneEncrypts, Committing, Holding, FileRight
<1>3. \A u \in Threads : call'[u].at \notin Holding
  BY <1>1 DEF Return, Idle, OneEncrypts, Holding, StoreType, TypeOK
<1>5. \E k \in DOMAIN mapCryptedKeys : TRUE
  BY <1>2 DEF MemoryRight
<1>6. PICK l \in DOMAIN disk.ckey : TRUE
  BY <1>2
<1> DEFINE id == disk.ckey[l]
<1>7. /\ \A k \in DOMAIN mapCryptedKeys : mapCryptedKeys[k] = id
      /\ \A k \in DOMAIN disk.ckey : disk.ckey[k] = id
  BY <1>6 DEF FileRight, MemoryRight
<1>8. /\ id \in DOMAIN mapMasterKeys
      /\ id \in DOMAIN disk.mkey /\ disk.mkey[id] = mapMasterKeys[id]
      /\ disk.mkey[id] = call[t].pass
  BY <1>1, <1>5, <1>6, <1>7 DEF MasterKept
<1> HIDE DEF id
<1>9. /\ disk'.mkey = disk.mkey
      /\ DOMAIN disk'.ckey # {}
      /\ \A k \in DOMAIN disk'.ckey : disk'.ckey[k] = id
      /\ \A k \in DOMAIN mapCryptedKeys' : mapCryptedKeys'[k] = id
  <2>1. CASE UNCHANGED <<mapCryptedKeys, disk>>
    BY <1>2, <1>7, <2>1
  <2>2. ASSUME NEW i \in UnlockedBy(call[t].pass), NEW k \in Keys,
               mapCryptedKeys' = Put(mapCryptedKeys, k, i),
               disk' = [disk EXCEPT !.ckey = Put(@, k, i)]
        PROVE  <1>9!:
    <3>1. i = id
      BY <1>5, <1>7 DEF UnlockedBy, Decrypts
    <3> DEFINE m == Put(mapCryptedKeys, k, id)
               d == Put(disk.ckey, k, id)
    <3>2. \A y \in DOMAIN m : m[y] = id
      BY <1>7 DEF Put
    <3>3. DOMAIN d # {} /\ \A y \in DOMAIN d : d[y] = id
      BY <1>7 DEF Put
    <3>4. mapCryptedKeys' = m /\ disk' = [disk EXCEPT !.ckey = d]
      BY <2>2, <3>1
    <3> HIDE DEF m, d
    <3>5. disk'.ckey = d /\ disk'.mkey = disk.mkey
      BY <3>4
    <3> QED
      BY <3>2, <3>3, <3>4, <3>5
  <2> QED
    BY <2>1, <2>2 DEF EncryptNewPool
<1> QED
  BY <1>1, <1>3, <1>8, <1>9 DEF MasterKept, Holding

\* The master key in force is under the new passphrase, in memory and in the file.
LEMMA ChangeMaster ==
    ASSUME "mkey" \notin MayFail, CryptInv, CallsKept, NEW t \in Threads, NEW old,
           NEW new \in Passphrases, NEW wasLocked \in BOOLEAN,
           \A u \in Threads : call[u].at \notin Holding,
           NEW id \in Found(old), ChangedTo(t, id, new, wasLocked),
           UNCHANGED <<mapKeys, mapCryptedKeys, fUseCrypto, txn, timer, issued>>
    PROVE  MasterKept'
<1> USE DEF CryptInv, StoreInv
<1>1. /\ mapMasterKeys' = [mapMasterKeys EXCEPT ![id] = new]
      /\ disk' = [disk EXCEPT !.mkey = Put(@, id, new)]
      /\ acked' = new
  BY DEF ChangedTo
<1>2. /\ id \in DOMAIN mapMasterKeys
      /\ DOMAIN mapCryptedKeys # {}
      /\ \A k \in DOMAIN mapCryptedKeys : mapCryptedKeys[k] = id
  BY EmptyMap DEF Found, UnlockedBy, Decrypts, StoreType, Maps
<1>3. DOMAIN disk.ckey # {} /\ \A k \in DOMAIN disk.ckey : disk.ckey[k] = id
  BY <1>2 DEF FileRight, MemoryRight, Committing, Holding
<1> DEFINE d == Put(disk.mkey, id, new)
<1>4. id \in DOMAIN d /\ d[id] = new
  BY DEF Put
<1>5. disk' = [disk EXCEPT !.mkey = d]
  BY <1>1
<1> HIDE DEF d
<1>6. disk'.ckey = disk.ckey /\ disk'.mkey = d
  BY <1>5
<1>7. mapMasterKeys'[id] = new /\ id \in DOMAIN mapMasterKeys'
  BY <1>1, <1>2
<1>8. \A u \in Threads : call'[u].at \notin Holding
  BY DEF CallsKept
<1> QED
  BY <1>1, <1>2, <1>3, <1>4, <1>6, <1>7, <1>8 DEF MasterKept, Holding

\* A master key without keys does no harm.
LEMMA StrayMaster ==
    ASSUME CryptInv, NEW t \in Threads, call[t].at = "encrypt", Return(t),
           mapMasterKeys' = Put(mapMasterKeys, NextMasterKeyID, call[t].pass),
           UNCHANGED <<mapCryptedKeys, disk, txn, acked>>
    PROVE  MasterKept'
<1> USE DEF CryptInv, StoreInv
<1>1. CallsKept
  BY ReturnKeeps
<1>2. /\ DOMAIN mapMasterKeys \subseteq DOMAIN mapMasterKeys'
      /\ \A i \in DOMAIN mapMasterKeys : mapMasterKeys'[i] = mapMasterKeys[i]
  BY NextIsFresh DEF Put
<1>3. \A k \in DOMAIN disk.ckey : disk.ckey[k] \in DOMAIN mapMasterKeys
  BY DEF MasterKept, FileRight
<1>4. \A k \in DOMAIN txn.ckey : Committing => txn.ckey[k] \in DOMAIN mapMasterKeys
  BY DEF MasterKept, FileRight
<1>5. \A u \in Threads : call'[u].at \in Holding => call'[u] = call[u]
  BY <1>1 DEF CallsKept
<1> QED
  BY <1>2, <1>3, <1>4, <1>5 DEF MasterKept, Holding, Committing

\* The transaction holds the new master key under the passphrase of the call.
LEMMA EncryptsMaster ==
    ASSUME "mkey" \notin MayFail, CryptInv, NEW t \in Threads, EncryptsInMemory(t)
    PROVE  MasterKept'
<1> USE DEF CryptInv, StoreInv
<1> DEFINE id == NextMasterKeyID
<1>1. /\ DOMAIN disk.ckey = {} /\ acked = Open /\ disk' = disk /\ acked' = acked
  BY DEF EncryptsInMemory, IsCrypted, FileRight, MasterKept
<1>2. /\ mapCryptedKeys' = [k \in mapKeys |-> id]
      /\ mapMasterKeys' = Put(mapMasterKeys, id, call[t].pass)
      /\ txn'.ckey = [k \in mapKeys |-> id]
      /\ txn'.mkey = Put(disk.mkey, id, call[t].pass)
      /\ call' = [call EXCEPT ![t].at = "commit"]
  BY DEF EncryptsInMemory, Encrypted, Goto
<1>3. /\ id \in DOMAIN mapMasterKeys' /\ mapMasterKeys'[id] = call[t].pass
      /\ id \in DOMAIN txn'.mkey /\ txn'.mkey[id] = call[t].pass
  BY <1>2 DEF Put
<1>4. /\ call'[t].pass = call[t].pass
      /\ \A u \in Threads \ {t} : call'[u].at # "commit"
  BY <1>2 DEF EncryptsInMemory, CsWalletFree, StoreType, TypeOK
<1> HIDE DEF id
<1> QED
  BY <1>1, <1>2, <1>3, <1>4 DEF MasterKept

\* The commit writes the master key with the keys.
LEMMA CommitMaster ==
    ASSUME CryptInv, NEW t \in Threads, CommitsFile(t)
    PROVE  MasterKept'
<1> USE DEF CryptInv, StoreInv
<1>1. /\ call[t].at = "commit" /\ disk' = txn
      /\ call' = [call EXCEPT ![t].at = "newpool"]
      /\ UNCHANGED <<mapKeys, mapCryptedKeys, mapMasterKeys, acked>>
  BY DEF CommitsFile, Goto, store
<1>2. txn.ckey = mapCryptedKeys /\ DOMAIN disk.ckey = {} /\ acked = Open
  BY <1>1 DEF FileRight, Committing, MasterKept
<1>3. /\ call'[t].pass = call[t].pass /\ call'[t].at = "newpool"
      /\ \A u \in Threads \ {t} : call'[u].at \notin Holding
  BY <1>1 DEF OneEncrypts, Holding, StoreType, TypeOK
<1> QED
  BY <1>1, <1>2, <1>3 DEF MasterKept, Holding

\* Every step keeps the master keys, unless their writes fail.
LEMMA MasterStep ==
    ASSUME "mkey" \notin MayFail
    PROVE  CryptInv /\ [Next]_vars => MasterKept'
<1> SUFFICES ASSUME CryptInv, [Next]_vars PROVE MasterKept'
  OBVIOUS
<1> USE DEF CryptInv
<1>1. ASSUME NEW k \in Keys, KeyMade(k), ~Committing, CallsKept,
             UNCHANGED <<vMasterKey, fUseCrypto, mapMasterKeys, txn, acked>>
      PROVE  MasterKept'
  <2>1. CASE IsCrypted
    <3>1. \A l \in DOMAIN mapCryptedKeys : mapCryptedKeys[l] = vMasterKey
      BY <1>1, <2>1 DEF KeyMade, MakeKey, IsLocked, StoreInv, MemoryRight
    <3>2. mapCryptedKeys' = Put(mapCryptedKeys, k, vMasterKey)
      BY <1>1, <2>1 DEF KeyMade, MakeKey
    <3>3. disk'.mkey = disk.mkey /\ disk'.ckey \in {disk.ckey, Put(disk.ckey, k, vMasterKey)}
      <4> DEFINE d == Put(disk.ckey, k, vMasterKey)
      <4>1. disk' = disk \/ disk' = [disk EXCEPT !.ckey = d, !.key = @ \ {k}]
        BY <1>1, <2>1 DEF KeyMade, NewKeyWrites
      <4> HIDE DEF d
      <4>2. disk'.mkey = disk.mkey /\ disk'.ckey \in {disk.ckey, d}
        <5>1. CASE disk' = [disk EXCEPT !.ckey = d, !.key = @ \ {k}]
          BY <5>1
        <5> QED
          BY <4>1, <5>1
      <4> QED
        BY <4>2 DEF d
    <3> QED
      BY <1>1, <2>1, <3>1, <3>2, <3>3, NewKeyMaster DEF IsCrypted
  <2>2. CASE ~IsCrypted
    <3>1. disk' = disk \/ disk' = [disk EXCEPT !.key = @ \cup {k}]
      BY <1>1, <2>2 DEF KeyMade, NewKeyWrites
    <3>2. disk'.mkey = disk.mkey /\ disk'.ckey = disk.ckey
      <4>1. CASE disk' = [disk EXCEPT !.key = @ \cup {k}]
        BY <4>1
      <4> QED
        BY <3>1, <4>1
    <3>3. UNCHANGED mapCryptedKeys
      BY <1>1, <2>2 DEF KeyMade, MakeKey
    <3> QED
      BY <1>1, <3>2, <3>3 DEF MasterKept, CallsKept, Holding
  <2> QED
    BY <2>1, <2>2
<1>2. ASSUME NEW t \in Threads, NEW k \in Keys, GenerateNewKey(t, k) PROVE MasterKept'
  <2>1. CallsKept
    BY <1>2 DEF GenerateNewKey, CallsKept, StoreInv, StoreType, TypeOK
  <2> QED
    BY <1>1, <1>2, <2>1, NoneCommits DEF GenerateNewKey, NewKey, Saved, KeyMade
<1>3. ASSUME NEW t \in Threads, RunLater(t) PROVE MasterKept'
  <2>1. CallsKept /\ ~Committing
    BY <1>3, NoneCommits, ReturnKeeps DEF RunLater, StoreInv
  <2> QED
    BY <1>1, <1>3, <2>1, RunLaterCases, MasterKeysKept DEF RunLater, StoreInv
<1>4. ASSUME NEW t \in Threads, EncryptKeys(t) PROVE MasterKept'
  BY <1>4, EncryptKeysCases, EncryptsMaster, StrayMaster, LoadMaster
<1>5. ASSUME NEW t \in Threads, EncryptCommit(t) PROVE MasterKept'
  BY <1>5, CommitMaster, LoadMaster DEF EncryptCommit, CommitsFile
<1>6. ASSUME NEW t \in Threads, NEW p \in Passphrases, ChangeWalletPassphrase(t, p)
      PROVE  MasterKept'
  <2>1. CallsKept /\ call[t].fWasLocked \in BOOLEAN
    BY <1>6, ReturnKeeps DEF ChangeWalletPassphrase, StoreInv, StoreType, TypeOK
  <2>2. \A u \in Threads : call[u].at \notin Holding
    BY <1>6 DEF ChangeWalletPassphrase, CsWalletFree, Holding
  <2> QED
    BY <1>6, <2>1, <2>2, ChangeMaster, MasterKeysKept DEF ChangeWalletPassphrase, NotChanged
<1>7. ASSUME NEW old \in Passphrases, NEW new \in Passphrases, GuiChangePassphrase(old, new)
      PROVE  MasterKept'
  <2>1. CallsKept /\ Gui \in Threads
    BY <1>7 DEF GuiChangePassphrase, CallsKept, StoreInv, StoreType, TypeOK, Threads
  <2>2. \A u \in Threads : call[u].at \notin Holding
    BY <1>7 DEF GuiChangePassphrase, CsWalletFree, Holding
  <2> QED
    BY <1>7, <2>1, <2>2, ChangeMaster, MasterKeysKept DEF GuiChangePassphrase, NotChanged
<1>8. ASSUME \/ \E t \in Threads, p \in Passphrases :
                  EncryptCheck(t, p) \/ ChangeCheck(t, p) \/ WalletPassphrase(t, p)
             \/ \E t \in Threads : WalletLock(t)
             \/ \E p \in Passphrases : RequestUnlock(p)
             \/ Relock \/ (\E i \in {1, 2} : LockWallet(i)) \/ UNCHANGED vars
      PROVE  MasterKept'
  <2>1. UNCHANGED <<mapCryptedKeys, mapMasterKeys, disk, txn, acked>> /\ CallsKept
    BY <1>8, LockKeeps
  <2> QED
    BY <2>1, MasterKeysKept
<1>9. ASSUME NEW t \in Threads, EncryptNewPoolThrows(t) PROVE MasterKept'
  <2>1. /\ call[t].at = "newpool" /\ Return(t)
        /\ UNCHANGED <<mapMasterKeys, disk, acked>>
    BY <1>9 DEF EncryptNewPoolThrows
  <2>2. CallsKept /\ ~Committing /\ fUseCrypto
    BY <2>1, ReturnKeeps DEF StoreInv, OneEncrypts, Committing, Holding
  <2>3. PICK id \in UnlockedBy(call[t].pass), k \in Keys :
          mapCryptedKeys' = Put(mapCryptedKeys, k, id)
    BY <1>9 DEF EncryptNewPoolThrows
  <2>4. \A l \in DOMAIN mapCryptedKeys : mapCryptedKeys[l] = id
    BY DEF UnlockedBy, Decrypts
  <2> QED
    BY <2>1, <2>2, <2>3, <2>4, NewKeyMaster
<1> QED
  BY <1>2, <1>3, <1>4, <1>5, <1>6, <1>7, <1>8, <1>9, NewPoolMaster, LoadMaster
  DEF Next

\* The whole invariant holds throughout.
LEMMA CryptAlways ==
    ASSUME "mkey" \notin MayFail
    PROVE  Spec => []CryptInv
<1>1. Init => CryptInv
  BY InitStore, InitMaster DEF CryptInv
<1>2. CryptInv /\ [Next]_vars => CryptInv'
  BY StoreStep, MasterStep DEF CryptInv
<1> QED
  BY <1>1, <1>2, PTL DEF Spec

\* Encryption dies and fails as it may: the file is plain or encrypted, and the master
\* key of every encrypted key is in it.
THEOREM FileAlwaysLoads ==
    ASSUME "mkey" \notin MayFail
    PROVE  Spec => []FileLoads
<1>1. ASSUME CryptInv PROVE FileLoads
  <2>1. disk.key = {} \/ disk.ckey = << >>
    BY <1>1, EmptyMap DEF CryptInv, StoreInv, StoreType, Maps, FileRight
  <2>2. Range(disk.ckey) \subseteq DOMAIN disk.mkey
    BY <1>1 DEF CryptInv, MasterKept, Range
  <2> QED
    BY <2>1, <2>2 DEF FileLoads
<1> QED
  BY <1>1, CryptAlways, PTL

-----------------------------------------------------------------------------
(* The file implements WalletVault *)

\* The passphrase of the one master key that all keys of the file are encrypted with.
ProtectionRight ==
    /\ DOMAIN disk.ckey = {} => Protection = Open
    /\ \A k \in DOMAIN disk.ckey : Protection = disk.mkey[disk.ckey[k]]

\* The file is protected by one master key or by none.
LEMMA ProtectionIs == CryptInv => ProtectionRight
<1> SUFFICES ASSUME CryptInv PROVE ProtectionRight
  OBVIOUS
<1> USE DEF CryptInv, StoreInv
<1>1. disk.ckey = << >> <=> DOMAIN disk.ckey = {}
  BY EmptyMap DEF StoreType, Maps
<1>2. ASSUME NEW k \in DOMAIN disk.ckey PROVE Protection = disk.mkey[disk.ckey[k]]
  <2> DEFINE id == disk.ckey[k]
             opens == {disk.mkey[i] : i \in {j \in DOMAIN disk.mkey : Range(disk.ckey) = {j}}}
  <2>1. Range(disk.ckey) = {id}
    BY DEF FileRight, MemoryRight, Range
  <2>2. id \in DOMAIN disk.mkey
    BY DEF MasterKept
  <2>3. opens = {disk.mkey[id]}
    BY <2>1, <2>2
  <2>4. Protection = CHOOSE p \in opens : TRUE
    BY <1>1, <2>3 DEF Protection
  <2> QED
    BY <2>3, <2>4
<1> QED
  BY <1>1, <1>2 DEF Protection, ProtectionRight

\* walletpassphrasechange, as long as master keys are written.
THEOREM AckedPassphraseAlwaysOpens ==
    ASSUME "mkey" \notin MayFail
    PROVE  Spec => []AckedPassphraseOpens
<1>1. ASSUME CryptInv PROVE AckedPassphraseOpens
  BY <1>1, ProtectionIs DEF CryptInv, MasterKept, AckedPassphraseOpens, ProtectionRight
<1> QED
  BY <1>1, CryptAlways, PTL

Stored == disk.key \cup DOMAIN disk.ckey

\* The first file is a vault.
LEMMA InitMaps == Init => Vault!Init
<1> SUFFICES ASSUME Init PROVE Vault!Init
  OBVIOUS
<1>1. disk.ckey = << >> /\ disk.key = issued
  BY DEF Init, NoFile
<1>2. \E k \in Keys : issued = {k}
  BY DEF Init
<1> QED
  BY <1>1, <1>2 DEF Vault!Init, Protection

\* The same, before and after a step.
LEMMA ProtectionIsBoth ==
    ASSUME CryptInv, CryptInv'
    PROVE  ProtectionRight /\ ProtectionRight'
<1>1. CryptInv' => ProtectionRight'
  BY ProtectionIs, PTL
<1> QED
  BY <1>1, ProtectionIs

\* A saved key is AddKey: it was new in memory, so in the file.
LEMMA SavedMaps ==
    ASSUME CryptInv, CryptInv', NEW k \in Keys, k \notin mapKeys \cup DOMAIN mapCryptedKeys,
           ~Committing, \A l \in DOMAIN disk.ckey : l \in DOMAIN disk'.ckey,
           Stored' = Stored \cup {k}, disk'.mkey = disk.mkey,
           DOMAIN disk.ckey = {} => DOMAIN disk'.ckey = {},
           \A l \in DOMAIN disk.ckey : disk'.ckey[l] = disk.ckey[l]
    PROVE  Vault!AddKey(k)
<1>1. k \notin Stored
  BY DEF Stored, CryptInv, StoreInv, FileRight
<1>2. ProtectionRight /\ ProtectionRight'
  BY ProtectionIsBoth
<1>3. Protection' = Protection
  BY <1>2 DEF ProtectionRight
<1> QED
  BY <1>1, <1>3 DEF Vault!AddKey, Stored

\* A new key is one of the vault.
LEMMA NewKeyMaps ==
    ASSUME CryptInv, CryptInv', NEW k \in Keys, KeyMade(k), ~Committing
    PROVE  UNCHANGED disk \/ Vault!AddKey(k)
<1> USE DEF CryptInv, StoreInv
<1>1. CASE IsCrypted
  <2> DEFINE d == Put(disk.ckey, k, vMasterKey)
  <2>1. /\ DOMAIN d = DOMAIN disk.ckey \cup {k}
        /\ \A y \in DOMAIN disk.ckey \ {k} : d[y] = disk.ckey[y]
    BY DEF Put
  <2>2. disk' = disk \/ disk' = [disk EXCEPT !.ckey = d, !.key = @ \ {k}]
    BY <1>1 DEF KeyMade, NewKeyWrites
  <2> HIDE DEF d
  <2>3. CASE disk' = [disk EXCEPT !.ckey = d, !.key = @ \ {k}]
    <3>1. disk'.ckey = d /\ disk'.key = disk.key \ {k} /\ disk'.mkey = disk.mkey
      BY <2>3
    <3>2. /\ k \notin mapKeys \cup DOMAIN mapCryptedKeys
          /\ DOMAIN disk.ckey # {} /\ k \notin DOMAIN disk.ckey
      BY <1>1 DEF KeyMade, MakeKey, FileRight, IsCrypted
    <3>3. Stored' = Stored \cup {k}
      BY <2>1, <3>1 DEF Stored
    <3> QED
      BY <2>1, <3>1, <3>2, <3>3, SavedMaps
  <2> QED
    BY <2>2, <2>3
<1>2. CASE ~IsCrypted
  <2>1. disk' = disk \/ disk' = [disk EXCEPT !.key = @ \cup {k}]
    BY <1>2 DEF KeyMade, NewKeyWrites
  <2>2. CASE disk' = [disk EXCEPT !.key = @ \cup {k}]
    <3>1. disk'.ckey = disk.ckey /\ disk'.key = disk.key \cup {k} /\ disk'.mkey = disk.mkey
      BY <2>2
    <3>2. k \notin mapKeys \cup DOMAIN mapCryptedKeys
      BY DEF KeyMade, MakeKey
    <3>3. Stored' = Stored \cup {k}
      BY <3>1 DEF Stored
    <3> QED
      BY <3>1, <3>2, <3>3, SavedMaps
  <2> QED
    BY <2>1, <2>2
<1> QED
  BY <1>1, <1>2

\* So is the one of the key pool made anew.
LEMMA NewPoolMaps ==
    ASSUME CryptInv, CryptInv', NEW t \in Threads, EncryptNewPool(t)
    PROVE  UNCHANGED disk \/ \E k \in Keys : Vault!AddKey(k)
<1> USE DEF CryptInv, StoreInv
<1>1. ~Committing /\ DOMAIN disk.ckey # {}
  BY DEF EncryptNewPool, OneEncrypts, Committing, Holding, FileRight
<1>2. ASSUME NEW id \in UnlockedBy(call[t].pass), NEW k \in Keys,
             k \notin mapKeys \cup DOMAIN mapCryptedKeys,
             disk' = [disk EXCEPT !.ckey = Put(@, k, id)]
      PROVE  Vault!AddKey(k)
  <2> DEFINE d == Put(disk.ckey, k, id)
  <2>1. /\ DOMAIN d = DOMAIN disk.ckey \cup {k}
        /\ \A y \in DOMAIN disk.ckey \ {k} : d[y] = disk.ckey[y]
    BY DEF Put
  <2>2. disk' = [disk EXCEPT !.ckey = d]
    BY <1>2
  <2> HIDE DEF d
  <2>3. disk'.ckey = d /\ disk'.key = disk.key /\ disk'.mkey = disk.mkey
    BY <2>2
  <2>4. k \notin DOMAIN disk.ckey
    BY <1>2 DEF FileRight
  <2>5. Stored' = Stored \cup {k}
    BY <2>1, <2>3 DEF Stored
  <2> QED
    BY <1>1, <1>2, <2>1, <2>3, <2>4, <2>5, SavedMaps
<1> QED
  BY <1>2 DEF EncryptNewPool

\* TxnCommit is Protect: every key of memory, saved before or not, under the new
\* passphrase.
LEMMA CommitMaps ==
    ASSUME CryptInv, CryptInv', NEW t \in Threads, CommitsFile(t)
    PROVE  \E p \in Passphrases, more \in SUBSET Keys : Vault!Protect(p, more)
<1> USE DEF CryptInv, StoreInv
<1>1. /\ call[t].at = "commit" /\ disk' = txn
      /\ txn.key = {} /\ txn.ckey = mapCryptedKeys
      /\ DOMAIN disk.ckey = {} /\ disk.key \subseteq mapKeys \cup DOMAIN mapCryptedKeys
      /\ mapKeys = {} /\ DOMAIN mapCryptedKeys # {}
  BY DEF CommitsFile, FileRight, Committing, OneEncrypts, Holding, MemoryRight
<1>2. PICK k \in DOMAIN mapCryptedKeys : TRUE
  BY <1>1
<1>3. ProtectionRight /\ ProtectionRight'
  BY ProtectionIsBoth
<1>4. /\ disk'.key = {} /\ disk'.ckey = mapCryptedKeys
      /\ disk'.mkey[disk'.ckey[k]] = call[t].pass
  BY <1>1, <1>2 DEF MasterKept
<1>5. Protection = Open /\ Protection' = call[t].pass /\ call[t].pass \in Passphrases
  BY <1>1, <1>2, <1>3, <1>4 DEF ProtectionRight, StoreType, Passing, Holding
<1>6. /\ DOMAIN mapCryptedKeys \in SUBSET Keys
      /\ Stored' = Stored \cup DOMAIN mapCryptedKeys
  BY <1>1, <1>4 DEF Stored, StoreType, TypeOK
<1> QED
  BY <1>5, <1>6 DEF Vault!Protect, Stored

\* A change of passphrase is the vault's.
LEMMA ChangeMaps ==
    ASSUME "mkey" \notin MayFail, CryptInv, CryptInv', ~Committing, NEW t \in Threads,
           NEW old, NEW new \in Passphrases, NEW wasLocked \in BOOLEAN,
           NEW id \in Found(old), ChangedTo(t, id, new, wasLocked)
    PROVE  \E was \in Passphrases : Vault!Change(was, new)
<1> USE DEF CryptInv, StoreInv
<1>1. disk' = [disk EXCEPT !.mkey = Put(@, id, new)]
  BY DEF ChangedTo
<1>2. /\ id \in DOMAIN mapMasterKeys /\ mapMasterKeys[id] = old
      /\ DOMAIN mapCryptedKeys # {}
      /\ \A k \in DOMAIN mapCryptedKeys : mapCryptedKeys[k] = id
  BY EmptyMap DEF Found, UnlockedBy, Decrypts, StoreType, Maps
<1>3. old \in Passphrases
  BY <1>2 DEF StoreType, TypeOK, Range
<1>4. PICK k \in DOMAIN disk.ckey : TRUE
  BY <1>2 DEF FileRight, MemoryRight
<1>5. disk.ckey[k] = id /\ disk.mkey[id] = old
  BY <1>2, <1>4 DEF FileRight, MasterKept
<1> DEFINE d == Put(disk.mkey, id, new)
<1>6. d[id] = new /\ disk' = [disk EXCEPT !.mkey = d]
  BY <1>1 DEF Put
<1> HIDE DEF d
<1>7. disk'.key = disk.key /\ disk'.ckey = disk.ckey /\ disk'.mkey = d
  BY <1>6
<1>8. ProtectionRight /\ ProtectionRight'
  BY ProtectionIsBoth
<1>9. Protection = old /\ Protection' = new
  BY <1>4, <1>5, <1>6, <1>7, <1>8 DEF ProtectionRight
<1> QED
  BY <1>3, <1>7, <1>9 DEF Vault!Change

\* Every step is one of the vault's, or leaves it alone.
LEMMA StepMaps ==
    ASSUME "mkey" \notin MayFail
    PROVE  CryptInv /\ CryptInv' /\ [Next]_vars => [Vault!Next]_(Vault!vars)
<1> SUFFICES ASSUME CryptInv, CryptInv', [Next]_vars
             PROVE  Vault!Next \/ UNCHANGED Vault!vars
  BY DEF Vault!vars
<1>1. UNCHANGED disk => UNCHANGED Vault!vars
  BY DEF Vault!vars, Protection
<1>2. ASSUME NEW t \in Threads, NEW k \in Keys, GenerateNewKey(t, k)
      PROVE  UNCHANGED disk \/ Vault!Next
  BY <1>2, NoneCommits, NewKeyMaps DEF GenerateNewKey, NewKey, Saved, KeyMade, CryptInv,
     Vault!Next
<1>3. ASSUME NEW t \in Threads, RunLater(t)
      PROVE  UNCHANGED disk \/ Vault!Next
  <2>1. ~Committing
    BY <1>3, NoneCommits DEF RunLater, CryptInv
  <2> QED
    BY <1>3, <2>1, RunLaterCases, NewKeyMaps DEF CryptInv, StoreInv, Vault!Next
<1>4. ASSUME NEW t \in Threads, EncryptKeys(t) \/ EncryptNewPoolThrows(t) \/ LoadWallet
      PROVE  UNCHANGED disk
  BY <1>4, EncryptKeysCases DEF EncryptsInMemory, EncryptNewPoolThrows, LoadWallet
<1>5. ASSUME NEW t \in Threads, EncryptCommit(t)
      PROVE  UNCHANGED disk \/ Vault!Next
  <2>1. CASE CommitsFile(t)
    BY <2>1, CommitMaps DEF Vault!Next
  <2>2. CASE LoadWallet
    BY <2>2 DEF LoadWallet
  <2> QED
    BY <1>5, <2>1, <2>2 DEF EncryptCommit, CommitsFile
<1>6. ASSUME NEW t \in Threads, EncryptNewPool(t)
      PROVE  UNCHANGED disk \/ Vault!Next
  BY <1>6, NewPoolMaps DEF Vault!Next
<1>7. ASSUME NEW t \in Threads, NEW p \in Passphrases, ChangeWalletPassphrase(t, p)
      PROVE  UNCHANGED disk \/ Vault!Next
  <2>1. call[t].fWasLocked \in BOOLEAN /\ ~Committing
    BY <1>7, NoneCommits DEF ChangeWalletPassphrase, CryptInv, StoreInv, StoreType, TypeOK
  <2> QED
    BY <1>7, <2>1, ChangeMaps DEF ChangeWalletPassphrase, NotChanged, Vault!Next
<1>8. ASSUME NEW old \in Passphrases, NEW new \in Passphrases, GuiChangePassphrase(old, new)
      PROVE  UNCHANGED disk \/ Vault!Next
  <2>1. Gui \in Threads /\ ~Committing
    BY <1>8, NoneCommits DEF GuiChangePassphrase, CryptInv, Threads
  <2> QED
    BY <1>8, <2>1, ChangeMaps DEF GuiChangePassphrase, NotChanged, Vault!Next
<1>9. ASSUME \/ \E t \in Threads, p \in Passphrases :
                  EncryptCheck(t, p) \/ ChangeCheck(t, p) \/ WalletPassphrase(t, p)
             \/ \E t \in Threads : WalletLock(t)
             \/ \E p \in Passphrases : RequestUnlock(p)
             \/ Relock \/ (\E i \in {1, 2} : LockWallet(i)) \/ UNCHANGED vars
      PROVE  UNCHANGED disk
  BY <1>9, LockKeeps DEF CryptInv
<1>10. LoadWallet => UNCHANGED disk
  BY DEF LoadWallet
<1> QED
  BY <1>1, <1>2, <1>3, <1>4, <1>5, <1>6, <1>7, <1>8, <1>9, <1>10 DEF Next

\* Whatever the threads do and wherever the program dies, the file is a WalletVault.
THEOREM FileImplementsVault ==
    ASSUME "mkey" \notin MayFail
    PROVE  Spec => VaultSpec
<1>1. Spec => []CryptInv
  BY CryptAlways
<1> QED
  BY <1>1, InitMaps, StepMaps, PTL DEF Spec, VaultSpec, Vault!Spec

-----------------------------------------------------------------------------
(* The same wallet.dat, under the flush thread and the backup: what holds of *)
(* them for every set of threads that use the file and every set of updates, *)
(* of which any may be counted.                                              *)

CONSTANTS Users, Records, CountedRecords, NoEntry
VARIABLES useCount, otherCount, cs_db, nWalletDBUpdated, handles, logged, dat, flusher,
          backup, fShutdown
Flush == INSTANCE WalletFlush

Handle == [open : BOOLEAN, loaded : Nat \cup {-1}, record : SUBSET Records]
FlusherAt == {"sleeping", "deciding", "locked", "flushing"}
FlushType ==
    /\ nWalletDBUpdated \in Nat
    /\ handles \in [Users -> Handle]
    /\ flusher \in [at : FlusherAt, nLastSeen : Nat, nLastFlushed : Nat, quiet : Nat]
    /\ logged \subseteq Records
    /\ cs_db \in {"free", "flush", "backup"}
    /\ backup \in {"waiting", "copying", "copied", "failed"}

OpenHandles == {u \in Users : handles[u].open}

\* mapFileUseCount counts the open handles; a closed handle has nothing under way.
CountRight ==
    /\ IsFiniteSet(OpenHandles)
    /\ IF useCount = NoEntry THEN OpenHandles = {} ELSE useCount = Cardinality(OpenHandles)
    /\ \A u \in Users : ~handles[u].open => handles[u] = Flush!Closed

\* cs_db is held while the database is closed or copied, and then nobody has it open.
LockRight ==
    /\ flusher.at \in {"locked", "flushing"} <=> cs_db = "flush"
    /\ backup = "copying" <=> cs_db = "backup"
    /\ flusher.at = "flushing" \/ backup = "copying" => OpenHandles = {}
    /\ backup = "copying" => logged = {}

\* A thread loads the counter while it has the database open, so after the last flush
\* began: however many increments the race loses, what is stored is above nLastFlushed.
CounterRight ==
    /\ flusher.nLastFlushed <= nWalletDBUpdated
    /\ \A u \in Users : handles[u].loaded # -1 => flusher.nLastFlushed <= handles[u].loaded
    /\ \A u \in Users : handles[u].loaded = -1 /\ handles[u].record \cap CountedRecords # {}
                            => flusher.nLastFlushed < nWalletDBUpdated
    /\ logged \cap CountedRecords # {} /\ flusher.at # "flushing"
        => flusher.nLastFlushed < nWalletDBUpdated

FlushInv == FlushType /\ CountRight /\ LockRight /\ CounterRight

-----------------------------------------------------------------------------
\* Before a thread opens the database or starts a flush.
LEMMA FlushInit ==
    ASSUME NoEntry \notin Nat
    PROVE  Flush!Init => FlushInv
<1> SUFFICES ASSUME Flush!Init PROVE FlushInv
  OBVIOUS
<1>1. FlushType
  BY DEF Flush!Init, FlushType, Handle, Flush!Closed, FlusherAt
<1>2. OpenHandles = {}
  BY DEF Flush!Init, OpenHandles, Flush!Closed
<1>3. IsFiniteSet(OpenHandles) /\ Cardinality(OpenHandles) = 0
  BY <1>2, FS_EmptySet
<1>4. CountRight
  BY <1>3 DEF Flush!Init, CountRight, Flush!Closed
<1>5. LockRight
  BY <1>2 DEF Flush!Init, LockRight
<1>6. CounterRight
  BY DEF Flush!Init, CounterRight, Flush!Closed
<1> QED
  BY <1>1, <1>4, <1>5, <1>6 DEF FlushInv

\* A handle with another content in the place of its own is no part of the types.
LEMMA HandleType ==
    ASSUME FlushType, NEW u \in Users, NEW h \in Handle
    PROVE  [handles EXCEPT ![u] = h] \in [Users -> Handle]
BY DEF FlushType

\* What a step does to the open handles is all that the count depends on.
LEMMA SameOpen ==
    ASSUME FlushInv, OpenHandles' = OpenHandles, useCount' = useCount,
           \A u \in Users : ~handles'[u].open => handles'[u] = Flush!Closed
    PROVE  CountRight'
BY DEF FlushInv, CountRight

\* CDB::CDB: one handle more, and one use more.
LEMMA OpenWalletCount ==
    ASSUME NoEntry \notin Nat, FlushInv, NEW u \in Users, Flush!OpenWallet(u)
    PROVE  CountRight'
<1>1. OpenHandles' = OpenHandles \cup {u} /\ u \notin OpenHandles
  BY DEF FlushInv, FlushType, Handle, Flush!OpenWallet, OpenHandles
<1>2. IsFiniteSet(OpenHandles') /\ Cardinality(OpenHandles') = Cardinality(OpenHandles) + 1
  BY <1>1, FS_AddElement DEF FlushInv, CountRight
<1>3. Cardinality(OpenHandles) \in Nat
  BY FS_CardinalityType DEF FlushInv, CountRight
<1>4. useCount = NoEntry => Cardinality(OpenHandles) = 0
  BY FS_EmptySet DEF FlushInv, CountRight
<1>5. useCount' = Cardinality(OpenHandles')
  BY <1>2, <1>3, <1>4 DEF FlushInv, CountRight, Flush!OpenWallet
<1>6. useCount' # NoEntry
  BY <1>5, <1>2, <1>3
<1>7. \A w \in Users : ~handles'[w].open => handles'[w] = Flush!Closed
  BY DEF FlushInv, FlushType, CountRight, Flush!OpenWallet
<1> QED
  BY <1>2, <1>5, <1>6, <1>7 DEF CountRight

\* CDB::Close: one handle less, and one use less.
LEMMA CloseWalletCount ==
    ASSUME NoEntry \notin Nat, FlushInv, NEW u \in Users, Flush!CloseWallet(u)
    PROVE  CountRight'
<1>1. OpenHandles' = OpenHandles \ {u} /\ u \in OpenHandles
  BY DEF FlushInv, FlushType, Flush!CloseWallet, OpenHandles, Flush!Closed
<1>2. IsFiniteSet(OpenHandles') /\ Cardinality(OpenHandles') = Cardinality(OpenHandles) - 1
  BY <1>1, FS_RemoveElement DEF FlushInv, CountRight
<1>3. Cardinality(OpenHandles') \in Nat /\ Cardinality(OpenHandles) \in Nat
  BY <1>2, FS_CardinalityType DEF FlushInv, CountRight
<1>4. useCount = Cardinality(OpenHandles)
  BY <1>1 DEF FlushInv, CountRight
<1>5. useCount' = Cardinality(OpenHandles') /\ useCount' # NoEntry
  BY <1>2, <1>3, <1>4 DEF Flush!CloseWallet
<1>6. \A w \in Users : ~handles'[w].open => handles'[w] = Flush!Closed
  BY DEF FlushInv, FlushType, CountRight, Flush!CloseWallet
<1> QED
  BY <1>2, <1>5, <1>6 DEF CountRight

\* A database whose count is zero or absent is open in no thread.
LEMMA UnusedClosed ==
    ASSUME NoEntry \notin Nat, FlushInv, useCount \in {0, NoEntry}
    PROVE  OpenHandles = {}
BY FS_EmptySet DEF FlushInv, CountRight

-----------------------------------------------------------------------------
\* What a thread does with its handle, while nobody closes or copies the database.
LEMMA UserStep ==
    ASSUME NoEntry \notin Nat, FlushInv, NEW u \in Users,
           \/ Flush!OpenWallet(u) \/ Flush!CloseWallet(u) \/ Flush!StoreCount(u) \/ Flush!WriteRecord(u)
           \/ \E r \in Records : Flush!LoadCount(u, r)
    PROVE  FlushInv'
<1> USE DEF FlushInv
<1>1. CASE Flush!OpenWallet(u)
  <2>1. FlushType' /\ LockRight'
    <3> DEFINE h == [handles[u] EXCEPT !.open = TRUE]
    <3>1. handles[u] \in Handle
      BY DEF FlushType
    <3>2. h \in Handle
      BY <3>1 DEF Handle
    <3>3. handles' = [handles EXCEPT ![u] = h]
      BY <1>1 DEF Flush!OpenWallet
    <3> HIDE DEF h
    <3>4. handles' \in [Users -> Handle]
      BY <3>2, <3>3, HandleType
    <3>5. /\ cs_db = "free"
          /\ UNCHANGED <<cs_db, nWalletDBUpdated, logged, flusher, backup>>
      BY <1>1 DEF Flush!OpenWallet
    <3>6. FlushType'
      BY <3>4, <3>5 DEF FlushType
    <3>7. LockRight'
      BY <3>5 DEF LockRight
    <3> QED
      BY <3>6, <3>7
  <2>2. CounterRight'
    BY <1>1 DEF Flush!OpenWallet, FlushType, CounterRight
  <2> QED
    BY <1>1, <2>1, <2>2, OpenWalletCount
<1>2. CASE Flush!CloseWallet(u)
  <2>1. FlushType' /\ LockRight'
    BY <1>2 DEF Flush!CloseWallet, FlushType, Handle, LockRight, OpenHandles, Flush!Closed
  <2>2. CounterRight'
    BY <1>2 DEF Flush!CloseWallet, FlushType, Handle, CounterRight, Flush!Closed
  <2> QED
    BY <1>2, <2>1, <2>2, CloseWalletCount
<1>3. CASE Flush!StoreCount(u)
  <2>1. handles[u].open /\ handles[u].loaded \in Nat
    BY <1>3 DEF Flush!StoreCount, FlushType, Handle, CountRight, Flush!Closed
  <2>2. FlushType'
    BY <1>3, <2>1 DEF Flush!StoreCount, FlushType, Handle
  <2>3. OpenHandles' = OpenHandles
    BY <1>3 DEF Flush!StoreCount, FlushType, Handle, OpenHandles
  <2>4. CountRight'
    BY <1>3, <2>1, <2>3, SameOpen DEF Flush!StoreCount, FlushType, Handle, CountRight
  <2>5. LockRight'
    BY <1>3, <2>3 DEF Flush!StoreCount, LockRight
  <2>6. CounterRight'
    BY <1>3, <2>1 DEF Flush!StoreCount, FlushType, Handle, CounterRight
  <2> QED
    BY <2>2, <2>4, <2>5, <2>6
<1>4. CASE Flush!WriteRecord(u)
  <2>1. handles[u].open
    BY <1>4 DEF Flush!WriteRecord, CountRight, Flush!Closed
  <2>2. FlushType'
    BY <1>4 DEF Flush!WriteRecord, FlushType, Handle
  <2>3. OpenHandles' = OpenHandles /\ u \in OpenHandles
    BY <1>4, <2>1 DEF Flush!WriteRecord, FlushType, Handle, OpenHandles
  <2>4. CountRight'
    BY <1>4, <2>1, <2>3, SameOpen DEF Flush!WriteRecord, FlushType, Handle, CountRight
  <2>5. LockRight'
    BY <1>4, <2>3 DEF Flush!WriteRecord, LockRight
  <2>6. CounterRight'
    BY <1>4 DEF Flush!WriteRecord, FlushType, Handle, CounterRight
  <2> QED
    BY <2>2, <2>4, <2>5, <2>6
<1>5. ASSUME NEW r \in Records, Flush!LoadCount(u, r) PROVE FlushInv'
  <2> DEFINE n == IF r \in CountedRecords THEN nWalletDBUpdated ELSE -1
  <2>1. n \in Nat \cup {-1}
    BY DEF FlushType
  <2> DEFINE h == [handles[u] EXCEPT !.record = {r}, !.loaded = n]
  <2>2. handles' = [handles EXCEPT ![u] = h]
    BY <1>5 DEF Flush!LoadCount
  <2>3. /\ handles[u].open
        /\ UNCHANGED <<useCount, cs_db, nWalletDBUpdated, logged, flusher, backup>>
    BY <1>5 DEF Flush!LoadCount
  <2>4. n # -1 => n = nWalletDBUpdated
    OBVIOUS
  <2>5. n = -1 => r \notin CountedRecords
    BY DEF FlushType
  <2> HIDE DEF n
  <2>11. handles[u] \in Handle /\ {r} \in SUBSET Records
    BY DEF FlushType
  <2>12. h \in Handle /\ h.open = handles[u].open /\ h.loaded = n /\ h.record = {r}
    BY <2>1, <2>11 DEF Handle
  <2> HIDE DEF h
  <2>13. /\ handles'[u] = h /\ \A w \in Users \ {u} : handles'[w] = handles[w]
         /\ handles' \in [Users -> Handle]
    BY <2>2, <2>12, HandleType DEF FlushType
  <2>6. FlushType'
    BY <2>3, <2>13 DEF FlushType
  <2>7. OpenHandles' = OpenHandles
    BY <2>12, <2>13 DEF OpenHandles
  <2>8. CountRight'
    BY <2>3, <2>7, <2>12, <2>13, SameOpen DEF CountRight
  <2>9. LockRight'
    BY <2>3, <2>7 DEF LockRight
  <2>10. CounterRight'
    <3>1. /\ handles'[u].loaded = n /\ handles'[u].record = {r}
          /\ \A w \in Users \ {u} : handles'[w] = handles[w]
      BY <2>12, <2>13
    <3> QED
      BY <3>1, <2>3, <2>4, <2>5 DEF CounterRight
  <2> QED
    BY <2>6, <2>8, <2>9, <2>10
<1> QED
  BY <1>1, <1>2, <1>3, <1>4, <1>5

\* Half a second of the flush thread, with a flush or without.
LEMMA FlusherStep ==
    ASSUME NoEntry \notin Nat, FlushInv, Flush!Look \/ Flush!Decide \/ Flush!FlushBegin \/ Flush!FlushEnd
    PROVE  FlushInv'
<1> USE DEF FlushInv
<1>1. CASE Flush!Look
  <2>1. FlushType' /\ flusher'.nLastFlushed = flusher.nLastFlushed
        /\ flusher'.at = "deciding"
    <3>1. PICK passed \in {0, 1} :
            LET f == IF flusher.nLastSeen # nWalletDBUpdated
                     THEN [flusher EXCEPT !.nLastSeen = nWalletDBUpdated, !.quiet = 0]
                     ELSE [flusher EXCEPT !.quiet = IF @ + passed > 2 THEN 2 ELSE @ + passed]
            IN flusher' = [f EXCEPT !.at = "deciding"]
      BY <1>1 DEF Flush!Look
    <3>2. CASE flusher.nLastSeen # nWalletDBUpdated
      BY <1>1, <3>1, <3>2 DEF Flush!Look, FlushType, FlusherAt
    <3>3. CASE flusher.nLastSeen = nWalletDBUpdated
      <4> DEFINE q == IF flusher.quiet + passed > 2 THEN 2 ELSE flusher.quiet + passed
      <4>1. q \in Nat
        BY DEF FlushType
      <4>2. flusher' = [flusher EXCEPT !.quiet = q, !.at = "deciding"]
        BY <3>1, <3>3 DEF FlushType
      <4> HIDE DEF q
      <4> QED
        BY <1>1, <4>1, <4>2 DEF Flush!Look, FlushType, FlusherAt
    <3> QED
      BY <3>2, <3>3
  <2>2. OpenHandles' = OpenHandles
    BY <1>1 DEF Flush!Look, OpenHandles
  <2>3. CountRight'
    BY <1>1, <2>2, SameOpen DEF Flush!Look, CountRight
  <2>4. LockRight'
    BY <1>1, <2>1, <2>2 DEF Flush!Look, LockRight
  <2>5. CounterRight'
    BY <1>1, <2>1 DEF Flush!Look, CounterRight
  <2> QED
    BY <2>1, <2>3, <2>4, <2>5
<1>2. CASE Flush!Decide
  <2>1. FlushType' /\ flusher'.nLastFlushed = flusher.nLastFlushed
        /\ flusher'.at = IF cs_db' = "flush" THEN "locked" ELSE "sleeping"
    BY <1>2 DEF Flush!Decide, FlushType, FlusherAt, LockRight
  <2>2. OpenHandles' = OpenHandles
    BY <1>2 DEF Flush!Decide, OpenHandles
  <2>3. CountRight'
    BY <1>2, <2>2, SameOpen DEF Flush!Decide, CountRight
  <2>4. LockRight'
    BY <1>2, <2>1, <2>2 DEF Flush!Decide, LockRight
  <2>5. CounterRight'
    BY <1>2, <2>1 DEF Flush!Decide, CounterRight
  <2> QED
    BY <2>1, <2>3, <2>4, <2>5
<1>3. CASE Flush!FlushBegin
  <2>1. OpenHandles' = OpenHandles /\ (flusher'.at = "flushing" => OpenHandles = {})
    BY <1>3, UnusedClosed DEF Flush!FlushBegin, Flush!Flushing, Flush!Unused, FlushType, OpenHandles
  <2>2. FlushType'
    BY <1>3 DEF Flush!FlushBegin, FlushType, FlusherAt
  <2>3. CountRight'
    BY <1>3, <2>1, SameOpen DEF Flush!FlushBegin, CountRight
  <2>4. LockRight'
    BY <1>3, <2>1 DEF Flush!FlushBegin, FlushType, LockRight
  <2>5. CASE Flush!Flushing
    <3>1. \A u \in Users : handles[u].loaded = -1 /\ handles[u].record = {}
      BY <2>5, UnusedClosed DEF Flush!Flushing, Flush!Unused, CountRight, OpenHandles, Flush!Closed
    <3>2. /\ flusher'.nLastFlushed = nWalletDBUpdated /\ flusher'.at = "flushing"
          /\ UNCHANGED <<handles, nWalletDBUpdated, logged>>
      BY <1>3, <2>5 DEF Flush!FlushBegin, FlushType
    <3>3. CounterRight'
      BY <3>1, <3>2 DEF FlushType, CounterRight
    <3> QED
      BY <2>2, <2>3, <2>4, <3>3
  <2>6. CASE ~Flush!Flushing
    BY <1>3, <2>2, <2>3, <2>4, <2>6 DEF Flush!FlushBegin, FlushType, CounterRight
  <2> QED
    BY <2>5, <2>6
<1>4. CASE Flush!FlushEnd
  <2>1. OpenHandles' = OpenHandles /\ OpenHandles = {}
    BY <1>4 DEF Flush!FlushEnd, LockRight, OpenHandles
  <2>2. FlushType'
    BY <1>4 DEF Flush!FlushEnd, FlushType, FlusherAt
  <2>3. CountRight'
    BY <1>4, <2>1 DEF Flush!FlushEnd, CountRight
  <2>4. LockRight'
    BY <1>4, <2>1 DEF Flush!FlushEnd, FlushType, LockRight
  <2>5. CounterRight'
    BY <1>4 DEF Flush!FlushEnd, FlushType, CounterRight
  <2> QED
    BY <2>2, <2>3, <2>4, <2>5
<1> QED
  BY <1>1, <1>2, <1>3, <1>4

\* BackupWallet waits for the same count.
LEMMA BackupStep ==
    ASSUME NoEntry \notin Nat, FlushInv, Flush!BackupBegin \/ Flush!BackupEnd
    PROVE  FlushInv'
<1> USE DEF FlushInv
<1>1. CASE Flush!BackupBegin
  <2>1. OpenHandles' = OpenHandles /\ OpenHandles = {}
    BY <1>1, UnusedClosed DEF Flush!BackupBegin, OpenHandles
  <2>2. FlushType' /\ LockRight'
    BY <1>1, <2>1 DEF Flush!BackupBegin, FlushType, LockRight
  <2>3. CountRight'
    BY <1>1, <2>1 DEF Flush!BackupBegin, CountRight
  <2>4. CounterRight'
    BY <1>1 DEF Flush!BackupBegin, FlushType, CounterRight
  <2> QED
    BY <2>2, <2>3, <2>4
<1>2. CASE Flush!BackupEnd
  <2>1. OpenHandles' = OpenHandles
    BY <1>2 DEF Flush!BackupEnd, OpenHandles
  <2>2. FlushType' /\ LockRight'
    BY <1>2, <2>1 DEF Flush!BackupEnd, FlushType, LockRight
  <2>3. CountRight'
    BY <1>2, <2>1, SameOpen DEF Flush!BackupEnd, CountRight
  <2>4. CounterRight'
    BY <1>2 DEF Flush!BackupEnd, CounterRight
  <2> QED
    BY <2>2, <2>3, <2>4
<1> QED
  BY <1>1, <1>2

\* Every step, the other databases and the shutdown among them.
LEMMA FlushStep ==
    ASSUME NoEntry \notin Nat
    PROVE  FlushInv /\ [Flush!Next]_(Flush!vars) => FlushInv'
<1> SUFFICES ASSUME FlushInv, [Flush!Next]_(Flush!vars) PROVE FlushInv'
  OBVIOUS
<1>1. CASE \E u \in Users :
              \/ Flush!OpenWallet(u) \/ Flush!CloseWallet(u) \/ Flush!StoreCount(u) \/ Flush!WriteRecord(u)
              \/ \E r \in Records : Flush!LoadCount(u, r)
  BY <1>1, UserStep
<1>2. CASE Flush!Look \/ Flush!Decide \/ Flush!FlushBegin \/ Flush!FlushEnd
  BY <1>2, FlusherStep
<1>3. CASE Flush!BackupBegin \/ Flush!BackupEnd
  BY <1>3, BackupStep
<1>4. CASE Flush!UseOther \/ Flush!Shutdown \/ UNCHANGED Flush!vars
  <2>1. UNCHANGED <<useCount, cs_db, nWalletDBUpdated, handles, logged, flusher, backup>>
    BY <1>4 DEF Flush!UseOther, Flush!Shutdown, Flush!vars
  <2>2. OpenHandles' = OpenHandles
    BY <2>1 DEF OpenHandles
  <2> QED
    BY <2>1, <2>2 DEF FlushInv, FlushType, CountRight, LockRight, CounterRight
<1> QED
  BY <1>1, <1>2, <1>3, <1>4 DEF Flush!Next

\* ThreadFlushWalletDB and BackupWallet: the database is never closed under a thread
\* that has it open, no counted update is forgotten, and a backup has everything.
THEOREM WalletFlushed ==
    ASSUME NoEntry \notin Nat
    PROVE  Flush!Spec => []Flush!FlushedSafely
<1>1. FlushInv => Flush!FlushedSafely
  <2> SUFFICES ASSUME FlushInv PROVE Flush!FlushedSafely
    OBVIOUS
  <2>1. Flush!ClosedUnused
    BY DEF FlushInv, LockRight, Flush!ClosedUnused, OpenHandles
  <2>2. Flush!NoUpdateForgotten
    BY DEF FlushInv, FlushType, CounterRight, Flush!NoUpdateForgotten
  <2>3. Flush!BackupWhole
    BY DEF FlushInv, LockRight, CountRight, Flush!BackupWhole, Flush!Writing, OpenHandles, Flush!Closed
  <2> QED
    BY <2>1, <2>2, <2>3 DEF Flush!FlushedSafely
<1>2. Flush!Init => FlushInv
  BY FlushInit
<1>3. FlushInv /\ [Flush!Next]_(Flush!vars) => FlushInv'
  BY FlushStep
<1> QED
  BY <1>1, <1>2, <1>3, PTL DEF Flush!Spec
=============================================================================
