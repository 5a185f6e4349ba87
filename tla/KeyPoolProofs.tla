--------------------------- MODULE KeyPoolProofs ---------------------------
(***************************************************************************)
(* What holds of the key pool for every number of holders, every -keypool  *)
(* and every bound: its type, that a used key has left the disk, and that  *)
(* no key is used twice unless a record in use was written over.           *)
(***************************************************************************)
EXTENDS KeyPool, IntervalFacts, FiniteSetTheorems

\* What makes UsedKeyLeavesDisk inductive: a key is recorded under one index
\* for its whole life, and a holder that has the key has that index.
DiskInv ==
    /\ \A i, j \in Index : pool[i] # NoKey /\ pool[i] = pool[j] => i = j
    /\ \A i \in Index : pool[i] <= generated
    /\ \A h \in Holders : held[h].key <= generated
    /\ \A k \in Keys : uses[k] # 0 => k <= generated
    /\ \A h \in Holders : held[h].key \in Keys =>
          /\ held[h].idx \in Index
          /\ \A i \in Index : pool[i] = held[h].key => i = held[h].idx
    /\ UsedKeyLeavesDisk

\* OwnedOnce and KeyUsedOnceUnlessOverwritten together: until a record is written
\* over, the holders' keys are the recorded, hence unused, ones.
OwnerInv == OwnedOnce /\ KeyUsedOnceUnlessOverwritten

-----------------------------------------------------------------------------
(* The operators of KeyPool *)

\* *begin(setKeyPool) is an element of the set.
LEMMA SmallestIn ==
    ASSUME NEW S \in SUBSET Index, S # {}
    PROVE  Smallest(S) \in S
<1>1. S \in SUBSET Nat
  BY MaxKeysAssumption DEF Index
<1>2. \E m \in S : \A i \in S : m <= i
  BY <1>1, MinExists
<1> QED
  BY <1>2 DEF Smallest

\* The index TopUpKeyPool() continues from is a number of 0..MaxKeys, and no
\* index of the set is above it.
LEMMA LargestBound ==
    ASSUME NEW S \in SUBSET Index
    PROVE  Largest(S) \in 0..MaxKeys /\ \A i \in S : i <= Largest(S)
<1>1. CASE S = {}
  BY <1>1, MaxKeysAssumption DEF Largest
<1>2. CASE S # {}
  <2>1. \E m \in S : \A i \in S : i <= m
    BY <1>2, MaxKeysAssumption, MaxExists DEF Index
  <2>2. Largest(S) \in S /\ \A i \in S : i <= Largest(S)
    BY <1>2, <2>1 DEF Largest
  <2>3. Largest(S) \in Index
    BY <2>2
  <2>4. Largest(S) \in 0..MaxKeys
    BY <2>3, MaxKeysAssumption DEF Index
  <2> QED
    BY <2>2, <2>4
<1> QED
  BY <1>1, <1>2

\* TopUpKeyPool() generates a natural number of keys.
LEMMA DeficitNat ==
    ASSUME NEW S \in SUBSET Index
    PROVE  Deficit(S) \in Nat
<1>1. IsFiniteSet(Index)
  BY FS_Interval, MaxKeysAssumption DEF Index
<1>2. IsFiniteSet(S)
  BY <1>1, FS_Subset
<1>3. Cardinality(S) \in Nat
  BY <1>2, FS_CardinalityType
<1> QED
  BY <1>3, TargetAssumption DEF Deficit

\* TopUpKeyPool() leaves a record alone or writes a key generated just now;
\* the new keys are different from each other; and unless it overwrites one, the
\* record of an index outside the set stays, with its index outside.
LEMMA Topped ==
    ASSUME TypeOK, DiskInv, Bounded
    PROVE  /\ ToppedPool \in [Index -> Keys \cup {NoKey}]
           /\ ToppedGenerated \in 0..MaxKeys
           /\ generated <= ToppedGenerated
           /\ ToppedSet \in SUBSET Index
           /\ ToppedOverwritten \in BOOLEAN
           /\ \A i \in Index : \/ ToppedPool[i] = pool[i]
                               \/ generated < ToppedPool[i]
           /\ \A i, j \in Index :
                ToppedPool[i] # NoKey /\ ToppedPool[i] = ToppedPool[j] => i = j
           /\ \A i \in Index : ToppedPool[i] <= ToppedGenerated
           /\ \A i \in ToppedSet : i \in setKeyPool \/ ToppedPool[i] # NoKey
           /\ \A i \in Index : pool[i] # NoKey => ToppedPool[i] # NoKey
           /\ ~ToppedOverwritten =>
                /\ ~overwritten
                /\ \A i \in Index : pool[i] # NoKey /\ i \notin setKeyPool =>
                       ToppedPool[i] = pool[i] /\ i \notin ToppedSet
<1>1. CASE locked
  BY <1>1 DEF TypeOK, DiskInv, ToppedPool, ToppedGenerated, ToppedSet,
     ToppedOverwritten, Keys, Index
<1>2. CASE ~locked
  <2> DEFINE L == Largest(setKeyPool)
             D == Deficit(setKeyPool)
             New == NewIndices(setKeyPool)
  <2>1. setKeyPool \in SUBSET Index
    BY DEF TypeOK
  <2>2. L \in Nat /\ D \in Nat
    BY <2>1, LargestBound, DeficitNat, MaxKeysAssumption
  <2>3. New = (L + 1)..(L + D)
    BY DEF NewIndices
  <2>4. /\ ToppedSet = setKeyPool \cup New
        /\ ToppedGenerated = generated + D
        /\ ToppedPool = [i \in Index |->
                IF i \in New THEN generated + 1 + (i - (L + 1)) ELSE pool[i]]
        /\ ToppedOverwritten = (overwritten \/ \E i \in New \cap Index :
                                                   pool[i] # NoKey)
    BY <1>2 DEF ToppedSet, ToppedGenerated, ToppedPool, ToppedOverwritten,
       Written
  <2>5. generated + D <= MaxKeys /\ ToppedSet \in SUBSET Index
    BY <2>4 DEF Bounded
  <2> HIDE DEF L, D, New
  <2>6. /\ generated \in Nat
        /\ \A i \in Index : pool[i] \in 0..generated /\ i \in Nat
    BY MaxKeysAssumption DEF TypeOK, DiskInv, Keys, Index, NoKey
  <2>7. \A i \in New : i \in Int /\ L + 1 <= i /\ i <= L + D
    BY <2>2, <2>3
  <2>8. \A i \in Index : i \in New =>
            /\ ToppedPool[i] = generated + (i - L)
            /\ ToppedPool[i] \in (generated + 1)..(generated + D)
    BY <2>2, <2>4, <2>6, <2>7
  <2>9. \A i \in Index : i \notin New => ToppedPool[i] = pool[i]
    BY <2>4
  <2>10. ToppedPool \in [Index -> Keys \cup {NoKey}]
    <3>1. \A i \in Index : ToppedPool[i] \in 0..MaxKeys
      BY <2>2, <2>5, <2>6, <2>8, <2>9, MaxKeysAssumption
    <3>2. Keys \cup {NoKey} = 0..MaxKeys
      BY MaxKeysAssumption DEF Keys, NoKey
    <3>3. DOMAIN ToppedPool = Index /\ ToppedPool =
            [i \in Index |-> ToppedPool[i]]
      BY <2>4
    <3> QED
      BY <3>1, <3>2, <3>3
  <2>11. \A i, j \in Index :
            ToppedPool[i] # NoKey /\ ToppedPool[i] = ToppedPool[j] => i = j
    <3> TAKE i, j \in Index
    <3> HAVE ToppedPool[i] # NoKey /\ ToppedPool[i] = ToppedPool[j]
    <3>1. CASE i \in New /\ j \in New
      BY <3>1, <2>2, <2>6, <2>8
    <3>2. CASE i \notin New /\ j \notin New
      BY <3>2, <2>9 DEF DiskInv
    <3>3. CASE (i \in New) # (j \in New)
      BY <3>3, <2>2, <2>6, <2>8, <2>9
    <3> QED
      BY <3>1, <3>2, <3>3
  <2>12. ToppedOverwritten \in BOOLEAN
    BY <2>4 DEF TypeOK
  <2>13. ToppedGenerated \in 0..MaxKeys /\ generated <= ToppedGenerated
    BY <2>2, <2>4, <2>5, <2>6, MaxKeysAssumption
  <2>14. \A i \in Index : \/ ToppedPool[i] = pool[i]
                          \/ generated < ToppedPool[i]
    BY <2>2, <2>6, <2>8, <2>9
  <2>15. \A i \in Index : ToppedPool[i] <= ToppedGenerated
    BY <2>2, <2>4, <2>6, <2>8, <2>9
  <2>16. \A i \in Index : i \in New => ToppedPool[i] # NoKey
    BY <2>2, <2>6, <2>8 DEF NoKey
  <2>17. \A i \in ToppedSet : i \in setKeyPool \/ ToppedPool[i] # NoKey
    BY <2>4, <2>5, <2>16
  <2>18. \A i \in Index : pool[i] # NoKey => ToppedPool[i] # NoKey
    BY <2>9, <2>16
  <2>19. ~ToppedOverwritten =>
                /\ ~overwritten
                /\ \A i \in Index : pool[i] # NoKey /\ i \notin setKeyPool =>
                       ToppedPool[i] = pool[i] /\ i \notin ToppedSet
    BY <2>4, <2>9
  <2> QED
    BY <2>5, <2>10, <2>11, <2>12, <2>13, <2>14, <2>15, <2>17, <2>18, <2>19
<1> QED
  BY <1>1, <1>2

-----------------------------------------------------------------------------
(* Type correctness and UsedKeyLeavesDisk *)

\* The type and the disk's part hold at the start.
LEMMA InitInv == Init => TypeOK /\ DiskInv
<1> SUFFICES ASSUME Init PROVE TypeOK /\ DiskInv
  OBVIOUS
<1>3. /\ generated \in 0..MaxKeys
      /\ Free \in [idx : Index \cup {NoIndex},
                  key : Keys \cup {NoKey, DefaultKey}]
  BY MaxKeysAssumption DEF Init, Free
<1>4. pool \in [Index -> Keys \cup {NoKey}] /\ uses \in [Keys -> Nat]
  BY DEF Init
<1>1. TypeOK
  BY <1>3, <1>4 DEF Init, TypeOK
<1>2. DiskInv
  BY MaxKeysAssumption DEF Init, DiskInv, UsedKeyLeavesDisk, Free, Keys,
     Index, NoKey, NoIndex
<1> QED
  BY <1>1, <1>2

\* Every step of the pool keeps its variables in their types and every used key
\* off the disk.
LEMMA NextInv == TypeOK /\ DiskInv /\ [Next]_vars => TypeOK' /\ DiskInv'
<1> SUFFICES ASSUME TypeOK, DiskInv, [Next]_vars
             PROVE  TypeOK' /\ DiskInv'
  OBVIOUS
<1> USE MaxKeysAssumption DEF NoKey, NoIndex, DefaultKey
<1>0. /\ generated \in 0..MaxKeys
      /\ \A i \in Index : pool[i] \in 0..generated
      /\ \A h \in Holders : /\ held[h].key \in Int /\ held[h].key <= generated
                            /\ held[h].idx \in Index \cup {-1}
  BY DEF TypeOK, DiskInv, Keys
<1>t. Bounded => /\ ToppedPool \in [Index -> Keys \cup {NoKey}]
                 /\ ToppedGenerated \in 0..MaxKeys
                 /\ generated <= ToppedGenerated
                 /\ ToppedSet \in SUBSET Index
                 /\ ToppedOverwritten \in BOOLEAN
                 /\ \A i \in Index : ToppedPool[i] = pool[i]
                                     \/ generated < ToppedPool[i]
                 /\ \A i, j \in Index : ToppedPool[i] # NoKey
                        /\ ToppedPool[i] = ToppedPool[j] => i = j
                 /\ \A i \in Index : ToppedPool[i] <= ToppedGenerated
  BY Topped
<1>s. Bounded /\ ToppedSet # {} => Smallest(ToppedSet) \in Index
  BY <1>t, SmallestIn
\* No key of the topped-up pool has been used.
<1>u. Bounded => \A i \in Index : ToppedPool[i] # NoKey =>
                    ToppedPool[i] \in Keys /\ uses[ToppedPool[i]] = 0
  <2> SUFFICES ASSUME Bounded, NEW i \in Index, ToppedPool[i] # NoKey
               PROVE  ToppedPool[i] \in Keys /\ uses[ToppedPool[i]] = 0
    OBVIOUS
  <2>1. ToppedPool[i] \in Keys
    BY <1>t
  <2>2. CASE ToppedPool[i] = pool[i]
    BY <2>1, <2>2 DEF DiskInv, UsedKeyLeavesDisk
  <2>3. CASE generated < ToppedPool[i]
    BY <2>1, <2>3, <1>0 DEF DiskInv, Keys
  <2> QED
    BY <2>1, <2>2, <2>3, <1>t
\* Holders' keys keep their index in the topped-up pool.
<1>h. Bounded => \A h \in Holders, i \in Index :
                    held[h].key \in Keys /\ ToppedPool[i] = held[h].key
                        => i = held[h].idx
  BY <1>t, <1>0 DEF DiskInv, Keys
<1>1. CASE TopUpKeyPool
  <2>1. TypeOK'
    BY <1>1, <1>t DEF TopUpKeyPool, TypeOK
  <2>2. DiskInv'
    BY <1>1, <1>t, <1>u, <1>h, <1>0
    DEF TopUpKeyPool, TypeOK, DiskInv, UsedKeyLeavesDisk, Keys
  <2> QED
    BY <2>1, <2>2
<1>2. ASSUME NEW h \in Holders, GetReservedKey(h)
      PROVE  TypeOK' /\ DiskInv'
  <2> DEFINE m == Smallest(ToppedSet)
             r == IF ToppedSet = {} THEN [idx |-> NoIndex, key |-> DefaultKey]
                  ELSE [idx |-> m, key |-> ToppedPool[m]]
  <2>1. /\ Bounded
        /\ setKeyPool' \in SUBSET Index
        /\ generated' = ToppedGenerated /\ overwritten' = ToppedOverwritten
        /\ pool' = ToppedPool /\ held' = [held EXCEPT ![h] = r]
    BY <1>2, <1>t DEF GetReservedKey, Reserve
  <2>2. r \in [idx : Index \cup {NoIndex}, key : Keys \cup {NoKey, DefaultKey}]
    BY <2>1, <1>t, <1>s
  <2>3. /\ r.key <= ToppedGenerated
        /\ r.key \in Keys =>
              /\ r.idx \in Index
              /\ \A i \in Index : ToppedPool[i] = r.key => i = r.idx
    BY <2>1, <1>t, <1>s DEF Keys
  <2>4. \A g \in Holders : held'[g] = IF g = h THEN r ELSE held[g]
    BY <2>1 DEF TypeOK
  <2>5. UNCHANGED <<peek, crypted, locked, fShutdown, uses>>
    BY <1>2 DEF GetReservedKey
  <2> HIDE DEF r, m
  <2>6. TypeOK'
    BY <2>1, <2>2, <2>5, <1>t DEF TypeOK
  <2>7. DiskInv'
    BY <2>1, <2>3, <2>4, <2>5, <1>t, <1>u, <1>h, <1>0
    DEF TypeOK, DiskInv, UsedKeyLeavesDisk, Keys
  <2> QED
    BY <2>6, <2>7
<1>3. ASSUME NEW h \in Holders, KeepKey(h)
      PROVE  TypeOK' /\ DiskInv'
  <2>1. \A i \in Index : pool'[i] = IF i = held[h].idx THEN NoKey ELSE pool[i]
    BY <1>3, <1>0 DEF KeepKey, Erased, TypeOK
  <2>2. \A k \in Keys : uses'[k] = IF k = held[h].key THEN uses[k] + 1
                                                       ELSE uses[k]
    BY <1>3 DEF KeepKey, Used, TypeOK
  <2>3. \A g \in Holders : held'[g] = IF g = h THEN Free ELSE held[g]
    BY <1>3 DEF KeepKey, TypeOK
  <2>4. TypeOK'
    BY <1>3, <1>0 DEF KeepKey, Erased, Used, Free, TypeOK
  <2>5. UNCHANGED <<setKeyPool, generated, peek, crypted, locked, fShutdown,
                    overwritten>>
    BY <1>3 DEF KeepKey
  <2>6. UsedKeyLeavesDisk'
    <3> SUFFICES ASSUME NEW i \in Index, pool'[i] # NoKey
                 PROVE  uses'[pool'[i]] = 0
      BY DEF UsedKeyLeavesDisk
    <3>1. pool'[i] = pool[i] /\ i # held[h].idx /\ pool[i] \in Keys
      BY <2>1 DEF TypeOK
    <3>2. pool[i] # held[h].key
      BY <3>1 DEF DiskInv
    <3> QED
      BY <3>1, <3>2, <2>2 DEF DiskInv, UsedKeyLeavesDisk
  <2>7. \A k \in Keys : uses'[k] # 0 => k <= generated
    BY <2>2, <1>0 DEF DiskInv, TypeOK
  <2> QED
    BY <2>1, <2>3, <2>4, <2>5, <2>6, <2>7, <1>0 DEF DiskInv, Free, Keys
<1>4. ASSUME NEW h \in Holders, ReturnKey(h)
      PROVE  TypeOK' /\ DiskInv'
  <2>1. \A g \in Holders : held'[g] = IF g = h THEN Free ELSE held[g]
    BY <1>4 DEF ReturnKey, TypeOK
  <2>2. TypeOK'
    BY <1>4, <1>0 DEF ReturnKey, Free, TypeOK
  <2> QED
    BY <1>4, <2>1, <2>2, <1>0
    DEF ReturnKey, DiskInv, UsedKeyLeavesDisk, Free, Keys
<1>5. CASE GetKeyFromPool
  <2> DEFINE m == Smallest(ToppedSet)
  <2>1. /\ Bounded
        /\ setKeyPool' \in SUBSET Index
        /\ generated' = ToppedGenerated /\ overwritten' = ToppedOverwritten
        /\ UNCHANGED <<held, peek, crypted, locked, fShutdown>>
    BY <1>5, <1>t DEF GetKeyFromPool, Reserve
  <2>2. CASE ToppedSet = {}
    <3>1. UNCHANGED <<pool, uses>>
      BY <1>5, <2>2 DEF GetKeyFromPool
    <3> QED
      BY <3>1, <2>1, <1>t, <1>0
      DEF TypeOK, DiskInv, UsedKeyLeavesDisk, Keys
  <2>3. CASE ToppedSet # {}
    <3>1. /\ m \in Index
          /\ pool' = [ToppedPool EXCEPT ![m] = NoKey]
          /\ uses' = Used(ToppedPool[m])
      BY <1>5, <2>1, <2>3, <1>s DEF GetKeyFromPool
    <3> HIDE DEF m
    <3>2. \A i \in Index : pool'[i] = IF i = m THEN NoKey ELSE ToppedPool[i]
      BY <3>1, <2>1, <1>t
    <3>3. \A k \in Keys : uses'[k] = IF k = ToppedPool[m] THEN uses[k] + 1
                                                          ELSE uses[k]
      BY <3>1 DEF Used, TypeOK
    <3>4. TypeOK'
      BY <3>1, <2>1, <1>t DEF TypeOK, Used
    <3>5. UsedKeyLeavesDisk'
      <4> SUFFICES ASSUME NEW i \in Index, pool'[i] # NoKey
                   PROVE  uses'[pool'[i]] = 0
        BY DEF UsedKeyLeavesDisk
      <4>1. pool'[i] = ToppedPool[i] /\ i # m
        BY <3>2
      <4>2. ToppedPool[i] \in Keys /\ uses[ToppedPool[i]] = 0
        BY <4>1, <2>1, <1>u
      <4>3. ToppedPool[i] # ToppedPool[m]
        BY <4>1, <4>2, <3>1, <2>1, <1>t
      <4> QED
        BY <4>1, <4>2, <4>3, <3>3
    <3>6. \A k \in Keys : uses'[k] # 0 => k <= generated'
      BY <3>1, <3>3, <2>1, <1>t, <1>0 DEF DiskInv, TypeOK, Keys
    <3>7. \A i, j \in Index : pool'[i] # NoKey /\ pool'[i] = pool'[j] => i = j
      BY <3>2, <2>1, <1>t
    <3>8. /\ \A i \in Index : pool'[i] <= generated'
          /\ \A g \in Holders : held'[g].key <= generated'
      BY <3>2, <2>1, <1>t, <1>0
    <3>9. \A g \in Holders : held'[g].key \in Keys =>
             /\ held'[g].idx \in Index
             /\ \A i \in Index : pool'[i] = held'[g].key => i = held'[g].idx
      BY <3>2, <2>1, <1>h DEF DiskInv, Keys
    <3> QED
      BY <3>4, <3>5, <3>6, <3>7, <3>8, <3>9 DEF DiskInv
  <2> QED
    BY <2>2, <2>3
<1>6. CASE PeekOldest
  <2>1. TypeOK'
    BY <1>6, <1>t, <1>s DEF PeekOldest, Reserve, TypeOK
  <2>2. DiskInv'
    BY <1>6, <1>t, <1>u, <1>h, <1>0
    DEF PeekOldest, Reserve, TypeOK, DiskInv, UsedKeyLeavesDisk, Keys
  <2> QED
    BY <2>1, <2>2
<1>7. CASE PeekReturn
  BY <1>7 DEF PeekReturn, TypeOK, DiskInv, UsedKeyLeavesDisk
<1>8. CASE EncryptWallet
  <2> DEFINE T == 1..Target
  <2>0. T \in SUBSET Index /\ T \subseteq Nat /\ generated + Target \in 0..MaxKeys
    BY <1>8, <1>0, TargetAssumption DEF EncryptWallet, Index
  <2>1. \A i \in Index : pool'[i] = IF i \in T THEN generated + i
                                    ELSE IF i \in setKeyPool THEN NoKey
                                    ELSE pool[i]
    BY <1>8 DEF EncryptWallet
  <2>2. \A i \in Index : i \in T =>
            pool'[i] \in (generated + 1)..(generated + Target)
    BY <2>0, <2>1, <1>0, TargetAssumption
  <2>3. \A i \in Index : pool'[i] \in 0..MaxKeys
    BY <2>0, <2>1, <2>2, <1>0, TargetAssumption
  <2>4. /\ DOMAIN pool' = Index /\ pool' = [i \in Index |-> pool'[i]]
        /\ 0..MaxKeys = Keys \cup {NoKey}
    BY <1>8 DEF EncryptWallet, Keys
  <2>5. pool' \in [Index -> Keys \cup {NoKey}]
    BY <2>3, <2>4
  <2>6. /\ setKeyPool' = T /\ generated' = generated + Target
        /\ crypted' = TRUE /\ locked' = TRUE
        /\ overwritten' \in BOOLEAN
        /\ UNCHANGED <<held, peek, fShutdown, uses>>
    BY <1>8 DEF EncryptWallet, TypeOK
  <2>8. TypeOK'
    BY <2>0, <2>5, <2>6 DEF TypeOK
  <2>9. \A i, j \in Index : pool'[i] # NoKey /\ pool'[i] = pool'[j] => i = j
    <3> TAKE i, j \in Index
    <3> HAVE pool'[i] # NoKey /\ pool'[i] = pool'[j]
    <3>1. CASE i \in T /\ j \in T
      BY <3>1, <2>0, <2>1, <1>0
    <3>2. CASE i \notin T /\ j \notin T
      BY <3>2, <2>1 DEF DiskInv
    <3>3. CASE (i \in T) # (j \in T)
      BY <3>3, <2>1, <2>2, <1>0, TargetAssumption
    <3> QED
      BY <3>1, <3>2, <3>3
  <2>10. /\ \A i \in Index : pool'[i] <= generated'
         /\ \A h \in Holders : held'[h].key <= generated'
         /\ \A k \in Keys : uses'[k] # 0 => k <= generated'
    <3>1. generated <= generated' /\ generated' \in Int
      BY <2>6, <1>0, TargetAssumption
    <3> QED
      BY <3>1, <2>1, <2>2, <2>6, <1>0, TargetAssumption DEF DiskInv, Keys
  <2>11. \A h \in Holders : held'[h].key \in Keys =>
            /\ held'[h].idx \in Index
            /\ \A i \in Index : pool'[i] = held'[h].key => i = held'[h].idx
    BY <2>1, <2>2, <2>6, <1>0, TargetAssumption DEF DiskInv, Keys
  <2>12. UsedKeyLeavesDisk'
    <3> SUFFICES ASSUME NEW i \in Index, pool'[i] # NoKey
                 PROVE  uses[pool'[i]] = 0
      BY <2>6 DEF UsedKeyLeavesDisk
    <3>1. CASE i \in T
      <4>1. pool'[i] \in Keys /\ ~ (pool'[i] <= generated)
        BY <3>1, <2>2, <2>5, <1>0, TargetAssumption
      <4> QED
        BY <4>1 DEF DiskInv
    <3>2. CASE i \notin T
      BY <3>2, <2>1 DEF DiskInv, UsedKeyLeavesDisk
    <3> QED
      BY <3>1, <3>2
  <2> QED
    BY <2>8, <2>9, <2>10, <2>11, <2>12 DEF DiskInv
<1>9. CASE Unlock
  BY <1>9 DEF Unlock, TypeOK, DiskInv, UsedKeyLeavesDisk
<1>10. CASE Lock
  BY <1>10 DEF Lock, TypeOK, DiskInv, UsedKeyLeavesDisk
<1>11. CASE StartShutdown
  BY <1>11 DEF StartShutdown, TypeOK, DiskInv, UsedKeyLeavesDisk
<1>12. CASE Restart
  <2>1. \A h \in Holders : held'[h] = Free
    BY <1>12 DEF Restart
  <2>2. TypeOK'
    BY <1>12 DEF Restart, TypeOK, Free
  <2>3. DiskInv'
    BY <1>12, <2>1, <1>0 DEF Restart, DiskInv, UsedKeyLeavesDisk, Free, Keys
  <2> QED
    BY <2>2, <2>3
<1>13. CASE UNCHANGED vars
  BY <1>13 DEF vars, TypeOK, DiskInv, UsedKeyLeavesDisk
<1> QED
  BY <1>1, <1>2, <1>3, <1>4, <1>5, <1>6, <1>7, <1>8, <1>9, <1>10, <1>11,
     <1>12, <1>13 DEF Next

\* The variables of the key pool have their types in every behaviour.
THEOREM KeyPoolType == Spec => []TypeOK
<1>1. Spec => [](TypeOK /\ DiskInv)
  BY InitInv, NextInv, PTL DEF Spec
<1> QED
  BY <1>1, PTL

\* wallet.cpp, KeepKey(): whatever the holders, restarts and encryption do, a
\* key that was put to use has no record on disk.
THEOREM UsedKeysAreErased == Spec => []UsedKeyLeavesDisk
<1>1. Spec => [](TypeOK /\ DiskInv)
  BY InitInv, NextInv, PTL DEF Spec
<1>2. DiskInv => UsedKeyLeavesDisk
  BY DEF DiskInv
<1> QED
  BY <1>1, <1>2, PTL

-----------------------------------------------------------------------------
(* One owner per key *)

\* Every step keeps one owner per index and one use per key, unless it (or an
\* earlier one) writes over a record still needed.
LEMMA OwnerStep ==
    TypeOK /\ DiskInv /\ OwnerInv /\ [Next]_vars => OwnerInv'
<1> SUFFICES ASSUME TypeOK, DiskInv, OwnerInv, [Next]_vars
             PROVE  OwnerInv'
  OBVIOUS
<1> SUFFICES ASSUME ~overwritten'
             PROVE  Consistent' /\ \A k \in Keys : uses'[k] <= 1
  BY DEF OwnerInv, OwnedOnce, KeyUsedOnceUnlessOverwritten
<1> USE MaxKeysAssumption DEF NoKey, NoIndex, DefaultKey
<1>0. ~overwritten
  BY DEF Next, vars, TopUpKeyPool, GetReservedKey, Reserve, ToppedOverwritten,
     KeepKey, ReturnKey, GetKeyFromPool, PeekOldest, PeekReturn, EncryptWallet,
     Unlock, Lock, StartShutdown, Restart
<1>c. Consistent /\ \A k \in Keys : uses[k] <= 1
  BY <1>0 DEF OwnerInv, OwnedOnce, KeyUsedOnceUnlessOverwritten
<1>i. -1 \notin Index /\ 0 \notin Index /\ 0 \notin Keys
  BY DEF Index, Keys
\* What the holders and the peek own, in the state before the step.
<1>o. /\ \A h \in Holders : held[h].idx # NoIndex =>
           held[h].idx \in Index /\ pool[held[h].idx] # NoKey
      /\ peek # NoIndex => peek \in Index /\ pool[peek] # NoKey
  BY <1>c DEF Consistent, TypeOK
\* The same after TopUpKeyPool() has written no record still needed.
<1>t. Bounded /\ ~ToppedOverwritten =>
        /\ ToppedSet \in SUBSET Index
        /\ \A i \in ToppedSet : ToppedPool[i] # NoKey
        /\ \A h \in Holders : held[h].idx # NoIndex =>
             /\ ToppedPool[held[h].idx] = pool[held[h].idx]
             /\ held[h].idx \notin ToppedSet
        /\ peek # NoIndex =>
             /\ ToppedPool[peek] = pool[peek]
             /\ peek \notin ToppedSet
  <2> SUFFICES ASSUME Bounded, ~ToppedOverwritten
               PROVE  /\ ToppedSet \in SUBSET Index
                      /\ \A i \in ToppedSet : ToppedPool[i] # NoKey
                      /\ \A h \in Holders : held[h].idx # NoIndex =>
                           /\ ToppedPool[held[h].idx] = pool[held[h].idx]
                           /\ held[h].idx \notin ToppedSet
                      /\ peek # NoIndex =>
                           /\ ToppedPool[peek] = pool[peek]
                           /\ peek \notin ToppedSet
    OBVIOUS
  <2>1. /\ ToppedSet \in SUBSET Index
        /\ \A i \in ToppedSet : i \in setKeyPool \/ ToppedPool[i] # NoKey
        /\ \A i \in Index : pool[i] # NoKey => ToppedPool[i] # NoKey
        /\ \A i \in Index : pool[i] # NoKey /\ i \notin setKeyPool =>
               ToppedPool[i] = pool[i] /\ i \notin ToppedSet
    BY Topped
  <2>2. \A i \in ToppedSet : ToppedPool[i] # NoKey
    BY <2>1, <1>c DEF Consistent
  <2>3. \A h \in Holders : held[h].idx # NoIndex => held[h].idx \notin setKeyPool
    BY <1>c DEF Consistent
  <2>4. peek # NoIndex => peek \notin setKeyPool
    BY <1>c DEF Consistent
  <2> QED
    BY <2>1, <2>2, <2>3, <2>4, <1>o
<1>s. Bounded /\ ToppedSet # {} => Smallest(ToppedSet) \in ToppedSet
  BY Topped, SmallestIn
<1>1. CASE TopUpKeyPool
  <2>1. Bounded /\ ~ToppedOverwritten
    BY <1>1 DEF TopUpKeyPool
  <2>2. /\ setKeyPool' = ToppedSet /\ pool' = ToppedPool
        /\ UNCHANGED <<held, peek, uses>>
    BY <1>1 DEF TopUpKeyPool
  <2> QED
    BY <2>1, <2>2, <1>t, <1>c DEF Consistent
<1>2. ASSUME NEW h \in Holders, GetReservedKey(h)
      PROVE  Consistent' /\ \A k \in Keys : uses'[k] <= 1
  <2> DEFINE m == Smallest(ToppedSet)
  <2>1. Bounded /\ ~ToppedOverwritten
    BY <1>2 DEF GetReservedKey, Reserve
  <2>2. /\ setKeyPool' = IF ToppedSet = {} THEN {} ELSE ToppedSet \ {m}
        /\ pool' = ToppedPool /\ UNCHANGED <<peek, uses>>
    BY <1>2 DEF GetReservedKey, Reserve
  <2>3. \A g \in Holders : held'[g] =
            IF g # h THEN held[g]
            ELSE IF ToppedSet = {} THEN [idx |-> NoIndex, key |-> DefaultKey]
            ELSE [idx |-> m, key |-> ToppedPool[m]]
    BY <1>2 DEF GetReservedKey, TypeOK
  <2>4. ToppedSet # {} => /\ m \in ToppedSet /\ m \in Index
                          /\ ToppedPool[m] # NoKey
    BY <2>1, <1>s, <1>t
  <2> HIDE DEF m
  <2>5. \A i \in setKeyPool' : pool'[i] # NoKey
    BY <2>1, <2>2, <1>t
  <2>6. peek' # NoIndex => peek' \notin setKeyPool' /\ pool'[peek'] # NoKey
    BY <2>1, <2>2, <1>t, <1>o
  <2>7. ASSUME NEW f \in Holders, held'[f].idx # NoIndex
        PROVE  /\ held'[f].idx \notin setKeyPool'
               /\ held'[f].key = pool'[held'[f].idx]
               /\ held'[f].key # NoKey
               /\ held'[f].idx # peek'
               /\ \A g \in Holders \ {f} : held'[g].idx # held'[f].idx
    <3>1. CASE f = h
      <4>1. ToppedSet # {} /\ held'[f] = [idx |-> m, key |-> ToppedPool[m]]
        BY <2>3, <2>7, <3>1
      <4>2. \A g \in Holders \ {f} : held'[g] = held[g]
        BY <2>3, <3>1
      <4> QED
        BY <4>1, <4>2, <2>1, <2>2, <2>4, <1>t, <1>i
    <3>2. CASE f # h
      <4>1. held'[f] = held[f] /\ held[f].idx # NoIndex
        BY <2>3, <2>7, <3>2
      <4>2. held[f].idx \notin ToppedSet
        BY <4>1, <2>1, <1>t
      <4>3. \A g \in Holders \ {f} : held'[g].idx # held'[f].idx
        <5> TAKE g \in Holders \ {f}
        <5>1. CASE g = h
          BY <5>1, <4>1, <4>2, <2>3, <2>4
        <5>2. CASE g # h
          BY <5>2, <4>1, <2>3, <1>c DEF Consistent
        <5> QED
          BY <5>1, <5>2
      <4> QED
        BY <4>1, <4>2, <4>3, <2>1, <2>2, <1>t, <1>c DEF Consistent
    <3> QED
      BY <3>1, <3>2
  <2>8. \A k \in Keys : uses'[k] <= 1
    BY <2>2, <1>c
  <2> QED
    BY <2>5, <2>6, <2>7, <2>8 DEF Consistent
<1>3. ASSUME NEW h \in Holders, KeepKey(h)
      PROVE  Consistent' /\ \A k \in Keys : uses'[k] <= 1
  <2>1. \A i \in Index : pool'[i] = IF i = held[h].idx THEN NoKey ELSE pool[i]
    BY <1>3, <1>i DEF KeepKey, Erased, TypeOK
  <2>2. \A k \in Keys : uses'[k] = IF k = held[h].key THEN uses[k] + 1
                                                       ELSE uses[k]
    BY <1>3 DEF KeepKey, Used, TypeOK
  <2>3. \A g \in Holders : held'[g] = IF g = h THEN Free ELSE held[g]
    BY <1>3 DEF KeepKey, TypeOK
  <2>4. UNCHANGED <<setKeyPool, peek>>
    BY <1>3 DEF KeepKey
  <2>5. held[h].key \in Keys => uses[held[h].key] = 0
    <3> HAVE held[h].key \in Keys
    <3>1. held[h].idx \in Index
      BY DEF DiskInv
    <3>2. held[h].key = pool[held[h].idx] /\ held[h].key # NoKey
      BY <3>1, <1>i, <1>c DEF Consistent
    <3> QED
      BY <3>1, <3>2 DEF DiskInv, UsedKeyLeavesDisk
  <2>6. \A k \in Keys : uses'[k] <= 1
    BY <2>2, <2>5, <1>c DEF TypeOK
  <2>7. \A i \in setKeyPool : i \in Index /\ i # held[h].idx
    BY <1>c, <1>i DEF Consistent, TypeOK
  <2>8. \A i \in setKeyPool' : pool'[i] # NoKey
    BY <2>1, <2>4, <2>7, <1>c DEF Consistent
  <2>9. peek' # NoIndex => peek' \notin setKeyPool' /\ pool'[peek'] # NoKey
    BY <2>1, <2>4, <1>o, <1>c DEF Consistent
  <2>10. ASSUME NEW f \in Holders, held'[f].idx # NoIndex
         PROVE  /\ held'[f].idx \notin setKeyPool'
                /\ held'[f].key = pool'[held'[f].idx]
                /\ held'[f].key # NoKey
                /\ held'[f].idx # peek'
                /\ \A g \in Holders \ {f} : held'[g].idx # held'[f].idx
    <3>1. f # h /\ held'[f] = held[f]
      BY <2>3, <2>10 DEF Free
    <3>2. held[f].idx # held[h].idx /\ held[f].idx \in Index
      BY <3>1, <2>10, <1>o, <1>c DEF Consistent
    <3>3. \A g \in Holders \ {f} : held'[g].idx # held'[f].idx
      BY <3>1, <3>2, <2>3, <2>10, <1>i, <1>c DEF Consistent, Free
    <3> QED
      BY <3>1, <3>2, <3>3, <2>1, <2>4, <2>10, <1>c DEF Consistent
  <2> QED
    BY <2>6, <2>8, <2>9, <2>10 DEF Consistent
<1>4. ASSUME NEW h \in Holders, ReturnKey(h)
      PROVE  Consistent' /\ \A k \in Keys : uses'[k] <= 1
  <2>1. \A g \in Holders : held'[g] = IF g = h THEN Free ELSE held[g]
    BY <1>4 DEF ReturnKey, TypeOK
  <2>2. UNCHANGED <<pool, peek, uses>>
    BY <1>4 DEF ReturnKey
  <2>3. \/ setKeyPool' = setKeyPool
        \/ /\ held[h].idx # NoIndex
           /\ setKeyPool' = setKeyPool \cup {held[h].idx}
    BY <1>4 DEF ReturnKey
  <2>4. \A i \in setKeyPool' : pool'[i] # NoKey
    BY <2>2, <2>3, <1>o, <1>c DEF Consistent
  <2>5. peek' # NoIndex => peek' \notin setKeyPool' /\ pool'[peek'] # NoKey
    BY <2>2, <2>3, <1>c DEF Consistent
  <2>6. ASSUME NEW f \in Holders, held'[f].idx # NoIndex
        PROVE  /\ held'[f].idx \notin setKeyPool'
               /\ held'[f].key = pool'[held'[f].idx]
               /\ held'[f].key # NoKey
               /\ held'[f].idx # peek'
               /\ \A g \in Holders \ {f} : held'[g].idx # held'[f].idx
    <3>1. f # h /\ held'[f] = held[f]
      BY <2>1, <2>6 DEF Free
    <3>2. held[f].idx # held[h].idx
      BY <3>1, <2>6, <1>c DEF Consistent
    <3>3. \A g \in Holders \ {f} : held'[g].idx # held'[f].idx
      BY <3>1, <2>1, <2>6, <1>c DEF Consistent, Free
    <3> QED
      BY <3>1, <3>2, <3>3, <2>2, <2>3, <2>6, <1>c DEF Consistent
  <2> QED
    BY <2>2, <2>4, <2>5, <2>6, <1>c DEF Consistent
<1>5. CASE GetKeyFromPool
  <2> DEFINE m == Smallest(ToppedSet)
  <2>1. /\ Bounded /\ ~ToppedOverwritten
        /\ setKeyPool' = IF ToppedSet = {} THEN {} ELSE ToppedSet \ {m}
        /\ UNCHANGED <<held, peek>>
    BY <1>5 DEF GetKeyFromPool, Reserve
  <2>2. CASE ToppedSet = {}
    <3>1. UNCHANGED <<pool, uses>> /\ setKeyPool' = {}
      BY <1>5, <2>1, <2>2 DEF GetKeyFromPool
    <3> QED
      BY <3>1, <2>1, <1>c DEF Consistent
  <2>3. CASE ToppedSet # {}
    <3>1. /\ m \in ToppedSet /\ m \in Index
          /\ pool' = [ToppedPool EXCEPT ![m] = NoKey]
          /\ uses' = Used(ToppedPool[m])
      BY <1>5, <2>1, <2>3, <1>s, <1>t DEF GetKeyFromPool
    <3> HIDE DEF m
    <3>t. ToppedPool \in [Index -> Keys \cup {NoKey}]
      BY <2>1, Topped
    <3>2. \A i \in Index : pool'[i] = IF i = m THEN NoKey ELSE ToppedPool[i]
      BY <3>1, <3>t
    <3>3. \A k \in Keys : uses'[k] = IF k = ToppedPool[m] THEN uses[k] + 1
                                                          ELSE uses[k]
      BY <3>1 DEF Used, TypeOK
    <3>4. ToppedPool[m] \in Keys => uses[ToppedPool[m]] = 0
      <4> HAVE ToppedPool[m] \in Keys
      <4>1. ToppedPool[m] = pool[m] \/ generated < ToppedPool[m]
        BY <2>1, <3>1, Topped
      <4>2. CASE ToppedPool[m] = pool[m]
        BY <3>1, <4>2, <1>i DEF DiskInv, UsedKeyLeavesDisk
      <4>3. CASE generated < ToppedPool[m]
        <5>1. ~ (ToppedPool[m] <= generated)
          BY <4>3 DEF TypeOK, Keys
        <5> QED
          BY <5>1 DEF DiskInv
      <4> QED
        BY <4>1, <4>2, <4>3
    <3>5. \A k \in Keys : uses'[k] <= 1
      BY <3>3, <3>4, <1>c DEF TypeOK
    <3>6. \A i \in setKeyPool' : pool'[i] # NoKey
      BY <3>2, <2>1, <2>3, <1>t
    <3>7. \A h \in Holders : held[h].idx # NoIndex =>
             held[h].idx # m /\ pool'[held[h].idx] = pool[held[h].idx]
      BY <3>1, <3>2, <2>1, <1>t, <1>o
    <3>8. peek # NoIndex => peek # m /\ pool'[peek] = pool[peek]
      BY <3>1, <3>2, <2>1, <1>t, <1>o
    <3>9. /\ \A h \in Holders : held[h].idx # NoIndex =>
                 held[h].idx \notin setKeyPool'
          /\ peek # NoIndex => peek \notin setKeyPool'
      BY <2>1, <2>3, <1>t
    <3> QED
      BY <3>5, <3>6, <3>7, <3>8, <3>9, <2>1, <1>c DEF Consistent
  <2> QED
    BY <2>2, <2>3
<1>6. CASE PeekOldest
  <2> DEFINE m == Smallest(ToppedSet)
  <2>1. /\ Bounded /\ ~ToppedOverwritten
        /\ setKeyPool' = IF ToppedSet = {} THEN {} ELSE ToppedSet \ {m}
        /\ pool' = ToppedPool
        /\ UNCHANGED <<held, uses>>
        /\ peek' \in {NoIndex, m}
        /\ peek' = m => ToppedSet # {} \/ m = NoIndex
        /\ peek = NoIndex
    BY <1>6 DEF PeekOldest, Reserve
  <2>2. ToppedSet # {} => m \in ToppedSet /\ ToppedPool[m] # NoKey
    BY <2>1, <1>s, <1>t
  <2> HIDE DEF m
  <2>3. \A i \in setKeyPool' : pool'[i] # NoKey
    BY <2>1, <1>t
  <2>4. peek' # NoIndex => peek' \notin setKeyPool' /\ pool'[peek'] # NoKey
    BY <2>1, <2>2
  <2>5. \A h \in Holders : held[h].idx # NoIndex =>
          /\ held[h].idx \notin setKeyPool'
          /\ held[h].idx # peek'
          /\ pool'[held[h].idx] = pool[held[h].idx]
    BY <2>1, <2>2, <1>t
  <2> QED
    BY <2>1, <2>3, <2>4, <2>5, <1>c DEF Consistent
<1>7. CASE PeekReturn
  <2>1. /\ peek # NoIndex /\ peek' = NoIndex
        /\ setKeyPool' = setKeyPool \cup {peek}
        /\ UNCHANGED <<pool, held, uses>>
    BY <1>7 DEF PeekReturn
  <2> QED
    BY <2>1, <1>c DEF Consistent
<1>8. CASE EncryptWallet
  <2> DEFINE T == 1..Target
  <2>1. \A i \in Index : pool'[i] = IF i \in T THEN generated + i
                                    ELSE IF i \in setKeyPool THEN NoKey
                                    ELSE pool[i]
    BY <1>8 DEF EncryptWallet
  <2>2. T \in SUBSET Index /\ T \subseteq Nat \ {0} /\ generated \in Nat
    BY <1>8, TargetAssumption DEF EncryptWallet, Index, TypeOK
  <2>3. setKeyPool' = T /\ UNCHANGED <<held, peek, uses>>
    BY <1>8 DEF EncryptWallet
  <2>4. \A i \in T \ setKeyPool : pool[i] = NoKey
    BY <1>8, <2>2 DEF EncryptWallet
  <2> HIDE DEF T
  <2>5. \A i \in setKeyPool' : pool'[i] # NoKey
    BY <2>1, <2>2, <2>3
  <2>6. \A h \in Holders : held[h].idx # NoIndex =>
          /\ held[h].idx \notin T
          /\ pool'[held[h].idx] = pool[held[h].idx]
    BY <2>1, <2>4, <1>o, <1>c DEF Consistent
  <2>7. peek # NoIndex => peek \notin T /\ pool'[peek] = pool[peek]
    BY <2>1, <2>4, <1>o, <1>c DEF Consistent
  <2> QED
    BY <2>3, <2>5, <2>6, <2>7, <1>c DEF Consistent
<1>9. CASE Unlock
  BY <1>9, <1>c DEF Unlock, Consistent
<1>10. CASE Lock
  BY <1>10, <1>c DEF Lock, Consistent
<1>11. CASE StartShutdown
  BY <1>11, <1>c DEF StartShutdown, Consistent
<1>12. CASE Restart
  <2>1. \A h \in Holders : held'[h].idx = NoIndex
    BY <1>12 DEF Restart, Free
  <2>2. /\ peek' = NoIndex /\ UNCHANGED <<pool, uses>>
        /\ \A i \in setKeyPool' : pool[i] # NoKey
    BY <1>12 DEF Restart
  <2> QED
    BY <2>1, <2>2, <1>c DEF Consistent
<1>13. CASE UNCHANGED vars
  BY <1>13, <1>c DEF vars, Consistent
<1> QED
  BY <1>1, <1>2, <1>3, <1>4, <1>5, <1>6, <1>7, <1>8, <1>9, <1>10, <1>11,
     <1>12, <1>13 DEF Next

\* Initially nobody owns anything.
LEMMA OwnerInit == Init => OwnerInv
<1> SUFFICES ASSUME Init PROVE OwnerInv
  OBVIOUS
<1>1. \A h \in Holders : held[h].idx = NoIndex
  BY DEF Init, Free
<1>2. Consistent
  BY <1>1 DEF Init, Consistent
<1>3. \A k \in Keys : uses[k] <= 1
  BY DEF Init
<1> QED
  BY <1>2, <1>3 DEF OwnerInv, OwnedOnce, KeyUsedOnceUnlessOverwritten

\* wallet.cpp:1504, CommitTransaction() "Take key pair from key pool so it won't
\* be used again", as far as the code keeps it.
THEOREM KeysUsedOnce == Spec => []KeyUsedOnceUnlessOverwritten
<1>1. Spec => [](TypeOK /\ DiskInv)
  BY InitInv, NextInv, PTL DEF Spec
<1>2. Spec => []OwnerInv
  BY <1>1, OwnerInit, OwnerStep, PTL DEF Spec
<1>3. OwnerInv => KeyUsedOnceUnlessOverwritten
  BY DEF OwnerInv
<1> QED
  BY <1>2, <1>3, PTL

\* ReserveKeyFromKeyPool() finds its record, and an index has one owner, until a
\* record in use is written over.
THEOREM IndicesOwnedOnce == Spec => []OwnedOnce
<1>1. Spec => [](TypeOK /\ DiskInv)
  BY InitInv, NextInv, PTL DEF Spec
<1>2. Spec => []OwnerInv
  BY <1>1, OwnerInit, OwnerStep, PTL DEF Spec
<1>3. OwnerInv => OwnedOnce
  BY DEF OwnerInv
<1> QED
  BY <1>2, <1>3, PTL
=============================================================================
