--------------------------- MODULE WalletTxProofs ----------------------------
(***************************************************************************)
(* The coins that are spent and the records of wallet.dat, for every set   *)
(* of transactions, whatever they spend, and any number of senders.        *)
(***************************************************************************)
EXTENDS WalletTx, IntervalFacts

-----------------------------------------------------------------------------
(* The inductive invariant *)

SpentOf(wtx, t) == wtx.vfSpent \subseteq (IF wtx.own THEN Outputs(t) ELSE {})
IsWallet(w) ==
    /\ DOMAIN w \in SUBSET Tx /\ w \in [DOMAIN w -> CWalletTx]
    /\ \A t \in DOMAIN w : SpentOf(w[t], t)
IsDisk(d) ==
    /\ DOMAIN d \in SUBSET Tx /\ d \in [DOMAIN d -> Record]
    /\ \A t \in DOMAIN d : d[t].vfSpent \subseteq Outputs(t)
Sends == [Senders -> [tx : Tx \cup {NoTx}, stale : BOOLEAN]]

WalletType ==
    /\ IsWallet(mapWallet) /\ IsDisk(disk)
    /\ mapTxSpends \in [Coins -> SUBSET Tx]
    /\ nOrderPosNext \in 0..MaxOrder
    /\ chain \in [Tx -> {"none", "pool", "block"}]
    /\ sender \in Sends
    /\ made \in SUBSET Tx /\ loaded \in SUBSET Tx /\ shadowed \in SUBSET Tx

\* wallet.dat has what a wallet w has, and nothing else.
DiskRight(w, d) ==
    /\ DOMAIN d \subseteq DOMAIN w
    /\ \A t \in DOMAIN w : w[t].own =>
         t \in DOMAIN d /\ d[t].hashBlock = w[t].hashBlock /\ d[t].vfSpent = w[t].vfSpent

SpendsRight(spends) == \A c \in Coins : \A t \in spends[c] : c \in Inputs(t)

Alone(t, c) == Vin[t] = <<c>>
Owned(w, t) == t \in DOMAIN w /\ w[t].own
MetaRight(w, spends) ==
    \A c \in Coins : \A t, u \in spends[c] :
        Owned(w, t) /\ Owned(w, u) /\ Alone(t, c) /\ Alone(u, c) =>
            w[t].fromAccount = w[u].fromAccount

\* What holds until a default CWalletTx takes the place of a transaction.
Matters(t) == Outputs(t) # {} \/ Inputs(t) # {}
Clean ==
    /\ \A t \in DOMAIN mapWallet : mapWallet[t].own /\ t \in made
    /\ \A t \in Accepted : t \in made /\ (Matters(t) => t \in DOMAIN mapWallet)
    /\ \A t \in DOMAIN mapWallet \ loaded : \A c \in Inputs(t) : t \in mapTxSpends[c]
    /\ \A t \in DOMAIN mapWallet : chain[t] = "block" => mapWallet[t].hashBlock

\* What a send chose can still be accepted unless something was accepted since.
Choosable ==
    loaded = {} => \A s \in Senders :
        sender[s].tx # NoTx /\ ~sender[s].stale => Acceptable(chain, sender[s].tx)

WalletInv ==
    /\ WalletType
    /\ DiskRight(mapWallet, disk)
    /\ SpendsRight(mapTxSpends)
    /\ MetaRight(mapWallet, mapTxSpends)
    /\ \A s \in Senders :
         sender[s].tx # NoTx => sender[s].tx \in made /\ Matters(sender[s].tx)
    /\ shadowed = {} => Clean /\ Choosable

-----------------------------------------------------------------------------
(* Defaults and metadata *)

\* What is known of the constants.
LEMMA Constants ==
    /\ \A t \in Tx : Vin[t] \in Seq(Coins) /\ Len(Vin[t]) \in Nat
                     /\ DOMAIN Vin[t] = 1..Len(Vin[t])
                     /\ Inputs(t) = {Vin[t][i] : i \in 1..Len(Vin[t])}
                     /\ Inputs(t) \in SUBSET Coins
    /\ \A c \in Coins : CreatedBy[c] \in Tx /\ c \in Outputs(CreatedBy[c])
    /\ NoTx \notin Tx /\ MaxOrder \in Nat
<1>1. \A t \in Tx : Vin[t] \in Seq(Coins)
  BY WalletAssumption
<1>2. \A t \in Tx : Len(Vin[t]) \in Nat /\ DOMAIN Vin[t] = 1..Len(Vin[t])
  BY <1>1
<1>3. \A t \in Tx : Inputs(t) = {Vin[t][i] : i \in 1..Len(Vin[t])}
  BY <1>2 DEF Inputs, ToSet
<1>4. \A t \in Tx : Inputs(t) \in SUBSET Coins
  BY <1>1, <1>2, <1>3
<1>5. \A c \in Coins : CreatedBy[c] \in Tx /\ c \in Outputs(CreatedBy[c])
  BY WalletAssumption DEF Outputs
<1> QED
  BY <1>1, <1>2, <1>3, <1>4, <1>5, WalletAssumption

\* A wallet's members keep whose they are, their blocks and their spent coins, and
\* what is new is a default.
Kept(w, r) ==
    /\ DOMAIN w \subseteq DOMAIN r
    /\ \A t \in DOMAIN w : /\ r[t].own = w[t].own /\ r[t].hashBlock = w[t].hashBlock
                           /\ r[t].vfSpent = w[t].vfSpent
    /\ \A t \in DOMAIN r \ DOMAIN w : ~r[t].own

Extended(w, r) ==
    /\ \A t \in DOMAIN w : r[t] = w[t]
    /\ \A t \in DOMAIN r \ DOMAIN w : r[t] = Default

\* mapWallet[hash] of several hashes.
LEMMA TouchedDoes ==
    ASSUME NEW w, IsWallet(w), NEW S \in SUBSET Tx,
           NEW r, r = Touched(w, S)
    PROVE  IsWallet(r) /\ DOMAIN r = DOMAIN w \cup S /\ Kept(w, r) /\ Extended(w, r)
<1>1. Default \in CWalletTx /\ Default.vfSpent = {} /\ ~Default.own
  BY Constants DEF Default, CWalletTx
<1>2. DOMAIN r = DOMAIN w \cup S /\ r = [t \in DOMAIN r |-> r[t]]
  BY DEF Touched
<1>3. \A t \in DOMAIN w : r[t] = w[t]
  BY DEF Touched
<1>4. \A t \in DOMAIN r \ DOMAIN w : r[t] = Default
  BY <1>2 DEF Touched
<1> HIDE DEF Default
<1>5. \A t \in DOMAIN r : r[t] \in CWalletTx /\ SpentOf(r[t], t)
  <2> SUFFICES ASSUME NEW t \in DOMAIN r PROVE r[t] \in CWalletTx /\ SpentOf(r[t], t)
    OBVIOUS
  <2>1. CASE t \in DOMAIN w
    BY <1>3, <2>1 DEF IsWallet
  <2>2. CASE t \notin DOMAIN w
    BY <1>1, <1>4, <2>2 DEF SpentOf
  <2> QED
    BY <2>1, <2>2
<1>6. IsWallet(r)
  <2>1. DOMAIN r \in SUBSET Tx
    BY <1>2 DEF IsWallet
  <2>2. r \in [DOMAIN r -> CWalletTx]
    BY <1>2, <1>5
  <2> QED
    BY <1>5, <2>1, <2>2 DEF IsWallet
<1>7. Kept(w, r)
  BY <1>1, <1>2, <1>3, <1>4 DEF Kept
<1> QED
  BY <1>2, <1>3, <1>4, <1>6, <1>7 DEF Extended

Relabelled(p, q) == [p EXCEPT !.fromAccount = q.fromAccount, !.fFromMe = q.fFromMe]

\* A member of the range with the metadata of the oldest.
LEMMA RelabelledIs ==
    ASSUME NEW p \in CWalletTx, NEW q \in CWalletTx, NEW r, r = Relabelled(p, q)
    PROVE  /\ r \in CWalletTx /\ r.own = p.own /\ r.hashBlock = p.hashBlock
           /\ r.vfSpent = p.vfSpent /\ r.nOrderPos = p.nOrderPos
           /\ r.fromAccount = q.fromAccount
  BY DEF Relabelled, CWalletTx

SameBut(w, r, S) == \A t \in DOMAIN w \ S : r[t] = w[t]
SameMeta(w, S) == \A t, u \in S : w[t].fromAccount = w[u].fromAccount

\* SyncMetaData gives all of the range the same metadata and changes nothing else.
LEMMA SyncDoes ==
    ASSUME NEW w, IsWallet(w), NEW range \in SUBSET Tx, range # {},
           NEW r, r = SyncMetaData(w, range)
    PROVE  /\ IsWallet(r) /\ DOMAIN r = DOMAIN w \cup range /\ Kept(w, r)
           /\ SameBut(w, r, range) /\ SameMeta(r, range)
<1> DEFINE x == Touched(w, range)
           Oldest(t) == \A u \in range : x[t].nOrderPos <= x[u].nOrderPos
           copyFrom == CHOOSE t \in range : Oldest(t)
<1>1. /\ IsWallet(x) /\ DOMAIN x = DOMAIN w \cup range /\ Kept(w, x)
      /\ \A t \in DOMAIN w : x[t] = w[t]
  BY TouchedDoes DEF Extended
<1>2. r = [t \in DOMAIN x |-> IF t \in range THEN Relabelled(x[t], x[copyFrom]) ELSE x[t]]
  BY Zenon DEF SyncMetaData, Relabelled
<1> HIDE DEF x
<1>3. \A t \in DOMAIN x : x[t] \in CWalletTx /\ SpentOf(x[t], t)
  BY <1>1 DEF IsWallet
<1>4. \A t \in range : x[t].nOrderPos \in -1..MaxOrder
  BY <1>1, <1>3 DEF CWalletTx
<1>5. \E t \in range : Oldest(t)
  <2> DEFINE P == {x[t].nOrderPos + 1 : t \in range}
  <2>1. MaxOrder \in Nat
    BY Constants
  <2>2. P \in SUBSET Nat /\ P # {}
    BY <1>4, <2>1
  <2>3. PICK m \in P : \A i \in P : m <= i
    BY <2>2, MinExists
  <2>4. PICK t \in range : m = x[t].nOrderPos + 1
    BY <2>3
  <2>5. \A u \in range : x[t].nOrderPos + 1 <= x[u].nOrderPos + 1
    BY <2>3, <2>4
  <2>6. Oldest(t)
    BY <1>4, <2>1, <2>4, <2>5
  <2> QED
    BY <2>6
<1>6. copyFrom \in range
  BY <1>5
<1> HIDE DEF copyFrom
<1>7. DOMAIN r = DOMAIN x /\ r = [t \in DOMAIN r |-> r[t]]
  BY <1>2
<1>8. \A t \in DOMAIN x \ range : r[t] = x[t]
  BY <1>2
<1>9. \A t \in range : /\ r[t] \in CWalletTx /\ r[t].own = x[t].own
                       /\ r[t].hashBlock = x[t].hashBlock
                       /\ r[t].vfSpent = x[t].vfSpent
                       /\ r[t].fromAccount = x[copyFrom].fromAccount
  <2> SUFFICES ASSUME NEW t \in range
               PROVE  /\ r[t] \in CWalletTx /\ r[t].own = x[t].own
                      /\ r[t].hashBlock = x[t].hashBlock
                      /\ r[t].vfSpent = x[t].vfSpent
                      /\ r[t].fromAccount = x[copyFrom].fromAccount
    OBVIOUS
  <2>1. t \in DOMAIN x /\ r[t] = Relabelled(x[t], x[copyFrom])
    BY <1>1, <1>2
  <2>2. x[t] \in CWalletTx /\ x[copyFrom] \in CWalletTx
    BY <1>1, <1>3, <1>6
  <2> QED
    BY <2>1, <2>2, RelabelledIs
<1>10. \A t \in DOMAIN r : r[t] \in CWalletTx /\ SpentOf(r[t], t)
  BY <1>3, <1>7, <1>8, <1>9 DEF SpentOf
<1>11. IsWallet(r)
  <2>1. DOMAIN r \in SUBSET Tx
    BY <1>1, <1>7 DEF IsWallet
  <2>2. r \in [DOMAIN r -> CWalletTx]
    BY <1>7, <1>10
  <2> QED
    BY <1>10, <2>1, <2>2 DEF IsWallet
<1>12. Kept(w, r)
  BY <1>1, <1>7, <1>8, <1>9 DEF Kept
<1>13. SameBut(w, r, range) /\ SameMeta(r, range)
  BY <1>1, <1>8, <1>9 DEF SameBut, SameMeta
<1> QED
  BY <1>1, <1>7, <1>11, <1>12, <1>13

-----------------------------------------------------------------------------
(* Loops *)

\* The i-th turn of one of the three loops: AddToSpends over the coins of t, MarkSpent
\* over them, and AcceptToMemoryPool over all transactions.
Turn(loop, t, s, i) ==
    IF loop = "insert" THEN AddToSpends(s, Vin[t][i], t)
    ELSE IF loop = "mark" THEN MarkSpent(s, Vin[t][i])
    ELSE Offered(s, Txs[i])

\* g[i] is what n turns that begin with z have after the first i.
Loop(loop, t, z, n, g) ==
    g = [i \in 0..n |-> IF i = 0 THEN z ELSE Turn(loop, t, g[i - 1], i)]

\* Each loop, a recursive function, exists: by the least number of turns for which
\* it would not.
LEMMA LoopExists ==
    ASSUME NEW loop, NEW t, NEW z, NEW n \in Nat
    PROVE  \E g : Loop(loop, t, z, n, g)
<1> DEFINE S == {k \in Nat : \E g : Loop(loop, t, z, k, g)}
<1>1. 0 \in S
  <2> DEFINE g == [i \in 0..0 |-> z]
  <2>1. g = [i \in 0..0 |-> IF i = 0 THEN z ELSE Turn(loop, t, g[i - 1], i)]
    OBVIOUS
  <2>2. Loop(loop, t, z, 0, g)
    BY <2>1 DEF Loop
  <2> QED
    BY <2>2
<1>2. ASSUME NEW m \in 1..n, m - 1 \in S PROVE m \in S
  <2>1. PICK g : Loop(loop, t, z, m - 1, g)
    BY <1>2
  <2> DEFINE F(f, i) == Turn(loop, t, f, i)
             h == [i \in 0..m |-> IF i < m THEN g[i] ELSE F(g[m - 1], m)]
  <2> HIDE DEF F
  <2>2. g = [i \in 0..(m - 1) |-> IF i = 0 THEN z ELSE F(g[i - 1], i)]
    BY <2>1 DEF Loop, F
  <2>3. h = [i \in 0..m |-> IF i = 0 THEN z ELSE F(h[i - 1], i)]
    <3>1. \A i \in 0..m : h[i] = IF i = 0 THEN z ELSE F(h[i - 1], i)
      <4> TAKE i \in 0..m
      <4>1. CASE i < m
        BY <4>1, <2>2
      <4>2. CASE i = m
        BY <4>2, <2>2
      <4> QED
        BY <4>1, <4>2
    <3> QED
      BY <3>1
  <2> HIDE DEF h
  <2>4. Loop(loop, t, z, m, h)
    BY <2>3 DEF Loop, F
  <2>5. m \in Nat
    OBVIOUS
  <2> QED
    BY <2>4, <2>5
<1>3. 0 \in S /\ \A i \in 1..n : i - 1 \in S => i \in S
  BY <1>1, <1>2
<1> HIDE DEF S
<1>4. n \in S
  BY <1>3, Induct
<1> QED
  BY <1>4 DEF S

\* The turns one by one.
LEMMA LoopTurns ==
    ASSUME NEW loop, NEW t, NEW z, NEW n \in Nat, NEW g, Loop(loop, t, z, n, g)
    PROVE  /\ g[0] = z
           /\ \A i \in 1..n : g[i] = Turn(loop, t, g[i - 1], i)
<1> DEFINE F(f, i) == Turn(loop, t, f, i)
<1> HIDE DEF F
<1>1. g = [i \in 0..n |-> IF i = 0 THEN z ELSE F(g[i - 1], i)]
  BY DEF Loop, F
<1>2. g[0] = z /\ \A i \in 1..n : g[i] = F(g[i - 1], i)
  BY <1>1
<1> QED
  BY <1>2 DEF F

\* The model's loops are these.
LEMMA InsertedIs ==
    ASSUME NEW t \in Tx, NEW wtxIn
    PROVE  \E g : /\ Loop("insert", t, [wallet |-> WithNew(t, wtxIn), spends |-> mapTxSpends],
                          Len(Vin[t]), g)
                  /\ Inserted(t, wtxIn) = g[Len(Vin[t])]
<1> DEFINE f == CHOOSE g : Loop("insert", t, [wallet |-> WithNew(t, wtxIn),
                                             spends |-> mapTxSpends], Len(Vin[t]), g)
<1>1. Loop("insert", t, [wallet |-> WithNew(t, wtxIn), spends |-> mapTxSpends],
           Len(Vin[t]), f)
  BY Constants, LoopExists
<1>2. Inserted(t, wtxIn) = f[Len(Vin[t])]
  BY DEF Inserted, Loop, Turn
<1> QED
  BY <1>1, <1>2

\* The loop of CommitTransaction.
LEMMA MarkedIs ==
    ASSUME NEW t \in Tx, NEW w, NEW d
    PROVE  \E g : /\ Loop("mark", t, [wallet |-> w, disk |-> d, ok |-> TRUE],
                          Len(Vin[t]), g)
                  /\ Marked(t, w, d) = g[Len(Vin[t])]
<1> DEFINE f == CHOOSE g : Loop("mark", t, [wallet |-> w, disk |-> d, ok |-> TRUE],
                                Len(Vin[t]), g)
<1>1. Loop("mark", t, [wallet |-> w, disk |-> d, ok |-> TRUE], Len(Vin[t]), f)
  BY Constants, LoopExists
<1>2. Marked(t, w, d) = f[Len(Vin[t])]
  BY DEF Marked, Loop, Turn
<1> QED
  BY <1>1, <1>2

\* The loop of ReacceptWalletTransactions.
LEMMA ReacceptedIs ==
    ASSUME ReacceptWalletTransactions
    PROVE  \E g : Loop("offer", NoTx, chain, Len(Txs), g) /\ chain' = g[Len(Txs)]
<1> DEFINE f == CHOOSE g : Loop("offer", NoTx, chain, Len(Txs), g)
<1>1. Len(Txs) \in Nat
  BY WalletAssumption
<1>2. Loop("offer", NoTx, chain, Len(Txs), f)
  BY <1>1, LoopExists
<1>3. chain' = f[Len(Txs)]
  BY DEF ReacceptWalletTransactions, Loop, Turn
<1> QED
  BY <1>2, <1>3

-----------------------------------------------------------------------------
(* AddToWallet *)

\* What two turns keep.
LEMMA KeptTwice ==
    ASSUME NEW a, NEW b, NEW c, Kept(a, b), Kept(b, c)
    PROVE  Kept(a, c)
  BY DEF Kept

MetaButFor(t, w, spends) ==
    \A c \in Coins : \A x, y \in spends[c] :
        x # t /\ y # t /\ Owned(w, x) /\ Owned(w, y) /\ Alone(x, c) /\ Alone(y, c) =>
            w[x].fromAccount = w[y].fromAccount

SpendsAfter(t, old, new, i) ==
    \A c \in Coins : new[c] = old[c] \cup (IF \E j \in 1..i : Vin[t][j] = c THEN {t} ELSE {})

\* Where the insertion of t is after i of its coins.
Entered(t, wallet, spends, st, i) ==
    /\ IsWallet(st.wallet) /\ Kept(wallet, st.wallet)
    /\ st.spends \in [Coins -> SUBSET Tx] /\ SpendsRight(st.spends)
    /\ SpendsAfter(t, spends, st.spends, i)
    /\ MetaButFor(t, st.wallet, st.spends)
    /\ i >= 1 => SameMeta(st.wallet, st.spends[Vin[t][i]])

\* One turn: the coin's range has t, and its metadata; what spends another coin alone
\* is not in the range.
LEMMA EnterCoin ==
    ASSUME NEW t \in Tx, NEW wallet, NEW spends,
           NEW i \in 1..Len(Vin[t]), NEW s, Entered(t, wallet, spends, s, i - 1),
           NEW r, r = AddToSpends(s, Vin[t][i], t)
    PROVE  Entered(t, wallet, spends, r, i)
<1> DEFINE c == Vin[t][i]
           range == s.spends[c] \cup {t}
<1>1. c \in Coins /\ c \in Inputs(t) /\ Len(Vin[t]) \in Nat
  BY Constants
<1>2. /\ IsWallet(s.wallet) /\ Kept(wallet, s.wallet)
      /\ s.spends \in [Coins -> SUBSET Tx] /\ SpendsRight(s.spends)
      /\ SpendsAfter(t, spends, s.spends, i - 1)
      /\ MetaButFor(t, s.wallet, s.spends)
  BY DEF Entered
<1>3. /\ r.wallet = SyncMetaData(s.wallet, range)
      /\ r.spends = [s.spends EXCEPT ![c] = range]
  BY DEF AddToSpends
<1> HIDE DEF c
<1>4. range \in SUBSET Tx /\ range # {}
  BY <1>1, <1>2
<1> HIDE DEF range
<1>5. /\ IsWallet(r.wallet) /\ Kept(s.wallet, r.wallet)
      /\ \A x \in DOMAIN s.wallet \ range : r.wallet[x] = s.wallet[x]
      /\ \A x, y \in range : r.wallet[x].fromAccount = r.wallet[y].fromAccount
  <2> DEFINE v == s.wallet
             u == r.wallet
  <2>1. IsWallet(v) /\ u = SyncMetaData(v, range)
    BY <1>2, <1>3
  <2> HIDE DEF u, v
  <2>2. /\ IsWallet(u) /\ Kept(v, u)
        /\ SameBut(v, u, range) /\ SameMeta(u, range)
    BY <1>4, <2>1, SyncDoes
  <2> QED
    BY <2>2 DEF u, v, SameBut, SameMeta
<1>6. Kept(wallet, r.wallet)
  BY <1>2, <1>5, KeptTwice
<1>7. /\ r.spends \in [Coins -> SUBSET Tx] /\ r.spends[c] = range
      /\ \A d \in Coins : d # c => r.spends[d] = s.spends[d]
  BY <1>1, <1>2, <1>3, <1>4
<1>8. SpendsRight(r.spends)
  <2> SUFFICES ASSUME NEW d \in Coins, NEW x \in r.spends[d] PROVE d \in Inputs(x)
    BY DEF SpendsRight
  <2>1. x \in s.spends[d] \/ (d = c /\ x = t)
    BY <1>7 DEF range
  <2> QED
    BY <1>1, <1>2, <2>1 DEF SpendsRight
<1>9. SpendsAfter(t, spends, r.spends, i)
  <2> SUFFICES ASSUME NEW d \in Coins
               PROVE  r.spends[d] = spends[d] \cup
                          (IF \E j \in 1..i : Vin[t][j] = d THEN {t} ELSE {})
    BY DEF SpendsAfter
  <2>1. s.spends[d] = spends[d] \cup
            (IF \E j \in 1..(i - 1) : Vin[t][j] = d THEN {t} ELSE {})
    BY <1>2 DEF SpendsAfter
  <2>2. CASE d = c
    <3>1. i \in 1..i /\ Vin[t][i] = d
      BY <2>2 DEF c
    <3> QED
      BY <1>7, <2>1, <2>2, <3>1 DEF range
  <2>3. CASE d # c
    <3>1. (\E j \in 1..i : Vin[t][j] = d) <=> (\E j \in 1..(i - 1) : Vin[t][j] = d)
      <4>1. \A j \in 1..i : Vin[t][j] = d => j # i
        BY <2>3 DEF c
      <4>2. \A j \in 1..i : j # i => j \in 1..(i - 1)
        OBVIOUS
      <4>3. \A j \in 1..(i - 1) : j \in 1..i
        OBVIOUS
      <4> QED
        BY <4>1, <4>2, <4>3
    <3> QED
      BY <1>7, <2>1, <2>3, <3>1
  <2> QED
    BY <2>2, <2>3
<1>10. MetaButFor(t, r.wallet, r.spends)
  <2> SUFFICES ASSUME NEW d \in Coins, NEW x \in r.spends[d], NEW y \in r.spends[d],
                      x # t, y # t, Owned(r.wallet, x), Owned(r.wallet, y),
                      Alone(x, d), Alone(y, d)
               PROVE  r.wallet[x].fromAccount = r.wallet[y].fromAccount
    BY DEF MetaButFor
  <2>1. CASE d = c
    BY <1>5, <1>7, <2>1
  <2>2. CASE d # c
    <3>1. x \in s.spends[d] /\ y \in s.spends[d]
      BY <1>7, <2>2
    <3>2. Owned(s.wallet, x) /\ Owned(s.wallet, y)
      BY <1>5 DEF Owned, Kept
    <3>3. x \notin range /\ y \notin range
      <4>1. \A z : Alone(z, d) => c \notin Inputs(z)
        BY <2>2 DEF Alone, Inputs, ToSet
      <4>2. \A z \in range : z = t \/ c \in Inputs(z)
        BY <1>1, <1>2 DEF range, SpendsRight
      <4> QED
        BY <4>1, <4>2
    <3>4. s.wallet[x].fromAccount = s.wallet[y].fromAccount
      BY <1>2, <3>1, <3>2 DEF MetaButFor
    <3> QED
      BY <1>5, <3>2, <3>3, <3>4 DEF Owned
  <2> QED
    BY <2>1, <2>2
<1>11. SameMeta(r.wallet, r.spends[Vin[t][i]])
  BY <1>5, <1>7 DEF SameMeta, c
<1> QED
  BY <1>5, <1>6, <1>7, <1>8, <1>9, <1>10, <1>11 DEF Entered

\* The insertion as a whole.
LEMMA InsertDoes ==
    ASSUME WalletType, SpendsRight(mapTxSpends),
           MetaRight(mapWallet, mapTxSpends),
           NEW t \in Tx \ DOMAIN mapWallet, NEW wtxIn \in CWalletTx, wtxIn.vfSpent = {},
           NEW r, r = Inserted(t, wtxIn)
    PROVE  /\ IsWallet(r.wallet) /\ Kept(WithNew(t, wtxIn), r.wallet)
           /\ r.spends \in [Coins -> SUBSET Tx] /\ SpendsRight(r.spends)
           /\ MetaRight(r.wallet, r.spends)
           /\ \A c \in Coins : mapTxSpends[c] \subseteq r.spends[c]
           /\ \A c \in Inputs(t) : t \in r.spends[c]
<1> DEFINE w == WithNew(t, wtxIn)
           n == Len(Vin[t])
           z == [wallet |-> w, spends |-> mapTxSpends]
<1>1. PICK g : Loop("insert", t, z, n, g) /\ r = g[n]
  BY InsertedIs
<1>2. n \in Nat
  BY Constants
<1>3. g[0] = z /\ \A i \in 1..n : g[i] = AddToSpends(g[i - 1], Vin[t][i], t)
  <2>1. g[0] = z /\ \A i \in 1..n : g[i] = Turn("insert", t, g[i - 1], i)
    BY <1>1, <1>2, LoopTurns
  <2> QED
    BY <2>1 DEF Turn
<1>4. /\ DOMAIN w = DOMAIN mapWallet \cup {t}
      /\ w = [u \in DOMAIN w |-> w[u]]
      /\ w[t] = [wtxIn EXCEPT !.nOrderPos = nOrderPosNext]
      /\ \A u \in DOMAIN mapWallet : w[u] = mapWallet[u]
  BY DEF WithNew
<1> HIDE DEF w
<1>5. IsWallet(w)
  <2>1. IsWallet(mapWallet) /\ nOrderPosNext \in 0..MaxOrder /\ MaxOrder \in Nat
    BY Constants DEF WalletType
  <2>2. w[t] \in CWalletTx /\ w[t].vfSpent = {}
    <3>1. nOrderPosNext \in -1..MaxOrder
      BY <2>1
    <3> QED
      BY <1>4, <3>1 DEF CWalletTx
  <2>3. \A u \in DOMAIN w : w[u] \in CWalletTx /\ SpentOf(w[u], u)
    <3> SUFFICES ASSUME NEW u \in DOMAIN w PROVE w[u] \in CWalletTx /\ SpentOf(w[u], u)
      OBVIOUS
    <3>1. CASE u = t
      BY <2>2, <3>1 DEF SpentOf
    <3>2. CASE u # t
      BY <1>4, <2>1, <3>2 DEF IsWallet
    <3> QED
      BY <3>1, <3>2
  <2>4. DOMAIN w \in SUBSET Tx
    BY <1>4, <2>1 DEF IsWallet
  <2>5. w \in [DOMAIN w -> CWalletTx]
    BY <1>4, <2>3
  <2> QED
    BY <2>3, <2>4, <2>5 DEF IsWallet
<1>6. Entered(t, w, mapTxSpends, z, 0)
  <2>1. z.wallet = w /\ z.spends = mapTxSpends
    OBVIOUS
  <2> HIDE DEF z
  <2>2. Kept(w, w)
    BY DEF Kept
  <2>3. mapTxSpends \in [Coins -> SUBSET Tx]
    BY DEF WalletType
  <2>4. SpendsAfter(t, mapTxSpends, mapTxSpends, 0)
    BY DEF SpendsAfter
  <2>5. MetaButFor(t, w, mapTxSpends)
    <3>1. \A x : x # t => /\ Owned(w, x) <=> Owned(mapWallet, x)
                          /\ Owned(w, x) => w[x] = mapWallet[x]
      BY <1>4 DEF Owned
    <3> QED
      BY <3>1 DEF MetaButFor, MetaRight
  <2> QED
    BY <1>5, <2>1, <2>2, <2>3, <2>4, <2>5 DEF Entered
<1> HIDE DEF z
<1>7. \A i \in 0..n : Entered(t, w, mapTxSpends, g[i], i)
  <2> DEFINE S == {i \in 0..n : Entered(t, w, mapTxSpends, g[i], i)}
  <2>1. 0 \in S
    BY <1>2, <1>3, <1>6
  <2>2. ASSUME NEW i \in 1..n, i - 1 \in S PROVE i \in S
    <3>1. Entered(t, w, mapTxSpends, g[i], i)
      BY <1>3, <2>2, EnterCoin
    <3>2. i \in 0..n
      BY <1>2
    <3> QED
      BY <3>1, <3>2
  <2>3. \A i \in 0..n : i \in S
    <3> HIDE DEF S
    <3> QED
      BY <1>2, <2>1, <2>2, Induct
  <2> QED
    BY <2>3
<1>8. Entered(t, w, mapTxSpends, r, n)
  <2>1. n \in 0..n
    BY <1>2
  <2> QED
    BY <1>1, <1>7, <2>1
<1>9. SpendsAfter(t, mapTxSpends, r.spends, n) /\ SpendsRight(r.spends)
  BY <1>8 DEF Entered
<1>10. \A c \in Coins : mapTxSpends[c] \subseteq r.spends[c]
  BY <1>9 DEF SpendsAfter
<1>11. \A c \in Inputs(t) : t \in r.spends[c]
  <2>1. Inputs(t) = {Vin[t][i] : i \in 1..n} /\ Inputs(t) \in SUBSET Coins
    BY Constants
  <2> HIDE DEF n
  <2> QED
    BY <1>9, <2>1 DEF SpendsAfter
<1>12. MetaRight(r.wallet, r.spends)
  <2> SUFFICES ASSUME NEW c \in Coins, NEW x \in r.spends[c], NEW y \in r.spends[c],
                      Owned(r.wallet, x), Owned(r.wallet, y), Alone(x, c), Alone(y, c)
               PROVE  r.wallet[x].fromAccount = r.wallet[y].fromAccount
    BY DEF MetaRight
  <2>1. CASE x # t /\ y # t
    BY <1>8, <2>1 DEF Entered, MetaButFor
  <2>2. CASE x = t \/ y = t
    <3>1. Vin[t] = <<c>>
      BY <2>2 DEF Alone
    <3>2. n = 1 /\ Vin[t][1] = c
      BY <3>1
    <3> HIDE DEF n
    <3>3. SameMeta(r.wallet, r.spends[Vin[t][n]])
      BY <1>8, <3>2 DEF Entered
    <3> QED
      BY <3>2, <3>3 DEF SameMeta
  <2> QED
    BY <2>1, <2>2
<1> QED
  BY <1>8, <1>9, <1>10, <1>11, <1>12 DEF Entered, w

OnDisk(w, d, t) ==
    t \in DOMAIN d /\ d[t].hashBlock = w[t].hashBlock /\ d[t].vfSpent = w[t].vfSpent
DiskRightBut(w, d, t) ==
    DOMAIN d \subseteq DOMAIN w /\ \A u \in DOMAIN w : u # t /\ w[u].own => OnDisk(w, d, u)

\* WriteToDisk makes up for what the record of t was behind.
LEMMA WrittenDoes ==
    ASSUME NEW w, IsWallet(w), NEW d, IsDisk(d), NEW t \in DOMAIN w, DiskRightBut(w, d, t),
           NEW e, e = Written(d, w, t)
    PROVE  IsDisk(e) /\ DiskRight(w, e)
<1> DEFINE new == IF w[t].own THEN {t} ELSE {}
           rec == ToRecord(w[t])
<1>1. /\ t \in Tx /\ w[t] \in CWalletTx /\ SpentOf(w[t], t)
      /\ DOMAIN d \in SUBSET Tx /\ DOMAIN d \subseteq DOMAIN w
      /\ \A u \in DOMAIN d : d[u] \in Record /\ d[u].vfSpent \subseteq Outputs(u)
  BY DEF IsWallet, IsDisk, DiskRightBut
<1>2. /\ rec \in Record /\ rec.hashBlock = w[t].hashBlock /\ rec.vfSpent = w[t].vfSpent
      /\ w[t].own => rec.vfSpent \subseteq Outputs(t)
  BY <1>1 DEF ToRecord, CWalletTx, Record, SpentOf
<1>3. /\ DOMAIN e = DOMAIN d \cup new /\ e = [u \in DOMAIN e |-> e[u]]
      /\ \A u \in DOMAIN e : e[u] = IF u = t /\ w[t].own THEN rec ELSE d[u]
  BY DEF Written
<1> HIDE DEF rec
<1>4. \A u \in DOMAIN e : e[u] \in Record /\ e[u].vfSpent \subseteq Outputs(u)
  <2> SUFFICES ASSUME NEW u \in DOMAIN e
               PROVE  e[u] \in Record /\ e[u].vfSpent \subseteq Outputs(u)
    OBVIOUS
  <2>1. CASE u = t /\ w[t].own
    BY <1>2, <1>3, <2>1
  <2>2. CASE ~(u = t /\ w[t].own)
    BY <1>1, <1>3, <2>2
  <2> QED
    BY <2>1, <2>2
<1>5. IsDisk(e)
  <2>1. DOMAIN e \in SUBSET Tx
    BY <1>1, <1>3
  <2>2. e \in [DOMAIN e -> Record]
    BY <1>3, <1>4
  <2> QED
    BY <1>4, <2>1, <2>2 DEF IsDisk
<1>6. DOMAIN e \subseteq DOMAIN w
  BY <1>1, <1>3
<1>7. \A u \in DOMAIN w : w[u].own => OnDisk(w, e, u)
  <2> SUFFICES ASSUME NEW u \in DOMAIN w, w[u].own PROVE OnDisk(w, e, u)
    OBVIOUS
  <2>1. CASE u = t
    BY <1>2, <1>3, <2>1 DEF OnDisk
  <2>2. CASE u # t
    BY <1>3, <2>2 DEF DiskRightBut, OnDisk
  <2> QED
    BY <2>1, <2>2
<1> QED
  BY <1>5, <1>6, <1>7 DEF DiskRight, OnDisk

\* What AddToWallet makes of the wallet, with a for its result.
AddedRight(t, wtxIn, a) ==
    /\ IsWallet(a.wallet) /\ IsDisk(a.disk) /\ DiskRight(a.wallet, a.disk)
    /\ a.spends \in [Coins -> SUBSET Tx] /\ SpendsRight(a.spends)
    /\ MetaRight(a.wallet, a.spends)
    /\ a.next \in 0..MaxOrder
    /\ t \in DOMAIN a.wallet /\ DOMAIN mapWallet \subseteq DOMAIN a.wallet
    /\ \A u \in DOMAIN mapWallet : /\ a.wallet[u].own = mapWallet[u].own
                                   /\ mapWallet[u].hashBlock => a.wallet[u].hashBlock
    /\ wtxIn.hashBlock => a.wallet[t].hashBlock
    /\ \A u \in DOMAIN a.wallet : a.wallet[u].own => u \in DOMAIN mapWallet \/ u = t
    /\ \A c \in Coins : mapTxSpends[c] \subseteq a.spends[c]
    /\ t \notin DOMAIN mapWallet =>
         a.wallet[t].own /\ \A c \in Inputs(t) : t \in a.spends[c]

\* AddToWallet of a transaction that the wallet does not have.
LEMMA AddedNew ==
    ASSUME WalletType, DiskRight(mapWallet, disk), SpendsRight(mapTxSpends),
           MetaRight(mapWallet, mapTxSpends),
           NEW t \in Tx \ DOMAIN mapWallet, NEW wtxIn \in CWalletTx,
           wtxIn.own, wtxIn.vfSpent = {}, Room(t),
           NEW a, a = Added(t, wtxIn)
    PROVE  AddedRight(t, wtxIn, a)
<1> DEFINE st == Inserted(t, wtxIn)
           w == WithNew(t, wtxIn)
<1>1. /\ a.wallet = st.wallet /\ a.spends = st.spends /\ a.next = nOrderPosNext + 1
      /\ a.disk = Written(disk, st.wallet, t)
  BY DEF Added, AddToWalletMemory
<1> DEFINE x == st.wallet
<1>2. /\ IsWallet(x) /\ Kept(w, x)
      /\ st.spends \in [Coins -> SUBSET Tx] /\ SpendsRight(st.spends)
      /\ MetaRight(x, st.spends)
      /\ \A c \in Coins : mapTxSpends[c] \subseteq st.spends[c]
      /\ \A c \in Inputs(t) : t \in st.spends[c]
  BY InsertDoes
<1>3. /\ DOMAIN w = DOMAIN mapWallet \cup {t}
      /\ w[t] = [wtxIn EXCEPT !.nOrderPos = nOrderPosNext]
      /\ \A u \in DOMAIN mapWallet : w[u] = mapWallet[u]
  BY DEF WithNew
<1>4. w[t].own = wtxIn.own /\ w[t].hashBlock = wtxIn.hashBlock
  BY <1>3 DEF CWalletTx
<1> HIDE DEF st, w
<1>5. /\ DOMAIN mapWallet \cup {t} \subseteq DOMAIN x
      /\ \A u \in DOMAIN mapWallet : /\ x[u].own = mapWallet[u].own
                                     /\ x[u].hashBlock = mapWallet[u].hashBlock
                                     /\ x[u].vfSpent = mapWallet[u].vfSpent
      /\ x[t].own = wtxIn.own /\ x[t].hashBlock = wtxIn.hashBlock
      /\ \A u \in DOMAIN x : x[u].own => u \in DOMAIN mapWallet \cup {t}
  BY Zenon, <1>2, <1>3, <1>4 DEF Kept
<1> HIDE DEF x
<1>6. DiskRightBut(x, disk, t)
  BY <1>5 DEF DiskRight, DiskRightBut, OnDisk
<1>7. IsDisk(a.disk) /\ DiskRight(x, a.disk)
  <2>1. IsDisk(disk) /\ t \in DOMAIN x
    BY <1>5 DEF WalletType
  <2>2. a.disk = Written(disk, x, t)
    BY <1>1 DEF x
  <2> QED
    BY <1>2, <1>6, <2>1, <2>2, WrittenDoes
<1>8. a.next \in 0..MaxOrder
  <2>1. nOrderPosNext < MaxOrder /\ nOrderPosNext \in 0..MaxOrder /\ MaxOrder \in Nat
    BY Constants DEF Room, WalletType
  <2> QED
    BY <1>1, <2>1
<1>9. a.wallet = x /\ a.spends = st.spends
  BY <1>1 DEF x
<1> QED
  BY <1>2, <1>5, <1>7, <1>8, <1>9 DEF AddedRight

\* What AddToWallet makes of the transaction that the wallet has.
LEMMA MergedIs ==
    ASSUME NEW p \in CWalletTx, NEW q \in CWalletTx, NEW r, r = Merged(p, q)
    PROVE  /\ r \in CWalletTx /\ r.own = p.own /\ r.vfSpent = p.vfSpent
           /\ r.fromAccount = p.fromAccount
           /\ r.hashBlock = (p.hashBlock \/ q.hashBlock)
  BY DEF Merged, CWalletTx

\* AddToWallet of that: in memory, and on disk if anything changed.
LEMMA AddedKnown ==
    ASSUME WalletType, DiskRight(mapWallet, disk), SpendsRight(mapTxSpends),
           MetaRight(mapWallet, mapTxSpends),
           NEW t \in DOMAIN mapWallet, NEW wtxIn \in CWalletTx,
           NEW a, a = Added(t, wtxIn)
    PROVE  AddedRight(t, wtxIn, a)
<1> DEFINE m == Merged(mapWallet[t], wtxIn)
           x == [mapWallet EXCEPT ![t] = m]
<1>1. /\ a.wallet = x /\ a.spends = mapTxSpends /\ a.next = nOrderPosNext
      /\ a.disk = IF x[t] # mapWallet[t] THEN Written(disk, x, t) ELSE disk
  BY DEF Added, AddToWalletMemory
<1>2. /\ DOMAIN mapWallet \in SUBSET Tx /\ mapWallet \in [DOMAIN mapWallet -> CWalletTx]
      /\ \A u \in DOMAIN mapWallet : SpentOf(mapWallet[u], u)
  BY DEF WalletType, IsWallet
<1>3. /\ m \in CWalletTx /\ m.own = mapWallet[t].own /\ m.vfSpent = mapWallet[t].vfSpent
      /\ m.fromAccount = mapWallet[t].fromAccount
      /\ m.hashBlock = (mapWallet[t].hashBlock \/ wtxIn.hashBlock)
  BY <1>2, MergedIs
<1> HIDE DEF m
<1>4. /\ DOMAIN x = DOMAIN mapWallet /\ x \in [DOMAIN x -> CWalletTx] /\ x[t] = m
      /\ \A u \in DOMAIN mapWallet : u # t => x[u] = mapWallet[u]
  BY <1>2, <1>3
<1> HIDE DEF x
<1>5. \A u \in DOMAIN mapWallet :
          /\ x[u].own = mapWallet[u].own /\ x[u].vfSpent = mapWallet[u].vfSpent
          /\ x[u].fromAccount = mapWallet[u].fromAccount
          /\ mapWallet[u].hashBlock => x[u].hashBlock
  BY <1>3, <1>4
<1>6. IsWallet(x)
  BY <1>2, <1>4, <1>5 DEF IsWallet, SpentOf
<1>7. IsDisk(a.disk) /\ DiskRight(x, a.disk)
  <2>1. IsDisk(disk)
    BY DEF WalletType
  <2>2. CASE x[t] = mapWallet[t]
    <3>1. \A u \in DOMAIN mapWallet : x[u] = mapWallet[u]
      BY <1>4, <2>2
    <3> QED
      BY <1>1, <1>4, <2>1, <2>2, <3>1 DEF DiskRight
  <2>3. CASE x[t] # mapWallet[t]
    <3>1. DiskRightBut(x, disk, t)
      BY <1>4 DEF DiskRight, DiskRightBut, OnDisk
    <3>2. t \in DOMAIN x /\ a.disk = Written(disk, x, t)
      BY <1>1, <1>4, <2>3
    <3> QED
      BY <1>6, <2>1, <3>1, <3>2, WrittenDoes
  <2> QED
    BY <2>2, <2>3
<1>8. MetaRight(x, mapTxSpends)
  BY <1>4, <1>5 DEF MetaRight, Owned
<1>9. mapTxSpends \in [Coins -> SUBSET Tx] /\ nOrderPosNext \in 0..MaxOrder
  BY DEF WalletType
<1>10. wtxIn.hashBlock => x[t].hashBlock
  BY <1>3, <1>4
<1> QED
  BY <1>1, <1>4, <1>5, <1>6, <1>7, <1>8, <1>9, <1>10 DEF AddedRight

\* AddToWallet as a whole.
LEMMA AddedDoes ==
    ASSUME WalletType, DiskRight(mapWallet, disk), SpendsRight(mapTxSpends),
           MetaRight(mapWallet, mapTxSpends),
           NEW t \in Tx, NEW wtxIn \in CWalletTx, wtxIn.own, wtxIn.vfSpent = {}, Room(t),
           NEW a, a = Added(t, wtxIn)
    PROVE  AddedRight(t, wtxIn, a)
<1>1. CASE t \in DOMAIN mapWallet
  BY <1>1, AddedKnown
<1>2. CASE t \notin DOMAIN mapWallet
  <2>1. t \in Tx \ DOMAIN mapWallet
    BY <1>2
  <2> QED
    BY <2>1, AddedNew
<1> QED
  BY <1>1, <1>2

-----------------------------------------------------------------------------
(* The loop of CommitTransaction that marks the coins *)

\* The same owners, blocks and metadata, and what is new is a default.
SameOwners(w, r) ==
    /\ DOMAIN w \subseteq DOMAIN r
    /\ \A t \in DOMAIN w : /\ r[t].own = w[t].own /\ r[t].hashBlock = w[t].hashBlock
                           /\ r[t].fromAccount = w[t].fromAccount
    /\ \A t \in DOMAIN r \ DOMAIN w : ~r[t].own

\* What two turns leave alone.
LEMMA SameOwnersTwice ==
    ASSUME NEW a, NEW b, NEW c, SameOwners(a, b), SameOwners(b, c)
    PROVE  SameOwners(a, c)
  BY DEF SameOwners

ParentsOwned(w, t) == \A c \in Inputs(t) : Owned(w, CreatedBy[c])

\* Where the loop is, from the wallet w, whatever the number of turns.
MarkedRight(t, w, st) ==
    /\ st = [wallet |-> st.wallet, disk |-> st.disk, ok |-> st.ok]
    /\ IsWallet(st.wallet) /\ IsDisk(st.disk) /\ DiskRight(st.wallet, st.disk)
    /\ SameOwners(w, st.wallet)
    /\ ParentsOwned(w, t) => st.ok

WithSpent(p, c) == [p EXCEPT !.vfSpent = @ \cup {c}]

\* MarkSpent of an output of t.
IsMarked(t, p, r) ==
    /\ r \in CWalletTx /\ SpentOf(r, t) /\ r.own = p.own
    /\ r.hashBlock = p.hashBlock /\ r.fromAccount = p.fromAccount
LEMMA WithSpentIs ==
    ASSUME NEW t, NEW p \in CWalletTx, SpentOf(p, t), p.own,
           NEW c \in Coins, c \in Outputs(t)
    PROVE  IsMarked(t, p, WithSpent(p, c))
  BY DEF IsMarked, WithSpent, CWalletTx, SpentOf

\* The fields of a turn's result.
LEMMA MarkFields ==
    ASSUME NEW s, s = [wallet |-> s.wallet, disk |-> s.disk, ok |-> s.ok],
           NEW x, NEW e, NEW r
    PROVE  /\ r = [s EXCEPT !.ok = FALSE, !.wallet = x] =>
                r = [wallet |-> x, disk |-> s.disk, ok |-> FALSE]
           /\ r = [s EXCEPT !.wallet = x, !.disk = e] =>
                r = [wallet |-> x, disk |-> e, ok |-> s.ok]
  OBVIOUS

\* One turn: the parent is on disk with the coin, or the loop has failed, and it fails
\* only for a parent that the wallet does not have.
LEMMA MarkTurn ==
    ASSUME NEW t \in Tx, NEW w, NEW s, MarkedRight(t, w, s),
           NEW c \in Inputs(t), NEW r, r = MarkSpent(s, c)
    PROVE  MarkedRight(t, w, r)
<1> DEFINE p == CreatedBy[c]
           v == s.wallet
           d == s.disk
           x == Touched(v, {p})
           m == WithSpent(x[p], c)
           y == [x EXCEPT ![p] = m]
<1>1. c \in Coins /\ p \in Tx /\ c \in Outputs(p)
  <2>1. c \in Coins
    BY Constants
  <2> QED
    BY <2>1, Constants
<1>2. IsWallet(v) /\ IsDisk(d) /\ DiskRight(v, d) /\ SameOwners(w, v)
  BY DEF MarkedRight
<1>3. r = IF ~s.ok THEN s
          ELSE IF ~x[p].own THEN [s EXCEPT !.ok = FALSE, !.wallet = x]
          ELSE [s EXCEPT !.wallet = y, !.disk = Written(d, y, p)]
  BY DEF MarkSpent, WithSpent
<1> HIDE DEF p
<1> DEFINE S == {p}
<1>4. IsWallet(x) /\ DOMAIN x = DOMAIN v \cup S /\ Extended(v, x)
  <2>1. S \in SUBSET Tx
    BY <1>1
  <2>2. x = Touched(v, S)
    OBVIOUS
  <2> HIDE DEF S, x, v
  <2> QED
    BY <1>2, <2>1, <2>2, TouchedDoes
<1>5. SameOwners(v, x)
  BY <1>4 DEF SameOwners, Default, Extended
<1>6. p \in DOMAIN x
  BY <1>4
<1> HIDE DEF x, v, d
<1>7. DiskRight(x, d)
  BY <1>2, <1>4 DEF DiskRight, Default, Extended
<1>8. CASE ~s.ok
  BY <1>3, <1>8
<1>9. CASE s.ok /\ ~x[p].own
  <2>1. ~ParentsOwned(w, t)
    <3>1. ~Owned(w, p)
      BY <1>2, <1>5, <1>9 DEF Owned, SameOwners
    <3> QED
      BY <3>1 DEF ParentsOwned, p
  <2>2. SameOwners(w, x)
    BY <1>2, <1>5, SameOwnersTwice
  <2>3. r = [s EXCEPT !.ok = FALSE, !.wallet = x]
    BY <1>3, <1>9
  <2>4. r = [wallet |-> x, disk |-> d, ok |-> FALSE]
    <3>1. s.disk = d
      BY DEF d
    <3> QED
      BY <2>3, <3>1, MarkFields DEF MarkedRight
  <2> QED
    BY <1>2, <1>4, <1>7, <2>1, <2>2, <2>4 DEF MarkedRight
<1>10. CASE s.ok /\ x[p].own
  <2>1. x[p] \in CWalletTx /\ SpentOf(x[p], p)
    BY <1>4, <1>6 DEF IsWallet
  <2>2. /\ m \in CWalletTx /\ SpentOf(m, p) /\ m.own = x[p].own
        /\ m.hashBlock = x[p].hashBlock /\ m.fromAccount = x[p].fromAccount
    <3> DEFINE q == x[p]
    <3>1. q \in CWalletTx /\ SpentOf(q, p) /\ q.own /\ m = WithSpent(q, c)
      BY <1>10, <2>1
    <3> HIDE DEF m, q
    <3>3. c \in Coins /\ c \in Outputs(p)
      BY <1>1
    <3>2. IsMarked(p, q, WithSpent(q, c))
      BY <3>1, <3>3, WithSpentIs
    <3> QED
      BY <3>1, <3>2 DEF q, IsMarked
  <2> HIDE DEF m
  <2>3. /\ DOMAIN y = DOMAIN x /\ y \in [DOMAIN y -> CWalletTx] /\ y[p] = m
        /\ \A u \in DOMAIN x : u # p => y[u] = x[u]
    BY <1>4, <1>6, <2>2 DEF IsWallet
  <2>4. r = [s EXCEPT !.wallet = y, !.disk = Written(d, y, p)]
    BY <1>3, <1>10
  <2> HIDE DEF y
  <2>5. IsWallet(y)
    BY <1>4, <2>2, <2>3 DEF IsWallet
  <2>6. SameOwners(x, y)
    BY <1>10, <2>2, <2>3 DEF SameOwners
  <2>7. SameOwners(w, y)
    BY <1>2, <1>5, <2>6, SameOwnersTwice
  <2> DEFINE e == Written(d, y, p)
  <2>8. IsDisk(e) /\ DiskRight(y, e)
    <3>1. DiskRightBut(y, d, p)
      BY <1>7, <2>3 DEF DiskRight, DiskRightBut, OnDisk
    <3>2. p \in DOMAIN y
      BY <1>6, <2>3
    <3> QED
      BY <1>2, <2>5, <3>1, <3>2, WrittenDoes
  <2> HIDE DEF e
  <2>9. r = [wallet |-> y, disk |-> e, ok |-> s.ok]
    BY <2>4, MarkFields DEF e, MarkedRight
  <2> QED
    BY <1>10, <2>5, <2>7, <2>8, <2>9 DEF MarkedRight
<1> QED
  BY <1>8, <1>9, <1>10

\* The loop as a whole.
LEMMA MarkDoes ==
    ASSUME NEW t \in Tx, NEW w, IsWallet(w), NEW d, IsDisk(d),
           DiskRight(w, d), NEW r, r = Marked(t, w, d)
    PROVE  MarkedRight(t, w, r)
<1> DEFINE n == Len(Vin[t])
           z == [wallet |-> w, disk |-> d, ok |-> TRUE]
<1>1. PICK g : Loop("mark", t, z, n, g) /\ r = g[n]
  BY MarkedIs
<1>2. n \in Nat
  BY Constants
<1>3. MarkedRight(t, w, z)
  BY DEF MarkedRight, SameOwners
<1> HIDE DEF z
<1>4. g[0] = z /\ \A i \in 1..n : g[i] = MarkSpent(g[i - 1], Vin[t][i])
  <2>1. g[0] = z /\ \A i \in 1..n : g[i] = Turn("mark", t, g[i - 1], i)
    <3> HIDE DEF n
    <3> QED
      BY <1>1, <1>2, LoopTurns
  <2> QED
    BY <2>1 DEF Turn
<1> DEFINE S == {i \in 0..n : MarkedRight(t, w, g[i])}
<1>5. 0 \in S
  BY <1>2, <1>4, <1>3
<1>6. ASSUME NEW i \in 1..n, i - 1 \in S PROVE i \in S
  <2>1. Vin[t][i] \in Inputs(t)
    BY Constants
  <2>2. MarkedRight(t, w, g[i])
    BY <1>4, <1>6, <2>1, MarkTurn
  <2>3. i \in 0..n
    BY <1>2
  <2> QED
    BY <2>2, <2>3
<1>7. \A i \in 0..n : i \in S
  <2> HIDE DEF S, n
  <2> QED
    BY <1>2, <1>5, <1>6, Induct
<1>8. n \in 0..n
  BY <1>2
<1> QED
  BY <1>1, <1>7, <1>8

-----------------------------------------------------------------------------
(* Steps that add a transaction *)

\* What is in memory and on disk.
StoredRight(w, d, spends) ==
    /\ IsWallet(w) /\ IsDisk(d) /\ DiskRight(w, d)
    /\ spends \in [Coins -> SUBSET Tx] /\ SpendsRight(spends) /\ MetaRight(w, spends)

\* The wallet w with its spends is this one with t, or without.
Grown(t, w, spends) ==
    /\ DOMAIN mapWallet \subseteq DOMAIN w
    /\ \A u \in DOMAIN w : w[u].own => u \in DOMAIN mapWallet \/ u = t
    /\ \A u \in DOMAIN mapWallet : mapWallet[u].hashBlock => w[u].hashBlock
    /\ \A c \in Coins : mapTxSpends[c] \subseteq spends[c]
    /\ t \in DOMAIN w \ DOMAIN mapWallet => \A c \in Inputs(t) : t \in spends[c]

\* The network has what it had, and t at most, which the wallet has if it matters.
NetGrown(t, net, w) ==
    \A u \in Tx :
        /\ net[u] # "none" => chain[u] # "none" \/ (u = t /\ (Matters(t) => t \in DOMAIN w))
        /\ net[u] = "block" /\ u \in DOMAIN w =>
             (chain[u] = "block" /\ u \in DOMAIN mapWallet) \/ w[u].hashBlock

\* What the invariant says of memory and disk.
LEMMA StoredNow ==
    ASSUME WalletInv
    PROVE  StoredRight(mapWallet, disk, mapTxSpends)
  BY DEF WalletInv, WalletType, StoredRight

\* Nothing of what holds without defaults is lost by adding t.
LEMMA CleanGrows ==
    ASSUME WalletInv, shadowed = {}, NEW t \in Tx, Shadows(mapWallet') = {},
           DOMAIN mapWallet' \in SUBSET Tx,
           Grown(t, mapWallet', mapTxSpends'), NetGrown(t, chain', mapWallet'),
           t \in made', made \subseteq made', loaded' = loaded
    PROVE  Clean'
<1>1. Clean
  BY DEF WalletInv
<1>2. \A u \in DOMAIN mapWallet' : mapWallet'[u].own
  BY DEF Shadows
<1>3. \A u \in DOMAIN mapWallet' : u \in DOMAIN mapWallet \/ u = t
  BY <1>2 DEF Grown
<1>4. \A u \in DOMAIN mapWallet' : mapWallet'[u].own /\ u \in made'
  BY <1>1, <1>2, <1>3 DEF Clean
<1>5. \A u \in Tx : chain'[u] # "none" =>
        u \in made' /\ (Matters(u) => u \in DOMAIN mapWallet')
  BY <1>1 DEF Clean, Accepted, NetGrown, Grown
<1>6. \A u \in DOMAIN mapWallet' \ loaded' : \A c \in Inputs(u) : u \in mapTxSpends'[c]
  <2> SUFFICES ASSUME NEW u \in DOMAIN mapWallet' \ loaded', NEW c \in Inputs(u)
               PROVE  u \in mapTxSpends'[c]
    OBVIOUS
  <2>1. CASE u \in DOMAIN mapWallet
    <3>1. u \in mapTxSpends[c]
      BY <1>1, <2>1 DEF Clean
    <3>2. u \in Tx /\ c \in Coins
      BY Constants
    <3> QED
      BY <3>1, <3>2 DEF Grown
  <2>2. CASE u \notin DOMAIN mapWallet
    BY <1>3, <2>2 DEF Grown
  <2> QED
    BY <2>1, <2>2
<1>7. \A u \in DOMAIN mapWallet' : chain'[u] = "block" => mapWallet'[u].hashBlock
  <2> SUFFICES ASSUME NEW u \in DOMAIN mapWallet', chain'[u] = "block"
               PROVE  mapWallet'[u].hashBlock
    OBVIOUS
  <2>1. u \in Tx
    OBVIOUS
  <2> QED
    BY <1>1, <2>1 DEF NetGrown, Clean, Grown
<1> QED
  BY <1>4, <1>5, <1>6, <1>7 DEF Clean, Accepted

\* The transactions that SyncTransaction and CommitTransaction make.
LEMMA MadeAre ==
    ASSUME NEW t \in Tx, NEW inBlock \in BOOLEAN
    PROVE  /\ \A r : r = [Default EXCEPT !.own = TRUE, !.hashBlock = inBlock] =>
                 r \in CWalletTx /\ r.own /\ r.vfSpent = {} /\ r.hashBlock = inBlock
           /\ \A r : r = [Default EXCEPT !.own = TRUE, !.fFromMe = TRUE, !.fromAccount = t] =>
                 r \in CWalletTx /\ r.own /\ r.vfSpent = {}
<1>1. Default \in CWalletTx /\ Default.vfSpent = {}
  BY Constants DEF Default, CWalletTx
<1>2. \A r : r = [Default EXCEPT !.own = TRUE, !.hashBlock = inBlock] =>
        r \in CWalletTx /\ r.own /\ r.vfSpent = {} /\ r.hashBlock = inBlock
  BY <1>1 DEF CWalletTx
<1>3. \A r : r = [Default EXCEPT !.own = TRUE, !.fFromMe = TRUE, !.fromAccount = t] =>
        r \in CWalletTx /\ r.own /\ r.vfSpent = {}
  BY <1>1 DEF CWalletTx
<1> QED
  BY <1>2, <1>3

\* SyncTransaction of a transaction that the network has, or has in a block.
LEMMA SyncStep ==
    ASSUME WalletInv, NEW t \in Tx, NEW inBlock \in BOOLEAN,
           SyncTransaction(t, inBlock)
    PROVE  /\ StoredRight(mapWallet', disk', mapTxSpends')
           /\ nOrderPosNext' \in 0..MaxOrder /\ shadowed' \in SUBSET Tx
           /\ shadowed' = {} => shadowed = {} /\ Shadows(mapWallet') = {}
           /\ Grown(t, mapWallet', mapTxSpends')
           /\ t \in DOMAIN mapWallet \/ IsMine(t) \/ IsFromMe(t) => t \in DOMAIN mapWallet'
           /\ inBlock /\ t \in DOMAIN mapWallet' => mapWallet'[t].hashBlock
<1> DEFINE wtx == [Default EXCEPT !.own = TRUE, !.hashBlock = inBlock]
           a == Added(t, wtx)
<1>1. StoredRight(mapWallet, disk, mapTxSpends)
  BY StoredNow
<1>2. WalletType
  BY DEF WalletInv
<1>3. CASE t \in DOMAIN mapWallet \/ IsMine(t) \/ IsFromMe(t)
  <2>1. wtx \in CWalletTx /\ wtx.own /\ wtx.vfSpent = {} /\ wtx.hashBlock = inBlock
    BY MadeAre
  <2>2. /\ Room(t) /\ mapWallet' = a.wallet /\ mapTxSpends' = a.spends
        /\ nOrderPosNext' = a.next /\ disk' = a.disk
        /\ shadowed' = shadowed \cup Shadows(mapWallet')
    BY <1>3 DEF SyncTransaction
  <2> HIDE DEF wtx
  <2>3. a = Added(t, wtx)
    OBVIOUS
  <2> HIDE DEF a
  <2>4. AddedRight(t, wtx, a)
    BY <1>1, <1>2, <2>1, <2>2, <2>3, AddedDoes DEF StoredRight
  <2>5. StoredRight(mapWallet', disk', mapTxSpends') /\ nOrderPosNext' \in 0..MaxOrder
    BY <2>2, <2>4 DEF AddedRight, StoredRight
  <2>6. Grown(t, mapWallet', mapTxSpends')
    BY <2>2, <2>4 DEF AddedRight, Grown
  <2>7. Shadows(mapWallet') \in SUBSET Tx
    BY <2>5 DEF StoredRight, IsWallet, Shadows
  <2>8. shadowed \in SUBSET Tx
    BY <1>2 DEF WalletType
  <2>9. t \in DOMAIN mapWallet' /\ (inBlock => mapWallet'[t].hashBlock)
    BY <2>1, <2>2, <2>4 DEF AddedRight
  <2> QED
    BY <2>2, <2>5, <2>6, <2>7, <2>8, <2>9
<1>4. CASE ~(t \in DOMAIN mapWallet \/ IsMine(t) \/ IsFromMe(t))
  <2>1. UNCHANGED <<walletVars, shadowed>>
    BY <1>4 DEF SyncTransaction
  <2>2. /\ mapWallet' = mapWallet /\ mapTxSpends' = mapTxSpends /\ disk' = disk
        /\ nOrderPosNext' = nOrderPosNext /\ shadowed' = shadowed
    BY <2>1 DEF walletVars
  <2>3. Grown(t, mapWallet, mapTxSpends)
    BY DEF Grown
  <2>4. shadowed = {} => Shadows(mapWallet) = {}
    BY DEF WalletInv, Clean, Shadows
  <2> QED
    BY <1>1, <1>2, <1>4, <2>2, <2>3, <2>4 DEF WalletType
<1> QED
  BY <1>3, <1>4

-----------------------------------------------------------------------------
(* The chain and the memory pool *)

\* The parts of the invariant, after a step.
LEMMA InvNext ==
    ASSUME StoredRight(mapWallet', disk', mapTxSpends'), nOrderPosNext' \in 0..MaxOrder,
           chain' \in [Tx -> {"none", "pool", "block"}], sender' \in Sends,
           made' \in SUBSET Tx, loaded' \in SUBSET Tx, shadowed' \in SUBSET Tx,
           \A s \in Senders :
             sender'[s].tx # NoTx => sender'[s].tx \in made' /\ Matters(sender'[s].tx),
           shadowed' = {} => Clean' /\ Choosable'
    PROVE  WalletInv'
  BY DEF WalletInv, WalletType, StoredRight

\* Every send in progress goes on, and knows that something was accepted.
GoesOn ==
    /\ sender' \in Sends
    /\ \A s \in Senders : sender'[s].tx = sender[s].tx
    /\ \A s \in Senders : sender[s].tx # NoTx => sender'[s].stale

\* What Stale does to the sends.
LEMMA StaleDoes ==
    ASSUME WalletInv, Stale
    PROVE  GoesOn
<1>1. sender \in Sends
  BY DEF WalletInv, WalletType
<1>2. \A s \in Senders : sender'[s] = [sender[s] EXCEPT !.stale = sender[s].tx # NoTx]
  BY DEF Stale
<1>3. \A s \in Senders : /\ sender'[s] \in [tx : Tx \cup {NoTx}, stale : BOOLEAN]
                         /\ sender'[s].tx = sender[s].tx
                         /\ sender'[s].stale = (sender[s].tx # NoTx)
  <2> SUFFICES ASSUME NEW s \in Senders
               PROVE  /\ sender'[s] \in [tx : Tx \cup {NoTx}, stale : BOOLEAN]
                      /\ sender'[s].tx = sender[s].tx
                      /\ sender'[s].stale = (sender[s].tx # NoTx)
    OBVIOUS
  <2>1. sender[s] \in [tx : Tx \cup {NoTx}, stale : BOOLEAN]
    BY <1>1 DEF Sends
  <2> QED
    BY <1>2, <2>1
<1>4. sender' \in Sends
  <2>1. sender' = [s \in Senders |-> sender'[s]]
    BY DEF Stale
  <2> QED
    BY <1>3, <2>1 DEF Sends
<1> QED
  BY <1>3, <1>4 DEF GoesOn

\* A transaction whose parents are accepted is ours or from us.
LEMMA ParentsKnown ==
    ASSUME Clean, NEW t \in Tx, Matters(t),
           \A u \in Parents(t) : chain[u] # "none"
    PROVE  IsMine(t) \/ IsFromMe(t)
<1>1. CASE Outputs(t) # {}
  BY <1>1 DEF IsMine
<1>2. CASE Inputs(t) # {}
  <2>1. PICK c \in Inputs(t) : TRUE
    BY <1>2
  <2> DEFINE u == CreatedBy[c]
  <2>2. u \in Parents(t) /\ u \in Tx /\ Outputs(u) # {}
    <3>1. c \in Coins
      BY Constants
    <3> QED
      BY <3>1, Constants DEF Parents
  <2> HIDE DEF u
  <2>3. Has(u)
    BY <2>2 DEF Clean, Accepted, Matters, Has
  <2> QED
    BY <2>2, <2>3 DEF IsFromMe
<1> QED
  BY <1>1, <1>2 DEF Matters

\* What the network does with a transaction, and the wallet hears of.
LEMMA HeardStep ==
    ASSUME WalletInv, NEW t \in Tx, NEW inBlock \in BOOLEAN,
           SyncTransaction(t, inBlock), Stale,
           chain' \in [Tx -> {"none", "pool", "block"}], loaded' = loaded,
           made' \in SUBSET Tx, made \subseteq made', t \in made' \/ chain[t] # "none",
           \A u \in Tx : u # t => /\ chain'[u] # "none" => chain[u] # "none"
                                  /\ chain'[u] = "block" => chain[u] = "block",
           chain'[t] = "block" => inBlock,
           chain[t] # "none" \/ \A u \in Parents(t) : chain[u] # "none"
    PROVE  WalletInv' /\ GoesOn
<1>1. /\ StoredRight(mapWallet', disk', mapTxSpends')
      /\ nOrderPosNext' \in 0..MaxOrder /\ shadowed' \in SUBSET Tx
      /\ shadowed' = {} => shadowed = {} /\ Shadows(mapWallet') = {}
      /\ Grown(t, mapWallet', mapTxSpends')
      /\ t \in DOMAIN mapWallet \/ IsMine(t) \/ IsFromMe(t) => t \in DOMAIN mapWallet'
      /\ inBlock /\ t \in DOMAIN mapWallet' => mapWallet'[t].hashBlock
  BY SyncStep
<1>2. GoesOn
  BY StaleDoes
<1>3. \A s \in Senders :
        sender'[s].tx # NoTx => sender'[s].tx \in made' /\ Matters(sender'[s].tx)
  BY <1>2 DEF GoesOn, WalletInv
<1>4. ASSUME shadowed' = {} PROVE Clean' /\ Choosable'
  <2>1. shadowed = {} /\ Shadows(mapWallet') = {} /\ Clean
    BY <1>1, <1>4 DEF WalletInv
  <2>2. t \in made'
    BY <2>1 DEF Clean, Accepted
  <2>3. Matters(t) => t \in DOMAIN mapWallet'
    <3>1. CASE chain[t] # "none"
      BY <1>1, <2>1, <3>1 DEF Clean, Accepted
    <3>2. CASE \A u \in Parents(t) : chain[u] # "none"
      BY <1>1, <2>1, <3>2, ParentsKnown
    <3> QED
      BY <3>1, <3>2
  <2>4. \A u \in DOMAIN mapWallet' : u # t => u \in DOMAIN mapWallet
    BY <1>1, <2>1 DEF Grown, Shadows
  <2>5. NetGrown(t, chain', mapWallet')
    BY <1>1, <2>3, <2>4 DEF NetGrown
  <2>6. DOMAIN mapWallet' \in SUBSET Tx
    BY <1>1 DEF StoredRight, IsWallet
  <2>7. Clean'
    BY <1>1, <2>1, <2>2, <2>5, <2>6, CleanGrows
  <2>8. Choosable'
    BY <1>2 DEF Choosable, GoesOn
  <2> QED
    BY <2>7, <2>8
<1>5. loaded' \in SUBSET Tx
  BY DEF WalletInv, WalletType
<1> QED
  BY <1>1, <1>2, <1>3, <1>4, <1>5, InvNext DEF GoesOn

\* The memory pool has a transaction.
LEMMA ReceiveStep ==
    ASSUME WalletInv, NEW t \in Tx, Receive(t)
    PROVE  WalletInv' /\ GoesOn
<1>1. chain \in [Tx -> {"none", "pool", "block"}] /\ made \in SUBSET Tx
  BY DEF WalletInv, WalletType
<1>2. /\ SyncTransaction(t, FALSE) /\ Stale /\ loaded' = loaded /\ made' = made \cup {t}
      /\ chain' = [chain EXCEPT ![t] = "pool"]
      /\ \A u \in Parents(t) : chain[u] # "none"
  BY DEF Receive, Acceptable
<1>3. /\ chain' \in [Tx -> {"none", "pool", "block"}] /\ chain'[t] = "pool"
      /\ \A u \in Tx : u # t => chain'[u] = chain[u]
  BY <1>1, <1>2
<1>4. made' \in SUBSET Tx /\ made \subseteq made' /\ t \in made'
  BY <1>1, <1>2
<1> QED
  BY <1>2, <1>3, <1>4, HeardStep

\* A block has it; what leaves the pool stays in the wallet.
LEMMA ConnectStep ==
    ASSUME WalletInv, NEW t \in Tx, ConnectBlock(t)
    PROVE  WalletInv' /\ GoesOn
<1> DEFINE gone == Displaced[t]
<1>1. chain \in [Tx -> {"none", "pool", "block"}] /\ made \in SUBSET Tx
  BY DEF WalletInv, WalletType
<1>2. /\ SyncTransaction(t, TRUE) /\ Stale /\ loaded' = loaded /\ made' = made \cup {t}
      /\ chain' = [u \in Tx |-> IF u = t THEN "block"
                                ELSE IF u \in gone THEN "none" ELSE chain[u]]
      /\ \A u \in Parents(t) : chain[u] = "block"
  BY DEF ConnectBlock
<1> HIDE DEF gone
<1>3. /\ chain' \in [Tx -> {"none", "pool", "block"}]
      /\ \A u \in Tx : u # t => chain'[u] = "none" \/ chain'[u] = chain[u]
  BY <1>1, <1>2
<1>4. made' \in SUBSET Tx /\ made \subseteq made' /\ t \in made'
  BY <1>1, <1>2
<1>5. \A u \in Parents(t) : chain[u] # "none"
  BY <1>2
<1>6. \A u \in Tx : u # t => /\ chain'[u] # "none" => chain[u] # "none"
                             /\ chain'[u] = "block" => chain[u] = "block"
  BY <1>3
<1>7. SyncTransaction(t, TRUE) /\ Stale /\ loaded' = loaded
  BY <1>2
<1> QED
  BY <1>3, <1>4, <1>5, <1>6, <1>7, HeardStep

\* It goes back to the pool.
LEMMA DisconnectStep ==
    ASSUME WalletInv, NEW t \in Tx, DisconnectBlock(t)
    PROVE  WalletInv' /\ GoesOn
<1>1. chain \in [Tx -> {"none", "pool", "block"}] /\ made \in SUBSET Tx
  BY DEF WalletInv, WalletType
<1>2. /\ SyncTransaction(t, FALSE) /\ Stale /\ loaded' = loaded /\ made' = made
      /\ chain' = [chain EXCEPT ![t] = "pool"] /\ chain[t] = "block"
  BY DEF DisconnectBlock
<1>3. /\ chain' \in [Tx -> {"none", "pool", "block"}] /\ chain'[t] = "pool"
      /\ \A u \in Tx : u # t => chain'[u] = chain[u]
  BY <1>1, <1>2
<1> QED
  BY <1>1, <1>2, <1>3, HeardStep

-----------------------------------------------------------------------------
(* Sending *)

\* Until a default CWalletTx takes the place of a transaction, what an accepted
\* transaction spends, that this run did not read from wallet.dat, is not offered.
LEMMA SpentNotOffered ==
    ASSUME WalletInv, shadowed = {}, NEW t \in Accepted, t \notin loaded,
           NEW c \in Inputs(t)
    PROVE  c \notin AvailableCoins
<1>1. t \in Tx /\ chain[t] # "none" /\ chain \in [Tx -> {"none", "pool", "block"}]
  BY DEF Accepted, WalletInv, WalletType
<1>2. Clean
  BY DEF WalletInv
<1>3. t \in DOMAIN mapWallet /\ mapWallet[t].own
  <2>1. Matters(t)
    BY DEF Matters
  <2> QED
    BY <1>2, <2>1 DEF Clean
<1>4. t \in mapTxSpends[c] /\ (chain[t] = "block" => mapWallet[t].hashBlock)
  BY <1>2, <1>3 DEF Clean
<1>5. GetDepthInMainChain(t) >= 0
  BY <1>1, <1>3, <1>4 DEF GetDepthInMainChain, Has
<1> QED
  BY <1>3, <1>4, <1>5 DEF AvailableCoins, IsSpent

\* What CreateTransaction chose, the network would take.
LEMMA ChosenAcceptable ==
    ASSUME WalletInv, shadowed = {}, loaded = {}, NEW t \in Tx,
           t \notin made, Inputs(t) \subseteq AvailableCoins
    PROVE  Acceptable(chain, t)
<1>1. chain[t] = "none"
  BY DEF WalletInv, Clean, Accepted
<1>2. ASSUME NEW u \in Tx, Conflict(t, u) PROVE chain[u] = "none"
  <2>1. PICK c \in Inputs(t) : c \in Inputs(u)
    BY <1>2 DEF Conflict
  <2> QED
    BY <2>1, SpentNotOffered DEF Accepted
<1>3. ASSUME NEW u \in Parents(t) PROVE chain[u] # "none"
  <2>1. PICK c \in Inputs(t) : u = CreatedBy[c]
    BY DEF Parents
  <2>2. IsTrusted(u)
    BY <2>1 DEF AvailableCoins
  <2> QED
    BY <2>2 DEF IsTrusted, GetDepthInMainChain
<1> QED
  BY <1>1, <1>2, <1>3 DEF Acceptable

\* One send becomes r; the others stay.
LEMMA SenderIs ==
    ASSUME sender \in Sends, NEW s \in Senders,
           NEW r \in [tx : Tx \cup {NoTx}, stale : BOOLEAN], sender' = [sender EXCEPT ![s] = r]
    PROVE  sender' \in Sends /\ sender'[s] = r /\ \A x \in Senders : x # s => sender'[x] = sender[x]
  BY DEF Sends

\* A step that changes the sends alone, and the transactions that exist.
LEMMA OnlySends ==
    ASSUME WalletInv, sender' \in Sends, made' \in SUBSET Tx, made \subseteq made',
           UNCHANGED <<walletVars, chain, loaded, shadowed>>,
           \A s \in Senders :
             sender'[s].tx # NoTx => sender'[s].tx \in made' /\ Matters(sender'[s].tx),
           shadowed = {} => Choosable'
    PROVE  WalletInv'
<1>1. /\ mapWallet' = mapWallet /\ mapTxSpends' = mapTxSpends /\ disk' = disk
      /\ nOrderPosNext' = nOrderPosNext /\ chain' = chain /\ loaded' = loaded
      /\ shadowed' = shadowed
  BY DEF walletVars
<1>2. StoredRight(mapWallet', disk', mapTxSpends')
  BY <1>1, StoredNow
<1>3. shadowed' = {} => Clean' /\ Choosable'
  BY <1>1 DEF WalletInv, Clean, Accepted
<1>4. /\ nOrderPosNext' \in 0..MaxOrder /\ chain' \in [Tx -> {"none", "pool", "block"}]
      /\ loaded' \in SUBSET Tx /\ shadowed' \in SUBSET Tx
  BY <1>1 DEF WalletInv, WalletType
<1> QED
  BY <1>2, <1>3, <1>4, InvNext

\* CreateTransaction, whose choice the network would take.
LEMMA CreateStep ==
    ASSUME WalletInv, NEW s \in Senders, NEW t \in Tx,
           CreateTransaction(s, t)
    PROVE  WalletInv' /\ sender'[s] # Idle /\ mapWallet' = mapWallet
<1> DEFINE r == [sender[s] EXCEPT !.tx = t]
<1>1. sender \in Sends /\ made \in SUBSET Tx /\ t # NoTx
  BY Constants DEF WalletInv, WalletType
<1>2. /\ t \notin made /\ Vin[t] # << >> /\ Inputs(t) \subseteq AvailableCoins
      /\ made' = made \cup {t} /\ UNCHANGED <<walletVars, chain, loaded, shadowed>>
      /\ sender' = [sender EXCEPT ![s] = r]
  BY DEF CreateTransaction
<1>3. r \in [tx : Tx \cup {NoTx}, stale : BOOLEAN] /\ r.tx = t
  BY <1>1 DEF Sends
<1> HIDE DEF r
<1>4. sender' \in Sends /\ sender'[s] = r /\ \A x \in Senders : x # s => sender'[x] = sender[x]
  BY <1>1, <1>2, <1>3, SenderIs
<1>5. Matters(t)
  <2>1. Vin[t] \in Seq(Coins) /\ Inputs(t) = {Vin[t][i] : i \in 1..Len(Vin[t])}
    BY Constants
  <2>2. 1 \in 1..Len(Vin[t])
    BY <1>2, <2>1
  <2> QED
    BY <2>1, <2>2 DEF Matters
<1>6. \A x \in Senders :
        sender'[x].tx # NoTx => sender'[x].tx \in made' /\ Matters(sender'[x].tx)
  BY <1>2, <1>3, <1>4, <1>5 DEF WalletInv
<1>7. ASSUME shadowed = {} PROVE Choosable'
  <2> SUFFICES ASSUME loaded' = {}, NEW x \in Senders, sender'[x].tx # NoTx, ~sender'[x].stale
               PROVE  Acceptable(chain', sender'[x].tx)
    BY DEF Choosable
  <2>1. chain' = chain /\ loaded = {}
    BY <1>2
  <2>2. CASE x = s
    BY <1>2, <1>3, <1>4, <1>7, <2>1, <2>2, ChosenAcceptable
  <2>3. CASE x # s
    BY <1>4, <1>7, <2>1, <2>3 DEF WalletInv, Choosable
  <2> QED
    BY <2>2, <2>3
<1>8. WalletInv'
  BY <1>1, <1>2, <1>4, <1>6, <1>7, OnlySends
<1>9. sender'[s] # Idle
  BY <1>1, <1>3, <1>4 DEF Idle
<1> QED
  BY <1>2, <1>8, <1>9 DEF walletVars

\* The end of a send that is not committed.
LEMMA AbortStep ==
    ASSUME WalletInv, NEW s \in Senders, Abort(s)
    PROVE  WalletInv' /\ mapWallet' = mapWallet
<1>1. Idle \in [tx : Tx \cup {NoTx}, stale : BOOLEAN] /\ Idle.tx = NoTx
  BY DEF Idle
<1>2. /\ sender' = [sender EXCEPT ![s] = Idle] /\ made' = made
      /\ UNCHANGED <<walletVars, chain, loaded, shadowed>>
  BY DEF Abort
<1>3. sender \in Sends /\ made \in SUBSET Tx
  BY DEF WalletInv, WalletType
<1> HIDE DEF Idle
<1>4. sender' \in Sends /\ sender'[s] = Idle
      /\ \A x \in Senders : x # s => sender'[x] = sender[x]
  BY <1>1, <1>2, <1>3, SenderIs
<1>5. \A x \in Senders :
        sender'[x].tx # NoTx => sender'[x].tx \in made' /\ Matters(sender'[x].tx)
  BY <1>1, <1>2, <1>4 DEF WalletInv
<1>6. shadowed = {} => Choosable'
  BY <1>1, <1>2, <1>4 DEF WalletInv, Choosable
<1>7. WalletInv'
  BY <1>2, <1>3, <1>4, <1>5, <1>6, OnlySends
<1> QED
  BY <1>2, <1>7 DEF walletVars

\* What CommitTransaction does to the wallet of t, with its three results.
LEMMA CommitStores ==
    ASSUME WalletInv, NEW t \in Tx, NEW wtx \in CWalletTx, wtx.own,
           wtx.vfSpent = {}, Room(t),
           NEW a, a = Added(t, wtx), NEW st, st = Marked(t, a.wallet, a.disk)
    PROVE  /\ StoredRight(st.wallet, st.disk, a.spends) /\ a.next \in 0..MaxOrder
           /\ Grown(t, st.wallet, a.spends) /\ t \in DOMAIN st.wallet
           /\ ParentsOwned(mapWallet, t) => st.ok
<1>1. AddedRight(t, wtx, a)
  <2>1. StoredRight(mapWallet, disk, mapTxSpends) /\ WalletType
    BY StoredNow DEF WalletInv
  <2> QED
    BY <2>1, AddedDoes DEF StoredRight
<1>2. MarkedRight(t, a.wallet, st)
  <2> DEFINE w == a.wallet
             d == a.disk
  <2>1. IsWallet(w) /\ IsDisk(d) /\ DiskRight(w, d) /\ st = Marked(t, w, d)
    BY <1>1 DEF AddedRight
  <2> HIDE DEF w, d
  <2>2. MarkedRight(t, w, st)
    BY <2>1, MarkDoes
  <2> QED
    BY <2>2 DEF w
<1>3. /\ IsWallet(st.wallet) /\ IsDisk(st.disk) /\ DiskRight(st.wallet, st.disk)
      /\ SameOwners(a.wallet, st.wallet) /\ (ParentsOwned(a.wallet, t) => st.ok)
  BY <1>2 DEF MarkedRight
<1>4. a.spends \in [Coins -> SUBSET Tx] /\ SpendsRight(a.spends) /\ MetaRight(a.wallet, a.spends)
  BY <1>1 DEF AddedRight
<1>5. MetaRight(st.wallet, a.spends)
  BY <1>3, <1>4 DEF MetaRight, SameOwners, Owned
<1>6. Grown(t, st.wallet, a.spends)
  BY <1>1, <1>3 DEF Grown, AddedRight, SameOwners
<1>7. ParentsOwned(mapWallet, t) => ParentsOwned(a.wallet, t)
  BY <1>1 DEF ParentsOwned, Owned, AddedRight
<1> QED
  BY <1>1, <1>3, <1>4, <1>5, <1>6, <1>7 DEF StoredRight, AddedRight, SameOwners

\* What the network would take has its parents in the wallet.
LEMMA ParentsHeld ==
    ASSUME Clean, NEW t \in Tx, Acceptable(chain, t)
    PROVE  ParentsOwned(mapWallet, t)
<1> SUFFICES ASSUME NEW c \in Inputs(t) PROVE Owned(mapWallet, CreatedBy[c])
  BY DEF ParentsOwned
<1> DEFINE u == CreatedBy[c]
<1>1. u \in Parents(t) /\ u \in Tx /\ Outputs(u) # {}
  <2>1. c \in Coins
    BY Constants
  <2> QED
    BY <2>1, Constants DEF Parents
<1> HIDE DEF u
<1>2. u \in Accepted
  BY <1>1 DEF Acceptable, Accepted
<1>3. Owned(mapWallet, u)
  BY <1>1, <1>2 DEF Clean, Matters, Owned
<1> QED
  BY <1>3 DEF u

\* The other sends go on.
OthersGoOn(s, taken) ==
    /\ sender' \in Sends /\ sender'[s] = Idle
    /\ \A x \in Senders : x # s =>
         /\ sender'[x].tx = sender[x].tx
         /\ sender'[x].tx # NoTx /\ ~sender'[x].stale => ~sender[x].stale /\ ~taken

\* The sends after a commitment.
LEMMA CommitSends ==
    ASSUME sender \in Sends, NEW s \in Senders, NEW taken \in BOOLEAN,
           sender' = [u \in Senders |->
                         IF u = s THEN Idle
                         ELSE [sender[u] EXCEPT
                                  !.stale = @ \/ (taken /\ sender[u].tx # NoTx)]]
    PROVE  OthersGoOn(s, taken)
<1>1. sender' = [x \in Senders |-> sender'[x]] /\ sender'[s] = Idle
  OBVIOUS
<1>2. ASSUME NEW x \in Senders, x # s
      PROVE  /\ sender'[x] \in [tx : Tx \cup {NoTx}, stale : BOOLEAN]
             /\ sender'[x].tx = sender[x].tx
             /\ sender'[x].stale = (sender[x].stale \/ (taken /\ sender[x].tx # NoTx))
  <2>1. sender[x] \in [tx : Tx \cup {NoTx}, stale : BOOLEAN]
    BY DEF Sends
  <2>2. sender'[x] = [sender[x] EXCEPT
                        !.stale = @ \/ (taken /\ sender[x].tx # NoTx)]
    BY <1>2
  <2> QED
    BY <2>1, <2>2
<1>3. Idle \in [tx : Tx \cup {NoTx}, stale : BOOLEAN]
  BY DEF Idle
<1>4. sender' \in Sends
  BY <1>1, <1>2, <1>3 DEF Sends
<1> QED
  BY <1>1, <1>2, <1>4 DEF OthersGoOn

\* CommitTransaction, and what CommitAccepted says of it.
LEMMA CommitStep ==
    ASSUME WalletInv, NEW s \in Senders, CommitTransaction(s)
    PROVE  /\ WalletInv' /\ sender[s].tx # NoTx
           /\ \A x \in Senders : x # s => sender'[x].tx = sender[x].tx
           /\ ~sender[s].stale /\ loaded = {} /\ shadowed = {} =>
                chain'[sender[s].tx] = "pool"
<1> DEFINE t == sender[s].tx
           wtx == [Default EXCEPT !.own = TRUE, !.fFromMe = TRUE, !.fromAccount = t]
           a == Added(t, wtx)
           st == Marked(t, a.wallet, a.disk)
           taken == st.ok /\ Acceptable(chain, t)
<1>1. /\ t # NoTx /\ Room(t)
      /\ mapWallet' = st.wallet /\ mapTxSpends' = a.spends /\ nOrderPosNext' = a.next
      /\ disk' = st.disk /\ shadowed' = shadowed \cup Shadows(mapWallet')
      /\ chain' = IF taken THEN [chain EXCEPT ![t] = "pool"] ELSE chain
      /\ sender' = [u \in Senders |->
                       IF u = s THEN Idle
                       ELSE [sender[u] EXCEPT
                                !.stale = @ \/ (taken /\ sender[u].tx # NoTx)]]
      /\ made' = made /\ loaded' = loaded
  BY DEF CommitTransaction
<1>2. /\ sender \in Sends /\ chain \in [Tx -> {"none", "pool", "block"}]
      /\ made \in SUBSET Tx /\ loaded \in SUBSET Tx /\ shadowed \in SUBSET Tx
  BY DEF WalletInv, WalletType
<1>3. t \in Tx /\ t \in made /\ Matters(t)
  BY <1>1, <1>2 DEF WalletInv
<1> HIDE DEF t
<1>4. wtx \in CWalletTx /\ wtx.own /\ wtx.vfSpent = {}
  BY <1>3, MadeAre
<1> HIDE DEF wtx
<1>5. taken \in BOOLEAN
  BY DEF Acceptable
<1> HIDE DEF a, st
<1>6. /\ StoredRight(st.wallet, st.disk, a.spends) /\ a.next \in 0..MaxOrder
      /\ Grown(t, st.wallet, a.spends) /\ t \in DOMAIN st.wallet
      /\ ParentsOwned(mapWallet, t) => st.ok
  BY <1>1, <1>3, <1>4, CommitStores DEF a, st
<1>7. /\ StoredRight(mapWallet', disk', mapTxSpends') /\ nOrderPosNext' \in 0..MaxOrder
      /\ Grown(t, mapWallet', mapTxSpends') /\ t \in DOMAIN mapWallet'
  BY <1>1, <1>6
<1>8. /\ chain' \in [Tx -> {"none", "pool", "block"}]
      /\ \A u \in Tx : u # t => chain'[u] = chain[u]
      /\ chain'[t] = IF taken THEN "pool" ELSE chain[t]
      /\ ~taken => chain' = chain
  BY <1>1, <1>2, <1>3
<1>9. OthersGoOn(s, taken)
  <2> HIDE DEF taken
  <2> QED
    BY <1>1, <1>2, <1>5, CommitSends
<1>10. shadowed' \in SUBSET Tx /\ (shadowed' = {} => shadowed = {} /\ Shadows(mapWallet') = {})
  BY <1>1, <1>2, <1>7 DEF StoredRight, IsWallet, Shadows
<1>11. ASSUME shadowed' = {} PROVE Clean' /\ Choosable'
  <2>1. shadowed = {} /\ Shadows(mapWallet') = {} /\ Clean /\ Choosable
    BY <1>10, <1>11 DEF WalletInv
  <2>2. \A u \in DOMAIN mapWallet' : u # t => u \in DOMAIN mapWallet
    BY <1>7, <2>1 DEF Grown, Shadows
  <2>3. chain[t] # "none" => t \in DOMAIN mapWallet
    BY <1>3, <2>1 DEF Clean, Accepted
  <2>4. NetGrown(t, chain', mapWallet')
    BY <1>3, <1>7, <1>8, <2>2, <2>3 DEF NetGrown
  <2>5. DOMAIN mapWallet' \in SUBSET Tx
    BY <1>7 DEF StoredRight, IsWallet
  <2>6. Clean'
    BY <1>1, <1>3, <1>7, <2>1, <2>4, <2>5, CleanGrows
  <2>7. Choosable'
    <3> SUFFICES ASSUME loaded' = {}, NEW x \in Senders, sender'[x].tx # NoTx,
                        ~sender'[x].stale
                 PROVE  Acceptable(chain', sender'[x].tx)
      BY DEF Choosable
    <3>1. x # s
      BY <1>9 DEF OthersGoOn, Idle
    <3>2. sender'[x].tx = sender[x].tx /\ ~sender[x].stale /\ ~taken
      BY <1>9, <3>1 DEF OthersGoOn
    <3> QED
      BY <1>1, <1>8, <2>1, <3>2 DEF Choosable
  <2> QED
    BY <2>6, <2>7
<1>12. \A x \in Senders :
        sender'[x].tx # NoTx => sender'[x].tx \in made' /\ Matters(sender'[x].tx)
  BY <1>1, <1>9 DEF OthersGoOn, Idle, WalletInv
<1>13. WalletInv'
  BY <1>1, <1>2, <1>7, <1>8, <1>9, <1>10, <1>11, <1>12, InvNext DEF OthersGoOn
<1>14. ~sender[s].stale /\ loaded = {} /\ shadowed = {} => chain'[t] = "pool"
  <2> SUFFICES ASSUME ~sender[s].stale, loaded = {}, shadowed = {} PROVE chain'[t] = "pool"
    OBVIOUS
  <2>1. Clean /\ Acceptable(chain, t)
    BY <1>1 DEF WalletInv, Choosable, t
  <2>2. ParentsOwned(mapWallet, t)
    BY <1>3, <2>1, ParentsHeld
  <2> QED
    BY <1>6, <1>8, <2>1, <2>2
<1> QED
  BY <1>1, <1>9, <1>13, <1>14 DEF OthersGoOn, t

-----------------------------------------------------------------------------
(* Erasing, restarting, offering again *)

\* EraseFromWallet, of a transaction that is not accepted.
LEMMA EraseStep ==
    ASSUME WalletInv, NEW t \in Tx, EraseFromWallet(t)
    PROVE  WalletInv' /\ sender' = sender
<1>1. /\ chain[t] = "none"
      /\ mapWallet' = [u \in DOMAIN mapWallet \ {t} |-> mapWallet[u]]
      /\ disk' = [u \in DOMAIN disk \ {t} |-> disk[u]]
      /\ mapTxSpends' = mapTxSpends /\ nOrderPosNext' = nOrderPosNext /\ chain' = chain
      /\ sender' = sender /\ made' = made /\ loaded' = loaded /\ shadowed' = shadowed
  BY DEF EraseFromWallet
<1>2. WalletType /\ DiskRight(mapWallet, disk) /\ MetaRight(mapWallet, mapTxSpends)
  BY DEF WalletInv
<1>3. /\ DOMAIN mapWallet' = DOMAIN mapWallet \ {t} /\ DOMAIN disk' = DOMAIN disk \ {t}
      /\ \A u \in DOMAIN mapWallet' : mapWallet'[u] = mapWallet[u]
      /\ \A u \in DOMAIN disk' : disk'[u] = disk[u]
  BY <1>1
<1>4. IsWallet(mapWallet')
  <2>1. IsWallet(mapWallet)
    BY <1>2 DEF WalletType
  <2>2. mapWallet' \in [DOMAIN mapWallet' -> CWalletTx]
    BY <1>1, <1>3, <2>1 DEF IsWallet
  <2> QED
    BY <1>3, <2>1, <2>2 DEF IsWallet
<1>5. IsDisk(disk')
  <2>1. IsDisk(disk)
    BY <1>2 DEF WalletType
  <2>2. disk' \in [DOMAIN disk' -> Record]
    BY <1>1, <1>3, <2>1 DEF IsDisk
  <2> QED
    BY <1>3, <2>1, <2>2 DEF IsDisk
<1>6. DiskRight(mapWallet', disk')
  BY <1>2, <1>3 DEF DiskRight
<1>7. MetaRight(mapWallet', mapTxSpends)
  BY <1>2, <1>3 DEF MetaRight, Owned
<1>8. StoredRight(mapWallet', disk', mapTxSpends')
  BY <1>1, <1>2, <1>4, <1>5, <1>6, <1>7 DEF StoredRight, WalletType, WalletInv
<1>9. ASSUME shadowed' = {} PROVE Clean' /\ Choosable'
  <2>1. Clean /\ Choosable
    BY <1>1, <1>9 DEF WalletInv
  <2>2. Accepted' = Accepted /\ t \notin Accepted
    BY <1>1 DEF Accepted
  <2>3. Clean'
    BY <1>1, <1>3, <2>1, <2>2 DEF Clean
  <2> QED
    BY <1>1, <2>1, <2>3 DEF Choosable
<1>10. \A s \in Senders :
        sender'[s].tx # NoTx => sender'[s].tx \in made' /\ Matters(sender'[s].tx)
  BY <1>1 DEF WalletInv
<1>11. WalletInv'
  BY <1>1, <1>2, <1>8, <1>9, <1>10, InvNext DEF WalletType
<1> QED
  BY <1>1, <1>11

\* What LoadWallet makes of one record.
LoadedTx(r) ==
    [own |-> TRUE, hashBlock |-> r.hashBlock, fFromMe |-> r.fFromMe,
     fromAccount |-> r.fromAccount, nOrderPos |-> -1, vfSpent |-> r.vfSpent]

\* A record of wallet.dat makes a CWalletTx.
LEMMA LoadedIs ==
    ASSUME NEW r \in Record, NEW p, p = LoadedTx(r)
    PROVE  p \in CWalletTx /\ p.own /\ p.hashBlock = r.hashBlock /\ p.vfSpent = r.vfSpent
<1>1. -1 \in -1..MaxOrder
  BY Constants
<1> QED
  BY <1>1 DEF LoadedTx, CWalletTx, Record

\* The wallet that LoadWallet makes of the records.
LEMMA LoadDoes ==
    ASSUME IsDisk(disk), NEW w, w = LoadWallet
    PROVE  /\ IsWallet(w) /\ DOMAIN w = DOMAIN disk /\ DiskRight(w, disk)
           /\ \A t \in DOMAIN w : w[t].own
<1>1. DOMAIN w = DOMAIN disk /\ w = [t \in DOMAIN w |-> w[t]]
  BY DEF LoadWallet
<1>2. \A t \in DOMAIN w : w[t] = LoadedTx(disk[t])
  BY DEF LoadWallet, LoadedTx
<1>3. ASSUME NEW t \in DOMAIN w
      PROVE  /\ w[t] \in CWalletTx /\ w[t].own /\ w[t].hashBlock = disk[t].hashBlock
             /\ w[t].vfSpent = disk[t].vfSpent
  <2>1. disk[t] \in Record /\ w[t] = LoadedTx(disk[t])
    BY <1>1, <1>2 DEF IsDisk
  <2> QED
    BY <2>1, LoadedIs
<1>4. IsWallet(w)
  <2>1. w \in [DOMAIN w -> CWalletTx]
    BY <1>1, <1>3
  <2> QED
    BY <1>1, <1>3, <2>1 DEF IsWallet, IsDisk, SpentOf
<1> QED
  BY <1>1, <1>3, <1>4 DEF DiskRight

\* A restart, which changes the wallet if it finds any record.
LEMMA RestartStep ==
    ASSUME WalletInv, Restart
    PROVE  /\ WalletInv'
           /\ loaded' = {} /\ shadowed = {} => mapWallet' = mapWallet
<1>1. /\ mapWallet' = LoadWallet /\ mapTxSpends' = [c \in Coins |-> {}]
      /\ nOrderPosNext' = 0
      /\ chain' = [t \in Tx |-> IF chain[t] = "pool" THEN "none" ELSE chain[t]]
      /\ sender' = [s \in Senders |-> Idle] /\ loaded' = DOMAIN disk
      /\ disk' = disk /\ made' = made /\ shadowed' = shadowed
  BY DEF Restart
<1>2. WalletType /\ DiskRight(mapWallet, disk) /\ IsDisk(disk) /\ IsWallet(mapWallet)
  BY DEF WalletInv, WalletType
<1>3. /\ IsWallet(mapWallet') /\ DOMAIN mapWallet' = DOMAIN disk
      /\ DiskRight(mapWallet', disk) /\ \A t \in DOMAIN mapWallet' : mapWallet'[t].own
  <2> DEFINE w == mapWallet'
  <2>1. w = LoadWallet
    BY <1>1
  <2> HIDE DEF w
  <2>2. /\ IsWallet(w) /\ DOMAIN w = DOMAIN disk /\ DiskRight(w, disk)
        /\ \A t \in DOMAIN w : w[t].own
    BY <1>2, <2>1, LoadDoes
  <2> QED
    BY <2>2 DEF w
<1>4. StoredRight(mapWallet', disk', mapTxSpends')
  <2>1. /\ mapTxSpends' \in [Coins -> SUBSET Tx] /\ SpendsRight(mapTxSpends')
        /\ MetaRight(mapWallet', mapTxSpends')
    BY <1>1 DEF SpendsRight, MetaRight
  <2> QED
    BY <1>1, <1>2, <1>3, <2>1 DEF StoredRight
<1>5. /\ chain' \in [Tx -> {"none", "pool", "block"}]
      /\ \A t \in Tx : /\ chain'[t] # "none" => chain[t] = "block" /\ chain'[t] = "block"
                       /\ chain[t] = "block" => chain'[t] = "block"
  BY <1>1, <1>2 DEF WalletType
<1>6. /\ sender' \in Sends /\ \A s \in Senders : sender'[s] = Idle
      /\ Idle.tx = NoTx
  BY <1>1 DEF Sends, Idle
<1>7. nOrderPosNext' \in 0..MaxOrder
  BY <1>1, Constants
<1>8. ASSUME shadowed' = {} PROVE Clean' /\ Choosable'
  <2>1. Clean
    BY <1>1, <1>8 DEF WalletInv
  <2>2. DOMAIN mapWallet' = DOMAIN mapWallet
    BY <1>2, <1>3, <2>1 DEF Clean, DiskRight
  <2>3. \A t \in DOMAIN mapWallet : mapWallet'[t].hashBlock = mapWallet[t].hashBlock
    BY <1>2, <1>3, <2>1, <2>2 DEF Clean, DiskRight
  <2>4. \A t \in DOMAIN mapWallet' : mapWallet'[t].own /\ t \in made'
    BY <1>1, <1>3, <2>1, <2>2 DEF Clean
  <2>5. \A t \in Tx : chain'[t] # "none" => t \in made' /\ (Matters(t) => t \in DOMAIN mapWallet')
    BY <1>1, <1>5, <2>1, <2>2 DEF Clean, Accepted
  <2>6. DOMAIN mapWallet' \ loaded' = {}
    BY <1>1, <1>3
  <2>7. \A t \in DOMAIN mapWallet' : chain'[t] = "block" => mapWallet'[t].hashBlock
    BY <1>2, <1>5, <2>1, <2>2, <2>3 DEF Clean, IsWallet
  <2>8. Choosable'
    BY <1>6 DEF Choosable
  <2> QED
    BY <2>4, <2>5, <2>6, <2>7, <2>8 DEF Clean, Accepted
<1>9. \A s \in Senders :
        sender'[s].tx # NoTx => sender'[s].tx \in made' /\ Matters(sender'[s].tx)
  BY <1>6
<1>10. made' \in SUBSET Tx /\ loaded' \in SUBSET Tx /\ shadowed' \in SUBSET Tx
  BY <1>1, <1>2 DEF WalletType, IsDisk
<1>11. WalletInv'
  BY <1>4, <1>5, <1>6, <1>7, <1>8, <1>9, <1>10, InvNext
<1>12. ASSUME loaded' = {}, shadowed = {} PROVE mapWallet' = mapWallet
  <2>1. Clean
    BY <1>12 DEF WalletInv
  <2>2. DOMAIN mapWallet = {} /\ DOMAIN mapWallet' = {}
    BY <1>1, <1>2, <1>3, <1>12, <2>1 DEF Clean, DiskRight
  <2>3. mapWallet \in [{} -> CWalletTx] /\ mapWallet' \in [{} -> CWalletTx]
    BY <1>2, <1>3, <2>2 DEF IsWallet
  <2> QED
    BY <2>3
<1> QED
  BY <1>11, <1>12

\* The network after some of the offers: the wallet's are new in the pool.
OfferedRight(net) ==
    /\ net \in [Tx -> {"none", "pool", "block"}]
    /\ \A t \in Tx : net[t] = chain[t] \/ (net[t] = "pool" /\ Has(t))

\* ReacceptWalletTransactions.
LEMMA ReacceptStep ==
    ASSUME WalletInv, ReacceptWalletTransactions
    PROVE  WalletInv' /\ GoesOn
<1> DEFINE n == Len(Txs)
<1>1. PICK g : Loop("offer", NoTx, chain, n, g) /\ chain' = g[n]
  BY ReacceptedIs
<1>2. n \in Nat /\ \A i \in 1..n : Txs[i] \in Tx
  BY WalletAssumption
<1> HIDE DEF n
<1>3. g[0] = chain /\ \A i \in 1..n : g[i] = Offered(g[i - 1], Txs[i])
  <2>1. g[0] = chain /\ \A i \in 1..n : g[i] = Turn("offer", NoTx, g[i - 1], i)
    BY <1>1, <1>2, LoopTurns
  <2> QED
    BY <2>1 DEF Turn
<1> DEFINE S == {i \in 0..n : OfferedRight(g[i])}
<1>4. 0 \in S
  <2>1. OfferedRight(chain)
    BY DEF OfferedRight, WalletInv, WalletType
  <2> QED
    BY <1>2, <1>3, <2>1
<1>5. ASSUME NEW i \in 1..n, i - 1 \in S PROVE i \in S
  <2> DEFINE net == g[i - 1]
             t == Txs[i]
  <2>1. OfferedRight(net) /\ t \in Tx /\ g[i] = Offered(net, t) /\ i \in 0..n
    BY <1>2, <1>3, <1>5
  <2> HIDE DEF net, t
  <2>2. OfferedRight(g[i])
    <3>1. CASE Has(t) /\ Acceptable(net, t)
      <4> DEFINE r == [net EXCEPT ![t] = "pool"]
      <4>1. g[i] = r
        BY <2>1, <3>1 DEF Offered
      <4>2. /\ r \in [Tx -> {"none", "pool", "block"}] /\ r[t] = "pool"
            /\ \A u \in Tx : u # t => r[u] = net[u]
        BY <2>1 DEF OfferedRight
      <4> HIDE DEF r
      <4> QED
        BY <2>1, <3>1, <4>1, <4>2 DEF OfferedRight
    <3>2. CASE ~(Has(t) /\ Acceptable(net, t))
      BY <2>1, <3>2 DEF Offered
    <3> QED
      BY <3>1, <3>2
  <2> QED
    BY <2>1, <2>2
<1>6. OfferedRight(chain')
  <2>1. \A i \in 0..n : i \in S
    <3> HIDE DEF S
    <3> QED
      BY <1>2, <1>4, <1>5, Induct
  <2>2. n \in 0..n
    BY <1>2
  <2> QED
    BY <1>1, <2>1, <2>2
<1>7. /\ mapWallet' = mapWallet /\ mapTxSpends' = mapTxSpends /\ disk' = disk
      /\ nOrderPosNext' = nOrderPosNext /\ made' = made /\ loaded' = loaded
      /\ shadowed' = shadowed /\ Stale
  BY DEF ReacceptWalletTransactions, walletVars
<1>8. GoesOn
  BY <1>7, StaleDoes
<1>9. StoredRight(mapWallet', disk', mapTxSpends')
  BY <1>7, StoredNow
<1>10. ASSUME shadowed' = {} PROVE Clean' /\ Choosable'
  <2>1. Clean
    BY <1>7, <1>10 DEF WalletInv
  <2>2. Clean'
    BY <1>6, <1>7, <2>1 DEF Clean, Accepted, OfferedRight, Has, WalletInv, WalletType, IsWallet
  <2>3. Choosable'
    BY <1>8 DEF Choosable, GoesOn
  <2> QED
    BY <2>2, <2>3
<1>11. \A s \in Senders :
        sender'[s].tx # NoTx => sender'[s].tx \in made' /\ Matters(sender'[s].tx)
  BY <1>7, <1>8 DEF GoesOn, WalletInv
<1>12. WalletInv'
  BY <1>6, <1>7, <1>8, <1>9, <1>10, <1>11, InvNext
     DEF OfferedRight, GoesOn, WalletInv, WalletType
<1> QED
  BY <1>8, <1>12

-----------------------------------------------------------------------------
(* The theorems *)

\* The invariant holds of an empty wallet.
LEMMA WalletInit ==
    ASSUME Init
    PROVE  WalletInv
<1>1. /\ mapWallet = << >> /\ mapTxSpends = [c \in Coins |-> {}] /\ nOrderPosNext = 0
      /\ disk = << >> /\ chain = [t \in Tx |-> "none"]
      /\ sender = [s \in Senders |-> Idle] /\ made = {} /\ loaded = {} /\ shadowed = {}
  BY DEF Init
<1>2. IsWallet(mapWallet) /\ IsDisk(disk) /\ DOMAIN mapWallet = {} /\ DOMAIN disk = {}
  <2>1. \A f, S : f = << >> => DOMAIN f = {} /\ f \in [DOMAIN f -> S]
    OBVIOUS
  <2> QED
    BY <1>1, <2>1 DEF IsWallet, IsDisk
<1>3. sender \in Sends /\ \A s \in Senders : sender[s].tx = NoTx
  BY <1>1 DEF Sends, Idle
<1>4. WalletType
  BY <1>1, <1>2, <1>3, Constants DEF WalletType
<1>5. DiskRight(mapWallet, disk) /\ SpendsRight(mapTxSpends) /\ MetaRight(mapWallet, mapTxSpends)
  BY <1>1, <1>2 DEF DiskRight, SpendsRight, MetaRight
<1>6. Clean /\ Choosable
  BY <1>1, <1>2, <1>3 DEF Clean, Choosable, Accepted
<1> QED
  BY <1>3, <1>4, <1>5, <1>6 DEF WalletInv

\* What CommitAccepted says of a step.
SendsTaken ==
    \A s \in Senders :
         /\ sender[s].tx # NoTx /\ sender'[s] = Idle /\ mapWallet' # mapWallet
         /\ ~sender[s].stale
         /\ loaded = {} /\ loaded' = {} /\ shadowed = {}
         => chain'[sender[s].tx] = "pool"

\* The invariant, and what CommitAccepted says, from a step to the next.
LEMMA WalletNext ==
    ASSUME WalletInv, [Next]_vars
    PROVE  WalletInv' /\ SendsTaken
<1>1. Idle.tx = NoTx
  BY DEF Idle
<1>2. GoesOn => SendsTaken
  BY <1>1 DEF GoesOn, SendsTaken
<1>3. ASSUME NEW t \in Tx, Receive(t) PROVE WalletInv' /\ SendsTaken
  BY <1>2, <1>3, ReceiveStep
<1>4. ASSUME NEW t \in Tx, ConnectBlock(t) PROVE WalletInv' /\ SendsTaken
  BY <1>2, <1>4, ConnectStep
<1>5. ASSUME NEW t \in Tx, DisconnectBlock(t) PROVE WalletInv' /\ SendsTaken
  BY <1>2, <1>5, DisconnectStep
<1>6. ASSUME NEW s \in Senders, NEW t \in Tx, CreateTransaction(s, t)
      PROVE  WalletInv' /\ SendsTaken
  BY <1>6, CreateStep DEF SendsTaken
<1>7. ASSUME NEW s \in Senders, Abort(s) PROVE WalletInv' /\ SendsTaken
  BY <1>7, AbortStep DEF SendsTaken
<1>8. ASSUME NEW s \in Senders, CommitTransaction(s) PROVE WalletInv' /\ SendsTaken
  <2>1. /\ WalletInv' /\ \A x \in Senders : x # s => sender'[x].tx = sender[x].tx
        /\ ~sender[s].stale /\ loaded = {} /\ shadowed = {} =>
             chain'[sender[s].tx] = "pool"
    BY <1>8, CommitStep
  <2> QED
    BY <1>1, <2>1 DEF SendsTaken
<1>9. ASSUME NEW t \in Tx, EraseFromWallet(t) PROVE WalletInv' /\ SendsTaken
  BY <1>1, <1>9, EraseStep DEF SendsTaken
<1>10. CASE Restart
  BY <1>10, RestartStep DEF SendsTaken
<1>11. CASE ReacceptWalletTransactions
  BY <1>2, <1>11, ReacceptStep
<1>12. CASE UNCHANGED vars
  <2>1. UNCHANGED <<walletVars, chain, loaded, shadowed>> /\ sender' = sender /\ made' = made
    BY <1>12 DEF vars, walletVars
  <2>2. shadowed = {} => Choosable'
    BY <2>1 DEF WalletInv, Choosable
  <2>3. WalletInv'
    BY <2>1, <2>2, OnlySends DEF WalletInv, WalletType
  <2>4. mapWallet' = mapWallet
    BY <1>12 DEF vars
  <2> QED
    BY <2>3, <2>4 DEF SendsTaken
<1> QED
  BY <1>3, <1>4, <1>5, <1>6, <1>7, <1>8, <1>9, <1>10, <1>11, <1>12 DEF Next

\* The invariant holds throughout.
LEMMA WalletAlways == Spec => []WalletInv
<1>1. Init => WalletInv
  BY WalletInit
<1>2. WalletInv /\ [Next]_vars => WalletInv'
  BY WalletNext
<1> QED
  BY <1>1, <1>2, PTL DEF Spec

\* AvailableCoins offers no coin that an accepted transaction spends, whoever made the
\* transaction and in whatever order the wallet heard of it, unless this run read it
\* from wallet.dat or a default CWalletTx took the place of a transaction.
THEOREM SpentIsNotOffered == Spec => []NoSpentCoinOffered
<1>1. WalletInv => NoSpentCoinOffered
  BY SpentNotOffered DEF NoSpentCoinOffered
<1> QED
  BY <1>1, WalletAlways, PTL

\* AddToWallet, MarkSpent, EraseFromWallet and LoadWallet leave wallet.dat with what
\* the wallet has, each of its transactions, the block and the coins marked spent;
\* SyncMetaData: the transactions that spend one and the same coin have the metadata
\* of one of them; and every variable has its type.
THEOREM RecordsAlwaysAgree == Spec => []RecordsAgree
<1>1. WalletInv => TypeOK
  BY DEF WalletInv, WalletType, IsWallet, IsDisk, SpentOf, Sends, TypeOK
<1>2. WalletInv => DiskCurrent
  BY DEF WalletInv, DiskRight, DiskCurrent
<1>3. WalletInv => MetadataShared
  BY DEF WalletInv, MetaRight, MetadataShared, Has, Owned, Alone
<1>4. WalletInv => RecordsAgree
  BY <1>1, <1>2, <1>3 DEF RecordsAgree
<1> QED
  BY <1>4, WalletAlways, PTL

\* CommitTransaction, "This must not fail": the pool takes a send that nothing came
\* between, while no spend was forgotten by a restart or behind a default CWalletTx.
THEOREM SendsAreAccepted == Spec => CommitAccepted
<1>1. WalletInv /\ [Next]_vars =>
        [\A s \in Senders :
           /\ sender[s].tx # NoTx /\ sender'[s] = Idle /\ mapWallet' # mapWallet
           /\ ~sender[s].stale
           /\ loaded = {} /\ loaded' = {} /\ shadowed = {}
           => chain'[sender[s].tx] = "pool"]_vars
  BY WalletNext DEF SendsTaken
<1> QED
  BY <1>1, WalletAlways, PTL DEF Spec, CommitAccepted
=============================================================================
