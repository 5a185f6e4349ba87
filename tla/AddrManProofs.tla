---------------------------- MODULE AddrManProofs ----------------------------
(***************************************************************************)
(* The structures of CAddrMan agree, for every number of addresses and     *)
(* buckets and all their sizes, through every add, eviction, swap, delete  *)
(* and load; and no load loses an address.                                 *)
(***************************************************************************)
EXTENDS AddrMan, FiniteSetTheorems, IntervalFacts

-----------------------------------------------------------------------------
(* The inductive invariant, of a table a *)

Entry == [host : Hosts, port : Ports, source : Sources, nRefCount : Int,
          fInTried : BOOLEAN, nRandomPos : Nat, nLastSuccess : 0..MaxTime]
InfoMaps == UNION {[D -> Entry] : D \in SUBSET Ids}
Tables == [nIdCount : 0..MaxId, mapInfo : InfoMaps,
           mapAddr : [Hosts -> Ids \cup {None}], vRandom : Seq(Ids),
           nTried : Int, vvTried : [TriedBuckets -> Seq(Ids)],
           nNew : Int, vvNew : [NewBuckets -> SUBSET Ids]]

Entries(a) == DOMAIN a.mapInfo
Tried(a) == {id \in Entries(a) : a.mapInfo[id].fInTried}
New(a) == {id \in Entries(a) : ~a.mapInfo[id].fInTried}
HashedTo(info) == TriedBucketOf[info.host, info.port]

\* vRandom and nRandomPos are inverse to each other, and so are mapAddr and the hosts.
IndexRight(a) ==
    /\ Entries(a) \subseteq 1..a.nIdCount
    /\ \A i \in DOMAIN a.vRandom :
         a.vRandom[i] \in Entries(a) /\ a.mapInfo[a.vRandom[i]].nRandomPos = i
    /\ \A id \in Entries(a) :
         /\ a.mapInfo[id].nRandomPos \in DOMAIN a.vRandom
         /\ a.vRandom[a.mapInfo[id].nRandomPos] = id
         /\ a.mapAddr[a.mapInfo[id].host] = id
    /\ \A h \in Hosts :
         a.mapAddr[h] # None => a.mapAddr[h] \in Entries(a)
                                /\ a.mapInfo[a.mapAddr[h]].host = h

CountRight(a) ==
    /\ a.nTried = Cardinality(Tried(a))
    /\ a.nNew = Cardinality(New(a))
    /\ Len(a.vRandom) = a.nTried + a.nNew

\* A tried entry is once in the bucket its hash says and nowhere else.
TriedRight(a) ==
    /\ \A k \in TriedBuckets :
         /\ Len(a.vvTried[k]) <= TriedBucketSize
         /\ \A i \in DOMAIN a.vvTried[k] :
              /\ a.vvTried[k][i] \in Tried(a)
              /\ HashedTo(a.mapInfo[a.vvTried[k][i]]) = k
              /\ \A j \in DOMAIN a.vvTried[k] : a.vvTried[k][i] = a.vvTried[k][j] => i = j
    /\ \A id \in Tried(a) :
         /\ \E i \in DOMAIN a.vvTried[HashedTo(a.mapInfo[id])] :
              a.vvTried[HashedTo(a.mapInfo[id])][i] = id
         /\ a.mapInfo[id].nLastSuccess # 0

NewRight(a) ==
    \A b \in NewBuckets : /\ a.vvNew[b] \subseteq New(a)
                          /\ Cardinality(a.vvNew[b]) <= NewBucketSize

\* What holds even while a reference count is ahead of the buckets.
Sound(a) == a \in Tables /\ IndexRight(a) /\ CountRight(a) /\ TriedRight(a) /\ NewRight(a)

Counted(a, id) ==
    /\ a.mapInfo[id].nRefCount = Cardinality(BucketsWith(a, id))
    /\ a.mapInfo[id].fInTried \/ a.mapInfo[id].nRefCount \in 1..BucketsPerAddress

AddrRight(a) == Sound(a) /\ \A id \in Entries(a) : Counted(a, id)

AddrInv == AddrRight(am)
-----------------------------------------------------------------------------
(* Types *)

\* A map of entries is a function from its own ids.
LEMMA InfoMapsIs ==
    ASSUME NEW m
    PROVE  m \in InfoMaps <=> DOMAIN m \in SUBSET Ids /\ m \in [DOMAIN m -> Entry]
<1>1. ASSUME m \in InfoMaps PROVE DOMAIN m \in SUBSET Ids /\ m \in [DOMAIN m -> Entry]
  <2>1. PICK D \in SUBSET Ids : m \in [D -> Entry]
    BY <1>1 DEF InfoMaps
  <2>2. DOMAIN m = D
    BY <2>1
  <2> QED
    BY <2>1, <2>2
<1>2. ASSUME DOMAIN m \in SUBSET Ids, m \in [DOMAIN m -> Entry] PROVE m \in InfoMaps
  BY <1>2 DEF InfoMaps
<1> QED
  BY <1>1, <1>2

\* The tables with these fields.
TableOf(n, m, w, r, tried, nTried, new, nNew) ==
    [nIdCount |-> n, mapInfo |-> m, mapAddr |-> w, vRandom |-> r,
     nTried |-> nTried, vvTried |-> tried, nNew |-> nNew, vvNew |-> new]

\* What is known of a table.
LEMMA TableIs ==
    ASSUME NEW a \in Tables
    PROVE  /\ a.nIdCount \in 0..MaxId /\ MaxId \in Nat /\ MaxTime \in Nat
           /\ Entries(a) \in SUBSET Ids /\ a.mapInfo \in [Entries(a) -> Entry]
           /\ a.mapAddr \in [Hosts -> Ids \cup {None}]
           /\ a.vRandom \in Seq(Ids) /\ Len(a.vRandom) \in Nat
           /\ DOMAIN a.vRandom = 1..Len(a.vRandom)
           /\ a.nTried \in Int /\ a.nNew \in Int
           /\ a.vvTried \in [TriedBuckets -> Seq(Ids)]
           /\ a.vvNew \in [NewBuckets -> SUBSET Ids]
           /\ None \notin Ids
<1>1. a.mapInfo \in InfoMaps
  BY DEF Tables
<1>2. Entries(a) \in SUBSET Ids /\ a.mapInfo \in [Entries(a) -> Entry]
  BY <1>1, InfoMapsIs DEF Entries
<1>3. MaxId \in Nat /\ MaxTime \in Nat
  BY BucketAssumption
<1> QED
  BY <1>2, <1>3 DEF Tables, Ids, None

\* There are finitely many entries and finitely many buckets.
LEMMA Finite ==
    ASSUME NEW a \in Tables
    PROVE  /\ IsFiniteSet(Entries(a)) /\ IsFiniteSet(Tried(a)) /\ IsFiniteSet(New(a))
           /\ Cardinality(Tried(a)) \in Nat /\ Cardinality(New(a)) \in Nat
           /\ \A b \in NewBuckets : IsFiniteSet(a.vvNew[b]) /\ Cardinality(a.vvNew[b]) \in Nat
           /\ \A id : IsFiniteSet(BucketsWith(a, id)) /\ Cardinality(BucketsWith(a, id)) \in Nat
<1>1. IsFiniteSet(Ids)
  <2>1. MaxId \in Int
    BY TableIs
  <2> QED
    BY <2>1, FS_Interval DEF Ids
<1>2. Entries(a) \in SUBSET Ids /\ Tried(a) \in SUBSET Ids /\ New(a) \in SUBSET Ids
  BY TableIs DEF Tried, New
<1>3. \A b \in NewBuckets : a.vvNew[b] \in SUBSET Ids
  BY TableIs
<1>4. \A id : BucketsWith(a, id) \in SUBSET NewBuckets
  BY DEF BucketsWith
<1>5. IsFiniteSet(NewBuckets)
  BY BucketAssumption
<1> QED
  BY <1>1, <1>2, <1>3, <1>4, <1>5, FS_Subset, FS_CardinalityType

-----------------------------------------------------------------------------
(* SwapRandom *)

\* What an entry says apart from its position.
SameInfo(p, q) ==
    /\ p.host = q.host /\ p.port = q.port /\ p.source = q.source
    /\ p.nRefCount = q.nRefCount /\ p.fInTried = q.fInTried
    /\ p.nLastSuccess = q.nLastSuccess

\* Tables that differ in positions only.
SameButPos(a, b) ==
    /\ Entries(b) = Entries(a)
    /\ \A id \in Entries(a) : SameInfo(b.mapInfo[id], a.mapInfo[id])
    /\ b.nIdCount = a.nIdCount /\ b.mapAddr = a.mapAddr
    /\ b.nTried = a.nTried /\ b.nNew = a.nNew
    /\ b.vvTried = a.vvTried /\ b.vvNew = a.vvNew

\* Positions do not matter to the counts and the buckets.
LEMMA PosKeeps ==
    ASSUME NEW a, NEW b, CountRight(a), TriedRight(a), NewRight(a), SameButPos(a, b),
           Len(b.vRandom) = Len(a.vRandom)
    PROVE  /\ CountRight(b) /\ TriedRight(b) /\ NewRight(b)
           /\ \A id \in Entries(a) : Counted(a, id) => Counted(b, id)
<1>0. /\ Entries(b) = Entries(a)
      /\ \A id \in Entries(a) : b.mapInfo[id].fInTried = a.mapInfo[id].fInTried
  BY DEF SameButPos, SameInfo
<1>1. Tried(b) = Tried(a) /\ New(b) = New(a)
  BY <1>0 DEF Tried, New
<1>2. \A id \in Entries(a) : HashedTo(b.mapInfo[id]) = HashedTo(a.mapInfo[id])
  BY DEF SameButPos, SameInfo, HashedTo
<1>3. CountRight(b) /\ NewRight(b)
  BY <1>1 DEF CountRight, NewRight, SameButPos
<1>4. TriedRight(b)
  <2>1. \A id \in Tried(a) : id \in Entries(a)
    BY DEF Tried
  <2>2. b.vvTried = a.vvTried
    BY DEF SameButPos
  <2>3. \A id \in Tried(a) : b.mapInfo[id].nLastSuccess = a.mapInfo[id].nLastSuccess
    BY <2>1 DEF SameButPos, SameInfo
  <2> QED
    BY <1>1, <1>2, <2>1, <2>2, <2>3 DEF TriedRight
<1>5. \A id \in Entries(a) : Counted(a, id) => Counted(b, id)
  BY DEF Counted, SameButPos, SameInfo, BucketsWith
<1> QED
  BY <1>3, <1>4, <1>5

\* An entry with another position.
Repositioned(p, k, q) == q \in Entry /\ SameInfo(q, p) /\ q.nRandomPos = k
LEMMA PositionSet ==
    ASSUME NEW p \in Entry, NEW k \in Nat
    PROVE  Repositioned(p, k, [p EXCEPT !.nRandomPos = k])
BY DEF Repositioned, SameInfo, Entry

\* SwapRandom exchanges two ids of vRandom and their positions, nothing else.
LEMMA SwapDoes ==
    ASSUME NEW a \in Tables, IndexRight(a),
           NEW i \in DOMAIN a.vRandom, NEW j \in DOMAIN a.vRandom,
           NEW b, b = SwapRandom(a, i, j)
    PROVE  /\ b \in Tables /\ SameButPos(a, b)
           /\ \A id \in Entries(a) : b.mapInfo[id].nRandomPos =
                  IF id = a.vRandom[j] THEN i ELSE IF id = a.vRandom[i] THEN j
                  ELSE a.mapInfo[id].nRandomPos
           /\ Len(b.vRandom) = Len(a.vRandom)
           /\ \A n \in DOMAIN a.vRandom : b.vRandom[n] =
                  IF n = j THEN a.vRandom[i] ELSE IF n = i THEN a.vRandom[j]
                  ELSE a.vRandom[n]
<1> DEFINE x == a.vRandom[i]
           y == a.vRandom[j]
           m == [[a.mapInfo EXCEPT ![x].nRandomPos = j] EXCEPT ![y].nRandomPos = i]
           r == SwapAt(a.vRandom, i, j)
<1>1. /\ a.mapInfo \in [Entries(a) -> Entry] /\ Entries(a) \in SUBSET Ids
      /\ a.vRandom \in Seq(Ids) /\ DOMAIN a.vRandom = 1..Len(a.vRandom)
      /\ Len(a.vRandom) \in Nat
  BY TableIs
<1>2. x \in Entries(a) /\ y \in Entries(a) /\ x \in Ids /\ y \in Ids
  BY <1>1 DEF IndexRight
<1>3. b = [a EXCEPT !.mapInfo = m, !.vRandom = r]
  <2> DEFINE e == [a.mapInfo[x] EXCEPT !.nRandomPos = j]
             m1 == [a.mapInfo EXCEPT ![x] = e]
             a1 == [a EXCEPT !.mapInfo = m1]
             a2 == [a1 EXCEPT !.mapInfo = m]
  <2>1. a1.mapInfo = m1
    BY DEF Tables
  <2>2. m = [m1 EXCEPT ![y].nRandomPos = i]
    OBVIOUS
  <2> HIDE DEF m1, m
  <2>3. [a1 EXCEPT !.mapInfo[y].nRandomPos = i] = a2
    BY <2>1, <2>2
  <2>4. a2.vRandom = a.vRandom /\ a2 = [a EXCEPT !.mapInfo = m]
    BY DEF Tables
  <2>5. b = [[a1 EXCEPT !.mapInfo[y].nRandomPos = i] EXCEPT !.vRandom = SwapAt(@, i, j)]
    BY DEF SwapRandom, m1
  <2> HIDE DEF a1, a2
  <2>6. b = [a2 EXCEPT !.vRandom = r]
    BY <2>3, <2>4, <2>5
  <2> QED
    BY <2>4, <2>6
<1>4. /\ m \in [Entries(a) -> Entry]
      /\ \A id \in Entries(a) : /\ SameInfo(m[id], a.mapInfo[id])
                                /\ m[id].nRandomPos = IF id = y THEN i ELSE IF id = x THEN j
                                                      ELSE a.mapInfo[id].nRandomPos
  <2>1. i \in Nat /\ j \in Nat
    BY <1>1
  <2> DEFINE e == [a.mapInfo[x] EXCEPT !.nRandomPos = j]
             m1 == [a.mapInfo EXCEPT ![x] = e]
             f == [m1[y] EXCEPT !.nRandomPos = i]
  <2>2. Repositioned(a.mapInfo[x], j, e)
    BY <1>1, <1>2, <2>1, PositionSet
  <2> HIDE DEF e
  <2>3. m1 \in [Entries(a) -> Entry] /\ m1[x] = e
        /\ \A id \in Entries(a) \ {x} : m1[id] = a.mapInfo[id]
    BY <1>1, <1>2, <2>2 DEF Repositioned
  <2>4. m = [m1 EXCEPT ![y] = f]
    BY DEF e
  <2> HIDE DEF m1, m
  <2>5. Repositioned(m1[y], i, f)
    BY <1>2, <2>1, <2>3, PositionSet
  <2> HIDE DEF f
  <2>6. m \in [Entries(a) -> Entry] /\ m[y] = f
        /\ \A id \in Entries(a) \ {y} : m[id] = m1[id]
    BY <1>2, <2>3, <2>4, <2>5 DEF Repositioned
  <2>7. ASSUME NEW id \in Entries(a)
        PROVE  /\ SameInfo(m[id], a.mapInfo[id])
               /\ m[id].nRandomPos = IF id = y THEN i ELSE IF id = x THEN j
                                     ELSE a.mapInfo[id].nRandomPos
    <3>1. SameInfo(m1[id], a.mapInfo[id])
      BY <2>2, <2>3 DEF Repositioned, SameInfo
    <3>2. m1[id].nRandomPos = IF id = x THEN j ELSE a.mapInfo[id].nRandomPos
      BY <2>2, <2>3 DEF Repositioned
    <3>3. CASE id = y
      <4>1. m[id] = f /\ SameInfo(f, m1[id]) /\ f.nRandomPos = i
        BY <2>5, <2>6, <3>3 DEF Repositioned
      <4> QED
        BY <3>1, <3>3, <4>1 DEF SameInfo
    <3>4. CASE id # y
      BY <2>6, <3>1, <3>2, <3>4
    <3> QED
      BY <3>3, <3>4
  <2> QED
    BY <2>6, <2>7
<1>6. /\ r \in Seq(Ids) /\ Len(r) = Len(a.vRandom)
      /\ \A n \in DOMAIN a.vRandom : r[n] = IF n = j THEN x ELSE IF n = i THEN y
                                            ELSE a.vRandom[n]
  BY <1>1, <1>2 DEF SwapAt
<1>7. m \in InfoMaps /\ DOMAIN m = Entries(a)
  <2>1. DOMAIN m = Entries(a)
    BY <1>4
  <2> HIDE DEF m
  <2> QED
    BY <1>1, <1>4, <2>1, InfoMapsIs
<1> HIDE DEF m, r
<1>8. /\ b \in Tables /\ b.mapInfo = m /\ b.vRandom = r
      /\ b.nIdCount = a.nIdCount /\ b.mapAddr = a.mapAddr
      /\ b.nTried = a.nTried /\ b.nNew = a.nNew
      /\ b.vvTried = a.vvTried /\ b.vvNew = a.vvNew
  BY <1>3, <1>6, <1>7 DEF Tables
<1>9. SameButPos(a, b)
  BY <1>4, <1>7, <1>8 DEF SameButPos, Entries
<1> QED
  BY <1>4, <1>6, <1>8, <1>9

\* SwapRandom keeps the tables sound.
LEMMA SwapKeeps ==
    ASSUME NEW a, Sound(a), NEW i \in DOMAIN a.vRandom, NEW j \in DOMAIN a.vRandom,
           NEW b, b = SwapRandom(a, i, j)
    PROVE  /\ Sound(b) /\ SameButPos(a, b)
           /\ \A id \in Entries(a) : Counted(a, id) => Counted(b, id)
<1> USE DEF Sound
<1>1. a \in Tables /\ DOMAIN a.vRandom = 1..Len(a.vRandom)
  BY TableIs
<1>2. /\ b \in Tables /\ SameButPos(a, b)
      /\ \A id \in Entries(a) : b.mapInfo[id].nRandomPos =
             IF id = a.vRandom[j] THEN i ELSE IF id = a.vRandom[i] THEN j
             ELSE a.mapInfo[id].nRandomPos
      /\ Len(b.vRandom) = Len(a.vRandom)
      /\ \A n \in DOMAIN a.vRandom : b.vRandom[n] =
             IF n = j THEN a.vRandom[i] ELSE IF n = i THEN a.vRandom[j] ELSE a.vRandom[n]
  BY <1>1, SwapDoes
<1>3. DOMAIN b.vRandom = DOMAIN a.vRandom
  BY <1>1, <1>2, TableIs
<1>4. /\ \A id \in Entries(a) : b.mapInfo[id].host = a.mapInfo[id].host
      /\ Entries(b) = Entries(a) /\ b.nIdCount = a.nIdCount /\ b.mapAddr = a.mapAddr
  BY <1>2 DEF SameButPos, SameInfo
<1>5. IndexRight(b)
  <2>0. /\ \A n \in DOMAIN a.vRandom : a.vRandom[n] \in Entries(a)
                                       /\ a.mapInfo[a.vRandom[n]].nRandomPos = n
        /\ \A id \in Entries(a) : a.mapInfo[id].nRandomPos \in DOMAIN a.vRandom
                                  /\ a.vRandom[a.mapInfo[id].nRandomPos] = id
    BY DEF IndexRight
  <2>1. \A n \in DOMAIN a.vRandom :
          b.vRandom[n] \in Entries(a) /\ b.mapInfo[b.vRandom[n]].nRandomPos = n
    <3> TAKE n \in DOMAIN a.vRandom
    <3> DEFINE x == a.vRandom[i]
               y == a.vRandom[j]
    <3>4. x \in Entries(a) /\ y \in Entries(a) /\ (x = y => i = j)
      BY <2>0
    <3>1. CASE n = j
      <4>1. b.vRandom[n] = x
        BY <1>2, <3>1
      <4>2. b.mapInfo[x].nRandomPos = IF x = y THEN i ELSE j
        BY <1>2, <3>4
      <4> QED
        BY <3>1, <3>4, <4>1, <4>2
    <3>2. CASE n # j /\ n = i
      <4>1. b.vRandom[n] = y
        BY <1>2, <3>2
      <4>2. b.mapInfo[y].nRandomPos = i
        BY <1>2, <3>4
      <4> QED
        BY <3>2, <3>4, <4>1, <4>2
    <3>3. CASE n # j /\ n # i
      <4> DEFINE z == a.vRandom[n]
      <4>1. z # x /\ z # y /\ z \in Entries(a) /\ a.mapInfo[z].nRandomPos = n
        BY <2>0, <3>3
      <4>2. b.vRandom[n] = z
        BY <1>2, <3>3
      <4>3. b.mapInfo[z].nRandomPos = a.mapInfo[z].nRandomPos
        BY <1>2, <4>1
      <4> QED
        BY <4>1, <4>2, <4>3
    <3> QED
      BY <3>1, <3>2, <3>3
  <2>2. \A id \in Entries(a) :
         /\ b.mapInfo[id].nRandomPos \in DOMAIN a.vRandom
         /\ b.vRandom[b.mapInfo[id].nRandomPos] = id
    <3> TAKE id \in Entries(a)
    <3> DEFINE x == a.vRandom[i]
               y == a.vRandom[j]
               k == b.mapInfo[id].nRandomPos
               z == a.mapInfo[id].nRandomPos
    <3>1. k = IF id = y THEN i ELSE IF id = x THEN j ELSE z
      BY <1>2
    <3>2. z \in DOMAIN a.vRandom /\ a.vRandom[z] = id
      BY <2>0
    <3>3. \A n \in DOMAIN a.vRandom :
             b.vRandom[n] = IF n = j THEN x ELSE IF n = i THEN y ELSE a.vRandom[n]
      BY <1>2
    <3> HIDE DEF k, z
    <3>4. x = y => i = j
      BY <2>0
    <3>5. ASSUME id = y
          PROVE  k \in DOMAIN a.vRandom /\ b.vRandom[k] = id
      BY <3>1, <3>3, <3>4, <3>5
    <3>6. ASSUME id # y /\ id = x
          PROVE  k \in DOMAIN a.vRandom /\ b.vRandom[k] = id
      BY <3>1, <3>3, <3>6
    <3>7. ASSUME id # y /\ id # x
          PROVE  k \in DOMAIN a.vRandom /\ b.vRandom[k] = id
      BY <3>1, <3>2, <3>3, <3>7
    <3>8. k \in DOMAIN a.vRandom /\ b.vRandom[k] = id
      BY <3>5, <3>6, <3>7
    <3> QED
      BY <3>8 DEF k
  <2>3. \A id \in Entries(b) : b.mapAddr[b.mapInfo[id].host] = id
    BY <1>4 DEF IndexRight
  <2>4. \A h \in Hosts :
          b.mapAddr[h] # None => b.mapAddr[h] \in Entries(b)
                                 /\ b.mapInfo[b.mapAddr[h]].host = h
    BY <1>4 DEF IndexRight
  <2> QED
    BY <1>3, <1>4, <2>1, <2>2, <2>3, <2>4 DEF IndexRight
<1>6. /\ CountRight(b) /\ TriedRight(b) /\ NewRight(b)
      /\ \A id \in Entries(a) : Counted(a, id) => Counted(b, id)
  BY <1>2, PosKeeps
<1> QED
  BY <1>2, <1>5, <1>6

-----------------------------------------------------------------------------
(* Create and Delete *)

\* A new entry is in no bucket yet.
LEMMA CreateKeeps ==
    ASSUME NEW a, Sound(a), NEW host \in Hosts, NEW port \in Ports, NEW source \in Sources,
           a.mapAddr[host] = None, a.nIdCount < MaxId,
           NEW b, b = Create(a, host, port, source), NEW id, id = a.nIdCount + 1
    PROVE  /\ Sound(b) /\ id \in New(b) /\ id \notin Entries(a)
           /\ Entries(b) = Entries(a) \cup {id}
           /\ \A x \in Entries(a) : b.mapInfo[x] = a.mapInfo[x]
           /\ b.mapInfo[id].nRefCount = 0 /\ BucketsWith(b, id) = {}
           /\ b.vvNew = a.vvNew /\ b.nIdCount = id
           /\ b.mapAddr = [a.mapAddr EXCEPT ![host] = id]
<1> DEFINE n == Len(a.vRandom) + 1
           info == [host |-> host, port |-> port, source |-> source,
                    nRefCount |-> 0, fInTried |-> FALSE,
                    nRandomPos |-> n, nLastSuccess |-> 0]
           m == [i \in Entries(a) \cup {id} |-> IF i = id THEN info ELSE a.mapInfo[i]]
           w == [a.mapAddr EXCEPT ![host] = id]
           r == Append(a.vRandom, id)
           new == a.nNew + 1
<1>1. a \in Tables
  BY DEF Sound
<1>2. /\ a.nIdCount \in 0..MaxId /\ MaxId \in Nat /\ MaxTime \in Nat
      /\ Entries(a) \in SUBSET Ids /\ a.mapInfo \in [Entries(a) -> Entry]
      /\ a.mapAddr \in [Hosts -> Ids \cup {None}]
      /\ a.vRandom \in Seq(Ids) /\ Len(a.vRandom) \in Nat
      /\ DOMAIN a.vRandom = 1..Len(a.vRandom)
  BY <1>1, TableIs
<1>3. id \in Ids /\ id \in 0..MaxId /\ id \notin Entries(a)
  BY <1>2 DEF Ids, Sound, IndexRight
<1>4. info \in Entry /\ n \in Nat
  BY <1>2 DEF Entry
<1>5. m \in [Entries(a) \cup {id} -> Entry]
  BY <1>2, <1>4
<1>6. m \in InfoMaps /\ DOMAIN m = Entries(a) \cup {id}
  <2>1. DOMAIN m = Entries(a) \cup {id}
    BY <1>5
  <2>2. Entries(a) \cup {id} \in SUBSET Ids
    BY <1>2, <1>3
  <2> HIDE DEF m
  <2> QED
    BY <1>5, <2>1, <2>2, InfoMapsIs
<1>7. w \in [Hosts -> Ids \cup {None}]
  BY <1>2, <1>3
<1>8. /\ r \in Seq(Ids) /\ Len(r) = n /\ r[n] = id
      /\ \A i \in DOMAIN a.vRandom : r[i] = a.vRandom[i]
      /\ DOMAIN r = 1..n
  BY <1>2, <1>3
<1>9. /\ info.host = host /\ info.nRefCount = 0 /\ info.nRandomPos = n /\ ~info.fInTried
  OBVIOUS
<1>10. /\ m[id] = info /\ \A x \in Entries(a) : m[x] = a.mapInfo[x]
  BY <1>3
<1>11. w[host] = id /\ \A h \in Hosts \ {host} : w[h] = a.mapAddr[h]
  BY <1>2
<1>12. b = [a EXCEPT !.nIdCount = id, !.mapInfo = m, !.mapAddr = w, !.vRandom = r,
                     !.nNew = new]
  BY <1>1 DEF Create, Tables, Entries
<1>21. new \in Int
  BY <1>1, TableIs
<1> HIDE DEF info, m, w, r, new
<1>13. /\ b \in Tables /\ b.mapInfo = m /\ b.vRandom = r /\ b.mapAddr = w
       /\ b.nIdCount = id /\ b.nTried = a.nTried /\ b.nNew = new
       /\ b.vvTried = a.vvTried /\ b.vvNew = a.vvNew
  <2>1. b = TableOf(id, m, w, r, a.vvTried, a.nTried, a.vvNew, new)
    BY <1>1, <1>12 DEF Tables, TableOf
  <2>2. /\ a.vvTried \in [TriedBuckets -> Seq(Ids)] /\ a.nTried \in Int
        /\ a.vvNew \in [NewBuckets -> SUBSET Ids]
    BY <1>1, TableIs
  <2>3. b \in Tables
    BY <1>3, <1>6, <1>7, <1>8, <1>21, <2>1, <2>2 DEF TableOf, Tables
  <2>4. /\ b.mapInfo = m /\ b.vRandom = r /\ b.mapAddr = w /\ b.nIdCount = id
        /\ b.nTried = a.nTried /\ b.nNew = new
        /\ b.vvTried = a.vvTried /\ b.vvNew = a.vvNew
    BY <2>1 DEF TableOf
  <2> QED
    BY <2>3, <2>4
<1>14. Entries(b) = Entries(a) \cup {id}
  BY <1>6, <1>13 DEF Entries
<1>15. IndexRight(b)
  <2>1. Entries(b) \subseteq 1..b.nIdCount
    BY <1>2, <1>13, <1>14 DEF Sound, IndexRight
  <2>2. \A i \in DOMAIN b.vRandom :
          b.vRandom[i] \in Entries(b) /\ b.mapInfo[b.vRandom[i]].nRandomPos = i
    <3> SUFFICES ASSUME NEW i \in 1..n
                 PROVE  r[i] \in Entries(b) /\ m[r[i]].nRandomPos = i
      BY <1>8, <1>13
    <3>1. CASE i = n
      BY <1>8, <1>9, <1>10, <1>14, <3>1
    <3>2. CASE i # n
      <4>1. i \in DOMAIN a.vRandom
        BY <1>2, <3>2
      <4>2. /\ r[i] = a.vRandom[i] /\ a.vRandom[i] \in Entries(a)
            /\ a.mapInfo[a.vRandom[i]].nRandomPos = i
        BY <1>8, <4>1 DEF Sound, IndexRight
      <4> QED
        BY <1>10, <1>14, <4>2
    <3> QED
      BY <3>1, <3>2
  <2>3. \A x \in Entries(b) :
          /\ b.mapInfo[x].nRandomPos \in DOMAIN b.vRandom
          /\ b.vRandom[b.mapInfo[x].nRandomPos] = x
          /\ b.mapAddr[b.mapInfo[x].host] = x
    <3> SUFFICES ASSUME NEW x \in Entries(a) \cup {id}
                 PROVE  /\ m[x].nRandomPos \in 1..n
                        /\ r[m[x].nRandomPos] = x
                        /\ w[m[x].host] = x
      BY <1>8, <1>13, <1>14
    <3>1. CASE x = id
      BY <1>4, <1>8, <1>9, <1>10, <1>11, <3>1
    <3>2. CASE x \in Entries(a)
      <4>1. /\ a.mapInfo[x].nRandomPos \in DOMAIN a.vRandom
            /\ a.vRandom[a.mapInfo[x].nRandomPos] = x
            /\ a.mapAddr[a.mapInfo[x].host] = x
        BY <3>2 DEF Sound, IndexRight
      <4>2. a.mapInfo[x].host \in Hosts \ {host}
        BY <1>2, <3>2, <4>1 DEF Entry, Ids, None
      <4>3. m[x] = a.mapInfo[x]
        BY <1>10, <3>2
      <4>4. a.mapInfo[x].nRandomPos \in 1..n
        BY <1>2, <4>1
      <4> QED
        BY <1>8, <1>11, <4>1, <4>2, <4>3, <4>4
    <3> QED
      BY <3>1, <3>2
  <2>4. \A h \in Hosts :
          b.mapAddr[h] # None => b.mapAddr[h] \in Entries(b)
                                 /\ b.mapInfo[b.mapAddr[h]].host = h
    <3> SUFFICES ASSUME NEW h \in Hosts, w[h] # None
                 PROVE  w[h] \in Entries(b) /\ m[w[h]].host = h
      BY <1>13
    <3>1. CASE h = host
      BY <1>9, <1>10, <1>11, <1>14, <3>1
    <3>2. CASE h # host
      <4>1. w[h] = a.mapAddr[h] /\ a.mapAddr[h] # None
        BY <1>11, <3>2
      <4>2. a.mapAddr[h] \in Entries(a) /\ a.mapInfo[a.mapAddr[h]].host = h
        BY <4>1 DEF Sound, IndexRight
      <4> QED
        BY <1>10, <1>14, <4>1, <4>2
    <3> QED
      BY <3>1, <3>2
  <2> QED
    BY <2>1, <2>2, <2>3, <2>4 DEF IndexRight
<1>16. Tried(b) = Tried(a) /\ New(b) = New(a) \cup {id} /\ id \notin New(a)
  BY <1>3, <1>9, <1>10, <1>13, <1>14 DEF Tried, New
<1>17. CountRight(b)
  <2>1. IsFiniteSet(New(a)) /\ Cardinality(New(a)) \in Nat /\ Cardinality(Tried(a)) \in Nat
    BY <1>1, Finite
  <2>2. Cardinality(New(a) \cup {id}) = Cardinality(New(a)) + 1
    BY <1>16, <2>1, FS_AddElement
  <2> QED
    BY <1>2, <1>8, <1>13, <1>16, <2>1, <2>2 DEF Sound, CountRight, new
<1>18. TriedRight(b)
  <2>1. \A x \in Tried(a) : x \in Entries(a) /\ b.mapInfo[x] = a.mapInfo[x]
    BY <1>10, <1>13 DEF Tried
  <2> QED
    BY <1>13, <1>16, <2>1 DEF Sound, TriedRight
<1>19. NewRight(b)
  BY <1>13, <1>16 DEF Sound, NewRight
<1>20. BucketsWith(b, id) = {}
  BY <1>13, <1>16 DEF BucketsWith, Sound, NewRight
<1> QED
  BY <1>3, <1>9, <1>10, <1>13, <1>14, <1>15, <1>16, <1>17, <1>18, <1>19, <1>20 DEF Sound, w

\* An entry that no bucket holds is gone from all four structures.
LEMMA DeleteKeeps ==
    ASSUME NEW a, Sound(a), NEW v \in New(a), BucketsWith(a, v) = {},
           NEW d, d = Delete(a, v)
    PROVE  /\ Sound(d)
           /\ Entries(d) = Entries(a) \ {v}
           /\ \A x \in Entries(d) : SameInfo(d.mapInfo[x], a.mapInfo[x])
           /\ d.vvNew = a.vvNew /\ d.nIdCount = a.nIdCount
           /\ d.mapAddr = [a.mapAddr EXCEPT ![a.mapInfo[v].host] = None]
<1> DEFINE n == Len(a.vRandom)
           pos == a.mapInfo[v].nRandomPos
           host == a.mapInfo[v].host
           b == SwapRandom(a, pos, n)
           r == SubSeq(b.vRandom, 1, n - 1)
           m == [i \in Entries(b) \ {v} |-> b.mapInfo[i]]
           w == [a.mapAddr EXCEPT ![host] = None]
           new == a.nNew - 1
<1>1. a \in Tables /\ v \in Entries(a) /\ ~a.mapInfo[v].fInTried
  BY DEF Sound, New
<1>2. /\ Entries(a) \in SUBSET Ids /\ a.mapInfo \in [Entries(a) -> Entry]
      /\ a.mapAddr \in [Hosts -> Ids \cup {None}]
      /\ a.vRandom \in Seq(Ids) /\ n \in Nat /\ DOMAIN a.vRandom = 1..n
      /\ a.nNew \in Int /\ a.nTried \in Int
  BY <1>1, TableIs
<1>3. /\ pos \in 1..n /\ n \in 1..n /\ a.vRandom[pos] = v
      /\ host \in Hosts /\ a.mapAddr[host] = v
  <2>1. pos \in 1..n /\ a.vRandom[pos] = v /\ a.mapAddr[host] = v
    BY <1>1, <1>2 DEF Sound, IndexRight
  <2>2. host \in Hosts
    BY <1>1, <1>2 DEF Entry
  <2> QED
    BY <1>2, <2>1, <2>2
<1>4. Sound(b) /\ SameButPos(a, b)
  BY <1>2, <1>3, SwapKeeps
<1>5. Len(b.vRandom) = n /\ b.vRandom[n] = v
  BY <1>1, <1>2, <1>3, SwapDoes DEF Sound
<1>6. /\ d = [b EXCEPT !.mapAddr = w, !.mapInfo = m, !.vRandom = r, !.nNew = new]
  <2>1. b \in Tables /\ b.mapAddr = a.mapAddr /\ b.nNew = a.nNew
    BY <1>4 DEF Sound, SameButPos
  <2> HIDE DEF b
  <2>2. DropLast(a, v) = [b EXCEPT !.vRandom = SubSeq(b.vRandom, 1, Len(b.vRandom) - 1)]
    BY DEF DropLast, b
  <2>3. DropLast(a, v) = [b EXCEPT !.vRandom = r]
    BY <1>5, <2>2
  <2> HIDE DEF r
  <2> QED
    BY Zenon, <2>1, <2>3 DEF Delete, Entries, Tables
<1>7. /\ b \in Tables /\ Entries(b) = Entries(a) /\ b.mapInfo \in [Entries(a) -> Entry]
      /\ b.vRandom \in Seq(Ids) /\ DOMAIN b.vRandom = 1..n
      /\ b.nIdCount = a.nIdCount /\ b.mapAddr = a.mapAddr
      /\ b.nTried = a.nTried /\ b.nNew = a.nNew
      /\ b.vvTried = a.vvTried /\ b.vvNew = a.vvNew
  <2>1. b \in Tables
    BY <1>4 DEF Sound
  <2> HIDE DEF b
  <2> QED
    BY <1>4, <1>5, <2>1, TableIs DEF SameButPos
<1>8. \A x \in Entries(a) : SameInfo(b.mapInfo[x], a.mapInfo[x])
  BY <1>4 DEF SameButPos
<1> HIDE DEF b
<1>9. new \in Int /\ w \in [Hosts -> Ids \cup {None}]
  <2>1. new \in Int
    BY <1>2
  <2>2. w \in [Hosts -> Ids \cup {None}]
    BY <1>2
  <2> QED
    BY <2>1, <2>2
<1>10. /\ r \in Seq(Ids) /\ Len(r) = n - 1 /\ DOMAIN r = 1..(n - 1)
       /\ \A i \in 1..(n - 1) : r[i] = b.vRandom[i]
  BY <1>2, <1>3, <1>5, <1>7
<1>11. m \in InfoMaps /\ DOMAIN m = Entries(a) \ {v}
       /\ \A x \in Entries(a) \ {v} : m[x] = b.mapInfo[x]
  <2>1. /\ m \in [Entries(a) \ {v} -> Entry]
        /\ \A x \in Entries(a) \ {v} : m[x] = b.mapInfo[x]
    BY <1>7
  <2>2. DOMAIN m = Entries(a) \ {v}
    BY <2>1
  <2> HIDE DEF m
  <2> QED
    BY <1>2, <2>1, <2>2, InfoMapsIs
<1>12. w[host] = None /\ \A h \in Hosts \ {host} : w[h] = a.mapAddr[h]
  BY <1>2, <1>3
<1> HIDE DEF m, r, w, new
<1>13. /\ d \in Tables /\ d.mapInfo = m /\ d.vRandom = r /\ d.mapAddr = w
       /\ d.nIdCount = a.nIdCount /\ d.nTried = a.nTried /\ d.nNew = new
       /\ d.vvTried = a.vvTried /\ d.vvNew = a.vvNew
  <2>1. d = TableOf(b.nIdCount, m, w, r, b.vvTried, b.nTried, b.vvNew, new)
    BY <1>6, <1>7 DEF Tables, TableOf
  <2>2. /\ b.nIdCount \in 0..MaxId /\ b.vvTried \in [TriedBuckets -> Seq(Ids)]
        /\ b.vvNew \in [NewBuckets -> SUBSET Ids] /\ b.nTried \in Int
    BY <1>7, TableIs
  <2>3. d \in Tables
    BY <1>9, <1>10, <1>11, <2>1, <2>2 DEF TableOf, Tables
  <2>4. /\ d.mapInfo = m /\ d.vRandom = r /\ d.mapAddr = w /\ d.nIdCount = b.nIdCount
        /\ d.nTried = b.nTried /\ d.nNew = new /\ d.vvTried = b.vvTried /\ d.vvNew = b.vvNew
    BY <2>1 DEF TableOf
  <2> QED
    BY <1>7, <2>3, <2>4
<1>14. Entries(d) = Entries(a) \ {v}
  BY <1>11, <1>13 DEF Entries
<1>15. \A x \in Entries(d) : SameInfo(d.mapInfo[x], a.mapInfo[x])
  BY <1>8, <1>11, <1>13, <1>14
<1>16. IndexRight(d)
  <2>1. Entries(d) \subseteq 1..d.nIdCount
    BY <1>13, <1>14 DEF Sound, IndexRight
  <2>2. \A i \in 1..(n - 1) : r[i] \in Entries(d) /\ m[r[i]].nRandomPos = i
    <3> TAKE i \in 1..(n - 1)
    <3>1. i \in DOMAIN b.vRandom /\ i # n /\ n \in DOMAIN b.vRandom
      BY <1>2, <1>3, <1>7
    <3>2. /\ b.vRandom[i] \in Entries(b) /\ b.mapInfo[b.vRandom[i]].nRandomPos = i
          /\ b.mapInfo[b.vRandom[n]].nRandomPos = n
      BY <1>4, <3>1 DEF Sound, IndexRight
    <3>3. b.vRandom[i] # v
      BY <1>5, <3>1, <3>2
    <3> QED
      BY <1>7, <1>10, <1>11, <1>14, <3>2, <3>3
  <2>3. \A x \in Entries(d) :
          /\ m[x].nRandomPos \in 1..(n - 1)
          /\ r[m[x].nRandomPos] = x
          /\ w[m[x].host] = x
    <3> TAKE x \in Entries(d)
    <3>1. x \in Entries(b) /\ x # v /\ m[x] = b.mapInfo[x]
      BY <1>7, <1>11, <1>14
    <3>2. /\ b.mapInfo[x].nRandomPos \in 1..n
          /\ b.vRandom[b.mapInfo[x].nRandomPos] = x
          /\ a.mapAddr[b.mapInfo[x].host] = x
      BY <1>4, <1>7, <3>1 DEF Sound, IndexRight
    <3>3. b.mapInfo[x].nRandomPos \in 1..(n - 1)
      BY <1>2, <1>5, <3>1, <3>2
    <3>4. b.mapInfo[x].host \in Hosts \ {host}
      BY <1>3, <1>7, <3>1, <3>2 DEF Entry
    <3> QED
      BY <1>10, <1>12, <3>1, <3>2, <3>3, <3>4
  <2>4. \A h \in Hosts : w[h] # None => w[h] \in Entries(d) /\ m[w[h]].host = h
    <3> SUFFICES ASSUME NEW h \in Hosts, w[h] # None
                 PROVE  w[h] \in Entries(d) /\ m[w[h]].host = h
      OBVIOUS
    <3>1. h # host /\ w[h] = a.mapAddr[h]
      BY <1>12
    <3>2. a.mapAddr[h] \in Entries(b) /\ b.mapInfo[a.mapAddr[h]].host = h
      BY <1>4, <1>7, <3>1 DEF Sound, IndexRight
    <3>3. b.mapInfo[v].host = host
      BY <1>1, <1>8 DEF SameInfo
    <3>4. a.mapAddr[h] \in Entries(d)
      BY <1>7, <1>14, <3>1, <3>2, <3>3
    <3> QED
      BY <1>11, <1>14, <3>1, <3>2, <3>4
  <2> QED
    BY <1>10, <1>13, <2>1, <2>2, <2>3, <2>4 DEF IndexRight
<1>17. \A x \in Entries(d) : d.mapInfo[x].fInTried = a.mapInfo[x].fInTried
  BY <1>15 DEF SameInfo
<1>18. Tried(d) = Tried(a) /\ New(d) = New(a) \ {v}
  BY <1>1, <1>14, <1>17 DEF Tried, New
<1>19. CountRight(d)
  <2>1. IsFiniteSet(New(a)) /\ Cardinality(New(a)) \in Nat /\ Cardinality(Tried(a)) \in Nat
    BY <1>1, Finite
  <2>2. Cardinality(New(a) \ {v}) = Cardinality(New(a)) - 1
    BY <2>1, FS_RemoveElement
  <2>3. n = a.nTried + a.nNew /\ a.nTried = Cardinality(Tried(a)) /\ a.nNew = Cardinality(New(a))
    BY DEF Sound, CountRight
  <2>4. new = Cardinality(New(d)) /\ n - 1 = a.nTried + new
    BY <1>2, <1>18, <2>1, <2>2, <2>3 DEF new
  <2> QED
    BY <1>10, <1>13, <1>18, <2>3, <2>4 DEF CountRight
<1>20. TriedRight(d)
  <2>0. \A x \in Tried(a) : x \in Entries(a) /\ a.mapInfo[x].fInTried
    BY DEF Tried
  <2>1. \A x \in Tried(a) : x \in Entries(d)
    BY <1>1, <1>14, <2>0
  <2>2. \A x \in Tried(a) : /\ HashedTo(d.mapInfo[x]) = HashedTo(a.mapInfo[x])
                            /\ d.mapInfo[x].nLastSuccess = a.mapInfo[x].nLastSuccess
    BY <1>15, <2>1 DEF SameInfo, HashedTo
  <2> QED
    BY <1>13, <1>18, <2>2 DEF Sound, TriedRight
<1>21. NewRight(d)
  <2>1. \A u \in NewBuckets : v \notin a.vvNew[u]
    BY DEF BucketsWith
  <2> QED
    BY <1>13, <1>18, <2>1 DEF Sound, NewRight
<1> QED
  BY <1>13, <1>14, <1>15, <1>16, <1>19, <1>20, <1>21 DEF Sound, w

-----------------------------------------------------------------------------
(* Reference counts and new buckets *)

Updated(a, id, e, w) ==
    [a EXCEPT !.mapInfo = [a.mapInfo EXCEPT ![id] = e], !.vvNew = w]

\* One entry and the new buckets are changed.
LEMMA UpdateDoes ==
    ASSUME NEW a \in Tables, NEW id \in Entries(a), NEW e \in Entry,
           NEW w \in [NewBuckets -> SUBSET Ids],
           NEW b, b = Updated(a, id, e, w)
    PROVE  /\ b \in Tables /\ Entries(b) = Entries(a)
           /\ b.mapInfo[id] = e /\ \A x \in Entries(a) \ {id} : b.mapInfo[x] = a.mapInfo[x]
           /\ b.nIdCount = a.nIdCount /\ b.mapAddr = a.mapAddr /\ b.vRandom = a.vRandom
           /\ b.nTried = a.nTried /\ b.nNew = a.nNew /\ b.vvTried = a.vvTried
           /\ b.vvNew = w
<1> DEFINE m == [a.mapInfo EXCEPT ![id] = e]
<1>1. Entries(a) \in SUBSET Ids /\ a.mapInfo \in [Entries(a) -> Entry]
  BY TableIs
<1>2. /\ m \in [Entries(a) -> Entry] /\ m[id] = e
      /\ \A x \in Entries(a) \ {id} : m[x] = a.mapInfo[x]
  BY <1>1
<1>3. DOMAIN m = Entries(a)
  BY <1>2
<1> HIDE DEF m
<1>4. m \in InfoMaps
  BY <1>1, <1>2, <1>3, InfoMapsIs
<1>5. b = [a EXCEPT !.mapInfo = m, !.vvNew = w]
  BY DEF m, Updated
<1>6. b \in Tables /\ b.mapInfo = m /\ b.vvNew = w
      /\ b.nIdCount = a.nIdCount /\ b.mapAddr = a.mapAddr /\ b.vRandom = a.vRandom
      /\ b.nTried = a.nTried /\ b.nNew = a.nNew /\ b.vvTried = a.vvTried
  BY <1>4, <1>5 DEF Tables
<1> QED
  BY <1>2, <1>3, <1>6 DEF Entries

\* What an entry says apart from its count and its time.
SamePlace(p, q) ==
    /\ p.host = q.host /\ p.port = q.port /\ p.source = q.source
    /\ p.fInTried = q.fInTried /\ p.nRandomPos = q.nRandomPos

\* A change of source, time or reference count that leaves places and indices alone.
LEMMA PlacesKeep ==
    ASSUME NEW a, Sound(a), NEW b \in Tables, NewRight(b), Entries(b) = Entries(a),
           \A x \in Entries(a) : SamePlace(b.mapInfo[x], a.mapInfo[x]),
           \A x \in Tried(a) : b.mapInfo[x].nLastSuccess # 0,
           b.nIdCount = a.nIdCount, b.mapAddr = a.mapAddr, b.vRandom = a.vRandom,
           b.nTried = a.nTried, b.nNew = a.nNew, b.vvTried = a.vvTried
    PROVE  Sound(b) /\ Tried(b) = Tried(a) /\ New(b) = New(a)
<1>0. \A x \in Entries(a) : /\ b.mapInfo[x].host = a.mapInfo[x].host
                            /\ b.mapInfo[x].nRandomPos = a.mapInfo[x].nRandomPos
                            /\ b.mapInfo[x].fInTried = a.mapInfo[x].fInTried
                            /\ HashedTo(b.mapInfo[x]) = HashedTo(a.mapInfo[x])
  <2> TAKE x \in Entries(a)
  <2>1. SamePlace(b.mapInfo[x], a.mapInfo[x])
    OBVIOUS
  <2> QED
    BY <2>1 DEF SamePlace, HashedTo
<1>1. Tried(b) = Tried(a) /\ New(b) = New(a)
  BY <1>0 DEF Tried, New
<1>2. IndexRight(b)
  BY <1>0 DEF Sound, IndexRight
<1>3. CountRight(b)
  BY <1>1 DEF Sound, CountRight
<1>4. TriedRight(b)
  <2>1. \A x \in Tried(a) : HashedTo(b.mapInfo[x]) = HashedTo(a.mapInfo[x])
    BY <1>0 DEF Tried
  <2> QED
    BY <1>1, <2>1 DEF Sound, TriedRight
<1> QED
  BY <1>1, <1>2, <1>3, <1>4 DEF Sound

\* An entry of a full bucket makes room; with its last reference it goes altogether.
LEMMA ShrinkKeeps ==
    ASSUME NEW c, Sound(c), NEW u \in NewBuckets, NEW v \in c.vvNew[u], Counted(c, v),
           NEW s, s = ShrinkNew(c, u, v)
    PROVE  /\ Sound(s) /\ v \in New(c)
           /\ Entries(s) \in {Entries(c), Entries(c) \ {v}}
           /\ \A x \in Entries(s) \ {v} : SameInfo(s.mapInfo[x], c.mapInfo[x])
           /\ s.vvNew = [c.vvNew EXCEPT ![u] = @ \ {v}]
           /\ v \in Entries(s) => Counted(s, v)
           /\ s.mapAddr \in {c.mapAddr, [c.mapAddr EXCEPT ![c.mapInfo[v].host] = None]}
<1> DEFINE e == [c.mapInfo[v] EXCEPT !.nRefCount = c.mapInfo[v].nRefCount - 1]
           w == [c.vvNew EXCEPT ![u] = c.vvNew[u] \ {v}]
           d == [c EXCEPT !.mapInfo = [c.mapInfo EXCEPT ![v] = e], !.vvNew = w]
<1>1. c \in Tables /\ v \in New(c) /\ v \in Entries(c) /\ ~c.mapInfo[v].fInTried
  BY DEF Sound, NewRight, New
<1>2. c.mapInfo \in [Entries(c) -> Entry] /\ c.vvNew \in [NewBuckets -> SUBSET Ids]
  BY <1>1, TableIs
<1>3. e \in Entry /\ SamePlace(e, c.mapInfo[v]) /\ e.nRefCount = c.mapInfo[v].nRefCount - 1
  <2> DEFINE r == c.mapInfo[v].nRefCount - 1
  <2>1. c.mapInfo[v] \in Entry
    BY <1>1, <1>2
  <2>2. r \in Int
    BY <2>1 DEF Entry
  <2> HIDE DEF r
  <2>3. [c.mapInfo[v] EXCEPT !.nRefCount = r] \in Entry
    BY <2>1, <2>2 DEF Entry
  <2>4. /\ SamePlace([c.mapInfo[v] EXCEPT !.nRefCount = r], c.mapInfo[v])
        /\ [c.mapInfo[v] EXCEPT !.nRefCount = r].nRefCount = r
    BY <2>1 DEF Entry, SamePlace
  <2> QED
    BY <2>3, <2>4 DEF r
<1>4. /\ w \in [NewBuckets -> SUBSET Ids] /\ w[u] = c.vvNew[u] \ {v}
      /\ \A b \in NewBuckets \ {u} : w[b] = c.vvNew[b]
  BY <1>2
<1>5. s = IF d.mapInfo[v].nRefCount = 0 THEN Delete(d, v) ELSE d
  <2>1. d = [c EXCEPT !.mapInfo[v].nRefCount = @ - 1, !.vvNew[u] = @ \ {v}]
    BY <1>1 DEF Tables
  <2> HIDE DEF d
  <2> QED
    BY <2>1 DEF ShrinkNew
<1>11. w = [c.vvNew EXCEPT ![u] = @ \ {v}]
  OBVIOUS
<1>13. d = Updated(c, v, e, w)
  BY DEF Updated
<1> HIDE DEF e, w, d
<1>6. /\ d \in Tables /\ Entries(d) = Entries(c)
      /\ d.mapInfo[v] = e /\ \A x \in Entries(c) \ {v} : d.mapInfo[x] = c.mapInfo[x]
      /\ d.nIdCount = c.nIdCount /\ d.mapAddr = c.mapAddr /\ d.vRandom = c.vRandom
      /\ d.nTried = c.nTried /\ d.nNew = c.nNew /\ d.vvTried = c.vvTried
      /\ d.vvNew = w
  BY <1>1, <1>3, <1>4, <1>13, UpdateDoes
<1>7. Sound(d) /\ New(d) = New(c)
  <2>1. \A x \in Entries(c) : SamePlace(d.mapInfo[x], c.mapInfo[x])
    BY <1>3, <1>6 DEF SamePlace
  <2>2. \A x \in Tried(c) : x \in Entries(c) \ {v}
    BY <1>1 DEF Tried
  <2>3. \A x \in Tried(c) : d.mapInfo[x].nLastSuccess # 0
    BY <1>6, <2>2 DEF Sound, TriedRight
  <2>4. \A x \in Entries(c) : d.mapInfo[x].fInTried = c.mapInfo[x].fInTried
    BY <2>1 DEF SamePlace
  <2>5. New(d) = New(c)
    BY <1>6, <2>4 DEF New
  <2>6. NewRight(d)
    <3> SUFFICES ASSUME NEW b \in NewBuckets
                 PROVE  w[b] \subseteq New(c) /\ Cardinality(w[b]) <= NewBucketSize
      BY <1>6, <2>5 DEF NewRight
    <3>1. c.vvNew[b] \subseteq New(c) /\ Cardinality(c.vvNew[b]) <= NewBucketSize
      BY DEF Sound, NewRight
    <3>2. IsFiniteSet(c.vvNew[b]) /\ Cardinality(c.vvNew[b]) \in Nat
      BY <1>1, Finite
    <3>3. w[b] \in SUBSET c.vvNew[b]
      BY <1>4
    <3>4. Cardinality(w[b]) <= Cardinality(c.vvNew[b]) /\ Cardinality(w[b]) \in Nat
      BY <3>2, <3>3, FS_Subset, FS_CardinalityType
    <3>5. NewBucketSize \in Nat
      BY BucketAssumption
    <3> QED
      BY <3>1, <3>2, <3>3, <3>4, <3>5
  <2> QED
    BY <1>6, <2>1, <2>3, <2>6, PlacesKeep
<1>8. /\ BucketsWith(d, v) = BucketsWith(c, v) \ {u} /\ u \in BucketsWith(c, v)
      /\ d.mapInfo[v].nRefCount = Cardinality(BucketsWith(d, v))
      /\ d.mapInfo[v].nRefCount \in 0..BucketsPerAddress
      /\ IsFiniteSet(BucketsWith(d, v))
  <2>1. BucketsWith(d, v) = BucketsWith(c, v) \ {u} /\ u \in BucketsWith(c, v)
    BY <1>4, <1>6 DEF BucketsWith
  <2>2. IsFiniteSet(BucketsWith(c, v)) /\ Cardinality(BucketsWith(c, v)) \in Nat
        /\ IsFiniteSet(BucketsWith(d, v))
    BY <1>1, <1>6, Finite
  <2>3. Cardinality(BucketsWith(d, v)) = Cardinality(BucketsWith(c, v)) - 1
    BY <2>1, <2>2, FS_RemoveElement
  <2>4. /\ c.mapInfo[v].nRefCount = Cardinality(BucketsWith(c, v))
        /\ c.mapInfo[v].nRefCount \in 1..BucketsPerAddress
    BY <1>1 DEF Counted
  <2>5. BucketsPerAddress \in Nat
    BY BucketAssumption
  <2> QED
    BY <1>3, <1>6, <2>1, <2>2, <2>3, <2>4, <2>5
<1>9. \A x \in Entries(d) \ {v} : SameInfo(d.mapInfo[x], c.mapInfo[x])
  BY <1>6 DEF SameInfo
<1>10. CASE d.mapInfo[v].nRefCount # 0
  <2>1. s = d
    BY <1>5, <1>10
  <2>2. d.mapInfo[v].nRefCount \in 1..BucketsPerAddress
    <3>1. BucketsPerAddress \in Nat
      BY BucketAssumption
    <3> QED
      BY <1>8, <1>10, <3>1
  <2> QED
    BY <1>1, <1>6, <1>7, <1>8, <1>9, <1>11, <2>1, <2>2 DEF Counted
<1>12. CASE d.mapInfo[v].nRefCount = 0
  <2>1. s = Delete(d, v) /\ v \in New(d) /\ BucketsWith(d, v) = {}
    BY <1>1, <1>5, <1>7, <1>8, <1>12, FS_EmptySet
  <2>2. /\ Sound(s)
        /\ Entries(s) = Entries(d) \ {v}
        /\ \A x \in Entries(s) : SameInfo(s.mapInfo[x], d.mapInfo[x])
        /\ s.vvNew = d.vvNew
        /\ s.mapAddr = [d.mapAddr EXCEPT ![d.mapInfo[v].host] = None]
    BY <1>7, <2>1, DeleteKeeps
  <2>3. d.mapInfo[v].host = c.mapInfo[v].host
    BY <1>3, <1>6 DEF SamePlace
  <2>4. \A x \in Entries(s) \ {v} : SameInfo(s.mapInfo[x], c.mapInfo[x])
    BY <1>9, <2>2 DEF SameInfo
  <2> QED
    BY <1>1, <1>6, <1>11, <2>2, <2>3, <2>4
<1> QED
  BY <1>10, <1>12

\* Only the new buckets are changed.
LEMMA BucketsDo ==
    ASSUME NEW s \in Tables, NEW id \in Entries(s), NEW w \in [NewBuckets -> SUBSET Ids],
           NEW r, r = Updated(s, id, s.mapInfo[id], w)
    PROVE  /\ r \in Tables /\ Entries(r) = Entries(s)
           /\ \A x \in Entries(s) : r.mapInfo[x] = s.mapInfo[x]
           /\ r.nIdCount = s.nIdCount /\ r.mapAddr = s.mapAddr /\ r.vRandom = s.vRandom
           /\ r.nTried = s.nTried /\ r.nNew = s.nNew /\ r.vvTried = s.vvTried
           /\ r.vvNew = w
<1>1. s.mapInfo[id] \in Entry
  BY TableIs
<1> DEFINE e == s.mapInfo[id]
<1>2. e \in Entry /\ r = Updated(s, id, e, w)
  BY <1>1
<1> HIDE DEF e
<1>3. /\ r \in Tables /\ Entries(r) = Entries(s)
      /\ r.mapInfo[id] = e /\ \A x \in Entries(s) \ {id} : r.mapInfo[x] = s.mapInfo[x]
      /\ r.nIdCount = s.nIdCount /\ r.mapAddr = s.mapAddr /\ r.vRandom = s.vRandom
      /\ r.nTried = s.nTried /\ r.nNew = s.nNew /\ r.vvTried = s.vvTried
      /\ r.vvNew = w
  BY <1>2, UpdateDoes
<1> QED
  BY <1>3 DEF e

\* An entry that is counted once ahead, about to be put into bucket b, which has room.
Ahead(s, id, b) ==
    /\ Sound(s) /\ id \in New(s)
    /\ s.mapInfo[id].nRefCount = Cardinality(BucketsWith(s, id)) + 1
    /\ s.mapInfo[id].nRefCount \in 1..BucketsPerAddress
    /\ id \notin s.vvNew[b] /\ Cardinality(s.vvNew[b]) < NewBucketSize
    /\ \A x \in Entries(s) \ {id} : Counted(s, x)

Put(s, b, id) == [s EXCEPT !.vvNew[b] = @ \cup {id}]

\* Putting it there makes the count right.
LEMMA PutKeeps ==
    ASSUME NEW s, NEW id, NEW b \in NewBuckets, Ahead(s, id, b),
           NEW r, r = Put(s, b, id)
    PROVE  AddrRight(r) /\ r.mapAddr = s.mapAddr
<1> DEFINE w == [s.vvNew EXCEPT ![b] = s.vvNew[b] \cup {id}]
<1>1. s \in Tables /\ id \in New(s) /\ id \in Entries(s) /\ Sound(s)
  BY DEF Ahead, Sound, New
<1>2. /\ s.mapInfo \in [Entries(s) -> Entry] /\ s.vvNew \in [NewBuckets -> SUBSET Ids]
      /\ Entries(s) \in SUBSET Ids
  BY <1>1, TableIs
<1>3. /\ w \in [NewBuckets -> SUBSET Ids] /\ w[b] = s.vvNew[b] \cup {id}
      /\ \A u \in NewBuckets \ {b} : w[u] = s.vvNew[u]
  BY <1>1, <1>2
<1>4. r = Updated(s, id, s.mapInfo[id], w)
  <2>1. [s.mapInfo EXCEPT ![id] = s.mapInfo[id]] = s.mapInfo
    BY <1>1, <1>2
  <2>2. r = [s EXCEPT !.vvNew = w]
    BY <1>1 DEF Tables, Put
  <2> HIDE DEF w
  <2>3. Updated(s, id, s.mapInfo[id], w) = [s EXCEPT !.mapInfo = s.mapInfo, !.vvNew = w]
    BY <2>1 DEF Updated
  <2>4. [s EXCEPT !.mapInfo = s.mapInfo, !.vvNew = w] = [s EXCEPT !.vvNew = w]
    BY <1>1 DEF Tables
  <2> QED
    BY <2>2, <2>3, <2>4
<1> HIDE DEF w
<1>5. /\ r \in Tables /\ Entries(r) = Entries(s)
      /\ \A x \in Entries(s) : r.mapInfo[x] = s.mapInfo[x]
      /\ r.nIdCount = s.nIdCount /\ r.mapAddr = s.mapAddr /\ r.vRandom = s.vRandom
      /\ r.nTried = s.nTried /\ r.nNew = s.nNew /\ r.vvTried = s.vvTried
      /\ r.vvNew = w
  BY <1>1, <1>3, <1>4, BucketsDo
<1>6. NewRight(r)
  <2>1. New(r) = New(s)
    BY <1>5 DEF New
  <2>2. NewBucketSize \in Nat
    BY BucketAssumption
  <2> SUFFICES ASSUME NEW u \in NewBuckets
               PROVE  w[u] \subseteq New(s) /\ Cardinality(w[u]) <= NewBucketSize
    BY <1>5, <2>1 DEF NewRight
  <2>3. CASE u = b
    <3>1. IsFiniteSet(s.vvNew[b]) /\ Cardinality(s.vvNew[b]) \in Nat
      BY <1>1, Finite
    <3>2. id \notin s.vvNew[b] /\ Cardinality(s.vvNew[b]) < NewBucketSize
      BY DEF Ahead
    <3>3. Cardinality(s.vvNew[b] \cup {id}) = Cardinality(s.vvNew[b]) + 1
      BY <3>1, <3>2, FS_AddElement
    <3>4. s.vvNew[b] \subseteq New(s)
      BY <1>1 DEF Sound, NewRight
    <3>5. w[u] = s.vvNew[b] \cup {id}
      BY <1>3, <2>3
    <3>6. Cardinality(w[u]) = Cardinality(s.vvNew[b]) + 1
      BY <3>3, <3>5
    <3>7. Cardinality(w[u]) <= NewBucketSize
      BY <2>2, <3>1, <3>2, <3>6
    <3> QED
      BY <1>1, <3>4, <3>5, <3>7
  <2>4. CASE u # b
    BY <1>1, <1>3, <2>4 DEF Sound, NewRight
  <2> QED
    BY <2>3, <2>4
<1>7. Sound(r)
  <2>1. \A x \in Entries(s) : SamePlace(r.mapInfo[x], s.mapInfo[x])
    BY <1>5 DEF SamePlace
  <2>2. \A x \in Tried(s) : r.mapInfo[x].nLastSuccess # 0
    BY <1>1, <1>5 DEF Sound, TriedRight, Tried
  <2> QED
    BY <1>1, <1>5, <1>6, <2>1, <2>2, PlacesKeep
<1>8. Counted(r, id)
  <2>1. BucketsWith(r, id) = BucketsWith(s, id) \cup {b} /\ b \notin BucketsWith(s, id)
    BY <1>3, <1>5 DEF BucketsWith, Ahead
  <2>2. IsFiniteSet(BucketsWith(s, id))
    BY <1>1, Finite
  <2>3. Cardinality(BucketsWith(s, id) \cup {b}) = Cardinality(BucketsWith(s, id)) + 1
    BY <2>1, <2>2, FS_AddElement
  <2> QED
    BY <1>1, <1>5, <2>1, <2>3 DEF Ahead, Counted
<1>9. \A x \in Entries(s) \ {id} : Counted(r, x)
  <2> TAKE x \in Entries(s) \ {id}
  <2>1. \A u \in NewBuckets : x \in w[u] <=> x \in s.vvNew[u]
    BY <1>3
  <2>2. BucketsWith(r, x) = BucketsWith(s, x)
    BY <1>5, <2>1 DEF BucketsWith
  <2>3. Counted(s, x)
    BY DEF Ahead
  <2> QED
    BY <1>5, <2>2, <2>3 DEF Counted
<1> QED
  BY <1>5, <1>7, <1>8, <1>9 DEF AddrRight

\* An entry that add_ puts into one more bucket: known already, or just created.
Ready(a, id) ==
    /\ Sound(a) /\ id \in New(a)
    /\ a.mapInfo[id].nRefCount = Cardinality(BucketsWith(a, id))
    /\ a.mapInfo[id].nRefCount < BucketsPerAddress
    /\ \A x \in Entries(a) \ {id} : Counted(a, x)

\* Of the others, at most one new entry is deleted to make room.
LosesAtMostOne(a, b) ==
    \/ b.mapAddr = a.mapAddr
    \/ \E v \in New(a) : b.mapAddr = [a.mapAddr EXCEPT ![a.mapInfo[v].host] = None]

\* The end of Add_: an entry goes into one more bucket, shrinking it if it is full.
LEMMA InsertKeeps ==
    ASSUME NEW a, NEW id, Ready(a, id), NEW b \in NewBuckets,
           NEW r \in InsertNew(a, id, b)
    PROVE  AddrRight(r) /\ LosesAtMostOne(a, r)
<1> DEFINE e == [a.mapInfo[id] EXCEPT !.nRefCount = a.mapInfo[id].nRefCount + 1]
           c == [a EXCEPT !.mapInfo = [a.mapInfo EXCEPT ![id] = e]]
<1>1. a \in Tables /\ id \in New(a) /\ id \in Entries(a) /\ Sound(a) /\ ~a.mapInfo[id].fInTried
  BY DEF Ready, Sound, New
<1>2. a.mapInfo \in [Entries(a) -> Entry] /\ a.vvNew \in [NewBuckets -> SUBSET Ids]
  BY <1>1, TableIs
<1>3. BucketsPerAddress \in Nat /\ NewBucketSize \in Nat \ {0}
  BY BucketAssumption
<1>4. IsFiniteSet(BucketsWith(a, id)) /\ Cardinality(BucketsWith(a, id)) \in Nat
  BY <1>1, Finite
<1>5. CASE id \in a.vvNew[b]
  <2>1. r = a
    BY <1>5 DEF InsertNew
  <2>2. BucketsWith(a, id) # {}
    BY <1>5 DEF BucketsWith
  <2>3. Cardinality(BucketsWith(a, id)) # 0
    BY <1>4, <2>2, FS_EmptySet
  <2>4. a.mapInfo[id].nRefCount \in 1..BucketsPerAddress
    BY <1>3, <1>4, <2>3 DEF Ready
  <2>5. Counted(a, id)
    BY <2>4 DEF Counted, Ready
  <2> QED
    BY <1>1, <2>1, <2>5 DEF AddrRight, Ready, LosesAtMostOne
<1>6. e \in Entry /\ SamePlace(e, a.mapInfo[id])
      /\ e.nRefCount = a.mapInfo[id].nRefCount + 1
  <2> DEFINE n == a.mapInfo[id].nRefCount + 1
  <2>1. a.mapInfo[id] \in Entry
    BY <1>1, <1>2
  <2>2. n \in Int
    BY <2>1 DEF Entry
  <2> HIDE DEF n
  <2>3. [a.mapInfo[id] EXCEPT !.nRefCount = n] \in Entry
    BY <2>1, <2>2 DEF Entry
  <2>4. /\ SamePlace([a.mapInfo[id] EXCEPT !.nRefCount = n], a.mapInfo[id])
        /\ [a.mapInfo[id] EXCEPT !.nRefCount = n].nRefCount = n
    BY <2>1 DEF Entry, SamePlace
  <2> QED
    BY <2>3, <2>4 DEF n
<1>7. c = Updated(a, id, e, a.vvNew)
  <2> DEFINE m == [a.mapInfo EXCEPT ![id] = e]
  <2> HIDE DEF m
  <2>1. [a EXCEPT !.mapInfo = m, !.vvNew = a.vvNew] = [a EXCEPT !.mapInfo = m]
    BY <1>1 DEF Tables
  <2> QED
    BY <2>1 DEF Updated, m
<1>8. ASSUME id \notin a.vvNew[b]
      PROVE  \E s : /\ s \in IF Cardinality(a.vvNew[b]) = NewBucketSize
                             THEN {ShrinkNew(c, b, v) : v \in a.vvNew[b]} ELSE {c}
                    /\ r = Put(s, b, id)
  <2>1. c = [a EXCEPT !.mapInfo[id].nRefCount = @ + 1]
    OBVIOUS
  <2> HIDE DEF c
  <2> QED
    BY <1>8, <2>1 DEF InsertNew, Put
<1> HIDE DEF c, e
<1>9. /\ c \in Tables /\ Entries(c) = Entries(a)
      /\ c.mapInfo[id] = e /\ \A x \in Entries(a) \ {id} : c.mapInfo[x] = a.mapInfo[x]
      /\ c.nIdCount = a.nIdCount /\ c.mapAddr = a.mapAddr /\ c.vRandom = a.vRandom
      /\ c.nTried = a.nTried /\ c.nNew = a.nNew /\ c.vvTried = a.vvTried
      /\ c.vvNew = a.vvNew
  BY <1>1, <1>2, <1>6, <1>7, UpdateDoes
<1>10. Sound(c) /\ New(c) = New(a)
  <2>1. \A x \in Entries(a) : SamePlace(c.mapInfo[x], a.mapInfo[x])
    BY <1>6, <1>9 DEF SamePlace
  <2>2. \A x \in Tried(a) : x \in Entries(a) \ {id}
    BY <1>1 DEF Tried
  <2>3. \A x \in Tried(a) : c.mapInfo[x].nLastSuccess # 0
    BY <1>1, <1>9, <2>2 DEF Sound, TriedRight
  <2>4. \A x \in Entries(a) : c.mapInfo[x].fInTried = a.mapInfo[x].fInTried
    BY <2>1 DEF SamePlace
  <2>5. New(c) = New(a)
    BY <1>9, <2>4 DEF New
  <2>6. NewRight(c)
    BY <1>1, <1>9, <2>5 DEF Sound, NewRight
  <2> QED
    BY <1>1, <1>9, <2>1, <2>3, <2>6, PlacesKeep
<1>11. /\ \A x \in Entries(c) \ {id} : Counted(c, x)
       /\ \A x : BucketsWith(c, x) = BucketsWith(a, x)
       /\ c.mapInfo[id].nRefCount = Cardinality(BucketsWith(c, id)) + 1
       /\ c.mapInfo[id].nRefCount \in 1..BucketsPerAddress
  <2>1. \A x : BucketsWith(c, x) = BucketsWith(a, x)
    BY <1>9 DEF BucketsWith
  <2>2. \A x \in Entries(a) \ {id} : Counted(a, x)
    BY DEF Ready
  <2>3. \A x \in Entries(c) \ {id} : Counted(c, x)
    BY <1>9, <2>1, <2>2 DEF Counted
  <2> QED
    BY <1>3, <1>4, <1>6, <1>9, <2>1, <2>3 DEF Ready
<1>12. CASE id \notin a.vvNew[b] /\ Cardinality(a.vvNew[b]) # NewBucketSize
  <2>1. r = Put(c, b, id)
    BY <1>8, <1>12
  <2>2. Cardinality(a.vvNew[b]) <= NewBucketSize /\ Cardinality(a.vvNew[b]) \in Nat
    BY <1>1, Finite DEF Sound, NewRight
  <2>3. Cardinality(a.vvNew[b]) < NewBucketSize
    BY <1>3, <1>12, <2>2
  <2>4. Ahead(c, id, b)
    BY <1>1, <1>9, <1>10, <1>11, <1>12, <2>3 DEF Ahead
  <2> QED
    BY <1>9, <2>1, <2>4, PutKeeps DEF LosesAtMostOne
<1>13. CASE id \notin a.vvNew[b] /\ Cardinality(a.vvNew[b]) = NewBucketSize
  <2>1. PICK v \in a.vvNew[b] : r = Put(ShrinkNew(c, b, v), b, id)
    BY <1>8, <1>13
  <2> DEFINE s == ShrinkNew(c, b, v)
  <2> HIDE DEF s
  <2>2. r = Put(s, b, id)
    BY <2>1 DEF s
  <2>3. v \in c.vvNew[b] /\ v # id /\ v \in New(a) /\ v \in Entries(a)
    BY <1>1, <1>9, <1>13 DEF Sound, NewRight, New
  <2>4. Counted(c, v)
    BY <1>9, <1>11, <2>3
  <2>5. /\ Sound(s) /\ v \in New(c)
        /\ Entries(s) \in {Entries(c), Entries(c) \ {v}}
        /\ \A x \in Entries(s) \ {v} : SameInfo(s.mapInfo[x], c.mapInfo[x])
        /\ s.vvNew = [c.vvNew EXCEPT ![b] = @ \ {v}]
        /\ v \in Entries(s) => Counted(s, v)
        /\ s.mapAddr \in {c.mapAddr, [c.mapAddr EXCEPT ![c.mapInfo[v].host] = None]}
    BY <1>10, <2>3, <2>4, ShrinkKeeps DEF s
  <2>6. /\ s.vvNew[b] = a.vvNew[b] \ {v}
        /\ \A u \in NewBuckets \ {b} : s.vvNew[u] = a.vvNew[u]
    BY <1>2, <1>9, <2>5
  <2>7. Cardinality(s.vvNew[b]) < NewBucketSize
    <3>1. IsFiniteSet(a.vvNew[b]) /\ Cardinality(a.vvNew[b]) \in Nat
      BY <1>1, Finite
    <3>2. Cardinality(a.vvNew[b] \ {v}) = Cardinality(a.vvNew[b]) - 1
      BY <3>1, FS_RemoveElement
    <3> QED
      BY <1>3, <1>13, <2>6, <3>1, <3>2
  <2>8. \A x : x # v => BucketsWith(s, x) = BucketsWith(c, x)
    <3> SUFFICES ASSUME NEW x, x # v PROVE BucketsWith(s, x) = BucketsWith(c, x)
      OBVIOUS
    <3>1. \A u \in NewBuckets : x \in s.vvNew[u] <=> x \in c.vvNew[u]
      BY <1>9, <2>6
    <3> QED
      BY <3>1 DEF BucketsWith
  <2>9. \A x \in Entries(s) : x \in Entries(c)
    BY <2>5
  <2>10. \A x \in Entries(s) \ {id} : Counted(s, x)
    <3> SUFFICES ASSUME NEW x \in Entries(s) \ {id} PROVE Counted(s, x)
      OBVIOUS
    <3>1. CASE x # v
      <4>1. Counted(c, x) /\ SameInfo(s.mapInfo[x], c.mapInfo[x])
            /\ BucketsWith(s, x) = BucketsWith(c, x)
        BY <1>11, <2>5, <2>8, <2>9, <3>1
      <4> QED
        BY <4>1 DEF Counted, SameInfo
    <3> QED
      BY <2>5, <3>1
  <2>11. id \in Entries(s) /\ SameInfo(s.mapInfo[id], c.mapInfo[id])
    BY <1>1, <1>9, <2>3, <2>5
  <2>12. id \in New(s) /\ s.mapInfo[id].nRefCount = c.mapInfo[id].nRefCount
    <3>1. ~c.mapInfo[id].fInTried
      BY <1>1, <1>6, <1>9 DEF SamePlace
    <3> QED
      BY <2>11, <3>1 DEF New, SameInfo
  <2>13. Ahead(s, id, b)
    BY <1>11, <1>13, <2>3, <2>5, <2>6, <2>7, <2>8, <2>10, <2>12 DEF Ahead
  <2>14. AddrRight(r) /\ r.mapAddr = s.mapAddr
    BY <2>2, <2>13, PutKeeps
  <2> QED
    BY <1>9, <2>3, <2>5, <2>14 DEF LosesAtMostOne
<1> QED
  BY <1>5, <1>12, <1>13

-----------------------------------------------------------------------------
(* The operations, but for the eviction from a tried bucket *)

\* What a step may lose: one host at most, and none that is tried.
MayLose(a, b) ==
    \E x : \A h \in Hosts :
       a.mapAddr[h] # None /\ b.mapAddr[h] = None =>
          h = x /\ ~a.mapInfo[a.mapAddr[h]].fInTried

\* Deleting a new entry loses one host, and that was not tried.
LEMMA LosesIs ==
    ASSUME NEW a, Sound(a), NEW b, LosesAtMostOne(a, b)
    PROVE  MayLose(a, b)
<1>1. a \in Tables /\ a.mapAddr \in [Hosts -> Ids \cup {None}]
  BY TableIs DEF Sound
<1>2. CASE b.mapAddr = a.mapAddr
  BY <1>2 DEF MayLose
<1>3. CASE \E v \in New(a) : b.mapAddr = [a.mapAddr EXCEPT ![a.mapInfo[v].host] = None]
  <2>1. PICK v \in New(a) : b.mapAddr = [a.mapAddr EXCEPT ![a.mapInfo[v].host] = None]
    BY <1>3
  <2> DEFINE x == a.mapInfo[v].host
  <2>2. v \in Entries(a) /\ ~a.mapInfo[v].fInTried /\ a.mapAddr[x] = v
    BY DEF New, Sound, IndexRight
  <2>3. \A h \in Hosts : h # x => b.mapAddr[h] = a.mapAddr[h]
    BY <1>1, <2>1
  <2>4. \A h \in Hosts : a.mapAddr[h] # None /\ b.mapAddr[h] = None =>
            h = x /\ ~a.mapInfo[a.mapAddr[h]].fInTried
    BY <2>2, <2>3
  <2> QED
    BY <2>4 DEF MayLose
<1> QED
  BY <1>2, <1>3 DEF LosesAtMostOne

\* Add_ of an address that is known.
LEMMA AddKnownKeeps ==
    ASSUME NEW a, AddrRight(a), NEW id \in Entries(a), ~a.mapInfo[id].fInTried,
           a.mapInfo[id].nRefCount # BucketsPerAddress,
           NEW b \in NewBuckets, NEW r \in InsertNew(a, id, b)
    PROVE  AddrRight(r) /\ MayLose(a, r)
<1>1. Counted(a, id) /\ Sound(a) /\ id \in New(a)
  BY DEF AddrRight, New
<1>2. BucketsPerAddress \in Nat
  BY BucketAssumption
<1>3. a.mapInfo[id].nRefCount < BucketsPerAddress
  BY <1>1, <1>2 DEF Counted
<1>4. Ready(a, id)
  BY <1>1, <1>3 DEF Ready, AddrRight, Counted
<1> QED
  BY <1>1, <1>4, InsertKeeps, LosesIs

\* Add_ of an address that is not.
LEMMA AddFreshKeeps ==
    ASSUME NEW a, AddrRight(a), NEW host \in Hosts, NEW port \in Ports, NEW source \in Sources,
           a.mapAddr[host] = None, a.nIdCount < MaxId,
           NEW c, c = Create(a, host, port, source),
           NEW b \in NewBuckets, NEW r \in InsertNew(c, c.nIdCount, b)
    PROVE  AddrRight(r) /\ MayLose(a, r)
<1> DEFINE id == a.nIdCount + 1
<1>1. Sound(a) /\ a \in Tables /\ a.mapAddr \in [Hosts -> Ids \cup {None}]
  BY TableIs DEF AddrRight, Sound
<1>2. /\ Sound(c) /\ id \in New(c) /\ id \notin Entries(a)
      /\ Entries(c) = Entries(a) \cup {id}
      /\ \A x \in Entries(a) : c.mapInfo[x] = a.mapInfo[x]
      /\ c.mapInfo[id].nRefCount = 0 /\ BucketsWith(c, id) = {}
      /\ c.vvNew = a.vvNew /\ c.nIdCount = id
      /\ c.mapAddr = [a.mapAddr EXCEPT ![host] = id]
  BY <1>1, CreateKeeps
<1> HIDE DEF id
<1>3. BucketsPerAddress \in Nat \ {0} /\ Cardinality({}) = 0
  BY BucketAssumption, FS_EmptySet
<1>4. \A x \in Entries(c) \ {id} : Counted(c, x)
  <2>1. \A x : BucketsWith(c, x) = BucketsWith(a, x)
    BY <1>2 DEF BucketsWith
  <2>2. \A x \in Entries(a) : Counted(a, x)
    BY DEF AddrRight
  <2> QED
    BY <1>2, <2>1, <2>2 DEF Counted
<1>5. Ready(c, id)
  BY <1>2, <1>3, <1>4 DEF Ready
<1>6. AddrRight(r) /\ MayLose(c, r)
  BY <1>2, <1>5, InsertKeeps, LosesIs
<1>7. PICK x : \A h \in Hosts : c.mapAddr[h] # None /\ r.mapAddr[h] = None =>
                  h = x /\ ~c.mapInfo[c.mapAddr[h]].fInTried
  BY <1>6 DEF MayLose
<1>8. \A h \in Hosts : a.mapAddr[h] # None =>
        /\ c.mapAddr[h] = a.mapAddr[h]
        /\ c.mapInfo[a.mapAddr[h]] = a.mapInfo[a.mapAddr[h]]
  <2>1. \A h \in Hosts : a.mapAddr[h] # None => h # host /\ a.mapAddr[h] \in Entries(a)
    BY <1>1 DEF Sound, IndexRight
  <2> QED
    BY <1>1, <1>2, <2>1
<1>9. MayLose(a, r)
  <2>1. \A h \in Hosts : a.mapAddr[h] # None /\ r.mapAddr[h] = None =>
           h = x /\ ~a.mapInfo[a.mapAddr[h]].fInTried
    BY <1>7, <1>8
  <2> QED
    BY <2>1 DEF MayLose
<1> QED
  BY <1>6, <1>9

\* The beginning of Good_.
Timed(a, id, t) == [a EXCEPT !.mapInfo[id].nLastSuccess = t]

\* Good_ updates nLastSuccess.
LEMMA TimeKeeps ==
    ASSUME NEW a, AddrRight(a), NEW id \in Entries(a), NEW t \in 1..MaxTime,
           NEW b, b = Timed(a, id, t)
    PROVE  /\ AddrRight(b) /\ b.mapAddr = a.mapAddr /\ Entries(b) = Entries(a)
           /\ b.mapInfo[id].fInTried = a.mapInfo[id].fInTried
           /\ b.mapInfo[id].nLastSuccess = t
           /\ BucketsWith(b, id) = BucketsWith(a, id)
           /\ Tried(b) = Tried(a)
<1> DEFINE e == [a.mapInfo[id] EXCEPT !.nLastSuccess = t]
<1>1. a \in Tables /\ Sound(a)
  BY DEF AddrRight, Sound
<1>2. /\ a.mapInfo \in [Entries(a) -> Entry] /\ a.vvNew \in [NewBuckets -> SUBSET Ids]
      /\ MaxTime \in Nat
  BY <1>1, TableIs
<1>3. e \in Entry /\ SamePlace(e, a.mapInfo[id]) /\ e.nLastSuccess = t
      /\ e.nRefCount = a.mapInfo[id].nRefCount
  <2>1. a.mapInfo[id] \in Entry /\ t \in 0..MaxTime
    BY <1>2
  <2> QED
    BY <2>1 DEF Entry, SamePlace
<1>4. b = Updated(a, id, e, a.vvNew)
  <2> DEFINE m == [a.mapInfo EXCEPT ![id] = e]
  <2>1. b = [a EXCEPT !.mapInfo = m]
    BY DEF Timed
  <2> HIDE DEF m
  <2>2. [a EXCEPT !.mapInfo = m, !.vvNew = a.vvNew] = [a EXCEPT !.mapInfo = m]
    BY <1>1 DEF Tables
  <2> QED
    BY <2>1, <2>2 DEF Updated, m
<1> HIDE DEF e
<1>5. /\ b \in Tables /\ Entries(b) = Entries(a)
      /\ b.mapInfo[id] = e /\ \A x \in Entries(a) \ {id} : b.mapInfo[x] = a.mapInfo[x]
      /\ b.nIdCount = a.nIdCount /\ b.mapAddr = a.mapAddr /\ b.vRandom = a.vRandom
      /\ b.nTried = a.nTried /\ b.nNew = a.nNew /\ b.vvTried = a.vvTried
      /\ b.vvNew = a.vvNew
  BY <1>1, <1>2, <1>3, <1>4, UpdateDoes
<1>6. \A x \in Entries(a) : SamePlace(b.mapInfo[x], a.mapInfo[x])
                            /\ b.mapInfo[x].nRefCount = a.mapInfo[x].nRefCount
  BY <1>3, <1>5 DEF SamePlace
<1>7. Sound(b) /\ Tried(b) = Tried(a)
  <2>1. \A x \in Tried(a) : x \in Entries(a)
    BY DEF Tried
  <2>2. t # 0
    BY <1>2
  <2>3. \A x \in Tried(a) : b.mapInfo[x].nLastSuccess # 0
    BY <1>1, <1>3, <1>5, <2>1, <2>2 DEF Sound, TriedRight
  <2>4. New(b) = New(a)
    BY <1>5, <1>6 DEF New, SamePlace
  <2>5. NewRight(b)
    BY <1>1, <1>5, <2>4 DEF Sound, NewRight
  <2> QED
    BY <1>1, <1>5, <1>6, <2>3, <2>5, PlacesKeep
<1>8. \A x : BucketsWith(b, x) = BucketsWith(a, x)
  BY <1>5 DEF BucketsWith
<1>9. \A x \in Entries(b) : Counted(b, x)
  <2>1. \A x \in Entries(a) : Counted(a, x)
    BY DEF AddrRight
  <2> QED
    BY <1>5, <1>6, <1>8, <2>1 DEF Counted, SamePlace
<1>10. b.mapInfo[id].fInTried = a.mapInfo[id].fInTried
  BY <1>6 DEF SamePlace
<1> QED
  BY <1>3, <1>5, <1>7, <1>8, <1>9, <1>10 DEF AddrRight

-----------------------------------------------------------------------------
(* SelectTried: what its loop returns *)

Rounds(v) == IF Inspect < Len(v) THEN Inspect ELSE Len(v)

\* g[i] holds what the first i rounds of the loop over v can make.
Loop(a, v, N, g) ==
    g = [i \in 0..N |->
           IF i = 0 THEN {[v |-> v, oldest |-> None, pos |-> 0]}
           ELSE UNION {{LoopBody(a, s, i, p) : p \in i..Len(v)} : s \in g[i - 1]}]

\* The recursive function of SelectTried exists: by the least number of rounds for
\* which it would not.
LEMMA LoopExists ==
    ASSUME NEW a, NEW v, NEW N \in Nat
    PROVE  \E g : Loop(a, v, N, g)
<1> DEFINE S == {n \in Nat : ~ \E g : Loop(a, v, n, g)}
<1>1. SUFFICES ASSUME S # {} PROVE FALSE
  OBVIOUS
<1>2. PICK m \in S : \A i \in S : m <= i
  BY <1>1, MinExists
<1>3. m # 0
  <2> SUFFICES ASSUME m = 0 PROVE FALSE
    OBVIOUS
  <2> DEFINE g == [i \in 0..0 |-> {[v |-> v, oldest |-> None, pos |-> 0]}]
  <2>1. g = [i \in 0..0 |->
               IF i = 0 THEN {[v |-> v, oldest |-> None, pos |-> 0]}
               ELSE UNION {{LoopBody(a, s, i, p) : p \in i..Len(v)} : s \in g[i - 1]}]
    OBVIOUS
  <2>2. Loop(a, v, m, g)
    BY <2>1 DEF Loop
  <2> QED
    BY <1>2, <2>2
<1>4. PICK g : Loop(a, v, m - 1, g)
  BY <1>2, <1>3
<1> DEFINE F(f, i) == UNION {{LoopBody(a, s, i, p) : p \in i..Len(v)} : s \in f}
           Z == {[v |-> v, oldest |-> None, pos |-> 0]}
           h == [i \in 0..m |-> IF i < m THEN g[i] ELSE F(g[m - 1], m)]
<1> HIDE DEF F
<1>5. g = [i \in 0..(m - 1) |-> IF i = 0 THEN Z ELSE F(g[i - 1], i)]
  BY <1>4 DEF Loop, F
<1> HIDE DEF Z
<1>6. h = [i \in 0..m |-> IF i = 0 THEN Z ELSE F(h[i - 1], i)]
  <2>1. m \in Nat \ {0}
    BY <1>2, <1>3
  <2>2. \A i \in 0..m : h[i] = IF i = 0 THEN Z ELSE F(h[i - 1], i)
    <3> TAKE i \in 0..m
    <3>1. CASE i < m
      BY <3>1, <2>1, <1>5
    <3>2. CASE i = m
      BY <3>2, <2>1, <1>5
    <3> QED
      BY <3>1, <3>2, <2>1
  <2> QED
    BY <2>2
<1> HIDE DEF h
<1>7. Loop(a, v, m, h)
  BY <1>6 DEF Loop, F, Z
<1> QED
  BY <1>2, <1>7

\* SelectTried is the last round of its loop.
LEMMA SelectIs ==
    ASSUME NEW a, NEW v, Rounds(v) \in Nat
    PROVE  \E g : Loop(a, v, Rounds(v), g) /\ SelectTried(a, v) = g[Rounds(v)]
<1> DEFINE f == CHOOSE g : Loop(a, v, Rounds(v), g)
<1>1. Loop(a, v, Rounds(v), f)
  BY LoopExists
<1>2. SelectTried(a, v) = f[Rounds(v)]
  BY DEF SelectTried, Loop, Rounds
<1> QED
  BY <1>1, <1>2

\* w holds what v does, each once.
Shuffled(w, v) ==
    /\ w \in Seq(Ids) /\ Len(w) = Len(v)
    /\ \A i \in DOMAIN v : \E j \in DOMAIN v : w[i] = v[j]
    /\ \A j \in DOMAIN v : \E i \in DOMAIN v : w[i] = v[j]
    /\ \A i, j \in DOMAIN v : w[i] = w[j] => i = j

\* A swap is a shuffle.
LEMMA SwapShuffles ==
    ASSUME NEW v \in Seq(Ids), NEW w, Shuffled(w, v),
           NEW i \in DOMAIN v, NEW p \in DOMAIN v,
           NEW x, x = SwapAt(w, i, p)
    PROVE  Shuffled(x, v)
<1>1. /\ w \in Seq(Ids) /\ Len(w) = Len(v) /\ Len(v) \in Nat
      /\ DOMAIN v = 1..Len(v) /\ DOMAIN w = 1..Len(v)
  BY DEF Shuffled
<1>2. /\ x \in Seq(Ids) /\ Len(x) = Len(v)
      /\ \A n \in DOMAIN v : x[n] = IF n = p THEN w[i] ELSE IF n = i THEN w[p] ELSE w[n]
  BY <1>1 DEF SwapAt
<1>3. \A n \in DOMAIN v : \E j \in DOMAIN v : x[n] = v[j]
  <2>1. \A n \in DOMAIN v : \E k \in DOMAIN v : x[n] = w[k]
    BY <1>2
  <2>2. \A k \in DOMAIN v : \E j \in DOMAIN v : w[k] = v[j]
    BY DEF Shuffled
  <2> TAKE n \in DOMAIN v
  <2>3. PICK k \in DOMAIN v : x[n] = w[k]
    BY <2>1
  <2>4. PICK j \in DOMAIN v : w[k] = v[j]
    BY <2>2
  <2> QED
    BY <2>3, <2>4
<1>4. \A n \in DOMAIN v : \E j \in DOMAIN v : x[j] = v[n]
  <2> TAKE n \in DOMAIN v
  <2>1. PICK k \in DOMAIN v : w[k] = v[n]
    BY DEF Shuffled
  <2>2. CASE k = i
    BY <1>2, <2>1, <2>2
  <2>3. CASE k = p
    BY <1>2, <2>1, <2>3
  <2>4. CASE k # i /\ k # p
    BY <1>2, <2>1, <2>4
  <2> QED
    BY <2>2, <2>3, <2>4
<1>5. \A n, k \in DOMAIN v : x[n] = x[k] => n = k
  <2>1. \A n, k \in DOMAIN v : w[n] = w[k] => n = k
    BY DEF Shuffled
  <2> QED
    BY <1>2, <2>1
<1> QED
  BY <1>2, <1>3, <1>4, <1>5 DEF Shuffled

\* The tried bucket is only shuffled, and the position returned is one of it.
LEMMA SelectKeeps ==
    ASSUME NEW a, NEW v \in Seq(Ids), Len(v) # 0,
           \A i, j \in DOMAIN v : v[i] = v[j] => i = j,
           NEW s \in SelectTried(a, v)
    PROVE  Shuffled(s.v, v) /\ s.pos \in DOMAIN v
<1> DEFINE N == Rounds(v)
           Right(t, i) == /\ Shuffled(t.v, v)
                          /\ IF i = 0 THEN t.oldest = None ELSE t.pos \in DOMAIN v
<1>1. N \in Nat \ {0} /\ N <= Len(v) /\ DOMAIN v = 1..Len(v) /\ Len(v) \in Nat
  BY BucketAssumption DEF Rounds
<1>2. PICK g : Loop(a, v, N, g) /\ SelectTried(a, v) = g[N]
  BY <1>1, SelectIs
<1>3. /\ g[0] = {[v |-> v, oldest |-> None, pos |-> 0]}
      /\ \A i \in 1..N :
           g[i] = UNION {{LoopBody(a, t, i, p) : p \in i..Len(v)} : t \in g[i - 1]}
  <2> DEFINE F(f, i) == UNION {{LoopBody(a, t, i, p) : p \in i..Len(v)} : t \in f}
             Z == {[v |-> v, oldest |-> None, pos |-> 0]}
  <2>1. g = [i \in 0..N |-> IF i = 0 THEN Z ELSE F(g[i - 1], i)]
    BY <1>2 DEF Loop
  <2> HIDE DEF F, Z, N
  <2>2. g[0] = Z /\ \A i \in 1..N : g[i] = F(g[i - 1], i)
    BY <1>1, <2>1
  <2> QED
    BY <2>2 DEF F, Z
<1> HIDE DEF N
<1>4. \A i \in 0..N : \A t \in g[i] : Right(t, i)
  <2> DEFINE S == {i \in 0..N : ~ \A t \in g[i] : Right(t, i)}
  <2>1. SUFFICES ASSUME S # {} PROVE FALSE
    OBVIOUS
  <2>2. PICK m \in S : \A i \in S : m <= i
    <3>1. S \in SUBSET Nat
      BY <1>1
    <3> HIDE DEF S
    <3> QED
      BY <2>1, <3>1, MinExists
  <2>3. m # 0
    <3>1. \A t \in g[0] : t.v = v /\ t.oldest = None
      BY <1>3
    <3>2. Shuffled(v, v)
      BY DEF Shuffled
    <3>3. \A t \in g[0] : Right(t, 0)
      BY <3>1, <3>2
    <3> QED
      BY <2>2, <3>3
  <2>4. m \in 1..N /\ m - 1 \in 0..N /\ m - 1 \notin S
    BY <1>1, <2>2, <2>3
  <2>5. \A t \in g[m - 1] : Right(t, m - 1)
    BY <2>4
  <2>6. \A t \in g[m] : Right(t, m)
    <3> TAKE t \in g[m]
    <3>1. PICK u \in g[m - 1], p \in m..Len(v) : t = LoopBody(a, u, m, p)
      BY <1>3, <2>4
    <3>2. m \in DOMAIN v /\ p \in DOMAIN v
      BY <1>1, <2>4
    <3>3. Right(u, m - 1)
      BY <2>5
    <3>4. t.v = SwapAt(u.v, m, p) /\ (u.oldest = None => t.pos = p) /\ t.pos \in {p, u.pos}
      BY <3>1 DEF LoopBody
    <3>5. Shuffled(t.v, v)
      BY <3>2, <3>3, <3>4, SwapShuffles
    <3>6. t.pos \in DOMAIN v
      BY <2>4, <3>2, <3>3, <3>4
    <3> QED
      BY <2>3, <3>5, <3>6
  <2> QED
    BY <2>2, <2>6
<1>5. N \in 0..N /\ N # 0
  BY <1>1
<1> QED
  BY <1>2, <1>4, <1>5

-----------------------------------------------------------------------------
(* MakeTried *)

\* What moving between the tables leaves of an entry.
SameSpot(p, q) ==
    /\ p.host = q.host /\ p.port = q.port /\ p.source = q.source
    /\ p.nRandomPos = q.nRandomPos

\* Tables with the same hosts at the same positions.
SameKeys(r, a) ==
    /\ Entries(r) = Entries(a)
    /\ r.nIdCount = a.nIdCount /\ r.mapAddr = a.mapAddr /\ r.vRandom = a.vRandom
    /\ \A x \in Entries(a) : SameSpot(r.mapInfo[x], a.mapInfo[x])

\* w is the tried bucket v after id came in and the entries of O went out.
BucketMoved(w, v, id, O) ==
    /\ Len(w) <= TriedBucketSize
    /\ \A i \in DOMAIN w :
         w[i] = id \/ (w[i] \notin O /\ \E j \in DOMAIN v : w[i] = v[j])
    /\ \E i \in DOMAIN w : w[i] = id
    /\ \A j \in DOMAIN v : v[j] \notin O => \E i \in DOMAIN w : w[i] = v[j]
    /\ \A i, j \in DOMAIN w : w[i] = w[j] => i = j

\* The table r is a after id came to the tried bucket k, and the entries of O went out.
Moved(r, a, id, k, O) ==
    /\ SameKeys(r, a)
    /\ k = HashedTo(a.mapInfo[id]) /\ \A x \in O : HashedTo(a.mapInfo[x]) = k
    /\ Tried(r) = (Tried(a) \ O) \cup {id}
    /\ \A x \in Tried(r) : r.mapInfo[x].nLastSuccess # 0
    /\ \A q \in TriedBuckets \ {k} : r.vvTried[q] = a.vvTried[q]
    /\ BucketMoved(r.vvTried[k], a.vvTried[k], id, O)

\* The indices and the tried buckets are right after such a move.
LEMMA MoveKeeps ==
    ASSUME NEW a, Sound(a), NEW r \in Tables, NEW id \in New(a), NEW k \in TriedBuckets,
           NEW O \in SUBSET Tried(a), Moved(r, a, id, k, O)
    PROVE  IndexRight(r) /\ TriedRight(r)
<1> USE DEF Moved
<1>1. \A x \in Entries(a) : /\ r.mapInfo[x].host = a.mapInfo[x].host
                            /\ r.mapInfo[x].nRandomPos = a.mapInfo[x].nRandomPos
                            /\ HashedTo(r.mapInfo[x]) = HashedTo(a.mapInfo[x])
  <2> TAKE x \in Entries(a)
  <2>1. SameSpot(r.mapInfo[x], a.mapInfo[x])
    BY DEF SameKeys
  <2> QED
    BY <2>1 DEF SameSpot, HashedTo
<1>2. IndexRight(r)
  BY <1>1 DEF Sound, IndexRight, SameKeys
<1>3. /\ \A x \in Tried(a) : x \in Entries(a) /\ x # id
      /\ id \in Entries(a)
  BY DEF Tried, New
<1>4. \A x \in Tried(r) : HashedTo(r.mapInfo[x]) = HashedTo(a.mapInfo[x])
  BY <1>1, <1>3
<1>5. \A q \in TriedBuckets :
        /\ Len(r.vvTried[q]) <= TriedBucketSize
        /\ \A i \in DOMAIN r.vvTried[q] :
             /\ r.vvTried[q][i] \in Tried(r)
             /\ HashedTo(r.mapInfo[r.vvTried[q][i]]) = q
             /\ \A j \in DOMAIN r.vvTried[q] : r.vvTried[q][i] = r.vvTried[q][j] => i = j
  <2> TAKE q \in TriedBuckets
  <2>1. CASE q = k
    <3>1. Len(r.vvTried[k]) <= TriedBucketSize
      BY DEF BucketMoved
    <3>2. \A j \in DOMAIN a.vvTried[k] :
             a.vvTried[k][j] \in Tried(a) /\ HashedTo(a.mapInfo[a.vvTried[k][j]]) = k
      BY DEF Sound, TriedRight
    <3>3. \A i \in DOMAIN r.vvTried[k] :
             r.vvTried[k][i] \in Tried(r) /\ HashedTo(r.mapInfo[r.vvTried[k][i]]) = k
      <4> TAKE i \in DOMAIN r.vvTried[k]
      <4>1. CASE r.vvTried[k][i] = id
        BY <1>4, <4>1
      <4>2. CASE r.vvTried[k][i] # id
        <5>1. PICK j \in DOMAIN a.vvTried[k] : r.vvTried[k][i] = a.vvTried[k][j]
          BY <4>2 DEF BucketMoved
        <5>2. r.vvTried[k][i] \notin O
          BY <4>2 DEF BucketMoved
        <5> QED
          BY <1>4, <3>2, <5>1, <5>2
      <4> QED
        BY <4>1, <4>2
    <3>4. \A i, j \in DOMAIN r.vvTried[k] : r.vvTried[k][i] = r.vvTried[k][j] => i = j
      BY DEF BucketMoved
    <3> QED
      BY <2>1, <3>1, <3>3, <3>4
  <2>2. CASE q # k
    <3>1. r.vvTried[q] = a.vvTried[q]
      BY <2>2
    <3>2. /\ Len(a.vvTried[q]) <= TriedBucketSize
          /\ \A i \in DOMAIN a.vvTried[q] :
               /\ a.vvTried[q][i] \in Tried(a)
               /\ HashedTo(a.mapInfo[a.vvTried[q][i]]) = q
               /\ \A j \in DOMAIN a.vvTried[q] : a.vvTried[q][i] = a.vvTried[q][j] => i = j
      BY DEF Sound, TriedRight
    <3>3. \A i \in DOMAIN a.vvTried[q] : a.vvTried[q][i] \notin O
      BY <2>2, <3>2
    <3> QED
      BY <1>4, <3>1, <3>2, <3>3
  <2> QED
    BY <2>1, <2>2
<1>6. \A x \in Tried(r) :
         \E i \in DOMAIN r.vvTried[HashedTo(r.mapInfo[x])] :
            r.vvTried[HashedTo(r.mapInfo[x])][i] = x
  <2> TAKE x \in Tried(r)
  <2> DEFINE q == HashedTo(a.mapInfo[x])
  <2>0. HashedTo(r.mapInfo[x]) = q
    BY <1>4
  <2>1. CASE x = id
    BY <2>0, <2>1 DEF BucketMoved
  <2>2. CASE x # id
    <3>1. x \in Tried(a) /\ x \notin O
      BY <2>2
    <3>2. PICK j \in DOMAIN a.vvTried[q] : a.vvTried[q][j] = x
      BY <3>1 DEF Sound, TriedRight
    <3>3. q \in TriedBuckets
      <4>1. x \in Entries(a) /\ a \in Tables
        BY <1>3, <3>1 DEF Sound
      <4>2. a.mapInfo[x] \in Entry
        BY <4>1, TableIs
      <4> QED
        BY <4>2, BucketAssumption DEF Entry, HashedTo
    <3>4. CASE q = k
      BY <2>0, <3>1, <3>2, <3>4 DEF BucketMoved
    <3>5. CASE q # k
      <4>1. r.vvTried[q] = a.vvTried[q]
        BY <3>3, <3>5
      <4> QED
        BY <2>0, <3>2, <4>1
    <3> QED
      BY <3>4, <3>5
  <2> QED
    BY <2>1, <2>2
<1>7. TriedRight(r)
  BY <1>5, <1>6 DEF TriedRight
<1> QED
  BY <1>2, <1>7

Out(a, id) == [WithoutNew(a, id) EXCEPT !.mapInfo[id].fInTried = TRUE]

\* An entry that becomes tried is in no new bucket any more.
LEMMA OutDoes ==
    ASSUME NEW a, AddrRight(a), NEW id \in New(a), NEW o, o = Out(a, id)
    PROVE  /\ o \in Tables /\ Entries(o) = Entries(a)
           /\ \A x \in Entries(a) \ {id} : o.mapInfo[x] = a.mapInfo[x]
           /\ SameSpot(o.mapInfo[id], a.mapInfo[id])
           /\ o.mapInfo[id].nLastSuccess = a.mapInfo[id].nLastSuccess
           /\ o.mapInfo[id].fInTried /\ o.mapInfo[id].nRefCount = 0
           /\ o.nIdCount = a.nIdCount /\ o.mapAddr = a.mapAddr /\ o.vRandom = a.vRandom
           /\ o.nTried = a.nTried /\ o.nNew = a.nNew /\ o.vvTried = a.vvTried
           /\ \A b \in NewBuckets : o.vvNew[b] = a.vvNew[b] \ {id}
<1> DEFINE n == a.mapInfo[id].nRefCount - Cardinality(BucketsWith(a, id))
           f == [a.mapInfo[id] EXCEPT !.nRefCount = n]
           e == [f EXCEPT !.fInTried = TRUE]
           w == [b \in NewBuckets |-> a.vvNew[b] \ {id}]
           c == WithoutNew(a, id)
<1>1. a \in Tables /\ id \in Entries(a) /\ Counted(a, id)
  BY DEF AddrRight, Sound, New
<1>2. a.mapInfo \in [Entries(a) -> Entry] /\ a.vvNew \in [NewBuckets -> SUBSET Ids]
  BY <1>1, TableIs
<1>3. n = 0
  <2>1. Cardinality(BucketsWith(a, id)) \in Nat
    BY <1>1, Finite
  <2> QED
    BY <1>1, <2>1 DEF Counted
<1>4. w \in [NewBuckets -> SUBSET Ids] /\ \A b \in NewBuckets : w[b] = a.vvNew[b] \ {id}
  BY <1>2
<1>5. c = Updated(a, id, f, w)
  BY <1>1 DEF WithoutNew, Updated, Tables
<1>6. a.mapInfo[id] \in Entry
  BY <1>1, <1>2
<1> HIDE DEF n, w, c
<1>7. f \in Entry /\ f.nRefCount = 0 /\ SameSpot(f, a.mapInfo[id])
      /\ f.nLastSuccess = a.mapInfo[id].nLastSuccess
  BY <1>3, <1>6 DEF Entry, SameSpot
<1> HIDE DEF f
<1>8. e \in Entry /\ e.nRefCount = 0 /\ e.fInTried /\ SameSpot(e, f)
      /\ e.nLastSuccess = f.nLastSuccess
  BY <1>7 DEF Entry, SameSpot
<1>9. SameSpot(e, a.mapInfo[id])
  BY <1>7, <1>8 DEF SameSpot
<1> HIDE DEF e
<1>10. /\ c \in Tables /\ Entries(c) = Entries(a)
       /\ c.mapInfo[id] = f /\ \A x \in Entries(a) \ {id} : c.mapInfo[x] = a.mapInfo[x]
       /\ c.nIdCount = a.nIdCount /\ c.mapAddr = a.mapAddr /\ c.vRandom = a.vRandom
       /\ c.nTried = a.nTried /\ c.nNew = a.nNew /\ c.vvTried = a.vvTried
       /\ c.vvNew = w
  BY <1>1, <1>4, <1>5, <1>7, UpdateDoes
<1>11. o = Updated(c, id, e, w)
  <2> DEFINE m == [c.mapInfo EXCEPT ![id] = e]
  <2>1. o = [c EXCEPT !.mapInfo = m]
    BY <1>10 DEF Out, c, e
  <2> HIDE DEF m
  <2>2. [c EXCEPT !.mapInfo = m, !.vvNew = w] = [c EXCEPT !.mapInfo = m]
    BY <1>10 DEF Tables
  <2> QED
    BY <2>1, <2>2 DEF Updated, m
<1>12. /\ o \in Tables /\ Entries(o) = Entries(c)
       /\ o.mapInfo[id] = e /\ \A x \in Entries(c) \ {id} : o.mapInfo[x] = c.mapInfo[x]
       /\ o.nIdCount = c.nIdCount /\ o.mapAddr = c.mapAddr /\ o.vRandom = c.vRandom
       /\ o.nTried = c.nTried /\ o.nNew = c.nNew /\ o.vvTried = c.vvTried
       /\ o.vvNew = w
  BY <1>1, <1>4, <1>8, <1>10, <1>11, UpdateDoes
<1>13. /\ Entries(o) = Entries(a)
       /\ \A x \in Entries(a) \ {id} : o.mapInfo[x] = a.mapInfo[x]
  BY <1>10, <1>12
<1>14. /\ SameSpot(o.mapInfo[id], a.mapInfo[id])
       /\ o.mapInfo[id].nLastSuccess = a.mapInfo[id].nLastSuccess
       /\ o.mapInfo[id].fInTried /\ o.mapInfo[id].nRefCount = 0
  BY <1>7, <1>8, <1>9, <1>12
<1>15. \A b \in NewBuckets : o.vvNew[b] = a.vvNew[b] \ {id}
  BY <1>4, <1>12
<1> QED
  BY <1>10, <1>12, <1>13, <1>14, <1>15

Remade(a, m, tried, nTried, new, nNew) ==
    [a EXCEPT !.mapInfo = m, !.vvTried = tried, !.nTried = nTried,
              !.vvNew = new, !.nNew = nNew]

Appended(o, k, id) ==
    [o EXCEPT !.vvTried[k] = Append(@, id), !.nNew = @ - 1, !.nTried = @ + 1]

\* The hash of an entry is a bucket.
LEMMA HashIs ==
    ASSUME NEW a \in Tables, NEW id \in Entries(a)
    PROVE  /\ HashedTo(a.mapInfo[id]) \in TriedBuckets
           /\ NewBucketOf[a.mapInfo[id].host, a.mapInfo[id].source] \in NewBuckets
<1>1. a.mapInfo[id] \in Entry
  BY TableIs
<1> QED
  BY <1>1, BucketAssumption DEF Entry, HashedTo

\* The tried bucket has room.
LEMMA AppendKeeps ==
    ASSUME NEW a, AddrRight(a), NEW id \in New(a), a.mapInfo[id].nLastSuccess # 0,
           NEW k, k = HashedTo(a.mapInfo[id]), Len(a.vvTried[k]) < TriedBucketSize,
           NEW o, o = Out(a, id), NEW r, r = Appended(o, k, id)
    PROVE  AddrRight(r) /\ r.mapAddr = a.mapAddr
<1> DEFINE v == a.vvTried[k]
           tried == [a.vvTried EXCEPT ![k] = Append(v, id)]
           new == a.nNew - 1
           nTried == a.nTried + 1
<1>1. a \in Tables /\ id \in Entries(a) /\ Sound(a) /\ ~a.mapInfo[id].fInTried
  BY DEF AddrRight, Sound, New
<1>2. /\ a.vvTried \in [TriedBuckets -> Seq(Ids)] /\ id \in Ids
      /\ a.nNew \in Int /\ a.nTried \in Int /\ a.vvNew \in [NewBuckets -> SUBSET Ids]
      /\ k \in TriedBuckets
  BY <1>1, TableIs, HashIs
<1>3. /\ o \in Tables /\ Entries(o) = Entries(a)
      /\ \A x \in Entries(a) \ {id} : o.mapInfo[x] = a.mapInfo[x]
      /\ SameSpot(o.mapInfo[id], a.mapInfo[id])
      /\ o.mapInfo[id].nLastSuccess = a.mapInfo[id].nLastSuccess
      /\ o.mapInfo[id].fInTried /\ o.mapInfo[id].nRefCount = 0
      /\ o.nIdCount = a.nIdCount /\ o.mapAddr = a.mapAddr /\ o.vRandom = a.vRandom
      /\ o.nTried = a.nTried /\ o.nNew = a.nNew /\ o.vvTried = a.vvTried
      /\ \A b \in NewBuckets : o.vvNew[b] = a.vvNew[b] \ {id}
  BY OutDoes
<1>4. o.mapInfo \in [Entries(o) -> Entry] /\ o.vvNew \in [NewBuckets -> SUBSET Ids]
  BY <1>3, TableIs
<1>5. /\ v \in Seq(Ids) /\ Len(v) \in Nat /\ DOMAIN v = 1..Len(v)
      /\ tried \in [TriedBuckets -> Seq(Ids)]
      /\ tried[k] \in Seq(Ids) /\ Len(tried[k]) = Len(v) + 1 /\ tried[k][Len(v) + 1] = id
      /\ DOMAIN tried[k] = 1..(Len(v) + 1)
      /\ \A i \in DOMAIN v : tried[k][i] = v[i]
      /\ \A q \in TriedBuckets \ {k} : tried[q] = a.vvTried[q]
  BY <1>2
<1>6. new \in Int /\ nTried \in Int
  BY <1>2
<1>7. r = Remade(o, o.mapInfo, tried, nTried, o.vvNew, new)
  <2>1. r = [o EXCEPT !.vvTried = tried, !.nNew = new, !.nTried = nTried]
    BY <1>3 DEF Appended, Tables
  <2> HIDE DEF tried, new, nTried
  <2> QED
    BY Zenon, <1>3, <2>1 DEF Remade, Tables
<1> HIDE DEF tried, new, nTried, v
<1>8. /\ r \in Tables /\ Entries(r) = Entries(o) /\ r.mapInfo = o.mapInfo
      /\ r.vvTried = tried /\ r.nTried = nTried /\ r.vvNew = o.vvNew /\ r.nNew = new
      /\ r.nIdCount = o.nIdCount /\ r.mapAddr = o.mapAddr /\ r.vRandom = o.vRandom
  <2>1. r = TableOf(o.nIdCount, o.mapInfo, o.mapAddr, o.vRandom, tried, nTried, o.vvNew, new)
    BY <1>3, <1>7 DEF Remade, Tables, TableOf
  <2>2. /\ o.nIdCount \in 0..MaxId /\ o.mapInfo \in InfoMaps
        /\ o.mapAddr \in [Hosts -> Ids \cup {None}] /\ o.vRandom \in Seq(Ids)
    BY <1>3 DEF Tables
  <2>3. r \in Tables
    BY <1>4, <1>5, <1>6, <2>1, <2>2 DEF TableOf, Tables
  <2>4. /\ r.mapInfo = o.mapInfo
        /\ r.vvTried = tried /\ r.nTried = nTried /\ r.vvNew = o.vvNew /\ r.nNew = new
        /\ r.nIdCount = o.nIdCount /\ r.mapAddr = o.mapAddr /\ r.vRandom = o.vRandom
    BY <2>1 DEF TableOf
  <2> QED
    BY <2>3, <2>4 DEF Entries
<1>9. /\ Tried(r) = Tried(a) \cup {id} /\ New(r) = New(a) \ {id} /\ id \notin Tried(a)
  BY <1>1, <1>3, <1>8 DEF Tried, New
<1>10. CountRight(r)
  <2>1. /\ IsFiniteSet(New(a)) /\ Cardinality(New(a)) \in Nat
        /\ IsFiniteSet(Tried(a)) /\ Cardinality(Tried(a)) \in Nat
    BY <1>1, Finite
  <2>2. Cardinality(New(a) \ {id}) = Cardinality(New(a)) - 1
    BY <2>1, FS_RemoveElement
  <2>3. Cardinality(Tried(a) \cup {id}) = Cardinality(Tried(a)) + 1
    BY <1>9, <2>1, FS_AddElement
  <2>4. /\ Len(a.vRandom) = a.nTried + a.nNew
        /\ a.nTried = Cardinality(Tried(a)) /\ a.nNew = Cardinality(New(a))
    BY <1>1 DEF Sound, CountRight
  <2>5. new = Cardinality(New(r)) /\ nTried = Cardinality(Tried(r))
        /\ Len(a.vRandom) = nTried + new
    BY <1>2, <1>9, <2>1, <2>2, <2>3, <2>4 DEF new, nTried
  <2> QED
    BY <1>3, <1>8, <2>5 DEF CountRight
<1>11. NewRight(r)
  <2> SUFFICES ASSUME NEW b \in NewBuckets
               PROVE  r.vvNew[b] \subseteq New(r) /\ Cardinality(r.vvNew[b]) <= NewBucketSize
    BY DEF NewRight
  <2>1. r.vvNew[b] = a.vvNew[b] \ {id}
    BY <1>3, <1>8
  <2>2. a.vvNew[b] \subseteq New(a) /\ Cardinality(a.vvNew[b]) <= NewBucketSize
    BY <1>1 DEF Sound, NewRight
  <2>3. IsFiniteSet(a.vvNew[b]) /\ Cardinality(a.vvNew[b]) \in Nat
    BY <1>1, Finite
  <2>4. Cardinality(r.vvNew[b]) <= Cardinality(a.vvNew[b]) /\ Cardinality(r.vvNew[b]) \in Nat
    BY <2>1, <2>3, FS_Subset, FS_CardinalityType
  <2>5. NewBucketSize \in Nat
    BY BucketAssumption
  <2> QED
    BY <1>9, <2>1, <2>2, <2>3, <2>4, <2>5
<1>12. IndexRight(r) /\ TriedRight(r)
  <2>1. \A x \in Entries(a) : SameSpot(r.mapInfo[x], a.mapInfo[x])
    BY <1>3, <1>8 DEF SameSpot
  <2>2. \A x \in Tried(a) : x \in Entries(a) \ {id}
    BY <1>9 DEF Tried
  <2>3. \A x \in Tried(r) : r.mapInfo[x].nLastSuccess # 0
    BY <1>1, <1>3, <1>8, <1>9, <2>2 DEF Sound, TriedRight
  <2>4. \A j \in DOMAIN v : v[j] \in Tried(a) /\ \A i \in DOMAIN v : v[j] = v[i] => j = i
    BY <1>1, <1>2 DEF Sound, TriedRight, v
  <2>5. BucketMoved(tried[k], v, id, {})
    <3>1. /\ \A i \in DOMAIN tried[k] :
               tried[k][i] = id \/ \E j \in DOMAIN v : tried[k][i] = v[j]
          /\ \E i \in DOMAIN tried[k] : tried[k][i] = id
          /\ \A j \in DOMAIN v : \E i \in DOMAIN tried[k] : tried[k][i] = v[j]
      BY <1>5
    <3>2. \A i, j \in DOMAIN tried[k] : tried[k][i] = tried[k][j] => i = j
      BY <1>5, <1>9, <2>4
    <3>3. Len(tried[k]) <= TriedBucketSize
      BY <1>5, BucketAssumption DEF v
    <3> HIDE DEF tried
    <3> QED
      BY <3>1, <3>2, <3>3 DEF BucketMoved
  <2> DEFINE O == {}
  <2>6. O \in SUBSET Tried(a) /\ Tried(r) = (Tried(a) \ O) \cup {id}
        /\ \A x \in O : HashedTo(a.mapInfo[x]) = k
    BY <1>9
  <2>7. BucketMoved(r.vvTried[k], a.vvTried[k], id, O)
    BY <1>8, <2>5 DEF v
  <2> HIDE DEF O
  <2>8. SameKeys(r, a)
    BY <1>3, <1>8, <2>1 DEF SameKeys
  <2>9. \A q \in TriedBuckets \ {k} : r.vvTried[q] = a.vvTried[q]
    BY <1>5, <1>8
  <2>10. Sound(a) /\ r \in Tables /\ k \in TriedBuckets
    BY <1>1, <1>2, <1>8
  <2>11. Moved(r, a, id, k, O)
    BY <2>3, <2>6, <2>7, <2>8, <2>9 DEF Moved
  <2> QED
    BY <2>6, <2>10, <2>11, MoveKeeps
<1>13. \A x \in Entries(r) : Counted(r, x)
  <2> TAKE x \in Entries(r)
  <2>1. CASE x = id
    <3>1. BucketsWith(r, id) = {}
      BY <1>3, <1>8 DEF BucketsWith
    <3>2. Cardinality({}) = 0
      BY FS_EmptySet
    <3> QED
      BY <1>3, <1>8, <2>1, <3>1, <3>2 DEF Counted
  <2>2. CASE x # id
    <3>1. BucketsWith(r, x) = BucketsWith(a, x)
      <4>1. \A b \in NewBuckets : x \in r.vvNew[b] <=> x \in a.vvNew[b]
        BY <1>3, <1>8, <2>2
      <4> QED
        BY <4>1 DEF BucketsWith
    <3>2. r.mapInfo[x] = a.mapInfo[x] /\ Counted(a, x)
      BY <1>3, <1>8, <2>2 DEF AddrRight
    <3> QED
      BY <3>1, <3>2 DEF Counted
  <2> QED
    BY <2>1, <2>2
<1> QED
  BY <1>3, <1>8, <1>10, <1>11, <1>12, <1>13 DEF AddrRight, Sound

Evicted(o, k, old, b, w) ==
    [o EXCEPT !.mapInfo[old].fInTried = FALSE, !.mapInfo[old].nRefCount = 1,
              !.vvNew[b] = @ \cup {old}, !.vvTried[k] = w]

Swapped(w, v, id, old) == BucketMoved(w, v, id, {old})

\* The tried bucket is full: old goes from it to the new bucket b, which has room.
LEMMA EvictKeeps ==
    ASSUME NEW a, AddrRight(a), NEW id \in New(a), a.mapInfo[id].nLastSuccess # 0,
           NEW k \in TriedBuckets, k = HashedTo(a.mapInfo[id]),
           NEW old \in Tried(a), HashedTo(a.mapInfo[old]) = k,
           NEW w \in Seq(Ids), Swapped(w, a.vvTried[k], id, old),
           NEW o, o = Out(a, id),
           NEW b \in NewBuckets, Cardinality(o.vvNew[b]) < NewBucketSize,
           NEW r, r = Evicted(o, k, old, b, w)
    PROVE  AddrRight(r) /\ r.mapAddr = a.mapAddr
<1> DEFINE f == [o.mapInfo[old] EXCEPT !.fInTried = FALSE]
           e == [f EXCEPT !.nRefCount = 1]
           m == [o.mapInfo EXCEPT ![old] = e]
           tried == [a.vvTried EXCEPT ![k] = w]
           new == [o.vvNew EXCEPT ![b] = o.vvNew[b] \cup {old}]
<1>1. /\ a \in Tables /\ id \in Entries(a) /\ Sound(a) /\ ~a.mapInfo[id].fInTried
      /\ old \in Entries(a) /\ a.mapInfo[old].fInTried /\ old # id
  BY DEF AddrRight, Sound, New, Tried
<1>2. /\ a.vvTried \in [TriedBuckets -> Seq(Ids)] /\ id \in Ids /\ old \in Ids
      /\ a.vvNew \in [NewBuckets -> SUBSET Ids] /\ a.mapInfo \in [Entries(a) -> Entry]
  BY <1>1, TableIs
<1>3. /\ o \in Tables /\ Entries(o) = Entries(a)
      /\ \A x \in Entries(a) \ {id} : o.mapInfo[x] = a.mapInfo[x]
      /\ SameSpot(o.mapInfo[id], a.mapInfo[id])
      /\ o.mapInfo[id].nLastSuccess = a.mapInfo[id].nLastSuccess
      /\ o.mapInfo[id].fInTried /\ o.mapInfo[id].nRefCount = 0
      /\ o.nIdCount = a.nIdCount /\ o.mapAddr = a.mapAddr /\ o.vRandom = a.vRandom
      /\ o.nTried = a.nTried /\ o.nNew = a.nNew /\ o.vvTried = a.vvTried
      /\ \A q \in NewBuckets : o.vvNew[q] = a.vvNew[q] \ {id}
  BY OutDoes
<1>4. o.mapInfo \in [Entries(o) -> Entry] /\ o.vvNew \in [NewBuckets -> SUBSET Ids]
  BY <1>3, TableIs
<1>5. /\ tried \in [TriedBuckets -> Seq(Ids)] /\ tried[k] = w
      /\ \A q \in TriedBuckets \ {k} : tried[q] = a.vvTried[q]
  BY <1>2
<1>6. /\ new \in [NewBuckets -> SUBSET Ids] /\ new[b] = o.vvNew[b] \cup {old}
      /\ \A q \in NewBuckets \ {b} : new[q] = o.vvNew[q]
  BY <1>2, <1>4
<1>7. /\ f \in Entry /\ f.fInTried = FALSE /\ SameSpot(f, a.mapInfo[old])
  <2>1. o.mapInfo[old] \in Entry /\ o.mapInfo[old] = a.mapInfo[old]
    BY <1>1, <1>3, <1>4
  <2> QED
    BY <2>1 DEF Entry, SameSpot
<1>8. r = [o EXCEPT !.mapInfo = m, !.vvNew = new, !.vvTried = tried]
  <2> DEFINE m0 == [o.mapInfo EXCEPT ![old].fInTried = FALSE]
             m1 == [m0 EXCEPT ![old].nRefCount = 1]
  <2>1. m1 = m
    <3>1. m0 \in [Entries(o) -> Entry] /\ m0 = [o.mapInfo EXCEPT ![old] = f]
      BY <1>1, <1>3, <1>4, <1>7
    <3>2. m0[old] = f
      BY <1>1, <1>3, <1>4
    <3>3. m1 = [m0 EXCEPT ![old] = e]
      BY <3>2
    <3> QED
      BY <1>1, <1>3, <1>4, <3>1, <3>3
  <2>2. r = [o EXCEPT !.mapInfo = m1, !.vvNew = new, !.vvTried = tried]
    <3> DEFINE c == [o EXCEPT !.mapInfo = m0]
               d == [c EXCEPT !.mapInfo = m1]
    <3>1. c.mapInfo = m0 /\ c.vvNew = o.vvNew /\ c.vvTried = a.vvTried
      BY <1>3 DEF Tables
    <3>2. r = [d EXCEPT !.vvNew[b] = @ \cup {old}, !.vvTried[k] = w]
      BY <1>3, <3>1 DEF Evicted, Tables
    <3> HIDE DEF m0, m1
    <3>3. d = [o EXCEPT !.mapInfo = m1]
      BY <1>3 DEF Tables
    <3> HIDE DEF c, d
    <3>4. r = [[o EXCEPT !.mapInfo = m1] EXCEPT !.vvNew[b] = @ \cup {old}, !.vvTried[k] = w]
      BY <3>2, <3>3
    <3> QED
      BY <1>3, <3>4 DEF Tables
  <2> HIDE DEF m, m1
  <2> QED
    BY <2>1, <2>2
<1> HIDE DEF tried, new, f
<1>9. e \in Entry /\ e.fInTried = FALSE /\ e.nRefCount = 1 /\ SameSpot(e, a.mapInfo[old])
  BY <1>7 DEF Entry, SameSpot
<1> HIDE DEF e
<1>10. /\ m \in [Entries(a) -> Entry] /\ m[old] = e
       /\ \A x \in Entries(a) \ {old} : m[x] = o.mapInfo[x]
  BY <1>1, <1>3, <1>4, <1>9
<1>11. m \in InfoMaps /\ DOMAIN m = Entries(a)
  <2>1. DOMAIN m = Entries(a)
    BY <1>10
  <2>2. Entries(a) \in SUBSET Ids
    BY <1>1, TableIs
  <2> HIDE DEF m
  <2> QED
    BY <1>10, <2>1, <2>2, InfoMapsIs
<1> HIDE DEF m
<1>12. /\ r \in Tables /\ r.mapInfo = m
       /\ r.vvTried = tried /\ r.vvNew = new /\ r.nTried = o.nTried /\ r.nNew = o.nNew
       /\ r.nIdCount = o.nIdCount /\ r.mapAddr = o.mapAddr /\ r.vRandom = o.vRandom
  <2>1. r = TableOf(o.nIdCount, m, o.mapAddr, o.vRandom, tried, o.nTried, new, o.nNew)
    BY <1>3, <1>8 DEF Tables, TableOf
  <2>2. /\ o.nIdCount \in 0..MaxId /\ o.mapAddr \in [Hosts -> Ids \cup {None}]
        /\ o.vRandom \in Seq(Ids) /\ o.nTried \in Int /\ o.nNew \in Int
    BY <1>3 DEF Tables
  <2>3. r \in Tables
    BY <1>5, <1>6, <1>11, <2>1, <2>2 DEF TableOf, Tables
  <2>4. /\ r.mapInfo = m /\ r.vvTried = tried /\ r.vvNew = new /\ r.nTried = o.nTried
        /\ r.nNew = o.nNew
        /\ r.nIdCount = o.nIdCount /\ r.mapAddr = o.mapAddr /\ r.vRandom = o.vRandom
    BY <2>1 DEF TableOf
  <2> QED
    BY <2>3, <2>4
<1>13. Entries(r) = Entries(a)
  BY <1>11, <1>12 DEF Entries
<1>14. /\ \A x \in Entries(a) \ {id, old} : r.mapInfo[x] = a.mapInfo[x]
       /\ r.mapInfo[id] = o.mapInfo[id] /\ r.mapInfo[old] = e
  BY <1>1, <1>3, <1>10, <1>12
<1>15. /\ Tried(r) = (Tried(a) \ {old}) \cup {id}
       /\ New(r) = (New(a) \ {id}) \cup {old}
  <2>1. \A x \in Entries(a) : r.mapInfo[x].fInTried <=>
                                 x = id \/ (x # old /\ a.mapInfo[x].fInTried)
    BY <1>1, <1>3, <1>9, <1>14
  <2>2. \A x : x \in Tried(r) <=> x \in (Tried(a) \ {old}) \cup {id}
    BY <1>1, <1>13, <2>1 DEF Tried
  <2>3. \A x : x \in New(r) <=> x \in (New(a) \ {id}) \cup {old}
    BY <1>1, <1>13, <2>1 DEF New
  <2> QED
    BY <2>2, <2>3
<1>16. id \notin Tried(a) /\ old \notin New(a)
  BY <1>1 DEF Tried, New
<1>17. CountRight(r)
  <2>1. /\ IsFiniteSet(New(a)) /\ Cardinality(New(a)) \in Nat
        /\ IsFiniteSet(Tried(a)) /\ Cardinality(Tried(a)) \in Nat
    BY <1>1, Finite
  <2>2. Cardinality(New(a) \ {id}) = Cardinality(New(a)) - 1 /\ IsFiniteSet(New(a) \ {id})
    BY <2>1, FS_RemoveElement
  <2>3. Cardinality(Tried(a) \ {old}) = Cardinality(Tried(a)) - 1
        /\ IsFiniteSet(Tried(a) \ {old})
    BY <2>1, FS_RemoveElement
  <2>4. Cardinality((New(a) \ {id}) \cup {old}) = Cardinality(New(a) \ {id}) + 1
    BY <1>16, <2>2, FS_AddElement
  <2>5. Cardinality((Tried(a) \ {old}) \cup {id}) = Cardinality(Tried(a) \ {old}) + 1
    BY <1>16, <2>3, FS_AddElement
  <2>6. Cardinality(New(r)) = Cardinality(New(a)) /\ Cardinality(Tried(r)) = Cardinality(Tried(a))
    BY <1>15, <2>1, <2>2, <2>3, <2>4, <2>5
  <2>7. CountRight(a)
    BY <1>1 DEF Sound
  <2> QED
    BY <1>3, <1>12, <2>6, <2>7 DEF CountRight
<1>18. NewRight(r)
  <2>0. NewBucketSize \in Nat
    BY BucketAssumption
  <2> SUFFICES ASSUME NEW q \in NewBuckets
               PROVE  new[q] \subseteq New(r) /\ Cardinality(new[q]) <= NewBucketSize
    BY <1>12 DEF NewRight
  <2>1. a.vvNew[q] \subseteq New(a) /\ Cardinality(a.vvNew[q]) <= NewBucketSize
    BY <1>1 DEF Sound, NewRight
  <2>2. IsFiniteSet(a.vvNew[q]) /\ Cardinality(a.vvNew[q]) \in Nat
        /\ IsFiniteSet(o.vvNew[q]) /\ Cardinality(o.vvNew[q]) \in Nat
    BY <1>1, <1>3, Finite
  <2>3. o.vvNew[q] = a.vvNew[q] \ {id}
    BY <1>3
  <2>4. CASE q = b
    <3>1. Cardinality(o.vvNew[b]) < NewBucketSize
      OBVIOUS
    <3>2. old \notin o.vvNew[b]
      BY <1>16, <2>1, <2>3, <2>4
    <3>3. Cardinality(o.vvNew[b] \cup {old}) = Cardinality(o.vvNew[b]) + 1
      BY <2>2, <2>4, <3>2, FS_AddElement
    <3>4. new[q] = o.vvNew[b] \cup {old}
      BY <1>6, <2>4
    <3>5. Cardinality(new[q]) = Cardinality(o.vvNew[b]) + 1
      BY <3>3, <3>4
    <3>6. Cardinality(o.vvNew[b]) \in Nat
      BY <2>2, <2>4
    <3>7. Cardinality(new[q]) <= NewBucketSize
      BY <2>0, <3>1, <3>5, <3>6
    <3>8. new[q] \subseteq New(r)
      BY <1>15, <2>1, <2>3, <2>4, <3>4
    <3> QED
      BY <3>7, <3>8
  <2>5. CASE q # b
    <3>1. new[q] = a.vvNew[q] \ {id}
      BY <1>6, <2>3, <2>5
    <3>2. Cardinality(new[q]) <= Cardinality(a.vvNew[q]) /\ Cardinality(new[q]) \in Nat
      BY <2>2, <3>1, FS_Subset, FS_CardinalityType
    <3>3. Cardinality(new[q]) <= NewBucketSize
      BY <2>0, <2>1, <2>2, <3>2
    <3> QED
      BY <1>15, <2>1, <3>1, <3>3
  <2> QED
    BY <2>4, <2>5
<1>19. IndexRight(r) /\ TriedRight(r)
  <2>1. \A x \in Entries(a) : SameSpot(r.mapInfo[x], a.mapInfo[x])
    BY <1>3, <1>9, <1>14 DEF SameSpot
  <2>2. SameKeys(r, a)
    BY <1>3, <1>12, <1>13, <2>1 DEF SameKeys
  <2>3. \A x \in Tried(a) : x \in Entries(a) \ {id}
    BY <1>16 DEF Tried
  <2>4. \A x \in Tried(r) : r.mapInfo[x].nLastSuccess # 0
    BY <1>1, <1>3, <1>14, <1>15, <2>3 DEF Sound, TriedRight
  <2>5. Moved(r, a, id, k, {old})
    BY <1>5, <1>12, <1>15, <2>2, <2>4 DEF Moved, Swapped
  <2>6. Sound(a) /\ r \in Tables /\ {old} \in SUBSET Tried(a)
    BY <1>1, <1>12
  <2> DEFINE O == {old}
  <2> HIDE DEF O
  <2>7. O \in SUBSET Tried(a) /\ Moved(r, a, id, k, O)
    BY <2>5, <2>6 DEF O
  <2> QED
    BY <2>6, <2>7, MoveKeeps
<1>20. \A x \in Entries(r) : Counted(r, x)
  <2> TAKE x \in Entries(r)
  <2>1. CASE x = id
    <3>1. BucketsWith(r, id) = {}
      BY <1>1, <1>3, <1>6, <1>12 DEF BucketsWith
    <3>2. Cardinality({}) = 0
      BY FS_EmptySet
    <3> QED
      BY <1>3, <1>14, <2>1, <3>1, <3>2 DEF Counted
  <2>2. CASE x = old
    <3>1. \A q \in NewBuckets : old \notin a.vvNew[q]
      BY <1>1, <1>16 DEF Sound, NewRight
    <3>2. BucketsWith(r, old) = {b}
      BY <1>3, <1>6, <1>12, <3>1 DEF BucketsWith
    <3>3. Cardinality({b}) = 1
      BY FS_Singleton
    <3>4. BucketsPerAddress \in Nat \ {0}
      BY BucketAssumption
    <3> QED
      BY <1>9, <1>14, <2>2, <3>2, <3>3, <3>4 DEF Counted
  <2>3. CASE x # id /\ x # old
    <3>1. BucketsWith(r, x) = BucketsWith(a, x)
      <4>1. \A q \in NewBuckets : x \in new[q] <=> x \in a.vvNew[q]
        BY <1>3, <1>6, <2>3
      <4> QED
        BY <1>12, <4>1 DEF BucketsWith
    <3>2. r.mapInfo[x] = a.mapInfo[x] /\ Counted(a, x)
      BY <1>13, <1>14, <2>3 DEF AddrRight
    <3> QED
      BY <3>1, <3>2 DEF Counted
  <2> QED
    BY <2>1, <2>2, <2>3
<1> QED
  BY <1>3, <1>12, <1>17, <1>18, <1>19, <1>20 DEF AddrRight, Sound

Replaced(s, id) == [s.v EXCEPT ![s.pos] = id]

\* The tried bucket with id in the place of an evicted entry.
LEMMA ReplaceMoves ==
    ASSUME NEW v \in Seq(Ids), Len(v) <= TriedBucketSize, NEW s, Shuffled(s.v, v),
           s.pos \in DOMAIN v, NEW id \in Ids, \A j \in DOMAIN v : v[j] # id,
           NEW w, w = Replaced(s, id)
    PROVE  /\ w \in Seq(Ids) /\ Swapped(w, v, id, s.v[s.pos])
           /\ \E j \in DOMAIN v : s.v[s.pos] = v[j]
<1> DEFINE x == s.v
           p == s.pos
<1>0. Shuffled(x, v) /\ p \in DOMAIN v /\ w = [x EXCEPT ![p] = id]
  BY DEF Replaced
<1> HIDE DEF x, p
<1>1. /\ x \in Seq(Ids) /\ Len(x) = Len(v) /\ Len(v) \in Nat
      /\ DOMAIN v = 1..Len(v) /\ DOMAIN x = 1..Len(v)
  BY <1>0 DEF Shuffled
<1>2. /\ w \in Seq(Ids) /\ Len(w) = Len(v) /\ DOMAIN w = DOMAIN v
      /\ w[p] = id /\ \A i \in DOMAIN v \ {p} : w[i] = x[i]
  BY <1>0, <1>1
<1>3. \A i \in DOMAIN v : \E j \in DOMAIN v : x[i] = v[j]
  BY <1>0 DEF Shuffled
<1>4. \A i, j \in DOMAIN v : x[i] = x[j] => i = j
  BY <1>0 DEF Shuffled
<1>5. \A i \in DOMAIN w :
         w[i] = id \/ (w[i] \notin {x[p]} /\ \E j \in DOMAIN v : w[i] = v[j])
  <2> TAKE i \in DOMAIN w
  <2>1. CASE i = p
    BY <1>2, <2>1
  <2>2. CASE i # p
    <3>1. w[i] = x[i] /\ i \in DOMAIN v
      BY <1>2, <2>2
    <3>2. PICK j \in DOMAIN v : x[i] = v[j]
      BY <1>3, <3>1
    <3>3. x[i] # x[p]
      BY <1>0, <1>4, <2>2, <3>1
    <3> QED
      BY <3>1, <3>2, <3>3
  <2> QED
    BY <2>1, <2>2
<1>6. \A j \in DOMAIN v : v[j] \notin {x[p]} => \E i \in DOMAIN w : w[i] = v[j]
  <2> SUFFICES ASSUME NEW j \in DOMAIN v, v[j] # x[p] PROVE \E i \in DOMAIN w : w[i] = v[j]
    OBVIOUS
  <2>1. PICK i \in DOMAIN v : x[i] = v[j]
    BY <1>0 DEF Shuffled
  <2>2. i # p
    BY <2>1
  <2> QED
    BY <1>2, <2>1, <2>2
<1>7. \A i, j \in DOMAIN w : w[i] = w[j] => i = j
  <2> TAKE i, j \in DOMAIN w
  <2>1. \A n \in DOMAIN v : x[n] # id
    <3> TAKE n \in DOMAIN v
    <3>1. PICK h \in DOMAIN v : x[n] = v[h]
      BY <1>3
    <3> QED
      BY <3>1
  <2> QED
    BY <1>2, <1>4, <2>1
<1>8. Len(w) <= TriedBucketSize /\ \E i \in DOMAIN w : w[i] = id
  BY <1>0, <1>1, <1>2
<1> QED
  BY <1>0, <1>2, <1>3, <1>5, <1>6, <1>7, <1>8 DEF BucketMoved, Swapped, x, p

\* MakeTried, by the names used here.
NewHash(info) == NewBucketOf[info.host, info.source]
Emptied(a, id, old, nOrigin) ==
    Destination(Out(a, id).vvNew, NewHash(a.mapInfo[old]), nOrigin)

\* MakeTried in the terms above.
LEMMA MakeTriedIs ==
    ASSUME NEW a, NEW id
    PROVE  MakeTried(a, id) =
             LET k == HashedTo(a.mapInfo[id]) IN
             IF Len(a.vvTried[k]) < TriedBucketSize
             THEN {Appended(Out(a, id), k, id)}
             ELSE {Evicted(Out(a, id), k, s.v[s.pos], Emptied(a, id, s.v[s.pos], nOrigin),
                           Replaced(s, id)) :
                     s \in SelectTried(a, a.vvTried[k]), nOrigin \in BucketsWith(a, id)}
  BY DEF MakeTried, Appended, Evicted, Out, HashedTo, NewHash, Emptied, Replaced

\* Good_ of an entry that is in a new bucket.
LEMMA MakeTriedKeeps ==
    ASSUME NEW a, AddrRight(a), NEW id \in New(a), a.mapInfo[id].nLastSuccess # 0,
           NEW r \in MakeTried(a, id)
    PROVE  AddrRight(r) /\ r.mapAddr = a.mapAddr
<1> DEFINE k == HashedTo(a.mapInfo[id])
           v == a.vvTried[k]
           o == Out(a, id)
<1>1. a \in Tables /\ id \in Entries(a) /\ Sound(a) /\ id \in Ids
  <2>1. a \in Tables /\ id \in Entries(a) /\ Sound(a)
    BY DEF AddrRight, Sound, New
  <2> QED
    BY <2>1, TableIs
<1>2. k \in TriedBuckets /\ v \in Seq(Ids) /\ Len(v) \in Nat
  <2>1. k \in TriedBuckets
    BY <1>1, HashIs
  <2>2. a.vvTried \in [TriedBuckets -> Seq(Ids)]
    BY <1>1, TableIs
  <2> HIDE DEF k
  <2> QED
    BY <2>1, <2>2
<1>3. /\ \A i \in DOMAIN v : v[i] \in Tried(a) /\ HashedTo(a.mapInfo[v[i]]) = k
      /\ \A i, j \in DOMAIN v : v[i] = v[j] => i = j
      /\ Len(v) <= TriedBucketSize
  BY <1>1, <1>2 DEF Sound, TriedRight
<1>4. CASE Len(v) < TriedBucketSize
  <2>1. r = Appended(o, k, id)
    BY <1>4, MakeTriedIs
  <2> QED
    BY <1>4, <2>1, AppendKeeps
<1>5. CASE ~(Len(v) < TriedBucketSize)
  <2>1. PICK s \in SelectTried(a, v), nOrigin \in BucketsWith(a, id) :
          r = Evicted(o, k, s.v[s.pos], Emptied(a, id, s.v[s.pos], nOrigin), Replaced(s, id))
    BY <1>5, MakeTriedIs
  <2> DEFINE x == s.v
             p == s.pos
             old == x[p]
             w == Replaced(s, id)
             u == NewHash(a.mapInfo[old])
             b == Emptied(a, id, old, nOrigin)
  <2>2. r = Evicted(o, k, old, b, w)
    BY <2>1
  <2>3. Len(v) # 0
    BY <1>2, <1>5, BucketAssumption
  <2>4. Shuffled(x, v) /\ p \in DOMAIN v
    BY <1>2, <1>3, <2>3, SelectKeeps
  <2>5. \A j \in DOMAIN v : v[j] # id
    BY <1>3 DEF Tried, New
  <2>6. w \in Seq(Ids) /\ Swapped(w, v, id, old) /\ \E j \in DOMAIN v : old = v[j]
    <3> HIDE DEF v, k
    <3>1. v \in Seq(Ids) /\ Len(v) <= TriedBucketSize
      BY <1>2, <1>3
    <3> QED
      BY <1>1, <2>4, <2>5, <3>1, ReplaceMoves
  <2>7. old \in Tried(a) /\ HashedTo(a.mapInfo[old]) = k
    BY <1>3, <2>6
  <2>8. old \in Entries(a)
    BY <2>7 DEF Tried
  <2>9. u \in NewBuckets
    BY <1>1, <2>8, HashIs DEF NewHash
  <2>10. o.vvNew[nOrigin] = a.vvNew[nOrigin] \ {id} /\ nOrigin \in NewBuckets
         /\ id \in a.vvNew[nOrigin]
    BY OutDoes DEF BucketsWith
  <2>11. Cardinality(o.vvNew[nOrigin]) < NewBucketSize
    <3>1. Cardinality(a.vvNew[nOrigin]) <= NewBucketSize
      BY <1>1, <2>10 DEF Sound, NewRight
    <3>2. IsFiniteSet(a.vvNew[nOrigin]) /\ Cardinality(a.vvNew[nOrigin]) \in Nat
      BY <1>1, <2>10, Finite
    <3>3. Cardinality(a.vvNew[nOrigin] \ {id}) = Cardinality(a.vvNew[nOrigin]) - 1
      BY <2>10, <3>2, FS_RemoveElement
    <3> QED
      BY <2>10, <3>1, <3>2, <3>3, BucketAssumption
  <2>12. b \in NewBuckets /\ Cardinality(o.vvNew[b]) < NewBucketSize
    BY Zenon, <2>9, <2>10, <2>11 DEF Destination, Emptied
  <2> HIDE DEF w, x, p, b, u, o
  <2> DEFINE y == x[p]
  <2>13. r = Evicted(o, k, y, b, w) /\ w \in Seq(Ids) /\ y \in Tried(a) /\ HashedTo(a.mapInfo[y]) = k
         /\ Swapped(w, a.vvTried[k], id, y)
    BY <2>2, <2>6, <2>7
  <2>14. o = Out(a, id)
    BY DEF o
  <2> HIDE DEF y, k
  <2>15. k = HashedTo(a.mapInfo[id]) /\ k \in TriedBuckets
    BY <1>2 DEF k
  <2> QED
    BY <2>12, <2>13, <2>14, <2>15, EvictKeeps
<1> QED
  BY <1>4, <1>5

-----------------------------------------------------------------------------
(* Counting by injections; the ids of a set in increasing order *)

OneToOne(f, S, T) == f \in [S -> T] /\ \A x, y \in S : f[x] = f[y] => x = y
Onto(f, S, T) == \A t \in T : \E s \in S : f[s] = t

\* A one-to-one map cannot shrink a finite set, and is onto one of the same size.
LEMMA Inject ==
    ASSUME NEW S, NEW T, IsFiniteSet(T), NEW f, OneToOne(f, S, T)
    PROVE  /\ IsFiniteSet(S) /\ Cardinality(S) \in Nat /\ Cardinality(T) \in Nat
           /\ Cardinality(S) <= Cardinality(T)
           /\ Cardinality(S) = Cardinality(T) => Onto(f, S, T)
<1>1. f \in Injection(S, T)
  BY DEF Injection, IsInjective, OneToOne
<1>2. /\ IsFiniteSet(S) /\ Cardinality(S) <= Cardinality(T)
      /\ Cardinality(S) = Cardinality(T) <=> f \in Surjection(S, T)
  BY <1>1, FS_Injection
<1>3. f \in Surjection(S, T) => Onto(f, S, T)
  BY DEF Surjection, Onto
<1> QED
  BY <1>2, <1>3, FS_CardinalityType

UpTo(S, x) == {y \in S : y <= x}

\* The i-th id of a set is one of it, with i ids up to it.
LEMMA OrderedIs ==
    ASSUME NEW S \in SUBSET Nat, IsFiniteSet(S)
    PROVE  /\ Cardinality(S) \in Nat /\ Ordered(S) \in [1..Cardinality(S) -> S]
           /\ Ordered(S) \in Seq(S) /\ Len(Ordered(S)) = Cardinality(S)
           /\ \A i \in 1..Cardinality(S) : Cardinality(UpTo(S, Ordered(S)[i])) = i
           /\ \A i, j \in 1..Cardinality(S) : Ordered(S)[i] = Ordered(S)[j] => i = j
           /\ \A x \in S : \E i \in 1..Cardinality(S) : Ordered(S)[i] = x
<1> DEFINE n == Cardinality(S)
           f == [x \in S |-> Cardinality(UpTo(S, x))]
<1>1. n \in Nat
  BY FS_CardinalityType
<1>2. \A x \in S : /\ UpTo(S, x) \in SUBSET S /\ IsFiniteSet(UpTo(S, x))
                   /\ Cardinality(UpTo(S, x)) \in 1..n
  <2> TAKE x \in S
  <2>1. UpTo(S, x) \in SUBSET S /\ x \in UpTo(S, x)
    BY DEF UpTo
  <2>2. /\ IsFiniteSet(UpTo(S, x)) /\ Cardinality(UpTo(S, x)) <= n
        /\ Cardinality(UpTo(S, x)) \in Nat
    BY <2>1, FS_Subset, FS_CardinalityType
  <2>3. Cardinality(UpTo(S, x)) # 0
    BY <2>1, <2>2, FS_EmptySet
  <2> QED
    BY <1>1, <2>1, <2>2, <2>3
<1>3. \A x, y \in S : x < y => Cardinality(UpTo(S, x)) < Cardinality(UpTo(S, y))
  <2> SUFFICES ASSUME NEW x \in S, NEW y \in S, x < y
               PROVE  Cardinality(UpTo(S, x)) < Cardinality(UpTo(S, y))
    OBVIOUS
  <2>1. UpTo(S, x) \in SUBSET UpTo(S, y) /\ y \in UpTo(S, y) /\ y \notin UpTo(S, x)
    <3>1. x \in Nat /\ y \in Nat /\ \A z \in S : z \in Nat
      OBVIOUS
    <3>2. \A z \in S : z <= x => z <= y
      BY <3>1
    <3>3. y <= y /\ ~(y <= x)
      BY <3>1
    <3> QED
      BY <3>2, <3>3 DEF UpTo
  <2>2. /\ Cardinality(UpTo(S, x)) <= Cardinality(UpTo(S, y))
        /\ Cardinality(UpTo(S, y)) = Cardinality(UpTo(S, x)) => UpTo(S, y) = UpTo(S, x)
    BY <1>2, <2>1, FS_Subset
  <2>3. Cardinality(UpTo(S, x)) \in Nat /\ Cardinality(UpTo(S, y)) \in Nat
    BY <1>2, FS_CardinalityType
  <2> QED
    BY <2>1, <2>2, <2>3
<1>4. f \in [S -> 1..n] /\ \A x, y \in S : f[x] = f[y] => x = y
  <2>1. f \in [S -> 1..n] /\ \A x \in S : f[x] = Cardinality(UpTo(S, x))
    BY <1>2
  <2>2. \A x, y \in S : f[x] = f[y] => x = y
    <3> SUFFICES ASSUME NEW x \in S, NEW y \in S, x # y PROVE f[x] # f[y]
      OBVIOUS
    <3>1. f[x] \in 1..n /\ f[y] \in 1..n
      BY <2>1
    <3>2. CASE x < y
      BY <1>1, <1>3, <2>1, <3>1, <3>2
    <3>3. CASE y < x
      BY <1>1, <1>3, <2>1, <3>1, <3>3
    <3> QED
      BY <3>2, <3>3
  <2> QED
    BY <2>1, <2>2
<1>5. IsFiniteSet(1..n) /\ Cardinality(1..n) = n
  BY <1>1, FS_Interval
<1> HIDE DEF f
<1>6. \A i \in 1..n : \E x \in S : f[x] = i
  <2> DEFINE T == 1..n
  <2>1. IsFiniteSet(T) /\ Cardinality(T) = Cardinality(S) /\ f \in [S -> T]
    BY <1>4, <1>5
  <2>2. OneToOne(f, S, T)
    BY <1>4 DEF OneToOne
  <2> HIDE DEF T, n
  <2>3. Onto(f, S, T)
    BY <2>1, <2>2, Inject
  <2>4. \A t \in T : \E x \in S : f[x] = t
    BY <2>3 DEF Onto
  <2> QED
    BY <2>4 DEF T
<1>7. \A x \in S : f[x] = Cardinality(UpTo(S, x))
  BY DEF f
<1>8. Ordered(S) = [i \in 1..n |-> CHOOSE x \in S : Cardinality(UpTo(S, x)) = i]
  BY DEF Ordered, UpTo
<1>9. \A i \in 1..n : Ordered(S)[i] \in S /\ Cardinality(UpTo(S, Ordered(S)[i])) = i
  BY <1>6, <1>7, <1>8
<1>10. Ordered(S) \in [1..n -> S]
  BY <1>8, <1>9
<1>11. \A i, j \in 1..n : Ordered(S)[i] = Ordered(S)[j] => i = j
  BY <1>9
<1>12. \A x \in S : \E i \in 1..n : Ordered(S)[i] = x
  <2> TAKE x \in S
  <2> DEFINE i == f[x]
  <2>1. i \in 1..n
    BY <1>4
  <2>2. f[Ordered(S)[i]] = i /\ Ordered(S)[i] \in S
    BY <1>7, <1>9, <2>1
  <2>3. Ordered(S)[i] = x
    BY <1>4, <2>2
  <2> QED
    BY <2>1, <2>3
<1>13. Ordered(S) \in Seq(S) /\ Len(Ordered(S)) = n
  BY <1>1, <1>10
<1> QED
  BY <1>1, <1>9, <1>10, <1>11, <1>12, <1>13

\* An interval from 1 is in order.
LEMMA IntervalOrdered ==
    ASSUME NEW m \in Nat
    PROVE  Cardinality(1..m) = m /\ \A i \in 1..m : Ordered(1..m)[i] = i
<1>1. IsFiniteSet(1..m) /\ Cardinality(1..m) = m
  BY FS_Interval
<1>2. \A i \in 1..m : Ordered(1..m)[i] \in 1..m /\ Cardinality(UpTo(1..m, Ordered(1..m)[i])) = i
  BY <1>1, OrderedIs
<1>3. \A x \in 1..m : Cardinality(UpTo(1..m, x)) = x
  <2> TAKE x \in 1..m
  <2>1. UpTo(1..m, x) = 1..x
    BY DEF UpTo
  <2> QED
    BY <2>1, FS_Interval
<1> QED
  BY <1>1, <1>2, <1>3

-----------------------------------------------------------------------------
(* Saving and loading *)

\* No more tried entries hash to a bucket than fit into it.
LEMMA BucketFits ==
    ASSUME NEW a, Sound(a), NEW k \in TriedBuckets, NEW S, NEW q,
           \A j \in S : q[j] \in Tried(a) /\ HashedTo(a.mapInfo[q[j]]) = k,
           \A i, j \in S : q[i] = q[j] => i = j
    PROVE  IsFiniteSet(S) /\ Cardinality(S) \in Nat /\ Cardinality(S) <= TriedBucketSize
<1> DEFINE v == a.vvTried[k]
           p == [j \in S |-> CHOOSE i \in DOMAIN v : v[i] = q[j]]
<1>1. v \in Seq(Ids) /\ Len(v) \in Nat /\ DOMAIN v = 1..Len(v) /\ Len(v) <= TriedBucketSize
  <2>1. a.vvTried \in [TriedBuckets -> Seq(Ids)]
    BY TableIs DEF Sound
  <2>2. Len(v) <= TriedBucketSize
    BY DEF Sound, TriedRight
  <2> QED
    BY <2>1, <2>2
<1>2. \A j \in S : \E i \in DOMAIN v : v[i] = q[j]
  BY DEF Sound, TriedRight
<1>3. \A j \in S : p[j] \in DOMAIN v /\ v[p[j]] = q[j]
  BY <1>2
<1> HIDE DEF v
<1> DEFINE T == 1..Len(v)
<1>4. OneToOne(p, S, T)
  <2>1. p \in [S -> T]
    BY <1>1, <1>3
  <2> HIDE DEF p, T
  <2>2. \A i, j \in S : p[i] = p[j] => i = j
    BY <1>3
  <2> QED
    BY <2>1, <2>2 DEF OneToOne
<1>5. IsFiniteSet(T) /\ Cardinality(T) = Len(v)
  BY <1>1, FS_Interval
<1> HIDE DEF T, p
<1>6. IsFiniteSet(S) /\ Cardinality(S) \in Nat /\ Cardinality(S) <= Cardinality(T)
  BY <1>4, <1>5, Inject
<1> QED
  BY <1>1, <1>5, <1>6, BucketAssumption

\* What was saved of am: g gives the old ids of the n new entries, then of the m tried.
Copied(n, m, g, all, new) ==
    /\ g \in [1..(n + m) -> Entries(am)]
    /\ \A i, j \in 1..(n + m) : g[i] = g[j] => i = j
    /\ \A id \in Entries(am) : \E i \in 1..(n + m) : g[i] = id
    /\ \A i \in 1..(n + m) : am.mapInfo[g[i]].fInTried <=> i > n
    /\ all \in Seq(Entry) /\ Len(all) = n + m
    /\ \A i \in 1..(n + m) : all[i] = am.mapInfo[g[i]]
    /\ new = [b \in NewBuckets |-> {i \in 1..n : g[i] \in am.vvNew[b]}]

\* What is saved as new is what is new, as every new entry has a reference.
LEMMA SavedIs ==
    ASSUME AddrInv
    PROVE  /\ {i \in Entries(am) : am.mapInfo[i].nRefCount # 0} = New(am)
           /\ \A b \in NewBuckets : am.vvNew[b] \subseteq New(am)
<1>1. am \in Tables /\ Sound(am)
  BY DEF AddrInv, AddrRight, Sound
<1>2. \A b \in NewBuckets : am.vvNew[b] \subseteq New(am)
  BY <1>1 DEF Sound, NewRight
<1>3. \A i \in Entries(am) : am.mapInfo[i].nRefCount # 0 <=> ~am.mapInfo[i].fInTried
  <2> TAKE i \in Entries(am)
  <2>1. Counted(am, i)
    BY DEF AddrInv, AddrRight
  <2>2. CASE am.mapInfo[i].fInTried
    <3>1. BucketsWith(am, i) = {}
      BY <1>2, <2>2 DEF BucketsWith, New
    <3> QED
      BY <2>1, <2>2, <3>1, FS_EmptySet DEF Counted
  <2>3. CASE ~am.mapInfo[i].fInTried
    BY <2>1, <2>3, BucketAssumption DEF Counted
  <2> QED
    BY <2>2, <2>3
<1> QED
  BY <1>2, <1>3 DEF New

\* Every tried entry finds its place.
LEMMA AllFit ==
    ASSUME AddrInv, NEW t, NEW f, NEW m \in Nat, t = Ordered(Tried(am)),
           m = Cardinality(Tried(am)),
           f.trieds = [i \in 1..m |-> am.mapInfo[t[i]]]
    PROVE  Fitting(f) = 1..m
<1>1. am \in Tables /\ Sound(am)
  BY DEF AddrInv, AddrRight, Sound
<1>2. IsFiniteSet(Tried(am)) /\ Tried(am) \in SUBSET Nat
  <2>1. Entries(am) \in SUBSET Ids /\ IsFiniteSet(Tried(am))
    BY <1>1, TableIs, Finite
  <2> QED
    BY <2>1 DEF Tried, Ids
<1>3. /\ t \in [1..m -> Tried(am)]
      /\ \A i, j \in 1..m : t[i] = t[j] => i = j
  BY <1>2, OrderedIs
<1>4. \A i \in 1..m : t[i] \in Tried(am) /\ f.trieds[i] = am.mapInfo[t[i]]
  BY <1>3
<1>5. \A i \in 1..m : Cardinality(Before(f, i)) < TriedBucketSize
  <2> TAKE i \in 1..m
  <2> DEFINE B == Before(f, i)
             S == B \cup {i}
             k == HashedTo(am.mapInfo[t[i]])
  <2>1. B = {j \in 1..(i - 1) : HashedTo(f.trieds[j]) = HashedTo(f.trieds[i])}
    BY DEF Before, HashedTo
  <2>2. \A j \in B : j \in 1..m /\ j # i /\ HashedTo(am.mapInfo[t[j]]) = k
    BY <1>4, <2>1
  <2>3. k \in TriedBuckets
    <3>1. t[i] \in Entries(am)
      BY Zenon, <1>4 DEF Tried
    <3> QED
      BY <1>1, <3>1, HashIs
  <2> HIDE DEF B, k
  <2>4. \A j \in S : j \in 1..m /\ HashedTo(am.mapInfo[t[j]]) = k
    BY <2>2 DEF k
  <2>5. \A j \in S : t[j] \in Tried(am) /\ HashedTo(am.mapInfo[t[j]]) = k
    BY <1>4, <2>4
  <2>6. \A h, j \in S : t[h] = t[j] => h = j
    BY <1>3, <2>4
  <2> HIDE DEF S
  <2>7. IsFiniteSet(S) /\ Cardinality(S) \in Nat /\ Cardinality(S) <= TriedBucketSize
    BY <1>1, <2>3, <2>5, <2>6, BucketFits
  <2>8. B \in SUBSET S
    BY DEF S
  <2>9. IsFiniteSet(B) /\ Cardinality(B) \in Nat
    BY <2>7, <2>8, FS_Subset, FS_CardinalityType
  <2>10. Cardinality(B \cup {i}) = Cardinality(B) + 1
    BY <2>2, <2>9, FS_AddElement
  <2>11. Cardinality(B) < TriedBucketSize
    BY <2>7, <2>9, <2>10, BucketAssumption DEF S
  <2> QED
    BY <2>11 DEF B
<1> QED
  BY <1>5 DEF Fitting

\* What is loaded is a copy of every entry, in an order where the new ones are first.
LEMMA LoadedIs ==
    ASSUME AddrInv
    PROVE  \E n, m \in Nat : \E g :
              /\ Len(Serialized.news) = n
              /\ Copied(n, m, g, Loaded(Serialized), Serialized.vvNew)
<1> DEFINE N == New(am)
           T == Tried(am)
           n == Cardinality(N)
           m == Cardinality(T)
           s == Ordered(N)
           t == Ordered(T)
           g == [i \in 1..(n + m) |-> IF i <= n THEN s[i] ELSE t[i - n]]
           news == [i \in 1..n |-> am.mapInfo[s[i]]]
           trieds == [i \in 1..m |-> am.mapInfo[t[i]]]
           f == Serialized
           new == [b \in NewBuckets |-> {i \in 1..n : s[i] \in am.vvNew[b]}]
<1>1. am \in Tables /\ Sound(am)
  BY DEF AddrInv, AddrRight, Sound
<1>2. /\ N \in SUBSET Nat /\ T \in SUBSET Nat /\ IsFiniteSet(N) /\ IsFiniteSet(T)
      /\ \A id : id \in Entries(am) <=> id \in N \/ id \in T
      /\ \A id \in N : id \notin T
      /\ am.mapInfo \in [Entries(am) -> Entry]
  <2>1. Entries(am) \in SUBSET Ids /\ IsFiniteSet(N) /\ IsFiniteSet(T)
        /\ am.mapInfo \in [Entries(am) -> Entry]
    BY <1>1, TableIs, Finite
  <2> QED
    BY <2>1 DEF New, Tried, Ids
<1>3. /\ n \in Nat /\ s \in [1..n -> N]
      /\ \A i, j \in 1..n : s[i] = s[j] => i = j
      /\ \A x \in N : \E i \in 1..n : s[i] = x
  BY <1>2, OrderedIs
<1>4. /\ m \in Nat /\ t \in [1..m -> T]
      /\ \A i, j \in 1..m : t[i] = t[j] => i = j
      /\ \A x \in T : \E i \in 1..m : t[i] = x
  BY <1>2, OrderedIs
<1>5. /\ \A x \in N : x \in Entries(am) /\ ~am.mapInfo[x].fInTried
      /\ \A x \in T : x \in Entries(am) /\ am.mapInfo[x].fInTried
  BY DEF New, Tried
<1>6. f = [news |-> news, trieds |-> trieds, vvNew |-> new]
  <2>1. {i \in DOMAIN am.mapInfo : am.mapInfo[i].nRefCount # 0} = N
    BY SavedIs DEF Entries
  <2>2. {i \in DOMAIN am.mapInfo : am.mapInfo[i].fInTried} = T
    BY DEF Tried, Entries
  <2>3. DOMAIN s = 1..n /\ DOMAIN t = 1..m
    BY <1>3, <1>4
  <2>4. f = [news   |-> [i \in DOMAIN s |-> am.mapInfo[s[i]]],
             trieds |-> [i \in DOMAIN t |-> am.mapInfo[t[i]]],
             vvNew  |-> [b \in NewBuckets |-> {i \in DOMAIN s : s[i] \in am.vvNew[b]}]]
    <3> HIDE DEF N, T
    <3> QED
      BY <2>1, <2>2 DEF Serialized
  <2> HIDE DEF s, t, n, m, f
  <2> QED
    BY <2>3, <2>4
<1>7. Fitting(f) = 1..m
  BY <1>4, <1>6, AllFit
<1> HIDE DEF s, t, n, m, N, T
<1>8. /\ news \in Seq(Entry) /\ Len(news) = n
      /\ \A i \in 1..n : news[i] = am.mapInfo[s[i]]
  <2>1. \A i \in 1..n : am.mapInfo[s[i]] \in Entry
    BY <1>2, <1>3
  <2> QED
    BY <1>3, <2>1
<1>9. \A i \in 1..m : trieds[i] = am.mapInfo[t[i]] /\ trieds[i] \in Entry
  <2>1. \A i \in 1..m : am.mapInfo[t[i]] \in Entry
    BY <1>2, <1>4
  <2> QED
    BY <2>1
<1> DEFINE u == [i \in 1..Cardinality(1..m) |-> trieds[Ordered(1..m)[i]]]
           all == Loaded(f)
<1>10. all = news \o u
  <2> DEFINE F == Fitting(f)
             c == Cardinality(F)
             o == Ordered(F)
             w == [i \in 1..c |-> f.trieds[o[i]]]
  <2>1. all = f.news \o w
    BY DEF Loaded
  <2>2. c = Cardinality(1..m) /\ o = Ordered(1..m)
    BY <1>7
  <2>3. f.news = news /\ f.trieds = trieds
    BY <1>6
  <2> HIDE DEF F, c, o, f, news, trieds, all
  <2>4. w = u
    BY <2>2, <2>3
  <2> QED
    BY <2>1, <2>3, <2>4
<1> HIDE DEF f, news, trieds
<1>11. u \in Seq(Entry) /\ Len(u) = m /\ \A i \in 1..m : u[i] = trieds[i]
  <2>1. Cardinality(1..m) = m /\ \A i \in 1..m : Ordered(1..m)[i] = i
    BY <1>4, IntervalOrdered
  <2>2. \A i \in 1..m : trieds[Ordered(1..m)[i]] = trieds[i]
    BY <2>1
  <2>3. u = [i \in 1..m |-> trieds[i]]
    BY <2>1, <2>2
  <2> HIDE DEF u
  <2> QED
    BY <1>4, <1>9, <2>3
<1> HIDE DEF u, all
<1>12. /\ all \in Seq(Entry) /\ Len(all) = n + m
       /\ \A i \in 1..(n + m) : all[i] = IF i <= n THEN news[i] ELSE u[i - n]
  <2>1. news \in Seq(Entry) /\ u \in Seq(Entry) /\ Len(news) = n /\ Len(u) = m
        /\ n \in Nat /\ m \in Nat
    BY <1>3, <1>4, <1>8, <1>11
  <2>2. all \in Seq(Entry) /\ Len(all) = n + m
    <3>1. news \o u \in Seq(Entry)
      BY <2>1
    <3>2. Len(news \o u) = Len(news) + Len(u)
      BY <2>1
    <3> QED
      BY <1>10, <2>1, <3>1, <3>2
  <2>3. \A i \in 1..(n + m) : all[i] = IF i <= n THEN news[i] ELSE u[i - n]
    BY <1>10, <2>1
  <2> QED
    BY <2>2, <2>3
<1>13. \A i \in 1..(n + m) : /\ i <= n => i \in 1..n /\ g[i] = s[i]
                             /\ ~(i <= n) => i - n \in 1..m /\ g[i] = t[i - n]
  BY <1>3, <1>4
<1>14. g \in [1..(n + m) -> Entries(am)]
  <2>1. \A i \in 1..(n + m) : g[i] \in Entries(am)
    <3> TAKE i \in 1..(n + m)
    <3>1. CASE i <= n
      BY <1>3, <1>5, <1>13, <3>1
    <3>2. CASE ~(i <= n)
      BY <1>4, <1>5, <1>13, <3>2
    <3> QED
      BY <3>1, <3>2
  <2> QED
    BY <2>1
<1>15. \A i \in 1..(n + m) : i \in Int /\ n \in Nat /\ (am.mapInfo[g[i]].fInTried <=> ~(i <= n))
  <2> TAKE i \in 1..(n + m)
  <2>1. CASE i <= n
    BY <1>3, <1>5, <1>13, <2>1
  <2>2. CASE ~(i <= n)
    BY <1>3, <1>4, <1>5, <1>13, <2>2
  <2> QED
    BY <2>1, <2>2
<1>16. \A i, j \in 1..(n + m) : g[i] = g[j] => i = j
  <2> SUFFICES ASSUME NEW i \in 1..(n + m), NEW j \in 1..(n + m), g[i] = g[j] PROVE i = j
    OBVIOUS
  <2>1. i <= n <=> j <= n
    BY <1>15
  <2>2. CASE i <= n
    BY <1>3, <1>13, <2>1, <2>2
  <2>3. CASE ~(i <= n)
    <3>1. i - n \in 1..m /\ j - n \in 1..m /\ t[i - n] = t[j - n]
      BY <1>13, <2>1, <2>3
    <3>2. i - n = j - n
      BY <1>4, <3>1
    <3> QED
      BY <1>15, <3>2
  <2> QED
    BY <2>2, <2>3
<1>17. \A id \in Entries(am) : \E i \in 1..(n + m) : g[i] = id
  <2> TAKE id \in Entries(am)
  <2>1. CASE id \in N
    <3>1. PICK i \in 1..n : s[i] = id
      BY <1>3, <2>1
    <3>2. i \in 1..(n + m) /\ i <= n
      BY <1>3, <1>4
    <3> QED
      BY <1>13, <3>1, <3>2
  <2>2. CASE id \in T
    <3>1. PICK i \in 1..m : t[i] = id
      BY <1>4, <2>2
    <3> DEFINE j == i + n
    <3>2. j \in 1..(n + m) /\ ~(j <= n) /\ j - n = i
      BY <1>3, <1>4
    <3>3. g[j] = t[j - n]
      BY <1>13, <3>2
    <3> QED
      BY <3>1, <3>2, <3>3
  <2> QED
    BY <1>2, <2>1, <2>2
<1>18. \A i \in 1..(n + m) : all[i] = am.mapInfo[g[i]]
  <2> TAKE i \in 1..(n + m)
  <2>1. CASE i <= n
    BY <1>8, <1>12, <1>13, <2>1
  <2>2. CASE ~(i <= n)
    BY <1>9, <1>11, <1>12, <1>13, <2>2
  <2> QED
    BY <2>1, <2>2
<1>19. f.vvNew = [b \in NewBuckets |-> {i \in 1..n : g[i] \in am.vvNew[b]}]
  <2>1. \A i \in 1..n : g[i] = s[i]
    <3> TAKE i \in 1..n
    <3>1. i \in 1..(n + m) /\ i <= n
      BY <1>3, <1>4
    <3> QED
      BY <1>13, <3>1
  <2>2. f.vvNew = new
    BY <1>6 DEF f
  <2> HIDE DEF g
  <2>3. \A b \in NewBuckets : {i \in 1..n : s[i] \in am.vvNew[b]}
                                 = {i \in 1..n : g[i] \in am.vvNew[b]}
    BY <2>1
  <2> QED
    BY <2>2, <2>3
<1>20. \A i \in 1..(n + m) : am.mapInfo[g[i]].fInTried <=> i > n
  <2> TAKE i \in 1..(n + m)
  <2>1. i > n <=> ~(i <= n)
    BY <1>15
  <2> QED
    BY <1>15, <2>1
<1>21. Len(f.news) = n
  BY <1>6, <1>8
<1> HIDE DEF g, new
<1>22. Copied(n, m, g, all, f.vvNew)
  BY <1>12, <1>14, <1>16, <1>17, <1>18, <1>19, <1>20 DEF Copied
<1> QED
  BY <1>3, <1>4, <1>21, <1>22 DEF f, all

\* The positions of the tried entries that hash to bucket k, and the buckets at i.
Hashing(all, n, k) == {i \in (n + 1)..Len(all) : HashedTo(all[i]) = k}
At(new, i) == {b \in NewBuckets : i \in new[b]}

\* What is loaded, field by field.
RebuiltIs(n, m, all, new, r) ==
    /\ r \in Tables /\ Entries(r) = 1..(n + m) /\ n + m \in 0..MaxId
    /\ \A i \in 1..(n + m) : /\ r.mapInfo[i].host = all[i].host
                             /\ r.mapInfo[i].port = all[i].port
                             /\ r.mapInfo[i].source = all[i].source
                             /\ r.mapInfo[i].nLastSuccess = all[i].nLastSuccess
                             /\ r.mapInfo[i].fInTried <=> i > n
                             /\ r.mapInfo[i].nRandomPos = i
                             /\ r.mapInfo[i].nRefCount = Cardinality(At(new, i))
    /\ \A h \in Hosts :
          IF \E i \in 1..(n + m) : all[i].host = h
          THEN r.mapAddr[h] \in 1..(n + m) /\ all[r.mapAddr[h]].host = h
          ELSE r.mapAddr[h] = None
    /\ Len(r.vRandom) = n + m /\ \A i \in 1..(n + m) : r.vRandom[i] = i
    /\ r.nIdCount = n + m /\ r.nTried = m /\ r.nNew = n /\ r.vvNew = new
    /\ \A k \in TriedBuckets : r.vvTried[k] = Ordered(Hashing(all, n, k))
    /\ \A k \in TriedBuckets : Hashing(all, n, k) \in SUBSET (1..(n + m))
                               /\ IsFiniteSet(Hashing(all, n, k))
LEMMA RebuiltDoes ==
    ASSUME AddrInv, NEW n \in Nat, NEW m \in Nat, NEW g, NEW all, NEW new,
           Copied(n, m, g, all, new),
           NEW r, r = Rebuilt(all, n, new, Len(all))
    PROVE  RebuiltIs(n, m, all, new, r)
<1> DEFINE M == n + m
           D == 1..M
           e == [i \in D |-> [all[i] EXCEPT !.fInTried = (i > n), !.nRandomPos = i,
                                            !.nRefCount = Cardinality(At(new, i))]]
           w == [h \in Hosts |-> IF \E i \in D : all[i].host = h
                                 THEN CHOOSE i \in D : all[i].host = h ELSE None]
           v == [i \in D |-> i]
           t == [k \in TriedBuckets |-> Ordered(Hashing(all, n, k))]
<1>1. am \in Tables /\ Sound(am) /\ Entries(am) \in SUBSET Ids /\ MaxId \in Nat
      /\ am.vvNew \in [NewBuckets -> SUBSET Ids]
  <2>1. am \in Tables /\ Sound(am)
    BY DEF AddrInv, AddrRight, Sound
  <2> QED
    BY <2>1, TableIs
<1>2. /\ all \in Seq(Entry) /\ Len(all) = M /\ M \in Nat /\ DOMAIN all = D
      /\ g \in [D -> Entries(am)] /\ \A i, j \in D : g[i] = g[j] => i = j
      /\ new \in [NewBuckets -> SUBSET (1..n)]
  <2>1. all \in Seq(Entry) /\ Len(all) = M /\ g \in [D -> Entries(am)]
        /\ \A i, j \in D : g[i] = g[j] => i = j
    BY DEF Copied
  <2>2. new \in [NewBuckets -> SUBSET (1..n)]
    BY DEF Copied
  <2> QED
    BY <2>1, <2>2
<1>3. M <= MaxId
  <2>1. OneToOne(g, D, Ids)
    <3> HIDE DEF D
    <3> QED
      BY <1>1, <1>2 DEF OneToOne
  <2>2. IsFiniteSet(Ids) /\ Cardinality(Ids) = MaxId
    BY <1>1, FS_Interval DEF Ids
  <2>3. Cardinality(D) = M
    BY <1>2, FS_Interval
  <2> HIDE DEF D
  <2>4. Cardinality(D) <= Cardinality(Ids)
    BY <2>1, <2>2, Inject
  <2> QED
    BY <2>2, <2>3, <2>4
<1>4. r = [nIdCount |-> M, mapInfo |-> e, mapAddr |-> w, vRandom |-> v,
           nTried |-> M - n, vvTried |-> t, nNew |-> n, vvNew |-> new]
  <2>1. \A k : {i \in (n + 1)..Len(all) : TriedBucketOf[all[i].host, all[i].port] = k}
                  = Hashing(all, n, k)
    BY DEF Hashing, HashedTo
  <2> DEFINE t0 == [k \in TriedBuckets |->
                      Ordered({i \in (n + 1)..Len(all) :
                                 TriedBucketOf[all[i].host, all[i].port] = k})]
             e0 == [i \in DOMAIN all |->
                      [all[i] EXCEPT !.fInTried = (i > n), !.nRandomPos = i,
                         !.nRefCount = Cardinality({b \in NewBuckets : i \in new[b]})]]
             w0 == [h \in Hosts |->
                      IF \E i \in DOMAIN all : all[i].host = h
                      THEN CHOOSE i \in DOMAIN all : all[i].host = h
                      ELSE None]
             v0 == [i \in DOMAIN all |-> i]
  <2>2. t0 = t
    BY DEF Hashing, HashedTo
  <2>3. e0 = e
    BY <1>2 DEF At
  <2>4. w0 = w /\ v0 = v
    BY <1>2
  <2>5. r = [Empty EXCEPT !.nIdCount = Len(all), !.mapInfo = e0, !.mapAddr = w0,
                          !.vRandom = v0, !.nTried = Len(all) - n, !.vvTried = t0,
                          !.nNew = n, !.vvNew = new]
    BY DEF Rebuilt
  <2> HIDE DEF t0, t, e0, e, w0, w, v0, v
  <2>6. \E x1, x2, x3, x4, x5 :
          Empty = [nIdCount |-> 0, mapInfo |-> x1, mapAddr |-> x2, vRandom |-> x3,
                   nTried |-> 0, vvTried |-> x4, nNew |-> 0, vvNew |-> x5]
    <3> DEFINE x1 == << >>
               x2 == [h \in Hosts |-> None]
               x4 == [b \in TriedBuckets |-> << >>]
               x5 == [b \in NewBuckets |-> {}]
    <3>1. Empty = [nIdCount |-> 0, mapInfo |-> x1, mapAddr |-> x2, vRandom |-> x1,
                   nTried |-> 0, vvTried |-> x4, nNew |-> 0, vvNew |-> x5]
      BY DEF Empty
    <3> HIDE DEF x1, x2, x4, x5
    <3> QED
      BY <3>1
  <2> DEFINE l == Len(all)
             d == l - n
             d1 == M - n
  <2>7. l = M /\ d = d1
    BY <1>2
  <2> HIDE DEF M, l, d, d1
  <2> QED
    BY <2>2, <2>3, <2>4, <2>5, <2>6, <2>7 DEF l, d, d1
<1>5. \A i \in D : /\ e[i] \in Entry
                   /\ e[i].host = all[i].host /\ e[i].port = all[i].port
                   /\ e[i].source = all[i].source
                   /\ e[i].nLastSuccess = all[i].nLastSuccess
                   /\ e[i].fInTried <=> i > n
                   /\ e[i].nRandomPos = i
                   /\ e[i].nRefCount = Cardinality(At(new, i))
  <2> TAKE i \in D
  <2> DEFINE c == Cardinality(At(new, i))
             b == i > n
  <2>1. all[i] \in Entry /\ i \in Nat
    BY <1>2
  <2>2. c \in Int
    <3>1. At(new, i) \in SUBSET NewBuckets
      BY DEF At
    <3>2. c \in Nat
      BY <3>1, BucketAssumption, FS_Subset, FS_CardinalityType
    <3> QED
      BY <3>2
  <2>3. b \in BOOLEAN
    OBVIOUS
  <2>4. e[i] = [all[i] EXCEPT !.fInTried = b, !.nRandomPos = i, !.nRefCount = c]
    OBVIOUS
  <2> HIDE DEF e, c, b
  <2>5. /\ e[i] \in Entry
        /\ e[i].host = all[i].host /\ e[i].port = all[i].port
        /\ e[i].source = all[i].source
        /\ e[i].nLastSuccess = all[i].nLastSuccess
        /\ e[i].fInTried = b /\ e[i].nRandomPos = i /\ e[i].nRefCount = c
    BY <2>1, <2>2, <2>3, <2>4 DEF Entry
  <2> QED
    BY <2>5 DEF b, c
<1>6. e \in InfoMaps /\ DOMAIN e = D
  <2>1. e \in [D -> Entry] /\ DOMAIN e = D
    BY <1>5
  <2>2. D \in SUBSET Ids
    BY <1>1, <1>2, <1>3 DEF Ids
  <2> HIDE DEF e
  <2> QED
    BY <2>1, <2>2, InfoMapsIs
<1>7. /\ w \in [Hosts -> Ids \cup {None}]
      /\ \A h \in Hosts : IF \E i \in D : all[i].host = h
                          THEN w[h] \in D /\ all[w[h]].host = h ELSE w[h] = None
  <2>1. \A i \in D : i \in Ids
    BY <1>1, <1>2, <1>3 DEF Ids
  <2> HIDE DEF D
  <2>2. \A h \in Hosts : w[h] = IF \E i \in D : all[i].host = h
                                THEN CHOOSE i \in D : all[i].host = h ELSE None
    OBVIOUS
  <2>3. \A h \in Hosts : IF \E i \in D : all[i].host = h
                         THEN w[h] \in D /\ all[w[h]].host = h ELSE w[h] = None
    BY <2>2
  <2>4. \A h \in Hosts : w[h] \in Ids \cup {None}
    BY <2>1, <2>3
  <2> QED
    BY <2>3, <2>4
<1>8. v \in Seq(Ids) /\ Len(v) = M /\ \A i \in D : v[i] = i
  BY <1>1, <1>2, <1>3 DEF Ids
<1>9. \A k \in TriedBuckets : /\ Hashing(all, n, k) \in SUBSET D
                              /\ IsFiniteSet(Hashing(all, n, k))
                              /\ Ordered(Hashing(all, n, k)) \in Seq(Ids)
  <2> TAKE k \in TriedBuckets
  <2> DEFINE H == Hashing(all, n, k)
  <2>1. H \in SUBSET D
    BY <1>2 DEF Hashing
  <2>2. IsFiniteSet(H)
    <3>1. IsFiniteSet(D)
      BY <1>2, FS_Interval
    <3> HIDE DEF D, H
    <3> QED
      BY <2>1, <3>1, FS_Subset
  <2>3. H \in SUBSET Nat /\ H \in SUBSET Ids
    BY <1>1, <1>2, <1>3, <2>1 DEF Ids
  <2> HIDE DEF H
  <2>4. Ordered(H) \in Seq(H)
    BY <2>2, <2>3, OrderedIs
  <2> QED
    BY <2>1, <2>2, <2>3, <2>4 DEF H
<1>10. t \in [TriedBuckets -> Seq(Ids)] /\ \A k \in TriedBuckets : t[k] = Ordered(Hashing(all, n, k))
  BY <1>9
<1>11. new \in [NewBuckets -> SUBSET Ids]
  <2>1. 1..n \subseteq Ids
    BY <1>1, <1>2, <1>3 DEF Ids
  <2> QED
    BY <1>2, <2>1
<1>12. M - n = m /\ M \in 0..MaxId /\ n \in Int /\ m \in Int
  BY <1>1, <1>2, <1>3
<1> HIDE DEF e, w, v, t, M
<1>13. r \in Tables
  BY <1>4, <1>6, <1>7, <1>8, <1>10, <1>11, <1>12 DEF Tables
<1>14. /\ r.nIdCount = M /\ r.mapInfo = e /\ r.mapAddr = w /\ r.vRandom = v
       /\ r.nTried = m /\ r.vvTried = t /\ r.nNew = n /\ r.vvNew = new
  BY <1>4, <1>12
<1>15. Entries(r) = D
  BY <1>6, <1>14 DEF Entries
<1> QED
  BY <1>5, <1>7, <1>8, <1>9, <1>10, <1>12, <1>13, <1>14, <1>15 DEF M, RebuiltIs

\* The loaded table is right, and knows what the saved one did.
LEMMA RebuiltKeeps ==
    ASSUME AddrInv, NEW n \in Nat, NEW m \in Nat, NEW g, NEW all, NEW new,
           Copied(n, m, g, all, new),
           NEW r, r = Rebuilt(all, n, new, Len(all))
    PROVE  /\ AddrRight(r) /\ Known(r) = Known(am)
           /\ \A h \in Hosts : am.mapAddr[h] # None => r.mapAddr[h] # None
<1> DEFINE D == 1..(n + m)
<1>1. /\ am \in Tables /\ Sound(am) /\ am.mapInfo \in [Entries(am) -> Entry]
      /\ am.vvNew \in [NewBuckets -> SUBSET Ids]
  <2>1. am \in Tables /\ Sound(am)
    BY DEF AddrInv, AddrRight, Sound
  <2> QED
    BY <2>1, TableIs
<1>2. /\ g \in [D -> Entries(am)] /\ \A i, j \in D : g[i] = g[j] => i = j
      /\ \A id \in Entries(am) : \E i \in D : g[i] = id
      /\ \A i \in D : am.mapInfo[g[i]].fInTried <=> i > n
      /\ \A i \in D : all[i] = am.mapInfo[g[i]]
      /\ Len(all) = n + m
  BY DEF Copied
<1>3. \A b \in NewBuckets : new[b] = {i \in 1..n : g[i] \in am.vvNew[b]}
  BY DEF Copied
<1>4. /\ r \in Tables /\ Entries(r) = D /\ n + m \in 0..MaxId
      /\ \A i \in D : /\ r.mapInfo[i].host = all[i].host
                      /\ r.mapInfo[i].port = all[i].port
                      /\ r.mapInfo[i].source = all[i].source
                      /\ r.mapInfo[i].nLastSuccess = all[i].nLastSuccess
                      /\ r.mapInfo[i].fInTried <=> i > n
                      /\ r.mapInfo[i].nRandomPos = i
                      /\ r.mapInfo[i].nRefCount = Cardinality(At(new, i))
      /\ \A h \in Hosts :
            IF \E i \in D : all[i].host = h
            THEN r.mapAddr[h] \in D /\ all[r.mapAddr[h]].host = h
            ELSE r.mapAddr[h] = None
      /\ Len(r.vRandom) = n + m /\ \A i \in D : r.vRandom[i] = i
      /\ r.nIdCount = n + m /\ r.nTried = m /\ r.nNew = n /\ r.vvNew = new
      /\ \A k \in TriedBuckets : r.vvTried[k] = Ordered(Hashing(all, n, k))
      /\ \A k \in TriedBuckets : Hashing(all, n, k) \in SUBSET D
                                 /\ IsFiniteSet(Hashing(all, n, k))
  <2>1. RebuiltIs(n, m, all, new, r)
    BY RebuiltDoes
  <2> QED
    BY <2>1 DEF RebuiltIs
<1>5. DOMAIN r.vRandom = D /\ r.mapInfo \in [D -> Entry]
  BY <1>4, TableIs
<1>6. /\ \A i \in 1..n : i \in D /\ ~(i > n)
      /\ \A i \in D : ~(i > n) => i \in 1..n
      /\ \A i \in D : i > n <=> i \in (n + 1)..(n + m)
      /\ \A i \in (n + 1)..(n + m) : i \in D
      /\ D \subseteq Nat /\ 0 \notin D
  OBVIOUS
<1> HIDE DEF D
<1>7. \A i \in D : /\ r.mapInfo[i].host = am.mapInfo[g[i]].host
                   /\ r.mapInfo[i].port = am.mapInfo[g[i]].port
                   /\ r.mapInfo[i].source = am.mapInfo[g[i]].source
                   /\ r.mapInfo[i].nLastSuccess = am.mapInfo[g[i]].nLastSuccess
                   /\ r.mapInfo[i].fInTried = am.mapInfo[g[i]].fInTried
                   /\ g[i] \in Entries(am)
  <2> TAKE i \in D
  <2>1. g[i] \in Entries(am) /\ am.mapInfo[g[i]] \in Entry /\ r.mapInfo[i] \in Entry
    BY <1>1, <1>2, <1>5
  <2>2. am.mapInfo[g[i]].fInTried \in BOOLEAN /\ r.mapInfo[i].fInTried \in BOOLEAN
    BY <2>1 DEF Entry
  <2>3. r.mapInfo[i].fInTried <=> am.mapInfo[g[i]].fInTried
    BY <1>2, <1>4
  <2> QED
    BY <1>2, <1>4, <2>1, <2>2, <2>3
<1>8. Tried(r) = (n + 1)..(n + m) /\ New(r) = 1..n
  <2>1. \A i : i \in Tried(r) <=> i \in (n + 1)..(n + m)
    BY <1>4, <1>6 DEF Tried
  <2>2. \A i : i \in New(r) <=> i \in 1..n
    BY <1>4, <1>6 DEF New
  <2> QED
    BY <2>1, <2>2
<1>9. CountRight(r)
  <2>1. Cardinality((n + 1)..(n + m)) = m /\ Cardinality(1..n) = n
    BY FS_Interval
  <2> QED
    BY <1>4, <1>8, <2>1 DEF CountRight
<1>10. \A i \in D : /\ all[i].host \in Hosts /\ am.mapAddr[all[i].host] = g[i]
                    /\ r.mapAddr[all[i].host] = i
  <2> TAKE i \in D
  <2>1. g[i] \in Entries(am) /\ am.mapInfo[g[i]] \in Entry
    BY <1>1, <1>2
  <2>2. all[i].host \in Hosts
    BY <1>2, <2>1 DEF Entry
  <2>3. \A j \in D : am.mapAddr[all[j].host] = g[j]
    BY <1>1, <1>2 DEF Sound, IndexRight
  <2>4. r.mapAddr[all[i].host] \in D /\ all[r.mapAddr[all[i].host]].host = all[i].host
    BY <1>4, <2>2
  <2> QED
    BY <1>2, <2>2, <2>3, <2>4
<1>11. IndexRight(r)
  <2>1. Entries(r) \subseteq 1..r.nIdCount
    BY <1>4 DEF D
  <2>2. \A i \in D : r.vRandom[i] \in D /\ r.mapInfo[r.vRandom[i]].nRandomPos = i
    BY <1>4
  <2>3. \A i \in D : /\ r.mapInfo[i].nRandomPos \in D
                     /\ r.vRandom[r.mapInfo[i].nRandomPos] = i
                     /\ r.mapAddr[r.mapInfo[i].host] = i
    BY <1>4, <1>10
  <2>4. \A h \in Hosts : r.mapAddr[h] # None =>
           r.mapAddr[h] \in D /\ r.mapInfo[r.mapAddr[h]].host = h
    BY <1>4
  <2> QED
    BY <1>4, <1>5, <2>1, <2>2, <2>3, <2>4 DEF IndexRight
<1>12. \A i \in D : HashedTo(r.mapInfo[i]) = HashedTo(all[i])
  BY <1>4 DEF HashedTo
<1>13. \A k \in TriedBuckets : \A i : i \in Hashing(all, n, k) <=>
          i \in (n + 1)..(n + m) /\ HashedTo(all[i]) = k
  BY <1>2 DEF Hashing
<1>14. TriedRight(r)
  <2>1. \A k \in TriedBuckets :
          /\ Len(r.vvTried[k]) <= TriedBucketSize
          /\ DOMAIN r.vvTried[k] = 1..Cardinality(Hashing(all, n, k))
          /\ \A i \in DOMAIN r.vvTried[k] : r.vvTried[k][i] \in Hashing(all, n, k)
          /\ \A i, j \in DOMAIN r.vvTried[k] : r.vvTried[k][i] = r.vvTried[k][j] => i = j
          /\ \A x \in Hashing(all, n, k) : \E i \in DOMAIN r.vvTried[k] : r.vvTried[k][i] = x
    <3> TAKE k \in TriedBuckets
    <3> DEFINE H == Hashing(all, n, k)
               o == Ordered(H)
               c == Cardinality(H)
    <3>1. H \in SUBSET Nat /\ IsFiniteSet(H)
      BY <1>4, <1>6
    <3>2. \A i \in H : i \in D /\ i > n /\ HashedTo(all[i]) = k
      BY <1>6, <1>13
    <3>3. \A i \in H : g[i] \in Tried(am) /\ HashedTo(am.mapInfo[g[i]]) = k
      BY <1>2, <3>2 DEF Tried
    <3>4. \A i, j \in H : g[i] = g[j] => i = j
      BY <1>2, <3>2
    <3> HIDE DEF H
    <3>5. c \in Nat /\ c <= TriedBucketSize
      BY <1>1, <3>3, <3>4, BucketFits
    <3>6. /\ o \in [1..c -> H] /\ Len(o) = c
          /\ \A i, j \in 1..c : o[i] = o[j] => i = j
          /\ \A x \in H : \E i \in 1..c : o[i] = x
      BY <3>1, OrderedIs
    <3> HIDE DEF o
    <3>7. r.vvTried[k] = o
      BY <1>4 DEF o, H
    <3>8. DOMAIN o = 1..c /\ \A i \in 1..c : o[i] \in H
      BY <3>6
    <3> QED
      BY <3>5, <3>6, <3>7, <3>8 DEF H
  <2>2. \A k \in TriedBuckets : \A i \in Hashing(all, n, k) :
           i \in D /\ i \in Tried(r) /\ HashedTo(r.mapInfo[i]) = k
    BY <1>6, <1>8, <1>12, <1>13
  <2>3. \A i \in Tried(r) :
          /\ i \in D /\ HashedTo(r.mapInfo[i]) \in TriedBuckets
          /\ i \in Hashing(all, n, HashedTo(r.mapInfo[i]))
          /\ r.mapInfo[i].nLastSuccess # 0
    <3> TAKE i \in Tried(r)
    <3>1. i \in D /\ i \in (n + 1)..(n + m) /\ i > n
      BY <1>6, <1>8
    <3>2. HashedTo(r.mapInfo[i]) \in TriedBuckets
      BY <1>4, <3>1, HashIs
    <3>3. i \in Hashing(all, n, HashedTo(r.mapInfo[i]))
      BY <1>12, <1>13, <3>1, <3>2
    <3>4. g[i] \in Tried(am)
      BY <1>2, <3>1 DEF Tried
    <3>5. am.mapInfo[g[i]].nLastSuccess # 0
      BY <1>1, <3>4 DEF Sound, TriedRight
    <3> QED
      BY <1>7, <3>1, <3>2, <3>3, <3>5
  <2>4. \A k \in TriedBuckets :
          /\ Len(r.vvTried[k]) <= TriedBucketSize
          /\ \A i \in DOMAIN r.vvTried[k] :
               /\ r.vvTried[k][i] \in Tried(r)
               /\ HashedTo(r.mapInfo[r.vvTried[k][i]]) = k
               /\ \A j \in DOMAIN r.vvTried[k] : r.vvTried[k][i] = r.vvTried[k][j] => i = j
    BY <2>1, <2>2
  <2>5. \A id \in Tried(r) :
          /\ \E i \in DOMAIN r.vvTried[HashedTo(r.mapInfo[id])] :
               r.vvTried[HashedTo(r.mapInfo[id])][i] = id
          /\ r.mapInfo[id].nLastSuccess # 0
    BY <2>1, <2>3
  <2> QED
    BY <2>4, <2>5 DEF TriedRight
<1>15. NewRight(r)
  <2> SUFFICES ASSUME NEW b \in NewBuckets
               PROVE  new[b] \subseteq New(r) /\ Cardinality(new[b]) <= NewBucketSize
    BY <1>4 DEF NewRight
  <2> DEFINE S == new[b]
             T == am.vvNew[b]
             f == [i \in S |-> g[i]]
  <2>1. \A i \in S : i \in 1..n /\ i \in D /\ g[i] \in T
    BY <1>3, <1>6
  <2>2. IsFiniteSet(T) /\ Cardinality(T) \in Nat /\ Cardinality(T) <= NewBucketSize
    BY <1>1, Finite DEF Sound, NewRight
  <2>3. \A i, j \in S : g[i] = g[j] => i = j
    BY <1>2, <2>1
  <2> HIDE DEF S, T
  <2>4. OneToOne(f, S, T)
    BY <2>1, <2>3 DEF OneToOne
  <2> HIDE DEF f
  <2>5. Cardinality(S) \in Nat /\ Cardinality(S) <= Cardinality(T)
    BY <2>2, <2>4, Inject
  <2>6. Cardinality(S) <= NewBucketSize
    BY <2>2, <2>5, BucketAssumption
  <2> QED
    BY <1>8, <2>1, <2>6 DEF S
<1>16. \A i \in D : At(new, i) = BucketsWith(r, i) /\ BucketsWith(r, i) = BucketsWith(am, g[i])
  <2> TAKE i \in D
  <2>1. At(new, i) = BucketsWith(r, i)
    BY <1>4 DEF At, BucketsWith
  <2>2. \A b \in NewBuckets : i \in new[b] <=> g[i] \in am.vvNew[b]
    <3> TAKE b \in NewBuckets
    <3>1. am.vvNew[b] \subseteq New(am)
      BY SavedIs
    <3>2. CASE i > n
      <4>1. g[i] \notin New(am)
        BY <1>2, <3>2 DEF New
      <4> QED
        BY <1>3, <1>6, <3>1, <3>2, <4>1
    <3>3. CASE ~(i > n)
      BY <1>3, <1>6, <3>3
    <3> QED
      BY <3>2, <3>3
  <2>3. BucketsWith(r, i) = BucketsWith(am, g[i])
    BY <1>4, <2>2 DEF BucketsWith
  <2> QED
    BY <2>1, <2>3
<1>17. \A i \in D : Counted(r, i)
  <2> TAKE i \in D
  <2>1. Counted(am, g[i])
    BY <1>2 DEF AddrInv, AddrRight
  <2>2. r.mapInfo[i].nRefCount = Cardinality(BucketsWith(r, i))
        /\ r.mapInfo[i].fInTried = am.mapInfo[g[i]].fInTried
    BY <1>4, <1>7, <1>16
  <2>3. r.mapInfo[i].nRefCount = am.mapInfo[g[i]].nRefCount
    BY <1>16, <2>1, <2>2 DEF Counted
  <2> QED
    BY <2>1, <2>2, <2>3 DEF Counted
<1>18. AddrRight(r)
  BY <1>4, <1>9, <1>11, <1>14, <1>15, <1>17 DEF AddrRight, Sound
<1>19. Known(r) = Known(am)
  <2> DEFINE what(a, i) == [host |-> a.mapInfo[i].host, port |-> a.mapInfo[i].port,
                            source |-> a.mapInfo[i].source, tried |-> a.mapInfo[i].fInTried,
                            success |-> a.mapInfo[i].nLastSuccess,
                            buckets |-> BucketsWith(a, i)]
  <2>1. Known(r) = {what(r, i) : i \in D} /\ Known(am) = {what(am, i) : i \in Entries(am)}
    BY <1>4 DEF Known, Entries
  <2>2. \A i \in D : what(r, i) = what(am, g[i]) /\ g[i] \in Entries(am)
    BY <1>7, <1>16
  <2> HIDE DEF what
  <2>3. \A x \in Known(r) : x \in Known(am)
    BY <2>1, <2>2
  <2>4. \A x \in Known(am) : x \in Known(r)
    <3> TAKE x \in Known(am)
    <3>1. PICK id \in Entries(am) : x = what(am, id)
      BY <2>1
    <3>2. PICK i \in D : g[i] = id
      BY <1>2
    <3> QED
      BY <2>1, <2>2, <3>1, <3>2
  <2> QED
    BY <2>3, <2>4
<1>20. \A h \in Hosts : am.mapAddr[h] # None => r.mapAddr[h] # None
  <2> SUFFICES ASSUME NEW h \in Hosts, am.mapAddr[h] # None PROVE r.mapAddr[h] # None
    OBVIOUS
  <2>1. am.mapAddr[h] \in Entries(am) /\ am.mapInfo[am.mapAddr[h]].host = h
    BY <1>1 DEF Sound, IndexRight
  <2>2. PICK i \in D : g[i] = am.mapAddr[h]
    BY <1>2, <2>1
  <2>3. all[i].host = h
    BY <1>2, <2>1, <2>2
  <2> QED
    BY <1>6, <1>10, <2>3 DEF None
<1> QED
  BY <1>18, <1>19, <1>20

-----------------------------------------------------------------------------
(* Every step *)

Steps(b) ==
    /\ AddrRight(b) /\ MayLose(am, b)

\* A step that leaves mapAddr alone loses no address.
LEMMA SameAddrLosesNothing ==
    ASSUME NEW a, NEW b, b.mapAddr = a.mapAddr
    PROVE  MayLose(a, b)
  BY DEF MayLose

\* Add_.
LEMMA AddStep ==
    ASSUME AddrInv, NEW host \in Hosts, NEW port \in Ports, NEW source \in Sources,
           Add(host, port, source)
    PROVE  Steps(am')
<1> DEFINE known == am.mapAddr[host]
           b == NewBucketOf[host, source]
           c == Create(am, host, port, source)
<1>1. b \in NewBuckets
  BY BucketAssumption
<1>2. \/ known = None /\ am.nIdCount < MaxId /\ am' \in InsertNew(c, c.nIdCount, b)
      \/ /\ known # None /\ ~am.mapInfo[known].fInTried
         /\ am.mapInfo[known].nRefCount # BucketsPerAddress
         /\ am' \in InsertNew(am, known, b)
  BY DEF Add
<1> HIDE DEF b
<1>3. CASE known = None /\ am.nIdCount < MaxId /\ am' \in InsertNew(c, c.nIdCount, b)
  <2> HIDE DEF c
  <2>1. c = Create(am, host, port, source)
    BY DEF c
  <2> QED
    BY <1>1, <1>3, <2>1, AddFreshKeeps DEF AddrInv, Steps
<1>4. CASE /\ known # None /\ ~am.mapInfo[known].fInTried
           /\ am.mapInfo[known].nRefCount # BucketsPerAddress
           /\ am' \in InsertNew(am, known, b)
  <2>1. known \in Entries(am)
    BY <1>4 DEF AddrInv, AddrRight, Sound, IndexRight
  <2> HIDE DEF known
  <2> QED
    BY <1>1, <1>4, <2>1, AddKnownKeeps DEF AddrInv, Steps
<1> QED
  BY <1>2, <1>3, <1>4

\* Good_.
LEMMA GoodStep ==
    ASSUME AddrInv, NEW host \in Hosts, NEW port \in Ports, NEW t \in 1..MaxTime,
           Good(host, port, t)
    PROVE  Steps(am')
<1> DEFINE id == am.mapAddr[host]
           a == Timed(am, id, t)
<1>1. /\ id # None
      /\ IF am.mapInfo[id].fInTried \/ BucketsWith(am, id) = {} THEN am' = a
         ELSE am' \in MakeTried(a, id)
  BY DEF Good, Timed
<1>2. id \in Entries(am)
  BY <1>1 DEF AddrInv, AddrRight, Sound, IndexRight
<1> HIDE DEF id
<1>3. /\ AddrRight(a) /\ a.mapAddr = am.mapAddr /\ Entries(a) = Entries(am)
      /\ a.mapInfo[id].fInTried = am.mapInfo[id].fInTried
      /\ a.mapInfo[id].nLastSuccess = t
  <2>1. a = Timed(am, id, t)
    OBVIOUS
  <2> HIDE DEF a
  <2> QED
    BY <1>2, <2>1, TimeKeeps DEF AddrInv
<1> HIDE DEF a
<1>4. CASE am' = a
  BY <1>3, <1>4, SameAddrLosesNothing DEF Steps
<1>5. CASE am' \in MakeTried(a, id) /\ ~am.mapInfo[id].fInTried
  <2>1. id \in New(a) /\ a.mapInfo[id].nLastSuccess # 0
    <3>1. t # 0
      OBVIOUS
    <3> QED
      BY <1>2, <1>3, <1>5, <3>1 DEF New
  <2>2. AddrRight(am') /\ am'.mapAddr = a.mapAddr
    BY <1>3, <1>5, <2>1, MakeTriedKeeps
  <2> QED
    BY <1>3, <2>2, SameAddrLosesNothing DEF Steps
<1> QED
  BY <1>1, <1>4, <1>5

\* GetAddr_.
LEMMA GetAddrStep ==
    ASSUME AddrInv, NEW i \in DOMAIN am.vRandom, NEW j \in DOMAIN am.vRandom, GetAddr(i, j)
    PROVE  Steps(am')
<1> DEFINE b == SwapRandom(am, i, j)
<1>1. am' = b
  BY DEF GetAddr
<1> HIDE DEF b
<1>2. Sound(am) /\ \A id \in Entries(am) : Counted(am, id)
  BY DEF AddrInv, AddrRight
<1>3. /\ Sound(b) /\ SameButPos(am, b)
      /\ \A id \in Entries(am) : Counted(am, id) => Counted(b, id)
  BY <1>2, SwapKeeps DEF b
<1>4. AddrRight(b) /\ b.mapAddr = am.mapAddr
  BY <1>2, <1>3 DEF AddrRight, SameButPos
<1> QED
  BY <1>1, <1>4, SameAddrLosesNothing DEF Steps

\* DumpAddresses and the load at the next start.
LEMMA ReloadStep ==
    ASSUME AddrInv, Reload
    PROVE  Steps(am') /\ Known(am') = Known(am)
<1> DEFINE f == Serialized
           all == Loaded(f)
           new == f.vvNew
<1>0. PICK n \in Nat, m \in Nat : \E g : Len(f.news) = n /\ Copied(n, m, g, all, new)
  BY LoadedIs
<1>1. PICK g : Len(f.news) = n /\ Copied(n, m, g, all, new)
  BY <1>0
<1>2. am' = Rebuilt(all, n, new, Len(all))
  BY <1>1 DEF Reload, Deserialized
<1> HIDE DEF f, all, new
<1> DEFINE r == am'
<1> HIDE DEF r
<1>3. r = Rebuilt(all, n, new, Len(all))
  BY <1>2 DEF r
<1>4. /\ AddrRight(r) /\ Known(r) = Known(am)
      /\ \A h \in Hosts : am.mapAddr[h] # None => r.mapAddr[h] # None
  BY <1>1, <1>3, RebuiltKeeps
<1>5. MayLose(am, r)
  BY <1>4 DEF MayLose
<1> QED
  BY <1>4, <1>5 DEF Steps, r

\* Every step of the specification.
LEMMA AddrStep ==
    ASSUME AddrInv, [Next]_am
    PROVE  AddrInv' /\ MayLose(am, am')
<1>1. Steps(am')
  <2>1. CASE \E h \in Hosts, p \in Ports, s \in Sources : Add(h, p, s)
    BY <2>1, AddStep
  <2>2. CASE \E h \in Hosts, p \in Ports, t \in 1..MaxTime : Good(h, p, t)
    BY <2>2, GoodStep
  <2>3. CASE \E i, j \in DOMAIN am.vRandom : GetAddr(i, j)
    BY <2>3, GetAddrStep
  <2>4. CASE Reload
    BY <2>4, ReloadStep
  <2>5. CASE UNCHANGED am
    BY <2>5, SameAddrLosesNothing DEF Steps, AddrInv
  <2> QED
    BY <2>1, <2>2, <2>3, <2>4, <2>5 DEF Next
<1> QED
  BY <1>1 DEF Steps, AddrInv

-----------------------------------------------------------------------------
(* The theorems *)

\* The table is built empty.
LEMMA AddrStart ==
    ASSUME Init
    PROVE  AddrInv
<1> DEFINE a == am
<1>1. /\ a.nIdCount = 0 /\ a.mapInfo = << >> /\ a.mapAddr = [h \in Hosts |-> None]
      /\ a.vRandom = << >> /\ a.nTried = 0 /\ a.nNew = 0
      /\ a.vvTried = [b \in TriedBuckets |-> << >>] /\ a.vvNew = [b \in NewBuckets |-> {}]
  BY DEF Init, Empty
<1>2. Entries(a) = {}
  BY <1>1 DEF Entries
<1>3. a \in Tables
  <2>1. a.mapInfo \in InfoMaps
    <3>1. a.mapInfo \in [{} -> Entry]
      BY <1>1
    <3> QED
      BY <1>2, <3>1, InfoMapsIs DEF Entries
  <2>2. MaxId \in Nat
    BY BucketAssumption
  <2>3. 0 \in 0..MaxId /\ << >> \in Seq(Ids)
    BY <2>2
  <2>4. a.mapAddr \in [Hosts -> Ids \cup {None}]
    BY <1>1
  <2>5. a.vvTried \in [TriedBuckets -> Seq(Ids)] /\ a.vvNew \in [NewBuckets -> SUBSET Ids]
    BY <1>1, <2>3
  <2>6. /\ a.nIdCount \in 0..MaxId /\ a.vRandom \in Seq(Ids)
        /\ a.nTried \in Int /\ a.nNew \in Int
    BY <1>1, <2>3
  <2>7. a = [nIdCount |-> a.nIdCount, mapInfo |-> a.mapInfo, mapAddr |-> a.mapAddr,
             vRandom |-> a.vRandom, nTried |-> a.nTried, vvTried |-> a.vvTried,
             nNew |-> a.nNew, vvNew |-> a.vvNew]
    BY DEF Init, Empty
  <2> HIDE DEF a
  <2> QED
    BY <2>1, <2>4, <2>5, <2>7, <2>6 DEF Tables
<1>4. IndexRight(a)
  <2>1. a.vRandom = << >> /\ a.nIdCount = 0
    BY <1>1
  <2>2. \A h \in Hosts : a.mapAddr[h] = None
    BY <1>1
  <2> HIDE DEF a
  <2> QED
    BY <1>2, <2>1, <2>2 DEF IndexRight
<1>5. Tried(a) = {} /\ New(a) = {}
  BY <1>2 DEF Tried, New
<1>6. CountRight(a)
  <2>1. Cardinality({}) = 0
    BY FS_EmptySet
  <2>2. a.nTried = 0 /\ a.nNew = 0 /\ Len(a.vRandom) = 0
    BY <1>1
  <2> HIDE DEF a
  <2> QED
    BY <1>5, <2>1, <2>2 DEF CountRight
<1>7. TriedRight(a)
  <2>1. \A k \in TriedBuckets : a.vvTried[k] = << >>
    BY <1>1
  <2>2. \A k \in TriedBuckets : Len(a.vvTried[k]) = 0 /\ DOMAIN a.vvTried[k] = {}
    BY <2>1
  <2>3. TriedBucketSize \in Nat
    BY BucketAssumption
  <2> HIDE DEF a
  <2> QED
    BY <1>5, <2>2, <2>3 DEF TriedRight
<1>8. NewRight(a)
  <2>1. \A b \in NewBuckets : a.vvNew[b] = {}
    BY <1>1
  <2>2. Cardinality({}) = 0 /\ NewBucketSize \in Nat
    BY FS_EmptySet, BucketAssumption
  <2> HIDE DEF a
  <2> QED
    BY <2>1, <2>2 DEF NewRight
<1> HIDE DEF a
<1>9. AddrRight(a)
  BY <1>2, <1>3, <1>4, <1>6, <1>7, <1>8 DEF AddrRight, Sound
<1> QED
  BY <1>9 DEF AddrInv, a

\* The invariant holds.
LEMMA AddrAlways == Spec => []AddrInv
<1>1. Init => AddrInv
  BY AddrStart
<1>2. AddrInv /\ [Next]_am => AddrInv'
  BY AddrStep
<1> QED
  BY <1>1, <1>2, PTL DEF Spec

\* The invariant says of the tables what Check_ does.
LEMMA RightAgrees ==
    ASSUME AddrInv
    PROVE  TablesAgree
<1>1. am \in Tables /\ IndexRight(am) /\ CountRight(am) /\ TriedRight(am) /\ NewRight(am)
  BY DEF AddrInv, AddrRight, Sound
<1>2. \A id \in Entries(am) : Counted(am, id)
  BY DEF AddrInv, AddrRight
<1>3. Entries(am) = DOMAIN am.mapInfo
  BY DEF Entries
<1>4. /\ am.mapInfo \in [Entries(am) -> Entry] /\ Entries(am) \in SUBSET Ids
      /\ DOMAIN am.vRandom = 1..Len(am.vRandom)
      /\ am.vvTried \in [TriedBuckets -> Seq(Ids)]
  BY <1>1, TableIs
<1>5. TypeOK
  <2>1. \A id \in DOMAIN am.mapInfo : am.mapInfo[id] \in Info
    <3> SUFFICES ASSUME NEW id \in Entries(am) PROVE am.mapInfo[id] \in Info
      BY <1>3
    <3>1. am.mapInfo[id] \in Entry
      BY <1>4
    <3>2. am.mapInfo[id].nRefCount \in Nat
      BY <1>1, <1>2, Finite DEF Counted
    <3> QED
      BY <3>1, <3>2 DEF Entry, Info
  <2>2. am.nTried \in Nat /\ am.nNew \in Nat
    BY <1>1, Finite DEF CountRight
  <2> QED
    BY <1>1, <1>3, <2>1, <2>2, TableIs DEF TypeOK, IndexRight
<1>6. IndicesAgree
  <2>1. Elements(am.vRandom) = DOMAIN am.mapInfo
    BY <1>1, <1>3 DEF IndexRight, Elements
  <2> QED
    BY <1>1, <1>3, <2>1 DEF IndicesAgree, IndexRight, CountRight
<1>7. BucketsAgree
  <2>1. ASSUME NEW id \in DOMAIN am.mapInfo
        PROVE  LET info == am.mapInfo[id]
                   places == {q \in TriedBuckets \X (1..TriedBucketSize) :
                                /\ q[2] \in DOMAIN am.vvTried[q[1]]
                                /\ am.vvTried[q[1]][q[2]] = id}
               IN  /\ info.nRefCount = Cardinality(BucketsWith(am, id))
                   /\ IF info.fInTried
                      THEN /\ info.nLastSuccess # 0 /\ info.nRefCount = 0
                           /\ Cardinality(places) = 1
                           /\ \A q \in places :
                                q[1] = TriedBucketOf[info.host, info.port]
                      ELSE /\ info.nRefCount \in 1..BucketsPerAddress
                           /\ places = {}
    <3> DEFINE info == am.mapInfo[id]
               places == {q \in TriedBuckets \X (1..TriedBucketSize) :
                            /\ q[2] \in DOMAIN am.vvTried[q[1]]
                            /\ am.vvTried[q[1]][q[2]] = id}
    <3>1. id \in Entries(am) /\ Counted(am, id)
      BY <1>2, <1>3
    <3>2. info.nRefCount = Cardinality(BucketsWith(am, id))
      BY <3>1 DEF Counted
    <3>3. CASE info.fInTried
      <4> DEFINE k == HashedTo(info)
      <4>1. id \in Tried(am) /\ id \notin New(am)
        BY <3>1, <3>3 DEF Tried, New
      <4>2. info.nLastSuccess # 0 /\ \E i \in DOMAIN am.vvTried[k] : am.vvTried[k][i] = id
        BY <1>1, <4>1 DEF TriedRight
      <4>3. PICK i \in DOMAIN am.vvTried[k] : am.vvTried[k][i] = id
        BY <4>2
      <4>4. k \in TriedBuckets
        <5>1. am \in Tables /\ id \in Entries(am)
          BY <1>1, <3>1
        <5> QED
          BY <5>1, HashIs
      <4>5. \A q \in places : q[1] = k
        BY <1>1 DEF TriedRight
      <4>6. \A q \in places : q = <<k, i>>
        <5> SUFFICES ASSUME NEW q \in places PROVE q = <<k, i>>
          OBVIOUS
        <5>1. q[1] = k /\ q[2] \in DOMAIN am.vvTried[k] /\ am.vvTried[k][q[2]] = id
          BY <4>5
        <5>2. q[2] = i
          BY <1>1, <4>3, <4>4, <5>1 DEF TriedRight
        <5> QED
          BY <5>1, <5>2
      <4>7. <<k, i>> \in places
        <5>1. i \in 1..Len(am.vvTried[k]) /\ Len(am.vvTried[k]) \in Nat
          BY <1>4, <4>3, <4>4
        <5>2. Len(am.vvTried[k]) <= TriedBucketSize /\ TriedBucketSize \in Nat
          BY <1>1, <4>4, BucketAssumption DEF TriedRight
        <5>3. i \in 1..TriedBucketSize
          BY <5>1, <5>2
        <5> QED
          BY <4>3, <4>4, <5>3
      <4>8. places = {<<k, i>>}
        BY <4>6, <4>7
      <4>9. Cardinality(places) = 1
        BY <4>8, FS_Singleton
      <4>10. info.nRefCount = 0
        <5>1. BucketsWith(am, id) = {}
          BY <1>1, <4>1 DEF BucketsWith, NewRight
        <5> QED
          BY <3>2, <5>1, FS_EmptySet
      <4>11. k = TriedBucketOf[info.host, info.port]
        BY DEF HashedTo
      <4> QED
        BY <3>2, <3>3, <4>2, <4>5, <4>9, <4>10, <4>11
    <3>4. CASE ~info.fInTried
      <4>1. info.nRefCount \in 1..BucketsPerAddress
        BY <3>1, <3>4 DEF Counted
      <4>2. id \notin Tried(am)
        BY <3>4 DEF Tried
      <4>3. places = {}
        BY <1>1, <4>2 DEF TriedRight
      <4> QED
        BY <3>2, <3>4, <4>1, <4>3
    <3> QED
      BY <3>3, <3>4
  <2>2. /\ am.nTried = Cardinality({i \in DOMAIN am.mapInfo : am.mapInfo[i].fInTried})
        /\ am.nNew = Cardinality({i \in DOMAIN am.mapInfo : ~am.mapInfo[i].fInTried})
    BY <1>1 DEF CountRight, Tried, New, Entries
  <2> QED
    BY <2>1, <2>2 DEF BucketsAgree
<1>8. BucketsBounded
  <2>1. \A b \in NewBuckets : /\ Cardinality(am.vvNew[b]) <= NewBucketSize
                              /\ am.vvNew[b] \subseteq DOMAIN am.mapInfo
    BY <1>1, <1>3 DEF NewRight, New
  <2>2. \A k \in TriedBuckets :
          /\ Len(am.vvTried[k]) <= TriedBucketSize
          /\ Elements(am.vvTried[k]) \subseteq DOMAIN am.mapInfo
    BY <1>1, <1>3 DEF TriedRight, Elements, Tried
  <2> QED
    BY <2>1, <2>2 DEF BucketsBounded
<1> QED
  BY <1>5, <1>6, <1>7, <1>8 DEF TablesAgree

\* CAddrMan::Check_ never fails: mapInfo, mapAddr, vRandom and both kinds of bucket
\* agree, and no bucket exceeds its size, after any series of calls and loads.
THEOREM TablesAlwaysAgree == Spec => []TablesAgree
<1>1. AddrInv => TablesAgree
  BY RightAgrees
<1> QED
  BY <1>1, AddrAlways, PTL

\* A call loses at most one address, and never one in the tried table.
THEOREM TriedIsNeverDeleted == Spec => TriedNotDeleted
<1>1. ASSUME AddrInv, [Next]_am
      PROVE  LET lost == {h \in Hosts : am.mapAddr[h] # None /\ am'.mapAddr[h] = None}
             IN  /\ Cardinality(lost) <= 1
                 /\ \A h \in lost : ~am.mapInfo[am.mapAddr[h]].fInTried
  <2> DEFINE lost == {h \in Hosts : am.mapAddr[h] # None /\ am'.mapAddr[h] = None}
  <2>1. PICK x : \A h \in lost : h = x /\ ~am.mapInfo[am.mapAddr[h]].fInTried
    BY <1>1, AddrStep DEF MayLose
  <2>2. Cardinality(lost) <= 1
    <3>1. lost = {} \/ lost = {x}
      BY <2>1
    <3>2. Cardinality({}) = 0 /\ Cardinality({x}) = 1
      BY FS_EmptySet, FS_Singleton
    <3>3. Cardinality(lost) = 0 \/ Cardinality(lost) = 1
      BY <3>1, <3>2, Zenon
    <3> QED
      BY <3>3
  <2> QED
    BY <2>1, <2>2
<1>2. AddrInv /\ [Next]_am =>
        [LET lost == {h \in Hosts : am.mapAddr[h] # None /\ am'.mapAddr[h] = None}
         IN  /\ Cardinality(lost) <= 1
             /\ \A h \in lost : ~am.mapInfo[am.mapAddr[h]].fInTried]_am
  BY <1>1
<1> QED
  BY <1>2, AddrAlways, PTL DEF Spec, TriedNotDeleted

\* Saving peers.dat and loading it keeps every address, its tried status and its
\* new buckets.
THEOREM LoadKeepsAddresses == Spec => ReloadKeeps
<1>1. AddrInv /\ [Next]_am => [Reload => Known(am') = Known(am)]_am
  BY ReloadStep
<1> QED
  BY <1>1, AddrAlways, PTL DEF Spec, ReloadKeeps
=============================================================================
