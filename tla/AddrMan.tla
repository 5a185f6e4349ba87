------------------------------ MODULE AddrMan ------------------------------
(***************************************************************************)
(* The address manager (addrman.cpp, addrman.h): the table of known peer   *)
(* addresses, its "new" and "tried" buckets, the indices kept beside them  *)
(* and the peers.dat round trip.  Every public member locks CAddrMan::cs,  *)
(* so a call is one step.                                                  *)
(*                                                                         *)
(* The hash functions that choose buckets are constants.  Times other than *)
(* nLastSuccess, and with them IsTerrible() and GetChance(), are left out: *)
(* where they decide, either outcome is possible.  Sequences and positions *)
(* count from 1.                                                           *)
(***************************************************************************)
EXTENDS Integers, Sequences, FiniteSets

CONSTANTS
    Hosts,               \* CNetAddr values (routable)
    Ports,
    Sources,             \* groups of the peers that tell us about addresses
    NewBuckets, TriedBuckets,
    NewBucketOf,         \* GetNewBucket: [Hosts \X Sources -> NewBuckets]
    TriedBucketOf,       \* GetTriedBucket: [Hosts \X Ports -> TriedBuckets]
    NewBucketSize,       \* ADDRMAN_NEW_BUCKET_SIZE
    TriedBucketSize,     \* ADDRMAN_TRIED_BUCKET_SIZE
    BucketsPerAddress,   \* ADDRMAN_NEW_BUCKETS_PER_ADDRESS
    Inspect,             \* ADDRMAN_TRIED_ENTRIES_INSPECT_ON_EVICT
    MaxId,               \* bound of the model: ids given out between two loads
    MaxTime              \* bound of the model: nLastSuccess is in 0..MaxTime

ASSUME BucketAssumption ==
    /\ NewBucketOf \in [Hosts \X Sources -> NewBuckets]
    /\ TriedBucketOf \in [Hosts \X Ports -> TriedBuckets]
    /\ IsFiniteSet(NewBuckets)
    /\ {NewBucketSize, TriedBucketSize, BucketsPerAddress, Inspect}
          \subseteq Nat \ {0}
    /\ {MaxId, MaxTime} \subseteq Nat

VARIABLE am   \* the CAddrMan object

None == 0     \* no id

Ids == 1..MaxId
Info == [host : Hosts, port : Ports, source : Sources, nRefCount : Nat,
         fInTried : BOOLEAN, nRandomPos : Nat, nLastSuccess : 0..MaxTime]

TypeOK ==
    /\ DOMAIN am.mapInfo \subseteq 1..am.nIdCount
    /\ \A id \in DOMAIN am.mapInfo : am.mapInfo[id] \in Info
    /\ am.nIdCount \in 0..MaxId
    /\ am.mapAddr \in [Hosts -> Ids \cup {None}]
    /\ am.vRandom \in Seq(Ids)
    /\ am.nTried \in Nat /\ am.nNew \in Nat
    /\ am.vvTried \in [TriedBuckets -> Seq(Ids)]
    /\ am.vvNew \in [NewBuckets -> SUBSET Ids]

Empty == [nIdCount |-> 0, mapInfo |-> << >>,
          mapAddr |-> [h \in Hosts |-> None], vRandom |-> << >>,
          nTried |-> 0, vvTried |-> [b \in TriedBuckets |-> << >>],
          nNew |-> 0, vvNew |-> [b \in NewBuckets |-> {}]]

Elements(s) == {s[i] : i \in DOMAIN s}
BucketsWith(a, id) == {b \in NewBuckets : id \in a.vvNew[b]}

-----------------------------------------------------------------------------
(* Building blocks: each maps a table to a table *)

SwapAt(s, i, j) == [s EXCEPT ![i] = s[j], ![j] = s[i]]

SwapRandom(a, i, j) ==
    [a EXCEPT !.mapInfo[a.vRandom[i]].nRandomPos = j,
              !.mapInfo[a.vRandom[j]].nRandomPos = i,
              !.vRandom = SwapAt(@, i, j)]

Create(a, host, port, source) ==
    LET id == a.nIdCount + 1
        info == [host |-> host, port |-> port, source |-> source,
                 nRefCount |-> 0, fInTried |-> FALSE,
                 nRandomPos |-> Len(a.vRandom) + 1, nLastSuccess |-> 0]
    IN  [a EXCEPT !.nIdCount = id,
                  !.mapInfo = [i \in DOMAIN @ \cup {id} |->
                                  IF i = id THEN info ELSE @[i]],
                  !.mapAddr[host] = id,
                  !.vRandom = Append(@, id),
                  !.nNew = @ + 1]

\* Mutant of DropLast: the entry is popped without the swap to the end.
DropLastUnswapped(a, id) ==
    [a EXCEPT !.vRandom = SubSeq(@, 1, Len(@) - 1)]
\* SwapRandom(info.nRandomPos, vRandom.size()-1); vRandom.pop_back()
DropLast(a, id) ==
    LET b == SwapRandom(a, a.mapInfo[id].nRandomPos, Len(a.vRandom))
    IN  [b EXCEPT !.vRandom = SubSeq(@, 1, Len(@) - 1)]

Delete(a, id) ==
    [DropLast(a, id) EXCEPT
        !.mapAddr[a.mapInfo[id].host] = None,
        !.mapInfo = [i \in DOMAIN @ \ {id} |-> @[i]],
        !.nNew = @ - 1]

\* ShrinkNew takes a terrible entry of the bucket or one of four random ones
\* (the same one four times, if it comes to that): any entry id may be chosen.
ShrinkNew(a, b, id) ==
    LET c == [a EXCEPT !.mapInfo[id].nRefCount = @ - 1,
                       !.vvNew[b] = @ \ {id}]
    IN  IF c.mapInfo[id].nRefCount = 0 THEN Delete(c, id) ELSE c

\* The end of Add_: put id in bucket b, making room first when it is full.
InsertNew(a, id, b) ==
    LET c == [a EXCEPT !.mapInfo[id].nRefCount = @ + 1] IN
    IF id \in a.vvNew[b] THEN {a}
    ELSE {[s EXCEPT !.vvNew[b] = @ \cup {id}] :
             s \in IF Cardinality(a.vvNew[b]) = NewBucketSize
                   THEN {ShrinkNew(c, b, v) : v \in a.vvNew[b]}
                   ELSE {c}}

\* SelectTried swaps the entries at i and p, and remembers the position p when the
\* entry there is less recent than the one remembered.
LoopBody(a, s, i, p) ==
    LET better == \/ s.oldest = None
                  \/ a.mapInfo[s.v[p]].nLastSuccess < a.mapInfo[s.oldest].nLastSuccess
    IN  [v      |-> SwapAt(s.v, i, p),
         oldest |-> IF better THEN s.v[p] ELSE s.oldest,
         pos    |-> IF better THEN p ELSE s.pos]

\* The results of the loop over the first Inspect entries, each with one that follows.
SelectTried(a, v) ==
    LET N == IF Inspect < Len(v) THEN Inspect ELSE Len(v)
        After[i \in 0..N] ==
            IF i = 0 THEN {[v |-> v, oldest |-> None, pos |-> 0]}
            ELSE UNION {{LoopBody(a, s, i, p) : p \in i..Len(v)} : s \in After[i - 1]}
    IN  After[N]

\* The new bucket an evicted entry goes to: its own, or nOrigin when that is full.
Destination(vvNew, u, nOrigin) ==
    IF Cardinality(vvNew[u]) < NewBucketSize THEN u ELSE nOrigin

\* Mutant of WithoutNew: the entry stays in the new buckets.
StillNew(a, id) == a
\* The table with id in no new bucket.
WithoutNew(a, id) ==
    [a EXCEPT !.mapInfo[id].nRefCount = @ - Cardinality(BucketsWith(a, id)),
              !.vvNew = [b \in NewBuckets |-> @[b] \ {id}]]

\* MakeTried, with nOrigin any of the new buckets that hold id: out of all of
\* them, into its tried bucket; an entry evicted from there goes to its own new
\* bucket, or to nOrigin when that one is full.
MakeTried(a, id) ==
    LET info == a.mapInfo[id]
        k == TriedBucketOf[info.host, info.port]
        out == [WithoutNew(a, id) EXCEPT !.mapInfo[id].fInTried = TRUE]
        Evict(s, nOrigin) ==
            LET old == s.v[s.pos]
                u == NewBucketOf[a.mapInfo[old].host, a.mapInfo[old].source]
                b == Destination(out.vvNew, u, nOrigin)
            IN  [out EXCEPT !.mapInfo[old].fInTried = FALSE,
                            !.mapInfo[old].nRefCount = 1,
                            !.vvNew[b] = @ \cup {old},
                            !.vvTried[k] = [s.v EXCEPT ![s.pos] = id]]
    IN  IF Len(a.vvTried[k]) < TriedBucketSize
        THEN {[out EXCEPT !.vvTried[k] = Append(@, id),
                          !.nNew = @ - 1, !.nTried = @ + 1]}
        ELSE {Evict(s, nOrigin) : s \in SelectTried(a, a.vvTried[k]),
                                  nOrigin \in BucketsWith(a, id)}

-----------------------------------------------------------------------------
(* The public operations *)

Init == am = Empty

\* Add_: an address that is known already may be refused for lack of news or by
\* the stochastic test, and is when it is tried or in enough buckets.
Add(host, port, source) ==
    LET known == am.mapAddr[host]
        b == NewBucketOf[host, source]
    IN  \/ /\ known = None
           /\ am.nIdCount < MaxId
           /\ LET a == Create(am, host, port, source)
              IN  am' \in InsertNew(a, a.nIdCount, b)
        \/ /\ known # None
           /\ ~am.mapInfo[known].fInTried
           /\ am.mapInfo[known].nRefCount # BucketsPerAddress
           /\ am' \in InsertNew(am, known, b)

\* Good_: only for the exact service; an entry in no new bucket is left alone.
Good(host, port, nTime) ==
    LET id == am.mapAddr[host]
        a == [am EXCEPT !.mapInfo[id].nLastSuccess = nTime]
    IN  /\ id # None
        /\ am.mapInfo[id].port = port
        /\ IF am.mapInfo[id].fInTried \/ BucketsWith(am, id) = {} THEN am' = a
           ELSE am' \in MakeTried(a, id)

\* GetAddr_ makes a series of SwapRandom; the table between two of them is one
\* that a shorter series leaves, so a single swap is one step here.
GetAddr(i, j) ==
    /\ i < j
    /\ am' = SwapRandom(am, i, j)

\* The ids of a set in increasing order, as iterating over a std::map gives.
Ordered(S) == [i \in 1..Cardinality(S) |->
                  CHOOSE x \in S : Cardinality({y \in S : y <= x}) = i]

\* CDataStream << addrman: the new entries, the tried ones, and for every new
\* bucket the positions of its entries among the former.
Serialized ==
    LET news   == Ordered({i \in DOMAIN am.mapInfo : am.mapInfo[i].nRefCount # 0})
        trieds == Ordered({i \in DOMAIN am.mapInfo : am.mapInfo[i].fInTried})
    IN  [news   |-> [i \in DOMAIN news |-> am.mapInfo[news[i]]],
         trieds |-> [i \in DOMAIN trieds |-> am.mapInfo[trieds[i]]],
         vvNew  |-> [b \in NewBuckets |->
                       {i \in DOMAIN news : news[i] \in am.vvNew[b]}]]

Before(f, i) == {j \in 1..(i - 1) :
                    TriedBucketOf[f.trieds[j].host, f.trieds[j].port] =
                    TriedBucketOf[f.trieds[i].host, f.trieds[i].port]}
\* Mutant of Fitting: one place of each tried bucket is not used.
FittingOffByOne(f) ==
    {i \in DOMAIN f.trieds : Cardinality(Before(f, i)) < TriedBucketSize - 1}
\* The tried entries that find a place in their bucket; the others are lost.
Fitting(f) ==
    {i \in DOMAIN f.trieds : Cardinality(Before(f, i)) < TriedBucketSize}

\* The table made of the entries all, the first n of them new.
Rebuilt(all, n, vvNew, nIdCount) ==
    [Empty EXCEPT
       !.nIdCount = nIdCount,
       !.mapInfo = [i \in DOMAIN all |->
                      [all[i] EXCEPT
                         !.fInTried = (i > n), !.nRandomPos = i,
                         !.nRefCount = Cardinality({b \in NewBuckets :
                                                     i \in vvNew[b]})]],
       !.mapAddr = [h \in Hosts |->
                      IF \E i \in DOMAIN all : all[i].host = h
                      THEN CHOOSE i \in DOMAIN all : all[i].host = h
                      ELSE None],
       !.vRandom = [i \in DOMAIN all |-> i],
       !.nTried = Len(all) - n,
       !.vvTried = [k \in TriedBuckets |->
                      Ordered({i \in (n + 1)..Len(all) :
                                 TriedBucketOf[all[i].host, all[i].port] = k})],
       !.nNew = n,
       !.vvNew = vvNew]

Loaded(f) ==
    f.news \o [i \in 1..Cardinality(Fitting(f)) |-> f.trieds[Ordered(Fitting(f))[i]]]

\* CDataStream >> addrman, with an unchanged number of new buckets: ids are given
\* anew and the tried buckets are rebuilt from the hash of each entry.
Deserialized(f) == Rebuilt(Loaded(f), Len(f.news), f.vvNew, Len(Loaded(f)))

\* DumpAddresses, an exit, and the load at the next start.
Reload == am' = Deserialized(Serialized)

Next ==
    \/ \E h \in Hosts, p \in Ports, s \in Sources : Add(h, p, s)
    \/ \E h \in Hosts, p \in Ports, t \in 1..MaxTime : Good(h, p, t)
    \/ \E i, j \in DOMAIN am.vRandom : GetAddr(i, j)
    \/ Reload

Spec == Init /\ [][Next]_am

-----------------------------------------------------------------------------
(* Properties *)

\* addrman.cpp Check_, codes -5, -7 and -14: vRandom lists every id once and
\* each entry knows its position; mapAddr finds exactly the entries there are.
IndicesAgree ==
    /\ Len(am.vRandom) = am.nTried + am.nNew
    /\ Elements(am.vRandom) = DOMAIN am.mapInfo
    /\ \A id \in DOMAIN am.mapInfo :
         /\ am.mapInfo[id].nRandomPos \in DOMAIN am.vRandom
         /\ am.vRandom[am.mapInfo[id].nRandomPos] = id
         /\ am.mapAddr[am.mapInfo[id].host] = id
    /\ \A h \in Hosts : am.mapAddr[h] # None =>
         am.mapAddr[h] \in DOMAIN am.mapInfo /\ am.mapInfo[am.mapAddr[h]].host = h

\* Check_, codes -1 to -4, -9 to -13 and -15: an entry is either in the one
\* tried bucket its hash says, at one position, or counted in 1 to
\* BucketsPerAddress new buckets; the totals agree.
BucketsAgree ==
    /\ \A id \in DOMAIN am.mapInfo :
         LET info == am.mapInfo[id]
             places == {q \in TriedBuckets \X (1..TriedBucketSize) :
                          /\ q[2] \in DOMAIN am.vvTried[q[1]]
                          /\ am.vvTried[q[1]][q[2]] = id}
         IN  /\ info.nRefCount = Cardinality(BucketsWith(am, id))
             /\ IF info.fInTried
                THEN /\ info.nLastSuccess # 0 /\ info.nRefCount = 0
                     /\ Cardinality(places) = 1
                     /\ \A q \in places :
                          q[1] = TriedBucketOf[info.host, info.port]
                ELSE /\ info.nRefCount \in 1..BucketsPerAddress
                     /\ places = {}
    /\ am.nTried = Cardinality({i \in DOMAIN am.mapInfo : am.mapInfo[i].fInTried})
    /\ am.nNew = Cardinality({i \in DOMAIN am.mapInfo : ~am.mapInfo[i].fInTried})

\* MakeTried, "otherwise, move it to the new bucket nId came from (there is
\* certainly place there)": no bucket exceeds its size, and none holds an entry
\* that was deleted.
BucketsBounded ==
    /\ \A b \in NewBuckets : /\ Cardinality(am.vvNew[b]) <= NewBucketSize
                             /\ am.vvNew[b] \subseteq DOMAIN am.mapInfo
    /\ \A k \in TriedBuckets :
         /\ Len(am.vvTried[k]) <= TriedBucketSize
         /\ Elements(am.vvTried[k]) \subseteq DOMAIN am.mapInfo

\* CAddrMan::Check_: the four structures agree through every add, eviction, swap,
\* delete and load.
TablesAgree == TypeOK /\ IndicesAgree /\ BucketsAgree /\ BucketsBounded

\* What the table knows, without ids and positions.
Known(a) == {[host |-> a.mapInfo[i].host, port |-> a.mapInfo[i].port,
              source |-> a.mapInfo[i].source, tried |-> a.mapInfo[i].fInTried,
              success |-> a.mapInfo[i].nLastSuccess,
              buckets |-> BucketsWith(a, i)] : i \in DOMAIN a.mapInfo}

\* addrman.h, serialization: saving and loading keeps every address, its tried
\* status and its new buckets.
ReloadKeeps == [][Reload => Known(am') = Known(am)]_am

\* addrman.h, ShrinkNew: "They are never deleted while in the tried table, only
\* possibly evicted back to the new table", and at most one entry is deleted.
TriedNotDeleted ==
    [][LET lost == {h \in Hosts : am.mapAddr[h] # None /\ am'.mapAddr[h] = None}
       IN  /\ Cardinality(lost) <= 1
           /\ \A h \in lost : ~am.mapInfo[am.mapAddr[h]].fInTried]_am
=============================================================================
