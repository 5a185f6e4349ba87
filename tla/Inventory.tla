----------------------------- MODULE Inventory -----------------------------
(***************************************************************************)
(* What a node knows of its peers' inventories: the requests it plans      *)
(* (CNode::AskFor, net.cpp) with the times kept in a limitedmap, the       *)
(* transactions it relays and for how long it can serve them               *)
(* (RelayTransaction), and the mruset of what a peer has.                  *)
(*                                                                         *)
(* main.cpp's SendMessages, which takes the due requests from mapAskFor    *)
(* and sends vInventoryToSend, and its handlers, which erase what has      *)
(* arrived from mapAlreadyAskedFor, are modelled by their use.             *)
(***************************************************************************)
EXTENDS Integers, Sequences, FiniteSets, Functions

CONSTANTS
    Peers, Inv,
    MaxAlreadyAsked,     \* MAX_INV_SZ, the limit of mapAlreadyAskedFor
    MaxAskFor,           \* MAPASKFOR_MAX_SZ
    MaxKnown,            \* setInventoryKnown.max_size()
    Retry,               \* two minutes
    Lifetime,            \* fifteen minutes
    MaxTime,             \* bounds of the model: the clock, and the requests of
    MaxRequests,         \*   one thing from one peer that wait
    MaxExpirations       \*   and the relays that have not expired

VARIABLES
    now,
    mapAlreadyAskedFor,  \* a limitedmap: Inv -> time
    mapAskFor,           \* each peer's multimap of requests, in order
    nLastTime,
    asked,               \* ghost: times handed out for a thing since it was forgotten
    mapRelay,
    vRelayExpiration,
    known,               \* each peer's setInventoryKnown, a mruset
    vInventoryToSend

askVars == <<mapAlreadyAskedFor, mapAskFor, nLastTime, asked>>
relayVars == <<mapRelay, vRelayExpiration, known, vInventoryToSend>>
vars == <<now, askVars, relayVars>>

-----------------------------------------------------------------------------
(* limitedmap: map, and rmap as its keys in the order of their values, the  *)
(* one that came first before another of the same value.                    *)

EmptyMap == [map |-> << >>, rmap |-> << >>]
Count(m, k) == k \in DOMAIN m.map
With(f, k, v) == [x \in DOMAIN f \cup {k} |-> IF x = k THEN v ELSE f[x]]
Without(f, k) == [x \in DOMAIN f \ {k} |-> f[x]]

\* rmap.insert: after the entries of the same value.
Placed(m, rmap, k, v) ==
    LET n == Cardinality({i \in DOMAIN rmap : m[rmap[i]] <= v})
    IN  SubSeq(rmap, 1, n) \o <<k>> \o SubSeq(rmap, n + 1, Len(rmap))

\* Mutant of MapInsert: the entry evicted from map stays in rmap.
MapInsertHalf(m, k, v, max) ==
    LET full == max # 0 /\ Cardinality(DOMAIN m.map) + 1 = max
        kept == IF full /\ m.rmap # << >> THEN Without(m.map, Head(m.rmap)) ELSE m.map
    IN  IF Count(m, k) THEN m
        ELSE [map |-> With(kept, k, v), rmap |-> Placed(With(m.map, k, v), m.rmap, k, v)]

\* The size is compared after the insertion into map, and the lowest entry makes
\* room before the new one is in rmap.
MapInsert(m, k, v, max) ==
    LET full == max # 0 /\ Cardinality(DOMAIN m.map) + 1 = max
        kept == IF full THEN Without(m.map, Head(m.rmap)) ELSE m.map
        left == IF full THEN Tail(m.rmap) ELSE m.rmap
    IN  IF Count(m, k) THEN m
        ELSE [map |-> With(kept, k, v), rmap |-> Placed(kept, left, k, v)]

\* rmap.erase(it), it->second == itTarget
Dropped(rmap, k) ==
    LET n == CHOOSE i \in DOMAIN rmap : rmap[i] = k
    IN  SubSeq(rmap, 1, n - 1) \o SubSeq(rmap, n + 1, Len(rmap))

MapErase(m, k) ==
    IF Count(m, k) THEN [map |-> Without(m.map, k), rmap |-> Dropped(m.rmap, k)] ELSE m

MapUpdate(m, k, v) ==
    IF Count(m, k)
    THEN [map |-> With(m.map, k, v), rmap |-> Placed(m.map, Dropped(m.rmap, k), k, v)] ELSE m

(* mruset *)

EmptySet == [set |-> {}, queue |-> << >>]

\* Mutant of SetInsert: the oldest is taken from the queue only.
SetInsertHalf(s, x, max) ==
    IF x \in s.set THEN s
    ELSE [set |-> s.set \cup {x},
          queue |-> Append(IF max # 0 /\ Len(s.queue) = max THEN Tail(s.queue) ELSE s.queue, x)]

SetInsert(s, x, max) ==
    IF x \in s.set THEN s
    ELSE IF max # 0 /\ Len(s.queue) = max
    THEN [set |-> (s.set \cup {x}) \ {Head(s.queue)}, queue |-> Append(Tail(s.queue), x)]
    ELSE [set |-> s.set \cup {x}, queue |-> Append(s.queue, x)]

\* One after the other.
SetInsertAll(s, q, max) ==
    LET after[n \in 0..Len(q)] ==
            IF n = 0 THEN s ELSE SetInsert(after[n - 1], q[n], max)
    IN  after[Len(q)]

-----------------------------------------------------------------------------
Init ==
    /\ now = 1
    /\ mapAlreadyAskedFor = EmptyMap
    /\ mapAskFor = [p \in Peers |-> << >>]
    /\ nLastTime = 0
    /\ asked = [i \in Inv |-> {}]
    /\ mapRelay = {}
    /\ vRelayExpiration = << >>
    /\ known = [p \in Peers |-> EmptySet]
    /\ vInventoryToSend = [p \in Peers |-> << >>]

Later(a, b) == IF a > b THEN a ELSE b

\* Mutant of RequestTime: a retry is not put off.
RequestTimeSoon(inv, nNow) == nNow

\* Each retry is two minutes after the last.
RequestTime(inv, nNow) ==
    LET nRequestTime == IF Count(mapAlreadyAskedFor, inv) THEN mapAlreadyAskedFor.map[inv]
                        ELSE 0
    IN  Later(nRequestTime + Retry, nNow)

\* A multimap: in the order of the times, and of coming.
Queued(q, time, inv) ==
    LET n == Cardinality({i \in DOMAIN q : q[i].time <= time})
    IN  SubSeq(q, 1, n) \o <<[time |-> time, inv |-> inv]>> \o SubSeq(q, n + 1, Len(q))

\* nNow is a second before the clock; the static nLastTime keeps it growing.
AskFor(p, inv) ==
    /\ Len(mapAskFor[p]) <= MaxAskFor
    /\ LET nNow == Later(now - 1, nLastTime + 1)
           time == RequestTime(inv, nNow)
           m == mapAlreadyAskedFor
           after == IF Count(m, inv) THEN MapUpdate(m, inv, time)
                    ELSE MapInsert(m, inv, time, MaxAlreadyAsked)
           kept == [i \in Inv |-> IF Count(after, i) THEN asked[i] ELSE {}]
       IN  /\ Cardinality({i \in DOMAIN mapAskFor[p] : mapAskFor[p][i].inv = inv})
                < MaxRequests
           /\ nNow <= MaxTime
           /\ nLastTime' = nNow
           /\ mapAlreadyAskedFor' = after
           /\ mapAskFor' = [mapAskFor EXCEPT ![p] = Queued(@, time, inv)]
           /\ asked' = [kept EXCEPT ![inv] = @ \cup {<<p, time>>}]
    /\ UNCHANGED <<now, relayVars>>

\* SendMessages: what is due is sent or dropped.
SendDue(p) ==
    /\ mapAskFor[p] # << >> /\ Head(mapAskFor[p]).time <= now
    /\ mapAskFor' = [mapAskFor EXCEPT ![p] = Tail(@)]
    /\ UNCHANGED <<now, mapAlreadyAskedFor, nLastTime, asked, relayVars>>

\* The thing has arrived.
Received(inv) ==
    /\ Count(mapAlreadyAskedFor, inv)
    /\ mapAlreadyAskedFor' = MapErase(mapAlreadyAskedFor, inv)
    /\ asked' = [asked EXCEPT ![inv] = {}]
    /\ UNCHANGED <<now, mapAskFor, nLastTime, relayVars>>

-----------------------------------------------------------------------------
\* PushInventory: not what the peer is known to have.
Pushed(p, inv, to) == IF inv \in known[p].set THEN to ELSE Append(to, inv)

Expired == {i \in DOMAIN vRelayExpiration :
              \A j \in 1..i : vRelayExpiration[j].time < now}

\* Mutant of Recorded: no second expiry for a message that is there already.
RecordedOnce(inv, left, kept) ==
    IF inv \in mapRelay THEN left ELSE Append(left, [time |-> now + Lifetime, inv |-> inv])

\* vRelayExpiration after the message: an entry of its own each time.
Recorded(inv, left, kept) == Append(left, [time |-> now + Lifetime, inv |-> inv])

\* Relevant is the set of peers that relay transactions and whose filter, if they
\* have one, matches.
RelayTransaction(inv, relevant) ==
    /\ Len(vRelayExpiration) - Cardinality(Expired) < MaxExpirations
    /\ LET left == SubSeq(vRelayExpiration, Cardinality(Expired) + 1, Len(vRelayExpiration))
           kept == mapRelay \ {vRelayExpiration[i].inv : i \in Expired}
       IN  /\ vRelayExpiration' = Recorded(inv, left, kept)
           /\ mapRelay' = kept \cup {inv}
    /\ \A p \in relevant : Len(vInventoryToSend[p]) < MaxRequests
    /\ vInventoryToSend' = [p \in Peers |->
                              IF p \in relevant THEN Pushed(p, inv, vInventoryToSend[p])
                              ELSE vInventoryToSend[p]]
    /\ UNCHANGED <<now, askVars, known>>

\* The peer announces a thing, or asks for it.
AddInventoryKnown(p, inv) ==
    /\ known' = [known EXCEPT ![p] = SetInsert(@, inv, MaxKnown)]
    /\ UNCHANGED <<now, askVars, mapRelay, vRelayExpiration, vInventoryToSend>>

\* SendMessages: what is not known by now is sent and is known from then on.
SendInventory(p) ==
    /\ vInventoryToSend[p] # << >>
    /\ vInventoryToSend' = [vInventoryToSend EXCEPT ![p] = << >>]
    /\ known' = [known EXCEPT ![p] = SetInsertAll(@, vInventoryToSend[p], MaxKnown)]
    /\ UNCHANGED <<now, askVars, mapRelay, vRelayExpiration>>

Tick ==
    /\ now < MaxTime
    /\ now' = now + 1
    /\ UNCHANGED <<askVars, relayVars>>

Asking ==
    \/ \E p \in Peers, inv \in Inv : AskFor(p, inv)
    \/ \E p \in Peers : SendDue(p)
    \/ \E inv \in Inv : Received(inv)

Relaying ==
    \/ \E inv \in Inv, relevant \in SUBSET Peers : RelayTransaction(inv, relevant)
    \/ \E p \in Peers, inv \in Inv : AddInventoryKnown(p, inv)
    \/ \E p \in Peers : SendInventory(p)

Next == Asking \/ Relaying \/ Tick

Spec == Init /\ [][Next]_vars
-----------------------------------------------------------------------------
(* Properties *)

\* As long as a thing is remembered, the requests for it that go to whichever
\* peers are two minutes apart.
RequestsSpaced ==
    \A inv \in Inv : \A a, b \in asked[inv] :
        a # b => a[2] - b[2] >= Retry \/ b[2] - a[2] >= Retry

IsPermutation(s, S) == Len(s) = Cardinality(S) /\ Range(s) = S

\* The two halves of each container name the same things whatever is evicted,
\* none holds more than its limit, and rmap is in the order of the values.
ContainersAgree ==
    /\ LET m == mapAlreadyAskedFor IN
         /\ IsPermutation(m.rmap, DOMAIN m.map)
         /\ \A i, j \in DOMAIN m.rmap : i < j => m.map[m.rmap[i]] <= m.map[m.rmap[j]]
         /\ Len(m.rmap) < MaxAlreadyAsked
    /\ \A p \in Peers : /\ IsPermutation(known[p].queue, known[p].set)
                        /\ Len(known[p].queue) <= MaxKnown

\* A message is served only as long as an entry will expire it: nothing stays in
\* mapRelay for ever, though a message relayed twice has two entries and the first
\* takes it away.
RelayExpires ==
    \A inv \in mapRelay : \E i \in DOMAIN vRelayExpiration : vRelayExpiration[i].inv = inv
=============================================================================
