----------------------------- MODULE LocalHost ------------------------------
(***************************************************************************)
(* What a node knows of its own addresses and of whom it has banned        *)
(* (net.cpp): the scores of mapLocalHost and the votes for them, which      *)
(* networks are reachable or limited, which address a peer is told, and    *)
(* CNode::setBanned.  An address here is a CService: a host and a port.     *)
(***************************************************************************)
EXTENDS Integers, Sequences, FiniteSets, Functions

CONSTANTS
    Order,               \* the hosts, in the order of CNetAddr
    Ports, ListenPort,
    Peers,
    Network,             \* Hosts \cup Peers -> the networks
    IsRoutable,          \* Hosts \cup Peers -> BOOLEAN
    Reachability,        \* Hosts -> Peers -> Int, GetReachabilityFrom
    Unroutable,          \* NET_UNROUTABLE
    IPv4, IPv6,
    Whitelisted,         \* peers in vWhitelistedRange
    BanTime,
    MAX_ADDR_TO_SEND,
    MaxScore, MaxTime    \* bounds of the model

Hosts == Range(Order)

LOCAL_NONE == 0
LOCAL_IF == 1            \* an interface listens on it
LOCAL_BIND == 2          \* bound explicitly
LOCAL_UPNP == 3          \* reported by UPnP
LOCAL_MANUAL == 4        \* -externalip

Nowhere == [host |-> "none", port |-> 0]
Services == [host : Hosts, port : Ports]
Networks == {Network[h] : h \in Hosts \cup Peers}

VARIABLES
    fDiscover,
    mapLocalHost,        \* hosts -> [nScore, nPort]
    vfReachable, vfLimited,
    setBanned, now,
    whose,               \* how each peer sees us: addrLocal of its version message
    vAddrToSend,         \* what each peer is going to be told
    setAddrKnown         \*   and has been told

vars == <<fDiscover, mapLocalHost, vfReachable, vfLimited, setBanned, now, whose,
          vAddrToSend, setAddrKnown>>
addressVars == <<mapLocalHost, vfReachable>>
told == <<vAddrToSend, setAddrKnown>>

TypeOK ==
    /\ DOMAIN mapLocalHost \subseteq Hosts
    /\ \A h \in DOMAIN mapLocalHost :
         mapLocalHost[h] \in [nScore : 0..MaxScore, nPort : Ports]
    /\ vfReachable \in [Networks -> BOOLEAN] /\ vfLimited \in [Networks -> BOOLEAN]
    /\ setBanned \in [Peers -> 0..MaxTime + BanTime]
    /\ whose \in [Peers -> Services \cup {Nowhere}]
    /\ \A p \in Peers : Range(vAddrToSend[p]) \subseteq Services
    /\ setAddrKnown \in [Peers -> SUBSET Services]

Init ==
    /\ fDiscover \in BOOLEAN
    /\ mapLocalHost = << >>
    /\ vfReachable = [n \in Networks |-> FALSE]
    /\ vfLimited = [n \in Networks |-> FALSE]
    /\ setBanned = [p \in Peers |-> 0] /\ now = 1
    /\ whose = [p \in Peers |-> Nowhere]
    /\ vAddrToSend = [p \in Peers |-> << >>] /\ setAddrKnown = [p \in Peers |-> {}]

IsLocal(h) == h \in DOMAIN mapLocalHost
IsLimited(h) == vfLimited[Network[h]]
IsReachable(h) == vfReachable[Network[h]] /\ ~vfLimited[Network[h]]

-----------------------------------------------------------------------------
\* SetReachable: who can reach IPv6 can reach IPv4.
Reached(n, fFlag) ==
    [m \in Networks |-> IF m = n \/ (m = IPv4 /\ n = IPv6 /\ fFlag) THEN fFlag
                        ELSE vfReachable[m]]

\* Mutant of Scored: the score of what is known is written over.
ScoredAnew(h, nScore) == nScore

\* The score after AddLocal: one that is known is not lowered, and voted for when
\* it is reported again.
Scored(h, nScore) ==
    IF ~IsLocal(h) THEN nScore
    ELSE IF nScore >= mapLocalHost[h].nScore THEN nScore + 1
    ELSE mapLocalHost[h].nScore

\* The port that goes with the score.
PortOf(s, nScore) ==
    IF ~IsLocal(s.host) \/ nScore >= mapLocalHost[s.host].nScore THEN s.port
    ELSE mapLocalHost[s.host].nPort

\* learn a new local address
AddLocal(s, nScore) ==
    /\ IsRoutable[s.host]
    /\ fDiscover \/ nScore >= LOCAL_MANUAL
    /\ ~IsLimited(s.host)
    /\ Scored(s.host, nScore) <= MaxScore
    /\ mapLocalHost' = [h \in DOMAIN mapLocalHost \cup {s.host} |->
                          IF h = s.host
                          THEN [nScore |-> Scored(h, nScore), nPort |-> PortOf(s, nScore)]
                          ELSE mapLocalHost[h]]
    /\ vfReachable' = Reached(Network[s.host], TRUE)
    /\ UNCHANGED <<fDiscover, vfLimited, setBanned, now, whose, told>>

\* A socket was bound to s and listens, for peers that are trusted or for all; the
\* sockets themselves are the environment's.
BindListenPort(s, fWhitelisted) == fDiscover /\ ~fWhitelisted /\ AddLocal(s, LOCAL_BIND)

\* An interface that is up and not the loopback.
Discover(h) == fDiscover /\ AddLocal([host |-> h, port |-> ListenPort], LOCAL_IF)

\* The router's answer.
ThreadMapPort(h) == fDiscover /\ AddLocal([host |-> h, port |-> ListenPort], LOCAL_UPNP)

\* vote for a local address
SeenLocal(h) ==
    /\ IsLocal(h) /\ mapLocalHost[h].nScore < MaxScore
    /\ mapLocalHost' = [mapLocalHost EXCEPT ![h].nScore = @ + 1]
    /\ UNCHANGED <<fDiscover, vfReachable, vfLimited, setBanned, now, whose, told>>

\* -onlynet
SetLimited(n) ==
    /\ n # Unroutable
    /\ vfLimited' = [vfLimited EXCEPT ![n] = TRUE]
    /\ UNCHANGED <<fDiscover, addressVars, setBanned, now, whose, told>>

\* -onlynet, -proxy and -onion
SetReachable(n, fFlag) ==
    /\ vfReachable' = Reached(n, fFlag)
    /\ UNCHANGED <<fDiscover, mapLocalHost, vfLimited, setBanned, now, whose, told>>

-----------------------------------------------------------------------------
\* Mutant of Improved: the score counts though the other is easier to reach.
ImprovedByScore(best, h, p) ==
    IF Reachability[h][p] > best.reach \/ mapLocalHost[h].nScore > best.score
    THEN [host |-> h, reach |-> Reachability[h][p], score |-> mapLocalHost[h].nScore]
    ELSE best

Improved(best, h, p) ==
    IF \/ Reachability[h][p] > best.reach
       \/ Reachability[h][p] = best.reach /\ mapLocalHost[h].nScore > best.score
    THEN [host |-> h, reach |-> Reachability[h][p], score |-> mapLocalHost[h].nScore]
    ELSE best

\* The one pass over mapLocalHost; Nowhere if it is empty.
GetLocal(p) ==
    LET pass[n \in 0..Len(Order)] ==
            IF n = 0 THEN [host |-> Nowhere.host, reach |-> -1, score |-> -1]
            ELSE IF IsLocal(Order[n]) THEN Improved(pass[n - 1], Order[n], p)
            ELSE pass[n - 1]
        best == pass[Len(Order)]
    IN  IF best.score < 0 THEN Nowhere
        ELSE [host |-> best.host, port |-> mapLocalHost[best.host].nPort]

Routable(s) == s # Nowhere /\ IsRoutable[s.host]

\* IsPeerAddrLocalGood
PeerAddrGood(p) ==
    fDiscover /\ IsRoutable[p] /\ Routable(whose[p]) /\ ~IsLimited(whose[p].host)

\* What the peer may be told: the best of our addresses, or its idea of our host,
\* for certain if we have none, else now and then.
Advertized(p) ==
    LET ours == GetLocal(p)
        theirs == [host |-> whose[p].host,
                   port |-> IF ours = Nowhere THEN ListenPort ELSE ours.port]
    IN  IF ~PeerAddrGood(p) THEN {ours}
        ELSE IF Routable(ours) THEN {ours, theirs} ELSE {theirs}

\* Mutant of PushAddress: the oldest are not replaced.
PushAddressAll(to, known, s) == {IF s \in known THEN to ELSE Append(to, s)}

\* PushAddress: not what the peer has been told; a full list loses one at random.
PushAddress(to, known, s) ==
    IF s \in known THEN {to}
    ELSE IF Len(to) >= MAX_ADDR_TO_SEND THEN {[to EXCEPT ![i] = s] : i \in DOMAIN to}
    ELSE {Append(to, s)}

AdvertizeLocal(p) ==
    /\ \E s \in Advertized(p) :
         /\ Routable(s)
         /\ \E to \in PushAddress(vAddrToSend[p], setAddrKnown[p], s) :
              vAddrToSend' = [vAddrToSend EXCEPT ![p] = to]
    /\ UNCHANGED <<fDiscover, addressVars, vfLimited, setBanned, now, whose, setAddrKnown>>

\* The peer's version message; SendMessages takes what is to be sent, and forgets
\* now and then what the peer knows.
Version(p, s) ==
    /\ whose' = [whose EXCEPT ![p] = s]
    /\ UNCHANGED <<fDiscover, addressVars, vfLimited, setBanned, now, told>>
SendAddrs(p) ==
    /\ vAddrToSend[p] # << >>
    /\ vAddrToSend' = [vAddrToSend EXCEPT ![p] = << >>]
    /\ \E known \in {{}, setAddrKnown[p]} :
         setAddrKnown' = [setAddrKnown EXCEPT ![p] = known \cup Range(vAddrToSend[p])]
    /\ UNCHANGED <<fDiscover, addressVars, vfLimited, setBanned, now, whose>>

-----------------------------------------------------------------------------
IsBanned(p) == now < setBanned[p]
Accepted(p) == ~IsBanned(p) \/ p \in Whitelisted

\* Mutant of Banned: the last ban counts.
BannedAnew(p) == now + BanTime
Banned(p) == IF setBanned[p] < now + BanTime THEN now + BanTime ELSE setBanned[p]

Ban(p) ==
    /\ setBanned' = [setBanned EXCEPT ![p] = Banned(p)]
    /\ UNCHANGED <<fDiscover, addressVars, vfLimited, now, whose, told>>

\* Time passes, or the system's clock is set back.
Clock ==
    /\ now' \in {now - 1, now + 1} \cap 1..MaxTime
    /\ UNCHANGED <<fDiscover, addressVars, vfLimited, setBanned, whose, told>>

Addresses ==
    \/ \E s \in Services : \/ AddLocal(s, LOCAL_MANUAL)
                           \/ \E fWhitelisted \in BOOLEAN : BindListenPort(s, fWhitelisted)
    \/ \E h \in Hosts : Discover(h) \/ ThreadMapPort(h)
    \/ \E h \in Hosts : SeenLocal(h)
    \/ \E n \in Networks : SetLimited(n) \/ \E fFlag \in BOOLEAN : SetReachable(n, fFlag)
    \/ \E p \in Peers : \/ AdvertizeLocal(p) \/ SendAddrs(p)
                        \/ \E s \in Services : Version(p, s)

Bans == Clock \/ \E p \in Peers : Ban(p)

Next == Addresses \/ Bans

Spec == Init /\ [][Next]_vars

-----------------------------------------------------------------------------
(* Properties *)

\* A ban is never shortened, though the clock is set back and the peer banned
\* again, and no report or vote lowers the score of a local address.
NothingWeakened ==
    [][/\ \A p \in Peers : setBanned'[p] >= setBanned[p]
       /\ \A h \in DOMAIN mapLocalHost :
            h \in DOMAIN mapLocalHost' /\ mapLocalHost'[h].nScore >= mapLocalHost[h].nScore]_vars

\* "find 'best' local address for a particular peer": no other address of ours is
\* easier for the peer to reach, nor as easy and reported with a better score.
LocalIsBest ==
    \A p \in Peers, h \in DOMAIN mapLocalHost :
        LET best == GetLocal(p).host
        IN  /\ best \in DOMAIN mapLocalHost
            /\ Reachability[h][p] <= Reachability[best][p]
            /\ Reachability[h][p] = Reachability[best][p] =>
                  mapLocalHost[h].nScore <= mapLocalHost[best].nScore

\* net.h, "The maximum number of new addresses to accumulate before announcing":
\* no more wait, and each can be routed.
AddrsBounded ==
    \A p \in Peers : /\ Len(vAddrToSend[p]) <= MAX_ADDR_TO_SEND
                     /\ \A s \in Range(vAddrToSend[p]) : IsRoutable[s.host]
=============================================================================
