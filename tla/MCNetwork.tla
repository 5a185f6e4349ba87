----------------------------- MODULE MCNetwork ------------------------------
(***************************************************************************)
(* What a node does beside its connections: a behaviour is of one of the   *)
(* parts of NetParts, or chooses whom to connect to, connects through      *)
(* proxies, or prints an address and reads it back.                        *)
(***************************************************************************)
EXTENDS NetParts

CONSTANTS
    a1, a2, a3, visitor, n1, n2, NoAddr, MaxOutbound, Triggers, MaxNodes, Rounds,
    h1, h2, h3, Ports, PortDefault, UseIPv6, RecvTimeout, ConnectTimeout

VARIABLES
    options, vNodes, addresses, vOneShots, late, seeder, opencon, addcon, settled,
    service, text, found,
    proxyInfo, nameProxy, fNameLookup, dest, at, copied, lookup, hSocket, peer, want,
    field, form, consumed, spent, queried, proxyFailed, result, proxies

\* Two addresses of one group and one of another.
Con == INSTANCE Connecting WITH
    Addrs <- {a1, a2, a3}, Peers <- {visitor}, Names <- {n1, n2},
    Group <- [a \in {a1, a2, a3, visitor} |-> IF a = a3 THEN 2 ELSE 1],
    IsLocal <- [a \in {a1, a2, a3} |-> FALSE],
    IsLimited <- [a \in {a1, a2, a3} |-> FALSE],
    OtherPort <- [a \in {a1, a2, a3} |-> a = a2],
    Resolves <- [n \in {n1, n2} |-> IF n = n1 THEN {a1, a3} ELSE {a2}],
    Seeds <- <<n1>>, FixedSeeds <- {a3}, AddedNodes <- << <<a1, a2>>, <<a3>> >>,
    Options <- {[known |-> {}, nameproxy |-> FALSE, forcednsseed |-> FALSE,
                 connect |-> << >>, addnode |-> <<n2>>, watched |-> a3],
                [known |-> {a1, a2, a3}, nameproxy |-> FALSE, forcednsseed |-> FALSE,
                 connect |-> << >>, addnode |-> <<n2>>, watched |-> a2],
                [known |-> {}, nameproxy |-> TRUE, forcednsseed |-> FALSE,
                 connect |-> << >>, addnode |-> <<n2>>, watched |-> a1],
                [known |-> {a1}, nameproxy |-> FALSE, forcednsseed |-> TRUE,
                 connect |-> <<n1>>, addnode |-> <<n2>>, watched |-> a1]}

\* Addresses of every kind: IPv4, also inside IPv6, private and public, onion names, and
\* neighbours within a group and across its edge.
Filled(prefix) == prefix \o [i \in 1..(16 - Len(prefix)) |-> i]
Zeros(n) == [i \in 1..n |-> 0]
Mapped == Zeros(10) \o <<255, 255>>
IPv4s ==
    {<<10, 0, 0, 1>>, <<192, 168, 1, 1>>, <<172, 16, 0, 1>>, <<172, 32, 0, 1>>,
     <<169, 254, 1, 1>>, <<127, 0, 0, 1>>, <<0, 1, 2, 3>>, <<0, 0, 0, 0>>,
     <<255, 255, 255, 255>>, <<8, 8, 8, 8>>, <<8, 8, 4, 4>>, <<8, 9, 4, 4>>}
Tunnels(v) ==
    {Filled(<<32, 2>> \o v), <<0, 100, 255, 155>> \o Zeros(8) \o v,
     Zeros(8) \o <<255, 255, 0, 0>> \o v,
     <<32, 1, 0, 0>> \o Zeros(8) \o [i \in 1..4 |-> 255 - v[i]]}
Prefixes ==
    {<<253, 135, 216, 126, 235, 67, 7>>, <<253, 135, 216, 126, 235, 67, 23>>,
     <<253, 135, 1>>, <<254, 128, 0, 0, 0, 0, 0, 0>>, <<32, 1, 13, 184>>, <<32, 1, 0, 16>>,
     <<32, 1, 4, 112, 1>>, <<32, 1, 4, 112, 32>>, <<42, 0, 1, 2>>, <<42, 0, 1, 3>>,
     Zeros(7) \o <<255, 255>>}
Ad == INSTANCE NetAddr WITH
    Addresses <- {Mapped \o v : v \in IPv4s} \cup {Filled(p) : p \in Prefixes}
                 \cup Tunnels(<<8, 8, 8, 8>>) \cup Tunnels(<<10, 0, 0, 1>>)
                 \cup {Zeros(16), Append(Zeros(15), 1)}

To(kind, net, long) == [kind |-> kind, net |-> net, long |-> long]
Px == INSTANCE Socks WITH
    Networks <- {"ipv4", "onion"}, AddressSizes <- [ipv4 |-> 4, domain |-> 3],
    Destinations <- {To(k, net, FALSE) :
                        k \in {"address", "number"}, net \in {"ipv4", "onion"}}
                    \cup {To("name", "ipv4", long) : long \in BOOLEAN},
    before <- proxies

con == <<options, vNodes, addresses, vOneShots, late, seeder, opencon, addcon, settled>>
ad == <<service, text, found>>
px == <<proxyInfo, nameProxy, fNameLookup, dest, at, copied, lookup, hSocket, peer, want,
        field, form, consumed, spent, queried, proxyFailed, result, proxies>>
mine == <<con, ad, px>>
vars == <<partsVars, mine>>

Init ==
    /\ PartsInit
    /\ IF part = "connect" THEN Con!Init
       ELSE /\ options = [nameproxy |-> TRUE] /\ vNodes = << >> /\ addresses = {}
            /\ vOneShots = << >> /\ late = FALSE /\ seeder = 0 /\ settled = {}
            /\ opencon = [thread |-> Con!Idle("off")]
            /\ addcon = [thread |-> Con!Idle("off")]
    /\ IF part = "address" THEN Ad!Init ELSE service = 0 /\ text = 0 /\ found = 0
    /\ IF part = "proxy" THEN Px!Init
       ELSE /\ proxyInfo = 0 /\ nameProxy = 0 /\ fNameLookup = 0 /\ dest = 0 /\ at = 0
            /\ copied = 0 /\ lookup = 0 /\ hSocket = 0 /\ peer = 0 /\ want = 0
            /\ field = 0 /\ form = 0 /\ consumed = 0 /\ spent = 0 /\ queried = 0
            /\ proxyFailed = 0 /\ result = 0 /\ proxies = 0

ConnectNext == part = "connect" /\ Con!Next /\ UNCHANGED <<partsVars, ad, px>>
AddressNext == part = "address" /\ Ad!Next /\ UNCHANGED <<partsVars, con, px>>
ProxyNext == part = "proxy" /\ Px!Next /\ UNCHANGED <<partsVars, con, ad>>

Next == (PartsNext /\ UNCHANGED mine) \/ ConnectNext \/ AddressNext \/ ProxyNext

Spec == Init /\ [][Next]_vars /\ Con!Fairness

-----------------------------------------------------------------------------
\* Two hosts that are easy to reach, and a third over IPv6 that is not.
MCOrder == <<h1, h2, h3>>
MCVisitors == {visitor}
MCNetworks == [h \in {h1, h2, h3, visitor} |-> IF h = h3 THEN "ipv6" ELSE "ipv4"]
MCIsRoutable == [h \in {h1, h2, h3, visitor} |-> TRUE]
MCReachability == [h \in {h1, h2, h3} |-> [p \in {visitor} |-> IF h = h3 THEN 2 ELSE 4]]

\* One peer whose version is not known yet, and one of ours.
MCAlertPeers == {[nVersion |-> v, strSubVer |-> "a"] : v \in {0, 1}}

MCAlert(id, nCancel, setCancel, nExpiration, nMinVer) ==
    [nID |-> id, nCancel |-> nCancel, setCancel |-> setCancel,
     nExpiration |-> nExpiration, nMinVer |-> nMinVer, nMaxVer |-> 9, setSubVer |-> {}]

\* Alerts that cancel by range, by number and each other, one for later versions
\* only, and two with the reserved number, one of them ill formed.
MCAlerts ==
    {MCAlert(2, 1, {}, 2, 0), MCAlert(3, 0, {2}, 1, 0), MCAlert(4, 0, {3}, 3, 2),
     MCAlert(1, 2, {}, 3, 0), MCAlert(2, 2, {4}, 3, 0),
     MCAlert(9, 8, {}, 9, 0), MCAlert(9, 3, {}, 9, 0)}

-----------------------------------------------------------------------------
\* ThreadOpenConnections chooses one connection for each group, the added nodes that
\* are left are those not connected, and seeds are retried.
ConnectionsChosen ==
    part = "connect" => Con!OneOutboundPerGroup /\ Con!AddedLeft /\ Con!OneShotsKept

\* Addresses that are the same machine's or network's are one group, what is printed is
\* read back, and what is a number is not asked of a name server (netbase.cpp); a call
\* to connect keeps to the proxies, ends in time and loses no socket (ConnectSocket).
ReachedSafely ==
    /\ part = "address" => Ad!AddressesRight
    /\ part = "proxy" => Px!ConnectionsSafe

\* Every address of an added node is tried again and again
\* (ThreadOpenAddedConnections).
AddedTried == Con!AddedTried
=============================================================================
