------------------------------ MODULE NetParts -------------------------------
(***************************************************************************)
(* The parts of a node beside its connections that share no variable but   *)
(* the clock: what it asks of peers and relays, its own addresses and its  *)
(* bans, peers.dat, and alerts.  A behaviour is of one part; MCNetwork     *)
(* adds to these the parts that connect.                                   *)
(***************************************************************************)
EXTENDS Integers, Sequences, Functions

CONSTANTS
    Peers, Inv, MaxAlreadyAsked, MaxAskFor, MaxKnown, Retry, Lifetime, MaxTime,
    MaxRequests, MaxExpirations,
    Order, HostPorts, ListenPort, Visitors, Network, HostIsRoutable, Reachability,
    Unroutable, IPv4, IPv6, Whitelisted, BanTime, MAX_ADDR_TO_SEND, MaxScore,
    Magic, OtherMagic, TmpNames, MaxVersion,
    AlertSet, MaxInt, AlertPeers, MyVersion, MySubVer, AlertTime, AlertDrift

\* The containers have limits, two things at least can be asked for, and the names of
\* temporary files are not that of peers.dat.
ASSUME NetworkAssumption ==
    /\ {MaxAlreadyAsked, MaxKnown, Retry, Lifetime, MaxTime, BanTime, MAX_ADDR_TO_SEND, MaxScore,
        MaxVersion} \subseteq Nat
    /\ MaxAlreadyAsked > 1 /\ MaxKnown > 0 /\ MaxVersion > 0
    /\ "peers.dat" \notin TmpNames
    /\ Order \in Seq(Range(Order)) /\ ListenPort \in HostPorts
    /\ \A h \in Range(Order) : \A p \in Visitors : Reachability[h][p] \in Nat

VARIABLES
    part,
    now, mapAlreadyAskedFor, mapAskFor, nLastTime, asked, mapRelay, vRelayExpiration,
    known, vInventoryToSend,
    fDiscover, mapLocalHost, vfReachable, vfLimited, setBanned, whose, vAddrToSend,
    setAddrKnown,
    addrman, disk, durable, before, writer, state, loaded, torn,
    mapAlerts, setKnown, shown, lapsed

Things == INSTANCE Inventory
Loc == INSTANCE LocalHost WITH
    Ports <- HostPorts, Peers <- Visitors, IsRoutable <- HostIsRoutable
File == INSTANCE PeersFile
Al == INSTANCE Alerts WITH Peers <- AlertPeers, MaxTime <- AlertTime, Drift <- AlertDrift

things == <<mapAlreadyAskedFor, mapAskFor, nLastTime, asked, mapRelay, vRelayExpiration,
            known, vInventoryToSend>>
loc == <<fDiscover, mapLocalHost, vfReachable, vfLimited, setBanned, whose, vAddrToSend,
         setAddrKnown>>
file == <<addrman, disk, durable, before, writer, state, loaded, torn>>
al == <<mapAlerts, setKnown, shown, lapsed>>
partsVars == <<part, now, things, loc, file, al>>

\* A part that is not the behaviour's has nothing in it.
PartsInit ==
    /\ part \in {"ask", "relay", "local", "ban", "file", "alert", "connect", "address", "proxy"}
    /\ IF part \in {"ask", "relay"} THEN Things!Init
       ELSE /\ mapAlreadyAskedFor = 0 /\ mapAskFor = 0 /\ nLastTime = 0 /\ asked = 0
            /\ mapRelay = 0 /\ vRelayExpiration = 0 /\ known = 0 /\ vInventoryToSend = 0
    /\ IF part \in {"local", "ban"} THEN Loc!Init
       ELSE /\ fDiscover = 0 /\ mapLocalHost = << >> /\ vfReachable = 0 /\ vfLimited = 0
            /\ setBanned = [p \in Visitors |-> 0] /\ whose = 0 /\ vAddrToSend = 0
            /\ setAddrKnown = 0
    /\ IF part = "file" THEN File!Init
       ELSE /\ addrman = 0 /\ disk = 0 /\ durable = 0 /\ before = 0 /\ writer = 0
            /\ state = 0 /\ loaded = 0 /\ torn = 0
    /\ IF part = "alert" THEN Al!Init
       ELSE mapAlerts = 0 /\ setKnown = 0 /\ shown = 0 /\ lapsed = 0
    /\ part \in {"file", "connect", "address", "proxy"} => now = 0

AskNext ==
    part = "ask" /\ (Things!Asking \/ Things!Tick) /\ UNCHANGED <<part, loc, file, al>>
RelayNext ==
    part = "relay" /\ (Things!Relaying \/ Things!Tick) /\ UNCHANGED <<part, loc, file, al>>
LocalNext == part = "local" /\ Loc!Addresses /\ UNCHANGED <<part, things, file, al>>
BanNext == part = "ban" /\ Loc!Bans /\ UNCHANGED <<part, things, file, al>>
FileNext == part = "file" /\ File!Next /\ UNCHANGED <<part, now, things, loc, al>>
AlertNext == part = "alert" /\ Al!Next /\ UNCHANGED <<part, things, loc, file>>

PartsNext == AskNext \/ RelayNext \/ LocalNext \/ BanNext \/ FileNext \/ AlertNext

PartsSpec == PartsInit /\ [][PartsNext]_partsVars

-----------------------------------------------------------------------------
(* Properties *)

\* Requests for a thing are apart, what is evicted leaves no half behind, and what is
\* relayed expires (CNode::AskFor, limitedmap, mruset, RelayTransaction).
InventoryKept ==
    part \in {"ask", "relay"} =>
        Things!RequestsSpaced /\ Things!ContainersAgree /\ Things!RelayExpires

\* The address a peer is told is the best for it, within the limit (GetLocal).
LocalIsBest == part = "local" => Loc!TypeOK /\ Loc!LocalIsBest /\ Loc!AddrsBounded

\* peers.dat is whole wherever the program stops, and nothing torn is loaded
\* (CAddrDB); the alerts that are kept do not cancel each other (ProcessAlert).
StoredSound ==
    /\ part = "file" => File!PeersDatWhole /\ File!LoadedWhole
    /\ part = "alert" => Al!NoneCancelled /\ Al!ShownKept

\* No ban is shortened and no local address loses score (CNode::Ban, AddLocal).
NothingWeakened == Loc!NothingWeakened
=============================================================================
