SPECIFICATION Spec
CONSTANTS
    Peers = {p1, p2}
    Inv = {i1, i2, i3}
    MaxAlreadyAsked = 3
    MaxAskFor = 3
    MaxKnown = 1
    Retry = 2
    Lifetime = 2
    MaxTime = 4
    MaxRequests = 1
    MaxExpirations = 2
    a1 = a1
    a2 = a2
    a3 = a3
    visitor = visitor
    n1 = n1
    n2 = n2
    NoAddr = NoAddr
    MaxOutbound = 2
    Triggers = {1, 30, 50, 101}
    MaxNodes = 2
    Rounds = 2
    h1 = h1
    h2 = h2
    h3 = h3
    Order <- MCOrder
    HostPorts = {1}
    ListenPort = 1
    Visitors <- MCVisitors
    Network <- MCNetworks
    HostIsRoutable <- MCIsRoutable
    Reachability <- MCReachability
    Unroutable = "unroutable"
    IPv4 = "ipv4"
    IPv6 = "ipv6"
    Whitelisted = {}
    BanTime = 2
    MAX_ADDR_TO_SEND = 1
    MaxScore = 4
    Magic = "ours"
    OtherMagic = "theirs"
    TmpNames = {"peers.dat.0001"}
    MaxVersion = 2
    AlertSet <- MCAlerts
    MaxInt = 9
    AlertPeers <- MCAlertPeers
    MyVersion = 1
    MySubVer = "a"
    AlertTime = 3
    AlertDrift = 1
    Ports = {0, 1, 256}
    PortDefault = 7
    UseIPv6 = TRUE
    RecvTimeout = 2
    ConnectTimeout = 1
INVARIANTS
    InventoryKept
    ConnectionsChosen
    LocalIsBest
    StoredSound
    ReachedSafely
PROPERTIES
    NothingWeakened
    AddedTried
CHECK_DEADLOCK FALSE
