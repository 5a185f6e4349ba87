------------------------------ MODULE NetAddr -------------------------------
(* CNetAddr and CService of netbase.cpp: what kind of address sixteen bytes  *)
(* are, the group it belongs to, how well it is reached, and its text.  A    *)
(* behaviour prints an address and reads the text back.                      *)
EXTENDS Integers, FiniteSets, SequencesExt

CONSTANTS
    Addresses,      \* sequences of 16 bytes, the first on the wire first
    Ports,          \* ports that are printed
    PortDefault,    \* of Lookup
    UseIPv6         \* USE_IPV6 is defined

VARIABLES
    service,    \* an address with its port
    text,       \* what it was printed as
    found       \* what Lookup made of the text

vars == <<service, text, found>>

-----------------------------------------------------------------------------
(* Kinds of addresses *)

GetByte(ip, n) == ip[16 - n]
StartsWith(ip, prefix) == SubSeq(ip, 1, Len(prefix)) = prefix
Zeros(n) == [i \in 1..n |-> 0]

pchIPv4 == Zeros(10) \o <<255, 255>>
pchOnionCat == <<253, 135, 216, 126, 235, 67>>

IsIPv4(ip) == StartsWith(ip, pchIPv4)
IsTor(ip) == StartsWith(ip, pchOnionCat)
IsIPv6(ip) == ~IsIPv4(ip) /\ ~IsTor(ip)
IsRFC1918(ip) == IsIPv4(ip) /\ \/ GetByte(ip, 3) = 10
                               \/ GetByte(ip, 3) = 192 /\ GetByte(ip, 2) = 168
                               \/ GetByte(ip, 3) = 172 /\ GetByte(ip, 2) \in 16..31
IsRFC3927(ip) == IsIPv4(ip) /\ GetByte(ip, 3) = 169 /\ GetByte(ip, 2) = 254
IsRFC3849(ip) == StartsWith(ip, <<32, 1, 13, 184>>)
IsRFC3964(ip) == StartsWith(ip, <<32, 2>>)
IsRFC6052(ip) == StartsWith(ip, <<0, 100, 255, 155>> \o Zeros(8))
IsRFC4380(ip) == StartsWith(ip, <<32, 1, 0, 0>>)
IsRFC4862(ip) == StartsWith(ip, <<254, 128>> \o Zeros(6))
IsRFC4193(ip) == GetByte(ip, 15) \in {252, 253}
IsRFC6145(ip) == StartsWith(ip, Zeros(8) \o <<255, 255, 0, 0>>)
IsRFC4843(ip) == StartsWith(ip, <<32, 1, 0>>) /\ GetByte(ip, 12) \div 16 = 1
IsLocal(ip) == \/ IsIPv4(ip) /\ GetByte(ip, 3) \in {0, 127}
               \/ ip = Append(Zeros(15), 1)
IsValid(ip) ==
    /\ ~StartsWith(ip, SubSeq(pchIPv4, 4, 12))     \* shifted by three bytes
    /\ ip # Zeros(16)
    /\ ~IsRFC3849(ip)
    /\ IsIPv4(ip) => SubSeq(ip, 13, 16) \notin {<<255, 255, 255, 255>>, Zeros(4)}
IsRoutable(ip) ==
    IsValid(ip) /\ ~(\/ IsRFC1918(ip) \/ IsRFC3927(ip) \/ IsRFC4862(ip)
                     \/ IsRFC4193(ip) /\ ~IsTor(ip)
                     \/ IsRFC4843(ip) \/ IsLocal(ip))
GetNetwork(ip) ==
    IF ~IsRoutable(ip) THEN "unroutable"
    ELSE IF IsIPv4(ip) THEN "ipv4" ELSE IF IsTor(ip) THEN "onion" ELSE "ipv6"

-----------------------------------------------------------------------------
(* Groups *)

\* A class, and so many bits from a byte on; what is left of a byte is filled up.
Group(ip, nClass, nStartByte, nBits) ==
    LET rest == nBits % 8
        whole == SubSeq(ip, nStartByte + 1, nStartByte + nBits \div 8)
        b == ip[nStartByte + nBits \div 8 + 1]
    IN  <<nClass>> \o [i \in 1..Len(whole) |-> whole[i]]
        \o IF rest = 0 THEN << >> ELSE <<b - (b % 2 ^ rest) + 2 ^ rest - 1>>

\* Mutant of GetGroup: a Teredo address is grouped by what is written in it.
GetGroupTeredo(ip) ==
    IF ~IsRoutable(ip) THEN <<"unroutable">>
    ELSE IF IsIPv4(ip) \/ IsRFC6145(ip) \/ IsRFC6052(ip) THEN Group(ip, "ipv4", 12, 16)
    ELSE IF IsRFC3964(ip) THEN Group(ip, "ipv4", 2, 16)
    ELSE IF IsRFC4380(ip) THEN Group(ip, "ipv4", 12, 16)
    ELSE IF IsTor(ip) THEN Group(ip, "onion", 6, 4)
    ELSE IF StartsWith(ip, <<32, 1, 4, 112>>) THEN Group(ip, "ipv6", 0, 36)
    ELSE Group(ip, "ipv6", 0, 32)

\* CNetAddr::GetGroup.  A local address is not routable, so its own class is lost.
GetGroup(ip) ==
    IF ~IsRoutable(ip) THEN <<"unroutable">>
    ELSE IF IsIPv4(ip) \/ IsRFC6145(ip) \/ IsRFC6052(ip) THEN Group(ip, "ipv4", 12, 16)
    ELSE IF IsRFC3964(ip) THEN Group(ip, "ipv4", 2, 16)
    ELSE IF IsRFC4380(ip) THEN <<"ipv4", 255 - GetByte(ip, 3), 255 - GetByte(ip, 2)>>
    ELSE IF IsTor(ip) THEN Group(ip, "onion", 6, 4)
    ELSE IF StartsWith(ip, <<32, 1, 4, 112>>) THEN Group(ip, "ipv6", 0, 36)
    ELSE Group(ip, "ipv6", 0, 32)

-----------------------------------------------------------------------------
(* Reachability *)

Reach == [unreachable |-> 0, default |-> 1, teredo |-> 2, ipv6weak |-> 3, ipv4 |-> 4,
          ipv6strong |-> 5, private |-> 6]

\* None stands for no partner.
None == << >>
GetExtNetwork(ip) ==
    IF ip = None THEN "unknown" ELSE IF IsRFC4380(ip) THEN "teredo" ELSE GetNetwork(ip)

GetReachabilityFrom(ip, partner) ==
    LET ours == GetExtNetwork(ip)
        theirs == GetExtNetwork(partner)
        fTunnel == IsRFC3964(ip) \/ IsRFC6052(ip) \/ IsRFC6145(ip)
        toIPv6 == IF fTunnel THEN Reach.ipv6weak ELSE Reach.ipv6strong
    IN  IF ~IsRoutable(ip) THEN Reach.unreachable
        ELSE CASE ours = "ipv4" -> Reach.ipv4
               [] ours = "onion" /\ theirs \in {"onion", "unknown", "unroutable"} -> Reach.private
               [] ours = "teredo" /\ theirs \notin {"ipv4", "onion"} -> Reach.teredo
               [] ours = "ipv6" /\ theirs = "ipv6" -> toIPv6
               [] ours = "ipv6" /\ theirs \in {"teredo", "unknown", "unroutable"} ->
                      Reach.ipv6weak
               [] OTHER -> Reach.default

-----------------------------------------------------------------------------
(* Text: numbers from 0 on, and the signs *)

Colon == -1
Open == -2
Close == -3
Dot == -4
Onion == -5     \* ".onion" behind the ten bytes in base 32

Interleaved(parts, sign) ==
    FlattenSeq([i \in DOMAIN parts |-> IF i = 1 THEN <<parts[1]>> ELSE <<sign, parts[i]>>])
Words(ip) == [i \in 1..8 |-> ip[2 * i - 1] * 256 + ip[2 * i]]

ToStringIP(ip) ==
    IF IsTor(ip) THEN SubSeq(ip, 7, 16) \o <<Onion>>
    ELSE IF IsIPv4(ip) THEN Interleaved(SubSeq(ip, 13, 16), Dot)
    ELSE Interleaved(Words(ip), Colon)

\* Mutant of ToStringIPPort: an IPv6 address is not put in brackets.
ToStringIPPortBare(s) == ToStringIP(s.ip) \o <<Colon, s.port>>
ToStringIPPort(s) ==
    IF IsIPv4(s.ip) \/ IsTor(s.ip) THEN ToStringIP(s.ip) \o <<Colon, s.port>>
    ELSE <<Open>> \o ToStringIP(s.ip) \o <<Close, Colon, s.port>>

\* SplitHostPort: a colon separates a port when it follows brackets or is alone, and a
\* number that is a port follows.
SplitHostPort(in) ==
    LET colons == {i \in DOMAIN in : in[i] = Colon}
        colon == CHOOSE i \in colons : \A j \in colons : j <= i
        fBracketed == in[1] = Open /\ in[colon - 1] = Close
        splits == /\ colons # {}
                  /\ colon = 1 \/ fBracketed \/ Cardinality(colons) = 1
                  /\ Len(in) = colon + 1 /\ in[colon + 1] \in 1..65535
        host == IF splits THEN SubSeq(in, 1, colon - 1) ELSE in
        bare == IF host # << >> /\ Head(host) = Open /\ host[Len(host)] = Close
                THEN SubSeq(host, 2, Len(host) - 1) ELSE host
    IN  [host |-> bare, port |-> IF splits THEN in[colon + 1] ELSE PortDefault]

\* SetSpecial of an onion name, and otherwise what the system makes of a number.
SetSpecial(name) ==
    IF name # << >> /\ name[Len(name)] = Onion /\ Len(name) = 11
    THEN pchOnionCat \o SubSeq(name, 1, 10) ELSE None
Numeric(name) ==
    LET parts == SelectSeq(name, LAMBDA c : c >= 0) IN
    IF Len(parts) = 4 /\ name = Interleaved(parts, Dot) THEN pchIPv4 \o parts
    ELSE IF Len(parts) = 8 /\ name = Interleaved(parts, Colon)
    THEN [i \in 1..16 |-> IF i % 2 = 1 THEN parts[(i + 1) \div 2] \div 256
                          ELSE parts[i \div 2] % 256]
    ELSE None
LookupIntern(name) == IF SetSpecial(name) # None THEN SetSpecial(name) ELSE Numeric(name)

Failed == [ip |-> None, port |-> 0]
LookupNumeric(pszName) ==
    LET split == SplitHostPort(pszName)
        ip == LookupIntern(split.host)
    IN  IF pszName = << >> \/ ip = None THEN Failed ELSE [ip |-> ip, port |-> split.port]

\* The socket address of a service, and the service of a socket address
GetSockAddr(s) ==
    IF IsIPv4(s.ip) THEN [family |-> "inet", addr |-> SubSeq(s.ip, 13, 16), port |-> s.port]
    ELSE IF UseIPv6 /\ IsIPv6(s.ip) THEN [family |-> "inet6", addr |-> s.ip, port |-> s.port]
    ELSE [family |-> "none"]
SetSockAddr(a) ==
    CASE a.family = "inet" -> [ip |-> pchIPv4 \o a.addr, port |-> a.port]
      [] a.family = "inet6" /\ UseIPv6 -> [ip |-> a.addr, port |-> a.port]
      [] OTHER -> Failed

GetKey(s) == s.ip \o <<s.port \div 256, s.port % 256>>

-----------------------------------------------------------------------------

Init ==
    /\ service \in [ip : Addresses, port : Ports]
    /\ text = None /\ found = Failed

Write ==
    /\ text = None
    /\ text' \in {ToStringIPPort(service), ToStringIP(service.ip)}
    /\ UNCHANGED <<service, found>>
Lookup ==
    /\ text # None
    /\ found' = LookupNumeric(text)
    /\ UNCHANGED <<service, text>>

Next == Write \/ Lookup

Spec == Init /\ [][Next]_vars

-----------------------------------------------------------------------------
(* Properties *)

\* CService: a printed service is read back as itself, a printed address as itself with
\* the default port; port 0 cannot be read.
ReadBack ==
    found # Failed =>
        found = [ip |-> service.ip,
                 port |-> IF text = ToStringIP(service.ip) THEN PortDefault
                          ELSE service.port]
PortZeroRefused ==
    text = ToStringIPPort(service) =>
        (LookupNumeric(text) = Failed <=> service.port = 0)

\* GetSockAddr and SetSockAddr: what can be connected to comes back the same.
SocketsAgree ==
    GetSockAddr(service).family # "none" => SetSockAddr(GetSockAddr(service)) = service

\* GetKey, operator< and operator==: the bytes of the keys order services as the operators.
Before(x, y) == \E i \in DOMAIN x : x[i] < y[i] /\ \A j \in 1..(i - 1) : x[j] = y[j]
KeysAgree == \A ip \in Addresses : \A port \in Ports :
    LET other == [ip |-> ip, port |-> port] IN
    /\ GetKey(other) = GetKey(service) <=> other = service
    /\ Before(GetKey(other), GetKey(service)) <=>
         Before(ip, service.ip) \/ (ip = service.ip /\ port < service.port)

\* GetGroup, "no two connections will be attempted to addresses with the same group": an
\* IPv4 host has one group however it is reached (mapped, translated, 6to4 or Teredo).
Forms(v4) == {Zeros(8) \o <<255, 255, 0, 0>> \o v4,
              <<0, 100, 255, 155>> \o Zeros(8) \o v4,
              <<32, 2>> \o v4 \o Zeros(10),
              <<32, 1, 0, 0>> \o Zeros(8) \o [i \in 1..4 |-> 255 - v4[i]]}
GroupsOfHosts ==
    IsIPv4(service.ip) /\ IsRoutable(service.ip) =>
        \A ip \in Forms(SubSeq(service.ip, 13, 16)) : GetGroup(ip) = GetGroup(service.ip)

\* GetGroup and GetNetwork: routable addresses of a group differ in the network at most by
\* being tunnelled, and nothing unroutable shares a group with anything routable.
GroupsApart == \A ip \in Addresses :
    GetGroup(ip) = GetGroup(service.ip) =>
        /\ IsRoutable(ip) <=> IsRoutable(service.ip)
        /\ IsTor(ip) /\ IsRoutable(ip) => IsTor(service.ip)

\* GetReachabilityFrom: what is not routable is never offered, what is is always better,
\* and to a partner over IPv4 nothing beats IPv4.
ReachSound == \A partner \in Addresses \cup {None} :
    LET r == GetReachabilityFrom(service.ip, partner) IN
    /\ r = Reach.unreachable <=> ~IsRoutable(service.ip)
    /\ GetExtNetwork(partner) = "ipv4" =>
         r <= Reach.ipv4 /\ (r = Reach.ipv4 => IsIPv4(service.ip))

AddressesRight ==
    /\ ReadBack /\ PortZeroRefused /\ SocketsAgree /\ KeysAgree
    /\ GroupsOfHosts /\ GroupsApart /\ ReachSound
=============================================================================
