------------------------------- MODULE Socks --------------------------------
(* ConnectSocket and ConnectSocketByName of netbase.cpp: one call, while     *)
(* another thread sets proxies.  The settings are read under cs_proxyInfos   *)
(* one at a time, so each reading is a step; so is every wait for a socket.  *)
EXTENDS Integers, Sequences

CONSTANTS
    Networks,       \* networks with addresses, one of them "onion"
    Destinations,   \* [kind : "address", "number" or "name", net, long]
    RecvTimeout,    \* SOCKS5_RECV_TIMEOUT, in waits of a second
    ConnectTimeout, \* nTimeout, in the same unit
    AddressSizes    \* by the type of address in a reply: its bytes

VARIABLES
    proxyInfo,      \* networks that have a proxy
    nameProxy,      \* there is a name proxy
    fNameLookup,
    dest,           \* where the call is to connect
    at,             \* the step the call is at; "done" when it has returned
    copied,         \* the call's copy of nameProxy is valid
    lookup,         \* fAllowLookup of the resolution
    hSocket,        \* "none", "open", "closed", or "lost": open, and no one has it
    peer,           \* what the socket was opened to: the destination or a proxy
    want,           \* bytes that InterruptibleRecv still wants, and its waits left
    field,          \* what it reads: 1 greeting, 2 header, 3 size, 4 address, 5 port
    form,           \* the type of the address in the reply
    consumed, spent,        \* bytes read from the proxy, waits
    queried,        \* a name server was asked for the destination
    proxyFailed,    \* *outProxyConnectionFailed
    result,         \* what the call returned
    before          \* ghost: the proxies when the call began

settings == <<proxyInfo, nameProxy, fNameLookup>>
reading == <<want, field, form, consumed>>
vars == <<settings, dest, at, copied, lookup, hSocket, peer, reading, spent, queried,
          proxyFailed, result, before>>

Supported(net) == net # "onion"     \* GetSockAddr

Init ==
    /\ proxyInfo \in SUBSET Networks
    /\ nameProxy \in BOOLEAN /\ fNameLookup \in BOOLEAN
    /\ dest \in Destinations
    /\ at = IF dest.kind = "address" THEN "proxy?" ELSE "copy"
    /\ copied = FALSE /\ lookup = FALSE
    /\ hSocket = "none" /\ peer = "none"
    /\ want = [len |-> 0, waits |-> 0] /\ field = 0 /\ form = "none"
    /\ consumed = 0 /\ spent = 0
    /\ queried = FALSE /\ proxyFailed = FALSE
    /\ result = "none"
    /\ before = [nets |-> proxyInfo, name |-> nameProxy]

-----------------------------------------------------------------------------
(* Settings *)

\* SetProxy and SetNameProxy of a valid address; there is no call that takes one away.
SetProxy(net) ==
    /\ proxyInfo' = proxyInfo \cup {net}
    /\ UNCHANGED <<nameProxy, fNameLookup, dest, at, copied, lookup, hSocket, peer, reading,
                   spent, queried, proxyFailed, result, before>>
SetNameProxy ==
    /\ nameProxy' = TRUE
    /\ UNCHANGED <<proxyInfo, fNameLookup, dest, at, copied, lookup, hSocket, peer, reading,
                   spent, queried, proxyFailed, result, before>>

-----------------------------------------------------------------------------
(* ConnectSocketByName *)

Goto(step) == at = step[1] /\ at' = step[2]
Fail == at' = "done" /\ result' = "failed"

GetNameProxy ==
    /\ Goto(<<"copy", "lookup?">>)
    /\ copied' = nameProxy
    /\ UNCHANGED <<settings, dest, lookup, hSocket, peer, reading, spent, queried,
                   proxyFailed, result, before>>

\* Mutant of AllowLookup: the name proxy is not considered.
AllowLookupAlways == fNameLookup
\* fNameLookup && !HaveNameProxy()
AllowLookup == fNameLookup /\ ~nameProxy
HaveNameProxy ==
    /\ Goto(<<"lookup?", "resolve">>)
    /\ lookup' = AllowLookup
    /\ UNCHANGED <<settings, dest, copied, hSocket, peer, reading, spent, queried,
                   proxyFailed, result, before>>

\* A number or an onion name needs nobody; a name is asked for, or stays unresolved.
Resolve ==
    /\ at = "resolve"
    /\ queried' = (queried \/ (dest.kind = "name" /\ lookup))
    /\ \/ (dest.kind = "number" \/ lookup) /\ at' = "proxy?"
       \/ dest.kind = "name" /\ at' = "name?"
    /\ UNCHANGED <<settings, dest, copied, lookup, hSocket, peer, reading, spent,
                   proxyFailed, result, before>>

NameProxyStill ==
    /\ at = "name?"
    /\ IF nameProxy THEN at' = "name" /\ UNCHANGED result ELSE Fail
    /\ UNCHANGED <<settings, dest, copied, lookup, hSocket, peer, reading, spent, queried,
                   proxyFailed, before>>

\* GetProxy of ConnectSocket
GetProxy ==
    /\ at = "proxy?"
    /\ at' = IF dest.net \in proxyInfo THEN "viaproxy" ELSE "direct"
    /\ UNCHANGED <<settings, dest, copied, lookup, hSocket, peer, reading, spent, queried,
                   proxyFailed, result, before>>

-----------------------------------------------------------------------------
(* ConnectSocketDirectly, to the destination, its proxy or the name proxy *)

Target == CASE at = "direct" -> "dest" [] at = "viaproxy" -> "proxy" [] OTHER -> "nameproxy"

\* No socket: the network is not supported, or the system gives none.
NoSocket ==
    /\ at \in {"direct", "viaproxy", "name"}
    /\ Fail
    /\ proxyFailed' = (proxyFailed \/ at = "name" \/ (at = "viaproxy" /\ dest.kind = "address"))
    /\ UNCHANGED <<settings, dest, copied, lookup, hSocket, peer, reading, spent, queried,
                   before>>
\* SetSocketNonBlocking fails: the socket is left as it is.
NotNonBlocking ==
    /\ at \in {"direct", "viaproxy", "name"}
    /\ at = "direct" => Supported(dest.net)
    /\ hSocket' = "lost" /\ Fail
    /\ proxyFailed' = (proxyFailed \/ at = "name" \/ (at = "viaproxy" /\ dest.kind = "address"))
    /\ UNCHANGED <<settings, dest, copied, lookup, peer, reading, spent, queried, before>>
Connect ==
    /\ at \in {"direct", "viaproxy", "name"}
    /\ at = "direct" => Supported(dest.net)
    /\ hSocket' = "open" /\ peer' = Target
    /\ at' = IF at = "direct" THEN "waiting" ELSE "waitingproxy"
    /\ UNCHANGED <<settings, dest, copied, lookup, reading, spent, queried, proxyFailed,
                   result, before>>

\* The connection stands at once or within the time, or fails and the socket is closed.
\* An invalid name proxy, copied before there was one, is never reached.
Reachable == peer = "nameproxy" => copied
Connected ==
    /\ at \in {"waiting", "waitingproxy"} /\ Reachable
    /\ \E t \in 0..ConnectTimeout : spent' = spent + t
    /\ IF at = "waiting" THEN at' = "done" /\ result' = "connected"
       ELSE at' = "greet" /\ UNCHANGED result
    /\ UNCHANGED <<settings, dest, copied, lookup, hSocket, peer, reading, queried,
                   proxyFailed, before>>
NotConnected ==
    /\ at \in {"waiting", "waitingproxy"}
    /\ \E t \in 0..ConnectTimeout : spent' = spent + t
    /\ hSocket' = "closed" /\ Fail
    /\ proxyFailed' = (proxyFailed \/ peer = "nameproxy"
                                   \/ (peer = "proxy" /\ dest.kind = "address"))
    /\ UNCHANGED <<settings, dest, copied, lookup, peer, reading, queried, before>>

-----------------------------------------------------------------------------
(* Socks5 *)

CloseAndFail == hSocket' = "closed" /\ Fail

\* InterruptibleRecv of some bytes
Recv(bytes) == want' = [len |-> bytes, waits |-> RecvTimeout]

\* The greeting is sent, or the name is too long, or sending fails.
Greet ==
    /\ at = "greet"
    /\ \/ /\ ~dest.long
          /\ at' = "recv" /\ field' = 1 /\ Recv(2) /\ UNCHANGED <<hSocket, result>>
       \/ CloseAndFail /\ UNCHANGED <<want, field>>
    /\ UNCHANGED <<settings, dest, copied, lookup, peer, form, consumed, spent, queried,
                   proxyFailed, before>>

\* Some bytes come; the time goes on when none do.
Bytes ==
    /\ at = "recv" /\ want.len > 0 /\ want.waits > 0
    /\ \E n \in {1, want.len} :
         want' = [want EXCEPT !.len = @ - n] /\ consumed' = consumed + n
    /\ UNCHANGED <<settings, dest, at, copied, lookup, hSocket, peer, field, form, spent,
                   queried, proxyFailed, result, before>>
Wait ==
    /\ at = "recv" /\ want.len > 0 /\ want.waits > 0
    /\ want' = [want EXCEPT !.waits = @ - 1]
    /\ spent' = spent + 1
    /\ UNCHANGED <<settings, dest, at, copied, lookup, hSocket, peer, field, form, consumed,
                   queried, proxyFailed, result, before>>
\* The proxy hangs up, the socket fails or the time is over.
Broken ==
    /\ at = "recv" /\ want.len > 0
    /\ CloseAndFail
    /\ UNCHANGED <<settings, dest, copied, lookup, peer, reading, spent, queried,
                   proxyFailed, before>>

\* Mutant of Following: the port that ends the reply is not read.
FollowingNoPort(f, t) ==
    CASE f = 1 -> <<2, 4>>
      [] f = 2 /\ t = "domain" -> <<3, 1>>
      [] f \in {2, 3} -> <<4, AddressSizes[t]>>
      [] OTHER -> << >>
\* What is read after a field, and its bytes: a domain name has its size before it.
Following(f, t) ==
    CASE f = 1 -> <<2, 4>>
      [] f = 2 /\ t = "domain" -> <<3, 1>>
      [] f \in {2, 3} -> <<4, AddressSizes[t]>>
      [] f = 4 -> <<5, 2>>
      [] OTHER -> << >>

\* A field is complete: the next one is read, or the connection stands.
Complete ==
    /\ at = "recv" /\ want.len = 0
    /\ \E t \in IF field = 2 THEN DOMAIN AddressSizes ELSE {form} :
        /\ form' = t
        /\ IF Following(field, t) = << >>
           THEN at' = "done" /\ result' = "connected" /\ UNCHANGED <<want, field>>
           ELSE /\ field' = Following(field, t)[1] /\ Recv(Following(field, t)[2])
                /\ UNCHANGED <<at, result>>
    /\ UNCHANGED <<settings, dest, copied, lookup, hSocket, peer, consumed, spent, queried,
                   proxyFailed, before>>
\* What the first two fields say is refused, or the request cannot be sent.
Refused ==
    /\ at = "recv" /\ want.len = 0 /\ field \in {1, 2}
    /\ CloseAndFail
    /\ UNCHANGED <<settings, dest, copied, lookup, peer, reading, spent, queried,
                   proxyFailed, before>>

\* The size of a domain is a char: one of 128 or more is negative, and InterruptibleRecv
\* takes it for one that no reply reaches.  It reads until the proxy stops or the time
\* is over; what it writes beyond its 256 bytes is not modelled.
Overlong ==
    /\ at = "recv" /\ want.len = 0 /\ field = 3
    /\ \E t \in 0..RecvTimeout : spent' = spent + t
    /\ CloseAndFail
    /\ UNCHANGED <<settings, dest, copied, lookup, peer, reading, queried, proxyFailed,
                   before>>

Next ==
    \/ \E net \in Networks : SetProxy(net)
    \/ SetNameProxy
    \/ GetNameProxy \/ HaveNameProxy \/ Resolve \/ NameProxyStill \/ GetProxy
    \/ NoSocket \/ NotNonBlocking \/ Connect \/ Connected \/ NotConnected
    \/ Greet \/ Bytes \/ Wait \/ Broken \/ Complete \/ Refused \/ Overlong

Spec == Init /\ [][Next]_vars

-----------------------------------------------------------------------------
(* Properties *)

\* ConnectSocket: a socket that was opened is returned, or it is closed, on every path
\* but one: ConnectSocketDirectly leaves it open and forgets it if it cannot be made
\* non-blocking.  Nothing has been sent through such a socket.
SocketsAccounted ==
    at = "done" => /\ hSocket = "open" <=> result = "connected"
                   /\ hSocket = "lost" => peer = "none"
                   /\ hSocket = "none" => peer = "none"

\* With a proxy set for its network before the call, a destination is never connected to
\* directly; with a name proxy, its name is asked of nobody, whatever is set meanwhile.
ProxiesRespected ==
    /\ peer = "dest" => dest.net \notin before.nets
    /\ queried => ~before.name
    /\ dest.kind = "name" /\ peer # "none" /\ ~queried => peer = "nameproxy"

\* Socks5: when the connection stands the reply has been read to its end, and what
\* comes next is the destination's.
ReplyConsumed ==
    result = "connected" /\ peer # "dest" =>
        consumed = 2 + 4 + AddressSizes[form] + 2 + IF form = "domain" THEN 1 ELSE 0

\* InterruptibleRecv and select: however slowly a proxy answers, a call ends in time.
TimeBounded == spent <= ConnectTimeout + 5 * RecvTimeout

ConnectionsSafe == SocketsAccounted /\ ProxiesRespected /\ ReplyConsumed /\ TimeBounded
=============================================================================
