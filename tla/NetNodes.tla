------------------------------ MODULE NetNodes ------------------------------
(***************************************************************************)
(* The life of a CNode (net.cpp): it is made by accept or by a thread that *)
(* opens connections, used by the socket handler and the message handler   *)
(* through copies of vNodes, taken out of vNodes when disconnected, held   *)
(* in vNodesDisconnected until its reference count is zero, and deleted.   *)
(* With it go the slots of semOutbound that outbound connections hold.     *)
(*                                                                         *)
(* A step is what one thread does under cs_vNodes, or between two releases *)
(* of it.  nRefCount is a plain int: AddRef outside cs_vNodes is a read    *)
(* and a write.  CSemaphoreGrant (sync.h) is modelled by its use: MoveTo   *)
(* releases what the target held, and so does deleting a node.             *)
(*                                                                         *)
(* Two openers can make a thread use a node that is deleted: ConnectNode   *)
(* adds its reference to a node it found after FindNode released cs_vNodes. *)
(* What such a use does is undefined; here the object keeps its fields, the *)
(* outcome in which the build notices nothing, and the ghost refound names *)
(* the nodes that this can happen to.  And the mark of a one-shot is       *)
(* written after fNetworkNode, when other threads may already disconnect   *)
(* and delete the node (SetOneShot).                                       *)
(***************************************************************************)
EXTENDS Integers, FiniteSets

CONSTANTS
    Openers,        \* threads that call OpenNetworkConnection
    NoThread,       \* of pointers nobody holds
    Calls,          \* the kinds of call each of them makes
    Addrs,          \* addresses to connect to
    InboundAddrs,   \* addresses peers connect from
    Nodes,          \* CNode objects; a bound of the model
    MaxOutbound,    \* the initial value of semOutbound
    MaxInbound      \* nMaxConnections - MAX_OUTBOUND_CONNECTIONS

\* How OpenNetworkConnection is called: for an address, for a name (addnode through
\* a name proxy), for a one-shot name, or for a name of -connect, which alone
\* passes no grant.
CallKinds == {"address", "name", "oneshot", "connect"}

ASSUME NetAssumption ==
    /\ Calls \in [Openers -> SUBSET CallKinds]
    /\ NoThread \notin Nodes
    /\ IsFiniteSet(Nodes) /\ IsFiniteSet(Openers)
    /\ {MaxOutbound, MaxInbound} \subseteq Nat

VARIABLES
    node,      \* every CNode object
    sem,       \* semOutbound
    copy,      \* vNodesCopy of the socket handler and of the message handler
    phase,     \* where the socket handler's loop is
    opener,    \* the locals of each opener
    refound,   \* the nodes ConnectNode has returned although it did not make them
    direct     \* the nodes made by a call that had no grant

vars == <<node, sem, copy, phase, opener, refound, direct>>

Handlers == {"socket", "message"}

CNode == [place : {"none", "vNodes", "disconnected", "deleted"},
          addr : Addrs \cup InboundAddrs, fInbound : BOOLEAN,
          fNetworkNode : BOOLEAN, fDisconnect : BOOLEAN,
          nRefCount : Int, grant : BOOLEAN]

Opener == [at : {"idle", "granted", "lookup", "connecting", "found", "addref",
                 "connected", "moved", "network"},
           call : CallKinds,
           grant : BOOLEAN,                      \* has the local grant a slot?
           addr : Addrs,
           pnode : Nodes \cup {NoThread},
           seen : Int]                           \* nRefCount as AddRef read it

TypeOK ==
    /\ node \in [Nodes -> CNode]
    /\ sem \in 0..MaxOutbound
    /\ copy \in [Handlers -> SUBSET Nodes]
    /\ phase \in {"disconnect", "delete", "accept", "service", "release"}
    /\ opener \in [Openers -> Opener]
    /\ refound \subseteq Nodes
    /\ direct \subseteq Nodes

At(where) == {n \in Nodes : node[n].place = where}
vNodes == At("vNodes")
vNodesDisconnected == At("disconnected")

Init ==
    /\ \E a \in Addrs \cup InboundAddrs, b \in Addrs :
         /\ node = [n \in Nodes |-> [place |-> "none", addr |-> a, fInbound |-> FALSE,
                                     fNetworkNode |-> FALSE, fDisconnect |-> FALSE,
                                     nRefCount |-> 0, grant |-> FALSE]]
         /\ opener = [t \in Openers |-> [at |-> "idle", call |-> "address",
                                         grant |-> FALSE, addr |-> b,
                                         pnode |-> NoThread, seen |-> 0]]
    /\ sem = MaxOutbound
    /\ copy = [h \in Handlers |-> {}]
    /\ phase = "disconnect"
    /\ refound = {}
    /\ direct = {}

\* new CNode, AddRef, vNodes.push_back
Created(addr, inbound) ==
    [place |-> "vNodes", addr |-> addr, fInbound |-> inbound,
     fNetworkNode |-> FALSE, fDisconnect |-> FALSE, nRefCount |-> 1,
     grant |-> FALSE]

Slots(S) == Cardinality({n \in S : node[n].grant})

-----------------------------------------------------------------------------
(* ThreadSocketHandler *)

Unused(n) == node[n].fDisconnect \/ node[n].nRefCount <= 0

\* Out of vNodes, without its slot and its own reference.
Removed(c) ==
    [c EXCEPT !.place = "disconnected", !.grant = FALSE, !.fDisconnect = TRUE,
              !.nRefCount = IF c.fNetworkNode \/ c.fInbound THEN @ - 1 ELSE @]

DisconnectNodes ==
    LET gone == {n \in vNodes : Unused(n)}
        after == [n \in Nodes |-> IF n \in gone THEN Removed(node[n]) ELSE node[n]]
    IN  /\ phase = "disconnect"
        /\ node' = after
        /\ sem' = sem + Cardinality({n \in gone : node[n].grant /\ ~after[n].grant})
        /\ phase' = "delete"
        /\ UNCHANGED <<copy, opener, refound, direct>>

\* Mutant of Deletable: the reference count is not looked at.
DeletableAtOnce == vNodesDisconnected
\* wait until threads are done using it
Deletable == {n \in vNodesDisconnected : node[n].nRefCount <= 0}

\* Only a thread with a reference, or one that holds cs_vNodes and found the node
\* in vNodes, locks a mutex of the node, so each TRY_LOCK succeeds.
DeleteNodes ==
    /\ phase = "delete"
    /\ node' = [n \in Nodes |->
                  IF n \in Deletable
                  THEN [node[n] EXCEPT !.place = "deleted", !.grant = FALSE]
                  ELSE node[n]]
    /\ sem' = sem + Slots(Deletable)
    /\ phase' = "accept"
    /\ UNCHANGED <<copy, opener, refound, direct>>

\* Mutant of RoomForInbound: one connection too many.
RoomForInboundOffByOne ==
    Cardinality({n \in vNodes : node[n].fInbound}) <= MaxInbound
RoomForInbound ==
    Cardinality({n \in vNodes : node[n].fInbound}) < MaxInbound

Accept ==
    /\ phase = "accept"
    /\ \E n \in At("none"), a \in InboundAddrs :
         /\ RoomForInbound
         /\ node' = [node EXCEPT ![n] = Created(a, TRUE)]
    /\ UNCHANGED <<sem, copy, phase, opener, refound, direct>>

\* Add a reference to every node of S, or with d = -1 take one away.
AddRefs(S, d) ==
    [n \in Nodes |-> IF n \in S THEN [node[n] EXCEPT !.nRefCount = @ + d] ELSE node[n]]

\* vNodesCopy = vNodes; AddRef for each
TakeCopy(h) ==
    /\ copy' = [copy EXCEPT ![h] = vNodes]
    /\ node' = AddRefs(vNodes, 1)
    /\ UNCHANGED <<sem, opener, refound, direct>>

\* Mutant of CopyReleased: nodes that were disconnected meanwhile are skipped.
CopyReleasedConnected(h) == AddRefs(copy[h] \cap vNodes, -1)
CopyReleased(h) == AddRefs(copy[h], -1)

DropCopy(h) ==
    /\ node' = CopyReleased(h)
    /\ copy' = [copy EXCEPT ![h] = {}]
    /\ UNCHANGED <<sem, opener, refound, direct>>

ServiceBegin == phase = "accept" /\ TakeCopy("socket") /\ phase' = "service"

\* An end of file, an error, a bad message or a timeout on one of the sockets, or
\* a failure of ProcessMessages or SendMessages in the message handler.
Disconnect(h, n) ==
    /\ n \in copy[h]
    /\ ~node[n].fDisconnect
    /\ node' = [node EXCEPT ![n].fDisconnect = TRUE]
    /\ UNCHANGED <<sem, copy, phase, opener, refound, direct>>

ServiceEnd == phase = "service" /\ DropCopy("socket") /\ phase' = "disconnect"

(* ThreadMessageHandler *)

MessageBegin ==
    /\ copy["message"] = {} /\ vNodes # {}
    /\ TakeCopy("message") /\ UNCHANGED phase
MessageEnd == copy["message"] # {} /\ DropCopy("message") /\ UNCHANGED phase

-----------------------------------------------------------------------------
(* OpenNetworkConnection and ConnectNode *)

Step(t, from, to) == opener[t].at = from /\ opener' = [opener EXCEPT ![t].at = to]

\* The end of a call: the caller's grant releases the slot it still has.
Finish(t) ==
    /\ opener' = [opener EXCEPT ![t].at = "idle", ![t].call = "address",
                                ![t].grant = FALSE,
                                ![t].pnode = NoThread, ![t].seen = 0]
    /\ sem' = IF opener[t].grant THEN sem + 1 ELSE sem

\* CSemaphoreGrant grant(*semOutbound)
TakeGrant(t, call, a) ==
    /\ opener[t].at = "idle" /\ call # "connect"
    /\ sem > 0
    /\ sem' = sem - 1
    /\ opener' = [opener EXCEPT ![t].at = "granted", ![t].call = call,
                                ![t].grant = TRUE, ![t].addr = a]
    /\ UNCHANGED <<node, copy, phase, refound, direct>>

\* -connect: OpenNetworkConnection(addr, NULL, strAddr.c_str())
BeginDirect(t, call, a) ==
    /\ opener[t].at = "idle" /\ call = "connect"
    /\ opener' = [opener EXCEPT ![t].at = "granted", ![t].call = call, ![t].addr = a]
    /\ UNCHANGED <<node, sem, copy, phase, refound, direct>>

Named(t) == opener[t].call # "address"              \* pszDest
Found(a) == {n \in vNodes : node[n].addr = a}

\* if (FindNode(...)) return false: a name is compared with the names the nodes
\* were opened by, which are not kept here, and an address is looked up once more
\* by ConnectNode.
CheckConnected(t) ==
    /\ opener[t].at = "granted"
    /\ \/ /\ IF Named(t) THEN vNodes # {} ELSE Found(opener[t].addr) # {}
          /\ Finish(t)
       \/ /\ IF Named(t) THEN Step(t, "granted", "connecting")
             ELSE Found(opener[t].addr) = {} /\ Step(t, "granted", "lookup")
          /\ UNCHANGED sem
    /\ UNCHANGED <<node, copy, phase, refound, direct>>

\* ConnectNode: pnode = FindNode((CService)addrConnect)
Lookup(t) ==
    /\ opener[t].at = "lookup"
    /\ \/ /\ Found(opener[t].addr) = {}
          /\ Step(t, "lookup", "connecting")
          /\ UNCHANGED refound
       \/ \E n \in Found(opener[t].addr) :
            /\ opener' = [opener EXCEPT ![t].at = "found", ![t].pnode = n]
            /\ refound' = refound \cup {n}
    /\ UNCHANGED <<node, sem, copy, phase, direct>>

Connect(t) ==
    /\ opener[t].at = "connecting"
    /\ \/ /\ Finish(t)                                        \* ConnectSocket failed
          /\ UNCHANGED <<node, direct>>
       \/ \E n \in At("none") :
            /\ node' = [node EXCEPT ![n] = Created(opener[t].addr, FALSE)]
            /\ opener' = [opener EXCEPT ![t].at = "connected", ![t].pnode = n]
            /\ direct' = IF opener[t].grant THEN direct ELSE direct \cup {n}
            /\ UNCHANGED sem
    /\ UNCHANGED <<copy, phase, refound>>

\* pnode->AddRef() without cs_vNodes
AddRefRead(t) ==
    /\ opener[t].at = "found"
    /\ opener' = [opener EXCEPT ![t].at = "addref",
                                ![t].seen = node[opener[t].pnode].nRefCount]
    /\ UNCHANGED <<node, sem, copy, phase, refound, direct>>
AddRefWrite(t) ==
    /\ Step(t, "addref", "connected")
    /\ node' = [node EXCEPT ![opener[t].pnode].nRefCount = opener[t].seen + 1]
    /\ UNCHANGED <<sem, copy, phase, refound, direct>>

Moved(t) == [opener EXCEPT ![t].at = "moved", ![t].grant = FALSE]

\* if (grantOutbound) grantOutbound->MoveTo(pnode->grantOutbound)
MoveTo(t) ==
    /\ opener[t].at = "connected"
    /\ IF opener[t].grant
       THEN /\ node' = [node EXCEPT ![opener[t].pnode].grant = TRUE]
            /\ sem' = IF node[opener[t].pnode].grant THEN sem + 1 ELSE sem
       ELSE UNCHANGED <<node, sem>>
    /\ opener' = Moved(t)
    /\ UNCHANGED <<copy, phase, refound, direct>>

\* pnode->fNetworkNode = true; if (fOneShot) ...
SetNetworkNode(t) ==
    /\ opener[t].at = "moved"
    /\ node' = [node EXCEPT ![opener[t].pnode].fNetworkNode = TRUE]
    /\ IF opener[t].call = "oneshot" THEN Step(t, "moved", "network") /\ UNCHANGED sem
       ELSE Finish(t)
    /\ UNCHANGED <<copy, phase, refound, direct>>

\* pnode->fOneShot = true; return true.  The mark only makes the message handler
\* disconnect the node, which it may do at any time.
SetOneShot(t) ==
    /\ opener[t].at = "network"
    /\ Finish(t)
    /\ UNCHANGED <<node, copy, phase, refound, direct>>

SocketHandler == DisconnectNodes \/ DeleteNodes \/ ServiceBegin \/ ServiceEnd

OpenerStep(t) ==
    \/ CheckConnected(t)
    \/ Lookup(t)
    \/ Connect(t)
    \/ AddRefRead(t)
    \/ AddRefWrite(t)
    \/ MoveTo(t)
    \/ SetNetworkNode(t)
    \/ SetOneShot(t)

Next ==
    \/ SocketHandler
    \/ Accept
    \/ MessageBegin
    \/ MessageEnd
    \/ \E h \in Handlers, n \in Nodes : Disconnect(h, n)
    \/ \E t \in Openers : OpenerStep(t)
    \/ \E t \in Openers, a \in Addrs : \E call \in Calls[t] :
         TakeGrant(t, call, a) \/ BeginDirect(t, call, a)

Spec == Init /\ [][Next]_vars

\* Both handlers run for ever and neither blocks on a peer.
Fairness ==
    /\ WF_vars(SocketHandler)
    /\ WF_vars(MessageEnd)
FairSpec == Spec /\ Fairness

-----------------------------------------------------------------------------
(* Properties *)

\* The threads that hold a pointer to n and go on to use it.
Users(n) == {h \in Handlers : n \in copy[h]}
              \cup {t \in Openers : opener[t].pnode = n}

\* ThreadSocketHandler, "wait until threads are done using it": no thread holds a
\* pointer to a node that is deleted, unless ConnectNode found that node already
\* connected (and so added its reference outside cs_vNodes), or the thread is about
\* to mark a one-shot (pnode->fOneShot = true comes after fNetworkNode, and the
\* node may be gone by then).
MarksOneShot == {t \in Openers : opener[t].at = "network"}
NotDeletedInUseUnlessRefound ==
    \A n \in At("deleted") \ refound : Users(n) \subseteq MarksOneShot

\* GetRefCount, assert(nRefCount >= 0): unless ConnectNode found the node already
\* connected, its count is the copies that hold it, and one for the connection
\* itself until that is given up.
Uses(n) == Cardinality({h \in Handlers : n \in copy[h]})
RefCountAccurate ==
    \A n \in Nodes \ refound :
        /\ node[n].place = "vNodes" => node[n].nRefCount = Uses(n) + 1
        /\ node[n].place = "disconnected" =>
              node[n].nRefCount \in {Uses(n)} \cup
                  (IF node[n].fInbound THEN {} ELSE {Uses(n) + 1})

\* ThreadSocketHandler, "nInbound >= nMaxConnections - MAX_OUTBOUND_CONNECTIONS",
\* and semOutbound: neither inbound connections nor those that were opened with a
\* grant exceed their share, and no slot is lost or made up.  The connections of
\* -connect, opened without a grant, are not limited.
WithinLimits ==
    /\ TypeOK
    /\ Cardinality({n \in vNodes : node[n].fInbound}) <= MaxInbound
    /\ Cardinality({n \in vNodes \ direct : node[n].fNetworkNode}) <= MaxOutbound
    /\ sem + Slots(Nodes) + Cardinality({t \in Openers : opener[t].grant})
          = MaxOutbound

\* ThreadSocketHandler, "release outbound grant (if any)": once the thread that
\* opened it is done with it, a disconnected node holds no slot.
SlotReturned ==
    \A n \in vNodesDisconnected : Users(n) = {} => ~node[n].grant

\* ThreadSocketHandler: a node that came from accept and is to be disconnected is
\* deleted in the end, unless ConnectNode found it.
InboundDeleted ==
    \A n \in Nodes : (node[n].fInbound /\ node[n].fDisconnect)
                        ~> (node[n].place = "deleted" \/ n \in refound)
=============================================================================
