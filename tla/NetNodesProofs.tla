--------------------------- MODULE NetNodesProofs ---------------------------
(***************************************************************************)
(* What holds of the nodes for every number of opening threads, addresses, *)
(* CNode objects and slots: the reference counts, the limits, and that no  *)
(* thread uses a deleted node that ConnectNode did not find already        *)
(* connected.                                                              *)
(***************************************************************************)
EXTENDS NetNodes, FiniteSetTheorems, TLAPS

-----------------------------------------------------------------------------
(* The inductive invariant *)

NetType ==
    /\ node \in [Nodes -> CNode]
    /\ sem \in Nat
    /\ copy \in [Handlers -> SUBSET Nodes]
    /\ phase \in {"disconnect", "delete", "accept", "service", "release"}
    /\ opener \in [Openers -> Opener]
    /\ refound \subseteq Nodes
    /\ direct \subseteq Nodes

\* No pointer is to a node that was not made, and the socket handler drops its copy.
PointersRight ==
    /\ phase # "service" => copy["socket"] = {}
    /\ \A h \in Handlers : \A n \in copy[h] : node[n].place # "none"
    /\ \A n \in refound : node[n].place # "none"
    /\ \A t \in Openers :
         opener[t].pnode # NoThread => node[opener[t].pnode].place # "none"

\* An opener that was given a grant holds a slot until it moves it to its node.  The
\* node is its own, still there and not yet a network node, or one that ConnectNode
\* found.
Holding == {"granted", "lookup", "connecting", "found", "addref", "connected"}
Pointing == {"found", "addref", "connected", "moved", "network"}
GrantRight(t) ==
    /\ opener[t].grant <=> (opener[t].at \in Holding /\ opener[t].call # "connect")
    /\ opener[t].at \in {"lookup", "found", "addref"} => opener[t].call # "connect"
    /\ opener[t].at \in {"connected", "moved"} /\ opener[t].call = "connect"
          => opener[t].pnode \in direct
PnodeRight(t) ==
    /\ opener[t].pnode # NoThread <=> opener[t].at \in Pointing
    /\ opener[t].at \in {"found", "addref"} => opener[t].pnode \in refound
    /\ opener[t].pnode \in Nodes \ refound /\ opener[t].at # "network" =>
         LET c == node[opener[t].pnode]
         IN  ~c.fInbound /\ ~c.fNetworkNode /\ c.place # "deleted"
OneOpener ==
    \A t, u \in Openers :
        t # u /\ opener[t].pnode = opener[u].pnode /\ opener[t].pnode # NoThread
           => opener[t].pnode \in refound
OpenersRight == (\A t \in Openers : GrantRight(t) /\ PnodeRight(t)) /\ OneOpener

InCopy(h, n) == IF n \in copy[h] THEN 1 ELSE 0
Copies(n) == InCopy("socket", n) + InCopy("message", n)

\* The reference that ConnectNode's caller relies on is there until it is done.
RefRight(n) ==
    /\ node[n].place = "vNodes" => node[n].nRefCount = Copies(n) + 1
    /\ node[n].place = "disconnected" =>
         /\ node[n].nRefCount \in {Copies(n), Copies(n) + 1}
         /\ node[n].fInbound => node[n].nRefCount = Copies(n)
         /\ (\E t \in Openers : opener[t].pnode = n /\ opener[t].at # "network")
               => node[n].nRefCount = Copies(n) + 1
    /\ node[n].place = "deleted" => \A h \in Handlers : n \notin copy[h]
RefsRight == \A n \in Nodes \ refound : RefRight(n)

NodesWithSlot == {n \in Nodes : node[n].grant}
OpenersWithSlot == {t \in Openers : opener[t].grant}
Inbound == {n \in vNodes : node[n].fInbound}

\* A network node in vNodes that was opened with a grant has a slot, and no slot is lost or made up.
NoSlotLost == sem + Cardinality(NodesWithSlot) + Cardinality(OpenersWithSlot) = MaxOutbound
SlotsRight ==
    /\ NoSlotLost
    /\ \A n \in Nodes : node[n].place = "none" => ~node[n].grant
    /\ \A n \in vNodes \ direct : node[n].fNetworkNode => node[n].grant
    /\ \A t \in Openers : opener[t].at = "moved" /\ opener[t].pnode \in vNodes \ direct
                            => node[opener[t].pnode].grant

InboundRight == Cardinality(Inbound) <= MaxInbound

NetInv == NetType /\ PointersRight /\ OpenersRight /\ RefsRight /\ SlotsRight /\ InboundRight

-----------------------------------------------------------------------------
(* Types *)

\* A node taken out of vNodes is one still.
LEMMA RemovedType ==
    ASSUME NEW c \in CNode
    PROVE  Removed(c) \in CNode
<1> DEFINE r == IF c.fNetworkNode \/ c.fInbound THEN c.nRefCount - 1 ELSE c.nRefCount
<1>1. r \in Int
  BY DEF CNode
<1>2. Removed(c) = [c EXCEPT !.place = "disconnected", !.grant = FALSE, !.fDisconnect = TRUE,
                             !.nRefCount = r]
  BY DEF Removed
<1> HIDE DEF r
<1> QED
  BY <1>1, <1>2 DEF CNode

\* What else DisconnectNodes does to it.
RemovedIs(c, d) ==
    /\ d.place = "disconnected" /\ d.grant = FALSE
    /\ d.fInbound = c.fInbound /\ d.fNetworkNode = c.fNetworkNode
    /\ d.nRefCount = IF c.fNetworkNode \/ c.fInbound THEN c.nRefCount - 1 ELSE c.nRefCount
LEMMA RemovedDoes ==
    ASSUME NEW c \in CNode, NEW d, d = Removed(c)
    PROVE  RemovedIs(c, d)
BY DEF RemovedIs, Removed, CNode

\* So is one with another reference count,
LEMMA CountedType ==
    ASSUME NEW c \in CNode, NEW r \in Int
    PROVE  [c EXCEPT !.nRefCount = r] \in CNode
BY DEF CNode

\* or with other marks,
LEMMA MarkedType ==
    ASSUME NEW c \in CNode
    PROVE  /\ [c EXCEPT !.place = "deleted", !.grant = FALSE] \in CNode
           /\ [c EXCEPT !.fDisconnect = TRUE] \in CNode
           /\ [c EXCEPT !.grant = TRUE] \in CNode
           /\ [c EXCEPT !.fNetworkNode = TRUE] \in CNode
<1>1. [c EXCEPT !.place = "deleted", !.grant = FALSE] \in CNode
  BY DEF CNode
<1>2. [c EXCEPT !.fDisconnect = TRUE] \in CNode
  BY DEF CNode
<1>3. [c EXCEPT !.grant = TRUE] \in CNode
  BY DEF CNode
<1>4. [c EXCEPT !.fNetworkNode = TRUE] \in CNode
  BY DEF CNode
<1> QED
  BY <1>1, <1>2, <1>3, <1>4

\* and so are all when one of them is replaced,
LEMMA NodeType ==
    ASSUME NetType, NEW n, NEW c \in CNode
    PROVE  [node EXCEPT ![n] = c] \in [Nodes -> CNode]
BY DEF NetType

\* or when some counts change.
LEMMA AddRefsType ==
    ASSUME NetType, NEW S, NEW d \in Int
    PROVE  AddRefs(S, d) \in [Nodes -> CNode]
<1> SUFFICES ASSUME NEW n \in Nodes
             PROVE  (IF n \in S THEN [node[n] EXCEPT !.nRefCount = @ + d] ELSE node[n]) \in CNode
  BY DEF AddRefs
<1> DEFINE r == node[n].nRefCount + d
<1>1. node[n] \in CNode
  BY DEF NetType
<1>2. r \in Int
  BY <1>1 DEF CNode
<1> HIDE DEF r
<1>3. [node[n] EXCEPT !.nRefCount = r] \in CNode
  BY <1>1, <1>2, CountedType
<1> QED
  BY <1>1, <1>3 DEF r

\* A thread with another state in the place of its own keeps the types of all.
LEMMA OpenerType ==
    ASSUME NetType, NEW t \in Openers, NEW o \in Opener
    PROVE  [opener EXCEPT ![t] = o] \in [Openers -> Opener]
BY DEF NetType

\* A thread with a pointer has one to a node.
LEMMA PointerType ==
    ASSUME NetType, OpenersRight, NEW t \in Openers,
           opener[t].at \in Pointing
    PROVE  opener[t].pnode \in Nodes
<1>1. opener[t] \in Opener
  BY DEF NetType
<1>2. opener[t].pnode \in Nodes \cup {NoThread}
  BY <1>1 DEF Opener
<1>3. opener[t].pnode # NoThread
  BY DEF OpenersRight, GrantRight, PnodeRight, OneOpener, Holding, Pointing
<1> QED
  BY <1>2, <1>3

\* A new connection makes a node.
LEMMA CreatedType ==
    ASSUME NEW a \in Addrs \cup InboundAddrs, NEW i \in BOOLEAN
    PROVE  Created(a, i) \in CNode
BY DEF CNode, Created

\* OpenNetworkConnection's return keeps the types of the thread and the semaphore.
LEMMA FinishType ==
    ASSUME NetType, NEW t \in Openers, Finish(t)
    PROVE  opener' \in [Openers -> Opener] /\ sem' \in Nat
<1> DEFINE z == 0
<1>1. z \in Int
  OBVIOUS
<1>2. opener' = [opener EXCEPT ![t].at = "idle", ![t].call = "address",
                               ![t].grant = FALSE, ![t].pnode = NoThread, ![t].seen = z]
  BY DEF Finish
<1>3. sem' \in Nat
  BY DEF NetType, Finish
<1> HIDE DEF z
<1>4. opener \in [Openers -> Opener]
  BY DEF NetType
<1> DEFINE o == [opener[t] EXCEPT !.at = "idle", !.call = "address", !.grant = FALSE,
                               !.pnode = NoThread, !.seen = z]
<1>5. o \in Opener
  BY <1>1, <1>4 DEF Opener, CallKinds
<1>6. opener' = [opener EXCEPT ![t] = o]
  BY <1>2
<1> HIDE DEF o
<1>7. opener' \in [Openers -> Opener]
  BY <1>4, <1>5, <1>6
<1> QED
  BY <1>3, <1>7

\* What is counted is finite.
LEMMA CountType ==
    /\ IsFiniteSet(NodesWithSlot) /\ Cardinality(NodesWithSlot) \in Nat
    /\ IsFiniteSet(OpenersWithSlot) /\ Cardinality(OpenersWithSlot) \in Nat
    /\ IsFiniteSet(Inbound) /\ Cardinality(Inbound) \in Nat
<1>1. /\ NodesWithSlot \in SUBSET Nodes
      /\ OpenersWithSlot \in SUBSET Openers
      /\ Inbound \in SUBSET Nodes
  BY DEF NodesWithSlot, OpenersWithSlot, Inbound, vNodes, At
<1>2. IsFiniteSet(Nodes) /\ IsFiniteSet(Openers)
  BY NetAssumption
<1>3. IsFiniteSet(NodesWithSlot) /\ IsFiniteSet(OpenersWithSlot) /\ IsFiniteSet(Inbound)
  BY <1>1, <1>2, FS_Subset
<1> QED
  BY <1>3, FS_CardinalityType

\* Every step keeps the types.
LEMMA TypeStep == NetType /\ OpenersRight /\ [Next]_vars => NetType'
<1> SUFFICES ASSUME NetType, OpenersRight, [Next]_vars PROVE NetType'
  OBVIOUS
<1> USE DEF NetType
<1>1. CASE DisconnectNodes
  <2> DEFINE gone == {n \in vNodes : Unused(n)}
             after == [n \in Nodes |-> IF n \in gone THEN Removed(node[n]) ELSE node[n]]
             freed == {n \in gone : node[n].grant /\ ~after[n].grant}
  <2>1. after \in [Nodes -> CNode]
    BY RemovedType
  <2>2. freed \in SUBSET Nodes
    BY DEF vNodes, At
  <2>3. Cardinality(freed) \in Nat
    BY <2>2, NetAssumption, FS_Subset, FS_CardinalityType
  <2>4. /\ node' = after /\ sem' = sem + Cardinality(freed)
        /\ phase' = "delete" /\ UNCHANGED <<copy, opener, refound, direct>>
    BY <1>1 DEF DisconnectNodes
  <2> HIDE DEF after, freed
  <2> QED
    BY <2>1, <2>3, <2>4
<1>2. CASE DeleteNodes
  <2> DEFINE with == {n \in Deletable : node[n].grant}
  <2>1. with \in SUBSET Nodes
    BY DEF Deletable, vNodesDisconnected, At
  <2>2. Cardinality(with) \in Nat
    BY <2>1, NetAssumption, FS_Subset, FS_CardinalityType
  <2>3. /\ sem' = sem + Cardinality(with)
        /\ phase' = "accept" /\ UNCHANGED <<copy, opener, refound, direct>>
    BY <1>2 DEF DeleteNodes, Slots
  <2> DEFINE e(n) == [node[n] EXCEPT !.place = "deleted", !.grant = FALSE]
  <2>5. \A n \in Nodes : node[n] \in CNode /\ e(n) \in CNode
    BY MarkedType
  <2>6. node' = [n \in Nodes |-> IF n \in Deletable THEN e(n) ELSE node[n]]
    BY <1>2 DEF DeleteNodes
  <2> HIDE DEF e
  <2>4. node' \in [Nodes -> CNode]
    BY <2>5, <2>6
  <2> HIDE DEF with
  <2> QED
    BY <2>2, <2>3, <2>4
<1>3. CASE Accept
  <2>1. PICK n \in Nodes, a \in InboundAddrs : node' = [node EXCEPT ![n] = Created(a, TRUE)]
    BY <1>3 DEF Accept, At
  <2>2. Created(a, TRUE) \in CNode
    BY CreatedType
  <2>3. node' \in [Nodes -> CNode]
    BY <2>1, <2>2
  <2> QED
    BY <1>3, <2>3 DEF Accept
<1>4. CASE ServiceBegin \/ MessageBegin
  BY <1>4, AddRefsType DEF ServiceBegin, MessageBegin, TakeCopy, vNodes, At, Handlers
<1>5. CASE ServiceEnd \/ MessageEnd
  BY <1>5, AddRefsType DEF ServiceEnd, MessageEnd, DropCopy, CopyReleased, Handlers
<1>6. ASSUME NEW h \in Handlers, NEW n \in Nodes, Disconnect(h, n) PROVE NetType'
  <2> DEFINE c == [node[n] EXCEPT !.fDisconnect = TRUE]
  <2>1. c \in CNode
    BY MarkedType
  <2>2. node' = [node EXCEPT ![n] = c]
    BY <1>6 DEF Disconnect
  <2> HIDE DEF c
  <2>3. node' \in [Nodes -> CNode]
    BY <2>1, <2>2, NodeType
  <2> QED
    BY <1>6, <2>3 DEF Disconnect
<1>7. ASSUME NEW t \in Openers, NEW a \in Addrs, NEW call \in Calls[t],
             TakeGrant(t, call, a) \/ BeginDirect(t, call, a)
      PROVE  NetType'
  <2>1. call \in CallKinds
    BY NetAssumption
  <2>2. opener[t] \in Opener
    OBVIOUS
  <2>3. CASE TakeGrant(t, call, a)
    <3> DEFINE o == [opener[t] EXCEPT !.at = "granted", !.call = call, !.grant = TRUE,
                                      !.addr = a]
    <3>1. o \in Opener
      BY <2>1, <2>2 DEF Opener
    <3>2. opener' = [opener EXCEPT ![t] = o]
      BY <2>3 DEF TakeGrant
    <3> HIDE DEF o
    <3>3. opener' \in [Openers -> Opener]
      BY <3>1, <3>2, OpenerType
    <3>4. sem' \in Nat
      BY <2>3 DEF TakeGrant
    <3> QED
      BY <2>3, <3>3, <3>4 DEF TakeGrant
  <2>4. CASE BeginDirect(t, call, a)
    <3> DEFINE o == [opener[t] EXCEPT !.at = "granted", !.call = call, !.addr = a]
    <3>1. o \in Opener
      BY <2>1, <2>2 DEF Opener
    <3>2. opener' = [opener EXCEPT ![t] = o]
      BY <2>4 DEF BeginDirect
    <3> HIDE DEF o
    <3>3. opener' \in [Openers -> Opener]
      BY <3>1, <3>2, OpenerType
    <3> QED
      BY <2>4, <3>3 DEF BeginDirect
  <2> QED
    BY <1>7, <2>3, <2>4
<1>8. ASSUME NEW t \in Openers, OpenerStep(t) PROVE NetType'
  <2>1. CASE CheckConnected(t)
    BY <2>1, FinishType DEF CheckConnected, Step, Opener
  <2>2. CASE Lookup(t)
    BY <2>2 DEF Lookup, Step, Opener, Found, vNodes, At
  <2>3. CASE Connect(t)
    <3>1. ASSUME NEW n \in At("none"),
                 node' = [node EXCEPT ![n] = Created(opener[t].addr, FALSE)],
                 opener' = [opener EXCEPT ![t].at = "connected", ![t].pnode = n],
                 direct' = IF opener[t].grant THEN direct ELSE direct \cup {n},
                 UNCHANGED sem
          PROVE  NetType'
      <4>1. opener[t].addr \in Addrs \cup InboundAddrs /\ n \in Nodes
        BY DEF Opener, At
      <4>2. node' \in [Nodes -> CNode]
        BY <3>1, <4>1, CreatedType
      <4> DEFINE o == [opener[t] EXCEPT !.at = "connected", !.pnode = n]
      <4>6. opener[t] \in Opener /\ n \in Nodes
        BY <4>1
      <4>4. o \in Opener
        BY <4>6 DEF Opener
      <4>5. opener' = [opener EXCEPT ![t] = o]
        BY <3>1
      <4> HIDE DEF o
      <4>3. opener' \in [Openers -> Opener]
        BY <4>4, <4>5, OpenerType
      <4>7. direct' \subseteq Nodes
        BY <3>1, <4>1
      <4> QED
        BY <2>3, <3>1, <4>2, <4>3, <4>7 DEF Connect
    <3>2. CASE Finish(t) /\ UNCHANGED <<node, direct>>
      BY <2>3, <3>2, FinishType DEF Connect
    <3> QED
      BY <2>3, <3>1, <3>2 DEF Connect
  <2>4. CASE AddRefRead(t)
    <3> DEFINE r == node[opener[t].pnode].nRefCount
    <3>1. opener[t].pnode \in Nodes
      BY <2>4, PointerType DEF AddRefRead, Pointing
    <3>2. r \in Int
      BY <3>1 DEF CNode
    <3> DEFINE o == [opener[t] EXCEPT !.at = "addref", !.seen = r]
    <3>3. opener' = [opener EXCEPT ![t] = o]
      BY <2>4 DEF AddRefRead
    <3> HIDE DEF r
    <3>6. opener[t] \in Opener
      OBVIOUS
    <3>5. o \in Opener
      BY <3>1, <3>2, <3>6 DEF Opener
    <3> HIDE DEF o
    <3>4. opener' \in [Openers -> Opener]
      BY <3>3, <3>5, OpenerType
    <3> QED
      BY <2>4, <3>4 DEF AddRefRead
  <2>5. CASE AddRefWrite(t)
    <3> DEFINE r == opener[t].seen + 1
    <3>1. r \in Int
      BY DEF Opener
    <3> DEFINE p == opener[t].pnode
               c == [node[p] EXCEPT !.nRefCount = r]
    <3>2. /\ node' = [node EXCEPT ![p] = c]
          /\ opener' = [opener EXCEPT ![t].at = "connected"]
      BY <2>5 DEF AddRefWrite, Step
    <3>5. p \in Nodes
      BY <2>5, PointerType DEF AddRefWrite, Step, Pointing
    <3> HIDE DEF r, p
    <3>6. c \in CNode
      BY <3>1, <3>5, CountedType
    <3> HIDE DEF c
    <3>3. node' \in [Nodes -> CNode]
      BY <3>2, <3>6, NodeType
    <3>4. opener' \in [Openers -> Opener]
      BY <3>2 DEF Opener
    <3> QED
      BY <2>5, <3>3, <3>4 DEF AddRefWrite
  <2>6. CASE MoveTo(t)
    <3> DEFINE p == opener[t].pnode
               c == [node[p] EXCEPT !.grant = TRUE]
               o == [opener[t] EXCEPT !.at = "moved", !.grant = FALSE]
    <3>4. /\ opener' = [opener EXCEPT ![t] = o]
          /\ \/ node' = [node EXCEPT ![p] = c]
             \/ node' = node
      BY <2>6 DEF MoveTo, Moved
    <3>5. p \in Nodes
      BY <2>6, PointerType DEF MoveTo, Pointing
    <3> HIDE DEF p
    <3>7. opener[t] \in Opener /\ node[p] \in CNode
      BY <3>5
    <3>6. c \in CNode
      BY <3>7, MarkedType
    <3>8. o \in Opener
      BY <3>5, <3>7 DEF Opener
    <3> HIDE DEF c, o
    <3>1. node' \in [Nodes -> CNode]
      BY <3>4, <3>6, NodeType
    <3>2. opener' \in [Openers -> Opener]
      BY <3>4, <3>8, OpenerType
    <3>3. sem' \in Nat
      BY <2>6 DEF MoveTo
    <3> QED
      BY <2>6, <3>1, <3>2, <3>3 DEF MoveTo
  <2>7. CASE SetNetworkNode(t)
    <3> DEFINE p == opener[t].pnode
               c == [node[p] EXCEPT !.fNetworkNode = TRUE]
               o == [opener[t] EXCEPT !.at = "network"]
    <3>1. /\ node' = [node EXCEPT ![p] = c] /\ UNCHANGED <<copy, phase, refound, direct>>
          /\ \/ Finish(t)
             \/ opener' = [opener EXCEPT ![t] = o] /\ sem' = sem
      BY <2>7 DEF SetNetworkNode, Step
    <3>2. p \in Nodes
      BY <2>7, PointerType DEF SetNetworkNode, Pointing
    <3> HIDE DEF p
    <3>6. node[p] \in CNode /\ opener[t] \in Opener
      BY <3>2
    <3>3. c \in CNode
      BY <3>6, MarkedType
    <3>7. o \in Opener
      BY <3>6 DEF Opener
    <3> HIDE DEF c, o
    <3>4. node' \in [Nodes -> CNode]
      BY <3>1, <3>3, NodeType
    <3>5. opener' \in [Openers -> Opener] /\ sem' \in Nat
      BY <3>1, <3>7, FinishType, OpenerType
    <3> QED
      BY <3>1, <3>4, <3>5
  <2>8. CASE SetOneShot(t)
    BY <2>8, FinishType DEF SetOneShot
  <2> QED
    BY <1>8, <2>1, <2>2, <2>3, <2>4, <2>5, <2>6, <2>7, <2>8 DEF OpenerStep
<1>9. CASE UNCHANGED vars
  BY <1>9 DEF vars
<1> QED
  BY <1>1, <1>2, <1>3, <1>4, <1>5, <1>6, <1>7, <1>8, <1>9 DEF Next, SocketHandler

-----------------------------------------------------------------------------
(* What the steps share *)

\* No node goes back to not being made.
LEMMA PointersKept ==
    ASSUME NetType, PointersRight, UNCHANGED <<copy, opener, refound, direct>>,
           phase' # "service" => copy["socket"] = {},
           \A n \in Nodes : node[n].place # "none" => node'[n].place # "none"
    PROVE  PointersRight'
<1>1. \A t \in Openers : opener[t].pnode # NoThread => opener[t].pnode \in Nodes
  BY DEF NetType, Opener
<1>2. /\ \A h \in Handlers : \A n \in copy[h] : n \in Nodes
      /\ \A n \in refound : n \in Nodes
  BY DEF NetType
<1> QED
  BY <1>1, <1>2 DEF PointersRight

\* Connections from accept are only lost.
LEMMA InboundKept ==
    ASSUME NetType, NetType', InboundRight,
           \A n \in Nodes : node'[n].place = "vNodes" /\ node'[n].fInbound
                             => node[n].place = "vNodes" /\ node[n].fInbound
    PROVE  InboundRight'
<1>1. Inbound' \in SUBSET Inbound
  BY DEF Inbound, vNodes, At
<1>2. IsFiniteSet(Inbound) /\ Cardinality(Inbound) \in Nat
  BY CountType
<1>3. Cardinality(Inbound') <= Cardinality(Inbound) /\ IsFiniteSet(Inbound')
  BY <1>1, <1>2, FS_Subset
<1>4. Cardinality(Inbound') \in Nat
  BY <1>3, FS_CardinalityType
<1> QED
  BY <1>2, <1>3, <1>4, NetAssumption DEF InboundRight

\* Slots that nodes of S give back are free.
LEMMA SlotsFreed ==
    ASSUME NetType, NEW S \in SUBSET NodesWithSlot,
           NodesWithSlot' = NodesWithSlot \ S, OpenersWithSlot' = OpenersWithSlot,
           sem' = sem + Cardinality(S), NoSlotLost
    PROVE  NoSlotLost'
<1>1. /\ IsFiniteSet(NodesWithSlot) /\ Cardinality(NodesWithSlot) \in Nat
      /\ Cardinality(OpenersWithSlot) \in Nat
  BY CountType
<1> DEFINE N == NodesWithSlot
<1>2. N \cap S = S /\ IsFiniteSet(N)
  BY <1>1
<1> HIDE DEF N
<1>5. Cardinality(N \ S) = Cardinality(N) - Cardinality(N \cap S)
  BY <1>2, FS_Difference
<1>3. Cardinality(NodesWithSlot') = Cardinality(NodesWithSlot) - Cardinality(S)
  BY <1>2, <1>5 DEF N
<1>4. Cardinality(S) \in Nat
  BY <1>1, FS_Subset, FS_CardinalityType
<1> QED
  BY <1>1, <1>3, <1>4 DEF NetType, NoSlotLost

\* The invariant holds when nothing is connected.
LEMMA InitNet == Init => NetInv
<1> SUFFICES ASSUME Init PROVE NetInv
  OBVIOUS
<1>1. NetType
  BY NetAssumption DEF Init, NetType, CNode, Opener, CallKinds, Handlers
<1>2. PointersRight /\ RefsRight
  BY DEF Init, PointersRight, RefsRight, RefRight, Handlers
<1>6. OpenersRight
  BY NetAssumption DEF Init, OpenersRight, GrantRight, PnodeRight, OneOpener, Holding, Pointing
<1>3. NodesWithSlot = {} /\ OpenersWithSlot = {} /\ Inbound = {}
  BY DEF Init, NodesWithSlot, OpenersWithSlot, Inbound, vNodes, At
<1>4. SlotsRight
  <2>1. Cardinality(NodesWithSlot) = 0 /\ Cardinality(OpenersWithSlot) = 0
    BY <1>3, FS_EmptySet
  <2> QED
    BY <1>3, <2>1, NetAssumption DEF Init, SlotsRight, NoSlotLost, vNodes, At, NodesWithSlot
<1>5. InboundRight
  BY <1>3, FS_EmptySet, NetAssumption DEF InboundRight
<1> QED
  BY <1>1, <1>2, <1>4, <1>5, <1>6 DEF NetInv

-----------------------------------------------------------------------------
(* The socket handler and the message handler *)

\* A node that an opener still uses keeps the reference of its connection: it is
\* neither inbound nor a network node yet.
LEMMA DisconnectNodesStep ==
    ASSUME NetInv, NetType', DisconnectNodes
    PROVE  NetInv'
<1> USE DEF NetInv
<1> DEFINE gone == {n \in vNodes : Unused(n)}
           freed == {n \in gone : node[n].grant}
<1>1. /\ \A n \in gone :
            /\ n \in Nodes /\ node[n].place = "vNodes"
            /\ node'[n].place = "disconnected"
            /\ node'[n].grant = FALSE
            /\ node'[n].fInbound = node[n].fInbound
            /\ node'[n].fNetworkNode = node[n].fNetworkNode
            /\ node'[n].nRefCount = IF node[n].fNetworkNode \/ node[n].fInbound
                                    THEN node[n].nRefCount - 1 ELSE node[n].nRefCount
      /\ \A n \in Nodes \ gone : node'[n] = node[n]
  <2>1. \A n \in gone : n \in Nodes /\ node[n].place = "vNodes" /\ node[n] \in CNode
    BY DEF NetType, vNodes, At
  <2>2. /\ \A n \in gone : node'[n] = Removed(node[n])
        /\ \A n \in Nodes \ gone : node'[n] = node[n]
    BY <2>1 DEF DisconnectNodes
  <2> HIDE DEF gone
  <2>3. \A n \in gone : RemovedIs(node[n], node'[n])
    BY <2>1, <2>2, RemovedDoes
  <2> QED
    BY <2>1, <2>2, <2>3 DEF RemovedIs
<1>2. sem' = sem + Cardinality(freed) /\ UNCHANGED <<copy, opener, refound, direct>> /\ phase' = "delete"
            /\ phase = "disconnect"
  <2>1. {n \in gone : node[n].grant /\
            ~[k \in Nodes |-> IF k \in gone THEN Removed(node[k]) ELSE node[k]][n].grant} = freed
    BY DEF Removed, NetType, CNode, vNodes, At
  <2> QED
    BY <2>1 DEF DisconnectNodes
<1> HIDE DEF gone
<1>3. PointersRight'
  <2>1. \A n \in Nodes : node[n].place # "none" => node'[n].place # "none"
    BY <1>1
  <2> QED
    BY <1>2, <2>1, PointersKept DEF PointersRight
<1>4. OpenersRight'
  BY <1>1, <1>2 DEF OpenersRight, GrantRight, PnodeRight, OneOpener, Holding, Pointing, NetType
<1>5. RefsRight'
  <2> SUFFICES ASSUME NEW n \in Nodes, n \notin refound
               PROVE  RefRight(n)'
    BY <1>2 DEF RefsRight
  <2>1. Copies(n) \in Nat /\ Copies(n)' = Copies(n)
    BY <1>2 DEF Copies, InCopy
  <2>2. CASE n \notin gone
    BY <1>1, <1>2, <2>1, <2>2 DEF RefsRight, RefRight
  <2>3. CASE n \in gone
    BY <1>1, <1>2, <2>1, <2>3 DEF RefsRight, RefRight, OpenersRight, PnodeRight
  <2> QED
    BY <2>2, <2>3
<1>6. SlotsRight'
  <2>1. NodesWithSlot' = NodesWithSlot \ freed /\ freed \in SUBSET NodesWithSlot
    BY <1>1 DEF NodesWithSlot
  <2>2. OpenersWithSlot' = OpenersWithSlot
    BY <1>2 DEF OpenersWithSlot
  <2>3. NoSlotLost'
    BY <1>2, <2>1, <2>2, SlotsFreed DEF SlotsRight
  <2> QED
    BY <1>1, <1>2, <2>3 DEF SlotsRight, vNodes, At
<1>7. InboundRight'
  BY <1>1, InboundKept
<1> QED
  BY <1>3, <1>4, <1>5, <1>6, <1>7

\* A node is deleted when its count says that no copy holds it; an opener's reference
\* would be in the count too.
LEMMA DeleteNodesStep ==
    ASSUME NetInv, NetType', DeleteNodes
    PROVE  NetInv'
<1> USE DEF NetInv
<1> DEFINE freed == {n \in Deletable : node[n].grant}
<1>1. /\ \A n \in Deletable :
            /\ n \in Nodes /\ node[n].place = "disconnected" /\ node[n].nRefCount <= 0
            /\ node'[n].place = "deleted"
            /\ node'[n].grant = FALSE
            /\ node'[n].fInbound = node[n].fInbound
            /\ node'[n].fNetworkNode = node[n].fNetworkNode
      /\ \A n \in Nodes \ Deletable : node'[n] = node[n]
  <2>1. \A n \in Deletable :
           n \in Nodes /\ node[n].place = "disconnected" /\ node[n].nRefCount <= 0
           /\ node[n] \in CNode
    BY DEF NetType, Deletable, vNodesDisconnected, At
  <2>2. /\ \A n \in Deletable :
             node'[n] = [node[n] EXCEPT !.place = "deleted", !.grant = FALSE]
        /\ \A n \in Nodes \ Deletable : node'[n] = node[n]
    BY Zenon, <2>1 DEF DeleteNodes
  <2>3. \A n \in Deletable :
           /\ node'[n].place = "deleted" /\ node'[n].grant = FALSE
           /\ node'[n].fInbound = node[n].fInbound
           /\ node'[n].fNetworkNode = node[n].fNetworkNode
    <3> SUFFICES ASSUME NEW n \in Deletable
                 PROVE  /\ node'[n].place = "deleted" /\ node'[n].grant = FALSE
                        /\ node'[n].fInbound = node[n].fInbound
                        /\ node'[n].fNetworkNode = node[n].fNetworkNode
      OBVIOUS
    <3> DEFINE c == node[n]
    <3>1. c \in CNode /\ node'[n] = [c EXCEPT !.place = "deleted", !.grant = FALSE]
      BY <2>1, <2>2
    <3> HIDE DEF c
    <3>2. /\ node'[n].place = "deleted" /\ node'[n].grant = FALSE
          /\ node'[n].fInbound = c.fInbound
          /\ node'[n].fNetworkNode = c.fNetworkNode
      BY <3>1 DEF CNode
    <3> QED
      BY <3>2 DEF c
  <2> QED
    BY <2>1, <2>2, <2>3
<1>2. /\ sem' = sem + Cardinality(freed) /\ UNCHANGED <<copy, opener, refound, direct>>
      /\ phase' = "accept" /\ phase = "delete"
  BY DEF DeleteNodes, Slots
<1>3. PointersRight'
  <2>1. \A n \in Nodes : node[n].place # "none" => node'[n].place # "none"
    BY <1>1
  <2> QED
    BY <1>2, <2>1, PointersKept DEF PointersRight
<1>4. ASSUME NEW n \in Deletable, n \notin refound
      PROVE  /\ \A h \in Handlers : n \notin copy[h]
             /\ \A t \in Openers : opener[t].pnode = n => opener[t].at = "network"
  <2>1. /\ node[n].nRefCount \in {Copies(n), Copies(n) + 1} /\ node[n].nRefCount <= 0
        /\ (\E t \in Openers : opener[t].pnode = n /\ opener[t].at # "network")
              => node[n].nRefCount = Copies(n) + 1
    BY <1>1, <1>4 DEF RefsRight, RefRight
  <2>2. InCopy("socket", n) \in {0, 1} /\ InCopy("message", n) \in {0, 1}
    BY DEF InCopy
  <2>3. InCopy("socket", n) = 0 /\ InCopy("message", n) = 0 /\ node[n].nRefCount # Copies(n) + 1
    BY <2>1, <2>2 DEF Copies
  <2> QED
    BY <2>1, <2>3 DEF InCopy, Handlers
<1>5. OpenersRight'
  <2>1. \A t \in Openers :
           opener[t].pnode \in Nodes \ refound /\ opener[t].at # "network"
              => node'[opener[t].pnode] = node[opener[t].pnode]
    BY <1>1, <1>4
  <2> QED
    BY <1>2, <2>1 DEF OpenersRight, GrantRight, PnodeRight, OneOpener, Holding, Pointing
<1>6. RefsRight'
  <2> SUFFICES ASSUME NEW n \in Nodes, n \notin refound
               PROVE  RefRight(n)'
    BY <1>2 DEF RefsRight
  <2>1. Copies(n)' = Copies(n)
    BY <1>2 DEF Copies, InCopy
  <2>2. CASE n \notin Deletable
    BY <1>1, <1>2, <2>1, <2>2 DEF RefsRight, RefRight
  <2>3. CASE n \in Deletable
    BY <1>1, <1>2, <1>4, <2>3 DEF RefRight
  <2> QED
    BY <2>2, <2>3
<1>7. SlotsRight'
  <2>1. NodesWithSlot' = NodesWithSlot \ freed /\ freed \in SUBSET NodesWithSlot
    BY <1>1 DEF NodesWithSlot
  <2>2. OpenersWithSlot' = OpenersWithSlot
    BY <1>2 DEF OpenersWithSlot
  <2>3. NoSlotLost'
    BY <1>2, <2>1, <2>2, SlotsFreed DEF SlotsRight
  <2> QED
    BY <1>1, <1>2, <2>3 DEF SlotsRight, vNodes, At
<1>8. InboundRight'
  BY <1>1, InboundKept
<1> QED
  BY <1>3, <1>5, <1>6, <1>7, <1>8

\* A node that is made is in no copy and has no slot.
LEMMA CreatedKeeps ==
    ASSUME NetInv, NetType', NEW n \in At("none"), NEW a \in Addrs \cup InboundAddrs,
           NEW i \in BOOLEAN, node' = [node EXCEPT ![n] = Created(a, i)],
           UNCHANGED <<sem, copy, phase, refound>>, direct' \in {direct, direct \cup {n}},
           OpenersWithSlot' = OpenersWithSlot,
           \A t \in Openers : opener'[t] = opener[t]
                              \/ (opener'[t].pnode = n /\ opener'[t].at = "connected")
    PROVE  PointersRight' /\ RefsRight' /\ SlotsRight'
<1> USE DEF NetInv
<1>1. /\ n \in Nodes /\ node[n].place = "none" /\ node[n].grant = FALSE
      /\ node'[n].place = "vNodes" /\ node'[n].grant = FALSE /\ node'[n].nRefCount = 1
      /\ node'[n].fNetworkNode = FALSE
      /\ \A m \in Nodes \ {n} : node'[m] = node[m]
  BY DEF At, Created, NetType, CNode, SlotsRight
<1>2. \A t \in Openers : opener[t].pnode # NoThread => opener[t].pnode \in Nodes \ {n}
  BY <1>1 DEF PointersRight, NetType, Opener
<1>3. PointersRight'
  <2>1. /\ \A h \in Handlers : \A m \in copy[h] : m \in Nodes \ {n}
        /\ \A m \in refound : m \in Nodes \ {n}
    BY <1>1 DEF NetType, PointersRight
  <2>2. \A t \in Openers : opener'[t].pnode # NoThread =>
            node'[opener'[t].pnode].place # "none"
    BY <1>1, <1>2 DEF PointersRight
  <2> QED
    BY <1>1, <2>1, <2>2 DEF PointersRight
<1>4. RefsRight'
  <2> SUFFICES ASSUME NEW m \in Nodes, m \notin refound
               PROVE  RefRight(m)'
    BY DEF RefsRight
  <2>1. Copies(m)' = Copies(m)
    BY DEF Copies, InCopy
  <2>2. CASE m = n
    <3>1. Copies(m) = 0
      BY <1>1, <2>2 DEF PointersRight, Copies, InCopy, Handlers
    <3> QED
      BY <1>1, <2>1, <2>2, <3>1 DEF RefRight
  <2>3. CASE m # n
    <3>1. node'[m] = node[m] /\ RefRight(m)
      BY <1>1, <2>3 DEF RefsRight
    <3>2. \A t \in Openers : opener'[t].pnode = m /\ opener'[t].at # "network" =>
              opener[t].pnode = m /\ opener[t].at # "network"
      BY <2>3
    <3> QED
      BY <2>1, <3>1, <3>2 DEF RefRight
  <2> QED
    BY <2>2, <2>3
<1>5. SlotsRight'
  <2>1. NodesWithSlot' = NodesWithSlot
    BY <1>1 DEF NodesWithSlot
  <2>2. \A t \in Openers : opener'[t].at = "moved" => opener'[t] = opener[t]
    OBVIOUS
  <2>3. \A t \in Openers : opener'[t].at = "moved" => opener'[t].pnode # NoThread
    BY <2>2 DEF OpenersRight, GrantRight, PnodeRight, OneOpener, Holding, Pointing
  <2>4. \A t \in Openers : opener'[t].at = "moved" /\ opener'[t].pnode \in vNodes' \ direct'
                              => node'[opener'[t].pnode].grant
    <3> TAKE t \in Openers
    <3> HAVE opener'[t].at = "moved" /\ opener'[t].pnode \in vNodes' \ direct'
    <3>1. opener'[t] = opener[t] /\ opener[t].pnode \in Nodes \ {n}
      BY <1>2, <2>2, <2>3
    <3>2. opener[t].pnode \in vNodes \ direct
      BY <1>1, <3>1 DEF vNodes, At
    <3> QED
      BY <1>1, <3>1, <3>2 DEF SlotsRight
  <2>5. \A m \in Nodes : node'[m].place = "none" => ~node'[m].grant
    BY <1>1 DEF SlotsRight
  <2>6. \A m \in vNodes' \ direct' : node'[m].fNetworkNode => node'[m].grant
    BY <1>1 DEF SlotsRight, vNodes, At
  <2> QED
    BY <2>1, <2>4, <2>5, <2>6 DEF SlotsRight, NoSlotLost
<1> QED
  BY <1>3, <1>4, <1>5

\* An inbound connection is accepted.
LEMMA AcceptStep ==
    ASSUME NetInv, NetType', Accept
    PROVE  NetInv'
<1> USE DEF NetInv
<1>1. PICK n \in At("none"), a \in InboundAddrs : node' = [node EXCEPT ![n] = Created(a, TRUE)]
  BY DEF Accept
<1>2. UNCHANGED <<sem, copy, phase, opener, refound, direct>> /\ RoomForInbound
  BY DEF Accept
<1>3. /\ n \in Nodes /\ node[n].place = "none"
      /\ node'[n].place = "vNodes" /\ node'[n].fInbound = TRUE
      /\ \A m \in Nodes \ {n} : node'[m] = node[m]
  BY <1>1 DEF At, Created, NetType
<1>4. PointersRight' /\ RefsRight' /\ SlotsRight'
  BY <1>1, <1>2, CreatedKeeps DEF OpenersWithSlot
<1>5. OpenersRight'
  <2>1. \A t \in Openers : opener[t].pnode \in Nodes => opener[t].pnode # n
    BY <1>3, NetAssumption DEF PointersRight
  <2> QED
    BY <1>2, <1>3, <2>1 DEF OpenersRight, GrantRight, PnodeRight, OneOpener, Holding, Pointing
<1>6. InboundRight'
  <2>1. Inbound' = Inbound \cup {n} /\ n \notin Inbound
    BY <1>3 DEF Inbound, vNodes, At
  <2>2. IsFiniteSet(Inbound) /\ Cardinality(Inbound) \in Nat
    BY CountType
  <2>3. Cardinality(Inbound') = Cardinality(Inbound) + 1
    BY <2>1, <2>2, FS_AddElement
  <2>4. Cardinality(Inbound) < MaxInbound
    BY <1>2 DEF RoomForInbound, Inbound
  <2> QED
    BY <2>2, <2>3, <2>4, NetAssumption DEF InboundRight
<1> QED
  BY <1>4, <1>5, <1>6

\* References and disconnect flags are no part of places, slots and kinds.
SameButCount ==
    \A n \in Nodes :
        /\ node'[n].place = node[n].place
        /\ node'[n].fInbound = node[n].fInbound
        /\ node'[n].fNetworkNode = node[n].fNetworkNode
        /\ node'[n].grant = node[n].grant

\* A step that changes reference counts alone keeps the slots.
LEMMA CountsKeep ==
    ASSUME NetInv, NetType', SameButCount, UNCHANGED <<sem, opener, refound, direct>>
    PROVE  OpenersRight' /\ SlotsRight' /\ InboundRight'
<1> USE DEF NetInv, SameButCount
<1>1. OpenersRight'
  BY DEF OpenersRight, GrantRight, PnodeRight, OneOpener, Holding, Pointing
<1>2. SlotsRight'
  <2>1. NodesWithSlot' = NodesWithSlot /\ OpenersWithSlot' = OpenersWithSlot /\ vNodes' = vNodes
    BY DEF NodesWithSlot, OpenersWithSlot, vNodes, At
  <2>2. \A n \in vNodes : n \in Nodes
    BY DEF vNodes, At
  <2> QED
    BY <2>1, <2>2 DEF SlotsRight, NoSlotLost
<1>3. InboundRight'
  BY InboundKept
<1> QED
  BY <1>1, <1>2, <1>3

\* vNodesCopy = vNodes, with a reference for each of its nodes.
LEMMA TakeCopyStep ==
    ASSUME NetInv, NetType', NEW h \in Handlers, TakeCopy(h), copy[h] = {},
           h = "socket" => phase' = "service",
           h # "socket" => phase' = phase
    PROVE  NetInv'
<1> USE DEF NetInv
<1>1. /\ \A n \in vNodes : n \in Nodes /\ node'[n].nRefCount = node[n].nRefCount + 1
      /\ \A n \in Nodes \ vNodes : node'[n] = node[n]
      /\ SameButCount
  BY DEF TakeCopy, AddRefs, NetType, CNode, vNodes, At, SameButCount
<1>2. UNCHANGED <<sem, opener, refound, direct>> /\ copy' = [copy EXCEPT ![h] = vNodes]
  BY DEF TakeCopy
<1>3. PointersRight'
  <2>1. \A m \in vNodes : m \in Nodes /\ node[m].place = "vNodes"
    BY DEF vNodes, At
  <2>2. \A g \in Handlers : \A m \in copy'[g] : m \in Nodes /\ node[m].place # "none"
    BY <1>2, <2>1 DEF PointersRight, NetType
  <2>3. \A m \in Nodes : node'[m].place = node[m].place
    BY <1>1 DEF SameButCount
  <2>4. \A m \in refound : m \in Nodes
    BY DEF NetType
  <2>5. \A t \in Openers : opener[t].pnode # NoThread => opener[t].pnode \in Nodes
    BY DEF NetType, Opener
  <2>6. phase' # "service" => copy'["socket"] = {}
    BY <1>2 DEF PointersRight, Handlers, NetType
  <2> QED
    BY <1>2, <2>2, <2>3, <2>4, <2>5, <2>6 DEF PointersRight
<1>4. RefsRight'
  <2> SUFFICES ASSUME NEW n \in Nodes, n \notin refound
               PROVE  RefRight(n)'
    BY <1>2 DEF RefsRight
  <2>1. RefRight(n)
    BY DEF RefsRight
  <2>2. /\ node[n].nRefCount \in Int /\ Copies(n) \in Int
        /\ n \in vNodes <=> node[n].place = "vNodes"
    BY DEF NetType, CNode, Copies, InCopy, vNodes, At
  <2>3. CASE n \in vNodes
    <3>1. Copies(n)' = Copies(n) + 1
      BY <1>2, <2>3 DEF Copies, InCopy, NetType, Handlers
    <3> QED
      BY <1>1, <2>1, <2>2, <2>3, <3>1 DEF RefRight, SameButCount
  <2>4. CASE n \notin vNodes
    <3>1. Copies(n)' = Copies(n) /\ \A g \in Handlers : n \in copy'[g] => n \in copy[g]
      BY <1>2, <2>4 DEF Copies, InCopy, NetType, Handlers
    <3> QED
      BY <1>1, <1>2, <2>1, <2>2, <2>4, <3>1 DEF RefRight
  <2> QED
    BY <2>3, <2>4
<1> QED
  BY <1>1, <1>2, <1>3, <1>4, CountsKeep

\* Each node of the copy loses the reference it was given, wherever it is by then.
LEMMA DropCopyStep ==
    ASSUME NetInv, NetType', NEW h \in Handlers, DropCopy(h),
           h = "socket" => phase' = "disconnect",
           h # "socket" => phase' = phase
    PROVE  NetInv'
<1> USE DEF NetInv
<1>1. /\ \A n \in copy[h] : n \in Nodes /\ node'[n].nRefCount = node[n].nRefCount - 1
      /\ \A n \in Nodes \ copy[h] : node'[n] = node[n]
      /\ SameButCount
  BY DEF DropCopy, CopyReleased, AddRefs, NetType, CNode, SameButCount
<1>2. UNCHANGED <<sem, opener, refound, direct>> /\ copy' = [copy EXCEPT ![h] = {}]
  BY DEF DropCopy
<1>3. PointersRight'
  <2>1. \A g \in Handlers : \A m \in copy'[g] : m \in Nodes /\ node[m].place # "none"
    BY <1>2 DEF PointersRight, NetType
  <2>2. \A m \in Nodes : node'[m].place = node[m].place
    BY <1>1 DEF SameButCount
  <2>3. \A m \in refound : m \in Nodes
    BY DEF NetType
  <2>4. \A t \in Openers : opener[t].pnode # NoThread => opener[t].pnode \in Nodes
    BY DEF NetType, Opener
  <2>5. phase' # "service" => copy'["socket"] = {}
    BY <1>2 DEF PointersRight, Handlers, NetType
  <2> QED
    BY <1>2, <2>1, <2>2, <2>3, <2>4, <2>5 DEF PointersRight
<1>4. RefsRight'
  <2> SUFFICES ASSUME NEW n \in Nodes, n \notin refound
               PROVE  RefRight(n)'
    BY <1>2 DEF RefsRight
  <2>1. RefRight(n)
    BY DEF RefsRight
  <2>2. node[n].nRefCount \in Int /\ Copies(n) \in Int
    BY DEF NetType, CNode, Copies, InCopy
  <2>3. CASE n \in copy[h]
    <3>1. Copies(n)' = Copies(n) - 1
      BY <1>2, <2>3 DEF Copies, InCopy, NetType, Handlers
    <3> QED
      BY <1>1, <1>2, <2>1, <2>2, <2>3, <3>1 DEF RefRight, SameButCount
  <2>4. CASE n \notin copy[h]
    <3>1. Copies(n)' = Copies(n) /\ \A g \in Handlers : n \in copy'[g] => n \in copy[g]
      BY <1>2, <2>4 DEF Copies, InCopy, NetType, Handlers
    <3> QED
      BY <1>1, <1>2, <2>1, <2>2, <2>4, <3>1 DEF RefRight
  <2> QED
    BY <2>3, <2>4
<1> QED
  BY <1>1, <1>2, <1>3, <1>4, CountsKeep

\* A handler sets fDisconnect.
LEMMA DisconnectStep ==
    ASSUME NetInv, NetType', NEW h \in Handlers, NEW m \in Nodes, Disconnect(h, m)
    PROVE  NetInv'
<1> USE DEF NetInv
<1>1. /\ SameButCount /\ \A n \in Nodes : node'[n].nRefCount = node[n].nRefCount
      /\ UNCHANGED <<sem, copy, phase, opener, refound, direct>>
  BY DEF Disconnect, NetType, CNode, SameButCount
<1>2. PointersRight'
  BY <1>1, PointersKept DEF PointersRight, SameButCount
<1>3. RefsRight'
  BY <1>1 DEF RefsRight, RefRight, Copies, InCopy, SameButCount
<1> QED
  BY <1>1, <1>2, <1>3, CountsKeep

-----------------------------------------------------------------------------
(* The threads that open connections *)

\* What a step of opener t leaves alone.
OnlyOpener(t) == \A u \in Openers \ {t} : opener'[u] = opener[u]

\* OpenNetworkConnection's return gives the slot back.
LEMMA FinishDoes ==
    ASSUME NetType, NEW t \in Openers, Finish(t)
    PROVE  /\ OnlyOpener(t)
           /\ opener'[t].at = "idle" /\ opener'[t].grant = FALSE
           /\ opener'[t].pnode = NoThread
BY DEF NetType, Finish, OnlyOpener, Opener

\* The slot of a grant that ends is free again.
LEMMA FinishSlots ==
    ASSUME NetType, NEW t \in Openers, Finish(t), NodesWithSlot' = NodesWithSlot, NoSlotLost
    PROVE  NoSlotLost'
<1>1. OpenersWithSlot' = OpenersWithSlot \ {t}
  BY FinishDoes DEF OpenersWithSlot, OnlyOpener
<1>2. /\ IsFiniteSet(OpenersWithSlot) /\ Cardinality(OpenersWithSlot) \in Nat
      /\ Cardinality(NodesWithSlot) \in Nat
  BY CountType
<1>3. Cardinality(OpenersWithSlot') = IF t \in OpenersWithSlot
                                     THEN Cardinality(OpenersWithSlot) - 1
                                     ELSE Cardinality(OpenersWithSlot)
  BY <1>1, <1>2, FS_RemoveElement
<1>4. opener[t].grant <=> t \in OpenersWithSlot
  BY DEF OpenersWithSlot
<1> QED
  BY <1>2, <1>3, <1>4 DEF Finish, NoSlotLost, NetType

\* Steps of an opener that change no node.
LEMMA OpenerOnly ==
    ASSUME NetInv, NetType', NEW t \in Openers, OnlyOpener(t), OpenersRight', NoSlotLost',
           UNCHANGED <<node, copy, phase, direct>>,
           \/ refound' = refound /\ opener'[t].pnode \in {NoThread, opener[t].pnode}
           \/ opener'[t].pnode \in vNodes /\ refound' = refound \cup {opener'[t].pnode},
           opener[t].at = "network" => opener'[t].pnode = NoThread,
           opener'[t].at = "moved" => opener'[t].pnode \in direct
    PROVE  NetInv'
<1> USE DEF NetInv
<1>1. opener'[t].pnode # NoThread => node[opener'[t].pnode].place # "none"
  BY DEF vNodes, At, PointersRight
<1>2. \A n \in vNodes : node[n].place = "vNodes"
  BY DEF vNodes, At
<1>3. PointersRight'
  BY <1>1, <1>2 DEF PointersRight, OnlyOpener
<1>4. RefsRight'
  <2> SUFFICES ASSUME NEW n \in Nodes, n \notin refound'
               PROVE  RefRight(n)'
    BY DEF RefsRight
  <2>1. Copies(n)' = Copies(n)
    BY DEF Copies, InCopy
  <2>2. n \notin refound /\ RefRight(n)
    BY DEF RefsRight
  <2>3. \A u \in Openers : opener'[u].pnode = n /\ opener'[u].at # "network" =>
            opener[u].pnode = n /\ opener[u].at # "network"
    BY NetAssumption DEF OnlyOpener
  <2> QED
    BY <2>1, <2>2, <2>3 DEF RefRight
<1>5. SlotsRight'
  <2>1. /\ vNodes' = vNodes
        /\ \A u \in Openers : opener'[u].at = "moved" =>
              opener'[u] = opener[u] \/ opener'[u].pnode \in direct
    BY DEF vNodes, At, OnlyOpener
  <2> QED
    BY <2>1 DEF SlotsRight
<1>6. InboundRight'
  BY InboundKept
<1> QED
  BY <1>3, <1>4, <1>5, <1>6

\* An opening thread takes a slot of semOutbound.
LEMMA TakeGrantStep ==
    ASSUME NetInv, NetType', NEW t \in Openers, NEW call, NEW a, TakeGrant(t, call, a)
    PROVE  NetInv'
<1> USE DEF NetInv
<1>1. /\ OnlyOpener(t) /\ opener[t].at = "idle"
      /\ opener'[t].at = "granted" /\ opener'[t].grant = TRUE
      /\ opener'[t].call = call /\ call # "connect"
      /\ opener'[t].pnode = opener[t].pnode
      /\ UNCHANGED <<node, copy, phase, refound, direct>>
  BY DEF TakeGrant, NetType, Opener, OnlyOpener
<1>2. OpenersRight'
  BY <1>1 DEF OpenersRight, GrantRight, PnodeRight, OneOpener, Holding, Pointing, OnlyOpener
<1>3. NoSlotLost'
  <2>1. OpenersWithSlot' = OpenersWithSlot \cup {t} /\ t \notin OpenersWithSlot
    BY <1>1 DEF OpenersWithSlot, OnlyOpener, OpenersRight, GrantRight, Holding
  <2>2. NodesWithSlot' = NodesWithSlot
    BY <1>1 DEF NodesWithSlot
  <2>3. /\ IsFiniteSet(OpenersWithSlot) /\ Cardinality(OpenersWithSlot) \in Nat
        /\ Cardinality(NodesWithSlot) \in Nat
    BY CountType
  <2>4. Cardinality(OpenersWithSlot') = Cardinality(OpenersWithSlot) + 1
    BY <2>1, <2>3, FS_AddElement
  <2>5. sem' = sem - 1 /\ sem \in Nat
    BY DEF TakeGrant, NetType
  <2> QED
    BY <2>2, <2>3, <2>4, <2>5 DEF NoSlotLost, SlotsRight
<1> QED
  BY <1>1, <1>2, <1>3, OpenerOnly

\* The thread of -connect begins without one.
LEMMA BeginDirectStep ==
    ASSUME NetInv, NetType', NEW t \in Openers, NEW call, NEW a, BeginDirect(t, call, a)
    PROVE  NetInv'
<1> USE DEF NetInv
<1>1. /\ OnlyOpener(t) /\ opener[t].at = "idle"
      /\ opener'[t].at = "granted" /\ opener'[t].call = "connect"
      /\ opener'[t].grant = opener[t].grant /\ opener'[t].pnode = opener[t].pnode
      /\ UNCHANGED <<node, sem, copy, phase, refound, direct>>
  BY DEF BeginDirect, NetType, Opener, OnlyOpener
<1>2. OpenersRight'
  BY <1>1 DEF OpenersRight, GrantRight, PnodeRight, OneOpener, Holding, Pointing, OnlyOpener
<1>3. NoSlotLost'
  <2>1. OpenersWithSlot' = OpenersWithSlot /\ NodesWithSlot' = NodesWithSlot
    BY <1>1 DEF OpenersWithSlot, OnlyOpener, NodesWithSlot
  <2> QED
    BY <1>1, <2>1 DEF NoSlotLost, SlotsRight
<1> QED
  BY <1>1, <1>2, <1>3, OpenerOnly

\* It looks for the address among the connected nodes.
LEMMA CheckConnectedStep ==
    ASSUME NetInv, NetType', NEW t \in Openers, CheckConnected(t)
    PROVE  NetInv'
<1> USE DEF NetInv
<1>1. UNCHANGED <<node, copy, phase, refound, direct>> /\ opener[t].at = "granted"
  BY DEF CheckConnected
<1>2. NodesWithSlot' = NodesWithSlot
  BY <1>1 DEF NodesWithSlot
<1>3. CASE Finish(t)
  <2>1. /\ OnlyOpener(t) /\ opener'[t].at = "idle" /\ opener'[t].grant = FALSE
        /\ opener'[t].pnode = NoThread
    BY <1>3, FinishDoes
  <2>2. OpenersRight'
    BY <1>1, <2>1, NetAssumption DEF OpenersRight, GrantRight, PnodeRight, OneOpener, Holding, Pointing, OnlyOpener
  <2>3. NoSlotLost'
    BY <1>2, <1>3, FinishSlots DEF SlotsRight
  <2> QED
    BY <1>1, <2>1, <2>2, <2>3, OpenerOnly
<1>4. ASSUME NEW next \in {"lookup", "connecting"}, Step(t, "granted", next), UNCHANGED sem,
             next = "lookup" => opener[t].call # "connect"
      PROVE  NetInv'
  <2>1. /\ OnlyOpener(t) /\ opener'[t].at = next /\ opener'[t].grant = opener[t].grant
        /\ opener'[t].pnode = opener[t].pnode /\ opener'[t].call = opener[t].call
    BY <1>4 DEF Step, OnlyOpener, NetType, Opener
  <2>2. OpenersRight'
    BY <1>1, <1>4, <2>1
    DEF OpenersRight, GrantRight, PnodeRight, OneOpener, Holding, Pointing, OnlyOpener
  <2>3. NoSlotLost'
    <3>1. OpenersWithSlot' = OpenersWithSlot
      BY <2>1 DEF OpenersWithSlot, OnlyOpener
    <3> QED
      BY <1>2, <1>4, <3>1 DEF NoSlotLost, SlotsRight
  <2>4. opener'[t].at # "moved"
    BY <1>4, <2>1
  <2> QED
    BY <1>1, <2>1, <2>2, <2>3, <2>4, OpenerOnly
<1>5. CASE Step(t, "granted", "connecting") /\ UNCHANGED sem
  BY <1>4, <1>5
<1>6. CASE ~Named(t) /\ Step(t, "granted", "lookup") /\ UNCHANGED sem
  BY <1>4, <1>6 DEF Named
<1> QED
  BY <1>3, <1>5, <1>6 DEF CheckConnected

\* ConnectNode finds a node in vNodes: from now on it is one that was found.
LEMMA LookupStep ==
    ASSUME NetInv, NetType', NEW t \in Openers, Lookup(t)
    PROVE  NetInv'
<1> USE DEF NetInv
<1>1. UNCHANGED <<node, sem, copy, phase, direct>> /\ opener[t].at = "lookup"
  BY DEF Lookup
<1>2. ASSUME OnlyOpener(t), opener'[t].grant = opener[t].grant PROVE NoSlotLost'
  <2>1. OpenersWithSlot' = OpenersWithSlot
    BY <1>2 DEF OpenersWithSlot, OnlyOpener
  <2>2. NodesWithSlot' = NodesWithSlot
    BY <1>1 DEF NodesWithSlot
  <2> QED
    BY <1>1, <2>1, <2>2 DEF NoSlotLost, SlotsRight
<1>3. CASE Step(t, "lookup", "connecting") /\ UNCHANGED refound
  <2>1. /\ OnlyOpener(t) /\ opener'[t].at = "connecting" /\ opener'[t].grant = opener[t].grant
        /\ opener'[t].pnode = opener[t].pnode /\ opener'[t].call = opener[t].call
    BY <1>3 DEF Step, OnlyOpener, NetType, Opener
  <2>2. OpenersRight'
    BY <1>1, <1>3, <2>1 DEF OpenersRight, GrantRight, PnodeRight, OneOpener, Holding, Pointing, OnlyOpener
  <2> QED
    BY <1>1, <1>2, <1>3, <2>1, <2>2, OpenerOnly
<1>4. ASSUME NEW n \in Found(opener[t].addr),
             opener' = [opener EXCEPT ![t].at = "found", ![t].pnode = n],
             refound' = refound \cup {n}
      PROVE  NetInv'
  <2>1. /\ OnlyOpener(t) /\ opener'[t].at = "found" /\ opener'[t].grant = opener[t].grant
        /\ opener'[t].pnode = n /\ n \in vNodes /\ n \in Nodes /\ n # NoThread
        /\ opener'[t].call = opener[t].call
    BY <1>4, NetAssumption DEF OnlyOpener, NetType, Opener, Found, vNodes, At
  <2>2. n \in refound' /\ \A m \in refound : m \in refound'
    BY <1>4
  <2>3. \A u \in Openers : u # t => opener'[u] = opener[u]
    BY <2>1 DEF OnlyOpener
  <2>4. OpenersRight'
    <3>1. \A u \in Openers : GrantRight(u)' /\ (opener'[u].pnode # NoThread <=> opener'[u].at \in Pointing)
      BY <1>1, <2>1, <2>3 DEF OpenersRight, GrantRight, PnodeRight, OneOpener, Holding, Pointing
    <3>2. \A u \in Openers :
            /\ opener'[u].at \in {"found", "addref"} => opener'[u].pnode \in refound'
            /\ opener'[u].pnode \in Nodes \ refound' =>
                 /\ u # t /\ opener'[u] = opener[u] /\ opener[u].pnode \in Nodes \ refound
      BY <1>1, <2>1, <2>2, <2>3 DEF OpenersRight, GrantRight, PnodeRight, OneOpener, Holding, Pointing
    <3>3. \A u \in Openers :
            opener'[u].pnode \in Nodes \ refound' /\ opener'[u].at # "network" =>
              LET c == node[opener'[u].pnode]
              IN  ~c.fInbound /\ ~c.fNetworkNode /\ c.place # "deleted"
      BY <3>2 DEF OpenersRight, GrantRight, PnodeRight, OneOpener, Holding, Pointing
    <3>4. \A u, v \in Openers :
            u # v /\ opener'[u].pnode = opener'[v].pnode /\ opener'[u].pnode # NoThread
               => opener'[u].pnode \in refound'
      BY <2>1, <2>2, <2>3 DEF OpenersRight, GrantRight, PnodeRight, OneOpener, Holding, Pointing
    <3> QED
      BY <1>1, <3>1, <3>2, <3>3, <3>4 DEF OpenersRight, GrantRight, PnodeRight, OneOpener, Holding, Pointing
  <2> QED
    BY <1>1, <1>2, <1>4, <2>1, <2>4, OpenerOnly
<1> QED
  BY <1>3, <1>4 DEF Lookup

\* It connects, or fails to.
LEMMA ConnectStep ==
    ASSUME NetInv, NetType', NEW t \in Openers, Connect(t)
    PROVE  NetInv'
<1> USE DEF NetInv
<1>1. UNCHANGED <<copy, phase, refound>> /\ opener[t].at = "connecting"
  BY DEF Connect
<1>2. CASE Finish(t) /\ UNCHANGED <<node, direct>>
  <2>1. /\ OnlyOpener(t) /\ opener'[t].at = "idle" /\ opener'[t].grant = FALSE
        /\ opener'[t].pnode = NoThread
    BY <1>2, FinishDoes
  <2>2. OpenersRight'
    BY <1>1, <1>2, <2>1, NetAssumption DEF OpenersRight, GrantRight, PnodeRight, OneOpener, Holding, Pointing, OnlyOpener
  <2>3. NoSlotLost'
    BY <1>2, FinishSlots DEF SlotsRight, NodesWithSlot
  <2> QED
    BY <1>1, <1>2, <2>1, <2>2, <2>3, OpenerOnly
<1>3. ASSUME NEW n \in At("none"),
             node' = [node EXCEPT ![n] = Created(opener[t].addr, FALSE)],
             opener' = [opener EXCEPT ![t].at = "connected", ![t].pnode = n],
             direct' = IF opener[t].grant THEN direct ELSE direct \cup {n},
             UNCHANGED sem
      PROVE  NetInv'
  <2>1. /\ OnlyOpener(t) /\ opener'[t].at = "connected" /\ opener'[t].grant = opener[t].grant
        /\ opener'[t].pnode = n /\ n \in Nodes /\ n # NoThread /\ node[n].place = "none"
        /\ opener'[t].call = opener[t].call
    BY <1>3, NetAssumption DEF OnlyOpener, NetType, Opener, At
  <2>2. /\ node'[n].place = "vNodes" /\ node'[n].fInbound = FALSE
        /\ node'[n].fNetworkNode = FALSE
        /\ \A m \in Nodes \ {n} : node'[m] = node[m]
    BY <1>3, <2>1 DEF Created, NetType
  <2>3. OpenersWithSlot' = OpenersWithSlot
    BY <2>1 DEF OpenersWithSlot, OnlyOpener
  <2>4. opener[t].addr \in Addrs \cup InboundAddrs
    BY DEF NetType, Opener
  <2>5. PointersRight' /\ RefsRight' /\ SlotsRight'
    <3>1. \A u \in Openers : opener'[u] = opener[u]
                             \/ (opener'[u].pnode = n /\ opener'[u].at = "connected")
      BY <2>1 DEF OnlyOpener
    <3>2. UNCHANGED <<sem, copy, phase, refound>> /\ direct' \in {direct, direct \cup {n}}
      BY <1>1, <1>3
    <3>3. n \in At("none")
      BY <1>3
    <3> DEFINE a == opener[t].addr
    <3>4. node' = [node EXCEPT ![n] = Created(a, FALSE)] /\ a \in Addrs \cup InboundAddrs
      BY <1>3, <2>4
    <3> HIDE DEF a
    <3> QED
      BY <2>3, <3>1, <3>2, <3>3, <3>4, CreatedKeeps
  <2>6. \A u \in Openers : opener[u].pnode # n
    BY <2>1 DEF PointersRight
  <2>9. direct \subseteq direct' /\ (opener[t].grant \/ n \in direct')
    BY <1>3
  <2>7. OpenersRight'
    BY <1>1, <2>1, <2>2, <2>6, <2>9 DEF OpenersRight, GrantRight, PnodeRight, OneOpener, Holding, Pointing, OnlyOpener
  <2>8. InboundRight'
    BY <2>2, InboundKept
  <2> QED
    BY <2>5, <2>7, <2>8
<1> QED
  BY <1>2, <1>3 DEF Connect

\* It reads the count of the node that it found.
LEMMA AddRefReadStep ==
    ASSUME NetInv, NetType', NEW t \in Openers, AddRefRead(t)
    PROVE  NetInv'
<1> USE DEF NetInv
<1>1. /\ OnlyOpener(t) /\ opener[t].at = "found" /\ opener'[t].at = "addref"
      /\ opener'[t].grant = opener[t].grant /\ opener'[t].pnode = opener[t].pnode
      /\ opener'[t].call = opener[t].call
      /\ UNCHANGED <<node, sem, copy, phase, refound, direct>>
  BY DEF AddRefRead, OnlyOpener, NetType, Opener
<1>2. OpenersRight'
  BY <1>1 DEF OpenersRight, GrantRight, PnodeRight, OneOpener, Holding, Pointing, OnlyOpener
<1>3. NoSlotLost'
  <2>1. OpenersWithSlot' = OpenersWithSlot /\ NodesWithSlot' = NodesWithSlot
    BY <1>1 DEF OpenersWithSlot, OnlyOpener, NodesWithSlot
  <2> QED
    BY <1>1, <2>1 DEF NoSlotLost, SlotsRight
<1> QED
  BY <1>1, <1>2, <1>3, OpenerOnly

\* Steps of an opener on its node that leave places, kinds and the counts that are
\* trusted alone.
LEMMA PnodeKeeps ==
    ASSUME NetInv, NetType', NEW t \in Openers, OnlyOpener(t),
           UNCHANGED <<copy, phase, refound, direct>>,
           opener'[t].pnode \in {NoThread, opener[t].pnode},
           opener[t].at # "network",
           \A n \in Nodes :
               /\ node'[n].place = node[n].place /\ node'[n].fInbound = node[n].fInbound
               /\ n \notin refound => node'[n].nRefCount = node[n].nRefCount
    PROVE  PointersRight' /\ RefsRight' /\ InboundRight'
<1> USE DEF NetInv
<1>1. \A u \in Openers : opener'[u].pnode \in {NoThread, opener[u].pnode}
  BY DEF OnlyOpener
<1>2. PointersRight'
  <2>1. \A u \in Openers : opener[u].pnode # NoThread => opener[u].pnode \in Nodes
    BY DEF NetType, Opener
  <2>2. /\ \A h \in Handlers : \A n \in copy[h] : n \in Nodes
        /\ \A n \in refound : n \in Nodes
    BY DEF NetType
  <2> QED
    BY <1>1, <2>1, <2>2 DEF PointersRight
<1>3. RefsRight'
  <2> SUFFICES ASSUME NEW n \in Nodes, n \notin refound
               PROVE  RefRight(n)'
    BY DEF RefsRight
  <2>1. Copies(n)' = Copies(n) /\ RefRight(n)
    BY DEF Copies, InCopy, RefsRight
  <2>2. \A u \in Openers : opener'[u].pnode = n /\ opener'[u].at # "network" =>
            opener[u].pnode = n /\ opener[u].at # "network"
    BY <1>1, NetAssumption DEF OnlyOpener
  <2> QED
    BY <2>1, <2>2 DEF RefRight
<1>4. InboundRight'
  BY InboundKept
<1> QED
  BY <1>2, <1>3, <1>4

\* The count that AddRef writes may be wrong, but only of a node that was found.
LEMMA AddRefWriteStep ==
    ASSUME NetInv, NetType', NEW t \in Openers, AddRefWrite(t)
    PROVE  NetInv'
<1> USE DEF NetInv
<1>1. /\ OnlyOpener(t) /\ opener[t].at = "addref" /\ opener'[t].at = "connected"
      /\ opener'[t].grant = opener[t].grant /\ opener'[t].pnode = opener[t].pnode
      /\ opener'[t].call = opener[t].call
      /\ UNCHANGED <<sem, copy, phase, refound, direct>>
  BY DEF AddRefWrite, Step, OnlyOpener, NetType, Opener
<1>2. opener[t].pnode \in refound
  BY <1>1 DEF OpenersRight, GrantRight, PnodeRight, OneOpener, Holding, Pointing
<1>3. SameButCount /\ \A n \in Nodes \ refound : node'[n] = node[n]
  BY <1>2 DEF AddRefWrite, NetType, CNode, SameButCount
<1>4. PointersRight' /\ RefsRight' /\ InboundRight'
  BY <1>1, <1>3, PnodeKeeps DEF SameButCount
<1>5. OpenersRight'
  BY <1>1, <1>2, <1>3 DEF OpenersRight, GrantRight, PnodeRight, OneOpener, Holding, Pointing, OnlyOpener
<1>6. SlotsRight'
  <2>1. NodesWithSlot' = NodesWithSlot /\ OpenersWithSlot' = OpenersWithSlot /\ vNodes' = vNodes
    BY <1>1, <1>3 DEF OpenersWithSlot, OnlyOpener, NodesWithSlot, SameButCount, vNodes, At
  <2>2. \A n \in vNodes : n \in Nodes
    BY DEF vNodes, At
  <2>3. \A u \in Openers : opener'[u].at = "moved" => opener'[u] = opener[u]
    BY <1>1 DEF OnlyOpener
  <2> QED
    BY <1>1, <1>3, <2>1, <2>2, <2>3 DEF SlotsRight, NoSlotLost, SameButCount
<1> QED
  BY <1>4, <1>5, <1>6

\* The slot goes from the opener to its node; the one the node had is free.
LEMMA MoveToGrant ==
    ASSUME NetInv, NetType', NEW t \in Openers, MoveTo(t), opener[t].grant
    PROVE  NetInv'
<1> USE DEF NetInv
<1> DEFINE m == opener[t].pnode
<1>1. /\ OnlyOpener(t) /\ opener[t].at = "connected" /\ opener'[t].at = "moved"
      /\ opener'[t].grant = FALSE /\ opener'[t].pnode = m
      /\ opener'[t].call = opener[t].call
      /\ UNCHANGED <<copy, phase, refound, direct>>
  BY DEF MoveTo, Moved, OnlyOpener, NetType, Opener
<1>2. m \in Nodes /\ m # NoThread /\ opener[t].grant
  BY <1>1 DEF OpenersRight, GrantRight, PnodeRight, OneOpener, Holding, Pointing, NetType, Opener
<1>3. /\ node'[m].grant = TRUE /\ \A n \in Nodes \ {m} : node'[n].grant = node[n].grant
      /\ \A n \in Nodes :
            /\ node'[n].place = node[n].place /\ node'[n].fInbound = node[n].fInbound
            /\ node'[n].fNetworkNode = node[n].fNetworkNode
            /\ node'[n].nRefCount = node[n].nRefCount
  <2>1. node' = [node EXCEPT ![m].grant = TRUE] /\ node \in [Nodes -> CNode]
    BY DEF MoveTo, NetType
  <2> HIDE DEF m
  <2> QED
    BY <1>2, <2>1 DEF CNode
<1>8. sem' = IF node[m].grant THEN sem + 1 ELSE sem
  BY DEF MoveTo
<1> HIDE DEF m
<1>4. PointersRight' /\ RefsRight' /\ InboundRight'
  BY <1>1, <1>3, PnodeKeeps DEF m
<1>5. OpenersRight'
  <2>1. \A u \in Openers : opener'[u].pnode = opener[u].pnode
    BY <1>1 DEF OnlyOpener, m
  <2> QED
    BY <1>1, <1>3, <2>1 DEF OpenersRight, GrantRight, PnodeRight, OneOpener, Holding, Pointing, OnlyOpener
<1>6. NoSlotLost'
  <2>1. OpenersWithSlot' = OpenersWithSlot \ {t} /\ t \in OpenersWithSlot
    BY <1>1, <1>2 DEF OpenersWithSlot, OnlyOpener
  <2>2. NodesWithSlot' = NodesWithSlot \cup {m}
    BY <1>2, <1>3 DEF NodesWithSlot
  <2>3. /\ IsFiniteSet(NodesWithSlot) /\ Cardinality(NodesWithSlot) \in Nat
        /\ IsFiniteSet(OpenersWithSlot) /\ Cardinality(OpenersWithSlot) \in Nat
    BY CountType
  <2>4. Cardinality(OpenersWithSlot') = Cardinality(OpenersWithSlot) - 1
    BY <2>1, <2>3, FS_RemoveElement
  <2>5. Cardinality(NodesWithSlot') = IF m \in NodesWithSlot
                                      THEN Cardinality(NodesWithSlot)
                                      ELSE Cardinality(NodesWithSlot) + 1
    BY <2>2, <2>3, FS_AddElement
  <2>6. node[m].grant <=> m \in NodesWithSlot
    BY <1>2 DEF NodesWithSlot
  <2>7. sem \in Nat /\ MaxOutbound \in Nat /\ NoSlotLost
    BY NetAssumption DEF SlotsRight, NetType
  <2>8. CASE node[m].grant
    <3>1. Cardinality(NodesWithSlot') = Cardinality(NodesWithSlot) /\ sem' = sem + 1
      BY <1>8, <2>5, <2>6, <2>8
    <3> QED
      BY <3>1, <2>3, <2>4, <2>7 DEF NoSlotLost
  <2>9. CASE ~node[m].grant
    <3>1. Cardinality(NodesWithSlot') = Cardinality(NodesWithSlot) + 1 /\ sem' = sem
      BY <1>8, <2>5, <2>6, <2>9
    <3> QED
      BY <3>1, <2>3, <2>4, <2>7 DEF NoSlotLost
  <2> QED
    BY <2>8, <2>9
<1>7. SlotsRight'
  <2>1. vNodes' = vNodes /\ \A n \in vNodes : n \in Nodes
    BY <1>3 DEF vNodes, At
  <2>2. \A n \in Nodes : node[n].grant => node'[n].grant
    BY <1>2, <1>3
  <2>3. \A n \in Nodes : node'[n].place = "none" => ~node'[n].grant
    <3>1. node[m].place # "none"
      BY <1>2 DEF PointersRight, m
    <3> QED
      BY <1>3, <3>1 DEF SlotsRight
  <2>4. \A n \in vNodes' \ direct' : node'[n].fNetworkNode => node'[n].grant
    BY <1>1, <1>3, <2>1, <2>2 DEF SlotsRight
  <2>5. \A u \in Openers : opener'[u].at = "moved" /\ opener'[u].pnode \in vNodes' \ direct'
                              => node'[opener'[u].pnode].grant
    BY <1>1, <1>3, <2>1, <2>2 DEF SlotsRight, OnlyOpener
  <2> QED
    BY <1>6, <2>3, <2>4, <2>5 DEF SlotsRight
<1> QED
  BY <1>4, <1>5, <1>7

\* Without a grant the step moves nothing: the node is one opened without it.
LEMMA MoveToStep ==
    ASSUME NetInv, NetType', NEW t \in Openers, MoveTo(t)
    PROVE  NetInv'
<1> USE DEF NetInv
<1>1. CASE opener[t].grant
  BY <1>1, MoveToGrant
<1>2. CASE ~opener[t].grant
  <2>1. /\ OnlyOpener(t) /\ opener[t].at = "connected" /\ opener'[t].at = "moved"
        /\ opener'[t].grant = FALSE /\ opener'[t].pnode = opener[t].pnode
        /\ opener'[t].call = opener[t].call
        /\ UNCHANGED <<node, sem, copy, phase, refound, direct>>
    BY <1>2 DEF MoveTo, Moved, OnlyOpener, NetType, Opener
  <2>2. opener[t].call = "connect" /\ opener[t].pnode \in direct
    BY <1>2, <2>1 DEF OpenersRight, GrantRight, Holding
  <2>3. OpenersRight'
    BY <1>2, <2>1, <2>2
    DEF OpenersRight, GrantRight, PnodeRight, OneOpener, Holding, Pointing, OnlyOpener
  <2>4. OpenersWithSlot' = OpenersWithSlot /\ NodesWithSlot' = NodesWithSlot
    BY <1>2, <2>1 DEF OpenersWithSlot, OnlyOpener, NodesWithSlot
  <2>5. NoSlotLost'
    BY <2>1, <2>4 DEF NoSlotLost, SlotsRight
  <2> QED
    BY <2>1, <2>2, <2>3, <2>5, OpenerOnly
<1> QED
  BY <1>1, <1>2

\* The opener may be at its node's one-shot mark after that, and is idle otherwise.
AfterNetwork(o, m) ==
    /\ o.grant = FALSE
    /\ \/ o.at = "idle" /\ o.pnode = NoThread
       \/ o.at = "network" /\ o.pnode = m

\* The node is its opener's no more.  It is a network node from now on, and has a slot
\* if it was opened with one and is connected still.
LEMMA SetNetworkNodeStep ==
    ASSUME NetInv, NetType', NEW t \in Openers, SetNetworkNode(t)
    PROVE  NetInv'
<1> USE DEF NetInv
<1> DEFINE m == opener[t].pnode
<1>1. /\ OnlyOpener(t) /\ opener[t].at = "moved" /\ AfterNetwork(opener'[t], m)
      /\ UNCHANGED <<copy, phase, refound, direct>>
  <2>1. opener[t].at = "moved" /\ UNCHANGED <<copy, phase, refound, direct>>
    BY DEF SetNetworkNode
  <2>2. CASE Finish(t)
    BY <2>1, <2>2, FinishDoes DEF AfterNetwork
  <2>3. CASE Step(t, "moved", "network")
    <3>1. opener[t].grant = FALSE
      BY <2>1 DEF OpenersRight, GrantRight, Holding, NetType, Opener
    <3> QED
      BY <2>1, <2>3, <3>1 DEF AfterNetwork, Step, OnlyOpener, NetType, Opener
  <2> QED
    BY <2>1, <2>2, <2>3 DEF SetNetworkNode
<1>2. m \in Nodes /\ m # NoThread
  BY <1>1 DEF OpenersRight, PnodeRight, Pointing, NetType, Opener
<1>3. /\ \A n \in Nodes \ {m} : node'[n] = node[n]
      /\ \A n \in Nodes :
            /\ node'[n].place = node[n].place /\ node'[n].fInbound = node[n].fInbound
            /\ node'[n].grant = node[n].grant
            /\ node'[n].nRefCount = node[n].nRefCount
  BY <1>2 DEF SetNetworkNode, NetType, CNode
<1>4. PointersRight' /\ RefsRight' /\ InboundRight'
  <2>1. opener'[t].pnode \in {NoThread, opener[t].pnode} /\ opener[t].at # "network"
    BY <1>1 DEF AfterNetwork
  <2> QED
    BY <1>1, <1>3, <2>1, PnodeKeeps
<1>5. OpenersRight'
  <2>1. \A u \in Openers \ {t} : opener[u].pnode \in Nodes \ refound =>
            opener[u].pnode # m
    BY <1>1, <1>2 DEF OpenersRight, OneOpener
  <2>5. m \notin refound \/ m \in refound
    OBVIOUS
  <2> HIDE DEF m
  <2>2. \A u \in Openers \ {t} : opener'[u] = opener[u]
    BY <1>1 DEF OnlyOpener
  <2>3. \A u \in Openers : GrantRight(u)'
    BY <1>1, <2>2 DEF OpenersRight, GrantRight, AfterNetwork, Holding
  <2>4. \A u \in Openers : PnodeRight(u)'
    BY <1>1, <1>2, <1>3, <2>1, <2>2, NetAssumption
    DEF OpenersRight, PnodeRight, AfterNetwork, Pointing
  <2>6. OneOpener'
    BY <1>1, <1>2, <2>2 DEF OpenersRight, OneOpener, AfterNetwork, m
  <2> QED
    BY <2>3, <2>4, <2>6 DEF OpenersRight
<1>6. NoSlotLost'
  <2>1. NodesWithSlot' = NodesWithSlot
    BY <1>3 DEF NodesWithSlot
  <2>2. CASE Finish(t)
    BY <2>1, <2>2, FinishSlots DEF SlotsRight
  <2>3. CASE Step(t, "moved", "network") /\ UNCHANGED sem
    <3>1. opener'[t].grant = opener[t].grant
      BY <2>3 DEF Step, NetType, Opener
    <3>2. OpenersWithSlot' = OpenersWithSlot
      BY <1>1, <3>1 DEF OpenersWithSlot, OnlyOpener
    <3> QED
      BY <2>1, <2>3, <3>2 DEF NoSlotLost, SlotsRight
  <2> QED
    BY <2>2, <2>3 DEF SetNetworkNode
<1>7. SlotsRight'
  <2>1. vNodes' = vNodes /\ \A n \in vNodes : n \in Nodes
    BY <1>3 DEF vNodes, At
  <2>2. \A n \in Nodes : node'[n].place = "none" => ~node'[n].grant
    BY <1>3 DEF SlotsRight
  <2>3. m \in vNodes \ direct => node[m].grant
    BY <1>1 DEF SlotsRight
  <2>4. \A n \in vNodes' \ direct' : node'[n].fNetworkNode => node'[n].grant
    BY <1>1, <1>3, <2>1, <2>3 DEF SlotsRight
  <2>5. \A u \in Openers : opener'[u].at = "moved" => opener'[u] = opener[u]
    BY <1>1 DEF OnlyOpener, AfterNetwork
  <2>6. \A u \in Openers : opener'[u].at = "moved" /\ opener'[u].pnode \in vNodes' \ direct'
                              => node'[opener'[u].pnode].grant
    BY <1>1, <1>3, <2>1, <2>5 DEF SlotsRight
  <2> QED
    BY <1>6, <2>2, <2>4, <2>6 DEF SlotsRight
<1> QED
  BY <1>4, <1>5, <1>7

\* The thread that marks a one-shot changes nothing that is counted.
LEMMA SetOneShotStep ==
    ASSUME NetInv, NetType', NEW t \in Openers, SetOneShot(t)
    PROVE  NetInv'
<1> USE DEF NetInv
<1>1. UNCHANGED <<node, copy, phase, refound, direct>> /\ Finish(t)
  BY DEF SetOneShot
<1>2. /\ OnlyOpener(t) /\ opener'[t].at = "idle" /\ opener'[t].grant = FALSE
      /\ opener'[t].pnode = NoThread
  BY <1>1, FinishDoes
<1>3. OpenersRight'
  BY <1>1, <1>2, NetAssumption
  DEF OpenersRight, GrantRight, PnodeRight, OneOpener, Holding, Pointing, OnlyOpener
<1>4. NoSlotLost'
  BY <1>1, FinishSlots DEF SlotsRight, NodesWithSlot
<1> QED
  BY <1>1, <1>2, <1>3, <1>4, OpenerOnly

-----------------------------------------------------------------------------
(* The invariant *)

\* Every step keeps the invariant.
LEMMA NetStep == NetInv /\ [Next]_vars => NetInv'
<1> SUFFICES ASSUME NetInv, [Next]_vars PROVE NetInv'
  OBVIOUS
<1>0. NetType'
  BY TypeStep DEF NetInv
<1>1. CASE DisconnectNodes
  BY <1>0, <1>1, DisconnectNodesStep
<1>2. CASE DeleteNodes
  BY <1>0, <1>2, DeleteNodesStep
<1>3. CASE ServiceBegin
  BY <1>0, <1>3, TakeCopyStep DEF ServiceBegin, Handlers, NetInv, PointersRight
<1>4. CASE ServiceEnd
  BY <1>0, <1>4, DropCopyStep DEF ServiceEnd, Handlers
<1>5. CASE Accept
  BY <1>0, <1>5, AcceptStep
<1>6. CASE MessageBegin
  BY <1>0, <1>6, TakeCopyStep DEF MessageBegin, Handlers
<1>7. CASE MessageEnd
  BY <1>0, <1>7, DropCopyStep DEF MessageEnd, Handlers
<1>8. ASSUME NEW h \in Handlers, NEW n \in Nodes, Disconnect(h, n) PROVE NetInv'
  BY <1>0, <1>8, DisconnectStep
<1>9. ASSUME NEW t \in Openers, NEW a \in Addrs, NEW call \in Calls[t],
             TakeGrant(t, call, a) \/ BeginDirect(t, call, a)
      PROVE  NetInv'
  BY <1>0, <1>9, TakeGrantStep, BeginDirectStep
<1>10. ASSUME NEW t \in Openers, OpenerStep(t) PROVE NetInv'
  BY <1>0, <1>10, CheckConnectedStep, LookupStep, ConnectStep, AddRefReadStep,
     AddRefWriteStep, MoveToStep, SetNetworkNodeStep, SetOneShotStep DEF OpenerStep
<1>11. CASE UNCHANGED vars
  <2>1. /\ UNCHANGED <<sem, copy, phase, opener, refound, direct>> /\ SameButCount
        /\ \A n \in Nodes : node'[n] = node[n]
    BY <1>11 DEF vars, SameButCount
  <2>2. OpenersRight' /\ SlotsRight' /\ InboundRight'
    BY <1>0, <2>1, CountsKeep
  <2>3. PointersRight'
    BY <2>1, PointersKept DEF NetInv, PointersRight
  <2>4. RefsRight'
    BY <2>1 DEF NetInv, RefsRight, RefRight, Copies, InCopy
  <2> QED
    BY <1>0, <2>2, <2>3, <2>4 DEF NetInv
<1> QED
  BY <1>1, <1>2, <1>3, <1>4, <1>5, <1>6, <1>7, <1>8, <1>9, <1>10, <1>11 DEF Next, SocketHandler

\* The invariant holds throughout.
LEMMA NetAlways == Spec => []NetInv
<1>1. Init => NetInv
  BY InitNet
<1>2. NetInv /\ [Next]_vars => NetInv'
  BY NetStep
<1> QED
  BY <1>1, <1>2, PTL DEF Spec

-----------------------------------------------------------------------------
(* The theorems *)

\* Two handlers take copies.
LEMMA UsesIs == \A n : Uses(n) = Copies(n)
<1> SUFFICES ASSUME NEW n PROVE Uses(n) = Copies(n)
  OBVIOUS
<1> DEFINE H == {h \in Handlers : n \in copy[h]}
<1>1. H = (IF n \in copy["socket"] THEN {"socket"} ELSE {})
            \cup (IF n \in copy["message"] THEN {"message"} ELSE {})
  BY DEF Handlers
<1>2. /\ Cardinality({}) = 0
      /\ IsFiniteSet({"socket"}) /\ Cardinality({"socket"}) = 1
      /\ Cardinality({"message"}) = 1
  BY FS_EmptySet, FS_Singleton
<1>3. Cardinality({"socket"} \cup {"message"}) = 2
  <2>1. "message" \notin {"socket"}
    OBVIOUS
  <2>2. Cardinality({"socket"} \cup {"message"}) = Cardinality({"socket"}) + 1
    BY <1>2, <2>1, FS_AddElement
  <2> QED
    BY <1>2, <2>2
<1>4. Uses(n) = Cardinality(H)
  BY DEF Uses
<1> HIDE DEF H
<1>5. CASE n \in copy["socket"] /\ n \in copy["message"]
  BY <1>1, <1>3, <1>4, <1>5 DEF Copies, InCopy
<1>6. CASE n \in copy["socket"] /\ n \notin copy["message"]
  <2>1. H = {"socket"}
    BY <1>1, <1>6
  <2> QED
    BY <1>2, <1>4, <1>6, <2>1 DEF Copies, InCopy
<1>7. CASE n \notin copy["socket"] /\ n \in copy["message"]
  <2>1. H = {"message"}
    BY <1>1, <1>7
  <2> QED
    BY <1>2, <1>4, <1>7, <2>1 DEF Copies, InCopy
<1>8. CASE n \notin copy["socket"] /\ n \notin copy["message"]
  <2>1. H = {}
    BY <1>1, <1>8
  <2> QED
    BY <1>2, <1>4, <1>8, <2>1 DEF Copies, InCopy
<1> QED
  BY <1>5, <1>6, <1>7, <1>8

\* GetRefCount, assert(nRefCount >= 0): unless ConnectNode found the node already
\* connected, its count is the copies that hold it, and one for the connection.
THEOREM RefCountsAreAccurate == Spec => []RefCountAccurate
<1>1. NetInv => RefCountAccurate
  BY UsesIs DEF NetInv, RefsRight, RefRight, RefCountAccurate
<1> QED
  BY <1>1, NetAlways, PTL

\* ThreadSocketHandler, "wait until threads are done using it": nobody holds a pointer
\* to a deleted node that ConnectNode did not find already connected, but a thread that
\* is about to mark a one-shot may.
THEOREM NotDeletedInUse == Spec => []NotDeletedInUseUnlessRefound
<1>1. NetInv => NotDeletedInUseUnlessRefound
  <2> SUFFICES ASSUME NetInv, NEW n \in At("deleted") \ refound
               PROVE  Users(n) \subseteq MarksOneShot
    BY DEF NotDeletedInUseUnlessRefound
  <2>1. n \in Nodes \ refound /\ node[n].place = "deleted"
    BY DEF At
  <2>2. \A h \in Handlers : n \notin copy[h]
    BY <2>1 DEF NetInv, RefsRight, RefRight
  <2>3. \A t \in Openers : opener[t].pnode = n => opener[t].at = "network"
    BY <2>1 DEF NetInv, OpenersRight, PnodeRight
  <2> QED
    BY <2>2, <2>3 DEF Users, MarksOneShot
<1> QED
  BY <1>1, NetAlways, PTL

\* "nInbound >= nMaxConnections - MAX_OUTBOUND_CONNECTIONS" and semOutbound: neither
\* inbound connections nor those opened with a grant exceed their share, and no slot
\* is lost or made up.
THEOREM LimitsAreKept == Spec => []WithinLimits
<1>1. NetInv => WithinLimits
  <2> SUFFICES ASSUME NetInv PROVE WithinLimits
    OBVIOUS
  <2> USE DEF NetInv
  <2> DEFINE network == {n \in vNodes \ direct : node[n].fNetworkNode}
  <2>1. /\ IsFiniteSet(NodesWithSlot) /\ Cardinality(NodesWithSlot) \in Nat
        /\ Cardinality(OpenersWithSlot) \in Nat /\ NoSlotLost /\ sem \in Nat
    BY CountType DEF SlotsRight, NetType
  <2>2. network \in SUBSET NodesWithSlot
    BY DEF SlotsRight, NodesWithSlot, vNodes, At
  <2>3. IsFiniteSet(network) /\ Cardinality(network) <= Cardinality(NodesWithSlot)
    BY <2>1, <2>2, FS_Subset
  <2>4. Cardinality(network) \in Nat
    BY <2>3, FS_CardinalityType
  <2>5. Slots(Nodes) = Cardinality(NodesWithSlot)
    BY DEF Slots, NodesWithSlot
  <2>6. Cardinality({t \in Openers : opener[t].grant}) = Cardinality(OpenersWithSlot)
    BY DEF OpenersWithSlot
  <2>7. Cardinality({n \in vNodes : node[n].fInbound}) <= MaxInbound
    BY DEF InboundRight, Inbound
  <2>8. MaxOutbound \in Nat
    BY NetAssumption
  <2>9. TypeOK
    <3>1. sem \in 0..MaxOutbound
      BY <2>1, <2>8 DEF NoSlotLost
    <3> QED
      BY <3>1 DEF TypeOK, NetType
  <2> HIDE DEF network
  <2>10. Cardinality(network) <= MaxOutbound
    BY <2>1, <2>3, <2>4, <2>8 DEF NoSlotLost
  <2>11. sem + Slots(Nodes) + Cardinality({t \in Openers : opener[t].grant}) = MaxOutbound
    BY <2>1, <2>5, <2>6 DEF NoSlotLost
  <2> QED
    BY <2>7, <2>9, <2>10, <2>11 DEF WithinLimits, network
<1> QED
  BY <1>1, NetAlways, PTL

=============================================================================
