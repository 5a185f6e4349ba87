----------------------------- MODULE Connecting -----------------------------
(***************************************************************************)
(* Whom a node connects to (net.cpp): ThreadDNSAddressSeed,                *)
(* ThreadOpenConnections with its one-shots and its choice of an address,  *)
(* ThreadOpenAddedConnections, and the peers that connect.                 *)
(*                                                                         *)
(* A node's life and its slot are in NetNodes; here the slots are counted  *)
(* from the nodes and threads that hold one.  Names resolve, and sockets   *)
(* connect, as the environment chooses.  addrman is the set of what Select *)
(* may return; the tries of the choice are scaled down by TryUnit.         *)
(***************************************************************************)
EXTENDS Integers, SequencesExt

CONSTANTS
    Addrs, NoAddr, Group, IsLocal, IsLimited, OtherPort,
    Peers,                \* addresses that connect to us
    Names, Resolves,      \* Names -> SUBSET Addrs
    Seeds, FixedSeeds,    \* a sequence of names, and addresses
    AddedNodes,           \* -addnode: a sequence of sequences of addresses
    Options,              \* what the command line and peers.dat may hold
    MaxOutbound,
    Triggers,             \* the values of nTries that tell the conditions apart
    MaxNodes,             \* a bound of the model
    Rounds                \* the period of i in the rounds of the added nodes

VARIABLES
    options,
    vNodes, addresses, vOneShots, late,
    seeder, opencon, addcon,
    settled               \* ghost: one-shots that connected, or found no slot

world == <<vNodes, addresses, vOneShots, late>>
threads == <<seeder, opencon, addcon>>
vars == <<options, world, threads, settled>>

Node(addr, name, inbound, grant, by) ==
    [addr |-> addr, name |-> name, fInbound |-> inbound, grant |-> grant, by |-> by]

\* A thread that opens connections: where it is, what for, whether it has a slot.
Idle(at) == [at |-> at, kind |-> "none", dest |-> NoAddr, grant |-> FALSE]

Init ==
    /\ options \in Options
    /\ vNodes = << >> /\ vOneShots = << >>
    /\ addresses = options.known
    /\ late = FALSE
    /\ seeder = [at |-> "start", next |-> 1]
    /\ opencon = [thread |-> Idle("loop"), next |-> 1, setConnected |-> {}, done |-> FALSE]
    /\ addcon = [thread |-> Idle("round"), i |-> 0, todo |-> << >>]
    /\ settled = {}

FreeSlots ==
    MaxOutbound - Len(SelectSeq(vNodes, LAMBDA n : n.grant))
      - (IF opencon.thread.grant THEN 1 ELSE 0) - (IF addcon.thread.grant THEN 1 ELSE 0)

Connected(a) == \E i \in DOMAIN vNodes : vNodes[i].addr = a

-----------------------------------------------------------------------------
(* OpenNetworkConnection, by a thread th *)

Refused(dest) ==
    \/ dest \in Names /\ \E i \in DOMAIN vNodes : vNodes[i].name = dest
    \/ dest \in Addrs /\ (IsLocal[dest] \/ Connected(dest))

Begin(th, kind, dest, grant) ==
    [th EXCEPT !.at = "check", !.kind = kind, !.dest = dest, !.grant = grant]

\* Where the thread goes on.
After(th) == Idle(CASE th.kind = "oneshot" -> "wait"
                    [] th.kind \in {"connect", "pick"} -> "loop"
                    [] th.kind = "added" -> "next")

\* Mutant of Retried: a one-shot that fails is forgotten.
RetriedNever(th) == vOneShots

\* ProcessOneShot: if (!OpenNetworkConnection(...)) AddOneShot(strDest)
Retried(th) == IF th.kind = "oneshot" THEN Append(vOneShots, th.dest) ELSE vOneShots

\* What a step of the call does to the thread, the nodes, the one-shots and settled.
Result(th, nodes, shots, done) ==
    [thread |-> th, vNodes |-> nodes, vOneShots |-> shots, settled |-> done]

Failed(th) == Result(After(th), vNodes, Retried(th), settled)

\* An address may be banned (LocalHost has the bans).
Check(th) ==
    (IF Refused(th.dest) \/ th.dest \in Addrs THEN {Failed(th)} ELSE {}) \cup
    (IF Refused(th.dest) THEN {}
     ELSE {Result([th EXCEPT !.at = "connect"], vNodes, vOneShots, settled)})

First(a) == CHOOSE i \in DOMAIN vNodes :
    vNodes[i].addr = a /\ \A j \in 1..(i - 1) : vNodes[j].addr # a

\* ConnectNode; a connection to the address that was made meanwhile is taken over.
Connect(th) ==
    LET found == th.dest \in Addrs /\ Connected(th.dest)
        to == IF th.dest \in Names THEN Resolves[th.dest] ELSE {th.dest}
        nodes(a) == IF found THEN [vNodes EXCEPT ![First(a)].grant = @ \/ th.grant]
                    ELSE Append(vNodes, Node(a, th.dest, FALSE, th.grant, th.kind))
        done == IF th.kind = "oneshot" THEN settled \cup {th.dest} ELSE settled
    IN  (IF found THEN {} ELSE {Failed(th)}) \cup
        {Result(After(th), nodes(a), vOneShots, done) :
            a \in IF found \/ Len(vNodes) < MaxNodes THEN to ELSE {}}

\* The steps of the thread in OpenNetworkConnection.
Steps(th) == CASE th.at = "check" -> Check(th) [] th.at = "connect" -> Connect(th)
               [] OTHER -> {}

Took(r) == vNodes' = r.vNodes /\ vOneShots' = r.vOneShots /\ settled' = r.settled

-----------------------------------------------------------------------------
(* ThreadDNSAddressSeed *)

\* goal: only query DNS seeds if address need is acute
SeedStart ==
    /\ \/ /\ seeder.at = "start"
          /\ seeder' = [seeder EXCEPT !.at = IF addresses # {} /\ ~options.forcednsseed
                                              THEN "slept" ELSE "seeds"]
       \/ /\ seeder.at = "slept"
          /\ seeder' = [seeder EXCEPT !.at = IF Len(vNodes) >= 2 THEN "done" ELSE "seeds"]
    /\ UNCHANGED <<options, world, opencon, addcon, settled>>

\* A proxy resolves the names for us when we connect; LookupHost may fail.
SeedNext ==
    /\ seeder.at = "seeds" /\ seeder.next <= Len(Seeds)
    /\ seeder' = [seeder EXCEPT !.next = @ + 1]
    /\ IF options.nameproxy
       THEN vOneShots' = Append(vOneShots, Seeds[seeder.next]) /\ UNCHANGED addresses
       ELSE /\ \E found \in {{}, Resolves[Seeds[seeder.next]]} : addresses' = addresses \cup found
            /\ UNCHANGED vOneShots
    /\ UNCHANGED <<options, vNodes, late, opencon, addcon, settled>>

-----------------------------------------------------------------------------
(* ThreadOpenConnections *)

\* ProcessOneShot: without a free slot the destination is lost.
ProcessOneShot ==
    /\ opencon.thread.at = "loop"
    /\ IF vOneShots = << >>
       THEN /\ opencon' = [opencon EXCEPT !.thread.at = "wait"]
            /\ UNCHANGED <<vOneShots, settled>>
       ELSE /\ vOneShots' = Tail(vOneShots)
            /\ IF FreeSlots > 0
               THEN /\ opencon' = [opencon EXCEPT !.thread =
                                      Begin(@, "oneshot", Head(vOneShots), TRUE)]
                    /\ UNCHANGED settled
               ELSE /\ opencon' = [opencon EXCEPT !.thread.at = "wait"]
                    /\ settled' = settled \cup {Head(vOneShots)}
    /\ UNCHANGED <<options, vNodes, addresses, late, seeder, addcon>>

\* -connect: each name in turn, without a slot.
ConnectSpecific ==
    /\ options.connect # << >> /\ opencon.thread.at = "wait"
    /\ opencon' = [opencon EXCEPT
                     !.thread = Begin(@, "connect", options.connect[opencon.next], FALSE),
                     !.next = (@ % Len(options.connect)) + 1]
    /\ UNCHANGED <<options, world, seeder, addcon, settled>>

\* Mutant of Outbound: the flag the other way round.
OutboundNot(n) == n.fInbound
Outbound(n) == ~n.fInbound

\* The slot; the fixed seeds, once and after a minute without an address; and the
\* groups that are connected.
Prepare ==
    /\ options.connect = << >> /\ opencon.thread.at = "wait" /\ FreeSlots > 0
    /\ LET reseed == addresses = {} /\ late /\ ~opencon.done
       IN  /\ addresses' = IF reseed THEN FixedSeeds ELSE addresses
           /\ opencon' = [opencon EXCEPT
                 !.thread.at = "choose", !.thread.grant = TRUE, !.done = @ \/ reseed,
                 !.setConnected =
                    {Group[vNodes[i].addr] : i \in {j \in DOMAIN vNodes : Outbound(vNodes[j])}}]
    /\ UNCHANGED <<options, vNodes, vOneShots, late, seeder, addcon, settled>>

\* May Select's n-th address be the one? Recently tried ones may after 30 tries,
\* other ports after 50, and none after 100.
Considered(a, nTries, recent) ==
    /\ ~IsLimited[a]
    /\ nTries <= 100
    /\ recent => nTries >= 30
    /\ OtherPort[a] => nTries >= 50

Choose ==
    /\ opencon.thread.at = "choose"
    /\ \/ opencon' = [opencon EXCEPT !.thread = Idle("loop"), !.setConnected = {}]
       \/ \E a \in addresses, nTries \in Triggers, recent \in BOOLEAN :
            /\ Group[a] \notin opencon.setConnected /\ ~IsLocal[a]
            /\ Considered(a, nTries, recent)
            /\ opencon' = [opencon EXCEPT !.thread = Begin(@, "pick", a, TRUE),
                                          !.setConnected = {}]
    /\ UNCHANGED <<options, world, seeder, addcon, settled>>

OpenConnections ==
    /\ \E r \in Steps(opencon.thread) : Took(r) /\ opencon' = [opencon EXCEPT !.thread = r.thread]
    /\ UNCHANGED <<options, addresses, late, seeder, addcon>>

Opencon == ProcessOneShot \/ ConnectSpecific \/ Prepare \/ Choose \/ OpenConnections

-----------------------------------------------------------------------------
(* ThreadOpenAddedConnections *)

\* Mutant of Erased: nothing makes up for the step of the loop.
ErasedForward(list, it) == [list |-> RemoveAt(list, it), it |-> it]

\* it = erase(it); it--: position 0 is the list's end, which comes before the first.
Erased(list, it) == [list |-> RemoveAt(list, it), it |-> it - 1]

\* For every node the iterator runs from the first entry to the end.
RemoveConnected(entries, n) ==
    LET turn == [s \in [list : Seq(Seq(Addrs)), it : Nat] |->
                    IF s.it > Len(s.list) THEN s
                    ELSE LET e == IF Contains(s.list[s.it], n.addr)
                                  THEN Erased(s.list, s.it) ELSE s
                         IN  [e EXCEPT !.it = @ + 1]]
        run[k \in 0..Len(entries)] ==
            IF k = 0 THEN [list |-> entries, it |-> 1] ELSE turn[run[k - 1]]
    IN  run[Len(entries)].list

ToAdd == FoldLeft(RemoveConnected, AddedNodes, vNodes)

\* With a proxy for names every name is tried, connected or not.
Round ==
    /\ addcon.thread.at = "round"
    /\ addcon' = [addcon EXCEPT !.thread.at = "next",
                     !.todo = IF options.nameproxy THEN options.addnode ELSE ToAdd]
    /\ UNCHANGED <<options, world, seeder, opencon, settled>>

\* Mutant of NextRound: always the first address of an entry.
NextRoundFirst(i) == i
NextRound(i) == (i + 1) % Rounds

NextAdded ==
    /\ addcon.thread.at = "next"
    /\ IF addcon.todo = << >>
       THEN addcon' = [addcon EXCEPT !.thread.at = "round", !.i = NextRound(@)]
       ELSE /\ FreeSlots > 0
            /\ LET e == Head(addcon.todo)
                   dest == IF options.nameproxy THEN e ELSE e[(addcon.i % Len(e)) + 1]
               IN  addcon' = [addcon EXCEPT !.thread = Begin(@, "added", dest, TRUE),
                                            !.todo = Tail(@)]
    /\ UNCHANGED <<options, world, seeder, opencon, settled>>

OpenAdded ==
    /\ \E r \in Steps(addcon.thread) : Took(r) /\ addcon' = [addcon EXCEPT !.thread = r.thread]
    /\ UNCHANGED <<options, addresses, late, seeder, opencon>>

Addcon == Round \/ NextAdded \/ OpenAdded

-----------------------------------------------------------------------------
\* ThreadSocketHandler: a peer connects.
Accept(p) ==
    /\ Len(vNodes) < MaxNodes
    /\ vNodes' = Append(vNodes, Node(p, p, TRUE, FALSE, "peer"))
    /\ UNCHANGED <<options, addresses, vOneShots, late, threads, settled>>

Disconnect(i) ==
    /\ vNodes' = RemoveAt(vNodes, i)
    /\ UNCHANGED <<options, addresses, vOneShots, late, threads, settled>>

\* A minute has passed since the thread started.
Minute ==
    /\ ~late /\ late' = TRUE
    /\ UNCHANGED <<options, vNodes, addresses, vOneShots, threads, settled>>

Environment ==
    \/ \E p \in Peers : Accept(p)
    \/ \E i \in DOMAIN vNodes : Disconnect(i)
    \/ Minute

Next == SeedStart \/ SeedNext \/ Opencon \/ Addcon \/ Environment

Spec == Init /\ [][Next]_vars

\* The thread runs for ever, and a connect times out.
Fairness == WF_addcon(Addcon)

-----------------------------------------------------------------------------
(* Properties *)

\* "Only connect out to one peer per network group": of the connections that
\* ThreadOpenConnections chose, no two are in one group.
OneOutboundPerGroup ==
    \A i, j \in DOMAIN vNodes :
        (i # j /\ vNodes[i].by = "pick" /\ vNodes[j].by = "pick") =>
            Group[vNodes[i].addr] # Group[vNodes[j].addr]

\* ThreadOpenAddedConnections, "until at least one is successful per addnode
\* entry": whatever is connected, the loop leaves the entries none of whose
\* addresses is, in their order.
AddedLeft ==
    ToAdd = SelectSeq(AddedNodes, LAMBDA e : \A k \in DOMAIN e : ~Connected(e[k]))

\* A seed that is to be connected to waits, is being tried, has connected, or came
\* when every slot was taken.
OneShotsKept ==
    options.nameproxy =>
        \A k \in 1..(seeder.next - 1) :
            Seeds[k] \in Range(vOneShots) \cup settled \cup
                (IF opencon.thread.kind = "oneshot" THEN {opencon.thread.dest} ELSE {})

\* Every address of an entry that is not connected is tried again and again, unless
\* all slots are taken (options.watched is any one of those addresses).
AddedTried ==
    []<>(\/ FreeSlots = 0 \/ options.nameproxy
         \/ \E e \in Range(AddedNodes) :
              Contains(e, options.watched) /\ \E j \in DOMAIN e : Connected(e[j])
         \/ addcon.thread.kind = "added" /\ addcon.thread.dest = options.watched)
=============================================================================
