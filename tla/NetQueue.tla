------------------------------ MODULE NetQueue ------------------------------
(***************************************************************************)
(* One connection between two nodes that both run this code (net.cpp):     *)
(* the send queue of each, the bytes in the sockets' buffers, the messages *)
(* being put together on the other side, and the rules by which            *)
(* ThreadSocketHandler chooses to send, to receive or to do neither.       *)
(*                                                                         *)
(* A message is a header of HeaderSize units and a payload; a unit knows   *)
(* the message it is of, so that a header made of the wrong units does not *)
(* parse.  What main.cpp does with a message, and BeginMessage and         *)
(* EndMessage, are modelled by their use: a request is answered by one     *)
(* reply, requests are made at will, and a message that finds the send     *)
(* queue empty is sent at once as far as the socket takes it.              *)
(***************************************************************************)
EXTENDS Integers, SequencesExt

CONSTANTS
    Peers,              \* two
    HeaderSize,         \* 24
    RequestSize,        \* payloads
    ReplySize,
    MaxSize,            \* MAX_SIZE
    SocketBuffer,       \* units the network holds for each direction
    SendBufferSize,     \* -maxsendbuffer
    ReceiveFloodSize,   \* -maxreceivebuffer
    Ahead,              \* 256 KiB
    MaxRequests,        \* [Peers -> Nat]; bounds of the model: on requests, and on the
    MaxUnasked          \* units that recv brings without being selected for

ASSUME QueueAssumption ==
    /\ \E x, y \in Peers : x # y /\ Peers = {x, y}
    /\ {HeaderSize, SocketBuffer} \subseteq Nat \ {0}
    /\ {RequestSize, ReplySize, MaxSize, SendBufferSize, ReceiveFloodSize,
        Ahead} \subseteq Nat
    /\ MaxRequests \in [Peers -> Nat] /\ MaxUnasked \in [Peers -> Nat]

VARIABLES
    conn,        \* each peer's CNode for the other, and the units it has sent
    pushed,      \* messages each peer has queued, in order
    processed,   \* messages each peer has taken from its receive buffer
    unasked      \* units each has received after an error of select(), or from a socket
                 \* in its error set, since the receive buffer was last looked at (ghost)

vars == <<conn, pushed, processed, unasked>>

Other(p) == CHOOSE q \in Peers : q # p

Message == [id : Nat, request : BOOLEAN, size : Nat]
SizeOf(m) == HeaderSize + m.size
Units(m) == [i \in 1..SizeOf(m) |-> [msg |-> m, pos |-> i]]
Unit == [msg : Message, pos : Nat \ {0}]

\* CNetMessage; nHdrPos and nDataPos are the lengths of hdr and data.
CNetMessage == [in_data : BOOLEAN, hdr : Seq(Unit), data : Seq(Unit), vRecv : Nat]
NewMessage == [in_data |-> FALSE, hdr |-> << >>, data |-> << >>, vRecv |-> 0]

TypeOK ==
    /\ pushed \in [Peers -> Seq(Message)]
    /\ processed \in [Peers -> Seq(Message)]
    /\ unasked \in [Peers -> Nat]
    /\ DOMAIN conn = Peers
    /\ \A p \in Peers :
         /\ conn[p].vSendMsg \in Seq(Message)
         /\ conn[p].nSendOffset \in Nat
         /\ conn[p].nSendSize \in Nat
         /\ conn[p].vRecvMsg \in Seq(CNetMessage)
         /\ conn[p].wire \in Seq(Unit) /\ Len(conn[p].wire) <= SocketBuffer
         /\ conn[p].fDisconnect \in BOOLEAN

Init ==
    /\ conn = [p \in Peers |-> [vSendMsg |-> << >>, nSendOffset |-> 0, nSendSize |-> 0,
                                vRecvMsg |-> << >>, wire |-> << >>,
                                fDisconnect |-> FALSE]]
    /\ pushed = [p \in Peers |-> << >>]
    /\ processed = [p \in Peers |-> << >>]
    /\ unasked = [p \in Peers |-> 0]

-----------------------------------------------------------------------------
(* Sending *)

Stream(msgs) == FlattenSeq([i \in DOMAIN msgs |-> Units(msgs[i])])
SumOfSizes(msgs) == Len(Stream(msgs))

\* Mutant of Sent: one message is taken off nSendSize, however many are done.
SentCountedOnce(c, k) ==
    LET off  == c.nSendOffset + k
        done == {i \in 0..Len(c.vSendMsg) : SumOfSizes(SubSeq(c.vSendMsg, 1, i)) <= off}
        n    == Max(done)
    IN  [c EXCEPT !.wire = @ \o SubSeq(Stream(c.vSendMsg), c.nSendOffset + 1, off),
                  !.vSendMsg = SubSeq(@, n + 1, Len(@)),
                  !.nSendOffset = off - SumOfSizes(SubSeq(c.vSendMsg, 1, n)),
                  !.nSendSize = IF n = 0 THEN @ ELSE @ - SizeOf(Head(c.vSendMsg))]
\* SocketSendData when the calls of send() take k units in all.  A call that takes
\* part of a message, or nothing, is the last.
Sent(c, k) ==
    LET off  == c.nSendOffset + k
        done == {i \in 0..Len(c.vSendMsg) : SumOfSizes(SubSeq(c.vSendMsg, 1, i)) <= off}
        n    == Max(done)
        size == SumOfSizes(SubSeq(c.vSendMsg, 1, n))
    IN  [c EXCEPT !.wire = @ \o SubSeq(Stream(c.vSendMsg), c.nSendOffset + 1, off),
                  !.vSendMsg = SubSeq(@, n + 1, Len(@)),
                  !.nSendOffset = off - size,
                  !.nSendSize = @ - size]

SocketSendData(c) ==
    LET room == SocketBuffer - Len(c.wire)
        left == SumOfSizes(c.vSendMsg) - c.nSendOffset
    IN  {Sent(c, k) : k \in 0..Min({room, left})}

\* EndMessage: queue m; when the queue was empty, try to send it at once.
EndMessage(c, m) ==
    LET queued == [c EXCEPT !.vSendMsg = Append(@, m), !.nSendSize = @ + SizeOf(m)]
    IN  IF c.vSendMsg = << >> THEN SocketSendData(queued) ELSE {queued}

PushMessage(p, c, request) ==
    LET m == [id |-> Len(pushed[p]) + 1, request |-> request,
              size |-> IF request THEN RequestSize ELSE ReplySize]
    IN  /\ \E d \in EndMessage(c, m) : conn' = [conn EXCEPT ![p] = d]
        /\ pushed' = [pushed EXCEPT ![p] = Append(@, m)]

-----------------------------------------------------------------------------
(* Receiving *)

complete(msg) ==
    msg.in_data /\ Len(msg.data) = msg.hdr[1].msg.size

\* hdrbuf >> hdr, and the check of nMessageSize
Parses(hdr) ==
    /\ \E m \in {u.msg : u \in Range(hdr)} : hdr = SubSeq(Units(m), 1, HeaderSize)
    /\ hdr[1].msg.size <= MaxSize

readHeader(msg, bytes) ==
    LET nCopy == Min({HeaderSize - Len(msg.hdr), Len(bytes)})
        hdr   == msg.hdr \o SubSeq(bytes, 1, nCopy)
    IN  [msg |-> [msg EXCEPT !.hdr = hdr, !.in_data = (Len(hdr) = HeaderSize)],
         handled |-> IF Len(hdr) = HeaderSize /\ ~Parses(hdr) THEN -1 ELSE nCopy]

\* Mutant of readData: everything that has arrived is taken for this message.
readDataGreedy(msg, bytes) ==
    [msg |-> [msg EXCEPT !.data = @ \o bytes, !.vRecv = Len(msg.data) + Len(bytes)],
     handled |-> Len(bytes)]
readData(msg, bytes) ==
    LET size  == msg.hdr[1].msg.size
        nCopy == Min({size - Len(msg.data), Len(bytes)})
        end   == Len(msg.data) + nCopy
    IN  [msg |-> [msg EXCEPT !.data = @ \o SubSeq(bytes, 1, nCopy),
                             !.vRecv = IF @ < end THEN Min({size, end + Ahead}) ELSE @],
         handled |-> nCopy]

\* One turn of the loop of ReceiveMsgBytes.
Absorb(s) ==
    LET v == IF s.vRecvMsg = << >> \/ complete(Last(s.vRecvMsg))
             THEN Append(s.vRecvMsg, NewMessage) ELSE s.vRecvMsg
        r == IF Last(v).in_data THEN readData(Last(v), s.bytes)
                                ELSE readHeader(Last(v), s.bytes)
    IN  IF s.bytes = << >> \/ ~s.ok THEN s
        ELSE [vRecvMsg |-> [v EXCEPT ![Len(v)] = r.msg],
              bytes |-> IF r.handled < 0 THEN << >>
                        ELSE SubSeq(s.bytes, r.handled + 1, Len(s.bytes)),
              ok |-> r.handled >= 0]

ReceiveMsgBytes(vRecvMsg, bytes) ==
    LET Turn[i \in 0..Len(bytes)] ==
          IF i = 0 THEN [vRecvMsg |-> vRecvMsg, bytes |-> bytes, ok |-> TRUE]
          ELSE Absorb(Turn[i - 1])
    IN  Turn[Len(bytes)]

GetTotalRecvSize(c) ==
    LET total[i \in 0..Len(c.vRecvMsg)] ==
          IF i = 0 THEN 0 ELSE total[i - 1] + c.vRecvMsg[i].vRecv + HeaderSize
    IN  total[Len(c.vRecvMsg)]

-----------------------------------------------------------------------------
(* The threads *)

\* A closed socket ends the connection: no step after it matters here.
Up == \A p \in Peers : ~conn[p].fDisconnect

\* fdsetSend: there is something to send; select() says the socket takes it.
SelectSend(p) == conn[p].vSendMsg # << >>
\* Mutant of SelectRecv: a flood of received data is not looked at.
SelectRecvUnlimited(p) == ~SelectSend(p)
\* Mutant of SelectRecv: only an empty receive buffer is filled.
SelectRecvWhenEmpty(p) == ~SelectSend(p) /\ conn[p].vRecvMsg = << >>
\* No complete message, or room for more.
HasRoom(p) ==
    (conn[p].vRecvMsg # << >> /\ complete(Head(conn[p].vRecvMsg)))
      => GetTotalRecvSize(conn[p]) <= ReceiveFloodSize
\* fdsetRecv: nothing to send, and room.
SelectRecv(p) == ~SelectSend(p) /\ HasRoom(p)

SocketSend(p) ==
    /\ Up /\ SelectSend(p)
    /\ UNCHANGED <<pushed, processed, unasked>>
    /\ \E d \in SocketSendData(conn[p]) : conn' = [conn EXCEPT ![p] = d]

\* One call of recv brings n units.
Recv(p, n) ==
    LET bytes == SubSeq(conn[Other(p)].wire, 1, n)
        got   == ReceiveMsgBytes(conn[p].vRecvMsg, bytes)
    IN  conn' = [conn EXCEPT
                   ![p].vRecvMsg = IF got.ok THEN got.vRecvMsg ELSE << >>,
                   ![p].fDisconnect = ~got.ok,
                   ![Other(p)].wire = SubSeq(@, n + 1, Len(@))]

SocketRecv(p) ==
    /\ Up /\ SelectRecv(p)
    /\ unasked' = [unasked EXCEPT ![p] = 0] /\ UNCHANGED <<pushed, processed>>
    /\ \E n \in 1..Len(conn[Other(p)].wire) : Recv(p, n)

\* The message handler holds cs_vSend when ThreadSocketHandler looks for something to
\* send: it goes on to the receive buffer.
SocketRecvContended(p) ==
    /\ Up /\ SelectSend(p) /\ HasRoom(p)
    /\ unasked' = [unasked EXCEPT ![p] = 0] /\ UNCHANGED <<pushed, processed>>
    /\ \E n \in 1..Len(conn[Other(p)].wire) : Recv(p, n)

\* select() has failed, which puts every socket into fdsetRecv, or the socket is in
\* fdsetError: recv is called, whatever is queued or buffered.
SocketRecvUnasked(p) ==
    /\ Up /\ UNCHANGED <<pushed, processed>>
    /\ \E n \in 1..Len(conn[Other(p)].wire) :
         /\ unasked[p] + n <= MaxUnasked[p]
         /\ unasked' = [unasked EXCEPT ![p] = @ + n]
         /\ Recv(p, n)

CanProcess(p) ==
    /\ conn[p].vRecvMsg # << >>
    /\ complete(Head(conn[p].vRecvMsg))
    /\ conn[p].nSendSize < SendBufferSize

\* ThreadMessageHandler: ProcessMessages takes the first message, unless the send
\* queue is full, and answers a request.
ProcessMessages(p) ==
    /\ Up /\ CanProcess(p)
    /\ LET m == Head(conn[p].vRecvMsg).hdr[1].msg
           c == [conn[p] EXCEPT !.vRecvMsg = Tail(@)]
       IN  /\ processed' = [processed EXCEPT ![p] = Append(@, m)]
           /\ IF m.request THEN PushMessage(p, c, FALSE)
              ELSE conn' = [conn EXCEPT ![p] = c] /\ UNCHANGED pushed
    /\ UNCHANGED unasked

\* SendMessages
SendMessages(p) ==
    /\ Up
    /\ Len(SelectSeq(pushed[p], LAMBDA m : m.request)) < MaxRequests[p]
    /\ PushMessage(p, conn[p], TRUE)
    /\ UNCHANGED <<processed, unasked>>

Next == \E p \in Peers :
    \/ SocketSend(p)
    \/ SocketRecv(p) \/ SocketRecvContended(p) \/ SocketRecvUnasked(p)
    \/ ProcessMessages(p)
    \/ SendMessages(p)

Spec == Init /\ [][Next]_vars

\* Both loops run for ever, each coming back to every node, and the network takes
\* and delivers what it has room for.  Nothing makes select() fail or two threads meet.
Fairness == \A p \in Peers :
    WF_vars(SocketSend(p) \/ SocketRecv(p)) /\ WF_vars(ProcessMessages(p))
FairSpec == Spec /\ Fairness

-----------------------------------------------------------------------------
(* Properties *)

\* SocketSendData, assert(data.size() > nSendOffset) and, at the end of the queue,
\* assert(nSendOffset == 0) and assert(nSendSize == 0).
SendQueueAccurate == TypeOK /\ \A p \in Peers :
    /\ conn[p].nSendSize = SumOfSizes(conn[p].vSendMsg)
    /\ IF conn[p].vSendMsg = << >> THEN conn[p].nSendOffset = 0
       ELSE conn[p].nSendOffset < SizeOf(Head(conn[p].vSendMsg))

\* The units that have arrived of messages not processed yet.
Received(v) == FlattenSeq([i \in DOMAIN v |-> v[i].hdr \o v[i].data])

\* ReceiveMsgBytes: however the stream is cut, every unit that was queued is, in
\* order, in a message that was processed or is being put together, on its way, or
\* in the send queue; messages come out whole, and no connection is given up.
InOrder == \A p \in Peers :
    LET c == conn[Other(p)]
        v == conn[p].vRecvMsg
        unsent == Stream(c.vSendMsg)
    IN  /\ Stream(pushed[Other(p)]) =
             Stream(processed[p])
             \o Received(v)
             \o c.wire
             \o SubSeq(unsent, c.nSendOffset + 1, Len(unsent))
        /\ \A i \in DOMAIN v :
             /\ IsPrefix(v[i].hdr \o v[i].data, Units(v[i].hdr[1].msg))
             /\ i < Len(v) => complete(v[i])
        /\ ~conn[p].fDisconnect

\* -maxreceivebuffer: beyond its limit, or one message, a node keeps at most what one
\* call of recv brings, with a header and room ahead for what that begins, and what it
\* has received, after errors, without looking at the limit since it last looked.
ReceiveBounded == \A p \in Peers :
    LET first == IF conn[p].vRecvMsg = << >> THEN 0
                 ELSE SizeOf(Head(conn[p].vRecvMsg).hdr[1].msg)
    IN  GetTotalRecvSize(conn[p]) <=
           Max({ReceiveFloodSize, first}) + SocketBuffer + HeaderSize + Ahead + unasked[p]

\* ThreadSocketHandler, "at least one of the following is always possible, so we
\* don't deadlock: we send some data; we wait for data to be received; we process a
\* message in the buffer": unless nothing is under way, one of the nodes can go on.
Idle == \A p \in Peers :
    conn[p].vSendMsg = << >> /\ conn[p].wire = << >> /\ conn[p].vRecvMsg = << >>
NoStall ==
    \/ Idle
    \/ \E p \in Peers :
         \/ SelectSend(p) /\ Len(conn[p].wire) < SocketBuffer
         \/ SelectRecv(p) /\ conn[Other(p)].wire # << >>
         \/ CanProcess(p)

\* The same comment, as progress: the peer catches up with what was queued (once all
\* requests are made, with everything), unless both peers come to have more to send
\* than the sockets take, and nothing that they can process.  Nothing else stalls.
BothSending == \A p \in Peers :
    SelectSend(p) /\ Len(conn[p].wire) = SocketBuffer /\ ~CanProcess(p)
Delivered == \A p \in Peers :
    (processed[Other(p)] # pushed[p]) ~> (processed[Other(p)] = pushed[p] \/ BothSending)
=============================================================================
