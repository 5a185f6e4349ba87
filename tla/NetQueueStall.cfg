SPECIFICATION Spec
CONSTANTS
    p = p
    q = q
    Peers = {p, q}
    HeaderSize = 2
    RequestSize = 0
    ReplySize = 2
    MaxSize = 4
    SocketBuffer = 3
    SendBufferSize = 4
    ReceiveFloodSize = 3
    Ahead = 1
    MaxUnasked <- NoneUnasked
    MaxRequests <- MCMaxRequests
CHECK_DEADLOCK FALSE
INVARIANTS
    NoStall
