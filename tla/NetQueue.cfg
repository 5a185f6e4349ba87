SPECIFICATION FairSpec
CONSTANTS
    p = p
    q = q
    Peers = {p, q}
    HeaderSize = 2
    RequestSize = 0
    ReplySize = 2
    MaxSize = 4
    SocketBuffer = 3
    SendBufferSize = 4
    ReceiveFloodSize = 1
    Ahead = 1
    MaxUnasked <- MCMaxUnasked
    MaxRequests <- MCMaxRequests
CHECK_DEADLOCK FALSE
INVARIANTS
    SendQueueAccurate
    InOrder
    ReceiveBounded
PROPERTIES
    Delivered
