SPECIFICATION Spec
CONSTANTS
    peer1 = peer1
    req1 = req1
    req2 = req2
    pkt1 = pkt1
    pkt2 = pkt2
    pkt3 = pkt3
    NoPacket = NoPacket
    Peers <- OnePeer
    RequestIds <- OneRequest
    SessionIdCount = 3
    SessionsLimit = 2
    RemoteIdCount = 5
    Resends = 1
    ResendsClosing = 1
    CacheChunks = 2
    Packets <- ThreePackets
    Updates <- NoData
SYMMETRY AnyPacket
PROPERTY
    AcknowledgesUpTo
\* The program stops when an assertion fails.
CHECK_DEADLOCK FALSE
