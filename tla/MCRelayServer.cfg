SPECIFICATION FairSpec
CONSTANTS
    PingTimer = PingTimer
    DropTimer = DropTimer
    NoTimer = NoTimer
    NoChunk = NoChunk
    NoSession = NoSession
    ResendTime = 2
    PingInterval = 3
    Timeout = 4
    SessionChunks = 2
    ChunkSize = 2
    RemoteIdCount = 4
    Resends = 1
    ResendsClosing = 1
    QueueMax = 2
    PastMax = 1
INVARIANTS
    TypeOK
    Consistent
PROPERTIES
    NearestKept
    SilentForgotten
CHECK_DEADLOCK FALSE
