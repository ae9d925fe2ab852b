SPECIFICATION FairSpec
CONSTANTS
    client1 = client1
    client2 = client2
    gain = gain
    iso = iso
    iso_old = iso_old
    NoParameter = NoParameter
    NoCamera = NoCamera
    Clients <- TwoClients
    Params <- Cameras
    Hidden <- OnlyDumped
    Base = 2
    PayloadLen = 2
    Defaults <- CameraDefaults
    TypeOf <- CameraTypes
    Chunks <- TwoChunks
    Datagrams <- CameraDatagrams
    DatagramsMax = 1
    RemoteIdsMax = 4
    AckRange = 2
INVARIANTS
    TypeOK
    InSync
PROPERTIES
    ImplementsSharedParameters
    CatchesUp
\* the server stops when a command fails
CHECK_DEADLOCK FALSE
