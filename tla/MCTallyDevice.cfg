SPECIFICATION FairSpec
CONSTANTS
    RemoteIdCount = 6
    SwitcherSessions <- OneSession
    Unacknowledged = 2
    InFlight = 3
    Overtakes = FALSE
    Outlives = FALSE
INVARIANTS
    TypeOK
    TallyFollows
    LitOnlyConnected
    SendsWholeBuffer
PROPERTIES
    DarkWhenGone
    Reconnects
