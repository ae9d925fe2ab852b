SPECIFICATION Spec
CONSTANTS
    req1 = req1
    req2 = req2
    req3 = req3
    RequestIds <- Requests
    SessionIdCount = 6
    SessionsLimit = 4
SYMMETRY Symmetric
INVARIANTS
    TypeOK
    TableConsistent
PROPERTY
    HandshakesAdvance
