SPECIFICATION Spec
CONSTANT
    SessionsCount = 5
INVARIANTS
    TypeOK
    RetransmitsToLinked
    FreedWhenUnlinked
PROPERTY
    ImplementsUnacknowledged
\* A released packet has no operations left.
CHECK_DEADLOCK FALSE
