SPECIFICATION FairSpec
CONSTANTS
    MAXCONNECT = 2
    MAXPENDING = 2
    Sockets = {c1, c2, c3}
    NoSocket = NoSocket
    NULL = NULL
    SendMayFail = TRUE
INVARIANTS
    TypeOK
    SlotsConsistent
    FreshTable
    Accounted
PROPERTIES
    WaitingServed
    GoneReleased
