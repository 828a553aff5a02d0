SPECIFICATION Spec
CONSTANTS
    Size = 2
    MaxBatch = 2
    MaxMessages = 6
    TCPBUFSIZE = 7
    Capacity = 10
    MarkerLike = {}
    Paced = TRUE
INVARIANTS
    FoundOnlyIfLeft
CHECK_DEADLOCK FALSE
