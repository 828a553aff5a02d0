SPECIFICATION FairSpec
CONSTANTS
    Size = 3
    MaxBatch = 2
    MaxMessages = 4
    TCPBUFSIZE = 19
    Capacity = 5
    MarkerLike <- SomeLookLikeEnd
    Paced = TRUE
INVARIANTS
    TypeOK
PROPERTIES
    ImplementsStream
    
    Delivered
CHECK_DEADLOCK FALSE
