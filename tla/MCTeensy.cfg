SPECIFICATION FairSpec
CONSTANTS
    Kind <- AllKinds
    Values = {0, 1}
    INITVAL = INITVAL
    RingSize = 2
    MaxChanges = 2
    MaxPackets = 1
    MaxFaults = 1
    LossyTypes = {"PING"}
INVARIANTS
    TypeOK
    EventsKept
    InputsKnown
    OutputsSet
PROPERTIES
    OutputsFollow
    InputsFollow
