SPECIFICATION Spec
CONSTANTS
    MAXMASTERCARDS = 2
    ncards = 1
    SlotsPerCard = 2
    BitsPerByte = 2
    PacketSize = 4
    RingSize = 1
    noutputs = 5
    NSegments = 4
    ndisplays = 3
    slotspercycle = 2
    MAX_HIST = 3
    Operated = {}
    Type <- None
    Driven = {}
    Numbers = {}
    AxisValues = {100, 105}
    MaxChanges = 3
INVARIANTS
    AxisSettles
