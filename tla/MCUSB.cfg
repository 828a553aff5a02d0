SPECIFICATION Spec
CONSTANTS
    MAXMASTERCARDS = 2
    ncards = 1
    SlotsPerCard = 2
    BitsPerByte = 2
    PacketSize = 4
    RingSize = 2
    noutputs = 5
    NSegments = 4
    ndisplays = 3
    slotspercycle = 2
    MAX_HIST = 1
    Operated <- SomeInputs
    Type <- TwoRead
    Driven <- FirstAndLast
    Numbers <- SomeNumbers
    AxisValues = {100}
    MaxChanges = 2
INVARIANTS
    TypeOK
    InputsAgree
    ChangesKept
    OutputsShown
    NumberShown
