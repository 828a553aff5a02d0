SPECIFICATION FairSpec
CONSTANTS
    Kind <- ThreeInputs
    InputBank <- TwoBanks
    MaxChanges = 3
    MAXSAVE = 3
    RingSize = 1
    BankSize = 2
    Daughters = {1}
    Driven = {0, 1, 2}
    Numbers <- SomeNumbers
INVARIANTS
    TypeOK
    EventsKept
    NumberShown
    OutputsShown
PROPERTIES
    ButtonsFollow
