SPECIFICATION Spec
CONSTANTS
    MaxSlots = 2
    Datarefs = {alt}
    OnceCommands = {start}
    HoldCommands = {}
    Known = {alt, start}
    Writable = {alt}
    CustomFull = {}
    Values = {0, 1}
    InitialValue = 0
    Miss = Miss
    NoName = NoName
    ErrorText = ErrorText
    Garbage = Garbage
    ClientWrites = TRUE
    UnlinkIn = {"ALLOC", "DEALLOC", "LINK", "UNLINK", "VALID"}
    MaxPresses = 2
    MaxQueue = 1
    MaxOutages = 1
INVARIANTS
    TypeOK
    NoCrosstalk
    ValidAgree
    AtMostOnce
