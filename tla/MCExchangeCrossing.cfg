SPECIFICATION Spec
CONSTANTS
    MaxSlots = 1
    Datarefs = {alt}
    OnceCommands = {}
    HoldCommands = {}
    Known = {alt}
    Writable = {alt}
    CustomFull = {}
    Values = {0, 1}
    InitialValue = 0
    Miss = Miss
    NoName = NoName
    ErrorText = ErrorText
    Garbage = Garbage
    ClientWrites = TRUE
    UnlinkIn = {}
    MaxPresses = 0
    MaxQueue = 1
    MaxOutages = 0
INVARIANTS
    QuiescentAgreement
