SPECIFICATION FairSpec
CONSTANTS
    MaxSlots = 2
    Datarefs = {alt, cst}
    OnceCommands = {}
    HoldCommands = {ptt}
    Known = {alt}
    Writable = {alt}
    CustomFull = {cst}
    Values = {0, 1}
    InitialValue = 0
    Miss = Miss
    NoName = NoName
    ErrorText = ErrorText
    Garbage = Garbage
    ClientWrites = FALSE
    UnlinkIn = {"LINK", "VALID"}
    MaxPresses = 0
    MaxQueue = 1
    MaxOutages = 1

    
PROPERTIES
    LinkAnswered
    UnlinkAnswered
    
