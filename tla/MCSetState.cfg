SPECIFICATION FairSpec
CONSTANTS
    Hosts = {h1}
    None = None
    Torn = Torn
    XPBEACON_POLL_MAX_TIMEOUT = 1
    MaxOutages = 1
    Updn = {knob}
    Toggles = {button}
    Covers = {cover}
    Top = 2
    INTERVAL_UPDN = 100
    interval = 40
    Miss = Miss
    MaxChanges = 2
INVARIANTS
    TypeOK
    KnownWhileHeard
PROPERTIES
    Reached
    Forgotten
    EachPressHelps
    Settles
