SPECIFICATION FairSpec
CONSTANTS
    None = None
    Pids = {p1, p2}
    Paths = {a, b}
    DefaultPath = a
    OperationalPath = b
    Installed <- MCInstalled
    Default <- ReadOnly
    MaxClicks = 3
INVARIANTS
    NoBridgeLost
    RfWasAgreedTo
    TestEndsInStandby
PROPERTIES
    GuiSettles
CHECK_DEADLOCK FALSE
