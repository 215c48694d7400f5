SPECIFICATION Spec
CONSTANTS
    None = None
    PgxlClients = {a, b}
    TgxlClients = {t}
    AmpStates = {"STANDBY", "OPERATE"}
    Overrides = {"UNKNOWN"}
    Second = 0
    LogSize = 1
    Wait = 1
    MaxTime = 1
    MaxSessions = 3
    MaxCommands = 2
    MaxChanges = 2
    MaxFlex = 1
SYMMETRY Symmetry
INVARIANTS
    ClientsCounted
    LogIsTrue
CHECK_DEADLOCK FALSE
