SPECIFICATION Spec
CONSTANTS
    None = None
    Meters = {FWD}
    Slices = {0, 1}
    Dial = {14200, 7100, 0}
    Parked <- MCParked
    Antenna <- MCAntenna
    Tuners = {t1, t2}
    AmpStart <- MCAmpStart
    AmpStates <- MCAmpStates
    Scenes <- MCScenes
    Configs <- MCConfigs
    ClientAntenna = "ANT3"
    MaxSessions = 2
    MaxEvents = 3
INVARIANTS
    ShownFollowsRadio
    NoRequestWaits
PROPERTIES
    TxShownWasTold
    ValuesGoToOwnMeters
CHECK_DEADLOCK FALSE
