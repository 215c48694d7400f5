SPECIFICATION FairTimersSpec
CONSTANTS
    Strategies = {"current", "no_burst"}
    Reannounce = 20
    ReadTimeout = 1200
    MaxRequests = 2
    MaxOpened = 2
    Horizon = 46
CHECK_DEADLOCK FALSE
INVARIANTS
    PresenceRefreshed
    AnnouncedInTime
PROPERTIES
    RequestServed
