SPECIFICATION FairSpec
CONSTANTS
    None = None
    PgxlClients = {p1}
    TgxlClients = {t1}
    StaleAfter <- Limits
    StrictEmulation <- StrictAmp
    StartupDelay = 1
    ForcePresenceTest = TRUE
    AllowRfRisk = TRUE
INVARIANTS
    ConnectedIsFresh
    ReadyWasJustified
PROPERTIES
    StaleShown
    OnlyStaleDegraded
