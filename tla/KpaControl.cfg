SPECIFICATION Spec
CONSTANTS
    None = None
    DryRun = FALSE
    AllowControl = TRUE
    AllowRfRisk = TRUE
    FollowFlexBand = TRUE
    Bands = {b1, b2}
    PollSeq <- MCShortPoll
    MaxRequests = 2
    MaxContext = 2
    MaxPanel = 1
    MaxStalls = 1
    MaxLine = 2
    MaxLost = 2
    MaxPortLoss = 1
    MaxTotal = 3
SYMMETRY BandSymmetry
INVARIANTS
    StateMatchesFlags
    ConfirmedBandIsSet
PROPERTIES
    ImplementsControl
