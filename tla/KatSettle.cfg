SPECIFICATION FairSpec
CONSTANTS
    None = None
    DryRun = FALSE
    AllowControl = TRUE
    AllowRfRisk = FALSE
    FollowFlexFrequency = FALSE
    Freqs = {f1}
    Antennas = {a1}
    PollSeq <- StatePoll
    MaxRequests = 1
    MaxContext = 0
    MaxPanel = 1
    MaxStalls = 1
    MaxLine = 2
    MaxLost = 0
    MaxPortLoss = 1
    MaxTotal = 4
PROPERTIES
    SharedStateSettles
