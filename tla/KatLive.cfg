SPECIFICATION FairSpec
CONSTANTS
    None = None
    DryRun = FALSE
    AllowControl = FALSE
    AllowRfRisk = TRUE
    FollowFlexFrequency = TRUE
    Freqs = {f1, f2}
    Antennas = {a1}
    PollSeq <- TunePoll
    MaxRequests = 2
    MaxContext = 2
    MaxPanel = 0
    MaxStalls = 1
    MaxLine = 2
    MaxLost = 1
    MaxPortLoss = 1
    MaxTotal = 2
PROPERTIES
    RequestTaken
    
    TuningExpires
