SPECIFICATION FairSpec
CONSTANTS
    None = None
    DryRun = FALSE
    AllowControl = TRUE
    AllowRfRisk = TRUE
    FollowFlexBand = TRUE
    Bands = {b1}
    PollSeq <- MCPollSeq
    MaxRequests = 2
    MaxContext = 0
    MaxPanel = 1
    MaxStalls = 1
    MaxLine = 1
    MaxLost = 1
    MaxPortLoss = 1
    MaxTotal = 3
INVARIANTS
    FaultNotMasked
PROPERTIES
    SharedStateSettles
    RequestTaken
