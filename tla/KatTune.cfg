SPECIFICATION Spec
CONSTANTS
    None = None
    DryRun = FALSE
    AllowControl = TRUE
    AllowRfRisk = TRUE
    FollowFlexFrequency = TRUE
    Freqs = {f1, f2}
    Antennas = {a1}
    PollSeq <- TunePoll
    MaxRequests = 2
    MaxContext = 2
    MaxPanel = 0
    MaxStalls = 0
    MaxLine = 3
    MaxLost = 2
    MaxPortLoss = 0
    MaxTotal = 6
INVARIANTS
    TuneOnFrequency
    WatchedTuneIsOver
    ConfirmedFrequencyIsSet
PROPERTIES
    ImplementsControl
SYMMETRY FreqSymmetry
