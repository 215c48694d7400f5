SPECIFICATION FairSpec
CONSTANTS
    None = None
    AllowRfRisk = FALSE
    ConnectAssist = TRUE
    ForceOperate = FALSE
    LabProfile = FALSE
    MaxSessions = 2
    MaxSets = 1
    MaxRemovals = 1
    MaxLines = 3
CHECK_DEADLOCK FALSE
INVARIANTS
    ActiveIsKnown
    OperateNeedsPermission
PROPERTIES
    ImplementsRegistration
    RegistrationContinues
    SessionRestored
    OperateReverted
