SPECIFICATION FairSpec
CONSTANTS
    FailuresToDown = 2
    Cooldown = 3
    ManualAfter = 2
    RestartMode = TRUE
    MinInterval = 2
    MaxPerHour = 2
    Hour = 4
    MaxRestarts = 1
INVARIANTS
    VerdictFollowsGateway
    LastWord
    RecoverySpaced
PROPERTIES
    Detected
