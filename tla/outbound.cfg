SPECIFICATION OutSpec
CONSTANTS
    TTL = 2
    PollAttempts = 3
    MaxWait = 4
    Alerts = {1, 2}
    NoKey = 0
    Pair <- MCPair
    Runners = {"r1", "r2"}
    Scanners = {"r1"}
    Delay = 1
    Lease = 0
    Cooldown = 2
    MaxAttempts = 2
    MaxBackoff = 1
    MaxDeaths = 1
INVARIANTS
    NothingHidden
    RepeatsAreLabelled
    CooldownHolds
PROPERTIES
    StalePolicyBounded
    ImplementsLiveOrder
    PostIsResolved
    OutboxDrains
