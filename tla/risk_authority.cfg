SPECIFICATION MCSpec
CONSTANTS
    Scopes = {s1, s2}
    Losses = {1, 2}
    Capitals = {2}
    LossCap = 3
    Cap = 3
    MaxDay = 1
    MaxToday = 2
SYMMETRY Symmetry
INVARIANTS
    AllowIsInformed
    CapOnLatestReadings
    DayLatchHolds
PROPERTIES
    ManualLatchHolds
