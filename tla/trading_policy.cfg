SPECIFICATION MCSpec
CONSTANTS
    Writers = {w1, w2}
    Switches = {"global", "ibkr_paper"}
    MaxHours = 2
    Hours = {2}
    Ttl = 1
    MaxClock = 2
    Clis = {c1, c2}
    Models = {m1, m2, m3}
    NoModel = noModel
    Drifting = {m3}
    Thin = {m1}
    Adjusted = {m2}
SYMMETRY Symmetry
INVARIANTS
    AllowIsCurrent
    RefusalIsRecent
    OneCurrentModel
    HistoryTellsPointer
    PointedPassedGates
PROPERTIES
    KillSurvives
