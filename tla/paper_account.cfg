SPECIFICATION MCSpec
CONSTANTS
    Ids = {i1, i2}
    Start = 20
    Prices = {2, 5}
    Stops = {2}
    RiskPct = 60
    CapPct = 60
    Slippage = 1
    FeePct = 20
    MaxClock = 1
    Runners = {r1, r2}
    NoOwner = noOwner
    Gone = gone
    Lease = 2
    Cap = 2
    Lookback = 4
    Overlap = 0
    FreshFor = 0
    MaxLost = 1
    MaxBars = 4
SYMMETRY Symmetry
INVARIANTS
    MoneyConserved
    ReplayBalances
    AcknowledgedOrRefused
    RefreshesExclude
    
    HolesAreKnown
PROPERTIES
    ImplementsLedger
    NothingForgotten
CHECK_DEADLOCK FALSE
