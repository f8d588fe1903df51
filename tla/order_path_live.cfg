SPECIFICATION Spec
CONSTANTS
    Symbols = {aapl, msft}
    Mode = "ibkr_live"
    MaxOpen = 5
    AllowDuplicates = FALSE
    MaxSignals = 3
    MaxFaults = 1
SYMMETRY Symmetry
PROPERTIES
    PositionRespected
CHECK_DEADLOCK FALSE
