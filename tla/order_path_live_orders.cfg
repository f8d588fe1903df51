SPECIFICATION Spec
CONSTANTS
    Symbols = {aapl, msft}
    Mode = "ibkr_live"
    MaxOpen = 5
    AllowDuplicates = FALSE
    MaxSignals = 2
    MaxFaults = 0
SYMMETRY Symmetry
INVARIANTS
    OpenOrderBlocks
CHECK_DEADLOCK FALSE
