SPECIFICATION Spec
CONSTANTS
    Symbols = {aapl, msft}
    Mode = "ibkr_paper"
    MaxOpen = 2
    AllowDuplicates = FALSE
    MaxSignals = 3
    MaxFaults = 2
SYMMETRY Symmetry
INVARIANTS
    NoDuplicateEntry
    UnrecordedOnlyByFaults
    AtMostOneAfterKill
PROPERTIES
    ImplementsOrderLedger
CHECK_DEADLOCK FALSE
