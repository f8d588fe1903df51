SPECIFICATION BoundedSpec
CONSTANTS
    Pids = {p1, p2}
    Retries = 2
    MaxEntries = 2
INVARIANTS
    ExclusionUnlessStolen
    OneShare
    PersistedIsFlat
PROPERTIES
    ReleaseRemovesOwn
    AcquireEnds
    CleanEntry
