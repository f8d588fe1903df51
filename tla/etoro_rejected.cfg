SPECIFICATION Spec
CONSTANTS
    TTL = 2
    PollAttempts = 3
    MaxWait = 4
INVARIANTS
    RejectedMeansNoPosition
