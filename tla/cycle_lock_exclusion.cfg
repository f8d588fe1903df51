SPECIFICATION Spec
CONSTANTS
    Pids = {p1, p2}
    Retries = 5
INVARIANTS
    MutualExclusion
