\* An upload while a lazy job runs, and nothing that dies.
CONSTANTS
    d1 = d1  d2 = d2  l1 = l1
    Doc = {d1, d2}
    Stored = {d2}
    Chunks = 2
    Lazy = {l1}
    MaxRuns = 2
    MaxTries = 2
    MaxDeaths = 0
    Threshold = 2
    MaxActive = 2
SPECIFICATION Spec
INVARIANT CompletedIsNoLie
CHECK_DEADLOCK FALSE
