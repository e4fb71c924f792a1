\* A document of two chunks is ingested while another is there; a lazy job with
\* two attempts, one death of a worker, and an adapter that takes two requests
\* and opens its circuit at the second failure in a row.
CONSTANTS
    d1 = d1  d2 = d2  l1 = l1
    Doc = {d1, d2}
    Stored = {d2}
    Chunks = 2
    Lazy = {l1}
    MaxRuns = 2
    MaxTries = 2
    MaxDeaths = 1
    Threshold = 2
    MaxActive = 2
SPECIFICATION Spec
INVARIANTS TypeOK IndexIsTrue
PROPERTIES IngestEnds
CHECK_DEADLOCK FALSE
