\* Two calls, rows that grow stale, the watchdog and a call for the whole inspection.
\* No symmetry, which the liveness property does not admit.
CONSTANTS
    Images = {i1}
    Whole = whole
    Calls = {c1, c2}
    Concurrency = 1
    QueueMax = 1
    Asked = {i1, whole}
    MaxAge = 2
    MaxRestarts = 0
SPECIFICATION FairSpec
PROPERTIES ScoreOutlivesTimeout EveryTaskLeaves
CHECK_DEADLOCK FALSE
