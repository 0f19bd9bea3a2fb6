\* Three calls of any kind, two attempts of the reconciler, a handler that breaks off;
\* two backup jobs with two faults. No symmetry, which the liveness properties do not admit.
CONSTANTS
    Calls = {c1, c2, c3}
    MaxAttempts = 2
    TriggerOnUpload = TRUE
    MaxErrors = 1
    Jobs = {j1, j2}
    MaxFaults = 2
SPECIFICATION MCSpec
INVARIANTS AnalysedMeansStored ReissuesBounded RowsAgree ArchivesAreKept
PROPERTIES StorageSettles
CHECK_DEADLOCK FALSE
