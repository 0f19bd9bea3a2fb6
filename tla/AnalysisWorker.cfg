\* What the parts of MCAnalysisWorker do not fix themselves.
CONSTANTS
    Calls = {c1, c2, w}
    WatchdogCall = w
    First = c1
    Attempts = 3
    PromptHandler = FALSE
    MaxAge = 1
    MaxRows = 2
    MaxCrashes = 1
    MaxDbErrors = 1
SPECIFICATION MCSpec
INVARIANTS AttemptBudget GivenUpIsTold
PROPERTIES SettlesForGood NoRowRunsForever
CHECK_DEADLOCK FALSE
