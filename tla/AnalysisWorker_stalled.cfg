CONSTANTS
    Calls = {c1, w}
    WatchdogCall = w
    Attempts = 4
    PromptHandler = TRUE
    MaxAge = 1
    MaxRows = 0
    MaxCrashes = 2
    MaxDbErrors = 0
SPECIFICATION Spec
INVARIANTS RetryScheduled
CHECK_DEADLOCK FALSE
