CONSTANTS
    Calls = {c1, w}
    WatchdogCall = w
    Attempts = 2
    PromptHandler = TRUE
    MaxAge = 2
    MaxRows = 0
    MaxCrashes = 0
    MaxDbErrors = 0
SPECIFICATION Spec
PROPERTIES RequeuedByWatchdog
CHECK_DEADLOCK FALSE
