\* One schedule and a server, which may crash; a request to the cron endpoint beside one
\* edit, or two edits that cross. The clock runs over two days.
CONSTANTS
    Schedules = {s1}
    Servers = {v1}
    Crons = {c1}
    Edits = {e1, e2}
    Day = 2
    MaxTime = 5
    MaxCrashes = 2
SPECIFICATION MCSpec
PROPERTIES RunsAreDaily DueIsClaimed
CHECK_DEADLOCK FALSE
