\* An inspection with an image before and one after, in any state at rest, two calls that
\* overlap and two runs, or a call, a run and its failure. Two logins, four calls; two
\* requests with an API key of one a day; two handlers and three readings; two versions of
\* a source with a country and two states, a row to a page. The requests of every part are r1 and r2.
CONSTANTS
    Images = {b, a}
    Before = {b}
    Calls = {r1, r2}
    MaxCalls = 2
    MaxRuns = 2
    MaxFailures = 1
    MaxSteps = 4
    Requests = {r1, r2}
    MaxFailed = 2
    MaxLogins = 4
    MaxSecond = 2
    MaxSessions = 2
    Admins = {a1, a2}
    DayLimit = 1
    MaxOrders = 2
    MaxErrors = 2
    MaxEvents = 4
    Handlers = {r1, r2}
    Readings = {d1, d2, d3}
    NoReading = none
    MaxAlerts = 4
    MaxSweeps = 1
    MaxOperations = 1
    Versions = {1, 2}
    Codes = {0, 1, 2}
    Level <- OneCountry
    Parent <- TheCountry
    Files <- OldAndNew
    PageSize = 1
    MaxCommands = 5
SYMMETRY Symmetry
SPECIFICATION MCSpec
CONSTRAINT Bounded
INVARIANTS
    StatusFollowsImages
    RefreshOnce
    KeysHold
    AlertsFollowReadings
    CompletedIsWhole
PROPERTIES SubmittedForGood SessionsStayEnded RetiredAreMissing
CHECK_DEADLOCK FALSE
