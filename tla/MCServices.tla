----------------------------- MODULE MCServices ------------------------------
(* The status of an inspection (InspectionRollup), and the services beside   *)
(* it, each a part that runs alone, for no row is written by two of them:    *)
(* accounts (Access), keys of the public API (ApiKeys), the alerts of a      *)
(* sensor (SensorAlerts) and the geography master (GeographyImport).         *)
EXTENDS InspectionRollup, TLC

CONSTANTS
    MaxSteps,                                                               \* InspectionRollup
    Requests, MaxFailed, MaxLogins, MaxSecond, MaxSessions,                 \* Access
    Admins, DayLimit, MaxOrders, MaxErrors, MaxEvents,                      \* ApiKeys
    Handlers, Readings, NoReading, MaxAlerts, MaxSweeps, MaxOperations,     \* SensorAlerts
    Versions, Codes, Level, Parent, Files, PageSize, MaxCommands            \* GeographyImport

VARIABLES
    part,
    user, session, tokens, request, entered, second, resets, calls,
    key, bucket, redisDisabled, logs, summary, events, call, change, tally, revoked, resumed, settled,
    quiet, breach, stored, alerts, handler, bounds, expected, doubled,
    file, batch, staged, geography, run, commands, torn, dropped

\* A country and two states. The first version lists all, with a state rejected or not, or
\* lacks the country and has a state inactive; the second lacks a state that the first has,
\* and may have the other inactive, or lists all.
OneCountry == [c \in Codes |-> IF c = 0 THEN 0 ELSE 1]
TheCountry == [c \in Codes |-> 0]
File(country, one, other) == [c \in Codes |-> <<country, one, other>>[c + 1]]
OldAndNew ==
    {<<File("valid", "valid", "rejected"), File("valid", "absent", "valid")>>,
     <<File("valid", "valid", "valid"), File("valid", "absent", "inactive")>>,
     <<File("absent", "valid", "inactive"), File("valid", "valid", "valid")>>}

A == INSTANCE Access WITH MaxCalls <- MaxLogins
K == INSTANCE ApiKeys WITH Calls <- Requests, order <- change
S == INSTANCE SensorAlerts
G == INSTANCE GeographyImport

ASSUME ServicesAssumption ==
    /\ MaxSteps \in Nat
    /\ A!AccessAssumption /\ K!ApiKeysAssumption /\ S!SensorAlertsAssumption /\ G!GeographyAssumption

accessVars == <<user, session, tokens, request, entered, second, resets, calls>>
keyVars == <<key, bucket, redisDisabled, logs, summary, events, call, change, tally, revoked, resumed, settled>>
sensorVars == <<quiet, breach, stored, alerts, handler, bounds, expected, doubled>>
geographyVars == <<file, batch, staged, geography, run, commands, torn, dropped>>
all == <<part, vars, accessVars, keyVars, sensorVars, geographyVars>>

\* What a module leaves open at the start is chosen in its own part only.
MCInit ==
    /\ part \in {"inspections", "access", "keys", "sensors", "geography"}
    /\ Init /\ A!Init /\ K!Init /\ S!Init /\ G!Init
    /\ part = "inspections" \/ (image = [i \in Images |-> "none"] /\ ~inspection.submitted)
    /\ part = "access" \/ ~user.mustChange
    /\ part = "keys" \/ key.expiry = "none"
    /\ part = "sensors" \/ (~quiet /\ \A d \in Readings : ~breach[d])
    /\ part = "geography" \/ file = CHOOSE f \in Files : TRUE

MCNext ==
    \/ part = "inspections" /\ Next /\ UNCHANGED <<part, accessVars, keyVars, sensorVars, geographyVars>>
    \/ part = "access" /\ A!Next /\ UNCHANGED <<part, vars, keyVars, sensorVars, geographyVars>>
    \/ part = "keys" /\ K!Next /\ UNCHANGED <<part, vars, accessVars, sensorVars, geographyVars>>
    \/ part = "sensors" /\ S!Next /\ UNCHANGED <<part, vars, accessVars, keyVars, geographyVars>>
    \/ part = "geography" /\ G!Next /\ UNCHANGED <<part, vars, accessVars, keyVars, sensorVars>>

\* The requests of every part are the same two, which are interchangeable, and so are the
\* orders. So are an image before and one after, when there is one of each: ReviewRequired
\* asks for one of each, whichever is which.
Symmetry == Permutations(Requests) \cup Permutations(Admins) \cup Permutations(Images)

\* Calls, runs and, counted twice, failures of an inspection together.
Bounded == begun + runs + 2 * failures <= MaxSteps

MCSpec == MCInit /\ [][MCNext]_all

\* A refresh token that was used opens nothing more (Access).
RefreshOnce == A!RefreshOnce

\* What ended the sessions of a user or made the account inactive is not undone by a request
\* that was under way (Access).
SessionsStayEnded == [][A!ResetEndsSessions']_accessVars /\ A!DeactivatedStays

\* What is let through: beyond the daily limit only what was in progress together, and nothing
\* that comes after a revocation; and the summary of the day is what the logs say (ApiKeys).
KeysHold == part = "keys" => K!RateLimitHeld /\ K!RevokedRefused /\ K!SummaryFollowsLogs

\* The alerts are those the last reading asks for, one of a type (SensorAlerts).
AlertsFollowReadings == part = "sensors" => S!AlertsFollowReadings /\ S!OneActiveAlert

\* A completed batch has imported all that could be (GeographyImport).
CompletedIsWhole == part = "geography" => G!CompletedIsWhole

\* What is active after a complete import is what it has processed (GeographyImport).
RetiredAreMissing == G!RetiredAreMissing
=============================================================================
