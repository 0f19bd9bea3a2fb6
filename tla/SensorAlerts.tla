---------------------------- MODULE SensorAlerts ----------------------------
(***************************************************************************)
(* The alerts of one sensor: readings that are ingested, the sweep for     *)
(* sensors that have gone quiet (sensor.service.js), and the operators who *)
(* acknowledge and resolve alerts (alert.service.js).                      *)
(*                                                                         *)
(* One metric with one bound stands for all: the types of alert do not     *)
(* affect each other. The handlers look for an active alert of a type and  *)
(* then write, with nothing to keep two of them apart. A client that gets  *)
(* no answer sends its reading again under the same client_reading_id.     *)
(***************************************************************************)
EXTENDS Naturals, FiniteSets

CONSTANTS
    Handlers,       \* the requests that may be in progress together
    Readings,       \* the values of client_reading_id
    NoReading,      \* stands for none
    MaxAlerts,      \* bound on the alerts made
    MaxSweeps,      \* bound on the sweeps
    MaxOperations   \* bound on what the operators do

SensorAlertsAssumption ==
    /\ NoReading \notin Readings
    /\ IsFiniteSet(Handlers) /\ IsFiniteSet(Readings)
    /\ MaxAlerts \in Nat /\ MaxSweeps \in Nat /\ MaxOperations \in Nat

VARIABLES
    quiet,      \* last_seen_at is past the bound of evaluateOfflineStatus
    breach,     \* whether each reading is past the threshold
    stored,     \* the readings that have a row
    alerts,     \* the Alert rows of the sensor, in the order of created_at
    handler,    \* where each request is, with what it has read
    bounds,     \* history: sweeps and operations so far
    expected,   \* history: what the last handler that ran alone has made of each type
    doubled     \* history: an alert was made, or opened again, beside another of its type

vars == <<quiet, breach, stored, alerts, handler, bounds, expected, doubled>>

-----------------------------------------------------------------------------
Types == {"HIGH_TEMPERATURE", "SENSOR_OFFLINE"}
Rows == 1 .. MaxAlerts
NoAlert == [type |-> "none", status |-> "none"]
ActiveStatuses == {"open", "acknowledged"}
ActiveRows(type) == {a \in Rows : alerts[a].type = type /\ alerts[a].status \in ActiveStatuses}
Newest(S) == {a \in S : \A b \in S : b <= a}

Places == {"idle", "store", "seen", "raise", "insert", "scan", "find", "resolve", "save"}
Resting == [at |-> "idle", type |-> "SENSOR_OFFLINE", reading |-> NoReading, left |-> 1, row |-> 0,
            seen |-> "none", order |-> "none", alone |-> FALSE]

Init ==
    /\ quiet \in BOOLEAN
    /\ breach \in [Readings -> BOOLEAN]
    /\ stored = {}
    /\ alerts = [a \in Rows |-> NoAlert]
    /\ handler = [h \in Handlers |-> Resting]
    /\ bounds = [sweeps |-> 0, operations |-> 0]
    /\ expected = [t \in Types |-> "any"]
    /\ doubled = FALSE

At(h, place) == handler[h].at = place
Making(type, others) == \E g \in others : At(g, "insert") /\ handler[g].type = type
Begins(h, work) ==
    /\ At(h, "idle")
    /\ LET alone == \A g \in Handlers : At(g, "idle")
       IN  handler' = [g \in Handlers |->
              IF g = h THEN [work EXCEPT !.alone = alone] ELSE [handler[g] EXCEPT !.alone = FALSE]]
    /\ expected' = [t \in Types |-> "any"]
Goes(h, place) == handler' = [handler EXCEPT ![h].at = place]
Ends(h) == handler' = [handler EXCEPT ![h] = Resting]
Expects(h, t, outcome) == expected' = IF handler[h].alone THEN [expected EXCEPT ![t] = outcome] ELSE expected

-----------------------------------------------------------------------------
(* ingestSensorReading                                                     *)

\* A reading that is stored already is answered as a duplicate, whatever became of its alerts.
Ingest(h) ==
    /\ \E r \in Readings \ stored : Begins(h, [Resting EXCEPT !.at = "store", !.reading = r])
    /\ UNCHANGED <<quiet, breach, stored, alerts, bounds, doubled>>

\* unique(device_id, client_reading_id): the second of two is a duplicate.
Store(h) ==
    LET r == handler[h].reading
    IN  /\ At(h, "store")
        /\ stored' = stored \cup {r}
        /\ IF r \in stored THEN Ends(h) ELSE Goes(h, "seen")
        /\ UNCHANGED <<quiet, breach, alerts, bounds, expected, doubled>>

\* last_seen_at becomes the time of the capture, which may be long ago.
Seen(h) ==
    /\ At(h, "seen")
    /\ quiet' \in BOOLEAN
    /\ handler' = [handler EXCEPT ![h].at = IF breach[handler[h].reading] THEN "raise" ELSE "scan",
                                  ![h].type = "HIGH_TEMPERATURE"]
    /\ UNCHANGED <<breach, stored, alerts, bounds, expected, doubled>>

\* The reading's own type is done: the alert of a quiet sensor is resolved next, one of
\* them. A sweep, and a reading that has done that too, ends.
Proceeds(h) ==
    IF handler[h].type = "HIGH_TEMPERATURE"
    THEN handler' = [handler EXCEPT ![h] = [Resting EXCEPT !.at = "find", !.reading = handler[h].reading,
                                                           !.alone = handler[h].alone]]
    ELSE Ends(h)

\* Mutant: an alert that was acknowledged is not found.
Raise_OpenOnly(h) ==
    LET type == handler[h].type
    IN  /\ At(h, "raise")
        /\ IF \E a \in ActiveRows(type) : alerts[a].status = "open"
           THEN Proceeds(h) /\ Expects(h, type, "active") /\ UNCHANGED doubled
           ELSE /\ Goes(h, "insert")
                /\ doubled' = (doubled \/ Making(type, Handlers \ {h}))
                /\ UNCHANGED expected
        /\ UNCHANGED <<quiet, breach, stored, alerts, bounds>>

\* upsertSensorAlert: an active alert keeps its status.
Raise(h) ==
    LET type == handler[h].type
    IN  /\ At(h, "raise")
        /\ IF ActiveRows(type) # {}
           THEN Proceeds(h) /\ Expects(h, type, "active") /\ UNCHANGED doubled
           ELSE /\ Goes(h, "insert")
                /\ doubled' = (doubled \/ Making(type, Handlers \ {h}))
                /\ UNCHANGED expected
        /\ UNCHANGED <<quiet, breach, stored, alerts, bounds>>

Insert(h) ==
    \E a \in Rows :
        /\ \A b \in Rows : alerts[b] = NoAlert <=> b >= a
        /\ At(h, "insert")
        /\ alerts' = [alerts EXCEPT ![a] = [type |-> handler[h].type, status |-> "open"]]
        /\ Proceeds(h)
        /\ Expects(h, handler[h].type, "active")
        /\ UNCHANGED <<quiet, breach, stored, bounds, doubled>>

\* Each active alert of a type that is no longer breached calls for one resolution.
Scan(h) ==
    LET active == ActiveRows(handler[h].type)
    IN  /\ At(h, "scan")
        /\ IF active = {} THEN Proceeds(h) /\ Expects(h, handler[h].type, "clear")
           ELSE /\ handler' = [handler EXCEPT ![h].at = "find", ![h].left = Cardinality(active)]
                /\ UNCHANGED expected
        /\ UNCHANGED <<quiet, breach, stored, alerts, bounds, doubled>>

\* resolveSensorAlertType has found an alert, or none.
Counted(h) ==
    IF handler[h].left > 1
    THEN handler' = [handler EXCEPT ![h].at = "find", ![h].left = @ - 1] /\ UNCHANGED expected
    ELSE /\ Proceeds(h)
         /\ IF handler[h].type = "HIGH_TEMPERATURE" THEN Expects(h, handler[h].type, "clear")
            ELSE UNCHANGED expected

Find(h) ==
    LET active == ActiveRows(handler[h].type)
    IN  /\ At(h, "find")
        /\ IF active = {} THEN Counted(h)
           ELSE /\ \E a \in Newest(active) :
                      handler' = [handler EXCEPT ![h].at = "resolve", ![h].row = a]
                /\ UNCHANGED expected
        /\ UNCHANGED <<quiet, breach, stored, alerts, bounds, doubled>>

Resolve(h) ==
    /\ At(h, "resolve")
    /\ alerts' = [alerts EXCEPT ![handler[h].row].status = "resolved"]
    /\ Counted(h)
    /\ UNCHANGED <<quiet, breach, stored, bounds, doubled>>

-----------------------------------------------------------------------------
\* checkSensorOfflineAlerts: last_seen_at is read for all sensors before the first is done.
Sweep(h) ==
    /\ bounds.sweeps < MaxSweeps
    /\ bounds' = [bounds EXCEPT !.sweeps = @ + 1]
    /\ Begins(h, [Resting EXCEPT !.at = IF quiet THEN "raise" ELSE "find"])
    /\ UNCHANGED <<quiet, breach, stored, alerts, doubled>>

\* acknowledgeAlert and resolveAlert: any alert, whatever its status.
Operate(h) ==
    /\ bounds.operations < MaxOperations
    /\ bounds' = [bounds EXCEPT !.operations = @ + 1]
    /\ \E a \in Rows, order \in {"acknowledged", "resolved"} :
          /\ alerts[a] # NoAlert
          /\ Begins(h, [Resting EXCEPT !.at = "save", !.row = a, !.order = order,
                                       !.type = alerts[a].type, !.seen = alerts[a].status])
    /\ UNCHANGED <<quiet, breach, stored, alerts, doubled>>

\* The status is written unless it was read so: an alert that was resolved is opened again.
Save(h) ==
    LET a == handler[h].row  type == handler[h].type
        writes == handler[h].order # handler[h].seen
        reopens == writes /\ handler[h].order = "acknowledged" /\ alerts[a].status = "resolved"
    IN  /\ At(h, "save")
        /\ alerts' = IF writes THEN [alerts EXCEPT ![a].status = handler[h].order] ELSE alerts
        /\ doubled' = \/ doubled
                      \/ reopens /\ (ActiveRows(type) # {} \/ Making(type, Handlers))
        /\ Ends(h)
        /\ UNCHANGED <<quiet, breach, stored, bounds, expected>>

\* A call of the database rejects, or the process dies.
Breaks(h) ==
    /\ ~At(h, "idle")
    /\ Ends(h)
    /\ UNCHANGED <<quiet, breach, stored, alerts, bounds, expected, doubled>>

\* Time passes without a reading.
FallsQuiet ==
    /\ ~quiet
    /\ quiet' = TRUE
    /\ UNCHANGED <<breach, stored, alerts, handler, bounds, expected, doubled>>

ingestSensorReading(h) == Ingest(h) \/ Store(h) \/ Seen(h) \/ Scan(h)

Next ==
    \/ \E h \in Handlers :
          \/ ingestSensorReading(h) \/ Raise(h) \/ Insert(h) \/ Find(h) \/ Resolve(h)
          \/ Sweep(h) \/ Operate(h) \/ Save(h) \/ Breaks(h)
    \/ FallsQuiet

Spec == Init /\ [][Next]_vars

-----------------------------------------------------------------------------
\* Every variable has the shape the code gives it.
TypeOK ==
    /\ quiet \in BOOLEAN /\ doubled \in BOOLEAN
    /\ breach \in [Readings -> BOOLEAN]
    /\ stored \subseteq Readings
    /\ \A a \in Rows :
          \/ alerts[a] = NoAlert
          \/ /\ alerts[a].type \in Types
             /\ alerts[a].status \in ActiveStatuses \cup {"resolved"}
    /\ \A h \in Handlers : handler[h].at \in Places /\ handler[h].type \in Types
    /\ expected \in [Types -> {"active", "clear", "any"}]

\* ingestSensorReading and checkSensorOfflineAlerts: after a handler that ran alone and to its
\* end, and until the next one begins, the threshold has an active alert if the reading has
\* passed it and none otherwise, whatever duplicates and reopened alerts earlier handlers
\* left; and a sensor that was found quiet has one.
AlertsFollowReadings ==
    \A t \in Types : /\ expected[t] = "active" => ActiveRows(t) # {}
                     /\ expected[t] = "clear" => ActiveRows(t) = {}

\* upsertSensorAlert, "without creating duplicates": a type has two active alerts only when
\* two handlers found none before either made one, or an alert was opened again.
OneActiveAlert == ~doubled => \A t \in Types : Cardinality(ActiveRows(t)) <= 1
=============================================================================
