--------------------------- MODULE SensorMapping ----------------------------
(***************************************************************************)
(* Which sensor is in which toilet (sensors/sensor.service.js): devices    *)
(* are registered, attached, put in the place of another and detached. A   *)
(* device has one row, by a unique index on its identifier; that a toilet  *)
(* has one active sensor is asked for by the handlers alone, each in a     *)
(* look-up some awaits before it writes, through the instance it has read  *)
(* (module Sequelize). No handler uses a transaction.                      *)
(***************************************************************************)
EXTENDS Naturals, Sequelize

CONSTANTS
    Devices,        \* identifiers of devices
    Toilets,        \* toilet units
    NoToilet,       \* a row that names none
    Operators,      \* requests that can be under way together
    MaxRequests     \* bound on the requests

MappingAssumption ==
    NoToilet \notin Toilets \cup Devices /\ Toilets \cap Devices = {} /\ MaxRequests \in Nat

VARIABLES
    device,     \* the SensorDevice rows
    request,    \* where each request is, with what it has read
    made,       \* requests so far
    crossed     \* history: the devices and toilets two requests dealt with together, and the
                \* toilets a stale reading put a device into though nobody had named them

vars == <<device, request, made, crossed>>

-----------------------------------------------------------------------------
Row(status, toilet) == [status |-> status, toilet_unit_id |-> toilet]
NoRow == Row("none", NoToilet)
Idle == [at |-> "idle", of |-> {}, toilet |-> NoToilet, replace |-> FALSE, seen |-> NoRow,
         other |-> {}, otherSeen |-> NoRow]

Known(d) == device[d].status # "none"
ActiveOn(t) == {d \in Devices : device[d] = Row("active", t)}

Init ==
    /\ device = [d \in Devices |-> NoRow]
    /\ request = [q \in Operators |-> Idle]
    /\ made = 0
    /\ crossed = {}

\* The request goes on; it has crossed another in each device and toilet of both.
Concerns(r) == (r.of \cup r.other \cup {r.toilet}) \ {NoToilet}

Goes(q, r) ==
    /\ request' = [request EXCEPT ![q] = r]
    /\ crossed' = crossed \cup UNION {Concerns(r) \cap Concerns(request[p]) : p \in Operators \ {q}}

Ends(q) == request' = [request EXCEPT ![q] = Idle] /\ UNCHANGED crossed

-----------------------------------------------------------------------------
\* findDeviceByIdentifier. An attachment that is there already is the answer, one
\* elsewhere an error, unless the device is to be moved.
AskAttach(q, d, t, replace) ==
    /\ request[q].at = "idle" /\ made < MaxRequests
    /\ made' = made + 1
    /\ device[d] # Row("active", t)
    /\ replace \/ device[d].status # "active" \/ device[d].toilet_unit_id = NoToilet
    /\ Goes(q, [Idle EXCEPT !.at = "find", !.of = {d}, !.toilet = t, !.replace = replace, !.seen = device[d]])
    /\ UNCHANGED device

\* Mutant: the other sensor of the toilet is not looked for when the device is to be moved.
FindOther_NotMoved(q, d) ==
    LET t == request[q].toilet
        others == IF request[q].replace /\ Known(d) THEN {} ELSE ActiveOn(t) \ {d}
    IN  /\ request[q].at = "find" /\ d \in request[q].of
        /\ \/ others = {} /\ Goes(q, [request[q] EXCEPT !.at = "attach"])
           \/ \E e \in others :
                IF request[q].replace
                THEN Goes(q, [request[q] EXCEPT !.at = "displace", !.other = {e}, !.otherSeen = device[e]])
                ELSE Ends(q)
        /\ UNCHANGED <<device, made>>

\* The toilet's sensor, any one if it has several; a device not known yet excludes none.
FindOther(q, d) ==
    LET others == ActiveOn(request[q].toilet) \ (IF request[q].seen = NoRow THEN {} ELSE {d})
    IN  /\ request[q].at = "find" /\ d \in request[q].of
        /\ \/ others = {} /\ Goes(q, [request[q] EXCEPT !.at = "attach"])
           \/ \E e \in others :
                IF request[q].replace
                THEN Goes(q, [request[q] EXCEPT !.at = "displace", !.other = {e}, !.otherSeen = device[e]])
                ELSE Ends(q)
        /\ UNCHANGED <<device, made>>

Displace(q, e) ==
    /\ request[q].at = "displace" /\ e \in request[q].other
    /\ device' = [device EXCEPT ![e] = Saved(@, request[q].otherSeen, Row("inactive", NoToilet))]
    /\ Goes(q, [request[q] EXCEPT !.at = "attach"])
    /\ UNCHANGED made

\* A row that has come into being since the look-up refuses the new one.
Attach(q, d) ==
    /\ request[q].at = "attach" /\ d \in request[q].of
    /\ LET row == Row("active", request[q].toilet)
       IN  device' = [device EXCEPT ![d] =
                IF request[q].seen # NoRow THEN Saved(@, request[q].seen, row)
                ELSE IF Known(d) THEN @ ELSE row]
    /\ request' = [request EXCEPT ![q] = Idle] /\ UNCHANGED made
    /\ crossed' = crossed \cup
            {t \in Toilets \ {request[q].toilet} : d \in ActiveOn(t)' /\ d \notin ActiveOn(t)}

\* registerSensor: a device that is known keeps its place, a new one has none.
AskRegister(q, d) ==
    /\ request[q].at = "idle" /\ made < MaxRequests
    /\ made' = made + 1
    /\ ~Known(d)
    /\ Goes(q, [Idle EXCEPT !.at = "register", !.of = {d}])
    /\ UNCHANGED device

Register(q, d) ==
    /\ request[q].at = "register" /\ d \in request[q].of
    /\ device' = [device EXCEPT ![d] = IF Known(d) THEN @ ELSE Row("inactive", NoToilet)]
    /\ Ends(q) /\ UNCHANGED made

AskDetach(q, d) ==
    /\ request[q].at = "idle" /\ made < MaxRequests
    /\ made' = made + 1
    /\ Known(d)
    /\ Goes(q, [Idle EXCEPT !.at = "detach", !.of = {d}, !.seen = device[d]])
    /\ UNCHANGED device

Detach(q, d) ==
    /\ request[q].at = "detach" /\ d \in request[q].of
    /\ device' = [device EXCEPT ![d] = Saved(@, request[q].seen, Row("inactive", NoToilet))]
    /\ Ends(q) /\ UNCHANGED made

\* A query is rejected or the process dies; what was displaced stays so.
Fail(q) ==
    /\ request[q].at # "idle"
    /\ Ends(q) /\ UNCHANGED <<device, made>>

Next ==
    \E q \in Operators :
        \/ Fail(q)
        \/ \E d \in Devices :
            \/ \E t \in Toilets, replace \in BOOLEAN : AskAttach(q, d, t, replace)
            \/ AskRegister(q, d) \/ AskDetach(q, d)
            \/ FindOther(q, d) \/ Displace(q, d) \/ Attach(q, d) \/ Register(q, d) \/ Detach(q, d)

Spec == Init /\ [][Next]_vars

-----------------------------------------------------------------------------
\* Every variable has the shape the code gives it.
TypeOK ==
    /\ device \in [Devices -> [status: {"none", "inactive", "active"}, toilet_unit_id: Toilets \cup {NoToilet}]]
    /\ \A q \in Operators : request[q].of \subseteq Devices /\ request[q].other \subseteq Devices
    /\ made \in 0 .. MaxRequests
    /\ crossed \subseteq Devices \cup Toilets

\* Whatever has been attached, moved, detached or broken off before, a toilet has one
\* active sensor, unless two requests for it were once under way together or one that had
\* crossed others in a device made it active there unasked; and a device is active if it
\* is in a toilet and only then, unless two requests for it were under way together.
OneSensorAToilet ==
    /\ \A t \in Toilets \ crossed : \A d, e \in ActiveOn(t) : d = e
    /\ \A d \in Devices \ crossed :
        device[d].status = "active" <=> device[d].toilet_unit_id # NoToilet
=============================================================================
