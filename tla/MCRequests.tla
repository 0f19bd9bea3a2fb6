----------------------------- MODULE MCRequests ------------------------------
(* Handlers that look before they write, with little or no help from the     *)
(* database, each a part that runs alone, for no row is written by two of    *)
(* them: submissions (Submissions, which extends Idempotency), imports of    *)
(* workers (WorkerImport), sensors in toilets (SensorMapping), notifications *)
(* (Notifications), codes of facilities (FacilityQr), toilets (ToiletUnits)  *)
(* and the areas of a tenant (AreaHierarchy).                                *)
EXTENDS Submissions, TLC

CONSTANTS
    b1, b2, c1,                                                     \* two bodies, a client's id
    Jobs, Codes, Confirms, Nobody,                                  \* WorkerImport
    Devices, Toilets, NoToilet, Operators, MaxOperations,           \* SensorMapping
    Users, NoUser, Publishers, Registrars,                          \* Notifications
    Administrators, MaxCodes,                                       \* FacilityQr
    Visitors, MaxVisits,                                            \* ToiletUnits
    Areas, Facilities, City, Nowhere, Planners, MaxPlans            \* AreaHierarchy

VARIABLES
    part,
    job, rows, file, account, confirm, announced, undone, early,
    device, operation, operations, met,
    inbox, publisher, token, registrar, strayed, lookedUp, moved, holder, raced,
    code, drawn, replacement, lacking, undrawn,
    unit, visit, visits, closed, removed, rolled, jostled,
    area, sited, plan, plans, relevelled, gone, hung

\* One body has a client's id, the other has none.
Ids == b1 :> c1 @@ b2 :> NoClient

W == INSTANCE WorkerImport
M == INSTANCE SensorMapping WITH
    MaxRequests <- MaxOperations, request <- operation, made <- operations, crossed <- met
N == INSTANCE Notifications WITH Requests <- Registrars, rows <- inbox, request <- registrar
Q == INSTANCE FacilityQr WITH request <- replacement
T == INSTANCE ToiletUnits WITH
    Requests <- Visitors, MaxRequests <- MaxVisits, request <- visit, made <- visits, crossed <- jostled
H == INSTANCE AreaHierarchy WITH
    Requests <- Planners, MaxRequests <- MaxPlans, place <- sited, request <- plan, made <- plans, removed <- gone

ASSUME RequestsAssumption ==
    /\ W!ImportAssumption /\ M!MappingAssumption /\ N!NotificationsAssumption
    /\ Q!QrAssumption /\ T!ToiletAssumption /\ H!AreasAssumption

importVars == <<job, rows, file, account, confirm, announced, undone, early>>
mappingVars == <<device, operation, operations, met>>
noticeVars == <<inbox, publisher, token, registrar, strayed, lookedUp, moved, holder, raced>>
qrVars == <<code, drawn, replacement, lacking, undrawn>>
unitVars == <<unit, visit, visits, closed, removed, rolled, jostled>>
areaVars == <<area, sited, plan, plans, relevelled, gone, hung>>
all == <<part, allVars, importVars, mappingVars, noticeVars, qrVars, unitVars, areaVars>>

\* What a module leaves open at the start is chosen in its own part only.
MCInit ==
    /\ part \in {"submissions", "imports", "mapping", "notices", "codes", "toilets", "areas"}
    /\ SubmissionsInit /\ W!Init /\ M!Init /\ N!Init /\ Q!Init /\ T!Init
    /\ part = "submissions" \/ (complete /\ \A r \in Submitters : Body(r) = b1)
    /\ part = "imports" \/ ((\A j \in Jobs : file[j] = {}) /\ \A e \in Codes : account[e] = {})
    /\ part = "notices" \/ holder = NoUser
    /\ part = "areas" \/ (area = [a \in Areas |-> H!NoArea] /\ sited = [f \in Facilities |-> H!NoPlace])
    /\ H!Init

MCNext ==
    \/ /\ part = "submissions" /\ SubmissionsNext
       /\ UNCHANGED <<part, importVars, mappingVars, noticeVars, qrVars, unitVars, areaVars>>
    \/ /\ part = "imports" /\ W!Next
       /\ UNCHANGED <<part, allVars, mappingVars, noticeVars, qrVars, unitVars, areaVars>>
    \/ /\ part = "mapping" /\ M!Next
       /\ UNCHANGED <<part, allVars, importVars, noticeVars, qrVars, unitVars, areaVars>>
    \/ /\ part = "notices" /\ N!Next
       /\ UNCHANGED <<part, allVars, importVars, mappingVars, qrVars, unitVars, areaVars>>
    \/ /\ part = "codes" /\ Q!Next
       /\ UNCHANGED <<part, allVars, importVars, mappingVars, noticeVars, unitVars, areaVars>>
    \/ /\ part = "toilets" /\ T!Next
       /\ UNCHANGED <<part, allVars, importVars, mappingVars, noticeVars, qrVars, areaVars>>
    \/ /\ part = "areas" /\ H!Next
       /\ UNCHANGED <<part, allVars, importVars, mappingVars, noticeVars, qrVars, unitVars>>

MCSpec == MCInit /\ [][MCNext]_all

\* The requests of every part are the same two, which are interchangeable.
Symmetry == Permutations(Requests)

\* A job is imported once and whole (WorkerImport).
ImportIsWhole == part = "imports" => W!ImportIsWhole

\* A toilet has one active sensor, unless two requests for it crossed (SensorMapping).
OneSensorAToilet == part = "mapping" => M!OneSensorAToilet

\* A recipient is told of an event once, and on a device of their own (Notifications).
ToldOnce == part = "notices" => N!ToldOnce

\* A facility has one code in force, the one its image shows (FacilityQr).
OneCodeInForce == part = "codes" => Q!OneCodeInForce

\* A deleted toilet is never to be had again, a deactivated one until a rollup (ToiletUnits).
ClosedUnlessRolledUp == part = "toilets" => T!ClosedUnlessRolledUp

\* Areas nest, up to the city or to an area that was put beneath nothing, and one that was
\* removed has nothing left in it (AreaHierarchy).
AreasHold == part = "areas" => H!AreasNest /\ H!RemovedAreEmpty
=============================================================================
