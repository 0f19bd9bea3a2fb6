\* Two requests with an idempotency key and one without, of two bodies; the clock passes
\* the lease and then the time to live. Two confirmations of two files with two codes; two
\* requests for three sensors and two toilets; two publishers, two recipients and one
\* device; two administrators who replace the code of a facility; two who deal with a
\* toilet, rollups among them; two who deal with two areas and a facility. The two are r1 and r2 in every part.
CONSTANTS
    Requests = {r1, r2}
    Others = {o1}
    b1 = b1
    b2 = b2
    c1 = c1
    Bodies = {b1, b2}
    ClientId <- Ids
    NoClient = none
    TriggerOnUpload = FALSE
    NoRequest = none
    LockMs = 1
    TtlMs = 2
    MaxTime = 2
    Jobs = {j1, j2}
    Codes = {e1, e2}
    Confirms = {r1, r2}
    Nobody = none
    Devices = {d1, d2, d3}
    Toilets = {t1, t2}
    NoToilet = none
    Operators = {r1, r2}
    MaxOperations = 4
    Users = {u1, u2}
    NoUser = none
    Publishers = {r1, r2}
    Registrars = {r1, r2}
    Administrators = {r1, r2}
    MaxCodes = 4
    Visitors = {r1, r2}
    MaxVisits = 5
    Areas = {a1, a2}
    Facilities = {f1}
    City = city
    Nowhere = none
    Planners = {r1, r2}
    MaxPlans = 3
SYMMETRY Symmetry
SPECIFICATION MCSpec
INVARIANTS
    ReplayAnswersSameBody OneHandlerUntilReopened OneSubmission
    ImportIsWhole
    OneSensorAToilet
    ToldOnce
    OneCodeInForce
    ClosedUnlessRolledUp
    AreasHold
CHECK_DEADLOCK FALSE
