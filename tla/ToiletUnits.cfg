\* Two requests or rollups at a time, four in all.
CONSTANTS
    Requests = {q1, q2}
    MaxRequests = 4
SPECIFICATION Spec
INVARIANTS DeactivatedIsClosed
CHECK_DEADLOCK FALSE
