\* One complaint with two tasks in turn, three requests, two sweeps that may come together.
CONSTANTS
    Complaints = {c1}
    Workers = {w1}
    Tasks = {t1, t2}
    Requests = {r1, r2, r3}
    Ticks = {k1, k2}
    None = none
    MaxActive = 1
    MaxFailures = 1
SPECIFICATION Spec
INVARIANTS OneActiveTask StatusNamesWorker AssignmentLogged EscalatedOnce
PROPERTIES FinishedStays EventuallyEscalated
CHECK_DEADLOCK FALSE
