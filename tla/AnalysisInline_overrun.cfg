\* The runs themselves exceed the configured concurrency.
CONSTANTS
    Images = {i1, i2}
    Whole = whole
    Calls = {c1, c2}
    Concurrency = 1
    QueueMax = 1
    Asked = {i1, i2}
    MaxAge = 0
    MaxRestarts = 0
SPECIFICATION Spec
SYMMETRY Symmetry
INVARIANTS BoundedConcurrency
CHECK_DEADLOCK FALSE
