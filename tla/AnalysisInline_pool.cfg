\* Three calls for two images: a slot, a place in the queue and a rejection, and a restart.
CONSTANTS
    Images = {i1, i2}
    Whole = whole
    Calls = {c1, c2, c3}
    Concurrency = 1
    QueueMax = 1
    Asked = {i1, i2}
    MaxAge = 0
    MaxRestarts = 1
SPECIFICATION Spec
SYMMETRY Symmetry
INVARIANTS SlotsAccounted NoWaitForAFreeSlot NoStrandedKey OneTaskPerKeyUnlessRaced
CHECK_DEADLOCK FALSE
