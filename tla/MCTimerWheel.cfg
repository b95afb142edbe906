SPECIFICATION FairSpec
CONSTANTS
    k1 = k1
    k2 = k2
    Key = {k1, k2}
    c1 = c1
    Caller = {c1}
    Runner = Runner
    NoTask = NoTask
    MaxTask = 3
    MaxTime = 2
INVARIANTS
    IndexAgreesWithHeap
    CancelledNeverRuns
    RunsAtMostOnce
    NoLostWakeup
    NeverEarly
PROPERTIES
    AbstractSpec
    EveryTaskSettles
CHECK_DEADLOCK FALSE
