CONSTANTS
    t1 = t1
    t2 = t2
    c1 = c1
    c2 = c2
    Nobody = Nobody
    NoRecord = NoRecord
    Tasks <- TwoTasks
    Callers <- TwoCallers
    PidReuse = TRUE
    SignalDeaths = FALSE
SPECIFICATION Spec
SYMMETRY Interchangeable
CONSTRAINT Overlaps
INVARIANTS
    TypeOK
    LaunchedOnce
    LockExclusive
    JobHasTask
    RemovedIsOver
    OutcomeIsProven
    UnprovenBlocks
PROPERTY
    KeepsPromise
