CONSTANTS
    c1 = c1
    c2 = c2
    t1 = t1
    t2 = t2
    t3 = t3
    Tasks <- ThreeTasks
    Cleaners <- TwoCleaners
    MaxRecords = 2
    MaxTime = 1
    NoRecord = NoRecord
CONSTRAINT Unraced
SYMMETRY Exchanges
SPECIFICATION Spec
INVARIANTS
    TypeOK
    SummaryRetained
CHECK_DEADLOCK FALSE
