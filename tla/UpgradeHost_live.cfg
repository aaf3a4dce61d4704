CONSTANTS
    t1 = t1
    t2 = t2
    c1 = c1
    c2 = c2
    Nobody = Nobody
    NoRecord = NoRecord
    Tasks <- OneTask
    Callers <- OneCaller
    PidReuse = FALSE
    SignalDeaths = TRUE
SPECIFICATION FairSpec
PROPERTY
    EventuallyResolved
    CleanupCompletes
