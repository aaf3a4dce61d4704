CONSTANTS
    v1 = v1
    v2 = v2
    Versions = {v1, v2}
    MaxRuns <- OneRepeated
    NewestFirst = TRUE
SPECIFICATION Spec
CONSTRAINT SecondLinuxWaits
INVARIANTS
    TypeOK
    ReadyIsInstallable
PROPERTIES
    PublishedComplete
    TapMovesToInstallable
CHECK_DEADLOCK FALSE
