CONSTANTS
    ticker = ticker
    h1 = h1
    Ticker = ticker
    Handlers <- OneHandler
    Events <- SectionEvents
    Versions <- ThreeVersions
    Unreadable <- BadVersion
    NoModels = NoModels
    Nothing = Nothing
    Watched <- TwoSections
    MaxEdits = 2
SPECIFICATION FirstFairSpec
INVARIANTS
    TypeOK
    HubIsWhole
    EngineInStep
    CachesInStep
PROPERTIES
    HubConverges
