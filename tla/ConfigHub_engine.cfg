CONSTANTS
    ticker = ticker
    h1 = h1
    Ticker = ticker
    Handlers <- OneHandler
    Events <- SectionEvents
    Versions <- TwoVersions
    Unreadable <- NoVersion
    NoModels = NoModels
    Nothing = Nothing
    Watched <- TwoSections
    MaxEdits = 2
SPECIFICATION FirstFairSpec
PROPERTIES
    EngineFollowsAdmin
