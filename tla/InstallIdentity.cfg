CONSTANTS
    p1 = p1
    p2 = p2
    p3 = p3
    v1 = v1
    v2 = v2
    homebrew = homebrew
    copied = copied
    Kegs <- TwoKegs
    Labels <- TwoLabels
    Plists <- SomePlists
    Documents <- SomeDocuments
    Pids <- Three
    Orphans = FALSE
    Statuses = TRUE
    Accepts = TRUE
    None = None
SPECIFICATION Spec
SYMMETRY Symmetry
INVARIANTS
    TypeOK
    OneManager
    PlistsRead
