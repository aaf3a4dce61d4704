CONSTANTS
    Kegs = {old, rebuilt, target}
    Target = target
    SameVersion = {rebuilt, target}
    Pids = {p1, p2, p3}
    Foreign = FALSE
    None = None
SPECIFICATION Spec
INVARIANTS
    TypeOK
    ProvenIsTarget
    ProvenIsRestarted
CHECK_DEADLOCK FALSE
