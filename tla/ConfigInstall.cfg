CONSTANTS
    Defaults = {d1, d2, d3}
    Edits = {e1, e2}
    None = None
SPECIFICATION Spec
INVARIANTS
    TypeOK
    UserTextKept
    PristineFollows
