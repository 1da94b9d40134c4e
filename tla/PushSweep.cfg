SPECIFICATION Spec
CONSTANTS
    Campaigns = {c1, c2}
    Urls = {u1}
    Requests = {}
    Pacers = {}
    Sweepers = {s1, s2}
    Desks = {d1}
    None = None
    LiveMode = TRUE
    EditorialFilter = TRUE
    PacerEnabled = FALSE
    Backfill = FALSE
    LinkCheck = TRUE
    Ceiling = 9
    SlowSends = FALSE
    Ops = {"compose", "poll"}
    MaxDays = 1
    MaxCrashes = 1
INVARIANTS
    OneFanOut
PROPERTIES
    FinalStays
SYMMETRY Symmetry
