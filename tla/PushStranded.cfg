SPECIFICATION Spec
CONSTANTS
    Campaigns = {c1}
    Urls = {u1}
    Requests = {}
    Pacers = {}
    Sweepers = {s1}
    Desks = {d1}
    None = None
    LiveMode = TRUE
    EditorialFilter = TRUE
    PacerEnabled = FALSE
    Backfill = FALSE
    LinkCheck = TRUE
    Ceiling = 9
    SlowSends = FALSE
    Ops = {"poll", "queuePush"}
    MaxDays = 1
    MaxCrashes = 2
PROPERTIES
    StrandedNeverSwept
SYMMETRY Symmetry
