SPECIFICATION FairSpec
CONSTANTS
    Campaigns = {c1}
    Urls = {u1}
    Requests = {}
    Pacers = {p1}
    Sweepers = {s1}
    Desks = {d1}
    None = None
    LiveMode = TRUE
    EditorialFilter = TRUE
    PacerEnabled = TRUE
    Backfill = TRUE
    LinkCheck = TRUE
    Ceiling = 9
    SlowSends = TRUE
    Ops = {"capture", "compose", "queuePush", "approve"}
    MaxDays = 2
    MaxCrashes = 1
PROPERTIES
    ClaimedIsClosed
    ScheduledGoesOut
