SPECIFICATION FairSpec
CONSTANTS
    Audiences = {free}
    ManualOnly = {free}
    Runners = {r1, r2}
    Campaigns = {c1}
    None = None
    ApprovalRequired = FALSE
    HoldRun = FALSE
    SendLive = TRUE
    HasLookup = TRUE
    Doors = {"cron", "retry", "send_free", "hold"}
    GuardOn = FALSE
    SlowSteps = FALSE
    LateCalls = FALSE
    MaxCrashes = 1
    MaxRestores = 0
INVARIANTS
    SkippedNothingSent
PROPERTIES
    EventuallyResolved
    ScheduleOnlyDrafts
    DayKept
