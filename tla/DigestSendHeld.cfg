SPECIFICATION Spec
CONSTANTS
    Audiences = {premium}
    ManualOnly = {}
    Runners = {r1}
    Campaigns = {c1}
    None = None
    ApprovalRequired = TRUE
    HoldRun = FALSE
    SendLive = TRUE
    HasLookup = TRUE
    Doors = {"cron", "approve", "hold"}
    GuardOn = FALSE
    SlowSteps = FALSE
    LateCalls = FALSE
    MaxCrashes = 0
    MaxRestores = 0
PROPERTIES
    HeldNeverScheduled
