SPECIFICATION Spec
CONSTANTS
    Audiences = {free, premium}
    ManualOnly = {free}
    Runners = {r1}
    Campaigns = {c1, c2}
    None = None
    ApprovalRequired = TRUE
    HoldRun = FALSE
    SendLive = TRUE
    HasLookup = TRUE
    Doors = {"send_now", "approve"}
    GuardOn = TRUE
    SlowSteps = FALSE
    LateCalls = FALSE
    MaxCrashes = 0
    MaxRestores = 1
INVARIANTS
    OneCampaignAccepted
PROPERTIES
    UnseenDraftNeedsApproval
    OwnApprovalHonoured
SYMMETRY Symmetry
