SPECIFICATION Spec
CONSTANTS
    Audiences = {premium}
    ManualOnly = {}
    Runners = {r1, r2}
    Campaigns = {c1, c2}
    None = None
    ApprovalRequired = FALSE
    HoldRun = FALSE
    SendLive = TRUE
    HasLookup = TRUE
    Doors = {"retry"}
    GuardOn = FALSE
    SlowSteps = TRUE
    LateCalls = TRUE
    MaxCrashes = 0
    MaxRestores = 0
INVARIANTS
    TypeOK
    MarkerIsProof
    OneCampaignAccepted
    IInv
PROPERTIES
    SentIsFinal
SYMMETRY Symmetry
