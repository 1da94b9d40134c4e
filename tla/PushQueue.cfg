SPECIFICATION Spec
CONSTANTS
    Campaigns = {c1, c2}
    Crons = {x, y}
    Editors = {d1, d2}
    None = None
INVARIANTS
    IInv
    RejectedNeverSent
    ClaimedIsKept
    RequestSentOnce
    WithinCeiling
PROPERTIES
    FinalStays
    FailedIsUndelivered
    ResentOncePerDay
SYMMETRY Symmetry
