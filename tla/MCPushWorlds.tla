---------------------------- MODULE MCPushWorlds -----------------------------
(* TLC instances of PushCampaign, an initial state each: `world` says which *)
(* one, and stays.                                                           *)
EXTENDS TLC

CONSTANTS Campaigns, Crons, Editors, None

VARIABLES world, row, call, phase, days, spaced, sentToday, claimedToday, reached, outs, outToday, rejected, crashes

vars == <<world, row, call, phase, days, spaced, sentToday, claimedToday, reached, outs, outToday, rejected, crashes>>

\* Those of a kind are interchangeable. Where a world has one of a kind only, it goes by another name.
Symmetry == Permutations(Campaigns) \cup Permutations(Crons) \cup Permutations(Editors)

\* Two pacers and two editors at the Review and Queue screens, while sends end within half an hour.
Queue == INSTANCE PushCampaignInv WITH
    Urls <- {"u1"}, Requests <- {}, Pacers <- Crons, Sweepers <- {}, Desks <- Editors,
    LiveMode <- TRUE, EditorialFilter <- TRUE, PacerEnabled <- TRUE, Backfill <- FALSE, LinkCheck <- TRUE,
    Ceiling <- 9, SlowSends <- FALSE, Ops <- {"capture", "approve", "reject", "reviewPush", "queuePush"},
    MaxDays <- 0, MaxCrashes <- 1

\* Requests with one id: two at the same moment, to be sent at once or scheduled, or one made again after a night.
Twice == INSTANCE PushCampaignInv WITH
    Urls <- {"u1"}, Requests <- {"q1"}, Pacers <- {}, Sweepers <- {"s"}, Desks <- Editors,
    LiveMode <- TRUE, EditorialFilter <- TRUE, PacerEnabled <- TRUE, Backfill <- FALSE, LinkCheck <- TRUE,
    Ceiling <- 9, SlowSends <- FALSE, Ops <- {"compose", "schedule"}, MaxDays <- 0, MaxCrashes <- 1

Again == INSTANCE PushCampaignInv WITH
    Urls <- {"u1"}, Requests <- {"q1"}, Pacers <- {}, Sweepers <- {"s"}, Desks <- {"d"},
    LiveMode <- TRUE, EditorialFilter <- TRUE, PacerEnabled <- TRUE, Backfill <- FALSE, LinkCheck <- TRUE,
    Ceiling <- 9, SlowSends <- FALSE, Ops <- {"compose", "breaking"}, MaxDays <- 1, MaxCrashes <- 1

\* One pacer that fills the morning after with articles of the day before, as it has leave for one push a day.
Morning == INSTANCE PushCampaignInv WITH
    Urls <- {"u1"}, Requests <- {}, Pacers <- {"p"}, Sweepers <- {}, Desks <- {},
    LiveMode <- TRUE, EditorialFilter <- TRUE, PacerEnabled <- TRUE, Backfill <- TRUE, LinkCheck <- FALSE,
    Ceiling <- 1, SlowSends <- TRUE, Ops <- {"capture"}, MaxDays <- 1, MaxCrashes <- 1

Init ==
    \/ world = "queue" /\ Queue!Init
    \/ world = "twice" /\ Twice!Init
    \/ world = "again" /\ Again!Init
    \/ world = "morning" /\ Morning!Init

Next ==
    /\ UNCHANGED world
    /\ \/ world = "queue" /\ Queue!Next
       \/ world = "twice" /\ Twice!Next
       \/ world = "again" /\ Again!Next
       \/ world = "morning" /\ Morning!Next

Spec == Init /\ [][Next]_vars

-----------------------------------------------------------------------------
(* Properties: those of PushCampaign, in the worlds that have what they are about.*)

\* The inductive invariant of the proofs.
IInv ==
    /\ world = "queue" => Queue!IInv
    /\ world = "twice" => Twice!IInv
    /\ world = "again" => Again!IInv
    /\ world = "morning" => Morning!IInv

\* An item an editor rejected is never sent.
RejectedNeverSent == world = "queue" => Queue!RejectedNeverSent

\* A claimed campaign stays with its claimer while sends end within recovery's half hour.
ClaimedIsKept == world = "queue" => Queue!ClaimedIsKept

\* Requests with one id push once.
RequestSentOnce ==
    /\ world = "twice" => Twice!RequestSentOnce
    /\ world = "again" => Again!RequestSentOnce

\* One pacer alone keeps the channel's daily ceiling.
WithinCeiling == world = "morning" => Morning!WithinCeiling

\* A campaign that was sent, failed or archived is not queued or scheduled again.
FinalStays == [][
    /\ world = "queue" => Queue!FinalKept
    /\ world = "twice" => Twice!FinalKept
    /\ world = "again" => Again!FinalKept
    /\ world = "morning" => Morning!FinalKept]_vars

\* Recovery calls a stranded campaign FAILED only if no delivery is on record.
FailedIsUndelivered == [][world = "queue" => Queue!FailedStep]_vars

\* The morning backfill uses an article at most once a day.
ResentOncePerDay == [][world = "morning" => Morning!ResentStep]_vars
=============================================================================
