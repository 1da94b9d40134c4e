----------------------------- MODULE MCServices -----------------------------
(* TLC instances of services that share no state with one another: one run explores each on its own small world.*)
(* `part` says which, and stays. The eighteen variables stand for those of the part, in the order of its `vars`;*)
(* those it does not need keep their first value. A property of this module is that of the modules, under its   *)
(* name there, in the parts that are listed with it.                                                            *)
EXTENDS Naturals, Sequences, FiniteSets, TLC

CONSTANTS None, x, y

VARIABLES part, v1, v2, v3, v4, v5, v6, v7, v8, v9, v10, v11, v12, v13, v14, v15, v16, v17, v18

vars == <<part, v1, v2, v3, v4, v5, v6, v7, v8, v9, v10, v11, v12, v13, v14, v15, v16, v17, v18>>
after6 == <<part, v7, v8, v9, v10, v11, v12, v13, v14, v15, v16, v17, v18>>
after8 == <<part, v9, v10, v11, v12, v13, v14, v15, v16, v17, v18>>
after9 == <<part, v10, v11, v12, v13, v14, v15, v16, v17, v18>>
after10 == <<part, v11, v12, v13, v14, v15, v16, v17, v18>>
after11 == <<part, v12, v13, v14, v15, v16, v17, v18>>
after13 == <<part, v14, v15, v16, v17, v18>>
after12 == <<part, v13, v14, v15, v16, v17, v18>>

\* Two of a kind, containers, tabs, requests, readers or articles.
Twins == {x, y}
Symmetry == Permutations(Twins)

\* LinkedIn's cron overlaps itself during a deploy; a container that dies is followed by another. LinkedIn's page
\* starts in the articles' rule, Facebook's with every push.
SocialRule  == [linkedin |-> 3, facebook |-> 1]
SocialCrons == [linkedin |-> {"t1", "t2"}, facebook |-> {"t1"}]
OneCron     == [linkedin |-> {"t1"}, facebook |-> {"t1"}]
SocialHome  == [c \in {"t1", "t2", "d1"} |-> IF c = "t2" THEN "y" ELSE "x"]

\* Rows of two event logs: two pushes of one campaign, and a send whose proof carries no send of ours by id.
Row(type, of, linked) == [type |-> type, of |-> of, linked |-> linked]
PushLog == <<Row("SENT", "k1", TRUE), Row("DISMISSED", "k1", TRUE), Row("SENT", "k1", TRUE), Row("CLICKED", None, TRUE)>>
MailLog == <<Row("CAMPAIGN_SENT", "d1", FALSE), Row("UNSUBSCRIBE", "d1", TRUE), Row("SPAM", None, TRUE),
             Row("UNSUBSCRIBE", "d1", TRUE)>>

\* What the CMS makes of two accounts. For the pull, both are of one address: a paid plan ends, with an opt-in; the
\* other, on a paid plan, refuses. For consent: an account is deleted and opened again with an opt-in, at an address
\* an erased one held.
Version(status, consent, fresh, addr, erasure) ==
    [status |-> status, consent |-> consent, fresh |-> fresh, addr |-> addr, erasure |-> erasure]
PullHistory ==
    <<<<Version("active", "none", FALSE, "e1", FALSE), Version("ended", "yes", TRUE, "e1", FALSE)>>,
      <<Version("active", "no", FALSE, "e1", FALSE)>>>>
ConsentHistory ==
    <<<<Version("deleted", "none", FALSE, "e1", FALSE), Version("active", "yes", TRUE, "e2", FALSE)>>,
      <<Version("deleted", "none", FALSE, "e2", TRUE)>>>>

SameTier  == [k \in Twins |-> 1]
SameTiers == [k \in {"k1", "k2"} |-> 1]

SocialSlow == INSTANCE SocialPost WITH
    Networks <- {"linkedin", "facebook"}, Articles <- {"a"}, ArticleOf <- <<"a", "a">>,
    Store <- "store", Earlier <- {}, Rule <- SocialRule, Crons <- SocialCrons, Desks <- {"d1"}, Home <- SocialHome,
    None <- None, MaxPerTick <- 1, Retries <- 1, DailyCap <- 1, MaxSlow <- 1, MaxCrashes <- 0,
    net <- v1, slow <- v2, sent <- v3, cut <- v4, row <- v5, call <- v6, stopped <- v7, policy <- v8,
    crashes <- v9
SocialDies == INSTANCE SocialPost WITH
    Networks <- {"linkedin", "facebook"}, Articles <- {"a"}, ArticleOf <- <<"a", "a">>,
    Store <- "store", Earlier <- {}, Rule <- SocialRule, Crons <- OneCron, Desks <- {"d1"}, Home <- SocialHome,
    None <- None, MaxPerTick <- 1, Retries <- 1, DailyCap <- 1, MaxSlow <- 0, MaxCrashes <- 1,
    net <- v1, slow <- v2, sent <- v3, cut <- v4, row <- v5, call <- v6, stopped <- v7, policy <- v8,
    crashes <- v9
Token == INSTANCE TokenRenewal WITH
    Containers <- {"x", "y"}, Ttl <- 3, Window <- 1, MaxPaste <- 1, MaxRenewals <- 1,
    runs <- v1, row <- v2, ids <- v3, cache <- v4, check <- v5, checked <- v6, left <- v7, blocked <- v8,
    missed <- v9
WhatsTwo == INSTANCE WhatsAppQueue WITH
    Containers <- Twins, ArticleOf <- <<"a", "a">>, Slots <- 6, Gap <- 2, MaxTime <- 8, MaxCrashes <- 0,
    MaxOverlaps <- 1,
    now <- v1, ticked <- v2, sent <- v3, at <- v4, excused <- v5, cut <- v6, mark <- v7, watermark <- v8,
    lastNudge <- v9, tick <- v10, tells <- v11, crashes <- v12, overlaps <- v13
WhatsDies == INSTANCE WhatsAppQueue WITH
    Containers <- {"x"}, ArticleOf <- <<"a", "a">>, Slots <- 6, Gap <- 2, MaxTime <- 7, MaxCrashes <- 1,
    MaxOverlaps <- 0,
    now <- v1, ticked <- v2, sent <- v3, at <- v4, excused <- v5, cut <- v6, mark <- v7, watermark <- v8,
    lastNudge <- v9, tick <- v10, tells <- v11, crashes <- v12, overlaps <- v13
Feed == INSTANCE FeedPoll WITH
    Containers <- Twins, Feeds <- {1, 2}, Lists <- <<{"a1"}, {"a1", "a2"}>>, Headline <- [a \in {"a1", "a2"} |-> "h1"],
    Queue <- [h \in {"h1"} |-> "QUALIFIED"], None <- None, Modes <- {"unpaced"}, MaxFaults <- 1,
    mode <- v1, published <- v2, claimed <- v3, linked <- v4, queue <- v5, sends <- v6, aged <- v7,
    poll <- v8, lost <- v9, blind <- v10, faults <- v11
Reached == INSTANCE Reach WITH
    Readers <- Twins, Campaigns <- {"k1", "k2"}, Lanes <- 2, Batch <- 1, Cap <- 1,
    MaxForced <- 1, MaxFaults <- 1, MaxNights <- 1,
    send <- v1, events <- v2, today <- v3, warm <- v4, got <- v5, together <- v6, forced <- v7, faults <- v8,
    nights <- v9, unheard <- v10
Browser == INSTANCE Subscriber WITH
    Tabs <- Twins, Topics <- {"all", "gst"}, None <- None, MaxEndpoints <- 2,
    variant <- v1, realScroll <- v2, permission <- v3, push <- v4, made <- v5, dead <- v6, rows <- v7,
    dismissed <- v8, stored <- v9, tab <- v10, worker <- v11, unposted <- v12
Pull == INSTANCE AudienceSync WITH
    Accounts <- {1, 2}, Addresses <- {"e1"}, History <- PullHistory, OptOuts <- {}, Hidable <- {2},
    Pages <- <<{1}, {2}>>, None <- None, MinShare <- 50, ChangeLimit <- 1, MaxErasures <- 0, MaxLifts <- 1,
    MaxFaults <- 1, MaxRuns <- 2,
    clock <- v1, versions <- v2, hidden <- v3, receipts <- v4, acct <- v5, supp <- v6, member <- v7,
    events <- v8, lifts <- v9, breaker <- v10, mark <- v11, rows <- v12, run <- v13, touched <- v14,
    runs <- v15, faults <- v16, left <- v17, lifted <- v18
Consent == INSTANCE AudienceSync WITH
    Accounts <- {1, 2}, Addresses <- {"e1", "e2"}, History <- ConsentHistory, OptOuts <- {<<"e2", "UNSUBSCRIBE">>}, Hidable <- {},
    Pages <- <<{1}, {2}>>, None <- None, MinShare <- 50, ChangeLimit <- 1, MaxErasures <- 0, MaxLifts <- 1,
    MaxFaults <- 0, MaxRuns <- 1,
    clock <- v1, versions <- v2, hidden <- v3, receipts <- v4, acct <- v5, supp <- v6, member <- v7,
    events <- v8, lifts <- v9, breaker <- v10, mark <- v11, rows <- v12, run <- v13, touched <- v14,
    runs <- v15, faults <- v16, left <- v17, lifted <- v18
Writer == INSTANCE AudienceWriter WITH
    Writers <- Twins, Faults <- {"failed", "lost", "refused", "crash"}, None <- None,
    ResubscribeOn <- TRUE, MaxChanges <- 2, MaxFaults <- 1,
    member <- v1, blocked <- v2, consent <- v3, contact <- v4, w <- v5, unseen <- v6, changes <- v7,
    faults <- v8
Console == INSTANCE Accounts WITH
    People <- {"p1", "p2"}, Admins <- {"p1"}, Handlers <- Twins, Ops <- {"patch", "create", "invite"},
    None <- None, MaxInvites <- 2, MaxCrashes <- 1,
    user <- v1, invites <- v2, req <- v3, made <- v4, issued <- v5, crashes <- v6
PushEvents == INSTANCE Retention WITH
    Log <- PushLog, Sweepers <- Twins, Table <- "Event", BatchSize <- 2, MaxBatches <- 2, MaxFaults <- 1, None <- None,
    written <- v1, aged <- v2, live <- v3, rolled <- v4, first <- v5, lifetime <- v6, proof <- v7, sw <- v8,
    twice <- v9, faults <- v10
MailEvents == INSTANCE Retention WITH
    Log <- MailLog, Sweepers <- Twins, Table <- "EmailEvent", BatchSize <- 2, MaxBatches <- 2, MaxFaults <- 1, None <- None,
    written <- v1, aged <- v2, live <- v3, rolled <- v4, first <- v5, lifetime <- v6, proof <- v7, sw <- v8,
    twice <- v9, faults <- v10
Problem == INSTANCE Alerts WITH
    Passes <- Twins, Kinds <- {"retrying"}, Blocking <- {"retrying"}, Health <- {}, Editor <- {},
    MaxAttempts <- 2, PushStale <- 1, MaxTime <- 2, MaxCrashes <- 1,
    now <- v1, raised <- v2, slot <- v3, solved <- v4, healthy <- v5, pass <- v6, told <- v7, taken <- v8,
    unanswered <- v9, crashes <- v10
Staff == INSTANCE Alerts WITH
    Passes <- Twins, Kinds <- {"ready_for_approval"}, Blocking <- {}, Health <- {}, Editor <- {"ready_for_approval"},
    MaxAttempts <- 2, PushStale <- 0, MaxTime <- 1, MaxCrashes <- 0,
    now <- v1, raised <- v2, slot <- v3, solved <- v4, healthy <- v5, pass <- v6, told <- v7, taken <- v8,
    unanswered <- v9, crashes <- v10
Ill == INSTANCE Alerts WITH
    Passes <- Twins, Kinds <- {"health_failed"}, Blocking <- {}, Health <- {"health_failed"}, Editor <- {},
    MaxAttempts <- 2, PushStale <- 1, MaxTime <- 1, MaxCrashes <- 0,
    now <- v1, raised <- v2, slot <- v3, solved <- v4, healthy <- v5, pass <- v6, told <- v7, taken <- v8,
    unanswered <- v9, crashes <- v10
Week == INSTANCE DigestStories WITH
    Keys <- Twins, Tier <- SameTier, Dying <- {}, Pushable <- {}, Arrives <- {"QUALIFIED", "REVIEW"}, Audiences <- {"FREE"},
    Runners <- {"x"}, None <- None, MaxItems <- 2, MinItems <- 1, RollforwardItems <- 1,
    PerDay <- 2, WindowCap <- 4, FirstWindow <- 2, MaxTime <- 4, MaxCaptures <- 2,
    now <- v1, captured <- v2, run <- v3, work <- v4, news <- v5, aside <- v6
Versions == INSTANCE DigestStories WITH
    Keys <- {"k1", "k2"}, Tier <- SameTiers, Dying <- {"k1"}, Pushable <- {}, Arrives <- {"QUALIFIED"}, Audiences <- {"FREE", "PREMIUM"},
    Runners <- {"x"}, None <- None, MaxItems <- 2, MinItems <- 1, RollforwardItems <- 1,
    PerDay <- 1, WindowCap <- 2, FirstWindow <- 1, MaxTime <- 2, MaxCaptures <- 2,
    now <- v1, captured <- v2, run <- v3, work <- v4, news <- v5, aside <- v6
Push == INSTANCE DigestStories WITH
    Keys <- Twins, Tier <- SameTier, Dying <- {}, Pushable <- Twins, Arrives <- {"QUALIFIED"}, Audiences <- {"FREE"},
    Runners <- {"x"}, None <- None, MaxItems <- 2, MinItems <- 1, RollforwardItems <- 1,
    PerDay <- 1, WindowCap <- 2, FirstWindow <- 1, MaxTime <- 2, MaxCaptures <- 2,
    now <- v1, captured <- v2, run <- v3, work <- v4, news <- v5, aside <- v6
Phones == INSTANCE StaffDevices WITH
    Browsers <- Twins, Users <- {"u1"}, Kinds <- {"digest"}, Standard <- "digest", None <- None,
    MaxDevices <- 1, MaxEndpoints <- 3, MaxUses <- 4, MaxCrashes <- 0,
    login <- v1, sub <- v2, rows <- v3, older <- v4, active <- v5, req <- v6, send <- v7, made <- v8,
    dead <- v9, chosen <- v10, turned <- v11, uses <- v12, crashes <- v13
Shared == INSTANCE StaffDevices WITH
    Browsers <- {"b1"}, Users <- {"u1", "u2"}, Kinds <- {"digest", "whatsapp"}, Standard <- "digest", None <- None,
    MaxDevices <- 1, MaxEndpoints <- 2, MaxUses <- 5, MaxCrashes <- 1,
    login <- v1, sub <- v2, rows <- v3, older <- v4, active <- v5, req <- v6, send <- v7, made <- v8,
    dead <- v9, chosen <- v10, turned <- v11, uses <- v12, crashes <- v13

ASSUME Settings ==
    /\ SocialSlow!SocialOK /\ SocialDies!SocialOK /\ Token!TokenOK /\ WhatsTwo!QueueOK /\ WhatsDies!QueueOK
    /\ Feed!PollOK /\ Reached!ReachOK /\ Browser!SubscriberOK /\ PushEvents!RetentionOK
    /\ MailEvents!RetentionOK /\ Problem!AlertsOK /\ Staff!AlertsOK /\ Ill!AlertsOK
    /\ Week!StoriesOK /\ Versions!StoriesOK /\ Push!StoriesOK /\ Phones!StaffOK
    /\ Shared!StaffOK /\ Console!AccountsOK /\ Pull!AudienceOK /\ Consent!AudienceOK

Unused13 == v14 = None /\ v15 = None /\ v16 = None /\ v17 = None /\ v18 = None
Unused12 == v13 = None /\ Unused13
Unused11 == v12 = None /\ Unused12
Unused10 == v11 = None /\ Unused11
Unused9 == v10 = None /\ Unused10
Unused8 == v9 = None /\ Unused9
Unused6 == v7 = None /\ v8 = None /\ Unused8

Init ==
    \/ part = "social, slow answers" /\ SocialSlow!Init /\ Unused9
    \/ part = "social, a container dies" /\ SocialDies!Init /\ Unused9
    \/ part = "token" /\ Token!Init /\ Unused9
    \/ part = "whatsapp, two containers" /\ WhatsTwo!Init /\ Unused13
    \/ part = "whatsapp, a container dies" /\ WhatsDies!Init /\ Unused13
    \/ part = "feed" /\ Feed!Init /\ Unused11
    \/ part = "reach" /\ Reached!Init /\ Unused10
    \/ part = "browser" /\ Browser!Init /\ Unused12
    \/ part = "pull" /\ Pull!Init
    \/ part = "consent" /\ Consent!Init
    \/ part = "writer" /\ Writer!Init /\ Unused8
    \/ part = "users" /\ Console!Init /\ Unused6
    \/ part = "retention, pushes" /\ PushEvents!Init /\ Unused10
    \/ part = "retention, digests" /\ MailEvents!Init /\ Unused10
    \/ part = "alerts, a problem" /\ Problem!Init /\ Unused10
    \/ part = "alerts, staff" /\ Staff!Init /\ Unused10
    \/ part = "alerts, health" /\ Ill!Init /\ Unused10
    \/ part = "stories, three days" /\ Week!Init /\ Unused6
    \/ part = "stories, two versions" /\ Versions!Init /\ Unused6
    \/ part = "stories, a push" /\ Push!Init /\ Unused6
    \/ part = "staff, two browsers" /\ Phones!Init /\ Unused13
    \/ part = "staff, two people" /\ Shared!Init /\ Unused13

Next ==
    \/ part = "social, slow answers" /\ SocialSlow!Next /\ UNCHANGED after9
    \/ part = "social, a container dies" /\ SocialDies!Next /\ UNCHANGED after9
    \/ part = "token" /\ Token!Next /\ UNCHANGED after9
    \/ part = "whatsapp, two containers" /\ WhatsTwo!Next /\ UNCHANGED after13
    \/ part = "whatsapp, a container dies" /\ WhatsDies!Next /\ UNCHANGED after13
    \/ part = "feed" /\ Feed!Next /\ UNCHANGED after11
    \/ part = "reach" /\ Reached!Next /\ UNCHANGED after10
    \/ part = "browser" /\ Browser!Next /\ UNCHANGED after12
    \/ part = "pull" /\ Pull!Next /\ UNCHANGED part
    \/ part = "consent" /\ Consent!Next /\ UNCHANGED part
    \/ part = "writer" /\ Writer!Next /\ UNCHANGED after8
    \/ part = "users" /\ Console!Next /\ UNCHANGED after6
    \/ part = "retention, pushes" /\ PushEvents!Next /\ UNCHANGED after10
    \/ part = "retention, digests" /\ MailEvents!Next /\ UNCHANGED after10
    \/ part = "alerts, a problem" /\ Problem!Next /\ UNCHANGED after10
    \/ part = "alerts, staff" /\ Staff!Next /\ UNCHANGED after10
    \/ part = "alerts, health" /\ Ill!Next /\ UNCHANGED after10
    \/ part = "stories, three days" /\ Week!Next /\ UNCHANGED after6
    \/ part = "stories, two versions" /\ Versions!Next /\ UNCHANGED after6
    \/ part = "stories, a push" /\ Push!Next /\ UNCHANGED after6
    \/ part = "staff, two browsers" /\ Phones!Next /\ UNCHANGED after13
    \/ part = "staff, two people" /\ Shared!Next /\ UNCHANGED after13

Spec == Init /\ [][Next]_vars

-----------------------------------------------------------------------------
(* Properties *)

\* Every variable of every module holds values of its kind.
TypeOK ==
    /\ part = "social, slow answers" => SocialSlow!TypeOK
    /\ part = "social, a container dies" => SocialDies!TypeOK
    /\ part = "token" => Token!TypeOK
    /\ part = "whatsapp, two containers" => WhatsTwo!TypeOK
    /\ part = "whatsapp, a container dies" => WhatsDies!TypeOK
    /\ part = "feed" => Feed!TypeOK
    /\ part = "reach" => Reached!TypeOK
    /\ part = "browser" => Browser!TypeOK
    /\ part = "pull" => Pull!TypeOK
    /\ part = "consent" => Consent!TypeOK
    /\ part = "writer" => Writer!TypeOK
    /\ part = "users" => Console!TypeOK
    /\ part = "retention, pushes" => PushEvents!TypeOK
    /\ part = "retention, digests" => MailEvents!TypeOK
    /\ part = "alerts, a problem" => Problem!TypeOK
    /\ part = "alerts, staff" => Staff!TypeOK
    /\ part = "alerts, health" => Ill!TypeOK
    /\ part = "stories, three days" => Week!TypeOK
    /\ part = "stories, two versions" => Versions!TypeOK
    /\ part = "stories, a push" => Push!TypeOK
    /\ part = "staff, two browsers" => Phones!TypeOK
    /\ part = "staff, two people" => Shared!TypeOK

\* LinkedIn, Facebook: a push has one post, whichever rule is in force; while attempts end in time, no row is
\* posted by two callers at once; a row gets no more attempts than its delays allow; and the ticks keep the daily cap.
PostsBounded ==
    /\ part = "social, slow answers" => SocialSlow!PostsBounded
    /\ part = "social, a container dies" => SocialDies!PostsBounded

\* LinkedIn, Facebook: a row closed without an answer is never posted again by a tick; while attempts end in time,
\* a post on record stays on record; after a policy block only calls that were past their check are still made.
PostsFinal == [][
    /\ part = "social, slow answers" => SocialSlow!FinalStep
    /\ part = "social, a container dies" => SocialDies!FinalStep]_vars

\* LinkedIn: a container posts with tokens that stem from the one it was started with, and the token of a page that
\* is checked every day never expires.
TokenKept == part = "token" => Token!TokenKept


\* The poller: an article is captured once, a repeated headline is not queued on its own, a fault loses one article.
CapturedOnce == [][part = "feed" => Feed!CapturedStep]_vars

\* Sends: a reader's daily cap, one record of each delivery, and a rest after each push.
ReachFair == [][part = "reach" => Reached!FairStep]_vars

\* The browser: nobody is asked again before the time is up, and a subscription of the former vendor is replaced on
\* a visit.
AskedPolitely == [][part = "browser" => Browser!PoliteStep]_vars

\* CMS: no account goes back to an earlier version, what a complete pull covered is in the table, only accounts that
\* left the list count as gone, and a breaker a person has to look at is closed by a person.
AudienceCurrent == [][
    /\ part = "pull" => Pull!CurrentStep
    /\ part = "consent" => Consent!CurrentStep]_vars

\* CMS: every member row is what its accounts say, and an opt-out stands until a later opt-in.
ConsentKept ==
    /\ part = "pull" => Pull!ConsentKept
    /\ part = "consent" => Consent!ConsentKept

\* Mailercloud: a change of a member stays due until a write that saw it, unless an earlier write was refused since.
ChangeStaysDue == part = "writer" => Writer!ChangeStaysDue

\* The console: a person has one account.
OneAccountPerPerson == part = "users" => Console!OneAccountPerPerson

\* Retention: a sweep that fails or is repeated loses no count, a row swept once is counted once, and a send that was
\* proved stays proved.
CountsKept ==
    /\ part = "retention, pushes" => PushEvents!CountsKept
    /\ part = "retention, digests" => MailEvents!CountsKept

\* Alerts: a problem is told about once, and whoever was told of it is told of its end, unless a pass was taken for dead
\* or the answer of a call was lost; what is marked as sent was sent.
AlertsTold ==
    /\ part = "alerts, a problem" => Problem!AlertsTold
    /\ part = "alerts, staff" => Staff!AlertsTold
    /\ part = "alerts, health" => Ill!AlertsTold

\* Staff push: a browser is signed up for what its user turned on there, nobody keeps more devices than the limit, and
\* who replaces a device turns off no other.
DevicesAsChosen ==
    /\ part = "staff, two browsers" => Phones!DevicesKept
    /\ part = "staff, two people" => Shared!DevicesKept

\* The digest's build: no reader is sent a story twice, a story is new to one digest and to the first that can have it,
\* none goes out short, and what is frozen is what was chosen.
StoriesKept == [][
    /\ part = "stories, three days" =>
          /\ Week!FreezeStep
          /\ (Week!NoRepeat /\ Week!NewOnce /\ Week!WellFilled)'
    /\ part = "stories, two versions" =>
          /\ Versions!FreezeStep
          /\ (Versions!NoRepeat /\ Versions!NewOnce /\ Versions!WellFilled)'
    /\ part = "stories, a push" => Push!FreezeStep /\ (Push!NoRepeat /\ Push!NewOnce /\ Push!WellFilled)']_vars

=============================================================================
