---------------------------- MODULE PushCampaign ----------------------------
(***************************************************************************)
(* The campaign rows of the push channel and everything that moves them:   *)
(* the pacer (services/pacer.ts), the sweeper of scheduled sends           *)
(* (sweeper.ts), the fan-out they share (send.ts, executeCampaign), the    *)
(* editor's requests (routes/api.ts: Compose, Review, Queue), the poller's *)
(* captures and dispatches (poller.ts), and the retention of old drafts    *)
(* (reconciler.ts).                                                        *)
(*                                                                         *)
(* They run at once, in one container or in two during a deploy, and meet  *)
(* only in the rows: a claim is an updateMany with a where-clause, and     *)
(* what was read before it may be stale.  Every database call another      *)
(* party can use is a step of its own.                                     *)
(***************************************************************************)
EXTENDS Naturals, FiniteSets

CONSTANTS
    Campaigns,       \* rows the table can hold (a bound)
    Urls,            \* articles
    Requests,        \* one-time ids of the Compose screen
    Pacers,          \* pacer crons, one per container
    Sweepers,        \* sweeper crons, one per container
    Desks,           \* HTTP requests, and the poller's dispatches
    None,            \* SQL null
    LiveMode,        \* SEND_MODE=live
    EditorialFilter, \* RSS_EDITORIAL_FILTER
    PacerEnabled,    \* PACER_ENABLED
    Backfill,        \* MORNING_BACKFILL_ENABLED
    LinkCheck,       \* LINK_CHECK_ENABLED
    Ceiling,         \* DAILY_SEND_CEILING
    SlowSends,       \* a send may outlast recovery's 30 minutes
    Ops,             \* which requests are made in this instance (a bound)
    MaxDays,         \* bound: midnights
    MaxCrashes       \* bound: process deaths

Queues == {"QUALIFIED", "FALLBACK", "REVIEW"}
AutoQueues == {"QUALIFIED", "FALLBACK"}
Statuses == {"DRAFT", "SCHEDULED", "SENT", "FAILED", "EXPIRED"}
Times == {"later", "due"}    \* scheduledAt, against the clock
Ages == {"fresh", "stale"}   \* claimedAt, half an hour ago or longer
Workers == Pacers \cup Sweepers \cup Desks

ASSUME ConstantsOK ==
    /\ Pacers \cap Sweepers = {} /\ Pacers \cap Desks = {} /\ Sweepers \cap Desks = {}
    /\ None \notin Campaigns \cup Urls \cup Requests \cup Queues
                     \cup Statuses \cup Times \cup Ages
    /\ {LiveMode, EditorialFilter, PacerEnabled, Backfill, LinkCheck,
        SlowSends} \subseteq BOOLEAN
    /\ Ops \subseteq {"capture", "compose", "schedule", "poll", "approve",
                      "reject", "reviewPush", "queuePush", "breaking"}
    /\ Ceiling \in Nat /\ MaxDays \in Nat /\ MaxCrashes \in Nat

VARIABLES
    row,          \* the Campaign table
    call,         \* what each worker is doing
    phase,        \* the clock: "dawn" (quiet), "morning", "day", "night" (quiet)
    days,         \* midnights so far
    spaced,       \* SEND_SPACING_MINUTES have passed since the last SENT event
    sentToday,    \* campaigns with a SENT event since midnight
    claimedToday, \* campaigns with claimedAt since midnight
    reached,      \* campaigns some subscriber has received
    outs,         \* how often a row's fan-out began (2 stands for more)
    outToday,     \* campaigns whose fan-out began since midnight
    rejected,     \* items an editor rejected
    crashes

vars == <<row, call, phase, days, spaced, sentToday, claimedToday, reached,
          outs, outToday, rejected, crashes>>
clock == <<phase, days>>
day == <<sentToday, claimedToday, outToday>>  \* what midnight starts afresh

Final == {"SENT", "FAILED", "EXPIRED"}
Steps == {"idle", "recover", "close", "select", "backfill", "claim", "link",
          "send", "sending", "sweep", "create", "defer", "promote"}

\* A free slot of the table has status None.
Row == [status : Statuses \cup {None}, queue : Queues \cup {None},
        scheduledAt : Times \cup {None}, claimedAt : Ages \cup {None},
        reviewed : BOOLEAN, createdAt : {"today", "yesterday", "earlier"},
        url : Urls \cup {None}, request : Requests \cup {None},
        event : BOOLEAN]  \* a SENT event is recorded (or rolled up)
NoRow == [status |-> None, queue |-> None, scheduledAt |-> None, claimedAt |-> None,
          reviewed |-> FALSE, createdAt |-> "today", url |-> None,
          request |-> None, event |-> FALSE]
Draft(u, q, r) == [NoRow EXCEPT !.status = "DRAFT", !.url = u, !.queue = q, !.request = r]

\* A worker's locals: the campaign in hand, the rows it listed, the URLs it
\* read as used, whether the pick is a backfill, the deliveries it read, the
\* quiet hours as of its `now`, and the request body it was called with.
Call == [pc : Steps, c : Campaigns \cup {None}, list : SUBSET Campaigns,
         used : SUBSET (Urls \cup {None}), backfill : BOOLEAN, delivered : BOOLEAN,
         quiet : BOOLEAN, body : Row, later : BOOLEAN, breaking : BOOLEAN]
Idle == [pc |-> "idle", c |-> None, list |-> {}, used |-> {}, backfill |-> FALSE,
         delivered |-> FALSE, quiet |-> FALSE, body |-> NoRow, later |-> FALSE,
         breaking |-> FALSE]

Init ==
    /\ row = [c \in Campaigns |-> NoRow]
    /\ call = [w \in Workers |-> Idle]
    /\ phase = "morning" /\ days = 0 /\ spaced = TRUE
    /\ sentToday = {} /\ claimedToday = {} /\ outToday = {}
    /\ reached = {} /\ outs = [c \in Campaigns |-> 0]
    /\ rejected = {} /\ crashes = 0
-----------------------------------------------------------------------------
(* Helpers *)

Quiet == phase \in {"dawn", "night"}  \* isQuietHours, the window spans midnight
Exists(c) == row[c].status # None
Free == {c \in Campaigns : ~Exists(c)}
Queued(c) == row[c].status = "DRAFT" /\ row[c].queue \in AutoQueues
Awaiting_EvenReviewed(c) == row[c].status = "DRAFT" /\ row[c].queue = "REVIEW"
Awaiting(c) == row[c].status = "DRAFT" /\ row[c].queue = "REVIEW" /\ ~row[c].reviewed

Write(c, r) == row' = [row EXCEPT ![c] = r]
SetStatus(c, s) == Write(c, [row[c] EXCEPT !.status = s])
Claimed_NoTime(c) == [row[c] EXCEPT !.status = "SCHEDULED"]
Claimed(c) == [row[c] EXCEPT !.status = "SCHEDULED", !.claimedAt = "fresh"]

At(w, pc) == call[w].pc = pc
Goto(w, new) == call' = [call EXCEPT ![w] = new]
\* A campaign is done with: the sweeper goes on down its list, others return.
Done(w) == Goto(w, IF call[w].list = {} THEN Idle
                   ELSE [call[w] EXCEPT !.pc = "sweep", !.c = None])

\* pollOnce sends at once only in live mode, and with the editorial filter on
\* only what is qualified while no pacer runs.
ShouldSend(q) ==
    LiveMode /\ (EditorialFilter => q = "QUALIFIED" /\ ~PacerEnabled)
-----------------------------------------------------------------------------
(* The pacer's cron: first recovery, then at most one release.             *)

Stranded_AnyAge == {c \in Campaigns : /\ row[c].status = "SCHEDULED"
                                      /\ row[c].scheduledAt = None
                                      /\ row[c].claimedAt # None}
\* What recoverStrandedClaims looks for: claimed half an hour ago or longer.
Stranded == {c \in Campaigns : /\ row[c].status = "SCHEDULED"
                               /\ row[c].scheduledAt = None
                               /\ row[c].claimedAt = "stale"}

Tick(p) ==
    /\ PacerEnabled /\ At(p, "idle")
    /\ Goto(p, [Idle EXCEPT !.pc = "recover", !.list = Stranded])
    /\ UNCHANGED <<row, clock, spaced, day, reached, outs, rejected, crashes>>

RecoverRead(p) ==
    /\ At(p, "recover")
    /\ \E c \in call[p].list :
          Goto(p, [call[p] EXCEPT !.pc = "close", !.c = c, !.list = @ \ {c},
                                  !.delivered = row[c].event])
    /\ UNCHANGED <<row, clock, spaced, day, reached, outs, rejected, crashes>>

RecoverClose(p) ==
    /\ At(p, "close")
    /\ LET c == call[p].c IN
          IF row[c].status = "SCHEDULED" /\ row[c].scheduledAt = None
          THEN SetStatus(c, IF call[p].delivered THEN "SENT" ELSE "FAILED")
          ELSE UNCHANGED row
    /\ Goto(p, [call[p] EXCEPT !.pc = "recover", !.c = None])
    /\ UNCHANGED <<clock, spaced, day, reached, outs, rejected, crashes>>

GateOpen_OffByOne == ~Quiet /\ Cardinality(sentToday) <= Ceiling /\ spaced
GateOpen == ~Quiet /\ Cardinality(sentToday) < Ceiling /\ spaced

Gate(p) ==
    /\ At(p, "recover") /\ call[p].list = {}
    /\ Goto(p, IF GateOpen THEN [call[p] EXCEPT !.pc = "select"] ELSE Idle)
    /\ UNCHANGED <<row, clock, spaced, day, reached, outs, rejected, crashes>>

Pick(p, c, viaBackfill) ==
    Goto(p, [call[p] EXCEPT !.pc = "claim", !.c = c, !.backfill = viaBackfill])

Age(c) == CASE row[c].createdAt = "today" -> 0
            [] row[c].createdAt = "yesterday" -> 1
            [] OTHER -> 2
\* Newer days first; authority and the hour, which rank within a day, are left open.
Best(S) == {c \in S : \A d \in S : Age(c) <= Age(d)}
Waiting(q) == {c \in Campaigns : row[c].status = "DRAFT" /\ row[c].queue = q}
FreshQualified == {c \in Waiting("QUALIFIED") : row[c].createdAt = "today"}

Carryover(p) ==
    LET pool == IF Waiting("QUALIFIED") # {} THEN Waiting("QUALIFIED")
                                             ELSE Waiting("FALLBACK")
    IN IF pool = {} THEN Goto(p, Idle) ELSE \E c \in Best(pool) : Pick(p, c, FALSE)

\* Yesterday's articles may fill the morning until today has a qualified one.
MorningOpen ==
    /\ Backfill /\ phase \in {"dawn", "morning"}
    /\ \A c \in Campaigns : row[c].queue = "QUALIFIED" => row[c].createdAt # "today"

UsedToday_SentOnly == {row[c].url : c \in sentToday}
UsedToday == {row[c].url : c \in sentToday \cup claimedToday}

Select(p) ==
    /\ At(p, "select")
    /\ IF FreshQualified # {} THEN \E c \in FreshQualified : Pick(p, c, FALSE)
       ELSE IF MorningOpen
       THEN Goto(p, [call[p] EXCEPT !.pc = "backfill", !.used = UsedToday])
       ELSE Carryover(p)
    /\ UNCHANGED <<row, clock, spaced, day, reached, outs, rejected, crashes>>

Yesterdays(used) == {c \in Campaigns : /\ row[c].queue \in AutoQueues
                                       /\ row[c].createdAt = "yesterday"
                                       /\ row[c].url \notin used}
\* Court rulings (among the qualified) sent or not, then what is unsent, the
\* qualified first, then the rest.  Without a free slot (the bound) nothing can
\* be cloned.
Backfillable(used) ==
    {c \in Yesterdays(used) :
        /\ row[c].status # "DRAFT" => Free # {}
        /\ \/ row[c].queue = "QUALIFIED"
           \/ \A d \in Yesterdays(used) :
                 row[d].status = "DRAFT" => row[c].status = "DRAFT" /\ row[d].queue = "FALLBACK"}

CloneForResend(c) == [Draft(row[c].url, row[c].queue, None)
                      EXCEPT !.createdAt = row[c].createdAt]

BackfillSelect(p) ==
    /\ At(p, "backfill")
    /\ LET picks == Backfillable(call[p].used) IN
       \/ picks = {} /\ Carryover(p) /\ UNCHANGED row
       \/ \E c \in picks : row[c].status = "DRAFT" /\ Pick(p, c, TRUE) /\ UNCHANGED row
       \/ \E c \in picks, n \in Free :
             row[c].status # "DRAFT" /\ Write(n, CloneForResend(c)) /\ Pick(p, n, TRUE)
    /\ UNCHANGED <<clock, spaced, day, reached, outs, rejected, crashes>>

Claimable_Unconditional(c) == TRUE
\* Only a row that is still a draft is claimed.
Claimable(c) == row[c].status = "DRAFT"

Claim(p) ==
    /\ At(p, "claim")
    /\ LET c == call[p].c IN
          IF Claimable(c)
          THEN /\ Write(c, Claimed(c)) /\ claimedToday' = claimedToday \cup {c}
               /\ Goto(p, [call[p] EXCEPT !.pc = "link"])
          ELSE Goto(p, Idle) /\ UNCHANGED <<row, claimedToday>>
    /\ UNCHANGED <<clock, spaced, sentToday, outToday, reached, outs, rejected, crashes>>

\* The article's link is checked (also by archiveIfDead for an editor's push).
CheckLink(w) ==
    /\ At(w, "link")
    /\ \/ LinkCheck /\ SetStatus(call[w].c, "EXPIRED") /\ Done(w)
       \/ Goto(w, [call[w] EXCEPT !.pc = "send"]) /\ UNCHANGED row
    /\ UNCHANGED <<clock, spaced, day, reached, outs, rejected, crashes>>
-----------------------------------------------------------------------------
(* executeCampaign: the fan-out every path ends in.                        *)

FanOut(w) ==
    /\ At(w, "send")
    /\ LET c == call[w].c IN
          /\ outs' = [outs EXCEPT ![c] = IF @ = 0 THEN 1 ELSE 2]
          /\ outToday' = outToday \cup {c}
    /\ Goto(w, [call[w] EXCEPT !.pc = "sending"])
    /\ UNCHANGED <<row, clock, spaced, sentToday, claimedToday, reached, rejected, crashes>>

Push(w) ==
    /\ At(w, "sending") /\ reached' = reached \cup {call[w].c}
    /\ UNCHANGED <<row, call, clock, spaced, day, outs, rejected, crashes>>

\* A batch of SENT events is written; mid-send a failed write is tried again.
Flush(w) ==
    /\ At(w, "sending") /\ call[w].c \in reached
    /\ LET c == call[w].c IN
          /\ Write(c, [row[c] EXCEPT !.event = TRUE])
          /\ sentToday' = sentToday \cup {c}
    /\ spaced' = FALSE
    /\ UNCHANGED <<call, clock, claimedToday, outToday, reached, outs, rejected, crashes>>

\* The last batch is written before the row says SENT.
Sent(w) ==
    /\ At(w, "sending")
    /\ call[w].c \in reached => row[call[w].c].event
    /\ SetStatus(call[w].c, "SENT") /\ Done(w)
    /\ UNCHANGED <<clock, spaced, day, reached, outs, rejected, crashes>>

\* A refused URL, a failed query, the last batch failing to be written.
Fails(w) ==
    /\ call[w].pc \in {"send", "sending"}
    /\ SetStatus(call[w].c, "FAILED") /\ Done(w)
    /\ UNCHANGED <<clock, spaced, day, reached, outs, rejected, crashes>>
-----------------------------------------------------------------------------
(* The sweeper of scheduled campaigns.                                     *)

Due_TodaysOnly == {c \in Campaigns : /\ row[c].status = "SCHEDULED"
                                     /\ row[c].scheduledAt = "due" /\ row[c].createdAt = "today"}
Due == {c \in Campaigns : row[c].status = "SCHEDULED" /\ row[c].scheduledAt = "due"}

Sweep(s) ==
    /\ At(s, "idle")
    /\ Goto(s, [Idle EXCEPT !.pc = "sweep", !.list = Due, !.quiet = Quiet])
    /\ UNCHANGED <<row, clock, spaced, day, reached, outs, rejected, crashes>>

Sweepable_Unconditional(c) == TRUE
Sweepable(c) == row[c].status = "SCHEDULED"

SweepNext(s) ==
    /\ At(s, "sweep")
    /\ \/ call[s].list = {} /\ Goto(s, Idle) /\ UNCHANGED row
       \/ \E c \in call[s].list :
             LET on == [call[s] EXCEPT !.list = @ \ {c}] IN
             \/ /\ call[s].quiet  \* put off to the end of the quiet hours
                /\ Write(c, [row[c] EXCEPT !.scheduledAt = "later"]) /\ Goto(s, on)
             \/ /\ ~call[s].quiet /\ Sweepable(c)
                /\ SetStatus(c, "DRAFT") /\ Goto(s, [on EXCEPT !.pc = "send", !.c = c])
             \/ ~call[s].quiet /\ ~Sweepable(c) /\ Goto(s, on) /\ UNCHANGED row
    /\ UNCHANGED <<clock, spaced, day, reached, outs, rejected, crashes>>
-----------------------------------------------------------------------------
(* Requests: Compose (POST /send), Review, Queue; the poller's articles.   *)

\* Quiet hours hold a push back unless the editor calls it breaking.
Breaking == IF "breaking" \in Ops THEN BOOLEAN ELSE {FALSE}
MayPushNow == \E breaking \in Breaking : breaking \/ ~Quiet

Taken(r) == r # None /\ \E c \in Campaigns : row[c].request = r

\* The check before the create.  An id already seen is answered 409.
PostSend(d) ==
    /\ At(d, "idle")
    /\ \E u \in Urls, r \in Requests \cup {None}, later \in BOOLEAN, breaking \in Breaking :
          /\ (IF later THEN "schedule" ELSE "compose") \in Ops
          /\ ~Taken(r)
          /\ Goto(d, [Idle EXCEPT !.pc = "create", !.body = Draft(u, None, r),
                                  !.later = later, !.breaking = breaking])
    /\ UNCHANGED <<row, clock, spaced, day, reached, outs, rejected, crashes>>

\* The poller hands an article to dispatchCampaign.
PollDispatch(d) ==
    /\ At(d, "idle") /\ "poll" \in Ops
    /\ \E u \in Urls, q \in Queues :
          /\ ShouldSend(q)
          /\ Goto(d, [Idle EXCEPT !.pc = "create", !.body = Draft(u, q, None)])
    /\ UNCHANGED <<row, clock, spaced, day, reached, outs, rejected, crashes>>

Refused_NoIndex(r) == FALSE
\* The unique index on clientRequestId refuses a twin that got past the check.
Refused(r) == Taken(r)

\* The row is created: scheduled, or a draft that is put off or sent at once.
\* A full table (the bound) refuses too.
Create(d) ==
    /\ At(d, "create")
    /\ LET b == call[d].body IN
       \/ /\ Refused(b.request) \/ Free = {}
          /\ Goto(d, Idle) /\ UNCHANGED row
       \/ /\ ~Refused(b.request)
          /\ \E c \in Free :
                IF call[d].later
                THEN /\ Write(c, [b EXCEPT !.status = "SCHEDULED", !.scheduledAt = "later"])
                     /\ Goto(d, Idle)
                ELSE /\ Write(c, b)
                     /\ Goto(d, [call[d] EXCEPT !.c = c,
                          !.pc = IF Quiet /\ ~call[d].breaking THEN "defer" ELSE "send"])
    /\ UNCHANGED <<clock, spaced, day, reached, outs, rejected, crashes>>

Defer(d) ==
    /\ At(d, "defer")
    /\ Write(call[d].c, [row[call[d].c] EXCEPT !.status = "SCHEDULED", !.scheduledAt = "later"])
    /\ Goto(d, Idle)
    /\ UNCHANGED <<clock, spaced, day, reached, outs, rejected, crashes>>

PollCapture ==
    /\ "capture" \in Ops
    /\ \E c \in Free, u \in Urls, q \in Queues :
          ~ShouldSend(q) /\ Write(c, Draft(u, q, None))
    /\ UNCHANGED <<call, clock, spaced, day, reached, outs, rejected, crashes>>

\* claimReviewItem, for the three buttons: promote, drop, push at once.
ReviewClaim(d) ==
    /\ At(d, "idle")
    /\ \E c \in Campaigns :
          /\ Awaiting(c) /\ Write(c, [row[c] EXCEPT !.reviewed = TRUE])
          /\ \/ /\ "approve" \in Ops /\ UNCHANGED rejected
                /\ Goto(d, [Idle EXCEPT !.pc = "promote", !.c = c])
             \/ "reject" \in Ops /\ rejected' = rejected \cup {c} /\ UNCHANGED call
             \/ /\ "reviewPush" \in Ops /\ UNCHANGED rejected
                /\ MayPushNow
                /\ Goto(d, [Idle EXCEPT !.pc = "link", !.c = c])
    /\ UNCHANGED <<clock, spaced, day, reached, outs, crashes>>

Promote(d) ==
    /\ At(d, "promote")
    /\ Write(call[d].c, [row[call[d].c] EXCEPT !.queue = "QUALIFIED"])
    /\ Goto(d, Idle)
    /\ UNCHANGED <<clock, spaced, day, reached, outs, rejected, crashes>>

\* Push now claims as the pacer does, and reads the row again.
QueuePush(d) ==
    /\ At(d, "idle") /\ "queuePush" \in Ops
    /\ MayPushNow
    /\ \E c \in Campaigns :
          /\ Queued(c) /\ Write(c, Claimed(c)) /\ claimedToday' = claimedToday \cup {c}
          /\ Goto(d, [Idle EXCEPT !.pc = "link", !.c = c])
    /\ UNCHANGED <<clock, spaced, sentToday, outToday, reached, outs, rejected, crashes>>
-----------------------------------------------------------------------------
(* Retention, the clock, process deaths.                                   *)

\* expireStaleDrafts, in one updateMany.
Expire ==
    /\ \E c \in Campaigns : row[c].status = "DRAFT" /\ row[c].createdAt = "earlier"
    /\ row' = [c \in Campaigns |->
                 IF row[c].status = "DRAFT" /\ row[c].createdAt = "earlier"
                 THEN [row[c] EXCEPT !.status = "EXPIRED"] ELSE row[c]]
    /\ UNCHANGED <<call, clock, spaced, day, reached, outs, rejected, crashes>>

InHand(c) == \E w \in Workers : call[w].c = c /\ call[w].pc \in {"link", "send", "sending"}

TimeComes(c) ==
    /\ row[c].scheduledAt = "later" /\ Write(c, [row[c] EXCEPT !.scheduledAt = "due"])
    /\ UNCHANGED <<call, clock, spaced, day, reached, outs, rejected, crashes>>

\* Half an hour passes since the claim.
ClaimAges(c) ==
    /\ row[c].claimedAt = "fresh" /\ (SlowSends \/ ~InHand(c))
    /\ Write(c, [row[c] EXCEPT !.claimedAt = "stale"])
    /\ UNCHANGED <<call, clock, spaced, day, reached, outs, rejected, crashes>>

SpacingPasses ==
    /\ ~spaced /\ spaced' = TRUE
    /\ UNCHANGED <<row, call, clock, day, reached, outs, rejected, crashes>>

HoursPass ==
    /\ \/ phase = "dawn" /\ phase' = "morning"
       \/ phase = "morning" /\ phase' = "day"
       \/ phase = "day" /\ phase' = "night" /\ days < MaxDays
    /\ UNCHANGED <<row, call, days, spaced, day, reached, outs, rejected, crashes>>

\* Midnight, well inside the quiet hours: the pacer chose nothing for an hour,
\* and no request hangs between its two writes.
Midnight ==
    /\ phase = "night" /\ phase' = "dawn" /\ days' = days + 1
    /\ \A d \in Desks : ~At(d, "defer")
    /\ \A p \in Pacers : call[p].pc \in {"idle", "recover", "close", "sending"}
    /\ row' = [c \in Campaigns |->
                 IF ~Exists(c) THEN row[c]
                 ELSE [row[c] EXCEPT !.createdAt =
                         IF @ = "today" THEN "yesterday" ELSE "earlier"]]
    /\ sentToday' = {} /\ claimedToday' = {} /\ outToday' = {}
    /\ UNCHANGED <<call, spaced, reached, outs, rejected, crashes>>

\* The process dies; what it read is gone, what it wrote stays.
Crash(w) ==
    /\ ~At(w, "idle") /\ crashes < MaxCrashes /\ crashes' = crashes + 1
    /\ Goto(w, Idle)
    /\ UNCHANGED <<row, clock, spaced, day, reached, outs, rejected>>
-----------------------------------------------------------------------------
PacerStep(p) == RecoverRead(p) \/ RecoverClose(p) \/ Gate(p) \/ Select(p)
                \/ BackfillSelect(p) \/ Claim(p)
DeskStep(d) == Create(d) \/ Defer(d) \/ Promote(d)
SendStep(w) == CheckLink(w) \/ FanOut(w) \/ Sent(w) \/ Fails(w)
DayStep == \/ Expire \/ SpacingPasses \/ HoursPass \/ Midnight
           \/ \E c \in Campaigns : TimeComes(c) \/ ClaimAges(c)

Next ==
    \/ \E p \in Pacers : Tick(p) \/ PacerStep(p)
    \/ \E s \in Sweepers : Sweep(s) \/ SweepNext(s)
    \/ \E d \in Desks : PostSend(d) \/ PollDispatch(d) \/ ReviewClaim(d)
                        \/ QueuePush(d) \/ DeskStep(d)
    \/ PollCapture
    \/ \E w \in Workers : SendStep(w) \/ Push(w) \/ Flush(w) \/ Crash(w)
    \/ DayStep

Spec == Init /\ [][Next]_vars

\* Crons tick, a live process goes on with what it does, a send ends, and
\* time passes.  Nothing is assumed of editors or of the feed.
Fairness ==
    /\ \A p \in Pacers : WF_vars(Tick(p)) /\ WF_vars(PacerStep(p))
    /\ \A s \in Sweepers : WF_vars(Sweep(s)) /\ WF_vars(SweepNext(s))
    /\ \A w \in Workers : WF_vars(SendStep(w))
    /\ \A d \in Desks : WF_vars(DeskStep(d))
    /\ \A c \in Campaigns : WF_vars(TimeComes(c)) /\ WF_vars(ClaimAges(c))
    /\ WF_vars(HoursPass) /\ WF_vars(Midnight)

FairSpec == Spec /\ Fairness
-----------------------------------------------------------------------------
(* Properties                                                              *)

\* Every row and every call holds values of its kind.
TypeOK ==
    /\ row \in [Campaigns -> Row] /\ call \in [Workers -> Call]
    /\ phase \in {"dawn", "morning", "day", "night"} /\ days \in Nat
    /\ spaced \in BOOLEAN /\ sentToday \subseteq Campaigns
    /\ claimedToday \subseteq Campaigns /\ outToday \subseteq Campaigns
    /\ reached \subseteq Campaigns /\ outs \in [Campaigns -> 0 .. 2]
    /\ rejected \subseteq Campaigns /\ crashes \in Nat

\* A campaign goes out to its audience at most once, whatever the pacers, the
\* sweepers, the editors' buttons, recovery and crashes do to its row between
\* them (the where-clauses of every claim, pacer.ts, sweeper.ts, api.ts).
OneFanOut == \A c \in Campaigns : outs[c] <= 1

\* A campaign that was sent, failed or archived is never queued or scheduled
\* again (a re-send is a clone, cloneForResend).
FinalKept == \A c \in Campaigns : row[c].status \in Final => row'[c].status \in Final
FinalStays == [][FinalKept]_vars

\* An item an editor rejected is never sent, and never enters the queue, though
\* other editors approve or push it at the same moment (claimReviewItem).
RejectedNeverSent ==
    \A c \in rejected : outs[c] = 0 /\ row[c].queue = "REVIEW"

\* Two requests with one id, at the same instant or a retry later, push the
\* message once (POST /send).
RequestSentOnce ==
    \A c, d \in Campaigns :
        /\ row[c].request # None /\ row[c].request = row[d].request
        /\ outs[c] > 0 /\ outs[d] > 0
        => c = d /\ outs[c] = 1

\* While sends end within recovery's half hour, a campaign claimed by the pacer
\* or by Push now stays SCHEDULED in the claimer's hands: no recovery, sweeper,
\* retention or second claim touches it.
ClaimedIsKept ==
    ~SlowSends => \A w \in Workers :
        call[w].pc \in {"link", "send", "sending"} /\ row[call[w].c].claimedAt # None
            => row[call[w].c].status = "SCHEDULED"

\* Recovery calls a stranded campaign FAILED only if no delivery is on record
\* (recoverStrandedClaims reads the events, then writes).
FailedStep ==
    \A p \in Pacers, c \in Campaigns :
        RecoverClose(p) /\ row[c].status = "SCHEDULED" /\ row'[c].status = "FAILED"
            => ~row[c].event
FailedIsUndelivered == [][FailedStep]_vars

\* The morning backfill uses an article at most once a day: not if any of its
\* rows went out today, though a container died before its events were written
\* (the claimedAt clause of backfillSelect).
ResentStep ==
    \A p \in Pacers, c \in Campaigns :
        FanOut(p) /\ call[p].backfill /\ call[p].c = c
            => \A d \in outToday : row[d].url # row[c].url
ResentOncePerDay == [][ResentStep]_vars

\* One pacer alone keeps the channel's daily ceiling.
WithinCeiling == Cardinality(sentToday) <= Ceiling

\* "If the process dies in between, nothing else ever touches the row: the sweeper only picks scheduledAt <= now"
\* (pacer.ts, of a row claimed to be sent): the sweeper takes no campaign for sending that the pacer or Push now has
\* claimed and that nobody has in hand any more.  Recovery alone is to close it out.
StrandedNeverSwept ==
    [][\A s \in Sweepers, c \in Campaigns :
          SweepNext(s) /\ row[c].status = "SCHEDULED" /\ row[c].claimedAt # None /\ ~InHand(c)
              => row'[c].status = "SCHEDULED"]_vars

\* A claimed campaign is closed in the end although its container dies at any
\* point between the claim and the last write (recoverStrandedClaims).
ClaimedIsClosed ==
    \A c \in Campaigns :
        row[c].status = "SCHEDULED" /\ row[c].scheduledAt = None ~> row[c].status \in Final

\* Without a crash, every campaign put off or scheduled for later goes out or
\* is closed; quiet hours only delay it (the sweeper).
ScheduledGoesOut ==
    \A c \in Campaigns :
        row[c].scheduledAt # None
            ~> row[c].status \in Final \/ outs[c] > 0 \/ crashes > 0
=============================================================================
