----------------------------- MODULE DigestSend -----------------------------
(***************************************************************************)
(* The daily e-mail digest after its content is frozen: the state machine  *)
(* of src/src/services/digest/runner.ts (advanceRun and the steps under    *)
(* it), driven by several runners at once (the cron ticks of two           *)
(* containers, Retry now, Send now, the health check, Send Free) against   *)
(* an external provider whose calls are slow, fail, or lose their reply.   *)
(*                                                                         *)
(* Every await of the code that another runner can use is a step of its    *)
(* own: a claim, a provider call, its effect at the provider, its reply,   *)
(* the write that records it.                                              *)
(***************************************************************************)
EXTENDS Naturals

CONSTANTS
    Audiences,        \* the digest's versions (FREE, PREMIUM)
    ManualOnly,       \* versions sent only by Send Free (DIGEST_FREE_MANUAL)
    Runners,          \* concurrent callers of advanceRun
    Campaigns,        \* campaigns the provider can hold (a bound)
    None,             \* SQL null
    ApprovalRequired, \* DIGEST_APPROVAL_REQUIRED
    HoldRun,          \* the sanity or the complaint hold is on for this run
    SendLive,         \* DIGEST_SEND_LIVE
    HasLookup,        \* the sender implements findCampaignByName
    Doors,            \* which doors and editor's buttons are used (a bound)
    GuardOn,          \* the audience guard may refuse (DIGEST_AUDIENCE_FROM_CMS)
    SlowSteps,        \* a live step may outlast its 10-minute claim
    LateCalls,        \* a request may act after its caller gave up on it
    MaxCrashes,       \* bound: process deaths
    MaxRestores       \* bound: restores from the 02:20 backup

ASSUME ConstantsOK ==
    /\ ManualOnly \subseteq Audiences
    /\ None \notin Audiences \cup Runners \cup Campaigns
    /\ {ApprovalRequired, HoldRun, SendLive, HasLookup, GuardOn, SlowSteps,
        LateCalls} \subseteq BOOLEAN
    /\ Doors \subseteq {"cron", "retry", "send_now", "health", "send_free", "approve", "hold"}
    /\ MaxCrashes \in Nat /\ MaxRestores \in Nat

VARIABLES
    row,       \* DigestSend rows, one per version
    approval,  \* DigestRun.approval
    phase,     \* the live clock: "quiet" hours, "day", "late" (past the cut-off)
    prov,      \* the provider's campaigns
    wire,      \* create and schedule requests in flight
    run,       \* what each runner is doing
    crashes, restores

vars == <<row, approval, phase, prov, wire, run, crashes, restores>>

States == {"PENDING", "CREATED", "SCHEDULED", "SENT", "PARTIALLY_SENT",
           "FAILED", "SKIPPED"}
Errors == {"none", "fatal", "other", "terminal"}  \* lastError and its kind
Triggers == {"cron", "retry", "send_now", "health", "send_free"}
Answers == {"unknown", "DRAFT", "SCHEDULED", "SENT", "FAILED"}

\* Step names. In a Claimed step the runner has won the row's step claim.
Claimed == {"lookup", "adopt", "adoptSave", "adoptMark", "stamp", "create",
            "persist", "status", "stampSched", "issue", "sched", "verify",
            "skip", "resolve"}
Steps == Claimed \cup {"idle", "press", "look", "render", "configInvalid",
            "claimCreate", "created", "claimSched", "scheduled",
            "claimVerify", "claimSkip", "claimResolve"}

Row == [state: States, camp: Campaigns \cup {None},
        createMark: BOOLEAN,  \* createAttemptedAt is set
        createSent: BOOLEAN,  \* createSentAt is set
        schedMark: BOOLEAN,   \* scheduleAttemptedAt is set
        claim: Runners \cup {None}, stale: BOOLEAN,  \* stepClaimedAt, over 10 min old
        waiting: BOOLEAN,     \* nextAttemptAt is in the future
        due: BOOLEAN,         \* sendAfter has come
        pending: BOOLEAN,     \* contentPendingAt is set, html is null
        own: BOOLEAN, approved: BOOLEAN, adopted: BOOLEAN,
        err: Errors, content: Nat]  \* content: which build froze the html

Campaign == [aud: Audiences \cup {None}, content: Nat,
             state: {"NONE", "DRAFT", "SCHEDULED", "SENT", "FAILED"}]

Request == [op: {"create", "schedule"}, by: Runners, aud: Audiences,
            camp: Campaigns \cup {None}, content: Nat,
            live: BOOLEAN,    \* its caller is still waiting for the reply
            done: BOOLEAN]    \* it has taken effect

Runner == [pc: Steps, trig: Triggers, sweep: BOOLEAN, todo: SUBSET Audiences,
           aud: Audiences \cup {None},
           appr: {"NOT_REQUIRED", "PENDING", "APPROVED", "HELD"},  \* ctx.run.approval
           camp: Campaigns \cup {None}, ans: Answers,
           mark: BOOLEAN]     \* the write-ahead marker as this runner last read it

TypeOK ==
    /\ row \in [Audiences -> Row]
    /\ approval \in {"NOT_REQUIRED", "PENDING", "APPROVED", "HELD"}
    /\ phase \in {"quiet", "day", "late"}
    /\ prov \in [Campaigns -> Campaign]
    /\ wire \subseteq Request
    /\ run \in [Runners -> Runner]
    /\ crashes \in Nat /\ restores \in Nat

-----------------------------------------------------------------------------
(* Rows, runs and requests                                                 *)

FirstApproval == IF ApprovalRequired \/ HoldRun THEN "PENDING" ELSE "NOT_REQUIRED"

\* A version as the freeze wrote it: with its content, or blocked on its ads.
FreshRow(blocked, version) ==
    [state |-> IF blocked THEN "FAILED" ELSE "PENDING", camp |-> None,
     createMark |-> FALSE, createSent |-> FALSE, schedMark |-> FALSE,
     claim |-> None, stale |-> FALSE, waiting |-> blocked, due |-> FALSE,
     pending |-> blocked, own |-> FALSE, approved |-> FALSE, adopted |-> FALSE,
     err |-> IF blocked THEN "other" ELSE "none", content |-> version]

\* Both versions blocked is a failed build: nothing is frozen then.
FreshRows(version) ==
    {[a \in Audiences |-> FreshRow(a \in blocked, version)] :
        blocked \in (SUBSET Audiences) \ {Audiences}}

Idle == [pc |-> "idle", trig |-> "cron", sweep |-> FALSE, todo |-> {},
         aud |-> None, appr |-> "PENDING", camp |-> None, ans |-> "unknown",
         mark |-> FALSE]

Init ==
    /\ row \in FreshRows(0)
    /\ approval = FirstApproval
    /\ phase = "quiet"
    /\ prov = [c \in Campaigns |-> [aud |-> None, state |-> "NONE", content |-> 0]]
    /\ wire = {}
    /\ run = [r \in Runners |-> Idle]
    /\ crashes = 0 /\ restores = 0

Accepted(c) == prov[c].state \in {"SCHEDULED", "SENT", "FAILED"}
Named(a) == {c \in Campaigns : prov[c].aud = a}  \* the campaigns a name lookup finds

Terminal(s) == s.state = "FAILED" /\ s.err = "terminal"
HandedOver(s) == s.state \in {"SCHEDULED", "SENT", "PARTIALLY_SENT"}
Over(s) == s.state \in {"SENT", "PARTIALLY_SENT", "SKIPPED"}
NeedsApproval == ApprovalRequired \/ HoldRun

AwaitingOwnApproval_AdoptedOnly(a, s) ==
    a \notin ManualOnly /\ s.own /\ s.adopted /\ ~s.approved
AwaitingOwnApproval(a, s) ==
    /\ a \notin ManualOnly
    /\ s.own /\ (NeedsApproval \/ s.adopted) /\ ~s.approved

\* Where advanceSend goes once the current version is dealt with.
Left(x) == IF x.todo = {} THEN Idle
           ELSE [x EXCEPT !.pc = "look", !.aud = None, !.camp = None,
                          !.ans = "unknown", !.mark = FALSE]
At(r, p) == run[r].pc = p
Leave(r) == run' = [run EXCEPT ![r] = Left(@)]
Goto(r, p) == run' = [run EXCEPT ![r].pc = p]

Claimable_NeverStale(s) == s.claim = None
Claimable(s) == s.claim = None \/ s.stale
Taken(s, r) == [s EXCEPT !.claim = r, !.stale = FALSE]
Released(s) == [s EXCEPT !.claim = None, !.stale = FALSE]

\* writeClaimed and finishStep: nothing is written once the claim was taken over.
Holds_Unfenced(r) == TRUE
Holds(r) == row[run[r].aud].claim = r
FinishStep(r, s) ==
    row' = IF Holds(r) THEN [row EXCEPT ![run[r].aud] = Released(s)] ELSE row

\* A won claim, with the fields written in the same update; a lost one leaves.
Claim(r, legal, s, x) ==
    LET a == run[r].aud IN
    IF legal /\ Claimable(row[a])
    THEN /\ row' = [row EXCEPT ![a] = Taken(s, r)]
         /\ run' = [run EXCEPT ![r] = x]
    ELSE /\ UNCHANGED row
         /\ Leave(r)

\* The provider's answer that proves a campaign was not handed over.
StillDraft_OrQueued(st) == st \in {"DRAFT", "SCHEDULED"}
StillDraft(st) == st = "DRAFT"

-----------------------------------------------------------------------------
(* The gates                                                               *)

RetryWait(x, s) == x.trig = "cron" /\ s.waiting

\* scheduleBlocker, on the run as ctx.run holds it and the row just read.
GateOpen(x, a, s) ==
    /\ SendLive
    /\ x.appr # "HELD"
    /\ HoldRun => x.appr = "APPROVED"
    /\ IF a \in ManualOnly
       THEN s.approved
       ELSE (ApprovalRequired => x.appr = "APPROVED") /\ ~AwaitingOwnApproval(a, s)
    /\ s.due
    /\ phase = "day"
    /\ ~RetryWait(x, s)

MayResume(x, s) ==
    /\ ~Terminal(s)
    /\ x.trig \in {"retry", "send_now", "send_free"} \/ (x.trig = "health" /\ s.err = "fatal")

CreateSteps(x, s) == {"configInvalid"} \cup (IF RetryWait(x, s) THEN {} ELSE {"claimCreate"})
ScheduleSteps(x, a, s) == IF GateOpen(x, a, s) THEN {"claimSched"} ELSE {}
VerifySteps(x, s) == IF RetryWait(x, s) THEN {} ELSE {"claimVerify"}

\* What advanceSend may do with the version it has just read; nothing: it leaves.
AdvanceSteps(x, a, s) ==
    CASE Over(s) -> {}
      [] s.pending -> IF s.state = "FAILED" /\ ~RetryWait(x, s) THEN {"render"} ELSE {}
      [] ~s.pending /\ s.state = "FAILED" /\ ~MayResume(x, s) -> {}
      [] OTHER -> IF s.camp = None THEN CreateSteps(x, s)
                  ELSE IF s.state = "SCHEDULED" THEN VerifySteps(x, s)
                  ELSE IF s.state = "PENDING" THEN {}
                  ELSE ScheduleSteps(x, a, s)

\* The same after createStep returned: the row is read again, with its id.
CreatedSteps(x, a, s) ==
    CASE s.state \in {"CREATED", "FAILED"} -> ScheduleSteps(x, a, s)
      [] s.state = "SCHEDULED" -> VerifySteps(x, s)
      [] OTHER -> {}

\* cutoffSweep's look at one version.
SweepSteps(s) ==
    CASE s.state = "SCHEDULED" -> {"claimVerify"}
      [] Over(s) \/ Terminal(s) -> {}
      [] OTHER -> IF s.schedMark /\ s.camp # None THEN {"claimResolve"} ELSE {"claimSkip"}

\* Enter one of the steps, remembering what the row said; or leave the version.
Enter(r, a, x, steps) ==
    LET s == row[a]
        y == [x EXCEPT !.aud = a, !.camp = s.camp]
    IN  \/ steps = {} /\ run' = [run EXCEPT ![r] = Left(y)]
        \/ \E p \in steps :
             run' = [run EXCEPT ![r] =
                 [y EXCEPT !.pc = p,
                           !.mark = CASE p = "claimCreate" -> s.createMark
                                      [] p = "claimSched" -> s.schedMark \/ s.state # "CREATED"
                                      [] OTHER -> FALSE]]

-----------------------------------------------------------------------------
(* Doors                                                                   *)

\* advanceRunInner up to its first version: one read of the run and the clock.
Begin(r, t) ==
    IF phase = "late"
    THEN /\ run' = [run EXCEPT ![r] = [Idle EXCEPT !.pc = "look", !.trig = t,
                                          !.sweep = TRUE, !.todo = Audiences]]
         /\ UNCHANGED row
    ELSE /\ run' = [run EXCEPT ![r] = [Idle EXCEPT !.pc = "look", !.trig = t,
                                          !.appr = approval,
                                          !.todo = IF t = "send_free" THEN ManualOnly ELSE Audiences]]
         /\ row' = IF t # "send_now" THEN row
                   ELSE [a \in Audiences |->
                           IF row[a].state \in {"PENDING", "CREATED", "FAILED"}
                           THEN [row[a] EXCEPT !.due = TRUE] ELSE row[a]]

\* The cron tick, Retry now, Send now (refused once a version is on its way or
\* skipped), or the health check's resume after a fatal error.
Start(r, t) ==
    /\ At(r, "idle")
    /\ t \in Doors \ {"send_free"}
    /\ t = "health" => \E a \in Audiences : row[a].state = "FAILED" /\ row[a].err = "fatal"
    /\ t = "send_now" =>
         /\ SendLive
         /\ phase = "late" \/ \A a \in Audiences : ~HandedOver(row[a]) /\ ~Over(row[a])
    /\ Begin(r, t)
    /\ UNCHANGED <<approval, phase, prov, wire, crashes, restores>>

\* Send Free: every gate asked as if already pressed, then one winner stamps it.
PressSendFree(r, a) ==
    /\ At(r, "idle")
    /\ "send_free" \in Doors /\ a \in ManualOnly
    /\ LET s == row[a] IN
         /\ s.state \in {"CREATED", "FAILED"} /\ ~Terminal(s)
         /\ s.camp # None /\ ~s.approved /\ ~s.pending
         /\ GateOpen([Idle EXCEPT !.trig = "send_free", !.appr = approval], a,
                     [s EXCEPT !.approved = TRUE, !.due = TRUE])
    /\ row' = [row EXCEPT ![a].approved = TRUE, ![a].due = TRUE]
    /\ Goto(r, "press")
    /\ UNCHANGED <<approval, phase, prov, wire, crashes, restores>>

\* The advance the press starts; a restart before it loses nothing.
PressAdvances(r) ==
    /\ At(r, "press")
    /\ Begin(r, "send_free")
    /\ UNCHANGED <<approval, phase, prov, wire, crashes, restores>>

Look(r, a) ==
    /\ At(r, "look") /\ a \in run[r].todo
    /\ LET x == [run[r] EXCEPT !.todo = @ \ {a}] IN
         Enter(r, a, x, IF x.sweep THEN SweepSteps(row[a]) ELSE AdvanceSteps(x, a, row[a]))
    /\ UNCHANGED <<row, approval, phase, prov, wire, crashes, restores>>

LookAgain(r) ==
    /\ run[r].pc \in {"created", "scheduled"}
    /\ LET x == run[r]
           s == row[x.aud] IN
         Enter(r, x.aud, x,
               IF x.pc = "created" THEN CreatedSteps(x, x.aud, s)
               ELSE IF s.state # "SCHEDULED" THEN {}
               ELSE IF x.sweep THEN {"claimVerify"} ELSE VerifySteps(x, s))
    /\ UNCHANGED <<row, approval, phase, prov, wire, crashes, restores>>

-----------------------------------------------------------------------------
(* Content frozen late, and the draft                                      *)

\* renderPendingStep: the ads are fixed, or still are not.
Render(r) ==
    /\ At(r, "render")
    /\ LET a == run[r].aud
           s == row[a] IN
       \/ /\ s.state = "FAILED" /\ s.pending /\ s.camp = None
          /\ row' = [row EXCEPT ![a] = [s EXCEPT !.state = "PENDING", !.pending = FALSE,
                       !.own = TRUE, !.approved = FALSE, !.err = "none", !.waiting = FALSE]]
          /\ \/ Goto(r, "configInvalid")
             \/ run' = [run EXCEPT ![r].pc = "claimCreate", ![r].mark = s.createMark]
       \/ /\ row' = IF s.state = "FAILED" /\ s.pending
                    THEN [row EXCEPT ![a].waiting = TRUE] ELSE row
          /\ Leave(r)
    /\ UNCHANGED <<approval, phase, prov, wire, crashes, restores>>

\* createStep with an audience target that is not configured.
ConfigInvalid(r) ==
    /\ At(r, "configInvalid")
    /\ LET a == run[r].aud
           s == row[a] IN
         row' = IF s.camp = None /\ s.state \in {"PENDING", "FAILED"}
                THEN [row EXCEPT ![a] = [s EXCEPT !.state = "FAILED", !.err = "fatal", !.waiting = FALSE]]
                ELSE row
    /\ Leave(r)
    /\ UNCHANGED <<approval, phase, prov, wire, crashes, restores>>

\* Where a first create goes: the provider is asked, whatever our own marker proves.
FirstCreate_OwnMarkerOnly == "stamp"
FirstCreate == IF HasLookup THEN "lookup" ELSE "stamp"

\* Only a create that was really called makes a campaign found by name ours.
OwnCreate_AnyAttempt(s) == s.createMark
OwnCreate(s) == s.createSent

\* createStep's claim. With a lookup the provider is asked by name, always; without
\* one a set marker stops for a human, whose Retry or Send now creates again.
ClaimCreate(r) ==
    /\ At(r, "claimCreate")
    /\ LET x == run[r]
           s == row[x.aud]
           legal == s.state \in {"PENDING", "FAILED"} /\ s.camp = None
           go(p) == [x EXCEPT !.pc = p, !.mark = OwnCreate(s)]
       IN  CASE ~x.mark ->
                  Claim(r, legal /\ ~s.createMark, [s EXCEPT !.createMark = TRUE],
                        go(FirstCreate))
             [] x.mark /\ HasLookup -> Claim(r, legal, s, go("lookup"))
             [] x.mark /\ ~HasLookup /\ x.trig \in {"retry", "send_now"} /\ s.state = "FAILED" ->
                  Claim(r, legal, s, go("stamp"))
             [] OTHER ->
                  /\ row' = IF legal /\ Claimable(s)
                            THEN [row EXCEPT ![x.aud] = Released([s EXCEPT !.state = "FAILED",
                                                 !.err = "other", !.waiting = FALSE])]
                            ELSE row
                  /\ Leave(r)
    /\ UNCHANGED <<approval, phase, prov, wire, crashes, restores>>

\* recordFailure for a create or its lookup: kind "rejected" is FATAL, "refused" is
\* a 429 or a request that never left, "unknown" may have been applied.
CreateFailures(s, kind, keepMarker) ==
    LET notApplied == kind # "unknown" /\ ~keepMarker
        base == IF notApplied THEN [s EXCEPT !.createMark = FALSE, !.createSent = FALSE] ELSE s
    IN  CASE kind = "rejected" ->
               {[base EXCEPT !.state = "FAILED", !.err = "fatal", !.waiting = FALSE]}
          [] kind # "rejected" /\ ~notApplied /\ ~HasLookup ->
               {[base EXCEPT !.state = "FAILED", !.err = "other", !.waiting = FALSE]}
          [] OTHER ->  \* the next slot, or none left before the cut-off
               {[base EXCEPT !.state = "PENDING", !.err = "other", !.waiting = TRUE],
                [base EXCEPT !.state = "SKIPPED", !.err = "other", !.waiting = FALSE]}

\* lookupThenCreate: two campaigns with the name are an error, never a guess.
Lookup(r) ==
    /\ At(r, "lookup")
    /\ LET a == run[r].aud IN
       \/ /\ \E c \in Campaigns :
               /\ Named(a) = {c}
               /\ run' = [run EXCEPT ![r].pc = "adopt", ![r].camp = c]
          /\ UNCHANGED row
       \/ /\ Named(a) = {}
          /\ Goto(r, "stamp") /\ UNCHANGED row
       \/ /\ \E kind \in {"rejected", "unknown"} :
               \E s \in CreateFailures(row[a], kind, TRUE) : FinishStep(r, s)
          /\ Leave(r)
    /\ UNCHANGED <<approval, phase, prov, wire, crashes, restores>>

\* adoptExisting asks for the found campaign's status; it may not be readable.
Adopt(r) ==
    /\ At(r, "adopt")
    /\ \E ans \in {"unknown", prov[run[r].camp].state} :
         run' = [run EXCEPT ![r].pc = "adoptSave", ![r].ans = ans]
    /\ UNCHANGED <<row, approval, phase, prov, wire, crashes, restores>>

\* persistCreated: fenced on "no id yet", not on the claim.
NoIdYet_Overwrites(s) == TRUE
NoIdYet(s) == s.camp = None
SaveId(r, s, extra, next, lost) ==
    LET a == run[r].aud IN
    IF NoIdYet(s)
    THEN /\ row' = [row EXCEPT ![a] = [extra EXCEPT !.camp = run[r].camp, !.state = "CREATED",
                                          !.waiting = FALSE, !.err = "none"]]
         /\ Goto(r, next)
    ELSE /\ row' = lost
         /\ Leave(r)

AdoptSave(r) ==
    /\ At(r, "adoptSave")
    /\ LET x == run[r]
           s == row[x.aud]
           ahead == x.ans \notin {"unknown", "DRAFT"}
           marked == [s EXCEPT !.schedMark = TRUE]
           foreign == [marked EXCEPT !.adopted = TRUE, !.own = TRUE, !.approved = FALSE]
       IN  IF ahead
           THEN SaveId(r, s, marked, "adoptMark",
                       IF s.claim = r THEN [row EXCEPT ![x.aud] = Released(s)] ELSE row)
           ELSE SaveId(r, s, Released(IF x.mark THEN marked ELSE foreign), "created", row)
    /\ UNCHANGED <<approval, phase, prov, wire, crashes, restores>>

Scheduled_ProvidersWord(s) == [s EXCEPT !.state = "SENDING", !.err = "none", !.waiting = TRUE]
Scheduled(s) == [s EXCEPT !.state = "SCHEDULED", !.err = "none", !.waiting = TRUE]
\* markProviderFailed: some readers were reached, or none / unknown.
ProviderFailures(s) ==
    {[s EXCEPT !.state = "PARTIALLY_SENT", !.waiting = FALSE],
     [s EXCEPT !.state = "FAILED", !.err = "terminal", !.waiting = FALSE]}

\* The adopted campaign was further along than this database knew.
AdoptMark(r) ==
    /\ At(r, "adoptMark")
    /\ LET s == row[run[r].aud] IN
       IF run[r].ans = "FAILED"
       THEN /\ \E t \in ProviderFailures(s) : FinishStep(r, t)
            /\ Leave(r)
       ELSE /\ FinishStep(r, [Scheduled(s) EXCEPT !.waiting = FALSE])
            /\ Goto(r, "created")
    /\ UNCHANGED <<approval, phase, prov, wire, crashes, restores>>

\* issueCreate: the write-ahead stamp, fenced on the claim, then the call.
Stamp(r) ==
    /\ At(r, "stamp")
    /\ LET a == run[r].aud IN
       IF Holds(r)
       THEN /\ row' = [row EXCEPT ![a].createMark = TRUE, ![a].createSent = TRUE]
            /\ wire' = wire \cup {[op |-> "create", by |-> r, aud |-> a, camp |-> None,
                                   content |-> row[a].content, live |-> TRUE, done |-> FALSE]}
            /\ Goto(r, "create")
       ELSE UNCHANGED <<row, wire>> /\ Leave(r)
    /\ UNCHANGED <<approval, phase, prov, crashes, restores>>

MyCall(r, op) == {q \in wire : q.by = r /\ q.op = op /\ q.live}

\* The reply did not come: the request is forgotten, or may still act later.
GiveUp(q) == \/ wire' = wire \ {q}
             \/ LateCalls /\ ~q.done /\ wire' = (wire \ {q}) \cup {[q EXCEPT !.live = FALSE]}

CreateReply(r) ==
    /\ At(r, "create")
    /\ \E q \in MyCall(r, "create") :
       \/ /\ q.done
          /\ wire' = wire \ {q}
          /\ run' = [run EXCEPT ![r].pc = "persist", ![r].camp = q.camp]
          /\ UNCHANGED row
       \/ /\ ~q.done /\ wire' = wire \ {q}
          /\ \E kind \in {"rejected", "refused"} :
               \E s \in CreateFailures(row[q.aud], kind, FALSE) : FinishStep(r, s)
          /\ Leave(r)
       \/ /\ GiveUp(q)
          /\ \E s \in CreateFailures(row[q.aud], "unknown", FALSE) : FinishStep(r, s)
          /\ Leave(r)
    /\ UNCHANGED <<approval, phase, prov, crashes, restores>>

\* persistCreated after our own createDraft; the write itself may fail, and then
\* the id is lost and the claim stays until it is stale.
Persist(r) ==
    /\ At(r, "persist")
    /\ LET s == row[run[r].aud] IN
       \/ SaveId(r, s, Released(s), "created", row)
       \/ UNCHANGED row /\ Leave(r)
    /\ UNCHANGED <<approval, phase, prov, wire, crashes, restores>>

-----------------------------------------------------------------------------
(* Schedule                                                                *)

\* The write-ahead marker of a schedule() call.
Marked_Forgotten(s) == s
Marked(s) == [s EXCEPT !.schedMark = TRUE]

\* scheduleStep's claim: a first call sets the marker in the same update.
ClaimSchedule(r) ==
    /\ At(r, "claimSched")
    /\ LET x == run[r]
           s == row[x.aud]
           first == ~x.mark
       IN  IF first
           THEN Claim(r, s.state = "CREATED" /\ s.camp = x.camp /\ ~s.schedMark,
                      Marked(s), [x EXCEPT !.pc = "issue", !.mark = FALSE])
           ELSE Claim(r, s.state \in {"CREATED", "FAILED"} /\ s.camp = x.camp, s,
                      [x EXCEPT !.pc = "status", !.mark = s.schedMark])
    /\ UNCHANGED <<approval, phase, prov, wire, crashes, restores>>

\* guardRefusal, before the claim: looked at again next minute.
GuardRefuses(r) ==
    /\ At(r, "claimSched") /\ GuardOn
    /\ row' = [row EXCEPT ![run[r].aud].waiting = TRUE]
    /\ Leave(r)
    /\ UNCHANGED <<approval, phase, prov, wire, crashes, restores>>

\* recordFailure for a schedule: the marker is always kept.
ScheduleFailure(s, kind) ==
    IF kind = "rejected" THEN [s EXCEPT !.state = "FAILED", !.err = "fatal", !.waiting = FALSE]
    ELSE [s EXCEPT !.state = "CREATED", !.err = "other", !.waiting = TRUE]

\* A set marker: the provider is asked before anything is called.
AskStatus(r) ==
    /\ At(r, "status")
    /\ LET x == run[r]
           s == row[x.aud]
           st == prov[x.camp].state
       IN  \/ FinishStep(r, ScheduleFailure(s, "unknown")) /\ Leave(r)
           \/ StillDraft(st) /\ Goto(r, "stampSched") /\ UNCHANGED row
           \/ st = "FAILED" /\ (\E t \in ProviderFailures(s) : FinishStep(r, t)) /\ Leave(r)
           \/ st \in {"SCHEDULED", "SENT"} /\ FinishStep(r, Scheduled(s)) /\ Goto(r, "scheduled")
    /\ UNCHANGED <<approval, phase, prov, wire, crashes, restores>>

StampSchedule(r) ==
    /\ At(r, "stampSched")
    /\ IF Holds(r)
       THEN row' = [row EXCEPT ![run[r].aud] = Marked(@)] /\ Goto(r, "issue")
       ELSE UNCHANGED row /\ Leave(r)
    /\ UNCHANGED <<approval, phase, prov, wire, crashes, restores>>

\* issueSchedule: one last look at the clock, then the call, in one breath.
IssueSchedule(r) ==
    /\ At(r, "issue")
    /\ LET x == run[r] IN
       IF phase # "day"
       THEN /\ FinishStep(r, [row[x.aud] EXCEPT !.schedMark = x.mark])
            /\ UNCHANGED wire /\ Leave(r)
       ELSE /\ wire' = wire \cup {[op |-> "schedule", by |-> r, aud |-> x.aud, camp |-> x.camp,
                                   content |-> 0, live |-> TRUE, done |-> FALSE]}
            /\ UNCHANGED row /\ Goto(r, "sched")
    /\ UNCHANGED <<approval, phase, prov, crashes, restores>>

ScheduleReply(r) ==
    /\ At(r, "sched")
    /\ LET s == row[run[r].aud] IN
       \E q \in MyCall(r, "schedule") :
       \/ /\ q.done /\ wire' = wire \ {q}
          /\ FinishStep(r, Scheduled(s)) /\ Goto(r, "scheduled")
       \/ /\ ~q.done /\ wire' = wire \ {q}
          /\ \E kind \in {"rejected", "refused"} : FinishStep(r, ScheduleFailure(s, kind))
          /\ Leave(r)
       \/ GiveUp(q) /\ FinishStep(r, ScheduleFailure(s, "unknown")) /\ Leave(r)
    /\ UNCHANGED <<approval, phase, prov, crashes, restores>>

-----------------------------------------------------------------------------
(* Verify and the cut-off                                                  *)

ClaimVerify(r) ==
    /\ At(r, "claimVerify")
    /\ LET x == run[r]
           s == row[x.aud] IN
       Claim(r, s.state = "SCHEDULED", s, [x EXCEPT !.pc = "verify", !.camp = s.camp])
    /\ UNCHANGED <<approval, phase, prov, wire, crashes, restores>>

\* verifyStep; in a sweep "still pending" and "cannot say" are final.
Verify(r) ==
    /\ At(r, "verify")
    /\ LET x == run[r]
           s == row[x.aud]
           st == prov[x.camp].state
           unconfirmed == IF x.sweep THEN [s EXCEPT !.state = "FAILED", !.err = "terminal", !.waiting = FALSE]
                          ELSE [s EXCEPT !.waiting = TRUE]
           outcomes == CASE st = "SENT" -> {[s EXCEPT !.state = "SENT", !.waiting = FALSE],
                                            [s EXCEPT !.state = "PARTIALLY_SENT", !.waiting = FALSE]}
                         [] st = "FAILED" -> ProviderFailures(s)
                         [] OTHER -> {unconfirmed}
       IN  \E t \in outcomes \cup {unconfirmed} : FinishStep(r, t)
    /\ Leave(r)
    /\ UNCHANGED <<approval, phase, prov, wire, crashes, restores>>

\* cutoffSweep: a version whose marker is null was provably never scheduled.
ClaimSkip(r) ==
    /\ At(r, "claimSkip")
    /\ LET x == run[r]
           s == row[x.aud] IN
       Claim(r, s.state \in {"PENDING", "CREATED", "FAILED"} /\ ~s.schedMark, s,
             [x EXCEPT !.pc = "skip"])
    /\ UNCHANGED <<approval, phase, prov, wire, crashes, restores>>

Skip(r) ==
    /\ At(r, "skip")
    /\ FinishStep(r, [row[run[r].aud] EXCEPT !.state = "SKIPPED", !.waiting = FALSE])
    /\ Leave(r)
    /\ UNCHANGED <<approval, phase, prov, wire, crashes, restores>>

\* resolveAtCutoff: only the provider can say whether it went out.
ClaimResolve(r) ==
    /\ At(r, "claimResolve")
    /\ LET x == run[r]
           s == row[x.aud] IN
       Claim(r, s.state \in {"PENDING", "CREATED", "FAILED"}, s,
             [x EXCEPT !.pc = "resolve", !.camp = s.camp])
    /\ UNCHANGED <<approval, phase, prov, wire, crashes, restores>>

Resolve(r) ==
    /\ At(r, "resolve")
    /\ LET x == run[r]
           s == row[x.aud]
           st == prov[x.camp].state
       IN  \/ /\ FinishStep(r, [s EXCEPT !.state = "FAILED", !.err = "terminal", !.waiting = FALSE])
              /\ Leave(r)
           \/ /\ StillDraft(st)
              /\ FinishStep(r, [s EXCEPT !.state = "SKIPPED", !.waiting = FALSE]) /\ Leave(r)
           \/ st = "FAILED" /\ (\E t \in ProviderFailures(s) : FinishStep(r, t)) /\ Leave(r)
           \/ st \in {"SCHEDULED", "SENT"} /\ FinishStep(r, Scheduled(s)) /\ Goto(r, "scheduled")
    /\ UNCHANGED <<approval, phase, prov, wire, crashes, restores>>

-----------------------------------------------------------------------------
(* Editors, the clock, the provider, and failures                          *)

Open == /\ phase # "late"
        /\ ~\E a \in Audiences : HandedOver(row[a])
        /\ \E a \in Audiences : row[a].state \in {"PENDING", "CREATED"}
                                \/ (row[a].state = "FAILED" /\ ~Terminal(row[a]))

\* setApproval 'approve': the run, and the late-rendered versions the editor saw.
Approve(listed) ==
    /\ "approve" \in Doors
    /\ LET waitingOwn == {a \in Audiences : AwaitingOwnApproval(a, row[a]) /\ ~Over(row[a])} IN
         \/ Open /\ approval \in {"PENDING", "HELD"}
         \/ phase # "late" /\ approval \in {"APPROVED", "NOT_REQUIRED"} /\ waitingOwn # {}
    /\ approval' = IF approval \in {"PENDING", "HELD"} THEN "APPROVED" ELSE approval
    /\ row' = [a \in Audiences |->
                 IF /\ a \in listed \ ManualOnly
                    /\ row[a].own /\ ~row[a].pending
                    /\ row[a].state \in {"PENDING", "CREATED", "FAILED"}
                 THEN [row[a] EXCEPT !.approved = TRUE] ELSE row[a]]
    /\ UNCHANGED <<phase, prov, wire, run, crashes, restores>>

Hold ==
    /\ "hold" \in Doors /\ Open /\ approval # "HELD"
    /\ approval' = "HELD"
    /\ UNCHANGED <<row, phase, prov, wire, run, crashes, restores>>

ClockMoves ==
    /\ phase # "late"
    /\ phase' = IF phase = "quiet" THEN "day" ELSE "late"
    /\ UNCHANGED <<row, approval, prov, wire, run, crashes, restores>>

SendTimeComes ==
    /\ phase # "quiet" /\ \E a \in Audiences : ~row[a].due
    /\ row' = [a \in Audiences |-> [row[a] EXCEPT !.due = TRUE]]
    /\ UNCHANGED <<approval, phase, prov, wire, run, crashes, restores>>

\* nextAttemptAt is reached, or a webhook brings a SCHEDULED version's poll forward.
WaitEnds(a) ==
    /\ row[a].waiting
    /\ row' = [row EXCEPT ![a].waiting = FALSE]
    /\ UNCHANGED <<approval, phase, prov, wire, run, crashes, restores>>

\* Ten minutes pass on a claim: its holder is dead, or merely slow.
ClaimAges(a) ==
    /\ row[a].claim # None /\ ~row[a].stale
    /\ LET r == row[a].claim IN SlowSteps \/ ~(run[r].pc \in Claimed /\ run[r].aud = a)
    /\ LateCalls \/ ~\E q \in wire : q.aud = a
    /\ row' = [row EXCEPT ![a].stale = TRUE]
    /\ UNCHANGED <<approval, phase, prov, wire, run, crashes, restores>>

\* A request takes effect. Scheduling a campaign that is not a draft changes nothing.
ProviderActs(q) ==
    /\ ~q.done
    /\ \/ /\ q.op = "create"
          /\ \E c \in Campaigns :
               /\ prov[c].state = "NONE"
               /\ prov' = [prov EXCEPT ![c] = [aud |-> q.aud, state |-> "DRAFT", content |-> q.content]]
               /\ wire' = (wire \ {q}) \cup (IF q.live THEN {[q EXCEPT !.done = TRUE, !.camp = c]} ELSE {})
       \/ /\ q.op = "schedule"
          /\ prov' = IF prov[q.camp].state = "DRAFT"
                     THEN [prov EXCEPT ![q.camp].state = "SCHEDULED"] ELSE prov
          /\ wire' = (wire \ {q}) \cup (IF q.live THEN {[q EXCEPT !.done = TRUE]} ELSE {})
    /\ UNCHANGED <<row, approval, phase, run, crashes, restores>>

\* A request nobody waits for is lost.
RequestLost(q) ==
    /\ ~q.live
    /\ wire' = wire \ {q}
    /\ UNCHANGED <<row, approval, phase, prov, run, crashes, restores>>

Delivered(c) ==
    /\ prov[c].state = "SCHEDULED"
    /\ \E st \in {"SENT", "FAILED"} : prov' = [prov EXCEPT ![c].state = st]
    /\ UNCHANGED <<row, approval, phase, wire, run, crashes, restores>>

\* A process dies between two awaits: its claim stays, its request may still act.
Crash(r) ==
    /\ crashes < MaxCrashes /\ ~At(r, "idle")
    /\ crashes' = crashes + 1
    /\ run' = [run EXCEPT ![r] = Idle]
    /\ wire' = {[q EXCEPT !.live = @ /\ q.by # r] : q \in {p \in wire : ~(p.by = r /\ p.done)}}
    /\ UNCHANGED <<row, approval, phase, prov, restores>>

\* The database goes back to the 02:20 backup and the day is built again.
Restore ==
    /\ restores < MaxRestores /\ phase # "late"
    /\ \A r \in Runners : At(r, "idle")
    /\ wire = {}
    /\ restores' = restores + 1
    /\ row' \in FreshRows(restores + 1)
    /\ approval' = FirstApproval
    /\ UNCHANGED <<phase, prov, wire, run, crashes>>

Step(r) ==
    \/ PressAdvances(r) \/ LookAgain(r) \/ Render(r) \/ ConfigInvalid(r)
    \/ \E a \in Audiences : Look(r, a)
    \/ ClaimCreate(r) \/ Lookup(r) \/ Adopt(r) \/ AdoptSave(r) \/ AdoptMark(r)
    \/ Stamp(r) \/ CreateReply(r) \/ Persist(r)
    \/ ClaimSchedule(r) \/ GuardRefuses(r) \/ AskStatus(r) \/ StampSchedule(r)
    \/ IssueSchedule(r) \/ ScheduleReply(r)
    \/ ClaimVerify(r) \/ Verify(r) \/ ClaimSkip(r) \/ Skip(r)
    \/ ClaimResolve(r) \/ Resolve(r)

Next ==
    \/ \E r \in Runners : Step(r) \/ Crash(r)
    \/ \E r \in Runners : \E t \in Triggers : Start(r, t)
    \/ \E r \in Runners : \E a \in Audiences : PressSendFree(r, a)
    \/ \E listed \in SUBSET Audiences : Approve(listed)
    \/ Hold \/ ClockMoves \/ SendTimeComes \/ Restore
    \/ \E a \in Audiences : WaitEnds(a) \/ ClaimAges(a)
    \/ \E q \in wire : ProviderActs(q) \/ RequestLost(q)
    \/ \E c \in Campaigns : Delivered(c)

Spec == Init /\ [][Next]_vars

\* The scheduler ticks every minute in every container and a live process goes on;
\* the day passes; an abandoned claim ages; a request nobody waits for ends.
Fairness ==
    /\ \A r \in Runners : WF_vars(Step(r)) /\ WF_vars(Start(r, "cron"))
    /\ WF_vars(ClockMoves)
    /\ \A a \in Audiences : WF_vars(ClaimAges(a))
    /\ WF_vars(\E q \in wire : RequestLost(q))

FairSpec == Spec /\ Fairness

-----------------------------------------------------------------------------
(* Properties                                                              *)

\* One digest a day per version: whatever crashes, overlaps, timeouts, late requests
\* and restores did, at most one of a version's campaigns ever left DRAFT.
OneCampaignAccepted ==
    \A c, d \in Campaigns :
        Accepted(c) /\ Accepted(d) /\ prov[c].aud = prov[d].aud => c = d

\* The governing principle: a null scheduleAttemptedAt on a saved campaign proves
\* that no schedule() for it has been made or is in flight.
MarkerIsProof ==
    \A a \in Audiences :
        row[a].camp # None /\ ~row[a].schedMark =>
            /\ prov[row[a].camp].state = "DRAFT"
            /\ ~\E q \in wire : q.op = "schedule" /\ q.camp = row[a].camp

\* "Out of time -> SKIPPED (no id was saved, so nothing can have been sent)", and the
\* sweep: a skipped version's stories roll forward, so none of it may be going out.
SkippedNothingSent ==
    \A a \in Audiences : row[a].state = "SKIPPED" =>
        /\ \A c \in Campaigns : prov[c].aud = a => ~Accepted(c)
        /\ ~\E q \in wire : q.op = "schedule" /\ q.aud = a

\* A version reported as sent had a campaign accepted, and is never reopened while
\* this database lives.
SentIsFinal ==
    [][\A a \in Audiences : row[a].state \in {"SENT", "PARTIALLY_SENT"} /\ restores' = restores
          => row'[a].state = row[a].state /\ Accepted(row[a].camp)]_vars

NewSchedules == {q \in wire' \ wire : q.op = "schedule" /\ q.live /\ ~q.done}

\* While calls end before their caller gives up and steps before their claim ages,
\* schedule() is called only on a campaign that is still a draft, one call at a time.
ScheduleOnlyDrafts ==
    [][\A q \in NewSchedules :
          /\ prov[q.camp].state = "DRAFT"
          /\ ~\E p \in wire : p.op = "schedule" /\ p.camp = q.camp]_vars

\* Decision A: a draft whose content is not this database's frozen content is never
\* scheduled before a person approved that version (or pressed Send Free).
UnseenDraftNeedsApproval ==
    [][\A q \in NewSchedules :
          prov[q.camp].content # row[q.aud].content => row[q.aud].approved]_vars

\* A version rendered after the build, or sent only by hand, is never covered by the
\* run's approval: it has its own approval, or its press, when schedule() is called.
OwnApprovalStep ==
    \A q \in NewSchedules :
        q.aud \in ManualOnly \/ (row[q.aud].own /\ NeedsApproval) => row[q.aud].approved

OwnApprovalHonoured == [][OwnApprovalStep]_vars

\* "HELD always waits": schedule() is not called while the editor's hold stands.
HeldNeverScheduled == [][approval = "HELD" => NewSchedules = {}]_vars

\* Past the cut-off every version is resolved: sent, partly sent, skipped, or failed
\* for good; nothing stays open, whatever crashed while holding its claim.
EventuallyResolved ==
    \A a \in Audiences : <>[](Over(row[a]) \/ Terminal(row[a]))
=============================================================================
