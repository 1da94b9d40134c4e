--------------------------- MODULE DigestSendProofs ---------------------------
(***************************************************************************)
(* Proofs about DigestSend for any number of runners, campaigns, versions, *)
(* crashes and restores. Most steps of a runner are "quiet": they disturb  *)
(* neither ids nor markers nor the provider. QuietStep shows once that     *)
(* such a step keeps the invariant; the few that are not quiet (saving an  *)
(* id, marking, calling, the provider's own steps) are taken one by one.   *)
(***************************************************************************)
EXTENDS DigestSendInv, TLAPS

\* What a step of runner r may do to the rows without disturbing anybody: ids stay,
\* a marker is only set, by the claim's holder, and no other runner gains a claim.
RowQuiet(r) ==
    /\ row' \in [Audiences -> Row]
    /\ \A a \in Audiences :
         /\ row'[a].camp = row[a].camp
         /\ row'[a].schedMark = row[a].schedMark \/ (row'[a].schedMark /\ row'[a].claim = r)
         /\ \A q \in Runners : q # r /\ row'[a].claim = q => row[a].claim = q

\* The rows with no id, marker or claim of anybody disturbed.
RowStill ==
    /\ row' \in [Audiences -> Row]
    /\ \A a \in Audiences :
         /\ row'[a].camp = row[a].camp
         /\ row'[a].schedMark = row[a].schedMark
         /\ \A q \in Runners : row'[a].claim = q => row[a].claim = q

OthersStay(r) ==
    /\ run' \in [Runners -> Runner]
    /\ \A q \in Runners : q # r => run'[q] = run[q]

\* Requests only end, lose their caller, or are r's new creates not yet in effect.
WireQuiet(r) ==
    /\ wire' \subseteq Request
    /\ \A p \in wire' :
         \/ p \in wire
         \/ ~p.live /\ \E q \in wire : /\ q.op = p.op /\ q.aud = p.aud
                                      /\ q.camp = p.camp /\ q.done = p.done
         \/ p.op = "create" /\ ~p.done /\ p.by = r

RestTyped ==
    /\ approval' \in {"NOT_REQUIRED", "PENDING", "APPROVED", "HELD"}
    /\ phase' \in {"quiet", "day", "late"}
    /\ crashes' \in Nat /\ restores' = restores

\* Runner r enters the calling of schedule() only with the row's claim in hand.
EntersHolding(r) ==
    run'[r].pc \in {"issue", "sched"} =>
        \/ run[r].pc \in {"issue", "sched"} /\ run'[r].aud = run[r].aud
        \/ row'[run'[r].aud].claim = r

\* The runner's next step does not depend on a campaign.
PlainNext(r) ==
    /\ OthersStay(r)
    /\ run'[r].pc \notin OnCampaign \cup FromRow
    /\ run'[r].pc \notin {"idle", "press", "look"} => run'[r].aud \in Audiences

-----------------------------------------------------------------------------
(* Typing of the helpers                                                   *)

\* SQL null is no version, no runner and no campaign.
LEMMA NoneIsNone == None \notin Audiences /\ None \notin Runners /\ None \notin Campaigns
BY ConstantsOK DEF ConstantsOK

\* The edits the steps make to a row keep it typed, and what they leave alone.
LEMMA RowEdits ==
    ASSUME NEW s \in Row, NEW r \in Runners
    PROVE  /\ Taken(s, r) \in Row /\ Released(s) \in Row
           /\ Scheduled(s) \in Row /\ Marked(s) \in Row
           /\ Taken(s, r).claim = r /\ Taken(s, r).camp = s.camp
           /\ Taken(s, r).schedMark = s.schedMark
           /\ Released(s).claim = None /\ Released(s).camp = s.camp
           /\ Released(s).schedMark = s.schedMark
           /\ Scheduled(s).claim = s.claim /\ Scheduled(s).camp = s.camp
           /\ Scheduled(s).schedMark = s.schedMark
           /\ Marked(s).claim = s.claim /\ Marked(s).camp = s.camp /\ Marked(s).schedMark
BY DEF Row, Taken, Released, Scheduled, Marked, States, Errors

\* The runner after it left its version is typed and on no version.
LEMMA LeftTyped ==
    ASSUME NEW x \in Runner
    PROVE  Left(x) \in Runner /\ Left(x).pc \in {"idle", "look"}
<1>1. CASE x.todo = {}
  BY <1>1 DEF Runner, Left, Idle, Steps, Triggers, Answers
<1>2. CASE x.todo # {}
  <2>1. Left(x) = [x EXCEPT !.pc = "look", !.aud = None, !.camp = None,
                            !.ans = "unknown", !.mark = FALSE]
    BY <1>2 DEF Left
  <2>2. "look" \in Steps /\ "unknown" \in Answers
    BY DEF Steps, Answers
  <2> QED BY <2>1, <2>2 DEF Runner
<1> QED BY <1>1, <1>2

LEMMA LeaveIsPlain ==
    ASSUME TypeOK, NEW r \in Runners, Leave(r)
    PROVE  PlainNext(r)
<1>1. run[r] \in Runner
  BY DEF TypeOK
<1>2. run' = [run EXCEPT ![r] = Left(run[r])] /\ run \in [Runners -> Runner]
  BY DEF Leave, TypeOK
<1>3. run'[r] = Left(run[r]) /\ OthersStay(r)
  BY <1>1, <1>2, LeftTyped DEF OthersStay
<1>4. run'[r].pc \in {"idle", "look"}
  BY <1>1, <1>3, LeftTyped
<1> QED BY <1>3, <1>4 DEF PlainNext, OnCampaign, FromRow

LEMMA FinishIsQuiet ==
    ASSUME TypeOK, NEW r \in Runners, run[r].aud \in Audiences,
           NEW s \in Row, s.camp = row[run[r].aud].camp,
           s.schedMark = row[run[r].aud].schedMark, FinishStep(r, s)
    PROVE  RowStill
<1> DEFINE a == run[r].aud
<1>1. Released(s) \in Row /\ Released(s).claim = None /\ Released(s).camp = row[a].camp
      /\ Released(s).schedMark = row[a].schedMark
  BY RowEdits
<1>2. CASE row' = [row EXCEPT ![a] = Released(s)]
  BY <1>1, <1>2, NoneIsNone DEF RowStill, TypeOK
<1>3. CASE row' = row
  BY <1>3 DEF RowStill, TypeOK
<1> QED BY <1>2, <1>3 DEF FinishStep

LEMMA ClaimIsQuiet ==
    ASSUME TypeOK, NEW r \in Runners, run[r].aud \in Audiences,
           NEW s \in Row, s.camp = row[run[r].aud].camp,
           s.schedMark = row[run[r].aud].schedMark \/ s.schedMark,
           NEW legal \in BOOLEAN,
           NEW x \in Runner, Claim(r, legal, s, x)
    PROVE  /\ RowQuiet(r) /\ OthersStay(r)
           /\ \/ Leave(r) /\ UNCHANGED row
              \/ /\ legal /\ run'[r] = x /\ run' = [run EXCEPT ![r] = x]
                 /\ row' = [row EXCEPT ![run[r].aud] = Taken(s, r)]
                 /\ row'[run[r].aud].claim = r
                 /\ row'[run[r].aud].schedMark = s.schedMark
<1> DEFINE a == run[r].aud
<1>1. CASE legal /\ Claimable(row[a])
  <2>1. row' = [row EXCEPT ![a] = Taken(s, r)] /\ run' = [run EXCEPT ![r] = x]
    BY <1>1 DEF Claim
  <2>2. Taken(s, r) \in Row /\ Taken(s, r).camp = s.camp /\ Taken(s, r).claim = r
        /\ Taken(s, r).schedMark = s.schedMark
    BY RowEdits DEF Taken, Row
  <2> QED BY <1>1, <2>1, <2>2, NoneIsNone DEF RowQuiet, OthersStay, TypeOK
<1>2. CASE ~(legal /\ Claimable(row[a]))
  BY <1>2, LeaveIsPlain DEF Claim, RowQuiet, PlainNext, TypeOK
<1> QED BY <1>1, <1>2

-----------------------------------------------------------------------------
(* Quiet steps keep the invariant                                          *)

\* What a quiet step leaves of the runner that does not move.
LEMMA OtherRunnerSound ==
    ASSUME IInv, NEW r, RowQuiet(r), OthersStay(r), WireQuiet(r), UNCHANGED prov,
           r \in Runners => EntersHolding(r),
           NEW q \in Runners, q # r
    PROVE  RunnerSound(q)'
<1> DEFINE a == run[q].aud
<1>1. run'[q] = run[q] /\ RunnerSound(q)
  BY DEF IInv, OthersStay
<1>2. OnVersion(q)'
  BY <1>1 DEF RunnerSound, OnVersion
<1>3. run[q].pc \in OnCampaign \cup FromRow => a \in Audiences
  BY <1>1 DEF RunnerSound, OnVersion, OnCampaign, FromRow
<1>4. a \in Audiences =>
        /\ row'[a].camp = row[a].camp
        /\ row'[a].schedMark = row[a].schedMark \/ (row'[a].schedMark /\ row'[a].claim = r)
        /\ row'[a].claim = q => row[a].claim = q
  BY DEF RowQuiet
<1>5. RunnerCampaign(q)'
  BY <1>1, <1>3, <1>4 DEF RunnerSound, RunnerCampaign, Unsaved, At, OnCampaign
<1>6. IssuesMarked(q)'
  BY <1>1, <1>3, <1>4 DEF RunnerSound, IssuesMarked, FromRow
<1>7. (run[q].pc \in {"status", "stampSched"} /\ Holds(q) => run[q].mark = row[a].schedMark)'
  BY <1>1, <1>3, <1>4 DEF RunnerSound, MarkerRemembered, FromRow, Holds
<1>8. ASSUME At(q, "issue")', ~run'[q].mark, Holds(q)'
      PROVE  /\ \A p \in Runners : p # q /\ run'[p].pc \in {"issue", "sched"} => run'[p].aud # a
             /\ \A p \in wire' : p.op = "schedule" => p.aud # a
             /\ prov[run[q].camp].state = "DRAFT"
  <2>1. a \in Audiences /\ At(q, "issue") /\ ~run[q].mark
    BY <1>1, <1>3, <1>8 DEF At, FromRow
  <2>2. row'[a].claim = q /\ Holds(q)
    BY <1>1, <1>4, <1>8, <2>1 DEF Holds
  <2>3. /\ \A p \in Runners : p # q /\ run[p].pc \in {"issue", "sched"} => run[p].aud # a
        /\ \A p \in wire : p.op = "schedule" => p.aud # a
        /\ prov[run[q].camp].state = "DRAFT"
    BY <1>1, <2>1, <2>2 DEF RunnerSound, MarkerRemembered
  <2>4. ASSUME NEW p \in Runners, p # q, run'[p].pc \in {"issue", "sched"}
        PROVE  run'[p].aud # a
    <3>1. CASE p # r
      BY <2>3, <2>4, <3>1 DEF OthersStay
    <3>2. CASE p = r
      BY <2>2, <2>3, <2>4, <3>2 DEF EntersHolding
    <3> QED BY <3>1, <3>2
  <2>5. \A p \in wire' : p.op = "schedule" => p.aud # a
    BY <2>3 DEF WireQuiet
  <2> QED BY <2>3, <2>4, <2>5
<1>9. MarkerRemembered(q)'
  BY <1>1, <1>7, <1>8 DEF MarkerRemembered
<1>10. CallsOf(q)'
  <2>1. \A p \in wire' : p.live /\ p.by = q => p \in wire
    BY DEF WireQuiet
  <2> QED BY <1>1, <2>1 DEF RunnerSound, CallsOf
<1> QED BY <1>2, <1>5, <1>6, <1>9, <1>10 DEF RunnerSound

\* A step that disturbs no id, marker, claim or provider keeps the invariant if it
\* leaves the runner that took it sound.
LEMMA QuietStep ==
    ASSUME IInv, NEW r, RowQuiet(r), OthersStay(r), WireQuiet(r), UNCHANGED prov,
           RestTyped, r \in Runners => EntersHolding(r) /\ RunnerSound(r)'
    PROVE  IInv'
<1>1. TypeOK'
  BY DEF IInv, TypeOK, RowQuiet, OthersStay, WireQuiet, RestTyped
<1>2. \A a \in Audiences : row'[a].camp = row[a].camp /\ (row[a].schedMark => row'[a].schedMark)
  BY DEF RowQuiet
<1>3. ProviderSound'
  BY DEF IInv, ProviderSound
<1>4. IdsReal'
  BY <1>2 DEF IInv, IdsReal
<1>5. \A p \in wire' : p \in Request /\ (p.op = "schedule" \/ p.done =>
         \E q \in wire : q.op = p.op /\ q.aud = p.aud /\ q.camp = p.camp /\ q.done = p.done)
  BY DEF WireQuiet
<1>6. \A p \in Request : p.aud \in Audiences
  BY DEF Request
<1>7. ScheduleRequests'
  BY <1>2, <1>5, <1>6 DEF IInv, ScheduleRequests
<1>8. CreateRequests'
  BY <1>2, <1>5, <1>6 DEF IInv, CreateRequests, Unsaved
<1>9. MarkerIsProof'
  BY <1>2, <1>5 DEF IInv, MarkerIsProof
<1>10. AcceptedIsSaved'
  <2>1. \A c \in Campaigns : Accepted(c) => prov[c].aud \in Audiences
    BY DEF IInv, TypeOK, Campaign, ProviderSound, Accepted
  <2> QED BY <1>2, <2>1 DEF IInv, AcceptedIsSaved, Accepted, RestTyped
<1>11. \A q \in Runners : RunnerSound(q)'
  BY OtherRunnerSound
<1> QED BY <1>1, <1>3, <1>4, <1>7, <1>8, <1>9, <1>10, <1>11 DEF IInv

\* A runner whose next step needs no campaign is sound.
LEMMA PlainIsSound ==
    ASSUME NEW r \in Runners, PlainNext(r), CallsOf(r)'
    PROVE  EntersHolding(r) /\ RunnerSound(r)'
BY DEF PlainNext, RunnerSound, OnVersion, RunnerCampaign, IssuesMarked, MarkerRemembered,
       EntersHolding, OnCampaign, FromRow, At

\* A runner that is not waiting for a reply has no call in flight.
LEMMA NoCall ==
    ASSUME IInv, NEW r \in Runners, run[r].pc \notin {"create", "sched"}
    PROVE  /\ \A p \in wire : ~(p.live /\ p.by = r)
           /\ UNCHANGED wire => WireQuiet(r) /\ CallsOf(r)'
<1>1. CallsOf(r) /\ wire \subseteq Request
  BY DEF IInv, RunnerSound, TypeOK
<1>2. \A p \in wire : ~(p.live /\ p.by = r)
  BY <1>1 DEF CallsOf
<1> QED BY <1>1, <1>2 DEF WireQuiet, CallsOf

\* Rows that nobody touched, and rows of which no id, marker or claim was touched.
LEMMA StillIsQuiet ==
    ASSUME IInv, NEW r, RowStill \/ UNCHANGED row
    PROVE  RowStill /\ RowQuiet(r)
BY DEF RowStill, RowQuiet, IInv, TypeOK

\* A step of a runner that makes or awaits no call and then needs no campaign.
LEMMA PlainStep ==
    ASSUME IInv, NEW r \in Runners, RowQuiet(r), PlainNext(r),
           run[r].pc \notin {"create", "sched"}, UNCHANGED <<prov, wire>>, RestTyped
    PROVE  IInv'
<1>1. WireQuiet(r) /\ CallsOf(r)'
  BY NoCall
<1>2. EntersHolding(r) /\ RunnerSound(r)'
  BY <1>1, PlainIsSound
<1>3. OthersStay(r)
  BY DEF PlainNext
<1> QED BY <1>1, <1>2, <1>3, QuietStep

\* A runner that leaves its version.
LEMMA LeaveStep ==
    ASSUME IInv, NEW r \in Runners, RowStill \/ UNCHANGED row, Leave(r),
           run[r].pc \notin {"create", "sched"}, UNCHANGED <<prov, wire>>, RestTyped
    PROVE  IInv'
<1>1. TypeOK
  BY DEF IInv
<1> QED BY <1>1, PlainStep, StillIsQuiet, LeaveIsPlain

\* A runner that goes to a step on its version that needs no campaign.
LEMMA GotoIsPlain ==
    ASSUME TypeOK, NEW r \in Runners, NEW p \in Steps \ (OnCampaign \cup FromRow),
           run[r].aud \in Audiences \/ p \in {"idle", "press", "look"}, Goto(r, p)
    PROVE  PlainNext(r)
<1>1. /\ run \in [Runners -> Runner] /\ run[r] \in Runner
      /\ run' = [run EXCEPT ![r].pc = p]
  BY DEF Goto, TypeOK
<1>2. [run[r] EXCEPT !.pc = p] \in Runner
  BY <1>1 DEF Runner
<1>3. run' = [run EXCEPT ![r] = [run[r] EXCEPT !.pc = p]]
  BY <1>1
<1>4. run'[r] = [run[r] EXCEPT !.pc = p] /\ OthersStay(r)
  BY <1>1, <1>2, <1>3 DEF OthersStay
<1>5. run'[r].pc = p /\ run'[r].aud = run[r].aud
  BY <1>1, <1>4 DEF Runner
<1> QED BY <1>4, <1>5 DEF PlainNext

\* Setting fields that are no id, marker or claim leaves the rows still.
LEMMA RowEditStill ==
    ASSUME IInv, NEW a \in Audiences, NEW s \in Row, s.camp = row[a].camp,
           s.schedMark = row[a].schedMark, s.claim = row[a].claim \/ s.claim = None,
           row' = [row EXCEPT ![a] = s]
    PROVE  RowStill
BY NoneIsNone DEF RowStill, IInv, TypeOK

-----------------------------------------------------------------------------
(* Looking at a version                                                    *)

\* Where a look can lead; the schedule step is entered only with a saved id.
Entered == {"render", "configInvalid", "claimCreate", "claimSched", "claimVerify",
            "claimSkip", "claimResolve"}

LEMMA LookLeadsTo ==
    ASSUME NEW x, NEW a, NEW s
    PROVE  /\ AdvanceSteps(x, a, s) \subseteq Entered
           /\ CreatedSteps(x, a, s) \subseteq Entered
           /\ SweepSteps(s) \subseteq Entered /\ VerifySteps(x, s) \subseteq Entered
           /\ "claimSched" \in AdvanceSteps(x, a, s) => s.camp # None
           /\ "claimSched" \notin SweepSteps(s) \cup VerifySteps(x, s)
BY DEF AdvanceSteps, CreatedSteps, SweepSteps, CreateSteps, ScheduleSteps, VerifySteps, Entered

\* Entering a step keeps the invariant: its campaign, if it needs one, is the row's.
LEMMA EnterStep ==
    ASSUME IInv, NEW r \in Runners, NEW a \in Audiences, NEW x \in Runner,
           NEW steps \in SUBSET Entered, "claimSched" \in steps => row[a].camp # None,
           Enter(r, a, x, steps), run[r].pc \notin {"create", "sched"},
           UNCHANGED <<row, prov, wire>>, RestTyped
    PROVE  IInv'
<1> DEFINE y == [x EXCEPT !.aud = a, !.camp = row[a].camp]
<1>1. row[a] \in Row /\ run \in [Runners -> Runner] /\ row[a].camp \in Campaigns \cup {None}
  BY DEF IInv, TypeOK, Row
<1>2. y \in Runner /\ y.aud = a /\ y.camp = row[a].camp
  BY <1>1 DEF Runner
<1>3. WireQuiet(r) /\ CallsOf(r)'
  BY NoCall
<1>4. CASE run' = [run EXCEPT ![r] = Left(y)]
  <2>1. Left(y) \in Runner /\ Left(y).pc \in {"idle", "look"}
    BY <1>2, LeftTyped
  <2>2. PlainNext(r)
    BY <1>1, <1>4, <2>1 DEF PlainNext, OthersStay, OnCampaign, FromRow
  <2> QED BY <2>2, PlainStep, StillIsQuiet
<1>5. ASSUME NEW p \in steps, NEW m \in BOOLEAN,
             run' = [run EXCEPT ![r] = [y EXCEPT !.pc = p, !.mark = m]]
      PROVE  IInv'
  <2>1. p \in Entered /\ p \in Steps
    BY DEF Entered, Steps
  <2> DEFINE z == [y EXCEPT !.pc = p, !.mark = m]
  <2>2. z \in Runner /\ z.pc = p /\ z.aud = a /\ z.camp = row[a].camp
    BY <1>2, <2>1 DEF Runner
  <2>3. run'[r] = z /\ OthersStay(r)
    BY <1>1, <1>5, <2>2 DEF OthersStay
  <2>4. p = "claimSched" => z.camp \in Campaigns
    BY <1>1, <2>2
  <2>5. OnVersion(r)' /\ RunnerCampaign(r)'
    BY <2>1, <2>2, <2>3, <2>4
       DEF OnVersion, RunnerCampaign, OnCampaign, FromRow, At, Entered
  <2>6. IssuesMarked(r)' /\ MarkerRemembered(r)' /\ EntersHolding(r)
    BY <2>1, <2>2, <2>3 DEF IssuesMarked, MarkerRemembered, EntersHolding, At, Entered
  <2>7. RunnerSound(r)'
    BY <1>3, <2>5, <2>6 DEF RunnerSound
  <2> QED BY <1>3, <2>3, <2>6, <2>7, QuietStep, StillIsQuiet
<1>6. \A p : (CASE p = "claimCreate" -> row[a].createMark
                [] p = "claimSched" -> row[a].schedMark \/ row[a].state # "CREATED"
                [] OTHER -> FALSE) \in BOOLEAN
  BY <1>1 DEF Row
<1> QED BY <1>4, <1>5, <1>6 DEF Enter

LEMMA LookKeeps ==
    ASSUME IInv, NEW r \in Runners, NEW a \in Audiences, Look(r, a)
    PROVE  IInv'
<1> DEFINE x == [run[r] EXCEPT !.todo = @ \ {a}]
           steps == IF x.sweep THEN SweepSteps(row[a]) ELSE AdvanceSteps(x, a, row[a])
<1>1. x \in Runner
  BY DEF IInv, TypeOK, Runner
<1>2. /\ Enter(r, a, x, steps) /\ run[r].pc \notin {"create", "sched"}
      /\ UNCHANGED <<row, prov, wire>> /\ RestTyped
  BY DEF Look, At, RestTyped, IInv, TypeOK
<1>3. steps \in SUBSET Entered /\ ("claimSched" \in steps => row[a].camp # None)
  BY LookLeadsTo
<1> HIDE DEF x, steps
<1> QED BY <1>1, <1>2, <1>3, EnterStep

LEMMA LookAgainKeeps ==
    ASSUME IInv, NEW r \in Runners, LookAgain(r)
    PROVE  IInv'
<1> DEFINE x == run[r]
           a == x.aud
           s == row[a]
           steps == IF x.pc = "created" THEN CreatedSteps(x, a, s)
                    ELSE IF s.state # "SCHEDULED" THEN {}
                    ELSE IF x.sweep THEN {"claimVerify"} ELSE VerifySteps(x, s)
<1>1. x \in Runner /\ RunnerSound(r) /\ None \notin Campaigns
  BY NoneIsNone DEF IInv, TypeOK
<1>2. /\ Enter(r, a, x, steps) /\ run[r].pc \notin {"create", "sched"}
      /\ run[r].pc \in {"created", "scheduled"}
      /\ UNCHANGED <<row, prov, wire>> /\ RestTyped
  BY DEF LookAgain, RestTyped, IInv, TypeOK
<1>3. a \in Audiences
  BY <1>1, <1>2 DEF RunnerSound, OnVersion
<1>4. x.pc = "created" => s.camp # None
  BY <1>1, <1>2 DEF RunnerSound, RunnerCampaign, FromRow
<1>5. steps \in SUBSET Entered /\ ("claimSched" \in steps => row[a].camp # None)
  BY <1>4, LookLeadsTo DEF Entered
<1> HIDE DEF x, a, s, steps
<1> QED BY <1>1, <1>2, <1>3, <1>5, EnterStep

-----------------------------------------------------------------------------
(* The doors                                                               *)

\* Marking versions due, as Send now and the clock do, disturbs no id or marker.
LEMMA DueEdits ==
    ASSUME IInv, NEW D \in SUBSET Audiences,
           row' = [a \in Audiences |-> IF a \in D THEN [row[a] EXCEPT !.due = TRUE] ELSE row[a]]
    PROVE  RowStill
<1>1. \A a \in Audiences : row[a] \in Row
  BY DEF IInv, TypeOK
<1>2. \A s \in Row : LET t == [s EXCEPT !.due = TRUE] IN
        t \in Row /\ t.camp = s.camp /\ t.schedMark = s.schedMark /\ t.claim = s.claim
  BY DEF Row
<1> QED BY <1>1, <1>2 DEF RowStill

LEMMA BeginKeeps ==
    ASSUME IInv, NEW r \in Runners, NEW t \in Triggers, Begin(r, t),
           run[r].pc \notin {"create", "sched"},
           UNCHANGED <<approval, phase, prov, wire, crashes, restores>>
    PROVE  IInv'
<1>1. RestTyped /\ run \in [Runners -> Runner] /\ ManualOnly \subseteq Audiences
  BY ConstantsOK DEF IInv, TypeOK, RestTyped, ConstantsOK
<1>2. Idle \in Runner /\ approval \in {"NOT_REQUIRED", "PENDING", "APPROVED", "HELD"}
      /\ "look" \in Steps
  BY DEF Idle, Runner, Steps, Triggers, Answers, IInv, TypeOK
<1>3. PlainNext(r)
  <2>1. PICK z \in Runner : z.pc = "look" /\ run' = [run EXCEPT ![r] = z]
    <3>1. CASE phase = "late"
      <4> DEFINE z == [Idle EXCEPT !.pc = "look", !.trig = t, !.sweep = TRUE, !.todo = Audiences]
      <4>1. z \in Runner /\ z.pc = "look"
        BY <1>2 DEF Runner
      <4>2. run' = [run EXCEPT ![r] = z]
        BY <3>1 DEF Begin
      <4> QED BY <4>1, <4>2
    <3>2. CASE phase # "late"
      <4> DEFINE todo == IF t = "send_free" THEN ManualOnly ELSE Audiences
                 z == [Idle EXCEPT !.pc = "look", !.trig = t, !.appr = approval, !.todo = todo]
      <4>1. z \in Runner /\ z.pc = "look"
        BY <1>1, <1>2 DEF Runner
      <4>2. run' = [run EXCEPT ![r] = z]
        BY <3>2 DEF Begin
      <4> QED BY <4>1, <4>2
    <3> QED BY <3>1, <3>2
  <2>2. run'[r] = z /\ OthersStay(r)
    BY <1>1, <2>1 DEF OthersStay
  <2> QED BY <2>1, <2>2 DEF PlainNext, OnCampaign, FromRow
<1>4. RowStill \/ UNCHANGED row
  <2> DEFINE D == {a \in Audiences : row[a].state \in {"PENDING", "CREATED", "FAILED"}}
  <2>1. CASE phase = "late" \/ t # "send_now"
    BY <2>1 DEF Begin
  <2>2. CASE phase # "late" /\ t = "send_now"
    <3>1. row' = [a \in Audiences |-> IF a \in D THEN [row[a] EXCEPT !.due = TRUE] ELSE row[a]]
      BY <2>2 DEF Begin
    <3> QED BY <3>1, DueEdits
  <2> QED BY <2>1, <2>2
<1> QED BY <1>1, <1>3, <1>4, PlainStep, StillIsQuiet

LEMMA StartKeeps ==
    ASSUME IInv, NEW r \in Runners, NEW t \in Triggers, Start(r, t)
    PROVE  IInv'
BY BeginKeeps DEF Start, At

LEMMA PressAdvancesKeeps ==
    ASSUME IInv, NEW r \in Runners, PressAdvances(r)
    PROVE  IInv'
BY BeginKeeps DEF PressAdvances, At, Triggers

LEMMA PressSendFreeKeeps ==
    ASSUME IInv, NEW r \in Runners, NEW a \in Audiences, PressSendFree(r, a)
    PROVE  IInv'
<1> DEFINE t == [row[a] EXCEPT !.approved = TRUE, !.due = TRUE]
<1>1. RestTyped /\ TypeOK /\ row[a] \in Row /\ row \in [Audiences -> Row]
  BY DEF IInv, TypeOK, RestTyped, PressSendFree
<1>2. t \in Row /\ t.camp = row[a].camp /\ t.schedMark = row[a].schedMark /\ t.claim = row[a].claim
  BY <1>1 DEF Row
<1>3. row' = [row EXCEPT ![a] = t]
  BY <1>1 DEF PressSendFree
<1>4. RowStill
  BY <1>2, <1>3, RowEditStill
<1>5. Goto(r, "press") /\ run[r].pc \notin {"create", "sched"} /\ UNCHANGED <<prov, wire>>
  BY DEF PressSendFree, At
<1>6. PlainNext(r)
  BY <1>1, <1>5, GotoIsPlain DEF Steps, OnCampaign, FromRow
<1> QED BY <1>1, <1>4, <1>5, <1>6, PlainStep, StillIsQuiet

-----------------------------------------------------------------------------
(* Content frozen late, and the draft                                      *)

\* A runner at a step of its version is at one of the versions.
LEMMA VersionOf ==
    ASSUME IInv, NEW r \in Runners, run[r].pc \notin {"idle", "press", "look"}
    PROVE  /\ run[r].aud \in Audiences /\ row[run[r].aud] \in Row
           /\ run \in [Runners -> Runner] /\ run[r] \in Runner
           /\ row \in [Audiences -> Row] /\ RunnerSound(r) /\ TypeOK
BY DEF IInv, RunnerSound, OnVersion, TypeOK

LEMMA RenderKeeps ==
    ASSUME IInv, NEW r \in Runners, Render(r)
    PROVE  IInv'
<1> DEFINE a == run[r].aud
           s == row[a]
           t == [s EXCEPT !.state = "PENDING", !.pending = FALSE, !.own = TRUE,
                          !.approved = FALSE, !.err = "none", !.waiting = FALSE]
           w == [s EXCEPT !.waiting = TRUE]
<1>1. run[r].pc = "render" /\ RestTyped /\ UNCHANGED <<prov, wire>>
  BY DEF Render, At, IInv, TypeOK, RestTyped
<1>2. a \in Audiences /\ s \in Row /\ TypeOK /\ run[r] \in Runner
      /\ run \in [Runners -> Runner] /\ row \in [Audiences -> Row]
  BY <1>1, VersionOf
<1>3. t \in Row /\ t.camp = s.camp /\ t.schedMark = s.schedMark /\ t.claim = s.claim
  BY <1>2 DEF Row, States, Errors
<1>4. w \in Row /\ w.camp = s.camp /\ w.schedMark = s.schedMark /\ w.claim = s.claim
  BY <1>2 DEF Row
<1>5. CASE row' = [row EXCEPT ![a] = t] /\ Goto(r, "configInvalid")
  <2>1. RowStill
    BY <1>2, <1>3, <1>5, RowEditStill
  <2>2. PlainNext(r)
    BY <1>2, <1>5, GotoIsPlain DEF Steps, OnCampaign, FromRow
  <2> QED BY <1>1, <2>1, <2>2, PlainStep, StillIsQuiet
<1>6. CASE /\ row' = [row EXCEPT ![a] = t]
           /\ run' = [run EXCEPT ![r].pc = "claimCreate", ![r].mark = s.createMark]
  <2>1. RowStill
    BY <1>2, <1>3, <1>6, RowEditStill
  <2> DEFINE z == [run[r] EXCEPT !.pc = "claimCreate", !.mark = s.createMark]
  <2>2. z \in Runner /\ z.pc = "claimCreate" /\ z.aud = a
    BY <1>2 DEF Runner, Row, Steps
  <2>3. run'[r] = z /\ OthersStay(r)
    BY <1>2, <1>6, <2>2 DEF OthersStay
  <2>4. PlainNext(r)
    BY <1>2, <2>2, <2>3 DEF PlainNext, OnCampaign, FromRow
  <2> QED BY <1>1, <2>1, <2>4, PlainStep, StillIsQuiet
<1>7. CASE (row' = [row EXCEPT ![a] = w] \/ row' = row) /\ Leave(r)
  <2>1. RowStill \/ UNCHANGED row
    BY <1>2, <1>4, <1>7, RowEditStill
  <2> QED BY <1>1, <1>7, <2>1, LeaveStep
<1>8. \/ row' = [row EXCEPT ![a] = t] /\ Goto(r, "configInvalid")
      \/ /\ row' = [row EXCEPT ![a] = t]
         /\ run' = [run EXCEPT ![r].pc = "claimCreate", ![r].mark = s.createMark]
      \/ (row' = [row EXCEPT ![a] = w] \/ row' = row) /\ Leave(r)
  BY <1>2 DEF Render
<1> QED BY <1>5, <1>6, <1>7, <1>8

LEMMA ConfigInvalidKeeps ==
    ASSUME IInv, NEW r \in Runners, ConfigInvalid(r)
    PROVE  IInv'
<1> DEFINE a == run[r].aud
           s == row[a]
           t == [s EXCEPT !.state = "FAILED", !.err = "fatal", !.waiting = FALSE]
<1>1. run[r].pc = "configInvalid" /\ RestTyped /\ UNCHANGED <<prov, wire>> /\ Leave(r)
  BY DEF ConfigInvalid, At, IInv, TypeOK, RestTyped
<1>2. a \in Audiences /\ s \in Row
  BY <1>1, VersionOf
<1>3. t \in Row /\ t.camp = s.camp /\ t.schedMark = s.schedMark /\ t.claim = s.claim
  BY <1>2 DEF Row, States, Errors
<1>4. row' = [row EXCEPT ![a] = t] \/ row' = row
  BY DEF ConfigInvalid
<1>5. RowStill \/ UNCHANGED row
  BY <1>2, <1>3, <1>4, RowEditStill
<1> QED BY <1>1, <1>5, LeaveStep

\* A claim that leads to a step needing no campaign.
LEMMA ClaimPlainStep ==
    ASSUME IInv, NEW r \in Runners, run[r].pc \notin {"idle", "press", "look", "create", "sched"},
           NEW legal \in BOOLEAN, NEW s \in Row, s.camp = row[run[r].aud].camp,
           s.schedMark = row[run[r].aud].schedMark,
           NEW x \in Runner, x.pc \notin OnCampaign \cup FromRow, x.aud = run[r].aud,
           Claim(r, legal, s, x), UNCHANGED <<prov, wire>>, RestTyped
    PROVE  IInv'
<1>1. run[r].aud \in Audiences /\ TypeOK
  BY VersionOf
<1>2. /\ RowQuiet(r) /\ OthersStay(r)
      /\ (Leave(r) /\ UNCHANGED row) \/ run'[r] = x
  BY <1>1, ClaimIsQuiet
<1>3. CASE Leave(r) /\ UNCHANGED row
  BY <1>3, LeaveStep
<1>4. CASE run'[r] = x
  <2>1. PlainNext(r)
    BY <1>1, <1>2, <1>4 DEF PlainNext
  <2> QED BY <1>2, <2>1, PlainStep
<1> QED BY <1>2, <1>3, <1>4

LEMMA ClaimCreateKeeps ==
    ASSUME IInv, NEW r \in Runners, ClaimCreate(r)
    PROVE  IInv'
<1> DEFINE x == run[r]
           a == x.aud
           s == row[a]
           legal == s.state \in {"PENDING", "FAILED"} /\ s.camp = None
           m == [s EXCEPT !.createMark = TRUE]
           go(p) == [x EXCEPT !.pc = p, !.mark = OwnCreate(s)]
           f == [s EXCEPT !.state = "FAILED", !.err = "other", !.waiting = FALSE]
<1>1. x.pc = "claimCreate" /\ RestTyped /\ UNCHANGED <<prov, wire>>
  BY DEF ClaimCreate, At, IInv, TypeOK, RestTyped
<1>2. a \in Audiences /\ s \in Row /\ x \in Runner
  BY <1>1, VersionOf
<1>3. m \in Row /\ m.camp = s.camp /\ m.schedMark = s.schedMark
  BY <1>2 DEF Row
<1>4. \A p \in {"lookup", "stamp"} : go(p) \in Runner /\ go(p).pc = p /\ go(p).aud = a
  BY <1>2 DEF Runner, Row, OwnCreate, Steps, Claimed
<1>5. FirstCreate \in {"lookup", "stamp"} /\ "lookup" \notin OnCampaign \cup FromRow
      /\ "stamp" \notin OnCampaign \cup FromRow
  BY DEF FirstCreate, OnCampaign, FromRow
<1>6. Released(f) \in Row /\ Released(f).camp = s.camp /\ Released(f).schedMark = s.schedMark
      /\ Released(f).claim = None
  BY <1>2 DEF Row, Released, States, Errors
<1> HIDE DEF x, a, s, m, go, f
<1>7. \/ Claim(r, legal /\ ~s.createMark, m, go(FirstCreate))
      \/ Claim(r, legal, s, go("lookup"))
      \/ Claim(r, legal, s, go("stamp"))
      \/ (row' = [row EXCEPT ![a] = Released(f)] \/ UNCHANGED row) /\ Leave(r)
  BY DEF ClaimCreate, x, a, s, m, go, f
<1>8. CASE Claim(r, legal /\ ~s.createMark, m, go(FirstCreate))
  <2>1. (legal /\ ~s.createMark) \in BOOLEAN
    OBVIOUS
  <2>2. a = run[r].aud /\ s = row[run[r].aud] /\ run[r].pc = "claimCreate"
    BY <1>1 DEF x, a, s
  <2> HIDE DEF legal
  <2> QED BY <1>1, <1>2, <1>3, <1>4, <1>5, <1>8, <2>1, <2>2, ClaimPlainStep
<1>9. CASE Claim(r, legal, s, go("lookup")) \/ Claim(r, legal, s, go("stamp"))
  <2>1. legal \in BOOLEAN
    OBVIOUS
  <2>2. a = run[r].aud /\ s = row[run[r].aud] /\ run[r].pc = "claimCreate"
    BY <1>1 DEF x, a, s
  <2> HIDE DEF legal
  <2> QED BY <1>1, <1>2, <1>3, <1>4, <1>5, <1>9, <2>1, <2>2, ClaimPlainStep
<1>10. CASE (row' = [row EXCEPT ![a] = Released(f)] \/ UNCHANGED row) /\ Leave(r)
  <2>1. RowStill \/ UNCHANGED row
    BY <1>2, <1>6, <1>10, RowEditStill DEF s, a
  <2> QED BY <1>1, <1>10, <2>1, LeaveStep DEF x
<1> QED BY <1>7, <1>8, <1>9, <1>10

\* A failed create keeps the row's id, its schedule marker and its claim.
LEMMA CreateFailureEdits ==
    ASSUME NEW s \in Row, NEW kind, NEW keep \in BOOLEAN,
           NEW t \in CreateFailures(s, kind, keep)
    PROVE  t \in Row /\ t.camp = s.camp /\ t.schedMark = s.schedMark
<1> DEFINE base == IF kind # "unknown" /\ ~keep
                   THEN [s EXCEPT !.createMark = FALSE, !.createSent = FALSE] ELSE s
           written(st, e, w) == [base EXCEPT !.state = st, !.err = e, !.waiting = w]
<1>1. base \in Row /\ base.camp = s.camp /\ base.schedMark = s.schedMark
  <2>1. LET b == [s EXCEPT !.createMark = FALSE, !.createSent = FALSE] IN
          b \in Row /\ b.camp = s.camp /\ b.schedMark = s.schedMark
    BY DEF Row
  <2> QED BY <2>1
<1>2. \E st \in {"FAILED", "PENDING", "SKIPPED"}, e \in {"fatal", "other"}, w \in BOOLEAN :
        t = written(st, e, w)
  BY DEF CreateFailures
<1> HIDE DEF base
<1>3. PICK st \in States, e \in Errors, w \in BOOLEAN : t = written(st, e, w)
  BY <1>2 DEF States, Errors
<1>4. written(st, e, w) \in Row /\ written(st, e, w).camp = base.camp
      /\ written(st, e, w).schedMark = base.schedMark
  BY <1>1 DEF Row
<1> QED BY <1>1, <1>3, <1>4

\* finishStep with a row that keeps its id and marker, and then leaving.
LEMMA FinishAndLeave ==
    ASSUME IInv, NEW r \in Runners,
           run[r].pc \notin {"idle", "press", "look", "create", "sched"},
           NEW t \in Row, t.camp = row[run[r].aud].camp,
           t.schedMark = row[run[r].aud].schedMark, FinishStep(r, t), Leave(r),
           UNCHANGED <<prov, wire>>, RestTyped
    PROVE  IInv'
BY VersionOf, FinishIsQuiet, LeaveStep

\* A runner that goes, with a campaign of its version, to a step that needs one, while
\* the rows stay as they are.
LEMMA OnCampaignStep ==
    ASSUME IInv, NEW r \in Runners,
           run[r].pc \notin {"idle", "press", "look", "create", "sched"},
           NEW z \in Runner, z.pc \in {"adopt", "adoptSave"}, z.aud = run[r].aud,
           z.camp \in Campaigns, prov[z.camp].aud = z.aud,
           run' = [run EXCEPT ![r] = z],
           UNCHANGED <<row, prov, wire>>, RestTyped
    PROVE  IInv'
<1>1. run[r].aud \in Audiences /\ run \in [Runners -> Runner]
  BY VersionOf
<1>2. run'[r] = z /\ OthersStay(r) /\ WireQuiet(r) /\ CallsOf(r)'
  BY <1>1, NoCall DEF OthersStay
<1>3. EntersHolding(r) /\ RunnerSound(r)'
  BY <1>1, <1>2 DEF EntersHolding, RunnerSound, OnVersion, RunnerCampaign, OnCampaign, FromRow,
                    IssuesMarked, MarkerRemembered, At
<1> QED BY <1>2, <1>3, QuietStep, StillIsQuiet

LEMMA LookupKeeps ==
    ASSUME IInv, NEW r \in Runners, Lookup(r)
    PROVE  IInv'
<1> DEFINE a == run[r].aud
<1>1. run[r].pc = "lookup" /\ RestTyped /\ UNCHANGED <<prov, wire>>
  BY DEF Lookup, At, IInv, TypeOK, RestTyped
<1>2. a \in Audiences /\ row[a] \in Row /\ run[r] \in Runner /\ run \in [Runners -> Runner]
      /\ TypeOK
  BY <1>1, VersionOf
<1>3. ASSUME NEW c \in Campaigns, Named(a) = {c}, UNCHANGED row,
             run' = [run EXCEPT ![r].pc = "adopt", ![r].camp = c]
      PROVE  IInv'
  <2> DEFINE z == [run[r] EXCEPT !.pc = "adopt", !.camp = c]
  <2>1. z \in Runner /\ z.pc = "adopt" /\ z.aud = a /\ z.camp = c
    BY <1>2 DEF Runner, Steps, Claimed
  <2>2. prov[c].aud = a
    BY <1>3 DEF Named
  <2>3. run' = [run EXCEPT ![r] = z]
    BY <1>2, <1>3
  <2> HIDE DEF z
  <2> QED BY <1>1, <1>3, <2>1, <2>2, <2>3, OnCampaignStep
<1>4. CASE Goto(r, "stamp") /\ UNCHANGED row
  <2>1. PlainNext(r)
    BY <1>2, <1>4, GotoIsPlain DEF Steps, Claimed, OnCampaign, FromRow
  <2> QED BY <1>1, <1>4, <2>1, PlainStep, StillIsQuiet
<1>5. ASSUME NEW kind, NEW t \in CreateFailures(row[a], kind, TRUE), FinishStep(r, t), Leave(r)
      PROVE  IInv'
  <2>1. t \in Row /\ t.camp = row[a].camp /\ t.schedMark = row[a].schedMark
    BY <1>2, <1>5, CreateFailureEdits
  <2> QED BY <1>1, <1>5, <2>1, FinishAndLeave
<1> QED BY <1>3, <1>4, <1>5 DEF Lookup

LEMMA AdoptKeeps ==
    ASSUME IInv, NEW r \in Runners, Adopt(r)
    PROVE  IInv'
<1>1. run[r].pc = "adopt" /\ RestTyped /\ UNCHANGED <<row, prov, wire>>
  BY DEF Adopt, At, IInv, TypeOK, RestTyped
<1>2. run[r].aud \in Audiences /\ run[r] \in Runner /\ run \in [Runners -> Runner] /\ RunnerSound(r)
  BY <1>1, VersionOf
<1>3. run[r].camp \in Campaigns /\ prov[run[r].camp].aud = run[r].aud
  BY <1>1, <1>2 DEF RunnerSound, RunnerCampaign, OnCampaign
<1>4. prov[run[r].camp].state \in Answers
  BY <1>2, <1>3, NoneIsNone DEF IInv, ProviderSound, TypeOK, Campaign, Answers
<1>5. PICK ans \in Answers : run' = [run EXCEPT ![r].pc = "adoptSave", ![r].ans = ans]
  BY <1>4 DEF Adopt, Answers
<1> DEFINE z == [run[r] EXCEPT !.pc = "adoptSave", !.ans = ans]
<1>6. z \in Runner /\ z.pc = "adoptSave" /\ z.aud = run[r].aud /\ z.camp = run[r].camp
  BY <1>2 DEF Runner, Steps, Claimed
<1>7. run' = [run EXCEPT ![r] = z]
  BY <1>2, <1>5
<1> HIDE DEF z
<1> QED BY <1>1, <1>3, <1>6, <1>7, OnCampaignStep

\* Saving an id: the campaign is one of the version's own, the row had none, and if it
\* was not marked for scheduling the campaign is provably still a draft.
LEMMA SaveKeeps ==
    ASSUME IInv, NEW r \in Runners, run[r].pc \in OnCampaign,
           NEW t \in Row, row[run[r].aud].camp = None, t.camp = run[r].camp,
           t.claim = row[run[r].aud].claim \/ t.claim = None,
           t.schedMark \/ prov[run[r].camp].state = "DRAFT",
           row' = [row EXCEPT ![run[r].aud] = t],
           NEW p \in {"adoptMark", "created"}, Goto(r, p),
           UNCHANGED <<prov, wire>>, RestTyped
    PROVE  IInv'
<1> DEFINE a == run[r].aud
           c == run[r].camp
<1>1. a \in Audiences /\ row \in [Audiences -> Row] /\ TypeOK /\ run[r] \in Runner
      /\ run \in [Runners -> Runner] /\ RunnerSound(r)
  BY VersionOf DEF OnCampaign
<1>2. c \in Campaigns /\ prov[c].aud = a /\ c # None
  BY <1>1, NoneIsNone DEF RunnerSound, RunnerCampaign
<1>3. row'[a] = t /\ \A b \in Audiences : b # a => row'[b] = row[b]
  BY <1>1
<1>4. run'[r] = [run[r] EXCEPT !.pc = p] /\ OthersStay(r)
  <2>1. [run[r] EXCEPT !.pc = p] \in Runner
    BY <1>1 DEF Runner, Steps, Claimed
  <2>2. run' = [run EXCEPT ![r] = [run[r] EXCEPT !.pc = p]]
    BY <1>1 DEF Goto
  <2> QED BY <1>1, <2>1, <2>2 DEF OthersStay
<1>5. run'[r].pc = p /\ run'[r].aud = a /\ run'[r].camp = c
  BY <1>1, <1>4 DEF Runner
<1>6. TypeOK'
  BY <1>1, <1>4 DEF TypeOK, RestTyped, OthersStay
<1>7. ProviderSound'
  BY DEF IInv, ProviderSound
<1>8. IdsReal'
  BY <1>2, <1>3 DEF IInv, IdsReal
<1>9. \A q \in wire : q.op = "schedule" => q.aud # a /\ q.aud \in Audiences /\ q.camp # c
  BY <1>1, <1>2, NoneIsNone DEF IInv, ScheduleRequests, TypeOK, Request, IdsReal
<1>10. ScheduleRequests'
  BY <1>3, <1>9 DEF IInv, ScheduleRequests
<1>11. CreateRequests'
  <2>1. \A q \in wire : q.aud \in Audiences
    BY <1>1 DEF TypeOK, Request
  <2> QED BY <1>2, <1>3, <2>1 DEF IInv, CreateRequests, Unsaved
<1>12. MarkerIsProof'
  BY <1>2, <1>3, <1>9 DEF IInv, MarkerIsProof
<1>13. AcceptedIsSaved'
  <2>1. \A d \in Campaigns : Accepted(d) => prov[d].aud \in Audiences
    BY <1>1 DEF IInv, TypeOK, Campaign, ProviderSound, Accepted
  <2>2. restores = 0 => \A d \in Campaigns : Accepted(d) => prov[d].aud # a
    BY NoneIsNone DEF IInv, AcceptedIsSaved
  <2> QED BY <1>3, <2>1, <2>2 DEF IInv, AcceptedIsSaved, Accepted, RestTyped
<1>14. ASSUME NEW q \in Runners, q # r
       PROVE  RunnerSound(q)'
  <2>1. run'[q] = run[q] /\ RunnerSound(q)
    BY <1>4, <1>14 DEF OthersStay, IInv
  <2>2. run[q].pc \in OnCampaign \cup FromRow => run[q].aud \in Audiences
    BY <2>1 DEF RunnerSound, OnVersion, OnCampaign, FromRow
  <2>3. run[q].pc \in FromRow => run[q].aud # a
    BY <2>1, NoneIsNone DEF RunnerSound, RunnerCampaign
  <2>4. OnVersion(q)' /\ RunnerCampaign(q)'
    BY <1>2, <1>3, <2>1, <2>2, <2>3
       DEF RunnerSound, OnVersion, RunnerCampaign, Unsaved, At, OnCampaign
  <2>5. IssuesMarked(q)'
    BY <1>3, <2>1, <2>2, <2>3 DEF RunnerSound, IssuesMarked, FromRow
  <2>6. MarkerRemembered(q)'
    BY <1>3, <1>4, <1>5, <2>1, <2>2, <2>3
       DEF RunnerSound, MarkerRemembered, FromRow, Holds, At, OthersStay
  <2>7. CallsOf(q)'
    BY <2>1 DEF RunnerSound, CallsOf
  <2> QED BY <2>4, <2>5, <2>6, <2>7 DEF RunnerSound
<1>15. RunnerSound(r)'
  <2>1. CallsOf(r)'
    BY NoCall DEF OnCampaign
  <2>2. OnVersion(r)' /\ RunnerCampaign(r)' /\ IssuesMarked(r)' /\ MarkerRemembered(r)'
    BY <1>1, <1>2, <1>3, <1>5
       DEF OnVersion, RunnerCampaign, IssuesMarked, MarkerRemembered, At, OnCampaign, FromRow
  <2> QED BY <2>1, <2>2 DEF RunnerSound
<1> QED BY <1>6, <1>7, <1>8, <1>10, <1>11, <1>12, <1>13, <1>14, <1>15 DEF IInv

LEMMA AdoptSaveKeeps ==
    ASSUME IInv, NEW r \in Runners, AdoptSave(r)
    PROVE  IInv'
<1> DEFINE x == run[r]
           a == x.aud
           s == row[a]
           marked == [s EXCEPT !.schedMark = TRUE]
           foreign == [marked EXCEPT !.adopted = TRUE, !.own = TRUE, !.approved = FALSE]
           saved(e) == [e EXCEPT !.camp = x.camp, !.state = "CREATED",
                                 !.waiting = FALSE, !.err = "none"]
<1>1. x.pc = "adoptSave" /\ RestTyped /\ UNCHANGED <<prov, wire>>
  BY DEF AdoptSave, At, IInv, TypeOK, RestTyped
<1>2. a \in Audiences /\ s \in Row /\ TypeOK /\ RunnerSound(r)
  BY <1>1, VersionOf
<1>3. x.camp \in Campaigns
  BY <1>1, <1>2 DEF RunnerSound, RunnerCampaign, OnCampaign
<1>4. marked \in Row /\ marked.claim = s.claim /\ marked.schedMark
  BY <1>2 DEF Row
<1> HIDE DEF marked
<1>5. foreign \in Row /\ foreign.schedMark
  BY <1>4 DEF Row
<1> HIDE DEF foreign
<1>6. \A e \in Row : e.schedMark =>
        LET u == saved(e) IN u \in Row /\ u.camp = x.camp /\ u.claim = e.claim /\ u.schedMark
  BY <1>3 DEF Row, States, Errors
<1>7. \A e \in Row : Released(e) \in Row /\ Released(e).claim = None
                     /\ Released(e).schedMark = e.schedMark /\ Released(e).camp = e.camp
  BY RowEdits
<1>8. \/ \E e \in Row, p \in {"adoptMark", "created"} :
            /\ e.schedMark /\ (e.claim = s.claim \/ e.claim = None)
            /\ s.camp = None /\ row' = [row EXCEPT ![a] = saved(e)] /\ Goto(r, p)
      \/ (row' = [row EXCEPT ![a] = Released(s)] \/ row' = row) /\ Leave(r)
  <2>1. CASE x.ans \notin {"unknown", "DRAFT"}
    BY <1>4, <2>1 DEF AdoptSave, SaveId, NoIdYet, marked
  <2>2. CASE x.ans \in {"unknown", "DRAFT"}
    <3> DEFINE e == Released(IF x.mark THEN marked ELSE foreign)
    <3>1. e \in Row /\ e.schedMark /\ e.claim = None
      BY <1>4, <1>5, <1>7
    <3>2. SaveId(r, s, e, "created", row)
      BY <2>2 DEF AdoptSave, marked, foreign
    <3> QED BY <3>1, <3>2 DEF SaveId, NoIdYet
  <2> QED BY <2>1, <2>2
<1>9. ASSUME NEW e \in Row, NEW p \in {"adoptMark", "created"},
             e.schedMark, e.claim = s.claim \/ e.claim = None, s.camp = None,
             row' = [row EXCEPT ![a] = saved(e)], Goto(r, p)
      PROVE  IInv'
  <2>1. /\ saved(e) \in Row /\ saved(e).camp = x.camp /\ saved(e).schedMark
        /\ saved(e).claim = e.claim /\ x.pc \in OnCampaign
    BY <1>1, <1>6, <1>9 DEF OnCampaign
  <2> HIDE DEF saved
  <2> QED BY <1>1, <1>9, <2>1, SaveKeeps
<1>10. CASE (row' = [row EXCEPT ![a] = Released(s)] \/ row' = row) /\ Leave(r)
  <2>1. RowStill \/ UNCHANGED row
    BY <1>2, <1>7, <1>10, RowEditStill
  <2> QED BY <1>1, <1>10, <2>1, LeaveStep
<1> QED BY <1>8, <1>9, <1>10

LEMMA PersistKeeps ==
    ASSUME IInv, NEW r \in Runners, Persist(r)
    PROVE  IInv'
<1> DEFINE a == run[r].aud
           s == row[a]
           t == [Released(s) EXCEPT !.camp = run[r].camp, !.state = "CREATED",
                                    !.waiting = FALSE, !.err = "none"]
<1>1. run[r].pc = "persist" /\ RestTyped /\ UNCHANGED <<prov, wire>>
  BY DEF Persist, At, IInv, TypeOK, RestTyped
<1>2. a \in Audiences /\ s \in Row /\ RunnerSound(r)
  BY <1>1, VersionOf
<1>3. run[r].camp \in Campaigns /\ Unsaved(run[r].camp, a)
  BY <1>1, <1>2 DEF RunnerSound, RunnerCampaign, OnCampaign, At
<1>4. Released(s) \in Row /\ Released(s).claim = None
  BY <1>2, RowEdits
<1>5. t \in Row /\ t.camp = run[r].camp /\ t.claim = None
  BY <1>3, <1>4 DEF Row, States, Errors
<1>6. CASE s.camp = None /\ row' = [row EXCEPT ![a] = t] /\ Goto(r, "created")
  <2>1. prov[run[r].camp].state = "DRAFT" /\ run[r].pc \in OnCampaign
    BY <1>1, <1>3, <1>6 DEF Unsaved, OnCampaign
  <2> HIDE DEF t
  <2> QED BY <1>1, <1>5, <1>6, <2>1, SaveKeeps
<1>7. CASE UNCHANGED row /\ Leave(r)
  BY <1>1, <1>7, LeaveStep
<1> QED BY <1>6, <1>7 DEF Persist, SaveId, NoIdYet

\* finishStep with a row that keeps its id and marker, and then on to a step that needs
\* no campaign.
LEMMA FinishAndGo ==
    ASSUME IInv, NEW r \in Runners,
           run[r].pc \notin {"idle", "press", "look", "create", "sched"},
           NEW t \in Row, t.camp = row[run[r].aud].camp,
           t.schedMark = row[run[r].aud].schedMark, FinishStep(r, t),
           Goto(r, "scheduled"), UNCHANGED <<prov, wire>>, RestTyped
    PROVE  IInv'
<1>1. run[r].aud \in Audiences /\ TypeOK
  BY VersionOf
<1>2. RowStill
  BY <1>1, FinishIsQuiet
<1>3. PlainNext(r)
  BY <1>1, GotoIsPlain DEF Steps, OnCampaign, FromRow
<1> QED BY <1>2, <1>3, PlainStep, StillIsQuiet

\* The outcomes that steps write on a row change no id and no schedule marker.
LEMMA OutcomeEdits ==
    ASSUME NEW s \in Row
    PROVE  /\ \A t \in ProviderFailures(s) :
                t \in Row /\ t.camp = s.camp /\ t.schedMark = s.schedMark
           /\ \A kind \in {"rejected", "refused", "unknown"} :
                /\ ScheduleFailure(s, kind) \in Row
                /\ ScheduleFailure(s, kind).camp = s.camp
                /\ ScheduleFailure(s, kind).schedMark = s.schedMark
           /\ \A st \in {"SENT", "PARTIALLY_SENT", "SKIPPED"} :
                LET t == [s EXCEPT !.state = st, !.waiting = FALSE] IN
                t \in Row /\ t.camp = s.camp /\ t.schedMark = s.schedMark
           /\ LET t == [s EXCEPT !.state = "FAILED", !.err = "terminal", !.waiting = FALSE] IN
              t \in Row /\ t.camp = s.camp /\ t.schedMark = s.schedMark
           /\ \A w \in BOOLEAN : LET t == [s EXCEPT !.waiting = w] IN
              t \in Row /\ t.camp = s.camp /\ t.schedMark = s.schedMark
<1>1. \A st \in {"SENT", "PARTIALLY_SENT", "SKIPPED"} :
        LET t == [s EXCEPT !.state = st, !.waiting = FALSE] IN
        t \in Row /\ t.camp = s.camp /\ t.schedMark = s.schedMark
  BY DEF Row, States
<1>2. \A st \in States, e \in Errors, w \in BOOLEAN :
        LET t == [s EXCEPT !.state = st, !.err = e, !.waiting = w] IN
        t \in Row /\ t.camp = s.camp /\ t.schedMark = s.schedMark
  BY DEF Row
<1>3. \A w \in BOOLEAN : LET t == [s EXCEPT !.waiting = w] IN
        t \in Row /\ t.camp = s.camp /\ t.schedMark = s.schedMark
  BY DEF Row
<1>4. LET t == [s EXCEPT !.state = "FAILED", !.err = "terminal", !.waiting = FALSE] IN
        t \in Row /\ t.camp = s.camp /\ t.schedMark = s.schedMark
  BY <1>2 DEF States, Errors
<1>5. \A t \in ProviderFailures(s) : t \in Row /\ t.camp = s.camp /\ t.schedMark = s.schedMark
  BY <1>1, <1>4 DEF ProviderFailures
<1>6. \A kind : LET t == ScheduleFailure(s, kind) IN
        t \in Row /\ t.camp = s.camp /\ t.schedMark = s.schedMark
  BY <1>2 DEF ScheduleFailure, States, Errors
<1> QED BY <1>1, <1>3, <1>4, <1>5, <1>6

LEMMA AdoptMarkKeeps ==
    ASSUME IInv, NEW r \in Runners, AdoptMark(r)
    PROVE  IInv'
<1> DEFINE a == run[r].aud
           s == row[a]
           t == [Scheduled(s) EXCEPT !.waiting = FALSE]
<1>1. run[r].pc = "adoptMark" /\ RestTyped /\ UNCHANGED <<prov, wire>>
  BY DEF AdoptMark, At, IInv, TypeOK, RestTyped
<1>2. a \in Audiences /\ s \in Row /\ TypeOK /\ RunnerSound(r) /\ run[r] \in Runner
      /\ run \in [Runners -> Runner]
  BY <1>1, VersionOf
<1>3. Scheduled(s) \in Row /\ Scheduled(s).camp = s.camp /\ Scheduled(s).schedMark = s.schedMark
  BY <1>2, RowEdits
<1>4. t \in Row /\ t.camp = s.camp /\ t.schedMark = s.schedMark
  BY <1>3 DEF Row
<1>5. ASSUME NEW u \in ProviderFailures(s), FinishStep(r, u), Leave(r)
      PROVE  IInv'
  BY <1>1, <1>2, <1>5, OutcomeEdits, FinishAndLeave
<1>6. CASE FinishStep(r, t) /\ Goto(r, "created")
  <2> DEFINE z == [run[r] EXCEPT !.pc = "created"]
  <2>1. RowStill /\ RowQuiet(r)
    BY <1>2, <1>4, <1>6, FinishIsQuiet, StillIsQuiet
  <2>2. z \in Runner /\ z.pc = "created" /\ z.aud = a /\ z.camp = run[r].camp
    BY <1>2 DEF Runner, Steps
  <2>3. run'[r] = z /\ OthersStay(r)
    BY <1>2, <1>6, <2>2 DEF Goto, OthersStay
  <2>4. z.camp \in Campaigns /\ row'[a].camp = z.camp
    BY <1>1, <1>2, <2>1, <2>2 DEF RunnerSound, RunnerCampaign, FromRow, RowStill
  <2>5. WireQuiet(r) /\ CallsOf(r)'
    BY <1>1, NoCall
  <2>6. EntersHolding(r) /\ RunnerSound(r)'
    BY <1>2, <2>2, <2>3, <2>4, <2>5
       DEF EntersHolding, RunnerSound, OnVersion, RunnerCampaign, OnCampaign, FromRow,
           IssuesMarked, MarkerRemembered, At
  <2> QED BY <1>1, <2>1, <2>3, <2>5, <2>6, QuietStep
<1> QED BY <1>5, <1>6 DEF AdoptMark

\* The create call: a request that has not acted yet disturbs nobody.
LEMMA StampKeeps ==
    ASSUME IInv, NEW r \in Runners, Stamp(r)
    PROVE  IInv'
<1> DEFINE a == run[r].aud
           s == row[a]
           t == [s EXCEPT !.createMark = TRUE, !.createSent = TRUE]
           q == [op |-> "create", by |-> r, aud |-> a, camp |-> None,
                 content |-> row[a].content, live |-> TRUE, done |-> FALSE]
<1>1. run[r].pc = "stamp" /\ RestTyped /\ UNCHANGED prov
  BY DEF Stamp, At, IInv, TypeOK, RestTyped
<1>2. a \in Audiences /\ s \in Row /\ TypeOK /\ run[r] \in Runner
      /\ run \in [Runners -> Runner] /\ row \in [Audiences -> Row]
  BY <1>1, VersionOf
<1>3. t \in Row /\ t.camp = s.camp /\ t.schedMark = s.schedMark /\ t.claim = s.claim
  BY <1>2 DEF Row
<1>4. CASE row' = [row EXCEPT ![a] = t] /\ wire' = wire \cup {q} /\ Goto(r, "create")
  <2>1. RowStill /\ RowQuiet(r)
    BY <1>2, <1>3, <1>4, RowEditStill, StillIsQuiet
  <2>2. PlainNext(r) /\ run'[r].pc = "create" /\ run'[r].aud = a
    <3>1. PlainNext(r)
      BY <1>2, <1>4, GotoIsPlain DEF Steps, Claimed, OnCampaign, FromRow
    <3> QED BY <1>2, <1>4, <3>1 DEF Goto, Runner
  <2>3. q \in Request /\ q.op = "create" /\ q.by = r /\ q.aud = a /\ ~q.done
    BY <1>2 DEF Request, Row
  <2>4. \A p \in wire : ~(p.live /\ p.by = r)
    BY <1>1, NoCall
  <2> HIDE DEF q
  <2>5. WireQuiet(r)
    BY <1>2, <1>4, <2>3 DEF WireQuiet, TypeOK
  <2>6. CallsOf(r)'
    BY <1>4, <2>2, <2>3, <2>4 DEF CallsOf
  <2>7. EntersHolding(r) /\ RunnerSound(r)' /\ OthersStay(r)
    BY <2>2, <2>6, PlainIsSound DEF PlainNext
  <2> QED BY <1>1, <2>1, <2>5, <2>7, QuietStep
<1>5. CASE UNCHANGED <<row, wire>> /\ Leave(r)
  BY <1>1, <1>5, LeaveStep
<1>6. Holds(r) => row' = [row EXCEPT ![a] = t]
  BY <1>2 DEF Stamp
<1> QED BY <1>4, <1>5, <1>6 DEF Stamp

\* However a call ends for its caller, no request of his is waited for any more.
LEMMA CallEnds ==
    ASSUME IInv, NEW r \in Runners, NEW op, NEW q \in MyCall(r, op),
           wire' = wire \ {q} \/ GiveUp(q)
    PROVE  /\ WireQuiet(r) /\ \A p \in wire' : ~(p.live /\ p.by = r)
           /\ CallsOf(r)'
           /\ q \in wire /\ q.op = op /\ q.aud = run[r].aud
<1> DEFINE off == [q EXCEPT !.live = FALSE]
<1>1. q \in wire /\ q \in Request /\ q.by = r /\ q.live /\ q.op = op /\ CallsOf(r)
      /\ wire \subseteq Request
  BY DEF MyCall, IInv, TypeOK, RunnerSound
<1>2. \A p \in wire : p.live /\ p.by = r => p = q
  BY <1>1 DEF CallsOf
<1>3. off \in Request /\ ~off.live /\ off.op = q.op /\ off.aud = q.aud /\ off.camp = q.camp
      /\ off.done = q.done
  BY <1>1 DEF Request
<1> HIDE DEF off
<1>4. wire' = wire \ {q} \/ wire' = (wire \ {q}) \cup {off}
  BY DEF GiveUp, off
<1>5. WireQuiet(r)
  BY <1>1, <1>3, <1>4 DEF WireQuiet
<1>6. \A p \in wire' : ~(p.live /\ p.by = r)
  BY <1>2, <1>3, <1>4
<1> QED BY <1>1, <1>5, <1>6 DEF CallsOf

\* A reply after which the runner leaves its version or needs no campaign.
LEMMA ReplyKeeps ==
    ASSUME IInv, NEW r \in Runners, NEW op, NEW q \in MyCall(r, op),
           wire' = wire \ {q} \/ GiveUp(q),
           run[r].pc \in {"create", "sched"},
           NEW t \in Row, t.camp = row[run[r].aud].camp,
           t.schedMark = row[run[r].aud].schedMark, FinishStep(r, t),
           Leave(r) \/ Goto(r, "scheduled"), UNCHANGED prov, RestTyped
    PROVE  IInv'
<1>1. run[r].aud \in Audiences /\ TypeOK
  BY VersionOf
<1>2. RowStill /\ RowQuiet(r)
  BY <1>1, FinishIsQuiet, StillIsQuiet
<1>3. PlainNext(r)
  BY <1>1, LeaveIsPlain, GotoIsPlain DEF Steps, OnCampaign, FromRow
<1>4. WireQuiet(r) /\ CallsOf(r)'
  BY CallEnds
<1>5. EntersHolding(r) /\ RunnerSound(r)' /\ OthersStay(r)
  BY <1>3, <1>4, PlainIsSound DEF PlainNext
<1> QED BY <1>2, <1>4, <1>5, QuietStep

LEMMA CreateReplyKeeps ==
    ASSUME IInv, NEW r \in Runners, CreateReply(r)
    PROVE  IInv'
<1> DEFINE a == run[r].aud
<1>1. run[r].pc = "create" /\ RestTyped /\ UNCHANGED prov
  BY DEF CreateReply, At, IInv, TypeOK, RestTyped
<1>2. a \in Audiences /\ row[a] \in Row /\ TypeOK /\ run[r] \in Runner
      /\ run \in [Runners -> Runner]
  BY <1>1, VersionOf
<1>3. PICK q \in MyCall(r, "create") :
        \/ /\ q.done
           /\ wire' = wire \ {q}
           /\ run' = [run EXCEPT ![r].pc = "persist", ![r].camp = q.camp]
           /\ UNCHANGED row
        \/ /\ wire' = wire \ {q}
           /\ \E kind \in {"rejected", "refused"} :
                \E s \in CreateFailures(row[q.aud], kind, FALSE) : FinishStep(r, s)
           /\ Leave(r)
        \/ /\ GiveUp(q)
           /\ \E s \in CreateFailures(row[q.aud], "unknown", FALSE) : FinishStep(r, s)
           /\ Leave(r)
  BY DEF CreateReply
<1>4. q \in wire /\ q.op = "create" /\ q.aud = a
  <2>1. CallsOf(r) /\ q \in wire /\ q.live /\ q.by = r /\ q.op = "create"
    BY DEF MyCall, IInv, RunnerSound
  <2> QED BY <2>1 DEF CallsOf
<1>5. CASE /\ q.done /\ wire' = wire \ {q} /\ UNCHANGED row
           /\ run' = [run EXCEPT ![r].pc = "persist", ![r].camp = q.camp]
  <2>1. q.camp \in Campaigns /\ prov[q.camp].aud = a /\ Unsaved(q.camp, a)
    BY <1>4, <1>5 DEF IInv, CreateRequests
  <2> DEFINE z == [run[r] EXCEPT !.pc = "persist", !.camp = q.camp]
  <2>2. z \in Runner /\ z.pc = "persist" /\ z.aud = a /\ z.camp = q.camp
    BY <1>2, <2>1 DEF Runner, Steps, Claimed
  <2>3. run'[r] = z /\ OthersStay(r)
    BY <1>2, <1>5, <2>2 DEF OthersStay
  <2>4. WireQuiet(r) /\ CallsOf(r)'
    BY <1>5, CallEnds
  <2>5. EntersHolding(r) /\ RunnerSound(r)'
    BY <1>1, <1>2, <1>5, <2>1, <2>2, <2>3, <2>4
       DEF EntersHolding, RunnerSound, OnVersion, RunnerCampaign, OnCampaign, FromRow,
           IssuesMarked, MarkerRemembered, At, Unsaved
  <2> QED BY <1>1, <1>5, <2>3, <2>4, <2>5, QuietStep, StillIsQuiet
<1>6. ASSUME NEW kind, NEW s \in CreateFailures(row[q.aud], kind, FALSE),
             FinishStep(r, s), Leave(r), wire' = wire \ {q} \/ GiveUp(q)
      PROVE  IInv'
  <2>1. s \in Row /\ s.camp = row[a].camp /\ s.schedMark = row[a].schedMark
    <3>1. s \in CreateFailures(row[a], kind, FALSE)
      BY <1>4
    <3> QED BY <1>2, <3>1, CreateFailureEdits
  <2> QED BY <1>1, <1>6, <2>1, ReplyKeeps
<1> QED BY <1>3, <1>5, <1>6

LEMMA ScheduleReplyKeeps ==
    ASSUME IInv, NEW r \in Runners, ScheduleReply(r)
    PROVE  IInv'
<1> DEFINE s == row[run[r].aud]
<1>1. run[r].pc = "sched" /\ RestTyped /\ UNCHANGED prov
  BY DEF ScheduleReply, At, IInv, TypeOK, RestTyped
<1>2. s \in Row
  BY <1>1, VersionOf
<1>3. PICK q \in MyCall(r, "schedule"),
           t \in {Scheduled(s)} \cup
                 {ScheduleFailure(s, kind) : kind \in {"rejected", "refused", "unknown"}} :
        /\ wire' = wire \ {q} \/ GiveUp(q)
        /\ FinishStep(r, t) /\ (Leave(r) \/ Goto(r, "scheduled"))
  BY DEF ScheduleReply
<1>4. t \in Row /\ t.camp = s.camp /\ t.schedMark = s.schedMark
  <2>1. CASE t = Scheduled(s)
    BY <1>2, <2>1, RowEdits
  <2>2. CASE t \in {ScheduleFailure(s, kind) : kind \in {"rejected", "refused", "unknown"}}
    <3>1. PICK kind \in {"rejected", "refused", "unknown"} : t = ScheduleFailure(s, kind)
      BY <2>2
    <3> QED BY <1>2, <3>1, OutcomeEdits
  <2> QED BY <2>1, <2>2
<1> QED BY <1>1, <1>3, <1>4, ReplyKeeps

-----------------------------------------------------------------------------
(* The schedule                                                            *)

\* A runner whose claim and marker are in place, about to call schedule() for the id
\* its row names, while that row was not marked before: nobody else is calling.
LEMMA FirstMarkAlone ==
    ASSUME IInv, NEW a \in Audiences, ~row[a].schedMark, row[a].camp \in Campaigns
    PROVE  /\ \A q \in Runners : run[q].pc \in {"issue", "sched"} => run[q].aud # a
           /\ \A q \in wire : q.op = "schedule" => q.aud # a
           /\ prov[row[a].camp].state = "DRAFT"
<1>1. \A q \in Runners : IssuesMarked(q)
  BY DEF IInv, RunnerSound
<1> QED BY <1>1, NoneIsNone DEF IInv, IssuesMarked, ScheduleRequests, MarkerIsProof

LEMMA ClaimScheduleKeeps ==
    ASSUME IInv, NEW r \in Runners, ClaimSchedule(r)
    PROVE  IInv'
<1> DEFINE x == run[r]
           a == x.aud
           s == row[a]
           legal1 == s.state = "CREATED" /\ s.camp = x.camp /\ ~s.schedMark
           legal2 == s.state \in {"CREATED", "FAILED"} /\ s.camp = x.camp
           z1 == [x EXCEPT !.pc = "issue", !.mark = FALSE]
           z2 == [x EXCEPT !.pc = "status", !.mark = s.schedMark]
<1>1. x.pc = "claimSched" /\ RestTyped /\ UNCHANGED <<prov, wire>>
  BY DEF ClaimSchedule, At, IInv, TypeOK, RestTyped
<1>2. a \in Audiences /\ s \in Row /\ TypeOK /\ RunnerSound(r) /\ x \in Runner
  BY <1>1, VersionOf
<1>3. x.camp \in Campaigns /\ s.camp = x.camp
  BY <1>1, <1>2 DEF RunnerSound, RunnerCampaign, FromRow
<1>4. WireQuiet(r) /\ CallsOf(r)'
  BY <1>1, NoCall
<1>5. /\ z1 \in Runner /\ z1.pc = "issue" /\ z1.aud = a /\ z1.camp = x.camp
      /\ z2 \in Runner /\ z2.pc = "status" /\ z2.aud = a /\ z2.camp = x.camp
      /\ z2.mark = s.schedMark
  BY <1>2 DEF Runner, Row, Steps, Claimed
<1>6. Marked(s) \in Row /\ Marked(s).camp = s.camp /\ Marked(s).schedMark
  BY <1>2, RowEdits
<1> HIDE DEF z1, z2
<1>7. CASE Claim(r, legal1, Marked(s), z1)
  <2>1. /\ RowQuiet(r) /\ OthersStay(r)
        /\ \/ Leave(r) /\ UNCHANGED row
           \/ /\ legal1 /\ run'[r] = z1 /\ row'[a].claim = r /\ row'[a].schedMark
    <3>1. legal1 \in BOOLEAN
      OBVIOUS
    <3> HIDE DEF legal1
    <3> QED BY <1>2, <1>5, <1>6, <1>7, <3>1, ClaimIsQuiet
  <2>2. CASE Leave(r) /\ UNCHANGED row
    BY <1>1, <2>2, LeaveStep
  <2>3. CASE legal1 /\ run'[r] = z1 /\ row'[a].claim = r /\ row'[a].schedMark
    <3>1. /\ \A q \in Runners : run[q].pc \in {"issue", "sched"} => run[q].aud # a
          /\ \A q \in wire : q.op = "schedule" => q.aud # a
          /\ prov[x.camp].state = "DRAFT"
      BY <1>2, <1>3, <2>3, FirstMarkAlone
    <3>2. row'[a].camp = x.camp
      BY <1>2, <1>3, <2>1 DEF RowQuiet
    <3>3. RunnerCampaign(r)' /\ OnVersion(r)'
      BY <1>2, <1>3, <1>5, <2>3, <3>2 DEF RunnerCampaign, OnVersion, OnCampaign, FromRow, At
    <3>4. IssuesMarked(r)' /\ EntersHolding(r)
      BY <1>5, <2>3 DEF IssuesMarked, EntersHolding
    <3>5. MarkerRemembered(r)'
      BY <1>1, <1>5, <2>1, <2>3, <3>1 DEF MarkerRemembered, At, OthersStay
    <3>6. RunnerSound(r)'
      BY <1>4, <3>3, <3>4, <3>5 DEF RunnerSound
    <3> QED BY <1>1, <1>4, <2>1, <3>4, <3>6, QuietStep
  <2> QED BY <2>1, <2>2, <2>3
<1>8. CASE Claim(r, legal2, s, z2)
  <2>1. /\ RowQuiet(r) /\ OthersStay(r)
        /\ \/ Leave(r) /\ UNCHANGED row
           \/ /\ run'[r] = z2 /\ row'[a].claim = r /\ row'[a].schedMark = s.schedMark
    <3>1. legal2 \in BOOLEAN
      OBVIOUS
    <3> HIDE DEF legal2
    <3> QED BY <1>2, <1>5, <1>8, <3>1, ClaimIsQuiet
  <2>2. CASE Leave(r) /\ UNCHANGED row
    BY <1>1, <2>2, LeaveStep
  <2>3. CASE run'[r] = z2 /\ row'[a].claim = r /\ row'[a].schedMark = s.schedMark
    <3>1. row'[a].camp = x.camp
      BY <1>2, <1>3, <2>1 DEF RowQuiet
    <3>2. EntersHolding(r) /\ OnVersion(r)' /\ RunnerCampaign(r)' /\ IssuesMarked(r)'
          /\ MarkerRemembered(r)'
      BY <1>2, <1>3, <1>5, <2>3, <3>1
         DEF EntersHolding, OnVersion, RunnerCampaign, IssuesMarked, MarkerRemembered,
             OnCampaign, FromRow, At
    <3>3. RunnerSound(r)'
      BY <1>4, <3>2 DEF RunnerSound
    <3> QED BY <1>1, <1>4, <2>1, <3>2, <3>3, QuietStep
  <2> QED BY <2>1, <2>2, <2>3
<1> QED BY <1>7, <1>8 DEF ClaimSchedule, z1, z2

LEMMA GuardRefusesKeeps ==
    ASSUME IInv, NEW r \in Runners, GuardRefuses(r)
    PROVE  IInv'
<1> DEFINE a == run[r].aud
           t == [row[a] EXCEPT !.waiting = TRUE]
<1>1. run[r].pc = "claimSched" /\ RestTyped /\ UNCHANGED <<prov, wire>> /\ Leave(r)
  BY DEF GuardRefuses, At, IInv, TypeOK, RestTyped
<1>2. a \in Audiences /\ row[a] \in Row /\ row \in [Audiences -> Row]
  BY <1>1, VersionOf
<1>3. t \in Row /\ t.camp = row[a].camp /\ t.schedMark = row[a].schedMark /\ t.claim = row[a].claim
  BY <1>2 DEF Row
<1>4. row' = [row EXCEPT ![a] = t]
  BY <1>2 DEF GuardRefuses
<1>5. RowStill
  BY <1>2, <1>3, <1>4, RowEditStill
<1> QED BY <1>1, <1>5, LeaveStep

LEMMA AskStatusKeeps ==
    ASSUME IInv, NEW r \in Runners, AskStatus(r)
    PROVE  IInv'
<1> DEFINE a == run[r].aud
           s == row[a]
<1>1. run[r].pc = "status" /\ RestTyped /\ UNCHANGED <<prov, wire>>
  BY DEF AskStatus, At, IInv, TypeOK, RestTyped
<1>2. a \in Audiences /\ s \in Row /\ TypeOK /\ RunnerSound(r) /\ run[r] \in Runner
      /\ run \in [Runners -> Runner]
  BY <1>1, VersionOf
<1>3. CASE Goto(r, "stampSched") /\ UNCHANGED row
  <2> DEFINE z == [run[r] EXCEPT !.pc = "stampSched"]
  <2>1. z \in Runner /\ z.pc = "stampSched" /\ z.aud = a /\ z.camp = run[r].camp
        /\ z.mark = run[r].mark
    BY <1>2 DEF Runner, Steps, Claimed
  <2>2. run'[r] = z /\ OthersStay(r)
    BY <1>2, <1>3, <2>1 DEF Goto, OthersStay
  <2>3. WireQuiet(r) /\ CallsOf(r)'
    BY <1>1, NoCall
  <2>4. EntersHolding(r) /\ RunnerSound(r)'
    BY <1>1, <1>2, <1>3, <2>1, <2>2, <2>3
       DEF EntersHolding, RunnerSound, OnVersion, RunnerCampaign, OnCampaign, FromRow,
           IssuesMarked, MarkerRemembered, At, Holds
  <2> QED BY <1>1, <1>3, <2>2, <2>3, <2>4, QuietStep, StillIsQuiet
<1>4. ASSUME NEW t \in {ScheduleFailure(s, "unknown")} \cup ProviderFailures(s),
             FinishStep(r, t), Leave(r)
      PROVE  IInv'
  <2>1. t \in Row /\ t.camp = s.camp /\ t.schedMark = s.schedMark
    <3>1. CASE t = ScheduleFailure(s, "unknown")
      BY <1>2, <3>1, OutcomeEdits
    <3>2. CASE t \in ProviderFailures(s)
      BY <1>2, <3>2, OutcomeEdits
    <3> QED BY <3>1, <3>2
  <2> QED BY <1>1, <1>4, <2>1, FinishAndLeave
<1>5. CASE FinishStep(r, Scheduled(s)) /\ Goto(r, "scheduled")
  <2>1. Scheduled(s) \in Row /\ Scheduled(s).camp = s.camp /\ Scheduled(s).schedMark = s.schedMark
    BY <1>2, RowEdits
  <2> QED BY <1>1, <1>5, <2>1, FinishAndGo
<1> QED BY <1>3, <1>4, <1>5 DEF AskStatus

LEMMA StampScheduleKeeps ==
    ASSUME IInv, NEW r \in Runners, StampSchedule(r)
    PROVE  IInv'
<1> DEFINE a == run[r].aud
           s == row[a]
           z == [run[r] EXCEPT !.pc = "issue"]
<1>1. run[r].pc = "stampSched" /\ RestTyped /\ UNCHANGED <<prov, wire>>
  BY DEF StampSchedule, At, IInv, TypeOK, RestTyped
<1>2. a \in Audiences /\ s \in Row /\ TypeOK /\ RunnerSound(r) /\ run[r] \in Runner
      /\ run \in [Runners -> Runner] /\ row \in [Audiences -> Row]
  BY <1>1, VersionOf
<1>3. CASE Holds(r) /\ row' = [row EXCEPT ![a] = Marked(s)] /\ Goto(r, "issue")
  <2>1. Marked(s) \in Row /\ Marked(s).claim = r /\ Marked(s).camp = s.camp /\ Marked(s).schedMark
    BY <1>2, <1>3, RowEdits DEF Holds
  <2>2. row'[a] = Marked(s) /\ RowQuiet(r)
    BY <1>2, <1>3, <2>1 DEF RowQuiet
  <2>3. z \in Runner /\ z.pc = "issue" /\ z.aud = a /\ z.camp = run[r].camp
        /\ z.mark = run[r].mark
    BY <1>2 DEF Runner, Steps, Claimed
  <2>4. run'[r] = z /\ OthersStay(r)
    BY <1>2, <1>3, <2>3 DEF Goto, OthersStay
  <2>5. WireQuiet(r) /\ CallsOf(r)'
    BY <1>1, NoCall
  <2>6. run[r].camp \in Campaigns /\ s.camp = run[r].camp
    BY <1>1, <1>2 DEF RunnerSound, RunnerCampaign, FromRow
  <2>7. ~z.mark =>
          /\ \A q \in Runners : run[q].pc \in {"issue", "sched"} => run[q].aud # a
          /\ \A q \in wire : q.op = "schedule" => q.aud # a
          /\ prov[z.camp].state = "DRAFT"
    <3>1. run[r].mark = s.schedMark
      BY <1>1, <1>2, <1>3 DEF RunnerSound, MarkerRemembered
    <3> QED BY <1>2, <2>3, <2>6, <3>1, FirstMarkAlone
  <2>8. OnVersion(r)' /\ RunnerCampaign(r)' /\ IssuesMarked(r)' /\ EntersHolding(r)
    BY <1>2, <2>1, <2>2, <2>3, <2>4, <2>6
       DEF OnVersion, RunnerCampaign, IssuesMarked, EntersHolding, OnCampaign, FromRow, At
  <2>9. MarkerRemembered(r)'
    BY <1>1, <2>3, <2>4, <2>7 DEF MarkerRemembered, At, OthersStay
  <2>10. RunnerSound(r)'
    BY <2>5, <2>8, <2>9 DEF RunnerSound
  <2> QED BY <1>1, <2>2, <2>4, <2>5, <2>8, <2>10, QuietStep
<1>4. CASE UNCHANGED row /\ Leave(r)
  BY <1>1, <1>4, LeaveStep
<1>5. Holds(r) => row' = [row EXCEPT ![a] = Marked(s)] /\ Goto(r, "issue")
  BY <1>2 DEF StampSchedule
<1> QED BY <1>3, <1>4, <1>5 DEF StampSchedule

\* Past the day the marker a first call wrote is taken back: provably no call was made.
LEMMA MarkerTakenBack ==
    ASSUME IInv, NEW r \in Runners, At(r, "issue"), ~run[r].mark, Holds(r),
           row' = [row EXCEPT ![run[r].aud] =
                     Released([row[run[r].aud] EXCEPT !.schedMark = FALSE])],
           Leave(r), UNCHANGED <<prov, wire>>, RestTyped
    PROVE  IInv'
<1> DEFINE a == run[r].aud
           u == [row[a] EXCEPT !.schedMark = FALSE]
           t == Released(u)
<1>1. run[r].pc = "issue"
  BY DEF At
<1>2. a \in Audiences /\ row[a] \in Row /\ TypeOK /\ RunnerSound(r)
      /\ row \in [Audiences -> Row]
  BY <1>1, VersionOf
<1>3. /\ run[r].camp \in Campaigns /\ row[a].camp = run[r].camp
      /\ \A q \in Runners : q # r /\ run[q].pc \in {"issue", "sched"} => run[q].aud # a
      /\ \A q \in wire : q.op = "schedule" => q.aud # a
      /\ prov[run[r].camp].state = "DRAFT"
  BY <1>1, <1>2 DEF RunnerSound, RunnerCampaign, MarkerRemembered, FromRow
<1>4. u \in Row /\ u.camp = row[a].camp /\ ~u.schedMark
  BY <1>2 DEF Row
<1>5. t \in Row /\ t.camp = row[a].camp /\ t.claim = None
  BY <1>4, RowEdits
<1> HIDE DEF t, u
<1>6. row' = [row EXCEPT ![a] = t] /\ row' \in [Audiences -> Row]
  BY <1>2, <1>5 DEF t, u
<1>7. /\ row'[a].camp = row[a].camp /\ row'[a].claim = None
      /\ \A b \in Audiences : b # a => row'[b] = row[b]
  BY <1>2, <1>5, <1>6
<1>8. PlainNext(r) /\ OthersStay(r)
  BY <1>2, LeaveIsPlain DEF PlainNext
<1>9. TypeOK'
  BY <1>2, <1>6, <1>8 DEF TypeOK, RestTyped, OthersStay
<1>10. ProviderSound' /\ IdsReal' /\ CreateRequests'
  <2>1. \A q \in wire : q.aud \in Audiences
    BY <1>2 DEF TypeOK, Request
  <2>2. \A b \in Audiences : row'[b].camp = row[b].camp
    BY <1>7
  <2>3. ProviderSound' /\ IdsReal'
    BY <2>2 DEF IInv, ProviderSound, IdsReal
  <2>4. CreateRequests'
    BY <2>1, <2>2 DEF IInv, CreateRequests, Unsaved
  <2> QED BY <2>3, <2>4
<1>11. ScheduleRequests'
  BY <1>2, <1>3, <1>7 DEF IInv, ScheduleRequests, TypeOK, Request
<1>12. MarkerIsProof'
  <2>1. \A q \in wire : q.op = "schedule" => q.camp # run[r].camp
    BY <1>2, <1>3, NoneIsNone DEF IInv, ScheduleRequests, IdsReal, TypeOK, Request
  <2> QED BY <1>3, <1>7, <2>1 DEF IInv, MarkerIsProof
<1>13. AcceptedIsSaved'
  <2>1. \A d \in Campaigns : Accepted(d) => prov[d].aud \in Audiences
    BY <1>2 DEF IInv, TypeOK, Campaign, ProviderSound, Accepted
  <2> QED BY <1>7, <2>1 DEF IInv, AcceptedIsSaved, Accepted, RestTyped
<1>14. ASSUME NEW q \in Runners, q # r
       PROVE  RunnerSound(q)'
  <2>1. run'[q] = run[q] /\ RunnerSound(q)
    BY <1>8, <1>14 DEF OthersStay, IInv
  <2>2. run[q].pc \in OnCampaign \cup FromRow => run[q].aud \in Audiences
    BY <2>1 DEF RunnerSound, OnVersion, OnCampaign, FromRow
  <2>3. OnVersion(q)' /\ RunnerCampaign(q)'
    BY <1>7, <2>1, <2>2 DEF RunnerSound, OnVersion, RunnerCampaign, Unsaved, At, OnCampaign
  <2>4. IssuesMarked(q)'
    BY <1>3, <1>7, <1>14, <2>1, <2>2 DEF RunnerSound, IssuesMarked, FromRow
  <2>5. Holds(q)' /\ run[q].aud \in Audiences => run[q].aud # a /\ Holds(q)
    BY <1>7, <2>1, NoneIsNone DEF Holds
  <2>6. MarkerRemembered(q)'
    <3>1. \A p \in Runners : p # q /\ run'[p].pc \in {"issue", "sched"} =>
            run[p].pc \in {"issue", "sched"} /\ run'[p].aud = run[p].aud
      BY <1>8 DEF PlainNext, OthersStay, FromRow
    <3> QED BY <1>7, <2>1, <2>2, <2>5, <3>1 DEF RunnerSound, MarkerRemembered, FromRow, At
  <2>7. CallsOf(q)'
    BY <2>1 DEF RunnerSound, CallsOf
  <2> QED BY <2>3, <2>4, <2>6, <2>7 DEF RunnerSound
<1>15. RunnerSound(r)'
  BY <1>1, <1>8, NoCall, PlainIsSound
<1> QED BY <1>9, <1>10, <1>11, <1>12, <1>13, <1>14, <1>15 DEF IInv

\* The call itself: the row names the campaign and its marker is set.
LEMMA CallKeeps ==
    ASSUME IInv, NEW r \in Runners, At(r, "issue"),
           NEW q \in Request, q.op = "schedule", q.by = r, q.aud = run[r].aud,
           q.camp = run[r].camp, wire' = wire \cup {q}, Goto(r, "sched"),
           UNCHANGED <<row, prov>>, RestTyped
    PROVE  IInv'
<1> DEFINE a == run[r].aud
<1>1. run[r].pc = "issue"
  BY DEF At
<1>2. a \in Audiences /\ TypeOK /\ RunnerSound(r) /\ run[r] \in Runner
      /\ run \in [Runners -> Runner]
  BY <1>1, VersionOf
<1>3. run[r].camp \in Campaigns /\ row[a].camp = run[r].camp /\ row[a].schedMark
  BY <1>1, <1>2 DEF RunnerSound, RunnerCampaign, IssuesMarked, FromRow
<1> DEFINE z == [run[r] EXCEPT !.pc = "sched"]
<1>4. z \in Runner /\ z.pc = "sched" /\ z.aud = a /\ z.camp = run[r].camp
  BY <1>2 DEF Runner, Steps, Claimed
<1>5. run'[r] = z /\ OthersStay(r)
  BY <1>2, <1>4 DEF Goto, OthersStay
<1> HIDE DEF z
<1>6. TypeOK'
  BY <1>2, <1>5 DEF TypeOK, RestTyped, OthersStay
<1>7. ProviderSound' /\ IdsReal' /\ AcceptedIsSaved' /\ CreateRequests'
  BY DEF IInv, ProviderSound, IdsReal, AcceptedIsSaved, Accepted, CreateRequests, Unsaved, RestTyped
<1>8. ScheduleRequests'
  BY <1>3 DEF IInv, ScheduleRequests
<1>9. MarkerIsProof'
  BY <1>2, <1>3, NoneIsNone DEF IInv, MarkerIsProof, IdsReal
<1>10. ASSUME NEW p \in Runners, p # r
       PROVE  RunnerSound(p)'
  <2>1. run'[p] = run[p] /\ RunnerSound(p)
    BY <1>5, <1>10 DEF OthersStay, IInv
  <2>2. OnVersion(p)' /\ RunnerCampaign(p)' /\ IssuesMarked(p)'
    BY <2>1 DEF RunnerSound, OnVersion, RunnerCampaign, IssuesMarked, Unsaved, At
  <2>3. MarkerRemembered(p)'
    BY <1>1, <1>4, <1>5, <1>10, <2>1 DEF RunnerSound, MarkerRemembered, Holds, At, OthersStay
  <2>4. CallsOf(p)'
    BY <1>10, <2>1 DEF RunnerSound, CallsOf
  <2> QED BY <2>2, <2>3, <2>4 DEF RunnerSound
<1>11. RunnerSound(r)'
  <2>1. CallsOf(r)'
    BY <1>1, <1>4, <1>5, NoCall DEF CallsOf
  <2> QED BY <1>2, <1>3, <1>4, <1>5, <2>1
          DEF RunnerSound, OnVersion, RunnerCampaign, IssuesMarked, MarkerRemembered,
              OnCampaign, FromRow, At
<1> QED BY <1>6, <1>7, <1>8, <1>9, <1>10, <1>11 DEF IInv

LEMMA IssueScheduleKeeps ==
    ASSUME IInv, NEW r \in Runners, IssueSchedule(r)
    PROVE  IInv'
<1> DEFINE x == run[r]
           a == x.aud
           u == [row[a] EXCEPT !.schedMark = x.mark]
           q == [op |-> "schedule", by |-> r, aud |-> a, camp |-> x.camp,
                 content |-> 0, live |-> TRUE, done |-> FALSE]
<1>1. x.pc = "issue" /\ At(r, "issue") /\ RestTyped /\ UNCHANGED prov
  BY DEF IssueSchedule, At, IInv, TypeOK, RestTyped
<1>2. a \in Audiences /\ row[a] \in Row /\ x \in Runner /\ TypeOK /\ RunnerSound(r)
  BY <1>1, VersionOf
<1>3. row[a].schedMark
  BY <1>1, <1>2 DEF RunnerSound, IssuesMarked
<1>4. CASE FinishStep(r, u) /\ UNCHANGED wire /\ Leave(r)
  <2>1. CASE x.mark
    <3>1. u \in Row /\ u.camp = row[a].camp /\ u.schedMark = row[a].schedMark
      BY <1>2, <1>3, <2>1 DEF Row, Runner
    <3> HIDE DEF u
    <3> QED BY <1>1, <1>4, <3>1, FinishAndLeave
  <2>2. CASE ~x.mark /\ Holds(r)
    <3>1. u = [row[a] EXCEPT !.schedMark = FALSE]
      BY <1>2, <2>2 DEF Runner
    <3> HIDE DEF u
    <3>2. row' = [row EXCEPT ![a] = Released(u)]
      BY <1>4, <2>2 DEF FinishStep
    <3> QED BY <1>1, <1>4, <2>2, <3>1, <3>2, MarkerTakenBack
  <2>3. CASE ~Holds(r)
    BY <1>1, <1>4, <2>3, LeaveStep DEF FinishStep
  <2> QED BY <2>1, <2>2, <2>3
<1>5. CASE wire' = wire \cup {q} /\ UNCHANGED row /\ Goto(r, "sched")
  <2>1. q \in Request /\ q.op = "schedule" /\ q.by = r /\ q.aud = a /\ q.camp = x.camp
    BY <1>2 DEF Request, Runner
  <2> HIDE DEF q
  <2> QED BY <1>1, <1>5, <2>1, CallKeeps
<1> QED BY <1>4, <1>5 DEF IssueSchedule

-----------------------------------------------------------------------------
(* Verify and the cut-off                                                  *)

\* A claim of the row as it is, for a step that reads the campaign off the row.
LEMMA ClaimToAsk ==
    ASSUME IInv, NEW r \in Runners, run[r].pc \in {"claimVerify", "claimSkip", "claimResolve"},
           NEW legal \in BOOLEAN, NEW p \in {"verify", "skip", "resolve"},
           NEW c \in Campaigns \cup {None},
           Claim(r, legal, row[run[r].aud], [run[r] EXCEPT !.pc = p, !.camp = c]),
           UNCHANGED <<prov, wire>>, RestTyped
    PROVE  IInv'
<1> DEFINE z == [run[r] EXCEPT !.pc = p, !.camp = c]
<1>1. run[r].aud \in Audiences /\ row[run[r].aud] \in Row /\ run[r] \in Runner
  BY VersionOf
<1>2. z \in Runner /\ z.pc \notin OnCampaign \cup FromRow /\ z.aud = run[r].aud
  BY <1>1 DEF Runner, Steps, Claimed, OnCampaign, FromRow
<1> HIDE DEF z
<1>3. Claim(r, legal, row[run[r].aud], z)
  BY DEF z
<1> QED BY <1>1, <1>2, <1>3, ClaimPlainStep

LEMMA ClaimVerifyKeeps ==
    ASSUME IInv, NEW r \in Runners, ClaimVerify(r)
    PROVE  IInv'
<1> DEFINE s == row[run[r].aud]
           legal == s.state = "SCHEDULED"
<1>1. run[r].pc = "claimVerify" /\ RestTyped /\ UNCHANGED <<prov, wire>>
  BY DEF ClaimVerify, At, IInv, TypeOK, RestTyped
<1>2. s.camp \in Campaigns \cup {None}
  BY <1>1, VersionOf DEF Row
<1>3. legal \in BOOLEAN /\ Claim(r, legal, s, [run[r] EXCEPT !.pc = "verify", !.camp = s.camp])
  BY DEF ClaimVerify
<1> HIDE DEF legal
<1> QED BY <1>1, <1>2, <1>3, ClaimToAsk

LEMMA ClaimResolveKeeps ==
    ASSUME IInv, NEW r \in Runners, ClaimResolve(r)
    PROVE  IInv'
<1> DEFINE s == row[run[r].aud]
           legal == s.state \in {"PENDING", "CREATED", "FAILED"}
<1>1. run[r].pc = "claimResolve" /\ RestTyped /\ UNCHANGED <<prov, wire>>
  BY DEF ClaimResolve, At, IInv, TypeOK, RestTyped
<1>2. s.camp \in Campaigns \cup {None}
  BY <1>1, VersionOf DEF Row
<1>3. legal \in BOOLEAN /\ Claim(r, legal, s, [run[r] EXCEPT !.pc = "resolve", !.camp = s.camp])
  BY DEF ClaimResolve
<1> HIDE DEF legal
<1> QED BY <1>1, <1>2, <1>3, ClaimToAsk

LEMMA ClaimSkipKeeps ==
    ASSUME IInv, NEW r \in Runners, ClaimSkip(r)
    PROVE  IInv'
<1> DEFINE s == row[run[r].aud]
           legal == s.state \in {"PENDING", "CREATED", "FAILED"} /\ ~s.schedMark
           z == [run[r] EXCEPT !.pc = "skip"]
<1>1. run[r].pc = "claimSkip" /\ RestTyped /\ UNCHANGED <<prov, wire>>
  BY DEF ClaimSkip, At, IInv, TypeOK, RestTyped
<1>2. run[r].aud \in Audiences /\ s \in Row /\ run[r] \in Runner
  BY <1>1, VersionOf
<1>3. z \in Runner /\ z.pc \notin OnCampaign \cup FromRow /\ z.aud = run[r].aud
  BY <1>2 DEF Runner, Steps, Claimed, OnCampaign, FromRow
<1>4. legal \in BOOLEAN /\ Claim(r, legal, s, z)
  BY DEF ClaimSkip
<1> HIDE DEF legal, z
<1> QED BY <1>1, <1>2, <1>3, <1>4, ClaimPlainStep

\* The outcomes a look at the provider, or the sweep, may write.
LEMMA LastOutcomes ==
    ASSUME NEW s \in Row,
           NEW t, \/ t \in ProviderFailures(s)
                  \/ t = [s EXCEPT !.state = "FAILED", !.err = "terminal", !.waiting = FALSE]
                  \/ t = [s EXCEPT !.waiting = TRUE]
                  \/ \E st \in {"SENT", "PARTIALLY_SENT", "SKIPPED"} :
                        t = [s EXCEPT !.state = st, !.waiting = FALSE]
    PROVE  t \in Row /\ t.camp = s.camp /\ t.schedMark = s.schedMark
<1>1. CASE t \in ProviderFailures(s)
  BY <1>1, OutcomeEdits
<1>2. CASE t = [s EXCEPT !.state = "FAILED", !.err = "terminal", !.waiting = FALSE]
  BY <1>2 DEF Row, States, Errors
<1>3. CASE t = [s EXCEPT !.waiting = TRUE]
  BY <1>3 DEF Row
<1>4. ASSUME NEW st \in {"SENT", "PARTIALLY_SENT", "SKIPPED"},
             t = [s EXCEPT !.state = st, !.waiting = FALSE]
      PROVE  t \in Row /\ t.camp = s.camp /\ t.schedMark = s.schedMark
  BY <1>4 DEF Row, States
<1> QED BY <1>1, <1>2, <1>3, <1>4

LEMMA VerifyKeeps ==
    ASSUME IInv, NEW r \in Runners, Verify(r)
    PROVE  IInv'
<1> DEFINE s == row[run[r].aud]
<1>1. run[r].pc = "verify" /\ RestTyped /\ UNCHANGED <<prov, wire>> /\ Leave(r)
  BY DEF Verify, At, IInv, TypeOK, RestTyped
<1>2. s \in Row
  BY <1>1, VersionOf
<1>3. PICK t : /\ FinishStep(r, t)
               /\ \/ t \in ProviderFailures(s)
                  \/ t = [s EXCEPT !.state = "FAILED", !.err = "terminal", !.waiting = FALSE]
                  \/ t = [s EXCEPT !.waiting = TRUE]
                  \/ \E st \in {"SENT", "PARTIALLY_SENT", "SKIPPED"} :
                        t = [s EXCEPT !.state = st, !.waiting = FALSE]
  <2> DEFINE x == run[r]
             st == prov[x.camp].state
             unconfirmed == IF x.sweep THEN [s EXCEPT !.state = "FAILED", !.err = "terminal",
                                                      !.waiting = FALSE]
                            ELSE [s EXCEPT !.waiting = TRUE]
             outcomes == CASE st = "SENT" -> {[s EXCEPT !.state = "SENT", !.waiting = FALSE],
                                              [s EXCEPT !.state = "PARTIALLY_SENT", !.waiting = FALSE]}
                           [] st = "FAILED" -> ProviderFailures(s)
                           [] OTHER -> {unconfirmed}
  <2>1. PICK t \in outcomes \cup {unconfirmed} : FinishStep(r, t)
    BY DEF Verify
  <2>2. CASE t = unconfirmed
    BY <2>1, <2>2
  <2>3. CASE t \in outcomes
    <3>1. CASE st = "SENT"
      <4>1. t = [s EXCEPT !.state = "SENT", !.waiting = FALSE]
            \/ t = [s EXCEPT !.state = "PARTIALLY_SENT", !.waiting = FALSE]
        BY <2>3, <3>1
      <4> QED BY <2>1, <4>1
    <3>2. CASE st = "FAILED"
      BY <2>1, <2>3, <3>2
    <3>3. CASE st # "SENT" /\ st # "FAILED"
      BY <2>1, <2>2, <2>3, <3>3
    <3> QED BY <3>1, <3>2, <3>3
  <2> QED BY <2>1, <2>2, <2>3
<1>4. t \in Row /\ t.camp = s.camp /\ t.schedMark = s.schedMark
  BY <1>2, <1>3, LastOutcomes
<1> QED BY <1>1, <1>3, <1>4, FinishAndLeave

LEMMA SkipKeeps ==
    ASSUME IInv, NEW r \in Runners, Skip(r)
    PROVE  IInv'
<1> DEFINE s == row[run[r].aud]
           t == [s EXCEPT !.state = "SKIPPED", !.waiting = FALSE]
<1>1. run[r].pc = "skip" /\ RestTyped /\ UNCHANGED <<prov, wire>> /\ Leave(r) /\ FinishStep(r, t)
  BY DEF Skip, At, IInv, TypeOK, RestTyped
<1>2. s \in Row
  BY <1>1, VersionOf
<1>3. t \in Row /\ t.camp = s.camp /\ t.schedMark = s.schedMark
  BY <1>2, LastOutcomes
<1> HIDE DEF t
<1> QED BY <1>1, <1>3, FinishAndLeave

LEMMA ResolveKeeps ==
    ASSUME IInv, NEW r \in Runners, Resolve(r)
    PROVE  IInv'
<1> DEFINE s == row[run[r].aud]
           failed == [s EXCEPT !.state = "FAILED", !.err = "terminal", !.waiting = FALSE]
           skipped == [s EXCEPT !.state = "SKIPPED", !.waiting = FALSE]
<1>1. run[r].pc = "resolve" /\ RestTyped /\ UNCHANGED <<prov, wire>>
  BY DEF Resolve, At, IInv, TypeOK, RestTyped
<1>2. s \in Row
  BY <1>1, VersionOf
<1>3. \/ \E t : FinishStep(r, t) /\ (t = failed \/ t = skipped \/ t \in ProviderFailures(s)) /\ Leave(r)
      \/ FinishStep(r, Scheduled(s)) /\ Goto(r, "scheduled")
  BY DEF Resolve
<1>4. ASSUME NEW t, FinishStep(r, t), t = failed \/ t = skipped \/ t \in ProviderFailures(s), Leave(r)
      PROVE  IInv'
  <2>1. t \in Row /\ t.camp = s.camp /\ t.schedMark = s.schedMark
    BY <1>2, <1>4, LastOutcomes
  <2> QED BY <1>1, <1>4, <2>1, FinishAndLeave
<1>5. CASE FinishStep(r, Scheduled(s)) /\ Goto(r, "scheduled")
  <2>1. Scheduled(s) \in Row /\ Scheduled(s).camp = s.camp /\ Scheduled(s).schedMark = s.schedMark
    BY <1>2, RowEdits
  <2> QED BY <1>1, <1>5, <2>1, FinishAndGo
<1> QED BY <1>3, <1>4, <1>5

\* Every step of a runner keeps the invariant.
LEMMA StepKeeps ==
    ASSUME IInv, NEW r \in Runners, Step(r)
    PROVE  IInv'
BY PressAdvancesKeeps, LookAgainKeeps, RenderKeeps, ConfigInvalidKeeps, LookKeeps,
   ClaimCreateKeeps, LookupKeeps, AdoptKeeps, AdoptSaveKeeps, AdoptMarkKeeps, StampKeeps,
   CreateReplyKeeps, PersistKeeps, ClaimScheduleKeeps, GuardRefusesKeeps, AskStatusKeeps,
   StampScheduleKeeps, IssueScheduleKeeps, ScheduleReplyKeeps, ClaimVerifyKeeps, VerifyKeeps,
   ClaimSkipKeeps, SkipKeeps, ClaimResolveKeeps, ResolveKeeps
   DEF Step

-----------------------------------------------------------------------------
(* Editors, the clock, the provider, and failures                          *)

\* A step of nobody: no runner moves and no id, marker, claim or provider is touched.
LEMMA StillStep ==
    ASSUME IInv, RowStill \/ UNCHANGED row, UNCHANGED <<run, prov>>,
           wire' \subseteq wire, RestTyped
    PROVE  IInv'
<1>1. None \notin Runners
  BY NoneIsNone
<1>2. RowQuiet(None)
  BY StillIsQuiet
<1>3. OthersStay(None) /\ WireQuiet(None)
  BY DEF OthersStay, WireQuiet, IInv, TypeOK
<1> QED BY <1>1, <1>2, <1>3, QuietStep

LEMMA ApproveKeeps ==
    ASSUME IInv, NEW listed \in SUBSET Audiences, Approve(listed)
    PROVE  IInv'
<1>1. \A s \in Row : LET t == [s EXCEPT !.approved = TRUE] IN
        t \in Row /\ t.camp = s.camp /\ t.schedMark = s.schedMark /\ t.claim = s.claim
  BY DEF Row
<1>2. \A a \in Audiences : row[a] \in Row
        /\ (row'[a] = [row[a] EXCEPT !.approved = TRUE] \/ row'[a] = row[a])
  BY DEF Approve, IInv, TypeOK
<1>3. row' \in [Audiences -> Row]
  BY <1>1, <1>2 DEF Approve
<1>4. RowStill
  BY <1>1, <1>2, <1>3 DEF RowStill
<1>5. RestTyped /\ UNCHANGED <<run, prov, wire>>
  BY DEF Approve, RestTyped, IInv, TypeOK
<1> QED BY <1>4, <1>5, StillStep

LEMMA ClockKeeps ==
    ASSUME IInv, Hold \/ ClockMoves \/ SendTimeComes
    PROVE  IInv'
<1>1. RestTyped /\ UNCHANGED <<run, prov, wire>>
  BY DEF Hold, ClockMoves, SendTimeComes, RestTyped, IInv, TypeOK
<1>2. CASE Hold \/ ClockMoves
  BY <1>1, <1>2, StillStep DEF Hold, ClockMoves
<1>3. CASE SendTimeComes
  <2>1. row' = [a \in Audiences |-> IF a \in Audiences THEN [row[a] EXCEPT !.due = TRUE] ELSE row[a]]
    BY <1>3 DEF SendTimeComes
  <2>2. Audiences \in SUBSET Audiences
    OBVIOUS
  <2>3. RowStill
    BY <2>1, <2>2, DueEdits
  <2> QED BY <1>1, <2>3, StillStep
<1> QED BY <1>2, <1>3

LEMMA WaitEndsKeeps ==
    ASSUME IInv, NEW a \in Audiences, WaitEnds(a) \/ ClaimAges(a)
    PROVE  IInv'
<1>1. RestTyped /\ UNCHANGED <<run, prov, wire>>
  BY DEF WaitEnds, ClaimAges, RestTyped, IInv, TypeOK
<1>2. row[a] \in Row /\ row \in [Audiences -> Row]
  BY DEF IInv, TypeOK
<1>3. PICK t \in Row : /\ row' = [row EXCEPT ![a] = t] /\ t.camp = row[a].camp
                       /\ t.schedMark = row[a].schedMark /\ t.claim = row[a].claim
  <2>1. \A t : t = [row[a] EXCEPT !.waiting = FALSE] \/ t = [row[a] EXCEPT !.stale = TRUE] =>
           t \in Row /\ t.camp = row[a].camp /\ t.schedMark = row[a].schedMark
           /\ t.claim = row[a].claim
    BY <1>2 DEF Row
  <2>2. \/ row' = [row EXCEPT ![a] = [row[a] EXCEPT !.waiting = FALSE]]
        \/ row' = [row EXCEPT ![a] = [row[a] EXCEPT !.stale = TRUE]]
    BY <1>2 DEF WaitEnds, ClaimAges
  <2> QED BY <2>1, <2>2
<1> QED BY <1>1, <1>3, RowEditStill, StillStep

LEMMA RequestLostKeeps ==
    ASSUME IInv, NEW q \in wire, RequestLost(q)
    PROVE  IInv'
BY StillStep DEF RequestLost, RestTyped, IInv, TypeOK

LEMMA CrashKeeps ==
    ASSUME IInv, NEW r \in Runners, Crash(r)
    PROVE  IInv'
<1> DEFINE kept == {p \in wire : ~(p.by = r /\ p.done)}
           cut(q) == [q EXCEPT !.live = @ /\ q.by # r]
<1>1. RestTyped /\ UNCHANGED <<row, prov>> /\ wire \subseteq Request
      /\ run \in [Runners -> Runner] /\ crashes \in Nat
  BY DEF Crash, RestTyped, IInv, TypeOK
<1>2. Idle \in Runner /\ Idle.pc = "idle"
  BY DEF Idle, Runner, Steps, Triggers, Answers
<1>3. run' = [run EXCEPT ![r] = Idle] /\ wire' = {cut(q) : q \in kept}
  BY DEF Crash
<1>4. PlainNext(r) /\ OthersStay(r)
  BY <1>1, <1>2, <1>3 DEF PlainNext, OthersStay, OnCampaign, FromRow
<1>5. \A q \in kept : /\ cut(q) \in Request /\ (q.by # r => cut(q) = q)
                      /\ (q.by = r => ~cut(q).live)
                      /\ cut(q).op = q.op /\ cut(q).aud = q.aud /\ cut(q).camp = q.camp
                      /\ cut(q).done = q.done /\ cut(q).by = q.by
  <2> SUFFICES ASSUME NEW q \in kept
               PROVE  /\ cut(q) \in Request /\ (q.by # r => cut(q) = q)
                      /\ (q.by = r => ~cut(q).live)
                      /\ cut(q).op = q.op /\ cut(q).aud = q.aud /\ cut(q).camp = q.camp
                      /\ cut(q).done = q.done /\ cut(q).by = q.by
    OBVIOUS
  <2>1. q \in Request /\ (q.live /\ q.by # r) \in BOOLEAN
    BY <1>1 DEF Request
  <2>2. cut(q) \in Request /\ cut(q).op = q.op /\ cut(q).aud = q.aud /\ cut(q).camp = q.camp
        /\ cut(q).done = q.done /\ cut(q).by = q.by
    BY <2>1 DEF Request
  <2>3. q.by # r => cut(q) = q
    BY <2>1 DEF Request
  <2>4. q.by = r => ~cut(q).live
    BY <2>1 DEF Request
  <2> QED BY <2>2, <2>3, <2>4
<1> HIDE DEF cut
<1>6. WireQuiet(r)
  <2> SUFFICES ASSUME NEW p \in wire'
               PROVE  /\ p \in Request
                      /\ \/ p \in wire
                         \/ ~p.live /\ \E q \in wire : /\ q.op = p.op /\ q.aud = p.aud
                                                      /\ q.camp = p.camp /\ q.done = p.done
    BY DEF WireQuiet
  <2>1. PICK q \in kept : p = cut(q)
    BY <1>3
  <2> QED BY <1>5, <2>1
<1>7. \A p \in wire' : ~(p.live /\ p.by = r)
  BY <1>3, <1>5
<1>8. EntersHolding(r) /\ RunnerSound(r)'
  BY <1>4, <1>7, PlainIsSound DEF CallsOf
<1> QED BY <1>1, <1>4, <1>6, <1>8, QuietStep, StillIsQuiet

\* Fresh rows, written at the freeze.
LEMMA FreshTyped ==
    ASSUME NEW v \in Nat, NEW f \in FreshRows(v)
    PROVE  f \in [Audiences -> Row]
           /\ \A a \in Audiences : f[a].camp = None /\ ~f[a].schedMark /\ f[a].claim = None
<1>1. \A b \in BOOLEAN : /\ FreshRow(b, v) \in Row /\ FreshRow(b, v).camp = None
                         /\ ~FreshRow(b, v).schedMark /\ FreshRow(b, v).claim = None
  BY DEF FreshRow, Row, States, Errors
<1>2. PICK blocked \in SUBSET Audiences : f = [a \in Audiences |-> FreshRow(a \in blocked, v)]
  BY DEF FreshRows
<1>3. \A a \in Audiences : (a \in blocked) \in BOOLEAN
  OBVIOUS
<1> QED BY <1>1, <1>2, <1>3

LEMMA FirstApprovalTyped == FirstApproval \in {"NOT_REQUIRED", "PENDING", "APPROVED", "HELD"}
BY DEF FirstApproval

\* A restore happens with nobody at work and nothing in flight: every obligation of a
\* runner or a request is void, and no row names a campaign.
LEMMA RestoreKeeps ==
    ASSUME IInv, Restore
    PROVE  IInv'
<1>1. /\ \A r \in Runners : run[r].pc = "idle"
      /\ wire = {} /\ restores' = restores + 1 /\ restores \in Nat
      /\ row' \in FreshRows(restores + 1) /\ approval' = FirstApproval
      /\ UNCHANGED <<phase, prov, wire, run, crashes>>
  BY DEF Restore, At, IInv, TypeOK
<1>2. row' \in [Audiences -> Row] /\ \A a \in Audiences : row'[a].camp = None /\ ~row'[a].schedMark
  <2>1. restores + 1 \in Nat
    BY <1>1
  <2> QED BY <1>1, <2>1, FreshTyped
<1>3. TypeOK'
  BY <1>1, <1>2, FirstApprovalTyped DEF IInv, TypeOK
<1>4. ProviderSound' /\ IdsReal' /\ ScheduleRequests' /\ CreateRequests' /\ MarkerIsProof'
  BY <1>1, <1>2 DEF IInv, ProviderSound, IdsReal, ScheduleRequests, CreateRequests, MarkerIsProof
<1>5. AcceptedIsSaved'
  BY <1>1 DEF AcceptedIsSaved
<1>6. \A r \in Runners : RunnerSound(r)'
  BY <1>1 DEF RunnerSound, OnVersion, RunnerCampaign, IssuesMarked, MarkerRemembered, CallsOf,
              OnCampaign, FromRow, At
<1> QED BY <1>3, <1>4, <1>5, <1>6 DEF IInv

LEMMA InitHolds == Init => IInv
<1> SUFFICES ASSUME Init PROVE IInv
  OBVIOUS
<1>1. row \in [Audiences -> Row] /\ \A a \in Audiences : row[a].camp = None
  BY FreshTyped DEF Init
<1>2. Idle \in Runner /\ Idle.pc = "idle"
  BY DEF Idle, Runner, Steps, Triggers, Answers
<1>3. /\ \A r \in Runners : run[r].pc = "idle"
      /\ run \in [Runners -> Runner] /\ wire = {}
  BY <1>2 DEF Init
<1>4. /\ prov \in [Campaigns -> Campaign]
      /\ \A c \in Campaigns : prov[c].aud = None /\ prov[c].state = "NONE"
  BY DEF Init, Campaign
<1>5. TypeOK
  BY <1>1, <1>3, <1>4, FirstApprovalTyped DEF Init, TypeOK
<1>6. /\ ProviderSound /\ IdsReal /\ ScheduleRequests /\ CreateRequests /\ MarkerIsProof
      /\ AcceptedIsSaved
  BY <1>1, <1>3, <1>4 DEF ProviderSound, IdsReal, ScheduleRequests, CreateRequests,
                          MarkerIsProof, AcceptedIsSaved, Accepted
<1>7. \A r \in Runners : RunnerSound(r)
  BY <1>3 DEF RunnerSound, OnVersion, RunnerCampaign, IssuesMarked, MarkerRemembered, CallsOf,
              OnCampaign, FromRow, At
<1> QED BY <1>5, <1>6, <1>7 DEF IInv

\* The provider takes a create: the new campaign is a draft nobody has referred to yet.
LEMMA CreateActsKeeps ==
    ASSUME IInv, NEW q \in wire, q.op = "create", ~q.done,
           NEW c \in Campaigns, prov[c].state = "NONE",
           prov' = [prov EXCEPT ![c] = [aud |-> q.aud, state |-> "DRAFT", content |-> q.content]],
           wire' = (wire \ {q}) \cup (IF q.live THEN {[q EXCEPT !.done = TRUE, !.camp = c]} ELSE {}),
           UNCHANGED <<row, run>>, RestTyped
    PROVE  IInv'
<1> DEFINE e == [q EXCEPT !.done = TRUE, !.camp = c]
<1>1. /\ TypeOK /\ q \in Request /\ q.aud \in Audiences /\ q.aud # None
      /\ wire \subseteq Request /\ prov \in [Campaigns -> Campaign]
  BY NoneIsNone DEF IInv, TypeOK, Request
<1>2. e \in Request /\ e.op = "create" /\ e.aud = q.aud /\ e.by = q.by /\ e.live = q.live
      /\ e.camp = c /\ e.done
  BY <1>1 DEF Request
<1> HIDE DEF e
<1>3. \A p \in wire' : p \in wire \ {q} \/ (p = e /\ q.live)
  BY DEF e
<1>4. /\ prov' \in [Campaigns -> Campaign]
      /\ prov'[c].aud = q.aud /\ prov'[c].state = "DRAFT"
      /\ \A d \in Campaigns : d # c => prov'[d] = prov[d]
  <2>1. [aud |-> q.aud, state |-> "DRAFT", content |-> q.content] \in Campaign
    BY <1>1 DEF Campaign, Request, Answers
  <2> QED BY <1>1, <2>1
<1>5. prov[c].aud = None
  BY DEF IInv, ProviderSound
<1>6. TypeOK'
  BY <1>1, <1>2, <1>3, <1>4 DEF TypeOK, RestTyped
<1>7. ProviderSound'
  BY <1>1, <1>4 DEF IInv, ProviderSound
<1>8. \A a \in Audiences : row[a].camp # None => row[a].camp \in Campaigns /\ row[a].camp # c
  BY <1>1, <1>5, NoneIsNone DEF IInv, IdsReal, TypeOK, Row
<1>9. IdsReal'
  BY <1>4, <1>8 DEF IInv, IdsReal
<1>10. ScheduleRequests'
  BY <1>2, <1>3 DEF IInv, ScheduleRequests
<1>11. CreateRequests'
  <2>1. ASSUME NEW p \in wire', p.op = "create", p.done
        PROVE  p.camp \in Campaigns /\ prov'[p.camp].aud = p.aud
               /\ (row[p.aud].camp = None => prov'[p.camp].state = "DRAFT")
    <3>1. CASE p = e
      BY <1>2, <1>4, <3>1
    <3>2. CASE p \in wire
      <4>1. p.camp \in Campaigns /\ prov[p.camp].aud = p.aud /\ Unsaved(p.camp, p.aud)
        BY <2>1, <3>2 DEF IInv, CreateRequests
      <4>2. p.aud # None
        BY <1>1, <3>2, NoneIsNone DEF Request
      <4> QED BY <1>4, <1>5, <4>1, <4>2 DEF Unsaved
    <3> QED BY <1>3, <3>1, <3>2
  <2> QED BY <2>1 DEF CreateRequests, Unsaved
<1>12. MarkerIsProof'
  BY <1>2, <1>3, <1>4, <1>8 DEF IInv, MarkerIsProof
<1>13. AcceptedIsSaved'
  BY <1>4 DEF IInv, AcceptedIsSaved, Accepted, RestTyped
<1>14. ASSUME NEW r \in Runners
       PROVE  RunnerSound(r)'
  <2>1. RunnerSound(r)
    BY DEF IInv
  <2>2. run[r].pc \in OnCampaign \cup FromRow =>
          run[r].aud \in Audiences /\ run[r].camp \in Campaigns /\ run[r].camp # c
    BY <1>5, <1>8, <2>1, NoneIsNone
       DEF RunnerSound, OnVersion, RunnerCampaign, OnCampaign, FromRow
  <2>3. OnVersion(r)' /\ IssuesMarked(r)'
    BY <2>1 DEF RunnerSound, OnVersion, IssuesMarked
  <2>4. RunnerCampaign(r)'
    BY <1>4, <2>1, <2>2 DEF RunnerSound, RunnerCampaign, Unsaved, At, OnCampaign
  <2>5. MarkerRemembered(r)'
    <3>1. \A p \in wire' : p.op = "schedule" => p \in wire
      BY <1>2, <1>3
    <3> QED BY <1>4, <2>1, <2>2, <3>1 DEF RunnerSound, MarkerRemembered, Holds, At, FromRow
  <2>6. CallsOf(r)'
    BY <1>2, <1>3, <2>1 DEF RunnerSound, CallsOf
  <2> QED BY <2>3, <2>4, <2>5, <2>6 DEF RunnerSound
<1> QED BY <1>6, <1>7, <1>9, <1>10, <1>11, <1>12, <1>13, <1>14 DEF IInv

\* The provider answers for a campaign it was asked to schedule, or delivers one that it
\* accepted: only that campaign's state changes, and its row names and marked it.
LEMMA CampaignMovesKeeps ==
    ASSUME IInv, NEW c \in Campaigns,
           \/ prov' = prov
           \/ /\ \E st \in {"SCHEDULED", "SENT", "FAILED"} : prov' = [prov EXCEPT ![c].state = st]
              /\ \/ prov[c].state = "SCHEDULED"
                 \/ prov[c].state = "DRAFT" /\ \E q \in wire : q.op = "schedule" /\ q.camp = c,
           \A p \in wire' : p \in Request /\ \E q \in wire :
               /\ q.op = p.op /\ q.aud = p.aud /\ q.camp = p.camp
               /\ p = q \/ p.op = "schedule",
           \A r \in Runners : CallsOf(r)',
           UNCHANGED <<row, run>>, RestTyped
    PROVE  IInv'
<1>1. TypeOK /\ prov[c] \in Campaign /\ prov \in [Campaigns -> Campaign] /\ wire \subseteq Request
  BY DEF IInv, TypeOK
<1>2. /\ prov' \in [Campaigns -> Campaign] /\ prov'[c].aud = prov[c].aud
      /\ \A d \in Campaigns : d # c => prov'[d] = prov[d]
      /\ \/ prov'[c] = prov[c]
         \/ /\ prov'[c].state \in {"SCHEDULED", "SENT", "FAILED"}
            /\ \/ prov[c].state = "SCHEDULED"
               \/ prov[c].state = "DRAFT" /\ \E q \in wire : q.op = "schedule" /\ q.camp = c
  <2>1. CASE prov' = prov
    BY <1>1, <2>1
  <2>2. ASSUME NEW st \in {"SCHEDULED", "SENT", "FAILED"}, prov' = [prov EXCEPT ![c].state = st]
        PROVE  /\ prov' \in [Campaigns -> Campaign] /\ prov'[c].aud = prov[c].aud
               /\ prov'[c].state = st /\ \A d \in Campaigns : d # c => prov'[d] = prov[d]
    <3> DEFINE e == [prov[c] EXCEPT !.state = st]
    <3>1. e \in Campaign /\ e.aud = prov[c].aud /\ e.state = st
      BY <1>1 DEF Campaign, Answers
    <3>2. prov' = [prov EXCEPT ![c] = e]
      BY <1>1, <2>2
    <3> HIDE DEF e
    <3> QED BY <1>1, <3>1, <3>2
  <2> QED BY <2>1, <2>2
<1>3. \A d \in Campaigns : prov'[d].aud = prov[d].aud
  BY <1>2
<1>4. \A a \in Audiences : row[a].camp # None =>
        row[a].camp \in Campaigns /\ prov[row[a].camp].aud = a
  BY <1>1 DEF IInv, IdsReal, TypeOK, Row
<1>5. \A q \in wire : q.op = "schedule" =>
        /\ q.aud \in Audiences /\ q.camp \in Campaigns /\ prov[q.camp].aud = q.aud
        /\ row[q.aud].camp = q.camp /\ row[q.aud].schedMark
  BY <1>1, <1>4, NoneIsNone DEF IInv, ScheduleRequests, Request
<1>6. \/ prov'[c] = prov[c]
      \/ /\ prov'[c].state \in {"SCHEDULED", "SENT", "FAILED"}
         /\ prov[c].state # "NONE" /\ prov[c].aud \in Audiences
         /\ \/ prov[c].state = "SCHEDULED"
            \/ /\ row[prov[c].aud].camp = c /\ row[prov[c].aud].schedMark
               /\ \E q \in wire : q.op = "schedule" /\ q.aud = prov[c].aud
  BY <1>1, <1>2, <1>5, NoneIsNone DEF IInv, ProviderSound, Campaign
<1>7. TypeOK'
  BY <1>1, <1>2 DEF TypeOK, RestTyped
<1>8. ProviderSound'
  BY <1>2, <1>3, <1>6, NoneIsNone DEF IInv, ProviderSound
<1>9. IdsReal'
  BY <1>3, <1>4 DEF IdsReal
<1>10. ScheduleRequests'
  BY DEF IInv, ScheduleRequests
  \* A draft of a version whose row names none stays a draft.
<1>11. \A d \in Campaigns : LET a == prov[d].aud IN
         a \in Audiences /\ row[a].camp = None /\ prov[d].state = "DRAFT" => prov'[d].state = "DRAFT"
  BY <1>2, <1>6, NoneIsNone
<1>12. CreateRequests'
  <2>1. \A p \in wire' : p.op = "create" => p \in wire /\ p.aud \in Audiences
    BY <1>1 DEF Request
  <2> QED BY <1>3, <1>11, <2>1 DEF IInv, CreateRequests, Unsaved
  \* The campaign of a row that is not marked does not move.
<1>13. \A a \in Audiences : row[a].camp # None /\ ~row[a].schedMark => prov'[row[a].camp].state = "DRAFT"
  <2>1. \A a \in Audiences : row[a].camp # None /\ ~row[a].schedMark => prov[row[a].camp].state = "DRAFT"
    BY DEF IInv, MarkerIsProof
  <2> QED BY <1>2, <1>4, <1>6, <2>1
<1>14. MarkerIsProof'
  BY <1>13 DEF IInv, MarkerIsProof
<1>15. AcceptedIsSaved'
  <2>1. restores = 0 => \A d \in Campaigns : Accepted(d) => row[prov[d].aud].camp = d
    BY DEF IInv, AcceptedIsSaved
  <2>2. ASSUME restores = 0, NEW d \in Campaigns, Accepted(d)'
        PROVE  row[prov[d].aud].camp = d
    <3>1. CASE Accepted(d)
      BY <2>1, <2>2, <3>1
    <3>2. CASE ~Accepted(d)
      <4>1. d = c /\ prov'[c] # prov[c] /\ prov[c].state # "SCHEDULED"
        BY <1>2, <2>2, <3>2 DEF Accepted
      <4> QED BY <1>6, <4>1
    <3> QED BY <3>1, <3>2
  <2> QED BY <1>3, <2>2 DEF AcceptedIsSaved, Accepted, RestTyped
<1>16. ASSUME NEW r \in Runners
       PROVE  RunnerSound(r)'
  <2>1. RunnerSound(r)
    BY DEF IInv
  <2>2. run[r].pc \in OnCampaign \cup FromRow =>
          run[r].aud \in Audiences /\ run[r].camp \in Campaigns
    BY <2>1 DEF RunnerSound, OnVersion, RunnerCampaign, OnCampaign, FromRow
  <2>3. OnVersion(r)' /\ IssuesMarked(r)'
    BY <2>1 DEF RunnerSound, OnVersion, IssuesMarked
  <2>4. RunnerCampaign(r)'
    BY <1>3, <1>11, <2>1, <2>2 DEF RunnerSound, RunnerCampaign, Unsaved, At, OnCampaign
  <2>5. MarkerRemembered(r)'
    <3>1. ASSUME At(r, "issue"), ~run[r].mark, Holds(r)
          PROVE  /\ \A p \in wire' : p.op = "schedule" => p.aud # run[r].aud
                 /\ prov'[run[r].camp].state = "DRAFT"
      <4>1. /\ \A q \in wire : q.op = "schedule" => q.aud # run[r].aud
            /\ prov[run[r].camp].state = "DRAFT"
            /\ row[run[r].aud].camp = run[r].camp
        BY <2>1, <3>1 DEF RunnerSound, MarkerRemembered, RunnerCampaign, At, FromRow
      <4>2. run[r].aud \in Audiences /\ run[r].camp \in Campaigns /\ run[r].camp # None
        BY <2>2, <3>1, NoneIsNone DEF At, FromRow
      <4>3. prov[run[r].camp].aud = run[r].aud
        BY <1>4, <4>1, <4>2
      <4> QED BY <1>2, <1>6, <4>1, <4>2, <4>3
    <3> QED BY <2>1, <3>1 DEF RunnerSound, MarkerRemembered, Holds, At
  <2> QED BY <2>3, <2>4, <2>5 DEF RunnerSound
<1> QED BY <1>7, <1>8, <1>9, <1>10, <1>12, <1>14, <1>15, <1>16 DEF IInv

LEMMA DeliveredKeeps ==
    ASSUME IInv, NEW c \in Campaigns, Delivered(c)
    PROVE  IInv'
<1>1. UNCHANGED <<row, run, wire>> /\ RestTyped /\ wire \subseteq Request
      /\ \A r \in Runners : CallsOf(r)
  BY DEF Delivered, RestTyped, IInv, TypeOK, RunnerSound
<1>2. \A r \in Runners : CallsOf(r)'
  BY <1>1 DEF CallsOf
<1>3. prov[c].state = "SCHEDULED"
      /\ \E st \in {"SCHEDULED", "SENT", "FAILED"} : prov' = [prov EXCEPT ![c].state = st]
  BY DEF Delivered
<1> QED BY <1>1, <1>2, <1>3, CampaignMovesKeeps

LEMMA ScheduleActsKeeps ==
    ASSUME IInv, NEW q \in wire, q.op = "schedule",
           prov' = IF prov[q.camp].state = "DRAFT"
                   THEN [prov EXCEPT ![q.camp].state = "SCHEDULED"] ELSE prov,
           wire' = (wire \ {q}) \cup (IF q.live THEN {[q EXCEPT !.done = TRUE]} ELSE {}),
           UNCHANGED <<row, run>>, RestTyped
    PROVE  IInv'
<1> DEFINE e == [q EXCEPT !.done = TRUE]
<1>1. q \in Request /\ wire \subseteq Request /\ q.camp \in Campaigns
      /\ \A r \in Runners : CallsOf(r)
  BY DEF IInv, TypeOK, ScheduleRequests, RunnerSound
<1>2. e \in Request /\ e.op = q.op /\ e.aud = q.aud /\ e.camp = q.camp /\ e.by = q.by
      /\ e.live = q.live
  BY <1>1 DEF Request
<1> HIDE DEF e
<1>3. \A p \in wire' : p \in wire \ {q} \/ (p = e /\ q.live)
  BY DEF e
<1>4. \A r \in Runners : CallsOf(r)'
  BY <1>1, <1>2, <1>3 DEF CallsOf
<1>5. \A p \in wire' : p \in Request /\ \E s \in wire :
        /\ s.op = p.op /\ s.aud = p.aud /\ s.camp = p.camp
        /\ p = s \/ p.op = "schedule"
  BY <1>1, <1>2, <1>3
<1> QED BY <1>1, <1>4, <1>5, CampaignMovesKeeps

LEMMA ProviderActsKeeps ==
    ASSUME IInv, NEW q \in wire, ProviderActs(q)
    PROVE  IInv'
<1>1. UNCHANGED <<row, run>> /\ RestTyped
  BY DEF ProviderActs, RestTyped, IInv, TypeOK
<1> QED BY <1>1, CreateActsKeeps, ScheduleActsKeeps DEF ProviderActs

-----------------------------------------------------------------------------
(* The theorems                                                            *)

\* IInv is inductive: no step of any runner, editor, clock, crash, restore or of the
\* provider breaks it.
LEMMA NextKeeps == IInv /\ [Next]_vars => IInv'
<1> SUFFICES ASSUME IInv, [Next]_vars PROVE IInv'
  OBVIOUS
<1>1. CASE UNCHANGED vars
  BY <1>1, StillStep DEF vars, RestTyped, IInv, TypeOK
<1>2. CASE Next
  BY <1>2, StepKeeps, CrashKeeps, StartKeeps, PressSendFreeKeeps, ApproveKeeps, ClockKeeps,
     RestoreKeeps, WaitEndsKeeps, ProviderActsKeeps, RequestLostKeeps, DeliveredKeeps
     DEF Next
<1> QED BY <1>1, <1>2

\* The invariant holds in every state, for any number of runners, versions, campaigns,
\* crashes and restores, with or without a lookup, late calls and slow steps.
THEOREM Invariance == Spec => []IInv
BY InitHolds, NextKeeps, PTL DEF Spec

\* Every state of the digest's send machine is well typed.
THEOREM TypeCorrect == Spec => []TypeOK
<1>1. IInv => TypeOK
  BY DEF IInv
<1> QED BY <1>1, Invariance, PTL

\* The governing principle of runner.ts: a saved campaign whose scheduleAttemptedAt is
\* null is still a draft at the provider, and no schedule() for it is under way, however
\* many runners overlap, crash, or lose replies.
THEOREM MarkerSafety == Spec => []MarkerIsProof
<1>1. IInv => MarkerIsProof
  BY DEF IInv
<1> QED BY <1>1, Invariance, PTL

\* One digest a day per version: as long as the database was not put back to a backup,
\* at most one of a version's campaigns ever left DRAFT, whatever overlapped, crashed,
\* timed out or answered late.
THEOREM OneCampaign == Spec => [](restores = 0 => OneCampaignAccepted)
<1>1. IInv => (restores = 0 => OneCampaignAccepted)
  BY DEF IInv, AcceptedIsSaved, OneCampaignAccepted
<1> QED BY <1>1, Invariance, PTL
=============================================================================
