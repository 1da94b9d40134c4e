-------------------------- MODULE DigestRecordProofs --------------------------
(***************************************************************************)
(* What the digest's record owes the mail and the editor, for every value  *)
(* of the constants: a version reported as sent was accepted and stays so, *)
(* nothing goes out that its gate did not let through, and no draft with   *)
(* another build's content goes out unseen. Most steps only tidy a row     *)
(* (Tidy); TidyKeeps shows once that such a step keeps RecordInv.          *)
(***************************************************************************)
EXTENDS DigestSendProofs

Reported == {"SENT", "PARTIALLY_SENT"}

\* Row s becomes t as a step of r may leave it: its campaign and content stay, once it
\* has a campaign so does what an editor was shown and said of it; it is reported as
\* sent, or handed over, only with an accepted campaign, and never reopened.
Calm(s, t, r) ==
    /\ t.camp = s.camp /\ t.content = s.content
    /\ s.camp # None => /\ t.own = s.own /\ t.adopted = s.adopted
                        /\ s.approved => t.approved
    /\ s.state \in Reported => t.state = s.state
    /\ t.state \in Reported => s.state \in Reported \/ t.claim = None
    /\ t.claim \in {s.claim, None, r}
    /\ HandedOver(t) => HandedOver(s) \/ (s.camp \in Campaigns /\ Accepted(s.camp))

Tidy(s, t, r) == Calm(s, t, r) /\ (t.createSent => s.createSent)

CalmRows(r) == \A a \in Audiences : Calm(row[a], row'[a], r)
TidyRows(r) == \A a \in Audiences : Tidy(row[a], row'[a], r)

\* Requests only end or lose their caller, or are new schedule() calls.
WireTidy ==
    \A p \in wire' :
        \/ \E q \in wire : /\ q.op = p.op /\ q.aud = p.aud /\ q.camp = p.camp
                           /\ q.content = p.content /\ q.done = p.done
        \/ p.op = "schedule" /\ ~p.done

-----------------------------------------------------------------------------
(* Steps that tidy rows                                                    *)

\* What a runner that did not move knows stays true.
LEMMA OtherRecord ==
    ASSUME IInv, RecordInv, NEW r, CalmRows(r), UNCHANGED prov,
           NEW q \in Runners, q # r, run'[q] = run[q]
    PROVE  RunnerRecord(q)'
<1> DEFINE a == run[q].aud
<1>1. /\ RunnerSound(q) /\ RunnerRecord(q)
      /\ run[q].pc \notin {"idle", "press", "look"} => a \in Audiences
  BY NoneIsNone DEF IInv, RecordInv, RunnerSound, OnVersion
<1>2. ASSUME a \in Audiences PROVE Calm(row[a], row'[a], r)
  BY <1>2 DEF CalmRows
<1>3. HolderFindsOpen(q)'
  BY <1>1, <1>2, NoneIsNone DEF RunnerRecord, HolderFindsOpen, Holds, Calm, Reported, Claimed
<1>4. AsksItsRow(q)'
  BY <1>1, <1>2 DEF RunnerRecord, AsksItsRow, At, Calm, Accepted
<1>5. KnowsContent(q)'
  BY <1>1, <1>2 DEF RunnerRecord, KnowsContent, At, Calm, NamedOurs, Named
<1>6. Gated(q)'
  <2>1. run[q].pc \in {"claimSched", "status", "stampSched", "issue"} =>
          row[a].camp # None /\ a \in Audiences
    BY <1>1, NoneIsNone DEF RunnerSound, RunnerCampaign, FromRow
  <2>2. GatePassed(a) /\ row[a].camp # None /\ a \in Audiences => GatePassed(a)'
    BY <1>2 DEF Calm, GatePassed, AwaitingOwnApproval
  <2> QED BY <1>1, <1>2, <2>1, <2>2 DEF RunnerRecord, Gated, Calm
<1> QED BY <1>3, <1>4, <1>5, <1>6 DEF RunnerRecord

\* A step that tidies rows keeps RecordInv if its runner knows what it must.
LEMMA TidyKeeps ==
    ASSUME IInv, RecordInv, NEW r, TidyRows(r), UNCHANGED prov, WireTidy,
           \A q \in Runners : q # r => run'[q] = run[q],
           wire' \subseteq Request,
           r \in Runners => RunnerRecord(r)'
    PROVE  RecordInv'
<1>1. HandedOverAccepted'
  BY DEF RecordInv, HandedOverAccepted, TidyRows, Tidy, Calm, Accepted
<1>2. DoneSchedules'
  BY DEF RecordInv, DoneSchedules, WireTidy, Accepted
<1>3. CreatesOurs'
  <2>1. \A q \in wire' : q.op = "create" => q.content = row'[q.aud].content /\
                            (q.done => prov'[q.camp].content = q.content)
    BY DEF RecordInv, CreatesOurs, WireTidy, TidyRows, Tidy, Calm, Request
  <2>2. \A a \in Audiences : HasLookup /\ row'[a].createSent => NamedOurs(a)'
    BY DEF RecordInv, CreatesOurs, TidyRows, Tidy, Calm, NamedOurs, Named
  <2> QED BY <2>1, <2>2 DEF CreatesOurs
<1>4. DraftsSeen'
  BY DEF RecordInv, DraftsSeen, TidyRows, Tidy, Calm, Accepted
<1>5. \A q \in Runners : RunnerRecord(q)'
  <2>1. CalmRows(r)
    BY DEF CalmRows, TidyRows, Tidy
  <2> QED BY <2>1, OtherRecord
<1> QED BY <1>1, <1>2, <1>3, <1>4, <1>5 DEF RecordInv
\* A runner outside the claimed steps, and not past a gate, owes nothing.
Resting == Steps \ (Claimed \cup {"claimSched", "claimResolve"})

LEMMA RestingRecord ==
    ASSUME NEW r \in Runners, run'[r].pc \in Resting
    PROVE  RunnerRecord(r)'
BY DEF Resting, RunnerRecord, HolderFindsOpen, AsksItsRow, KnowsContent, Gated, Claimed, At

LEMMA TidyRests ==
    ASSUME IInv, RecordInv, NEW r \in Runners, TidyRows(r), UNCHANGED prov, WireTidy,
           wire' \subseteq Request,
           Leave(r) \/ \E p \in Resting : Goto(r, p)
    PROVE  RecordInv'
<1>1. run \in [Runners -> Runner] /\ run[r] \in Runner
  BY DEF IInv, TypeOK
<1>2. CASE Leave(r)
  <2>1. Left(run[r]).pc \in {"idle", "look"}
    BY <1>1, LeftTyped
  <2>2. run'[r].pc \in Resting /\ \A q \in Runners : q # r => run'[q] = run[q]
    BY <1>1, <1>2, <2>1 DEF Leave, Resting, Steps, Claimed
  <2> QED BY <2>2, RestingRecord, TidyKeeps
<1>3. CASE \E p \in Resting : Goto(r, p)
  <2>1. run'[r].pc \in Resting /\ \A q \in Runners : q # r => run'[q] = run[q]
    BY <1>1, <1>3 DEF Goto, Runner
  <2> QED BY <2>1, RestingRecord, TidyKeeps
<1> QED BY <1>2, <1>3

LEMMA StillTidy ==
    ASSUME IInv, NEW r
    PROVE  /\ UNCHANGED row => TidyRows(r)
           /\ UNCHANGED wire => WireTidy /\ wire' \subseteq Request
BY DEF TidyRows, Tidy, Calm, WireTidy, IInv, TypeOK

\* What the steps write: progress, errors and markers, never a campaign or an editor's word.
Plain(s, t) ==
    /\ t \in Row
    /\ t.camp = s.camp /\ t.content = s.content
    /\ t.own = s.own /\ t.adopted = s.adopted /\ t.approved = s.approved
    /\ t.createSent => s.createSent
    /\ t.claim = s.claim

\* A holder's last write tidies its row, if what it hands over was accepted.
LEMMA FinishTidies ==
    ASSUME IInv, RecordInv, NEW r \in Runners, run[r].pc \in Claimed,
           NEW t, Plain(row[run[r].aud], t), FinishStep(r, t),
           HandedOver(t) => \/ HandedOver(row[run[r].aud])
                            \/ /\ row[run[r].aud].camp \in Campaigns
                               /\ Accepted(row[run[r].aud].camp)
    PROVE  TidyRows(r)
<1> DEFINE a == run[r].aud
<1>1. a \in Audiences /\ row \in [Audiences -> Row] /\ row[a] \in Row
  BY VersionOf DEF Claimed
<1>2. CASE Holds(r)
  <2>1. row' = [row EXCEPT ![a] = Released(t)]
    BY <1>2 DEF FinishStep
  <2>2. row[a].state \notin Reported
    BY <1>2 DEF RecordInv, RunnerRecord, HolderFindsOpen, Reported
  <2>3. /\ Released(t).claim = None /\ Released(t).camp = t.camp
        /\ Released(t).content = t.content /\ Released(t).own = t.own
        /\ Released(t).adopted = t.adopted /\ Released(t).approved = t.approved
        /\ Released(t).createSent = t.createSent /\ Released(t).state = t.state
    BY DEF Released, Plain, Row
  <2>4. Tidy(row[a], Released(t), r)
    BY <1>1, <2>2, <2>3 DEF Tidy, Calm, Plain, HandedOver
  <2>5. \A b \in Audiences : b # a => Tidy(row[b], row[b], r)
    BY DEF Tidy, Calm
  <2> QED BY <1>1, <2>1, <2>4, <2>5 DEF TidyRows
<1>3. CASE ~Holds(r)
  BY <1>3, StillTidy DEF FinishStep
<1> QED BY <1>2, <1>3

\* The edits of the row's progress, by the fields they write.
Wrote(s, st, e, w) == [s EXCEPT !.state = st, !.err = e, !.waiting = w]
Moved(s, st, w) == [s EXCEPT !.state = st, !.waiting = w]
Waits(s, w) == [s EXCEPT !.waiting = w]

LEMMA PlainWrites ==
    ASSUME NEW s \in Row, NEW st \in States, NEW e \in Errors, NEW w \in BOOLEAN
    PROVE  Plain(s, Wrote(s, st, e, w)) /\ Wrote(s, st, e, w).state = st
<1> DEFINE t == Wrote(s, st, e, w)
<1>1. /\ t.camp = s.camp /\ t.content = s.content /\ t.own = s.own
      /\ t.adopted = s.adopted /\ t.approved = s.approved
      /\ t.createSent = s.createSent /\ t.claim = s.claim /\ t.state = st
  BY DEF Wrote, Row
<1>2. t \in Row
  BY DEF Wrote, Row
<1> QED BY <1>1, <1>2 DEF Plain

LEMMA PlainMoves ==
    ASSUME NEW s \in Row, NEW st \in States, NEW w \in BOOLEAN
    PROVE  /\ Plain(s, Moved(s, st, w)) /\ Moved(s, st, w).state = st
           /\ Plain(s, Waits(s, w)) /\ Waits(s, w).state = s.state
BY DEF Plain, Row, Moved, Waits

LEMMA PlainMarks ==
    ASSUME NEW s \in Row, NEW w \in BOOLEAN
    PROVE  /\ Plain(s, [s EXCEPT !.schedMark = w])
           /\ [s EXCEPT !.schedMark = w].state = s.state
BY DEF Plain, Row

LEMMA PlainEdits ==
    ASSUME NEW s \in Row
    PROVE  /\ \A t \in ProviderFailures(s) : Plain(s, t)
           /\ Plain(s, Scheduled(s)) /\ Plain(s, [Scheduled(s) EXCEPT !.waiting = FALSE])
           /\ \A kind : Plain(s, ScheduleFailure(s, kind)) /\ ~HandedOver(ScheduleFailure(s, kind))
           /\ Plain(s, Wrote(s, "FAILED", "terminal", FALSE))
           /\ ~HandedOver(Wrote(s, "FAILED", "terminal", FALSE))
<1>0. /\ "PARTIALLY_SENT" \in States /\ "FAILED" \in States /\ "CREATED" \in States
      /\ "SCHEDULED" \in States /\ "none" \in Errors /\ "fatal" \in Errors
      /\ "other" \in Errors /\ "terminal" \in Errors /\ TRUE \in BOOLEAN /\ FALSE \in BOOLEAN
  BY DEF States, Errors
<1>1. \A t \in ProviderFailures(s) : Plain(s, t)
  <2>1. ProviderFailures(s) = {Moved(s, "PARTIALLY_SENT", FALSE), Wrote(s, "FAILED", "terminal", FALSE)}
    BY DEF ProviderFailures, Moved, Wrote
  <2>2. Plain(s, Moved(s, "PARTIALLY_SENT", FALSE)) /\ Plain(s, Wrote(s, "FAILED", "terminal", FALSE))
    BY <1>0, PlainWrites, PlainMoves
  <2> QED BY <2>1, <2>2
<1>2. Plain(s, Scheduled(s))
  <2>1. Scheduled(s) = Wrote(s, "SCHEDULED", "none", TRUE)
    BY DEF Scheduled, Wrote
  <2>2. Plain(s, Wrote(s, "SCHEDULED", "none", TRUE))
    BY <1>0, PlainWrites
  <2> QED BY <2>1, <2>2
<1>3. Plain(s, [Scheduled(s) EXCEPT !.waiting = FALSE])
  BY <1>2 DEF Plain, Row
<1>4. ASSUME NEW kind PROVE Plain(s, ScheduleFailure(s, kind)) /\ ~HandedOver(ScheduleFailure(s, kind))
  <2>1. \/ ScheduleFailure(s, kind) = Wrote(s, "FAILED", "fatal", FALSE)
        \/ ScheduleFailure(s, kind) = Wrote(s, "CREATED", "other", TRUE)
    BY DEF ScheduleFailure, Wrote
  <2>2. /\ Plain(s, Wrote(s, "FAILED", "fatal", FALSE)) /\ Plain(s, Wrote(s, "CREATED", "other", TRUE))
        /\ Wrote(s, "FAILED", "fatal", FALSE).state = "FAILED"
        /\ Wrote(s, "CREATED", "other", TRUE).state = "CREATED"
    BY <1>0, PlainWrites
  <2>3. /\ ~HandedOver(Wrote(s, "FAILED", "fatal", FALSE))
        /\ ~HandedOver(Wrote(s, "CREATED", "other", TRUE))
    BY <2>2 DEF HandedOver
  <2> QED BY <2>1, <2>2, <2>3
<1>5. /\ Plain(s, Wrote(s, "FAILED", "terminal", FALSE))
      /\ ~HandedOver(Wrote(s, "FAILED", "terminal", FALSE))
  BY <1>0, PlainWrites DEF HandedOver
<1> QED BY <1>1, <1>2, <1>3, <1>4, <1>5

LEMMA PlainCreateFailures ==
    ASSUME NEW s \in Row, NEW kind, NEW keep \in BOOLEAN, NEW t \in CreateFailures(s, kind, keep)
    PROVE  Plain(s, t) /\ ~HandedOver(t)
<1> DEFINE base == IF kind # "unknown" /\ ~keep
                   THEN [s EXCEPT !.createMark = FALSE, !.createSent = FALSE] ELSE s
<1>1. Plain(s, base)
  <2>1. Plain(s, [s EXCEPT !.createMark = FALSE, !.createSent = FALSE])
    BY DEF Plain, Row
  <2>2. Plain(s, s)
    BY DEF Plain
  <2> QED BY <2>1, <2>2
<1>2. \E st \in {"FAILED", "PENDING", "SKIPPED"}, e \in {"fatal", "other"}, w \in BOOLEAN :
        t = [base EXCEPT !.state = st, !.err = e, !.waiting = w]
  BY DEF CreateFailures
<1> HIDE DEF base
<1>3. PICK st \in {"FAILED", "PENDING", "SKIPPED"}, e \in {"fatal", "other"}, w \in BOOLEAN :
        t = Wrote(base, st, e, w)
  BY <1>2 DEF Wrote
<1>4. base \in Row /\ st \in States /\ e \in Errors
  BY <1>1 DEF Plain, States, Errors
<1>5. Plain(base, t) /\ t.state = st
  <2>1. /\ Plain(base, Wrote(base, st, e, w))
        /\ Wrote(base, st, e, w).state = st
    BY <1>4, PlainWrites
  <2> QED BY <1>3, <2>1
<1> QED BY <1>1, <1>5 DEF Plain, HandedOver
\* A write to one row without its claim, which neither hands it over nor reopens it.
LEMMA EditTidies ==
    ASSUME IInv, NEW r, NEW a \in Audiences, NEW t, Plain(row[a], t),
           t.state = row[a].state \/ (~HandedOver(t) /\ row[a].state \notin Reported),
           row' = [row EXCEPT ![a] = t]
    PROVE  TidyRows(r)
<1>1. row \in [Audiences -> Row]
  BY DEF IInv, TypeOK
<1>2. Tidy(row[a], t, r)
  BY DEF Tidy, Calm, Plain, HandedOver, Reported
<1>3. \A b \in Audiences : b # a => Tidy(row[b], row[b], r)
  BY DEF Tidy, Calm
<1> QED BY <1>1, <1>2, <1>3 DEF TidyRows

LEMMA AtVersion ==
    ASSUME IInv, NEW r \in Runners, run[r].pc \notin {"idle", "press", "look"}
    PROVE  /\ run[r].aud \in Audiences /\ row[run[r].aud] \in Row
           /\ run \in [Runners -> Runner] /\ run[r] \in Runner /\ row \in [Audiences -> Row]
BY VersionOf

\* The last write of a step that needs no call, and leaving.
LEMMA FinishRests ==
    ASSUME IInv, RecordInv, NEW r \in Runners, run[r].pc \in Claimed,
           NEW t, Plain(row[run[r].aud], t), FinishStep(r, t),
           HandedOver(t) => \/ HandedOver(row[run[r].aud])
                            \/ /\ row[run[r].aud].camp \in Campaigns
                               /\ Accepted(row[run[r].aud].camp),
           Leave(r) \/ \E p \in Resting : Goto(r, p),
           UNCHANGED <<prov, wire>>
    PROVE  RecordInv'
<1>1. TidyRows(r)
  BY FinishTidies
<1>2. WireTidy /\ wire' \subseteq Request
  BY StillTidy
<1> QED BY <1>1, <1>2, TidyRests

\* A step that leaves the rows alone, and leaves or goes where nothing is owed.
LEMMA LeavesRests ==
    ASSUME IInv, RecordInv, NEW r \in Runners, UNCHANGED <<row, prov, wire>>,
           Leave(r) \/ \E p \in Resting : Goto(r, p)
    PROVE  RecordInv'
BY StillTidy, TidyRests

LEMMA ConfigInvalidRecord ==
    ASSUME IInv, RecordInv, NEW r \in Runners, ConfigInvalid(r)
    PROVE  RecordInv'
<1> DEFINE a == run[r].aud
           t == Wrote(row[a], "FAILED", "fatal", FALSE)
<1>1. At(r, "configInvalid") /\ Leave(r) /\ UNCHANGED <<prov, wire>>
      /\ \/ row' = [row EXCEPT ![a] = t] /\ row[a].state \in {"PENDING", "FAILED"}
         \/ row' = row
  BY DEF ConfigInvalid, Wrote
<1>2. a \in Audiences /\ row[a] \in Row
  BY <1>1, AtVersion DEF At
<1>3. Plain(row[a], t) /\ t.state = "FAILED"
  BY <1>2, PlainWrites DEF States, Errors
<1>4. ~HandedOver(t)
  BY <1>3 DEF HandedOver
<1> HIDE DEF t
<1>5. CASE row' = [row EXCEPT ![a] = t] /\ row[a].state \in {"PENDING", "FAILED"}
  <2>1. TidyRows(r)
    BY <1>2, <1>3, <1>4, <1>5, EditTidies DEF Reported
  <2>2. WireTidy /\ wire' \subseteq Request
    BY <1>1, StillTidy
  <2> QED BY <1>1, <2>1, <2>2, TidyRests
<1>6. CASE row' = row
  BY <1>1, <1>6, LeavesRests
<1> QED BY <1>1, <1>5, <1>6

LEMMA GuardRefusesRecord ==
    ASSUME IInv, RecordInv, NEW r \in Runners, GuardRefuses(r)
    PROVE  RecordInv'
<1> DEFINE a == run[r].aud
           t == Waits(row[a], TRUE)
<1>1. a \in Audiences /\ row[a] \in Row /\ row \in [Audiences -> Row]
  BY AtVersion DEF GuardRefuses, At
<1>2. Leave(r) /\ UNCHANGED <<prov, wire>> /\ row' = [row EXCEPT ![a] = t]
  BY <1>1 DEF GuardRefuses, Waits
<1>3. Plain(row[a], t) /\ t.state = row[a].state
  BY <1>1, PlainMoves DEF States
<1> HIDE DEF t
<1>4. TidyRows(r) /\ WireTidy /\ wire' \subseteq Request
  BY <1>1, <1>2, <1>3, EditTidies, StillTidy
<1> QED BY <1>2, <1>4, TidyRests

LEMMA VerifyRecord ==
    ASSUME IInv, RecordInv, NEW r \in Runners, Verify(r)
    PROVE  RecordInv'
<1> DEFINE a == run[r].aud
           s == row[a]
           st == prov[run[r].camp].state
<1>1. a \in Audiences /\ s \in Row /\ run[r].pc \in Claimed /\ Leave(r)
      /\ UNCHANGED <<prov, wire>>
  BY AtVersion DEF Verify, At, Claimed
<1>2. /\ s.camp \in Campaigns
      /\ st \in {"SENT", "FAILED"} => Accepted(s.camp)
  BY DEF RecordInv, RunnerRecord, AsksItsRow, Verify, At, Accepted
<1>3. PICK t : /\ FinishStep(r, t)
               /\ \/ t = Wrote(s, "FAILED", "terminal", FALSE) \/ t = Waits(s, TRUE)
                  \/ /\ st \in {"SENT", "FAILED"}
                     /\ \/ t = Moved(s, "SENT", FALSE) \/ t = Moved(s, "PARTIALLY_SENT", FALSE)
                        \/ t \in ProviderFailures(s)
  BY DEF Verify, Wrote, Moved, Waits
<1>4. Plain(s, t)
  <2>1. Plain(s, Wrote(s, "FAILED", "terminal", FALSE)) /\ \A u \in ProviderFailures(s) : Plain(s, u)
    BY <1>1, PlainEdits
  <2>2. Plain(s, Waits(s, TRUE)) /\ Plain(s, Moved(s, "SENT", FALSE))
        /\ Plain(s, Moved(s, "PARTIALLY_SENT", FALSE))
    BY <1>1, PlainMoves DEF States
  <2> QED BY <1>3, <2>1, <2>2
<1>5. HandedOver(t) => HandedOver(s) \/ st \in {"SENT", "FAILED"}
  <2>1. ~HandedOver(Wrote(s, "FAILED", "terminal", FALSE))
    BY <1>1, PlainEdits
  <2>2. Waits(s, TRUE).state = s.state
    BY <1>1, PlainMoves DEF States
  <2> QED BY <1>3, <2>1, <2>2 DEF HandedOver
<1> QED BY <1>1, <1>2, <1>3, <1>4, <1>5, FinishRests

LEMMA SkipRecord ==
    ASSUME IInv, RecordInv, NEW r \in Runners, Skip(r)
    PROVE  RecordInv'
<1> DEFINE s == row[run[r].aud]
           t == Moved(s, "SKIPPED", FALSE)
<1>1. s \in Row /\ run[r].pc \in Claimed /\ Leave(r) /\ UNCHANGED <<prov, wire>>
      /\ FinishStep(r, t)
  BY AtVersion DEF Skip, At, Claimed, Moved
<1>2. Plain(s, t) /\ t.state = "SKIPPED"
  BY <1>1, PlainMoves DEF States
<1>3. ~HandedOver(t)
  BY <1>2 DEF HandedOver
<1> HIDE DEF t
<1> QED BY <1>1, <1>2, <1>3, FinishRests

LEMMA ResolveRecord ==
    ASSUME IInv, RecordInv, NEW r \in Runners, Resolve(r)
    PROVE  RecordInv'
<1> DEFINE a == run[r].aud
           s == row[a]
           st == prov[run[r].camp].state
<1>1. a \in Audiences /\ s \in Row /\ run[r].pc \in Claimed /\ UNCHANGED <<prov, wire>>
  BY AtVersion DEF Resolve, At, Claimed
<1>2. /\ s.camp \in Campaigns
      /\ st \in {"SCHEDULED", "SENT", "FAILED"} => Accepted(s.camp)
  BY DEF RecordInv, RunnerRecord, AsksItsRow, Resolve, At, Accepted
<1>3. PICK t : /\ FinishStep(r, t)
               /\ \/ t = Wrote(s, "FAILED", "terminal", FALSE)
                  \/ t = Moved(s, "SKIPPED", FALSE)
                  \/ /\ st \in {"SCHEDULED", "SENT", "FAILED"}
                     /\ t = Scheduled(s) \/ t \in ProviderFailures(s)
  BY DEF Resolve, Wrote, Moved
<1>4. Plain(s, t)
  <2>1. Plain(s, Moved(s, "SKIPPED", FALSE))
    BY <1>1, PlainMoves DEF States
  <2> QED BY <1>1, <1>3, <2>1, PlainEdits
<1>5. HandedOver(t) => st \in {"SCHEDULED", "SENT", "FAILED"}
  <2>1. ~HandedOver(Wrote(s, "FAILED", "terminal", FALSE))
    BY <1>1, PlainEdits
  <2>2. Moved(s, "SKIPPED", FALSE).state = "SKIPPED"
    BY <1>1, PlainMoves DEF States
  <2> QED BY <1>3, <2>1, <2>2 DEF HandedOver
<1>6. Leave(r) \/ \E p \in Resting : Goto(r, p)
  BY DEF Resolve, Resting, Steps, Claimed
<1> QED BY <1>1, <1>2, <1>3, <1>4, <1>5, <1>6, FinishRests
-----------------------------------------------------------------------------
(* Looks, doors, editors and the clock                                     *)

\* A look leads past the gate only where the gate is open.
LEMMA LookIsGated ==
    ASSUME NEW x, NEW a, NEW s
    PROVE  /\ "claimSched" \in AdvanceSteps(x, a, s) \cup CreatedSteps(x, a, s) => GateOpen(x, a, s)
           /\ "claimResolve" \notin AdvanceSteps(x, a, s) \cup CreatedSteps(x, a, s) \cup VerifySteps(x, s)
           /\ "claimResolve" \in SweepSteps(s) => s.camp # None
BY DEF AdvanceSteps, CreatedSteps, SweepSteps, CreateSteps, ScheduleSteps, VerifySteps

LEMMA EnterRecord ==
    ASSUME IInv, RecordInv, NEW r \in Runners, NEW a \in Audiences, NEW x \in Runner,
           NEW steps \in SUBSET Entered, Enter(r, a, x, steps),
           "claimSched" \in steps => GatePassed(a),
           "claimResolve" \in steps => row[a].camp # None,
           UNCHANGED <<row, prov, wire>>
    PROVE  RecordInv'
<1> DEFINE y == [x EXCEPT !.aud = a, !.camp = row[a].camp]
<1>1. row[a] \in Row /\ run \in [Runners -> Runner] /\ row[a].camp \in Campaigns \cup {None}
  BY DEF IInv, TypeOK, Row
<1>2. y \in Runner /\ y.aud = a
  BY <1>1 DEF Runner
<1>3. TidyRows(r) /\ WireTidy /\ wire' \subseteq Request
  BY StillTidy
<1>4. \A q \in Runners : q # r => run'[q] = run[q]
  BY <1>1 DEF Enter
<1>5. RunnerRecord(r)'
  <2>1. CASE run' = [run EXCEPT ![r] = Left(y)]
    <3>1. run'[r].pc \in {"idle", "look"}
      BY <1>1, <1>2, <2>1, LeftTyped
    <3> QED BY <3>1, RestingRecord DEF Resting, Steps, Claimed
  <2>2. ASSUME NEW p \in steps, NEW m,
               run' = [run EXCEPT ![r] = [y EXCEPT !.pc = p, !.mark = m]]
        PROVE  RunnerRecord(r)'
    <3>1. run'[r].pc = p /\ run'[r].aud = a /\ p \in Entered
      BY <1>1, <1>2, <2>2 DEF Runner
    <3>2. CASE p = "claimSched"
      <4>1. GatePassed(a)'
        BY <3>2, <2>2 DEF GatePassed
      <4> QED BY <3>1, <3>2, <4>1 DEF RunnerRecord, HolderFindsOpen, AsksItsRow, KnowsContent,
                                     Gated, Claimed, At
    <3>3. CASE p = "claimResolve"
      <4>1. row'[a].camp # None
        BY <3>3, <2>2
      <4> QED BY <3>1, <3>3, <4>1 DEF RunnerRecord, HolderFindsOpen, AsksItsRow, KnowsContent,
                                     Gated, Claimed, At
    <3>4. CASE p \notin {"claimSched", "claimResolve"}
      <4>1. run'[r].pc \in Resting
        BY <3>1, <3>4 DEF Resting, Entered, Steps, Claimed
      <4> QED BY <4>1, RestingRecord
    <3> QED BY <3>2, <3>3, <3>4
  <2> QED BY <2>1, <2>2 DEF Enter
<1> QED BY <1>3, <1>4, <1>5, TidyKeeps

LEMMA OpenIsPassed ==
    ASSUME NEW x, NEW a, GateOpen(x, a, row[a])
    PROVE  GatePassed(a)
BY DEF GateOpen, GatePassed

LEMMA LookRecord ==
    ASSUME IInv, RecordInv, NEW r \in Runners, NEW a \in Audiences, Look(r, a)
    PROVE  RecordInv'
<1> DEFINE x == [run[r] EXCEPT !.todo = @ \ {a}]
           steps == IF x.sweep THEN SweepSteps(row[a]) ELSE AdvanceSteps(x, a, row[a])
<1>1. x \in Runner
  BY DEF IInv, TypeOK, Runner
<1>2. Enter(r, a, x, steps) /\ UNCHANGED <<row, prov, wire>>
  BY DEF Look
<1>3. steps \in SUBSET Entered
  BY LookLeadsTo
<1>4. "claimSched" \in steps => GatePassed(a)
  BY LookLeadsTo, LookIsGated, OpenIsPassed
<1>5. "claimResolve" \in steps => row[a].camp # None
  BY LookIsGated
<1> HIDE DEF x, steps
<1> QED BY <1>1, <1>2, <1>3, <1>4, <1>5, EnterRecord

LEMMA LookAgainRecord ==
    ASSUME IInv, RecordInv, NEW r \in Runners, LookAgain(r)
    PROVE  RecordInv'
<1> DEFINE x == run[r]
           a == x.aud
           s == row[a]
           steps == IF x.pc = "created" THEN CreatedSteps(x, a, s)
                    ELSE IF s.state # "SCHEDULED" THEN {}
                    ELSE IF x.sweep THEN {"claimVerify"} ELSE VerifySteps(x, s)
<1>1. x \in Runner /\ a \in Audiences
  BY AtVersion DEF LookAgain
<1>2. Enter(r, a, x, steps) /\ UNCHANGED <<row, prov, wire>>
  BY DEF LookAgain
<1>3. steps \in SUBSET Entered
  BY LookLeadsTo DEF Entered
<1>4. "claimSched" \in steps => GatePassed(a)
  BY LookLeadsTo, LookIsGated, OpenIsPassed
<1>5. "claimResolve" \notin steps
  BY LookIsGated
<1> HIDE DEF x, a, s, steps
<1> QED BY <1>1, <1>2, <1>3, <1>4, <1>5, EnterRecord

\* What the clock, the doors and the editors write: never a campaign, content, claim or
\* state, and an approval is only given.
Sidelong(s, t) ==
    /\ t.camp = s.camp /\ t.content = s.content /\ t.state = s.state /\ t.claim = s.claim
    /\ t.own = s.own /\ t.adopted = s.adopted /\ (s.approved => t.approved)
    /\ t.createSent = s.createSent

LEMMA SidelongTidies ==
    ASSUME NEW r, \A a \in Audiences : Sidelong(row[a], row'[a])
    PROVE  TidyRows(r)
BY DEF Sidelong, TidyRows, Tidy, Calm, HandedOver

LEMMA SidelongEdits ==
    ASSUME NEW s \in Row
    PROVE  /\ Sidelong(s, s)
           /\ Sidelong(s, [s EXCEPT !.due = TRUE])
           /\ Sidelong(s, [s EXCEPT !.approved = TRUE])
           /\ Sidelong(s, [s EXCEPT !.approved = TRUE, !.due = TRUE])
           /\ Sidelong(s, [s EXCEPT !.waiting = FALSE])
           /\ Sidelong(s, [s EXCEPT !.stale = TRUE])
BY DEF Sidelong, Row

LEMMA BeginRecord ==
    ASSUME IInv, RecordInv, NEW r \in Runners, NEW t \in Triggers, Begin(r, t),
           UNCHANGED <<prov, wire>>
    PROVE  RecordInv'
<1>1. row \in [Audiences -> Row] /\ run \in [Runners -> Runner]
  BY DEF IInv, TypeOK
<1>2. \A a \in Audiences : row'[a] = row[a] \/ row'[a] = [row[a] EXCEPT !.due = TRUE]
  BY <1>1 DEF Begin
<1>3. TidyRows(r) /\ WireTidy /\ wire' \subseteq Request
  BY <1>1, <1>2, SidelongEdits, SidelongTidies, StillTidy
<1>4. run'[r].pc = "look" /\ \A q \in Runners : q # r => run'[q] = run[q]
  BY <1>1 DEF Begin, Idle
<1>5. RunnerRecord(r)'
  BY <1>4, RestingRecord DEF Resting, Steps, Claimed
<1> QED BY <1>3, <1>4, <1>5, TidyKeeps

LEMMA DoorsRecord ==
    ASSUME IInv, RecordInv, NEW r \in Runners,
           PressAdvances(r) \/ \E t \in Triggers : Start(r, t)
    PROVE  RecordInv'
BY BeginRecord DEF PressAdvances, Start, Triggers

LEMMA PressSendFreeRecord ==
    ASSUME IInv, RecordInv, NEW r \in Runners, NEW a \in Audiences, PressSendFree(r, a)
    PROVE  RecordInv'
<1> DEFINE t == [row[a] EXCEPT !.approved = TRUE, !.due = TRUE]
<1>1. row \in [Audiences -> Row] /\ UNCHANGED <<prov, wire>> /\ Goto(r, "press")
  BY DEF IInv, TypeOK, PressSendFree
<1>2. row' = [row EXCEPT ![a] = t]
  BY <1>1 DEF PressSendFree
<1>3. \A b \in Audiences : Sidelong(row[b], row'[b])
  <2>1. Sidelong(row[a], t) /\ \A b \in Audiences : Sidelong(row[b], row[b])
    BY <1>1, SidelongEdits
  <2> HIDE DEF t
  <2> QED BY <1>1, <1>2, <2>1
<1>4. TidyRows(r) /\ WireTidy /\ wire' \subseteq Request
  BY <1>1, <1>3, SidelongTidies, StillTidy
<1>5. "press" \in Resting
  BY DEF Resting, Steps, Claimed
<1> QED BY <1>1, <1>4, <1>5, TidyRests

\* A step of nobody.
LEMMA NobodysRecord ==
    ASSUME IInv, RecordInv, \A a \in Audiences : Sidelong(row[a], row'[a]),
           UNCHANGED <<run, prov>>, wire' \subseteq wire
    PROVE  RecordInv'
<1>1. TidyRows(None) /\ WireTidy /\ wire' \subseteq Request /\ None \notin Runners
  BY SidelongTidies, NoneIsNone DEF WireTidy, IInv, TypeOK
<1> QED BY <1>1, TidyKeeps

LEMMA OutsideRecord ==
    ASSUME IInv, RecordInv,
           \/ Hold \/ ClockMoves \/ SendTimeComes
           \/ \E listed \in SUBSET Audiences : Approve(listed)
           \/ \E a \in Audiences : WaitEnds(a) \/ ClaimAges(a)
           \/ \E q \in wire : RequestLost(q)
    PROVE  RecordInv'
<1>1. \A a \in Audiences : row[a] \in Row
  BY DEF IInv, TypeOK
<1>2. \A a \in Audiences : Sidelong(row[a], row[a])
  BY <1>1, SidelongEdits
<1>3. CASE Hold \/ ClockMoves \/ \E q \in wire : RequestLost(q)
  BY <1>2, <1>3, NobodysRecord DEF Hold, ClockMoves, RequestLost
<1>4. CASE SendTimeComes
  <2>1. \A a \in Audiences : row'[a] = [row[a] EXCEPT !.due = TRUE]
    BY <1>4 DEF SendTimeComes
  <2>2. \A a \in Audiences : Sidelong(row[a], [row[a] EXCEPT !.due = TRUE])
    BY <1>1, SidelongEdits
  <2> QED BY <1>4, <2>1, <2>2, NobodysRecord DEF SendTimeComes
<1>5. CASE \E listed \in SUBSET Audiences : Approve(listed)
  <2>1. \A a \in Audiences : row'[a] = [row[a] EXCEPT !.approved = TRUE] \/ row'[a] = row[a]
    BY <1>5 DEF Approve
  <2>2. \A a \in Audiences : Sidelong(row[a], [row[a] EXCEPT !.approved = TRUE])
    BY <1>1, SidelongEdits
  <2> QED BY <1>2, <1>5, <2>1, <2>2, NobodysRecord DEF Approve
<1>6. ASSUME NEW a \in Audiences, WaitEnds(a) \/ ClaimAges(a) PROVE RecordInv'
  <2> DEFINE u == [row[a] EXCEPT !.waiting = FALSE]
             v == [row[a] EXCEPT !.stale = TRUE]
  <2>1. row \in [Audiences -> Row]
    BY DEF IInv, TypeOK
  <2>2. row' = [row EXCEPT ![a] = u] \/ row' = [row EXCEPT ![a] = v]
    BY <1>6, <2>1 DEF WaitEnds, ClaimAges
  <2>3. Sidelong(row[a], u) /\ Sidelong(row[a], v)
    BY <1>1, SidelongEdits
  <2> HIDE DEF u, v
  <2>4. \A b \in Audiences : Sidelong(row[b], row'[b])
    BY <1>2, <2>1, <2>2, <2>3
  <2> QED BY <1>6, <2>4, NobodysRecord DEF WaitEnds, ClaimAges
<1> QED BY <1>3, <1>4, <1>5, <1>6

LEMMA CrashRecord ==
    ASSUME IInv, RecordInv, NEW r \in Runners, Crash(r)
    PROVE  RecordInv'
<1>1. UNCHANGED <<row, prov>> /\ run' = [run EXCEPT ![r] = Idle] /\ run \in [Runners -> Runner]
      /\ wire \subseteq Request
      /\ wire' = {[q EXCEPT !.live = @ /\ q.by # r] : q \in {p \in wire : ~(p.by = r /\ p.done)}}
  BY DEF Crash, IInv, TypeOK
<1>2. ASSUME NEW p \in wire'
      PROVE  /\ p \in Request
             /\ \E q \in wire : /\ q.op = p.op /\ q.aud = p.aud /\ q.camp = p.camp
                              /\ q.content = p.content /\ q.done = p.done
  <2>1. PICK q \in wire : p = [q EXCEPT !.live = @ /\ q.by # r]
    BY <1>1
  <2>2. q \in Request /\ (q.live /\ q.by # r) \in BOOLEAN
    BY <1>1 DEF Request
  <2>3. p \in Request /\ q.op = p.op /\ q.aud = p.aud /\ q.camp = p.camp
        /\ q.content = p.content /\ q.done = p.done
    BY <2>1, <2>2 DEF Request
  <2> QED BY <2>3
<1>4. WireTidy /\ wire' \subseteq Request
  BY <1>2 DEF WireTidy
<1>5. run'[r].pc \in Resting /\ \A q \in Runners : q # r => run'[q] = run[q]
  BY <1>1 DEF Resting, Steps, Claimed, Idle
<1> QED BY <1>1, <1>4, <1>5, StillTidy, RestingRecord, TidyKeeps
-----------------------------------------------------------------------------
(* Claims                                                                  *)

LEMMA GateStands ==
    ASSUME NEW r, TidyRows(r), NEW a \in Audiences, row[a].camp # None, GatePassed(a)
    PROVE  GatePassed(a)'
BY DEF TidyRows, Tidy, Calm, GatePassed, AwaitingOwnApproval

LEMMA OursStand ==
    ASSUME NEW r, TidyRows(r), UNCHANGED prov, NEW a \in Audiences, NamedOurs(a)
    PROVE  NamedOurs(a)'
BY DEF TidyRows, Tidy, Calm, NamedOurs, Named

\* A write without a claim that lets go of a stale one.
LEMMA ReleaseTidies ==
    ASSUME IInv, NEW r, NEW a \in Audiences, NEW t, Plain(row[a], t),
           ~HandedOver(t), row[a].state \notin Reported,
           row' = [row EXCEPT ![a] = Released(t)]
    PROVE  TidyRows(r)
<1>1. row \in [Audiences -> Row]
  BY DEF IInv, TypeOK
<1>2. /\ Released(t).claim = None /\ Released(t).camp = t.camp
      /\ Released(t).content = t.content /\ Released(t).own = t.own
      /\ Released(t).adopted = t.adopted /\ Released(t).approved = t.approved
      /\ Released(t).createSent = t.createSent /\ Released(t).state = t.state
  BY DEF Released, Plain, Row
<1>3. Tidy(row[a], Released(t), r)
  BY <1>2 DEF Tidy, Calm, Plain, HandedOver, Reported
<1>4. \A b \in Audiences : b # a => Tidy(row[b], row[b], r)
  BY DEF Tidy, Calm
<1> QED BY <1>1, <1>3, <1>4 DEF TidyRows

\* A claim tidies its row: it is won only where the version was not reported as sent.
LEMMA ClaimTidies ==
    ASSUME IInv, NEW r \in Runners, run[r].pc \notin {"idle", "press", "look"},
           NEW legal \in BOOLEAN, NEW s, Plain(row[run[r].aud], s),
           s.state = row[run[r].aud].state, legal => s.state \notin Reported,
           NEW x \in Runner, Claim(r, legal, s, x)
    PROVE  /\ TidyRows(r) /\ \A q \in Runners : q # r => run'[q] = run[q]
           /\ \/ Leave(r) /\ UNCHANGED row
              \/ legal /\ run'[r] = x /\ row'[run[r].aud].state \notin Reported
<1> DEFINE a == run[r].aud
<1>1. a \in Audiences /\ row \in [Audiences -> Row] /\ run \in [Runners -> Runner]
      /\ run[r] \in Runner
  BY AtVersion
<1>2. CASE UNCHANGED row /\ Leave(r)
  BY <1>1, <1>2, StillTidy DEF Leave
<1>3. CASE legal /\ row' = [row EXCEPT ![a] = Taken(s, r)] /\ run' = [run EXCEPT ![r] = x]
  <2>1. /\ Taken(s, r).claim = r /\ Taken(s, r).camp = s.camp
        /\ Taken(s, r).content = s.content /\ Taken(s, r).own = s.own
        /\ Taken(s, r).adopted = s.adopted /\ Taken(s, r).approved = s.approved
        /\ Taken(s, r).createSent = s.createSent /\ Taken(s, r).state = s.state
    BY DEF Taken, Plain, Row
  <2>2. Tidy(row[a], Taken(s, r), r)
    BY <1>3, <2>1 DEF Tidy, Calm, Plain, HandedOver
  <2>3. \A b \in Audiences : b # a => Tidy(row[b], row[b], r)
    BY DEF Tidy, Calm
  <2> QED BY <1>1, <1>3, <2>1, <2>2, <2>3 DEF TidyRows
<1> QED BY <1>2, <1>3 DEF Claim

\* A claim keeps RecordInv if the step it leads to knows what it must.
LEMMA ClaimRecord ==
    ASSUME IInv, RecordInv, NEW r \in Runners, run[r].pc \notin {"idle", "press", "look"},
           NEW legal \in BOOLEAN, NEW s, Plain(row[run[r].aud], s),
           s.state = row[run[r].aud].state, legal => s.state \notin Reported,
           NEW x \in Runner, x.aud = run[r].aud, Claim(r, legal, s, x), UNCHANGED <<prov, wire>>,
           TidyRows(r) /\ legal /\ run'[r] = x =>
               AsksItsRow(r)' /\ KnowsContent(r)' /\ Gated(r)'
    PROVE  RecordInv'
<1>1. /\ TidyRows(r) /\ \A q \in Runners : q # r => run'[q] = run[q]
      /\ \/ Leave(r) /\ UNCHANGED row
         \/ legal /\ run'[r] = x /\ row'[run[r].aud].state \notin Reported
  BY ClaimTidies
<1>2. WireTidy /\ wire' \subseteq Request
  BY StillTidy
<1>3. CASE Leave(r)
  BY <1>1, <1>2, <1>3, TidyRests
<1>4. CASE legal /\ run'[r] = x /\ row'[run[r].aud].state \notin Reported
  <2>1. RunnerRecord(r)'
    BY <1>1, <1>4 DEF RunnerRecord, HolderFindsOpen, Reported
  <2> QED BY <1>1, <1>2, <2>1, TidyKeeps
<1> QED BY <1>1, <1>3, <1>4

LEMMA ClaimCreateRecord ==
    ASSUME IInv, RecordInv, NEW r \in Runners, ClaimCreate(r)
    PROVE  RecordInv'
<1> DEFINE x == run[r]
           a == x.aud
           s == row[a]
           legal == s.state \in {"PENDING", "FAILED"} /\ s.camp = None
           m == [s EXCEPT !.createMark = TRUE]
           go(p) == [x EXCEPT !.pc = p, !.mark = OwnCreate(s)]
           f == Wrote(s, "FAILED", "other", FALSE)
<1>1. x.pc = "claimCreate" /\ UNCHANGED <<prov, wire>> /\ x.pc \notin {"idle", "press", "look"}
  BY DEF ClaimCreate, At
<1>2. a \in Audiences /\ s \in Row /\ x \in Runner
  BY <1>1, AtVersion
<1>3. Plain(s, m) /\ m.state = s.state /\ Plain(s, s)
  BY <1>2 DEF Row, Plain
<1>4. \A p \in {"lookup", "stamp"} :
        go(p) \in Runner /\ go(p).pc = p /\ go(p).aud = a /\ go(p).mark = s.createSent
  BY <1>2 DEF Runner, Row, OwnCreate, Steps, Claimed
<1>5. Plain(s, f) /\ f.state = "FAILED"
  BY <1>2, PlainWrites DEF States, Errors
<1>6. ~HandedOver(f)
  BY <1>5 DEF HandedOver
<1>7. \/ \E p \in {"lookup", "stamp"} : (p = "lookup" <=> HasLookup)
              /\ (Claim(r, legal /\ ~s.createMark, m, go(p)) \/ Claim(r, legal, s, go(p)))
      \/ legal /\ row' = [row EXCEPT ![a] = Released(f)] /\ Leave(r)
      \/ UNCHANGED row /\ Leave(r)
  BY DEF ClaimCreate, FirstCreate, Wrote
<1>8. legal => s.state \notin Reported
  BY DEF Reported
<1>9. legal \in BOOLEAN /\ (legal /\ ~s.createMark) \in BOOLEAN
  OBVIOUS
<1>10. ASSUME NEW p \in {"lookup", "stamp"}, p = "lookup" <=> HasLookup,
              TidyRows(r), run'[r] = go(p)
       PROVE  AsksItsRow(r)' /\ KnowsContent(r)' /\ Gated(r)'
  <2>1. run'[r].pc = p /\ run'[r].aud = a /\ run'[r].mark = s.createSent
    BY <1>4, <1>10
  <2>2. HasLookup /\ s.createSent => NamedOurs(a)'
    <3>1. HasLookup /\ s.createSent => NamedOurs(a)
      BY <1>2 DEF RecordInv, CreatesOurs
    <3> QED BY <1>1, <1>2, <1>10, <3>1, OursStand
  <2> QED BY <1>10, <2>1, <2>2 DEF AsksItsRow, KnowsContent, Gated, At
<1> HIDE DEF m, go, f, legal
<1>11. CASE \E p \in {"lookup", "stamp"} : (p = "lookup" <=> HasLookup)
              /\ (Claim(r, legal /\ ~s.createMark, m, go(p)) \/ Claim(r, legal, s, go(p)))
  <2>1. PICK p \in {"lookup", "stamp"} : (p = "lookup" <=> HasLookup)
              /\ (Claim(r, legal /\ ~s.createMark, m, go(p)) \/ Claim(r, legal, s, go(p)))
    BY <1>11
  <2>2. go(p) \in Runner /\ go(p).aud = a
    BY <1>4
  <2>3. TidyRows(r) /\ run'[r] = go(p) => AsksItsRow(r)' /\ KnowsContent(r)' /\ Gated(r)'
    BY <2>1, <1>10
  <2> DEFINE g == go(p)
             both == legal /\ ~s.createMark
  <2>4. g \in Runner /\ g.aud = run[r].aud /\ both \in BOOLEAN /\ (both => s.state \notin Reported)
        /\ (TidyRows(r) /\ run'[r] = g => AsksItsRow(r)' /\ KnowsContent(r)' /\ Gated(r)')
        /\ (Claim(r, both, m, g) \/ Claim(r, legal, s, g))
    BY <1>8, <1>9, <2>1, <2>2, <2>3
  <2> HIDE DEF g, both
  <2>5. CASE Claim(r, both, m, g)
    BY <1>1, <1>3, <2>4, <2>5, ClaimRecord
  <2>6. CASE Claim(r, legal, s, g)
    BY <1>1, <1>3, <1>8, <1>9, <2>4, <2>6, ClaimRecord
  <2> QED BY <2>4, <2>5, <2>6
<1>12. CASE legal /\ row' = [row EXCEPT ![a] = Released(f)] /\ Leave(r)
  <2>1. TidyRows(r)
    BY <1>2, <1>5, <1>6, <1>8, <1>12, ReleaseTidies
  <2> QED BY <1>1, <1>12, <2>1, StillTidy, TidyRests
<1>13. CASE UNCHANGED row /\ Leave(r)
  BY <1>1, <1>13, LeavesRests
<1> QED BY <1>7, <1>11, <1>12, <1>13

LEMMA ClaimScheduleRecord ==
    ASSUME IInv, RecordInv, NEW r \in Runners, ClaimSchedule(r)
    PROVE  RecordInv'
<1> DEFINE x == run[r]
           a == x.aud
           s == row[a]
           legal1 == s.state = "CREATED" /\ s.camp = x.camp /\ ~s.schedMark
           legal2 == s.state \in {"CREATED", "FAILED"} /\ s.camp = x.camp
           x1 == [x EXCEPT !.pc = "issue", !.mark = FALSE]
           x2 == [x EXCEPT !.pc = "status", !.mark = s.schedMark]
<1>1. x.pc = "claimSched" /\ UNCHANGED <<prov, wire>> /\ x.pc \notin {"idle", "press", "look"}
  BY DEF ClaimSchedule, At
<1>2. a \in Audiences /\ s \in Row /\ x \in Runner
  BY <1>1, AtVersion
<1>3. Plain(s, Marked(s)) /\ Marked(s).state = s.state /\ Plain(s, s)
  BY <1>2 DEF Marked, Row, Plain
<1>4. /\ x1 \in Runner /\ x1.pc = "issue" /\ x1.aud = a /\ x1.camp = x.camp
      /\ x2 \in Runner /\ x2.pc = "status" /\ x2.aud = a /\ x2.camp = x.camp
  BY <1>2 DEF Runner, Row, Steps, Claimed
<1>5. x.camp \in Campaigns /\ s.camp = x.camp /\ s.camp # None /\ GatePassed(a)
  BY <1>1, NoneIsNone DEF IInv, RunnerSound, RunnerCampaign, FromRow,
                          RecordInv, RunnerRecord, Gated
<1>6. Claim(r, legal1, Marked(s), x1) \/ Claim(r, legal2, s, x2)
  BY DEF ClaimSchedule
<1>7. legal1 \in BOOLEAN /\ legal2 \in BOOLEAN
      /\ (legal1 => s.state \notin Reported) /\ (legal2 => s.state \notin Reported)
  BY DEF Reported
<1> PICK b \in Audiences : b = a
  BY <1>2
<1>8. ASSUME TidyRows(r) PROVE GatePassed(b)'
  BY <1>5, <1>8, GateStands
<1>9. ASSUME TidyRows(r), legal1, run'[r] = x1
      PROVE  AsksItsRow(r)' /\ KnowsContent(r)' /\ Gated(r)'
  <2>1. ~Accepted(s.camp)
    BY <1>2, <1>5, <1>9 DEF IInv, MarkerIsProof, Accepted
  <2>2. prov[s.camp].content # s.content => s.own /\ s.adopted
    BY <1>2, <1>5, <2>1 DEF RecordInv, DraftsSeen
  <2>3. Tidy(s, row'[a], r)
    BY <1>2, <1>9 DEF TidyRows
  <2>4. run'[r].pc = "issue" /\ run'[r].aud = a /\ run'[r].camp = s.camp
    BY <1>4, <1>5, <1>9
  <2>5. prov'[s.camp].content # row'[a].content => row'[a].own /\ row'[a].adopted
    BY <1>1, <1>5, <2>2, <2>3 DEF Tidy, Calm
  <2>6. GatePassed(b)'
    BY <1>8, <1>9
  <2> QED BY <2>4, <2>5, <2>6 DEF AsksItsRow, KnowsContent, Gated, At
<1>10. ASSUME TidyRows(r), run'[r] = x2
       PROVE  AsksItsRow(r)' /\ KnowsContent(r)' /\ Gated(r)'
  <2>1. run'[r].pc = "status" /\ run'[r].aud = a
    BY <1>4, <1>10
  <2>2. GatePassed(b)'
    BY <1>8, <1>10
  <2> QED BY <2>1, <2>2 DEF AsksItsRow, KnowsContent, Gated, At
<1> HIDE DEF x1, x2, legal1, legal2
<1>11. CASE Claim(r, legal1, Marked(s), x1)
  BY <1>1, <1>3, <1>4, <1>7, <1>9, <1>11, ClaimRecord
<1>12. CASE Claim(r, legal2, s, x2)
  BY <1>1, <1>3, <1>4, <1>7, <1>10, <1>12, ClaimRecord
<1> QED BY <1>6, <1>11, <1>12

LEMMA ClaimToAskRecord ==
    ASSUME IInv, RecordInv, NEW r \in Runners,
           ClaimVerify(r) \/ ClaimSkip(r) \/ ClaimResolve(r)
    PROVE  RecordInv'
<1> DEFINE x == run[r]
           a == x.aud
           s == row[a]
           open == s.state \in {"PENDING", "CREATED", "FAILED"}
           v == [x EXCEPT !.pc = "verify", !.camp = s.camp]
           k == [x EXCEPT !.pc = "skip"]
           w == [x EXCEPT !.pc = "resolve", !.camp = s.camp]
<1>1. x.pc \in {"claimVerify", "claimSkip", "claimResolve"} /\ UNCHANGED <<prov, wire>>
      /\ x.pc \notin {"idle", "press", "look"}
  BY DEF ClaimVerify, ClaimSkip, ClaimResolve, At
<1>2. a \in Audiences /\ s \in Row /\ x \in Runner /\ s.camp \in Campaigns \cup {None}
  BY <1>1, AtVersion DEF Row
<1>3. /\ v \in Runner /\ v.pc = "verify" /\ v.aud = a /\ v.camp = s.camp
      /\ k \in Runner /\ k.pc = "skip" /\ k.aud = a
      /\ w \in Runner /\ w.pc = "resolve" /\ w.aud = a /\ w.camp = s.camp
  BY <1>2 DEF Runner, Steps, Claimed
<1>4. Plain(s, s)
  BY <1>2 DEF Plain
<1>5. \/ Claim(r, s.state = "SCHEDULED", s, v)
      \/ Claim(r, open /\ ~s.schedMark, s, k)
      \/ Claim(r, open, s, w) /\ s.camp \in Campaigns
  BY <1>2 DEF ClaimVerify, ClaimSkip, ClaimResolve, RecordInv, RunnerRecord, AsksItsRow
<1>6. ASSUME TidyRows(r), s.camp \in Campaigns, run'[r].pc \in {"verify", "resolve"},
             run'[r].aud = a, run'[r].camp = s.camp
      PROVE  AsksItsRow(r)' /\ KnowsContent(r)' /\ Gated(r)'
  BY <1>2, <1>6 DEF AsksItsRow, KnowsContent, Gated, At, TidyRows, Tidy, Calm
<1>7. run'[r] = k => AsksItsRow(r)' /\ KnowsContent(r)' /\ Gated(r)'
  BY <1>3 DEF AsksItsRow, KnowsContent, Gated, At
<1>8. s.state = "SCHEDULED" => s.camp \in Campaigns
  BY <1>2 DEF RecordInv, HandedOverAccepted, HandedOver
<1> HIDE DEF v, k, w
<1>9. CASE Claim(r, s.state = "SCHEDULED", s, v)
  <2> DEFINE legal == s.state = "SCHEDULED"
  <2>1. /\ legal \in BOOLEAN /\ (legal => s.state \notin Reported)
        /\ (TidyRows(r) /\ legal /\ run'[r] = v => AsksItsRow(r)' /\ KnowsContent(r)' /\ Gated(r)')
    BY <1>3, <1>6, <1>8 DEF Reported
  <2>2. Claim(r, legal, s, v)
    BY <1>9
  <2> HIDE DEF legal
  <2> QED BY <1>1, <1>3, <1>4, <2>1, <2>2, ClaimRecord
<1>10. CASE Claim(r, open /\ ~s.schedMark, s, k)
  <2> DEFINE legal == open /\ ~s.schedMark
  <2>1. legal \in BOOLEAN /\ (legal => s.state \notin Reported)
    BY DEF Reported
  <2>2. Claim(r, legal, s, k)
    BY <1>10
  <2> HIDE DEF legal
  <2> QED BY <1>1, <1>3, <1>4, <1>7, <2>1, <2>2, ClaimRecord
<1>11. CASE Claim(r, open, s, w) /\ s.camp \in Campaigns
  <2>1. /\ open \in BOOLEAN /\ (open => s.state \notin Reported)
        /\ (TidyRows(r) /\ run'[r] = w => AsksItsRow(r)' /\ KnowsContent(r)' /\ Gated(r)')
    BY <1>3, <1>6, <1>11 DEF Reported
  <2> HIDE DEF open
  <2> QED BY <1>1, <1>3, <1>4, <1>11, <2>1, ClaimRecord
<1> QED BY <1>5, <1>9, <1>10, <1>11
-----------------------------------------------------------------------------
(* Rendering late, looking up and adopting                                 *)

LEMMA RenderRecord ==
    ASSUME IInv, RecordInv, NEW r \in Runners, Render(r)
    PROVE  RecordInv'
<1> DEFINE a == run[r].aud
           s == row[a]
           t == [s EXCEPT !.state = "PENDING", !.pending = FALSE, !.own = TRUE,
                          !.approved = FALSE, !.err = "none", !.waiting = FALSE]
           w == Waits(s, TRUE)
<1>1. run[r].pc = "render" /\ UNCHANGED <<prov, wire>>
  BY DEF Render, At
<1>2. a \in Audiences /\ s \in Row /\ run[r] \in Runner
      /\ run \in [Runners -> Runner] /\ row \in [Audiences -> Row]
  BY <1>1, AtVersion
<1>3. \/ /\ row' = [row EXCEPT ![a] = t] /\ s.state = "FAILED" /\ s.camp = None
         /\ \/ Goto(r, "configInvalid")
            \/ run' = [run EXCEPT ![r].pc = "claimCreate", ![r].mark = s.createMark]
      \/ (row' = [row EXCEPT ![a] = w] \/ row' = row) /\ Leave(r)
  BY <1>2 DEF Render, Waits
<1>4. WireTidy /\ wire' \subseteq Request
  BY <1>1, StillTidy
<1>5. CASE /\ row' = [row EXCEPT ![a] = t] /\ s.state = "FAILED" /\ s.camp = None
           /\ \/ Goto(r, "configInvalid")
              \/ run' = [run EXCEPT ![r].pc = "claimCreate", ![r].mark = s.createMark]
  <2>1. /\ t.camp = s.camp /\ t.content = s.content /\ t.createSent = s.createSent
        /\ t.state = "PENDING" /\ t.claim = s.claim
    BY <1>2 DEF Row
  <2>2. Tidy(s, t, r)
    BY <1>5, <2>1 DEF Tidy, Calm, HandedOver, Reported
  <2>3. \A b \in Audiences : b # a => Tidy(row[b], row[b], r)
    BY DEF Tidy, Calm
  <2> HIDE DEF t
  <2>4. TidyRows(r)
    BY <1>2, <1>5, <2>2, <2>3 DEF TidyRows
  <2>5. run'[r].pc \in {"configInvalid", "claimCreate"}
        /\ \A q \in Runners : q # r => run'[q] = run[q]
    BY <1>2, <1>5 DEF Goto, Runner
  <2>6. RunnerRecord(r)'
    BY <2>5, RestingRecord DEF Resting, Steps, Claimed
  <2> QED BY <1>1, <1>4, <2>4, <2>5, <2>6, TidyKeeps
<1>6. CASE (row' = [row EXCEPT ![a] = w] \/ row' = row) /\ Leave(r)
  <2>1. Plain(s, w) /\ w.state = s.state
    BY <1>2, PlainMoves DEF States
  <2> HIDE DEF w
  <2>2. TidyRows(r)
    BY <1>2, <1>6, <2>1, EditTidies, StillTidy
  <2> QED BY <1>1, <1>4, <1>6, <2>2, TidyRests
<1> QED BY <1>3, <1>5, <1>6

\* A failed create or lookup, written by the claim's holder.
LEMMA CreateFailureTidies ==
    ASSUME IInv, RecordInv, NEW r \in Runners, run[r].pc \in Claimed,
           NEW kind, NEW keep \in BOOLEAN,
           NEW t \in CreateFailures(row[run[r].aud], kind, keep), FinishStep(r, t)
    PROVE  TidyRows(r)
<1>1. row[run[r].aud] \in Row
  BY AtVersion DEF Claimed
<1>2. Plain(row[run[r].aud], t) /\ ~HandedOver(t)
  BY <1>1, PlainCreateFailures
<1> QED BY <1>2, FinishTidies

\* A runner that goes on within its claim, with the rows as they are.
LEMMA GoesOnRecord ==
    ASSUME IInv, RecordInv, NEW r \in Runners, run[r].pc \in Claimed,
           NEW z \in Runner, z.aud = run[r].aud, run' = [run EXCEPT ![r] = z],
           UNCHANGED <<row, prov>>, WireTidy, wire' \subseteq Request,
           AsksItsRow(r)' /\ KnowsContent(r)' /\ Gated(r)'
    PROVE  RecordInv'
<1>1. run'[r] = z /\ \A q \in Runners : q # r => run'[q] = run[q]
  BY DEF IInv, TypeOK
<1>2. HolderFindsOpen(r)'
  BY <1>1 DEF RecordInv, RunnerRecord, HolderFindsOpen, Holds
<1> QED BY <1>1, <1>2, StillTidy, TidyKeeps DEF RunnerRecord

LEMMA LookupRecord ==
    ASSUME IInv, RecordInv, NEW r \in Runners, Lookup(r)
    PROVE  RecordInv'
<1> DEFINE a == run[r].aud
<1>1. At(r, "lookup") /\ run[r].pc \in Claimed /\ UNCHANGED <<prov, wire>>
      /\ WireTidy /\ wire' \subseteq Request
  BY StillTidy DEF Lookup, At, Claimed
<1>2. run[r] \in Runner /\ a \in Audiences
  BY <1>1, AtVersion DEF At
<1>3. HasLookup /\ (run[r].mark => NamedOurs(a))
  BY <1>1 DEF RecordInv, RunnerRecord, KnowsContent, At
<1>4. ASSUME NEW c \in Campaigns, UNCHANGED row,
             run' = [run EXCEPT ![r].pc = "adopt", ![r].camp = c]
      PROVE  RecordInv'
  <2> DEFINE z == [run[r] EXCEPT !.pc = "adopt", !.camp = c]
  <2>1. z \in Runner /\ z.pc = "adopt" /\ z.aud = a /\ z.mark = run[r].mark
    BY <1>2 DEF Runner, Steps, Claimed
  <2>2. run' = [run EXCEPT ![r] = z] /\ run'[r] = z
    BY <1>4, <2>1 DEF IInv, TypeOK
  <2> HIDE DEF z
  <2>3. run[r].mark => NamedOurs(a)'
    BY <1>1, <1>3, <1>4, <2>1, <2>2 DEF NamedOurs, Named
  <2>4. AsksItsRow(r)' /\ KnowsContent(r)' /\ Gated(r)'
    BY <1>3, <2>1, <2>2, <2>3 DEF AsksItsRow, KnowsContent, Gated, At
  <2> QED BY <1>1, <1>4, <2>1, <2>2, <2>4, GoesOnRecord
<1>5. ASSUME Named(a) = {}, Goto(r, "stamp"), UNCHANGED row PROVE RecordInv'
  <2> DEFINE z == [run[r] EXCEPT !.pc = "stamp"]
  <2>1. z \in Runner /\ z.pc = "stamp" /\ z.aud = a
    BY <1>2 DEF Runner, Steps, Claimed
  <2>2. run' = [run EXCEPT ![r] = z] /\ run'[r] = z
    BY <1>5, <2>1 DEF IInv, TypeOK, Goto
  <2> HIDE DEF z
  <2>3. NamedOurs(a)'
    BY <1>1, <1>5, <2>1, <2>2 DEF NamedOurs, Named
  <2>4. AsksItsRow(r)' /\ KnowsContent(r)' /\ Gated(r)'
    BY <2>1, <2>2, <2>3 DEF AsksItsRow, KnowsContent, Gated, At
  <2> QED BY <1>1, <1>5, <2>1, <2>2, <2>4, GoesOnRecord
<1>6. ASSUME NEW kind \in {"rejected", "unknown"},
             NEW s \in CreateFailures(row[a], kind, TRUE), FinishStep(r, s), Leave(r)
      PROVE  RecordInv'
  <2>1. TidyRows(r)
    BY <1>1, <1>6, CreateFailureTidies
  <2> QED BY <1>1, <1>6, <2>1, TidyRests
<1> QED BY <1>4, <1>5, <1>6 DEF Lookup

LEMMA AdoptRecord ==
    ASSUME IInv, RecordInv, NEW r \in Runners, Adopt(r)
    PROVE  RecordInv'
<1> DEFINE a == run[r].aud
           c == run[r].camp
<1>1. At(r, "adopt") /\ run[r].pc \in Claimed /\ UNCHANGED <<row, prov, wire>>
      /\ WireTidy /\ wire' \subseteq Request
  BY StillTidy DEF Adopt, At, Claimed
<1>2. /\ run[r] \in Runner /\ a \in Audiences /\ c \in Campaigns
      /\ prov[c].aud = a /\ prov[c].state # "NONE" /\ prov[c] \in Campaign
  BY <1>1, AtVersion, NoneIsNone
     DEF At, IInv, TypeOK, RunnerSound, RunnerCampaign, OnCampaign, ProviderSound
<1>3. prov[c].state \in Answers
  BY <1>2 DEF Campaign, Answers
<1>4. HasLookup /\ (run[r].mark => NamedOurs(a))
  BY <1>1 DEF RecordInv, RunnerRecord, KnowsContent, At
<1>5. PICK ans \in {"unknown", prov[c].state} :
        run' = [run EXCEPT ![r].pc = "adoptSave", ![r].ans = ans]
  BY DEF Adopt
<1> DEFINE z == [run[r] EXCEPT !.pc = "adoptSave", !.ans = ans]
<1>6. /\ z \in Runner /\ z.pc = "adoptSave" /\ z.aud = a /\ z.camp = c
      /\ z.mark = run[r].mark /\ z.ans = ans
  BY <1>2, <1>3, <1>5 DEF Runner, Steps, Claimed, Answers
<1>7. run' = [run EXCEPT ![r] = z] /\ run'[r] = z
  BY <1>5, <1>6 DEF IInv, TypeOK
<1> HIDE DEF z
<1>8. ans \notin {"unknown", "DRAFT"} => Accepted(c)
  BY <1>3, <1>5 DEF Accepted, Answers
<1>9. run[r].mark => NamedOurs(a)'
  BY <1>1, <1>4, <1>6, <1>7 DEF NamedOurs, Named
<1>10. AsksItsRow(r)' /\ KnowsContent(r)' /\ Gated(r)'
  BY <1>1, <1>4, <1>6, <1>7, <1>8, <1>9 DEF AsksItsRow, KnowsContent, Gated, At, Accepted
<1> QED BY <1>1, <1>6, <1>7, <1>10, GoesOnRecord

\* persistCreated: the row gets its campaign, with its own content or marked adopted.
LEMMA SaveRecord ==
    ASSUME IInv, RecordInv, NEW r \in Runners, run[r].pc \in OnCampaign,
           NEW t, row[run[r].aud].camp = None, t.camp = run[r].camp, t.state = "CREATED",
           t.content = row[run[r].aud].content, t.createSent = row[run[r].aud].createSent,
           \/ t.own /\ t.adopted
           \/ Accepted(run[r].camp)
           \/ prov[run[r].camp].content = row[run[r].aud].content,
           row' = [row EXCEPT ![run[r].aud] = t],
           NEW p \in {"adoptMark", "created"}, Goto(r, p),
           p = "adoptMark" => Accepted(run[r].camp),
           UNCHANGED <<prov, wire>>
    PROVE  RecordInv'
<1> DEFINE a == run[r].aud
           c == run[r].camp
<1>1. /\ a \in Audiences /\ run \in [Runners -> Runner] /\ row \in [Audiences -> Row]
      /\ run[r] \in Runner /\ c \in Campaigns /\ wire \subseteq Request
  BY AtVersion DEF OnCampaign, IInv, TypeOK, RunnerSound, RunnerCampaign
<1>2. row'[a] = t /\ \A b \in Audiences : b # a => row'[b] = row[b]
  BY <1>1
<1>3. /\ run'[r] = [run[r] EXCEPT !.pc = p] /\ run'[r].pc = p /\ run'[r].aud = a
      /\ run'[r].camp = c /\ \A q \in Runners : q # r => run'[q] = run[q]
  BY <1>1 DEF Goto, Runner
<1>4. \A b \in Audiences : row'[b].content = row[b].content /\ row'[b].createSent = row[b].createSent
  BY <1>2
<1>5. \A b \in Audiences : NamedOurs(b) => NamedOurs(b)'
  BY <1>4 DEF NamedOurs, Named
<1>6. HandedOverAccepted'
  BY <1>1, <1>2 DEF RecordInv, HandedOverAccepted, HandedOver, Accepted
<1>7. DoneSchedules'
  BY DEF RecordInv, DoneSchedules, Accepted
<1>8. CreatesOurs'
  BY <1>1, <1>4, <1>5 DEF RecordInv, CreatesOurs, Request
<1>9. DraftsSeen'
  BY <1>1, <1>2 DEF RecordInv, DraftsSeen, Accepted
<1>10. RunnerRecord(r)'
  BY <1>2, <1>3 DEF RunnerRecord, HolderFindsOpen, AsksItsRow, KnowsContent, Gated, At,
                    Claimed, Accepted
<1>11. ASSUME NEW q \in Runners, q # r PROVE RunnerRecord(q)'
  <2> DEFINE b == run[q].aud
  <2>1. /\ run'[q] = run[q] /\ RunnerSound(q) /\ RunnerRecord(q)
        /\ (run[q].pc \notin {"idle", "press", "look"} => b \in Audiences)
    BY <1>3, <1>11 DEF IInv, RecordInv, RunnerSound, OnVersion
  <2>2. run[q].pc \in FromRow \cup {"verify", "resolve", "claimResolve"} => b # a
    BY <2>1, NoneIsNone DEF RunnerSound, RunnerCampaign, RunnerRecord, AsksItsRow, At
  <2>3. HolderFindsOpen(q)'
    BY <1>2, <2>1 DEF RunnerRecord, HolderFindsOpen, Holds, Claimed
  <2>4. AsksItsRow(q)'
    BY <1>2, <2>1, <2>2 DEF RunnerRecord, AsksItsRow, At, Accepted
  <2>5. KnowsContent(q)'
    BY <1>4, <1>5, <2>1 DEF RunnerRecord, KnowsContent, At
  <2>6. Gated(q)'
    BY <1>2, <2>1, <2>2 DEF RunnerRecord, Gated, FromRow, GatePassed, AwaitingOwnApproval
  <2> QED BY <2>3, <2>4, <2>5, <2>6 DEF RunnerRecord
<1> QED BY <1>6, <1>7, <1>8, <1>9, <1>10, <1>11 DEF RecordInv
\* Letting go of a row as it is.
LEMMA LetGoTidies ==
    ASSUME IInv, NEW r, NEW a \in Audiences, row' = [row EXCEPT ![a] = Released(row[a])]
    PROVE  TidyRows(r)
<1> DEFINE s == row[a]
<1>1. row \in [Audiences -> Row] /\ s \in Row
  BY DEF IInv, TypeOK
<1>2. /\ Released(s).claim = None /\ Released(s).camp = s.camp
      /\ Released(s).content = s.content /\ Released(s).own = s.own
      /\ Released(s).adopted = s.adopted /\ Released(s).approved = s.approved
      /\ Released(s).createSent = s.createSent /\ Released(s).state = s.state
  BY <1>1 DEF Released, Row
<1>3. Tidy(s, Released(s), r)
  BY <1>2 DEF Tidy, Calm, HandedOver
<1>4. \A b \in Audiences : b # a => Tidy(row[b], row[b], r)
  BY DEF Tidy, Calm
<1> QED BY <1>1, <1>3, <1>4 DEF TidyRows

LEMMA AdoptSaveRecord ==
    ASSUME IInv, RecordInv, NEW r \in Runners, AdoptSave(r)
    PROVE  RecordInv'
<1> DEFINE x == run[r]
           a == x.aud
           s == row[a]
           c == x.camp
           marked == [s EXCEPT !.schedMark = TRUE]
           foreign == [marked EXCEPT !.adopted = TRUE, !.own = TRUE, !.approved = FALSE]
           saved(e) == [e EXCEPT !.camp = c, !.state = "CREATED", !.waiting = FALSE, !.err = "none"]
           ahead == x.ans \notin {"unknown", "DRAFT"}
           e1 == marked
           e2 == Released(marked)
           e3 == Released(foreign)
<1>1. x.pc = "adoptSave" /\ x.pc \in OnCampaign /\ UNCHANGED <<prov, wire>>
      /\ x.pc \notin {"idle", "press", "look"} /\ At(r, "adoptSave")
  BY DEF AdoptSave, At, OnCampaign
<1>2. a \in Audiences /\ s \in Row /\ x \in Runner
  BY <1>1, AtVersion
<1>3. /\ c \in Campaigns /\ prov[c].aud = a
      /\ ahead => Accepted(c)
      /\ x.mark => prov[c].content = s.content
  BY <1>1 DEF IInv, RunnerSound, RunnerCampaign, RecordInv, RunnerRecord, AsksItsRow,
              KnowsContent, NamedOurs, Named, At
<1>4. marked \in Row /\ marked.content = s.content /\ marked.createSent = s.createSent
  BY <1>2 DEF Row
<1> HIDE DEF marked
<1>5. /\ foreign \in Row /\ foreign.content = s.content /\ foreign.createSent = s.createSent
      /\ foreign.own /\ foreign.adopted
  BY <1>4 DEF Row
<1> HIDE DEF foreign
<1>6. \A e \in Row : LET u == saved(e) IN
        /\ u.camp = c /\ u.state = "CREATED" /\ u.content = e.content
        /\ u.createSent = e.createSent /\ u.own = e.own /\ u.adopted = e.adopted
  BY DEF Row
<1>7. \A e \in Row : /\ Released(e) \in Row /\ Released(e).content = e.content
                     /\ Released(e).createSent = e.createSent
                     /\ Released(e).own = e.own /\ Released(e).adopted = e.adopted
  BY DEF Row, Released
<1>8. \/ \E e \in Row, p \in {"adoptMark", "created"} :
            /\ e.content = s.content /\ e.createSent = s.createSent
            /\ \/ e.own /\ e.adopted
               \/ Accepted(c)
               \/ prov[c].content = s.content
            /\ p = "adoptMark" => Accepted(c)
            /\ s.camp = None /\ row' = [row EXCEPT ![a] = saved(e)] /\ Goto(r, p)
      \/ (row' = [row EXCEPT ![a] = Released(s)] \/ row' = row) /\ Leave(r)
  <2>1. CASE ahead
    <3>1. SaveId(r, s, marked, "adoptMark",
                 IF s.claim = r THEN [row EXCEPT ![a] = Released(s)] ELSE row)
      BY <2>1 DEF AdoptSave, marked
    <3> QED BY <1>3, <1>4, <2>1, <3>1 DEF SaveId, NoIdYet
  <2>2. CASE ~ahead
    <3> DEFINE e == Released(IF x.mark THEN marked ELSE foreign)
    <3>1. SaveId(r, s, e, "created", row)
      BY <2>2 DEF AdoptSave, marked, foreign
    <3>2. /\ e \in Row /\ e.content = s.content /\ e.createSent = s.createSent
          /\ (e.own /\ e.adopted) \/ prov[c].content = s.content
      BY <1>3, <1>4, <1>5, <1>7
    <3> HIDE DEF e
    <3> QED BY <3>1, <3>2 DEF SaveId, NoIdYet
  <2> QED BY <2>1, <2>2
<1>9. ASSUME NEW e \in Row, NEW p \in {"adoptMark", "created"},
             e.content = s.content, e.createSent = s.createSent,
             (e.own /\ e.adopted) \/ Accepted(c) \/ prov[c].content = s.content,
             p = "adoptMark" => Accepted(c),
             s.camp = None, row' = [row EXCEPT ![a] = saved(e)], Goto(r, p)
      PROVE  RecordInv'
  <2>1. LET u == saved(e) IN
        /\ u.camp = c /\ u.state = "CREATED" /\ u.content = s.content
        /\ u.createSent = s.createSent /\ u.own = e.own /\ u.adopted = e.adopted
    BY <1>6, <1>9
  <2> HIDE DEF saved
  <2> QED BY <1>1, <1>9, <2>1, SaveRecord
<1>10. CASE (row' = [row EXCEPT ![a] = Released(s)] \/ row' = row) /\ Leave(r)
  <2>1. TidyRows(r)
    BY <1>2, <1>10, LetGoTidies, StillTidy
  <2> QED BY <1>1, <1>10, <2>1, StillTidy, TidyRests
<1> QED BY <1>8, <1>9, <1>10

LEMMA PersistRecord ==
    ASSUME IInv, RecordInv, NEW r \in Runners, Persist(r)
    PROVE  RecordInv'
<1> DEFINE a == run[r].aud
           s == row[a]
           t == [Released(s) EXCEPT !.camp = run[r].camp, !.state = "CREATED",
                                    !.waiting = FALSE, !.err = "none"]
<1>1. run[r].pc = "persist" /\ run[r].pc \in OnCampaign /\ UNCHANGED <<prov, wire>>
  BY DEF Persist, At, OnCampaign
<1>2. a \in Audiences /\ s \in Row
  BY <1>1, AtVersion
<1>3. prov[run[r].camp].content = s.content
  BY <1>1 DEF RecordInv, RunnerRecord, KnowsContent, At
<1>4. Released(s) \in Row /\ Released(s).content = s.content
      /\ Released(s).createSent = s.createSent
  BY <1>2 DEF Row, Released
<1>5. t.camp = run[r].camp /\ t.state = "CREATED" /\ t.content = s.content
      /\ t.createSent = s.createSent
  BY <1>4 DEF Row
<1> HIDE DEF t
<1>6. CASE s.camp = None /\ row' = [row EXCEPT ![a] = t] /\ Goto(r, "created")
  BY <1>1, <1>3, <1>5, <1>6, SaveRecord
<1>7. CASE UNCHANGED row /\ Leave(r)
  BY <1>1, <1>7, LeavesRests
<1> QED BY <1>6, <1>7 DEF Persist, SaveId, NoIdYet, t

LEMMA AdoptMarkRecord ==
    ASSUME IInv, RecordInv, NEW r \in Runners, AdoptMark(r)
    PROVE  RecordInv'
<1> DEFINE s == row[run[r].aud]
           t == [Scheduled(s) EXCEPT !.waiting = FALSE]
<1>1. At(r, "adoptMark") /\ run[r].pc \in Claimed /\ UNCHANGED <<prov, wire>> /\ s \in Row
  BY AtVersion DEF AdoptMark, At, Claimed
<1>2. s.camp \in Campaigns /\ Accepted(s.camp)
  BY <1>1 DEF IInv, RunnerSound, RunnerCampaign, FromRow, RecordInv, RunnerRecord, AsksItsRow, At
<1>3. Plain(s, t) /\ \A u \in ProviderFailures(s) : Plain(s, u)
  BY <1>1, PlainEdits
<1> HIDE DEF t
<1>4. CASE FinishStep(r, t) /\ Goto(r, "created")
  <2>1. "created" \in Resting
    BY DEF Resting, Steps, Claimed
  <2> QED BY <1>1, <1>2, <1>3, <1>4, <2>1, FinishRests
<1>5. CASE (\E u \in ProviderFailures(s) : FinishStep(r, u)) /\ Leave(r)
  BY <1>1, <1>2, <1>3, <1>5, FinishRests
<1> QED BY <1>4, <1>5 DEF AdoptMark, t
-----------------------------------------------------------------------------
(* Calls and replies                                                       *)

\* The write-ahead stamp of a create, and the call: it carries the row's content.
LEMMA StampRecord ==
    ASSUME IInv, RecordInv, NEW r \in Runners, Stamp(r)
    PROVE  RecordInv'
<1> DEFINE a == run[r].aud
           t == [row[a] EXCEPT !.createMark = TRUE, !.createSent = TRUE]
           q == [op |-> "create", by |-> r, aud |-> a, camp |-> None,
                 content |-> row[a].content, live |-> TRUE, done |-> FALSE]
<1>1. run[r].pc = "stamp" /\ At(r, "stamp") /\ UNCHANGED prov
  BY DEF Stamp, At
<1>2. a \in Audiences /\ row \in [Audiences -> Row] /\ row[a] \in Row
      /\ run \in [Runners -> Runner] /\ run[r] \in Runner
  BY <1>1, AtVersion
<1>3. CASE Holds(r)
  <2>1. row' = [row EXCEPT ![a] = t] /\ wire' = wire \cup {q} /\ Goto(r, "create")
    BY <1>2, <1>3 DEF Stamp
  <2>2. /\ t.camp = row[a].camp /\ t.content = row[a].content /\ t.own = row[a].own
        /\ t.adopted = row[a].adopted /\ t.approved = row[a].approved
        /\ t.state = row[a].state /\ t.claim = row[a].claim
    BY <1>2 DEF Row
  <2>3. q.op = "create" /\ ~q.done /\ q.content = row[a].content /\ q.aud = a
    OBVIOUS
  <2> HIDE DEF t, q
  <2>4. row'[a] = t /\ \A b \in Audiences : b # a => row'[b] = row[b]
    BY <1>2, <2>1
  <2>5. CalmRows(r)
    <3>1. Calm(row[a], t, r)
      BY <2>2 DEF Calm, HandedOver
    <3>2. \A b \in Audiences : b # a => Calm(row[b], row[b], r)
      BY DEF Calm
    <3> QED BY <2>4, <3>1, <3>2 DEF CalmRows
  <2>6. \A b \in Audiences : row'[b].content = row[b].content
    BY <2>2, <2>4
  <2>7. CreatesOurs'
    <3>1. HasLookup => NamedOurs(a)
      BY <1>1 DEF RecordInv, RunnerRecord, KnowsContent
    <3>2. \A b \in Audiences : HasLookup /\ row'[b].createSent => NamedOurs(b)'
      BY <1>1, <2>4, <2>6, <3>1 DEF RecordInv, CreatesOurs, NamedOurs, Named
    <3>3. wire \subseteq Request
      BY DEF IInv, TypeOK
    <3>4. \A p \in wire' : p.op = "create" =>
            p.content = row'[p.aud].content /\ (p.done => prov'[p.camp].content = p.content)
      BY <1>1, <1>2, <2>1, <2>3, <2>6, <3>3 DEF RecordInv, CreatesOurs, Request
    <3> QED BY <3>2, <3>4 DEF CreatesOurs
  <2>8. HandedOverAccepted' /\ DraftsSeen'
    BY <1>1, <2>5 DEF RecordInv, HandedOverAccepted, DraftsSeen, CalmRows, Calm, Accepted
  <2>9. DoneSchedules'
    BY <1>1, <2>1, <2>3 DEF RecordInv, DoneSchedules, Accepted
  <2>10. run'[r].pc = "create" /\ run'[r].aud = a
         /\ \A p \in Runners : p # r => run'[p] = run[p]
    BY <1>2, <2>1 DEF Goto, Runner
  <2>11. RunnerRecord(r)'
    <3>1. HolderFindsOpen(r)'
      BY <1>1, <1>3, <2>2, <2>4, <2>10
         DEF RecordInv, RunnerRecord, HolderFindsOpen, Holds, Claimed
    <3> QED BY <2>10, <3>1 DEF RunnerRecord, AsksItsRow, KnowsContent, Gated, At
  <2> QED BY <1>1, <2>5, <2>7, <2>8, <2>9, <2>10, <2>11, OtherRecord DEF RecordInv
<1>4. CASE ~Holds(r)
  BY <1>1, <1>4, LeavesRests DEF Stamp
<1> QED BY <1>3, <1>4

LEMMA ReplyTidy ==
    ASSUME IInv, NEW r \in Runners, NEW op, NEW q \in MyCall(r, op),
           wire' = wire \ {q} \/ GiveUp(q)
    PROVE  WireTidy /\ wire' \subseteq Request
<1> DEFINE off == [q EXCEPT !.live = FALSE]
<1>1. q \in wire /\ q \in Request /\ wire \subseteq Request
  BY DEF MyCall, IInv, TypeOK
<1>2. off \in Request /\ off.op = q.op /\ off.aud = q.aud /\ off.camp = q.camp
      /\ off.content = q.content /\ off.done = q.done
  BY <1>1 DEF Request
<1> HIDE DEF off
<1>3. wire' = wire \ {q} \/ wire' = (wire \ {q}) \cup {off}
  BY DEF GiveUp, off
<1> QED BY <1>1, <1>2, <1>3 DEF WireTidy

\* The caller of a request is at its step, on the request's version.
LEMMA CallerKnown ==
    ASSUME IInv, NEW r \in Runners, NEW op, NEW q \in MyCall(r, op)
    PROVE  q \in wire /\ q.op = op /\ q.aud = run[r].aud
BY DEF MyCall, IInv, RunnerSound, CallsOf

LEMMA CreateReplyRecord ==
    ASSUME IInv, RecordInv, NEW r \in Runners, CreateReply(r)
    PROVE  RecordInv'
<1> DEFINE a == run[r].aud
<1>1. At(r, "create") /\ run[r].pc \in Claimed /\ UNCHANGED prov
  BY DEF CreateReply, At, Claimed
<1>2. run[r] \in Runner /\ a \in Audiences
  BY <1>1, AtVersion DEF At
<1>3. PICK q \in MyCall(r, "create") :
        \/ /\ q.done /\ wire' = wire \ {q}
           /\ run' = [run EXCEPT ![r].pc = "persist", ![r].camp = q.camp]
           /\ UNCHANGED row
        \/ /\ wire' = wire \ {q} \/ GiveUp(q)
           /\ \E kind : \E s \in CreateFailures(row[q.aud], kind, FALSE) : FinishStep(r, s)
           /\ Leave(r)
  BY DEF CreateReply
<1>4. q \in wire /\ q.op = "create" /\ q.aud = a
  BY CallerKnown
<1>5. WireTidy /\ wire' \subseteq Request
  BY <1>3, ReplyTidy
<1>6. CASE /\ q.done
           /\ run' = [run EXCEPT ![r].pc = "persist", ![r].camp = q.camp]
           /\ UNCHANGED row
  <2> DEFINE z == [run[r] EXCEPT !.pc = "persist", !.camp = q.camp]
  <2>1. q.camp \in Campaigns /\ prov[q.camp].content = row[a].content
    BY <1>4, <1>6 DEF IInv, CreateRequests, RecordInv, CreatesOurs
  <2>2. z \in Runner /\ z.pc = "persist" /\ z.aud = a /\ z.camp = q.camp
    BY <1>2, <2>1 DEF Runner, Steps, Claimed
  <2>3. run' = [run EXCEPT ![r] = z] /\ run'[r] = z
    BY <1>6, <2>2 DEF IInv, TypeOK
  <2> HIDE DEF z
  <2>4. AsksItsRow(r)' /\ KnowsContent(r)' /\ Gated(r)'
    BY <1>1, <1>6, <2>1, <2>2, <2>3 DEF AsksItsRow, KnowsContent, Gated, At
  <2> QED BY <1>1, <1>5, <1>6, <2>2, <2>3, <2>4, GoesOnRecord
<1>7. CASE /\ \E kind : \E s \in CreateFailures(row[q.aud], kind, FALSE) : FinishStep(r, s)
           /\ Leave(r)
  <2>1. TidyRows(r)
    BY <1>1, <1>4, <1>7, CreateFailureTidies
  <2> QED BY <1>1, <1>5, <1>7, <2>1, TidyRests
<1> QED BY <1>3, <1>6, <1>7

LEMMA AskStatusRecord ==
    ASSUME IInv, RecordInv, NEW r \in Runners, AskStatus(r)
    PROVE  RecordInv'
<1> DEFINE x == run[r]
           a == x.aud
           s == row[a]
           st == prov[x.camp].state
<1>1. At(r, "status") /\ x.pc \in Claimed /\ UNCHANGED <<prov, wire>> /\ s \in Row
      /\ a \in Audiences /\ x \in Runner
  BY AtVersion DEF AskStatus, At, Claimed
<1>2. s.camp = x.camp /\ s.camp \in Campaigns /\ s.camp # None /\ GatePassed(a)
  BY <1>1, NoneIsNone DEF IInv, RunnerSound, RunnerCampaign, FromRow,
                          RecordInv, RunnerRecord, Gated, At
<1>3. \/ FinishStep(r, ScheduleFailure(s, "unknown")) /\ Leave(r)
      \/ st = "DRAFT" /\ Goto(r, "stampSched") /\ UNCHANGED row
      \/ /\ st \in {"FAILED", "SCHEDULED", "SENT"}
         /\ \E t \in ProviderFailures(s) \cup {Scheduled(s)} : FinishStep(r, t)
         /\ Leave(r) \/ Goto(r, "scheduled")
  BY DEF AskStatus, StillDraft
<1>4. CASE FinishStep(r, ScheduleFailure(s, "unknown")) /\ Leave(r)
  <2>1. Plain(s, ScheduleFailure(s, "unknown")) /\ ~HandedOver(ScheduleFailure(s, "unknown"))
    BY <1>1, PlainEdits
  <2> QED BY <1>1, <1>4, <2>1, FinishRests
<1>5. CASE st = "DRAFT" /\ Goto(r, "stampSched") /\ UNCHANGED row
  <2> DEFINE z == [x EXCEPT !.pc = "stampSched"]
  <2>1. z \in Runner /\ z.pc = "stampSched" /\ z.aud = a /\ z.camp = s.camp
    BY <1>1, <1>2 DEF Runner, Steps, Claimed
  <2>2. run' = [run EXCEPT ![r] = z] /\ run'[r] = z
    BY <1>5, <2>1 DEF IInv, TypeOK, Goto
  <2> HIDE DEF z
  <2>3. prov[s.camp].content # s.content => s.own /\ s.adopted
    BY <1>1, <1>2, <1>5 DEF RecordInv, DraftsSeen, Accepted
  <2>4. GatePassed(a)'
    BY <1>2, <1>5, <2>1, <2>2 DEF GatePassed
  <2>5. AsksItsRow(r)' /\ KnowsContent(r)' /\ Gated(r)'
    BY <1>1, <1>5, <2>1, <2>2, <2>3, <2>4 DEF AsksItsRow, KnowsContent, Gated, At
  <2> QED BY <1>1, <1>5, <2>1, <2>2, <2>5, StillTidy, GoesOnRecord
<1>6. CASE /\ st \in {"FAILED", "SCHEDULED", "SENT"}
           /\ \E t \in ProviderFailures(s) \cup {Scheduled(s)} : FinishStep(r, t)
           /\ Leave(r) \/ Goto(r, "scheduled")
  <2>1. PICK t \in ProviderFailures(s) \cup {Scheduled(s)} : FinishStep(r, t)
    BY <1>6
  <2>2. Plain(s, t)
    BY <1>1, PlainEdits
  <2>3. Accepted(s.camp)
    BY <1>2, <1>6 DEF Accepted
  <2>4. "scheduled" \in Resting
    BY DEF Resting, Steps, Claimed
  <2> QED BY <1>1, <1>2, <1>6, <2>1, <2>2, <2>3, <2>4, FinishRests
<1> QED BY <1>3, <1>4, <1>5, <1>6

LEMMA StampScheduleRecord ==
    ASSUME IInv, RecordInv, NEW r \in Runners, StampSchedule(r)
    PROVE  RecordInv'
<1> DEFINE x == run[r]
           a == x.aud
           s == row[a]
           m == Marked(s)
<1>1. At(r, "stampSched") /\ x.pc \in Claimed /\ UNCHANGED <<prov, wire>> /\ s \in Row
      /\ a \in Audiences /\ x \in Runner /\ row \in [Audiences -> Row]
      /\ run \in [Runners -> Runner]
  BY AtVersion DEF StampSchedule, At, Claimed
<1>2. s.camp = x.camp /\ s.camp # None /\ GatePassed(a)
      /\ (prov[x.camp].content # s.content => s.own /\ s.adopted)
  BY <1>1, NoneIsNone DEF IInv, RunnerSound, RunnerCampaign, FromRow,
                          RecordInv, RunnerRecord, Gated, At
<1>3. CASE Holds(r)
  <2>1. row' = [row EXCEPT ![a] = m] /\ Goto(r, "issue")
    BY <1>1, <1>3 DEF StampSchedule
  <2>2. Plain(s, m) /\ m.state = s.state
    BY <1>1, PlainMarks DEF Marked
  <2> HIDE DEF m
  <2>3. TidyRows(r)
    BY <1>1, <2>1, <2>2, EditTidies
  <2>4. row'[a] = m
    BY <1>1, <2>1
  <2>5. /\ run'[r].pc = "issue" /\ run'[r].aud = a /\ run'[r].camp = x.camp
        /\ \A q \in Runners : q # r => run'[q] = run[q]
    BY <1>1, <2>1 DEF Goto, Runner
  <2>6. HolderFindsOpen(r)'
    BY <1>1, <1>3, <2>2, <2>4, <2>5 DEF RecordInv, RunnerRecord, HolderFindsOpen
  <2>7. Gated(r)'
    BY <1>1, <1>2, <2>2, <2>4, <2>5 DEF Gated, GatePassed, AwaitingOwnApproval, Plain
  <2>8. RunnerRecord(r)'
    BY <2>5, <2>6, <2>7 DEF RunnerRecord, AsksItsRow, KnowsContent, At
  <2> QED BY <1>1, <2>3, <2>5, <2>8, StillTidy, TidyKeeps
<1>4. CASE ~Holds(r)
  BY <1>1, <1>4, LeavesRests DEF StampSchedule
<1> QED BY <1>3, <1>4

LEMMA IssueScheduleRecord ==
    ASSUME IInv, RecordInv, NEW r \in Runners, IssueSchedule(r)
    PROVE  RecordInv'
<1> DEFINE x == run[r]
           a == x.aud
           s == row[a]
           t == [s EXCEPT !.schedMark = x.mark]
           q == [op |-> "schedule", by |-> r, aud |-> a, camp |-> x.camp,
                 content |-> 0, live |-> TRUE, done |-> FALSE]
<1>1. At(r, "issue") /\ x.pc \in Claimed /\ UNCHANGED prov /\ s \in Row
      /\ a \in Audiences /\ x \in Runner /\ row \in [Audiences -> Row] /\ x.mark \in BOOLEAN
  BY AtVersion DEF IssueSchedule, At, Claimed, Runner
<1>2. CASE FinishStep(r, t) /\ UNCHANGED wire /\ Leave(r)
  <2>1. Plain(s, t) /\ t.state = s.state
    BY <1>1, PlainMarks
  <2> HIDE DEF t
  <2>2. HandedOver(t) => HandedOver(s)
    BY <2>1 DEF HandedOver
  <2> QED BY <1>1, <1>2, <2>1, <2>2, FinishRests
<1>3. CASE wire' = wire \cup {q} /\ UNCHANGED row /\ Goto(r, "sched")
  <2> DEFINE z == [x EXCEPT !.pc = "sched"]
  <2>1. z \in Runner /\ z.pc = "sched" /\ z.aud = a
    BY <1>1 DEF Runner, Steps, Claimed
  <2>2. run' = [run EXCEPT ![r] = z] /\ run'[r] = z
    BY <1>3, <2>1 DEF IInv, TypeOK, Goto
  <2> HIDE DEF z
  <2>3. x.camp \in Campaigns
    BY <1>1 DEF IInv, RunnerSound, RunnerCampaign, FromRow, At
  <2>4. q \in Request /\ q.op = "schedule" /\ ~q.done
    BY <1>1, <2>3 DEF Request
  <2> HIDE DEF q
  <2>5. WireTidy /\ wire' \subseteq Request
    BY <1>3, <2>4 DEF WireTidy, IInv, TypeOK
  <2>6. AsksItsRow(r)' /\ KnowsContent(r)' /\ Gated(r)'
    BY <2>1, <2>2 DEF AsksItsRow, KnowsContent, Gated, At
  <2> QED BY <1>1, <1>3, <2>1, <2>2, <2>5, <2>6, GoesOnRecord
<1> QED BY <1>2, <1>3 DEF IssueSchedule

LEMMA ScheduleReplyRecord ==
    ASSUME IInv, RecordInv, NEW r \in Runners, ScheduleReply(r)
    PROVE  RecordInv'
<1> DEFINE s == row[run[r].aud]
<1>1. At(r, "sched") /\ run[r].pc \in Claimed /\ UNCHANGED prov /\ s \in Row
  BY AtVersion DEF ScheduleReply, At, Claimed
<1>2. PICK q \in MyCall(r, "schedule") :
        /\ wire' = wire \ {q} \/ GiveUp(q)
        /\ \/ q.done /\ FinishStep(r, Scheduled(s)) /\ Goto(r, "scheduled")
           \/ (\E kind : FinishStep(r, ScheduleFailure(s, kind))) /\ Leave(r)
  BY DEF ScheduleReply
<1>3. WireTidy /\ wire' \subseteq Request
  BY <1>2, ReplyTidy
<1>4. q \in wire /\ q.op = "schedule" /\ q.aud = run[r].aud
  BY CallerKnown
<1>5. s.camp \in Campaigns /\ (q.done => Accepted(s.camp))
  BY <1>4 DEF IInv, ScheduleRequests, RecordInv, DoneSchedules
<1>6. CASE q.done /\ FinishStep(r, Scheduled(s)) /\ Goto(r, "scheduled")
  <2>1. Plain(s, Scheduled(s))
    BY <1>1, PlainEdits
  <2>2. TidyRows(r)
    BY <1>1, <1>5, <1>6, <2>1, FinishTidies
  <2>3. "scheduled" \in Resting
    BY DEF Resting, Steps, Claimed
  <2> QED BY <1>1, <1>3, <1>6, <2>2, <2>3, TidyRests
<1>7. ASSUME NEW kind, FinishStep(r, ScheduleFailure(s, kind)), Leave(r) PROVE RecordInv'
  <2>1. Plain(s, ScheduleFailure(s, kind)) /\ ~HandedOver(ScheduleFailure(s, kind))
    BY <1>1, PlainEdits
  <2>2. TidyRows(r)
    BY <1>1, <1>7, <2>1, FinishTidies
  <2> QED BY <1>1, <1>3, <1>7, <2>2, TidyRests
<1> QED BY <1>2, <1>6, <1>7

-----------------------------------------------------------------------------
(* The provider, the backup, and every step                                *)

\* A campaign keeps its version and content, and stays accepted; a new one has its
\* version's content. Requests take effect, and nothing else about them changes.
ProvGrows ==
    /\ \A c \in Campaigns : prov[c].state # "NONE" =>
         /\ prov'[c].aud = prov[c].aud /\ prov'[c].content = prov[c].content
         /\ Accepted(c) => Accepted(c)'
    /\ \A c \in Campaigns : prov[c].state = "NONE" =>
         \/ prov'[c] = prov[c]
         \/ prov'[c].aud \in Audiences /\ prov'[c].content = row[prov'[c].aud].content
    /\ \A p \in wire' :
         /\ p.op = "schedule" /\ p.done => Accepted(p.camp)'
         /\ p.op = "create" =>
              /\ p.content = row[p.aud].content
              /\ p.done => prov'[p.camp].content = p.content

\* What the provider does keeps what the rows and the runners know of it.
LEMMA ProvGrowsKeeps ==
    ASSUME IInv, RecordInv, UNCHANGED <<row, run>>, ProvGrows
    PROVE  RecordInv'
<1>1. \A c \in Campaigns : prov[c].aud # None => prov[c].state # "NONE"
  BY DEF IInv, ProviderSound
<1>2. \A a \in Audiences : row[a].camp # None =>
        row[a].camp \in Campaigns /\ prov[row[a].camp].state # "NONE"
  BY <1>1, NoneIsNone DEF IInv, TypeOK, Row, IdsReal
<1>3. \A a \in Audiences : NamedOurs(a) => NamedOurs(a)'
  <2> SUFFICES ASSUME NEW a \in Audiences, NamedOurs(a),
                      NEW c \in Campaigns, prov'[c].aud = a
               PROVE  prov'[c].content = row[a].content
    BY DEF NamedOurs, Named
  <2>1. CASE prov[c].state # "NONE"
    BY <2>1 DEF ProvGrows, NamedOurs, Named
  <2>2. CASE prov[c].state = "NONE"
    BY <2>2, NoneIsNone DEF ProvGrows, IInv, ProviderSound
  <2> QED BY <2>1, <2>2
<1>4. HandedOverAccepted'
  BY <1>2, NoneIsNone DEF RecordInv, HandedOverAccepted, ProvGrows
<1>5. DoneSchedules'
  BY DEF DoneSchedules, ProvGrows
<1>6. CreatesOurs'
  BY <1>3 DEF RecordInv, CreatesOurs, ProvGrows
<1>7. DraftsSeen'
  BY <1>2 DEF RecordInv, DraftsSeen, ProvGrows
<1>8. ASSUME NEW r \in Runners PROVE RunnerRecord(r)'
  <2> DEFINE a == run[r].aud
             c == run[r].camp
  <2>1. RunnerRecord(r) /\ RunnerSound(r)
    BY DEF IInv, RecordInv
  <2>2. run[r].pc \notin {"idle", "press", "look"} => a \in Audiences
    BY <2>1 DEF RunnerSound, OnVersion
  <2>3. run[r].pc \in OnCampaign \cup FromRow => c \in Campaigns /\ prov[c].state # "NONE"
    BY <1>1, <1>2, <2>1, <2>2, NoneIsNone DEF RunnerSound, RunnerCampaign, OnCampaign, FromRow
  <2>4. HolderFindsOpen(r)'
    BY <2>1 DEF RunnerRecord, HolderFindsOpen, Holds
  <2>5. AsksItsRow(r)'
    BY <2>1, <2>3 DEF RunnerRecord, AsksItsRow, At, OnCampaign, FromRow, ProvGrows
  <2>6. KnowsContent(r)'
    BY <1>3, <2>1, <2>2, <2>3 DEF RunnerRecord, KnowsContent, At, OnCampaign, ProvGrows
  <2>7. Gated(r)'
    BY <2>1, <2>3 DEF RunnerRecord, Gated, GatePassed, AwaitingOwnApproval, FromRow, ProvGrows
  <2> QED BY <2>4, <2>5, <2>6, <2>7 DEF RunnerRecord
<1> QED BY <1>4, <1>5, <1>6, <1>7, <1>8 DEF RecordInv

LEMMA ProviderActsRecord ==
    ASSUME IInv, RecordInv, NEW q \in wire, ProviderActs(q)
    PROVE  RecordInv'
<1>1. /\ UNCHANGED <<row, run>> /\ q \in Request /\ prov \in [Campaigns -> Campaign]
      /\ \A p \in wire : p \in Request
  BY DEF ProviderActs, IInv, TypeOK
<1>2. \A p \in wire : /\ p.op = "schedule" /\ p.done => Accepted(p.camp)
                      /\ p.op = "schedule" => p.camp \in Campaigns
                      /\ p.op = "create" =>
                           /\ p.content = row[p.aud].content
                           /\ p.done => /\ p.camp \in Campaigns /\ prov[p.camp].aud = p.aud
                                        /\ prov[p.camp].content = p.content
  BY DEF RecordInv, DoneSchedules, CreatesOurs, IInv, CreateRequests, ScheduleRequests
<1>3. CASE q.op = "create"
  <2>1. PICK c \in Campaigns :
          /\ prov[c].state = "NONE"
          /\ prov' = [prov EXCEPT ![c] = [aud |-> q.aud, state |-> "DRAFT", content |-> q.content]]
          /\ wire' = (wire \ {q}) \cup (IF q.live THEN {[q EXCEPT !.done = TRUE, !.camp = c]} ELSE {})
    BY <1>3 DEF ProviderActs
  <2>2. /\ \A d \in Campaigns : d # c => prov'[d] = prov[d]
        /\ prov'[c].aud = q.aud /\ prov'[c].content = q.content
    BY <1>1, <2>1
  <2>3. \A p \in wire' :
          \/ p \in wire
          \/ p.op = "create" /\ p.aud = q.aud /\ p.content = q.content /\ p.camp = c
    BY <1>1, <1>3, <2>1 DEF Request
  <2>4. \A p \in wire : p.op = "create" /\ p.done => p.camp # c
    <3>1. prov[c].aud = None
      BY <2>1 DEF IInv, ProviderSound
    <3> QED BY <1>1, <1>2, <3>1, NoneIsNone DEF Request
  <2>5. q.aud \in Audiences
    BY <1>1 DEF Request
  <2>6. \A d \in Campaigns : Accepted(d) => Accepted(d)'
    BY <2>1, <2>2 DEF Accepted
  <2>7. ProvGrows
    <3>1. \A d \in Campaigns : prov[d].state # "NONE" =>
            /\ prov'[d].aud = prov[d].aud /\ prov'[d].content = prov[d].content
            /\ Accepted(d) => Accepted(d)'
      BY <2>1, <2>2, <2>6
    <3>2. \A d \in Campaigns : prov[d].state = "NONE" =>
            \/ prov'[d] = prov[d]
            \/ prov'[d].aud \in Audiences /\ prov'[d].content = row[prov'[d].aud].content
      BY <1>2, <1>3, <2>2, <2>5
    <3>3. \A p \in wire' : p.op = "schedule" /\ p.done => Accepted(p.camp)'
      BY <1>2, <2>3, <2>6
    <3>4. \A p \in wire' : p.op = "create" =>
              /\ p.content = row[p.aud].content
              /\ p.done => prov'[p.camp].content = p.content
      BY <1>2, <1>3, <2>2, <2>3, <2>4
    <3> QED BY <3>1, <3>2, <3>3, <3>4 DEF ProvGrows
  <2> QED BY <1>1, <2>7, ProvGrowsKeeps
<1>4. CASE q.op = "schedule"
  <2> DEFINE c == q.camp
  <2>1. /\ prov' = IF prov[c].state = "DRAFT"
                   THEN [prov EXCEPT ![c].state = "SCHEDULED"] ELSE prov
        /\ wire' = (wire \ {q}) \cup (IF q.live THEN {[q EXCEPT !.done = TRUE]} ELSE {})
    BY <1>4 DEF ProviderActs
  <2>2. c \in Campaigns /\ prov[c].state # "NONE"
    BY <1>1, <1>4, NoneIsNone DEF IInv, ScheduleRequests, IdsReal, ProviderSound, Request
  <2>3. Accepted(c)' /\ \A d \in Campaigns : Accepted(d) => Accepted(d)'
    BY <1>1, <2>1, <2>2 DEF Accepted, Campaign
  <2>4. \A d \in Campaigns : prov'[d].aud = prov[d].aud /\ prov'[d].content = prov[d].content
                             /\ (prov[d].state = "NONE" => prov'[d] = prov[d])
    BY <1>1, <2>1, <2>2 DEF Campaign
  <2>5. \A p \in wire' : p \in wire \/ (p.op = "schedule" /\ p.camp = c)
    BY <1>1, <1>4, <2>1 DEF Request
  <2>6. ProvGrows
    <3>1. \A p \in wire' : p.op = "schedule" /\ p.done => Accepted(p.camp)'
      BY <1>2, <2>3, <2>5
    <3>2. \A p \in wire' : p.op = "create" =>
              /\ p.content = row[p.aud].content
              /\ p.done => prov'[p.camp].content = p.content
      BY <1>2, <2>4, <2>5
    <3> QED BY <2>3, <2>4, <3>1, <3>2 DEF ProvGrows
  <2> QED BY <1>1, <2>6, ProvGrowsKeeps
<1> QED BY <1>3, <1>4 DEF ProviderActs

LEMMA DeliveredRecord ==
    ASSUME IInv, RecordInv, NEW c \in Campaigns, Delivered(c)
    PROVE  RecordInv'
<1>1. UNCHANGED <<row, run, wire>> /\ prov \in [Campaigns -> Campaign]
  BY DEF Delivered, IInv, TypeOK
<1>2. PICK st \in {"SENT", "FAILED"} : prov' = [prov EXCEPT ![c].state = st]
  BY DEF Delivered
<1>3. prov[c].state = "SCHEDULED"
  BY DEF Delivered
<1>4. \A d \in Campaigns : /\ prov'[d].aud = prov[d].aud /\ prov'[d].content = prov[d].content
                           /\ Accepted(d) => Accepted(d)'
                           /\ prov[d].state = "NONE" => prov'[d] = prov[d]
  BY <1>1, <1>2, <1>3 DEF Accepted, Campaign
<1>5. \A p \in wire' : p.op = "schedule" /\ p.done => Accepted(p.camp)'
  BY <1>1, <1>4 DEF RecordInv, DoneSchedules, IInv, ScheduleRequests
<1>6. \A p \in wire' : p.op = "create" =>
              /\ p.content = row[p.aud].content
              /\ p.done => prov'[p.camp].content = p.content
  BY <1>1, <1>4 DEF RecordInv, CreatesOurs, IInv, CreateRequests
<1>7. ProvGrows
  BY <1>4, <1>5, <1>6 DEF ProvGrows
<1> QED BY <1>1, <1>7, ProvGrowsKeeps

\* The freeze writes rows nobody has created, shown or sent anything of.
LEMMA FreshRests ==
    ASSUME NEW v \in Nat, NEW f \in FreshRows(v), NEW a \in Audiences
    PROVE  f[a].camp = None /\ ~f[a].createSent /\ ~HandedOver(f[a]) /\ ~Over(f[a])
<1>1. PICK blocked \in SUBSET Audiences : f = [b \in Audiences |-> FreshRow(b \in blocked, v)]
  BY DEF FreshRows
<1>2. f[a] = FreshRow(a \in blocked, v)
  BY <1>1
<1>3. f[a].camp = None /\ ~f[a].createSent /\ f[a].state \in {"PENDING", "FAILED"}
  BY <1>2 DEF FreshRow
<1> QED BY <1>3 DEF HandedOver, Over

\* Nobody at work, nothing in flight, every row fresh: nothing is owed.
LEMMA FreshRecord ==
    ASSUME NEW v \in Nat, row \in FreshRows(v), wire = {},
           \A r \in Runners : run[r].pc = "idle"
    PROVE  RecordInv
<1>1. \A a \in Audiences : row[a].camp = None /\ ~row[a].createSent /\ ~HandedOver(row[a])
  BY FreshRests
<1>2. HandedOverAccepted /\ DoneSchedules /\ CreatesOurs /\ DraftsSeen
  BY <1>1 DEF HandedOverAccepted, DoneSchedules, CreatesOurs, DraftsSeen
<1>3. \A r \in Runners : RunnerRecord(r)
  BY DEF RunnerRecord, HolderFindsOpen, AsksItsRow, KnowsContent, Gated, Claimed, At
<1> QED BY <1>2, <1>3 DEF RecordInv

LEMMA InitRecord == Init => RecordInv
<1> SUFFICES ASSUME Init PROVE RecordInv
  OBVIOUS
<1>1. \A r \in Runners : run[r].pc = "idle"
  BY DEF Init, Idle
<1> QED BY <1>1, FreshRecord DEF Init

LEMMA RestoreRecord ==
    ASSUME IInv, Restore
    PROVE  RecordInv'
<1>1. /\ restores + 1 \in Nat /\ row' \in FreshRows(restores + 1) /\ wire' = {}
      /\ \A r \in Runners : run'[r].pc = "idle"
  BY DEF Restore, At, IInv, TypeOK
<1>2. \A a \in Audiences : row'[a].camp = None /\ ~row'[a].createSent /\ ~HandedOver(row'[a])
  BY <1>1, FreshRests
<1>3. HandedOverAccepted' /\ DoneSchedules' /\ CreatesOurs' /\ DraftsSeen'
  BY <1>1, <1>2 DEF HandedOverAccepted, DoneSchedules, CreatesOurs, DraftsSeen
<1>4. \A r \in Runners : RunnerRecord(r)'
  BY <1>1 DEF RunnerRecord, HolderFindsOpen, AsksItsRow, KnowsContent, Gated, Claimed, At
<1> QED BY <1>3, <1>4 DEF RecordInv

LEMMA StillRecord ==
    ASSUME RecordInv, UNCHANGED vars
    PROVE  RecordInv'
<1>1. UNCHANGED <<row, prov, wire, run>>
  BY DEF vars
<1>2. HandedOverAccepted' /\ DoneSchedules' /\ CreatesOurs' /\ DraftsSeen'
  BY <1>1 DEF RecordInv, HandedOverAccepted, DoneSchedules, CreatesOurs, DraftsSeen, Accepted,
              NamedOurs, Named
<1>3. \A r \in Runners : RunnerRecord(r)'
  BY <1>1 DEF RecordInv, RunnerRecord, HolderFindsOpen, AsksItsRow, KnowsContent, Gated, At,
              Holds, Accepted, NamedOurs, Named, GatePassed, AwaitingOwnApproval
<1> QED BY <1>2, <1>3 DEF RecordInv

LEMMA StepRecord ==
    ASSUME IInv, RecordInv, NEW r \in Runners, Step(r)
    PROVE  RecordInv'
BY LookAgainRecord, RenderRecord, ConfigInvalidRecord, LookRecord,
   ClaimCreateRecord, LookupRecord, AdoptRecord, AdoptSaveRecord, AdoptMarkRecord,
   StampRecord, CreateReplyRecord, PersistRecord, ClaimScheduleRecord, GuardRefusesRecord,
   AskStatusRecord, StampScheduleRecord, IssueScheduleRecord, ScheduleReplyRecord,
   ClaimToAskRecord, VerifyRecord, SkipRecord, ResolveRecord, DoorsRecord
   DEF Step

LEMMA NextRecord == IInv /\ RecordInv /\ [Next]_vars => RecordInv'
<1> SUFFICES ASSUME IInv, RecordInv, [Next]_vars PROVE RecordInv'
  OBVIOUS
<1>1. CASE UNCHANGED vars
  BY <1>1, StillRecord
<1>2. CASE Next
  BY <1>2, StepRecord, CrashRecord, DoorsRecord, PressSendFreeRecord, OutsideRecord,
     RestoreRecord, ProviderActsRecord, DeliveredRecord
     DEF Next
<1> QED BY <1>1, <1>2

\* What the record owes the mail and the editor, in every state.
THEOREM RecordHolds == Spec => []RecordInv
<1>1. Init => RecordInv
  BY InitRecord
<1>2. IInv /\ RecordInv /\ [Next]_vars => RecordInv'
  BY NextRecord
<1> QED BY <1>1, <1>2, Invariance, PTL DEF Spec

-----------------------------------------------------------------------------
(* A version reported as sent stays so                                     *)

ReportedStays ==
    \A a \in Audiences : row[a].state \in Reported => row'[a].state = row[a].state

\* A write to one row that is not reported, or keeps its state.
LEMMA EditStays ==
    ASSUME IInv, NEW b \in Audiences, NEW t,
           row' = row \/ row' = [row EXCEPT ![b] = t],
           row[b].state \in Reported => t.state = row[b].state
    PROVE  ReportedStays
BY DEF IInv, TypeOK, ReportedStays

\* A holder's last write: it never found its version reported.
LEMMA FinishStays ==
    ASSUME IInv, RecordInv, NEW r \in Runners, run[r].pc \in Claimed,
           UNCHANGED row \/ \E t : FinishStep(r, t)
    PROVE  ReportedStays
<1>1. run[r].aud \in Audiences
  BY AtVersion DEF Claimed
<1>2. CASE UNCHANGED row
  BY <1>2 DEF ReportedStays
<1>3. CASE \E t : FinishStep(r, t)
  <2>1. PICK t : FinishStep(r, t)
    BY <1>3
  <2>2. CASE Holds(r)
    <3>1. row[run[r].aud].state \notin Reported
      BY <2>2 DEF RecordInv, RunnerRecord, HolderFindsOpen, Reported
    <3> QED BY <1>1, <2>1, <2>2, <3>1, EditStays DEF FinishStep
  <2>3. CASE ~Holds(r)
    BY <2>1, <2>3 DEF FinishStep, ReportedStays
  <2> QED BY <2>2, <2>3
<1> QED BY <1>2, <1>3

\* A claim's condition refuses a version that was reported.
LEMMA ClaimStays ==
    ASSUME IInv, NEW r \in Runners, run[r].pc \notin {"idle", "press", "look"},
           \E legal, s, x : Claim(r, legal, s, x)
                            /\ (legal => row[run[r].aud].state \notin Reported)
    PROVE  ReportedStays
<1>1. run[r].aud \in Audiences
  BY AtVersion
<1>2. PICK legal, s, x : Claim(r, legal, s, x)
                         /\ (legal => row[run[r].aud].state \notin Reported)
  OBVIOUS
<1>3. CASE row' = row
  BY <1>3 DEF ReportedStays
<1>4. CASE legal /\ row' = [row EXCEPT ![run[r].aud] = Taken(s, r)]
  BY <1>1, <1>2, <1>4, EditStays
<1> QED BY <1>2, <1>3, <1>4 DEF Claim

\* A version without a campaign was not reported, so saving an id reopens nothing.
LEMMA SaveStays ==
    ASSUME IInv, RecordInv, NEW r \in Runners,
           run[r].pc \notin {"idle", "press", "look"},
           NEW extra, NEW next, NEW lost, SaveId(r, row[run[r].aud], extra, next, lost),
           \/ lost = row
           \/ \E t : lost = [row EXCEPT ![run[r].aud] = t] /\ t.state = row[run[r].aud].state
    PROVE  ReportedStays
<1> DEFINE a == run[r].aud
<1>1. a \in Audiences
  BY AtVersion
<1>2. CASE row[a].camp = None
  <2>1. row[a].state \notin Reported
    BY <1>1, <1>2, NoneIsNone DEF RecordInv, HandedOverAccepted, HandedOver, Reported
  <2> DEFINE t == [extra EXCEPT !.camp = run[r].camp, !.state = "CREATED",
                                !.waiting = FALSE, !.err = "none"]
  <2>2. row' = [row EXCEPT ![a] = t]
    BY <1>2 DEF SaveId, NoIdYet
  <2> HIDE DEF t
  <2> QED BY <1>1, <2>1, <2>2, EditStays
<1>3. CASE row[a].camp # None
  <2>1. row' = lost
    BY <1>3 DEF SaveId, NoIdYet
  <2> QED BY <1>1, <2>1, EditStays DEF ReportedStays
<1> QED BY <1>2, <1>3

\* The runner's steps, by how they write the row.
LEMMA StepStays ==
    ASSUME IInv, RecordInv, NEW r \in Runners, Step(r)
    PROVE  ReportedStays
<1> DEFINE a == run[r].aud
           s == row[a]
<1>1. CASE LookAgain(r) \/ Adopt(r) \/ \E b \in Audiences : Look(r, b)
  BY <1>1 DEF LookAgain, Adopt, Look, ReportedStays
<1>2. CASE PressAdvances(r)
  <2>1. \A b \in Audiences : row'[b] = row[b] \/ row'[b] = [row[b] EXCEPT !.due = TRUE]
    BY <1>2 DEF PressAdvances, Begin
  <2>2. \A b \in Audiences : row[b] \in Row
    BY DEF IInv, TypeOK
  <2> QED BY <2>1, <2>2 DEF ReportedStays, Row
<1>3. CASE Lookup(r) \/ AdoptMark(r) \/ CreateReply(r) \/ AskStatus(r) \/ IssueSchedule(r)
           \/ ScheduleReply(r) \/ Verify(r) \/ Skip(r) \/ Resolve(r)
  <2>1. run[r].pc \in Claimed
    BY <1>3 DEF Lookup, AdoptMark, CreateReply, AskStatus, IssueSchedule, ScheduleReply, Verify,
                Skip, Resolve, At, Claimed
  <2>2. UNCHANGED row \/ \E t : FinishStep(r, t)
    BY <1>3 DEF Lookup, AdoptMark, CreateReply, AskStatus, IssueSchedule, ScheduleReply, Verify,
                Skip, Resolve
  <2> QED BY <2>1, <2>2, FinishStays
<1>4. CASE ClaimSchedule(r) \/ ClaimVerify(r) \/ ClaimSkip(r) \/ ClaimResolve(r)
  <2>1. run[r].pc \notin {"idle", "press", "look"}
    BY <1>4 DEF ClaimSchedule, ClaimVerify, ClaimSkip, ClaimResolve, At
  <2>2. \E legal, t, x : Claim(r, legal, t, x) /\ (legal => s.state \notin Reported)
    <3>1. CASE ClaimSchedule(r)
      <4>1. \/ Claim(r, s.state = "CREATED" /\ s.camp = run[r].camp /\ ~s.schedMark,
                     Marked(s), [run[r] EXCEPT !.pc = "issue", !.mark = FALSE])
            \/ Claim(r, s.state \in {"CREATED", "FAILED"} /\ s.camp = run[r].camp, s,
                     [run[r] EXCEPT !.pc = "status", !.mark = s.schedMark])
        BY <3>1 DEF ClaimSchedule
      <4>2. s.state \in {"CREATED", "FAILED"} => s.state \notin Reported
        BY DEF Reported
      <4> QED BY <4>1, <4>2
    <3>2. CASE ClaimVerify(r)
      <4>1. Claim(r, s.state = "SCHEDULED", s, [run[r] EXCEPT !.pc = "verify", !.camp = s.camp])
        BY <3>2 DEF ClaimVerify
      <4> QED BY <4>1 DEF Reported
    <3>3. CASE ClaimSkip(r)
      <4> DEFINE legal == s.state \in {"PENDING", "CREATED", "FAILED"} /\ ~s.schedMark
                 x == [run[r] EXCEPT !.pc = "skip"]
      <4>1. Claim(r, legal, s, x)
        BY <3>3 DEF ClaimSkip
      <4>2. legal => s.state \notin Reported
        BY DEF Reported
      <4> HIDE DEF legal, x
      <4> QED BY <4>1, <4>2
    <3>4. CASE ClaimResolve(r)
      <4> DEFINE legal == s.state \in {"PENDING", "CREATED", "FAILED"}
                 x == [run[r] EXCEPT !.pc = "resolve", !.camp = s.camp]
      <4>1. Claim(r, legal, s, x)
        BY <3>4 DEF ClaimResolve
      <4>2. legal => s.state \notin Reported
        BY DEF Reported
      <4> HIDE DEF legal, x
      <4> QED BY <4>1, <4>2
    <3> QED BY <1>4, <3>1, <3>2, <3>3, <3>4
  <2> QED BY <2>1, <2>2, ClaimStays
<1>5. CASE ClaimCreate(r)
  <2> DEFINE legal == s.state \in {"PENDING", "FAILED"} /\ s.camp = None
             t == Released([s EXCEPT !.state = "FAILED", !.err = "other", !.waiting = FALSE])
  <2>1. run[r].pc \notin {"idle", "press", "look"} /\ a \in Audiences
    BY <1>5, AtVersion DEF ClaimCreate, At
  <2>2. \/ \E lgl, u, x : Claim(r, lgl, u, x) /\ (lgl => s.state \notin Reported)
        \/ legal /\ row' = [row EXCEPT ![a] = t]
        \/ row' = row
    BY <1>5 DEF ClaimCreate, Reported
  <2>3. legal => s.state \notin Reported
    BY DEF Reported
  <2> HIDE DEF t, legal
  <2>4. CASE legal /\ row' = [row EXCEPT ![a] = t]
    BY <2>1, <2>3, <2>4, EditStays
  <2> QED BY <2>1, <2>2, <2>4, ClaimStays DEF ReportedStays
<1>6. CASE AdoptSave(r)
  <2>1. run[r].pc \notin {"idle", "press", "look"} /\ s \in Row
    BY <1>6, AtVersion DEF AdoptSave, At
  <2>2. Released(s).state = s.state
    BY <2>1 DEF Released, Row
  <2>3. PICK extra, next, lost :
          /\ SaveId(r, s, extra, next, lost)
          /\ lost = row \/ lost = [row EXCEPT ![a] = Released(s)]
    BY <1>6 DEF AdoptSave
  <2> QED BY <2>1, <2>2, <2>3, SaveStays
<1>7. CASE Persist(r)
  <2>1. run[r].pc \notin {"idle", "press", "look"}
    BY <1>7 DEF Persist, At
  <2>2. SaveId(r, s, Released(s), "created", row) \/ row' = row
    BY <1>7 DEF Persist
  <2> QED BY <2>1, <2>2, SaveStays DEF ReportedStays
<1>8. CASE Render(r) \/ ConfigInvalid(r) \/ GuardRefuses(r) \/ Stamp(r) \/ StampSchedule(r)
  <2>1. a \in Audiences /\ s \in Row /\ row \in [Audiences -> Row]
    BY <1>8, AtVersion DEF Render, ConfigInvalid, GuardRefuses, Stamp, StampSchedule, At
  <2>2. \/ row' = row
        \/ \E t : row' = [row EXCEPT ![a] = t]
                  /\ (s.state \in Reported => t.state = s.state)
    <3>1. CASE Render(r)
      <4> DEFINE t == [s EXCEPT !.state = "PENDING", !.pending = FALSE, !.own = TRUE,
                                !.approved = FALSE, !.err = "none", !.waiting = FALSE]
      <4>1. s.state = "FAILED" => s.state \notin Reported
        BY DEF Reported
      <4>2. \/ row' = row
            \/ s.state = "FAILED" /\ row' = [row EXCEPT ![a] = t]
            \/ s.state = "FAILED" /\ row' = [row EXCEPT ![a].waiting = TRUE]
        BY <3>1 DEF Render
      <4> HIDE DEF t
      <4> QED BY <4>1, <4>2
    <3>2. CASE ConfigInvalid(r)
      <4> DEFINE t == [s EXCEPT !.state = "FAILED", !.err = "fatal", !.waiting = FALSE]
      <4>1. row' = row \/ (s.state \in {"PENDING", "FAILED"} /\ row' = [row EXCEPT ![a] = t])
        BY <3>2 DEF ConfigInvalid
      <4>2. s.state \in {"PENDING", "FAILED"} => s.state \notin Reported
        BY DEF Reported
      <4> HIDE DEF t
      <4> QED BY <4>1, <4>2
    <3>3. CASE GuardRefuses(r)
      <4> DEFINE t == [s EXCEPT !.waiting = TRUE]
      <4>1. row' = [row EXCEPT ![a] = t] /\ t.state = s.state
        BY <2>1, <3>3 DEF GuardRefuses, Row
      <4> HIDE DEF t
      <4> QED BY <4>1
    <3>4. CASE Stamp(r)
      <4> DEFINE t == [s EXCEPT !.createMark = TRUE, !.createSent = TRUE]
      <4>1. row' = row \/ (row' = [row EXCEPT ![a] = t] /\ t.state = s.state)
        BY <2>1, <3>4 DEF Stamp, Row
      <4> HIDE DEF t
      <4> QED BY <4>1
    <3>5. CASE StampSchedule(r)
      <4> DEFINE t == Marked(s)
      <4>1. row' = row \/ (row' = [row EXCEPT ![a] = t] /\ t.state = s.state)
        BY <2>1, <3>5 DEF StampSchedule, Marked, Row
      <4> HIDE DEF t
      <4> QED BY <4>1
    <3> QED BY <1>8, <3>1, <3>2, <3>3, <3>4, <3>5
  <2> QED BY <2>1, <2>2, EditStays DEF ReportedStays
<1> QED BY <1>1, <1>2, <1>3, <1>4, <1>5, <1>6, <1>7, <1>8 DEF Step

\* Only a restore reopens a version that was reported as sent.
LEMMA NextStays ==
    ASSUME IInv, RecordInv, [Next]_vars, restores' = restores
    PROVE  ReportedStays
<1>1. CASE UNCHANGED row
  BY <1>1 DEF ReportedStays
<1>2. ASSUME NEW r \in Runners, NEW t \in Triggers, Start(r, t) PROVE ReportedStays
  <2>1. \A b \in Audiences : row'[b] = row[b] \/ row'[b] = [row[b] EXCEPT !.due = TRUE]
    BY <1>2 DEF Start, Begin
  <2>2. \A b \in Audiences : row[b] \in Row
    BY DEF IInv, TypeOK
  <2> QED BY <2>1, <2>2 DEF ReportedStays, Row
<1>3. ASSUME NEW r \in Runners, NEW a \in Audiences, PressSendFree(r, a) PROVE ReportedStays
  <2> DEFINE t == [row[a] EXCEPT !.approved = TRUE, !.due = TRUE]
  <2>1. row' = [row EXCEPT ![a] = t] /\ row[a].state \notin Reported
    BY <1>3 DEF PressSendFree, Reported, IInv, TypeOK
  <2> HIDE DEF t
  <2> QED BY <2>1, EditStays
<1>4. ASSUME SendTimeComes \/ \E listed \in SUBSET Audiences : Approve(listed) PROVE ReportedStays
  <2>1. \A b \in Audiences : \/ row'[b] = row[b] \/ row'[b] = [row[b] EXCEPT !.due = TRUE]
                             \/ row'[b] = [row[b] EXCEPT !.approved = TRUE]
    BY <1>4 DEF SendTimeComes, Approve
  <2>2. \A b \in Audiences : row[b] \in Row
    BY DEF IInv, TypeOK
  <2> QED BY <2>1, <2>2 DEF ReportedStays, Row
<1>5. ASSUME NEW a \in Audiences, WaitEnds(a) \/ ClaimAges(a) PROVE ReportedStays
  <2>1. row \in [Audiences -> Row]
    BY DEF IInv, TypeOK
  <2>2. \/ row' = [row EXCEPT ![a].waiting = FALSE]
        \/ row' = [row EXCEPT ![a].stale = TRUE]
    BY <1>5 DEF WaitEnds, ClaimAges
  <2> QED BY <2>1, <2>2 DEF ReportedStays, Row
<1>6. ~Restore
  BY DEF Restore, IInv, TypeOK
<1>7. CASE \/ \E r \in Runners : Crash(r)
           \/ Hold \/ ClockMoves
           \/ \E q \in wire : ProviderActs(q) \/ RequestLost(q)
           \/ \E c \in Campaigns : Delivered(c)
  BY <1>1, <1>7 DEF Crash, Hold, ClockMoves, ProviderActs, RequestLost, Delivered
<1> QED BY <1>1, <1>2, <1>3, <1>4, <1>5, <1>6, <1>7, StepStays DEF Next, vars

\* The record never takes back "sent" or "partly sent", and never says it of a version
\* whose campaign the provider had not accepted: whatever overlapped, crashed, aged or
\* answered late, until the database itself is put back.
THEOREM SentStays == Spec => SentIsFinal
<1>1. IInv /\ RecordInv /\ [Next]_vars
      => [\A a \in Audiences : row[a].state \in {"SENT", "PARTIALLY_SENT"} /\ restores' = restores
            => row'[a].state = row[a].state /\ Accepted(row[a].camp)]_vars
  <2> SUFFICES ASSUME IInv, RecordInv, [Next]_vars, NEW a \in Audiences,
                      row[a].state \in {"SENT", "PARTIALLY_SENT"}, restores' = restores
               PROVE  row'[a].state = row[a].state /\ Accepted(row[a].camp)
    OBVIOUS
  <2>1. ReportedStays
    BY NextStays
  <2>2. Accepted(row[a].camp)
    BY DEF RecordInv, HandedOverAccepted, HandedOver
  <2> QED BY <2>1, <2>2 DEF ReportedStays, Reported
<1>2. Spec => [][Next]_vars
  BY DEF Spec
<1> QED BY <1>1, <1>2, Invariance, RecordHolds, PTL DEF SentIsFinal

-----------------------------------------------------------------------------
(* The gates                                                               *)

\* schedule() is called in one place: a runner past its gate, which has just looked
\* at the clock once more.
LEMMA CalledFromIssue ==
    ASSUME IInv, [Next]_vars, NEW q \in NewSchedules
    PROVE  \E r \in Runners : /\ IssueSchedule(r) /\ At(r, "issue") /\ phase = "day"
                              /\ q.by = r /\ q.aud = run[r].aud /\ q.camp = run[r].camp
<1>1. q \in wire' /\ q \notin wire /\ q.op = "schedule" /\ q.live /\ ~q.done
  BY DEF NewSchedules
<1>2. wire \subseteq Request
  BY DEF IInv, TypeOK
<1>3. ~(wire' \subseteq wire)
  BY <1>1
<1>4. ASSUME NEW r \in Runners, Crash(r) PROVE FALSE
  <2>1. PICK p \in wire : q = [p EXCEPT !.live = @ /\ p.by # r]
    BY <1>1, <1>4 DEF Crash
  <2>2. p \in Request /\ (p.live /\ p.by # r) = TRUE
    BY <1>1, <1>2, <2>1 DEF Request
  <2>3. q = p
    BY <2>1, <2>2 DEF Request
  <2> QED BY <1>1, <2>3
<1>5. ASSUME NEW p \in wire, ProviderActs(p) PROVE FALSE
  <2>1. p \in Request
    BY <1>2
  <2>2. \/ q = [p EXCEPT !.done = TRUE]
        \/ \E c \in Campaigns : q = [p EXCEPT !.done = TRUE, !.camp = c]
    BY <1>1, <1>5 DEF ProviderActs
  <2> QED BY <1>1, <2>1, <2>2 DEF Request
<1>6. ASSUME NEW p \in wire, GiveUp(p) PROVE FALSE
  <2>1. p \in Request /\ q = [p EXCEPT !.live = FALSE]
    BY <1>1, <1>2, <1>6 DEF GiveUp
  <2> QED BY <1>1, <2>1 DEF Request
<1>7. ASSUME NEW r \in Runners, CreateReply(r) \/ ScheduleReply(r) PROVE FALSE
  <2>1. \E p \in wire : wire' = wire \ {p} \/ GiveUp(p)
    BY <1>7 DEF CreateReply, ScheduleReply, MyCall
  <2> QED BY <1>3, <1>6, <2>1
<1>8. ASSUME NEW r \in Runners, Stamp(r) PROVE FALSE
  <2>1. wire' = wire \/ wire' = wire \cup {[op |-> "create", by |-> r, aud |-> run[r].aud,
                 camp |-> None, content |-> row[run[r].aud].content, live |-> TRUE, done |-> FALSE]}
    BY <1>8 DEF Stamp
  <2> QED BY <1>1, <2>1
<1>9. ASSUME NEW r \in Runners, IssueSchedule(r)
      PROVE  /\ At(r, "issue") /\ phase = "day"
             /\ q.by = r /\ q.aud = run[r].aud /\ q.camp = run[r].camp
  BY <1>1, <1>9 DEF IssueSchedule
<1>10. ASSUME NEW r \in Runners, Step(r) PROVE IssueSchedule(r)
  BY <1>3, <1>7, <1>8, <1>10 DEF Step, PressAdvances, LookAgain, Render, ConfigInvalid, Look,
     ClaimCreate, Lookup, Adopt, AdoptSave, AdoptMark, Persist, ClaimSchedule, GuardRefuses,
     AskStatus, StampSchedule, ClaimVerify, Verify, ClaimSkip, Skip, ClaimResolve, Resolve
<1>11. wire' # wire
  BY <1>3
<1>12. Next
  BY <1>11 DEF vars
<1>13. \E r \in Runners : Step(r)
  BY <1>3, <1>4, <1>5, <1>12 DEF Next, Start, PressSendFree, Approve, Hold, ClockMoves,
     SendTimeComes, Restore, WaitEnds, ClaimAges, RequestLost, Delivered
<1> QED BY <1>9, <1>10, <1>13

\* No version is scheduled past its gate: one rendered after the build, or sent only by
\* hand, has its own approval or its press when schedule() is called, even if the row
\* was rendered again, adopted or taken over since the gate was read.
THEOREM OwnApproval == Spec => OwnApprovalHonoured
<1>1. IInv /\ RecordInv /\ [Next]_vars => [OwnApprovalStep]_vars
  <2> SUFFICES ASSUME IInv, RecordInv, [Next]_vars, NEW q \in NewSchedules,
                      q.aud \in ManualOnly \/ (row[q.aud].own /\ NeedsApproval)
               PROVE  row[q.aud].approved
    BY DEF OwnApprovalStep
  <2>1. PICK r \in Runners : At(r, "issue") /\ q.aud = run[r].aud
    BY CalledFromIssue
  <2>2. GatePassed(q.aud)
    BY <2>1 DEF RecordInv, RunnerRecord, Gated, At
  <2> QED BY <2>2 DEF GatePassed, AwaitingOwnApproval
<1>2. Spec => [][Next]_vars
  BY DEF Spec
<1> QED BY <1>1, <1>2, Invariance, RecordHolds, PTL DEF OwnApprovalHonoured

\* Decision A: a draft whose content is not the one frozen in this database, as an
\* adopted one after a restore, is never scheduled before a person approved that version.
THEOREM UnseenDraft == Spec => UnseenDraftNeedsApproval
<1>1. IInv /\ RecordInv /\ [Next]_vars
      => [\A q \in NewSchedules :
            prov[q.camp].content # row[q.aud].content => row[q.aud].approved]_vars
  <2> SUFFICES ASSUME IInv, RecordInv, [Next]_vars, NEW q \in NewSchedules,
                      prov[q.camp].content # row[q.aud].content
               PROVE  row[q.aud].approved
    OBVIOUS
  <2>1. PICK r \in Runners : At(r, "issue") /\ q.aud = run[r].aud /\ q.camp = run[r].camp
    BY CalledFromIssue
  <2>2. GatePassed(q.aud) /\ row[q.aud].own /\ row[q.aud].adopted
    BY <2>1 DEF RecordInv, RunnerRecord, Gated, At
  <2> QED BY <2>2 DEF GatePassed, AwaitingOwnApproval
<1>2. Spec => [][Next]_vars
  BY DEF Spec
<1> QED BY <1>1, <1>2, Invariance, RecordHolds, PTL DEF UnseenDraftNeedsApproval
=============================================================================
