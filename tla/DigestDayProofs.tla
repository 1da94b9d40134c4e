--------------------------- MODULE DigestDayProofs ---------------------------
(***************************************************************************)
(* While a live step ends before its claim ages and a call before its      *)
(* caller gives it up (~SlowSteps, ~LateCalls), a claim is exclusive. Then *)
(* schedule() is called only on drafts, a skipped version was never put in *)
(* the mail, and DigestSend implements DigestDay. The argument is AloneInv *)
(* of DigestSendInv: whoever writes a claimed row is its holder.           *)
(***************************************************************************)
EXTENDS DigestRecordProofs, DigestSendDay

\* Row s becomes t without anybody's claim, campaign or marker, and is not settled by it.
Spared(s, t) ==
    /\ t.claim = s.claim /\ t.stale = s.stale
    /\ t.camp = s.camp /\ t.schedMark = s.schedMark
    /\ Over(t) => t.state = s.state

-----------------------------------------------------------------------------
(* The two kinds of steps                                                  *)

\* A step beside the claims: of an editor, the clock, a door, or a runner that holds none.
LEMMA SideStep ==
    ASSUME IInv, AloneInv, \A b \in Audiences : Spared(row[b], row'[b]),
           UNCHANGED <<prov, restores>>, wire' \subseteq wire,
           \A q \in Runners : run'[q] = run[q] \/ run'[q].pc \notin Claimed
    PROVE  AloneInv'
<1>1. wire \subseteq Request
  BY DEF IInv, TypeOK
<1>2. RequestsHeld'
  <2> SUFFICES ASSUME NEW p \in wire'
               PROVE  /\ row'[p.aud].claim = p.by /\ ~row'[p.aud].stale
                      /\ \A q \in Runners : run'[q].pc \in Claimed /\ run'[q].aud = p.aud => p.live
    BY DEF RequestsHeld
  <2>1. p \in wire /\ p.aud \in Audiences
    BY <1>1 DEF Request
  <2> QED BY <2>1 DEF AloneInv, RequestsHeld, Spared
<1>3. ASSUME NEW q \in Runners PROVE ClaimHeld(q)' /\ FoundStill(q)'
  <2>1. CASE run'[q].pc \notin Claimed
    BY <2>1 DEF ClaimHeld, FoundStill, Creating, Claimed, At
  <2>2. CASE run'[q] = run[q] /\ run[q].pc \in Claimed
    <3>1. run[q].aud \in Audiences
      BY <2>2, AtVersion DEF Claimed
    <3>2. Spared(row[run[q].aud], row'[run[q].aud]) /\ ClaimHeld(q) /\ FoundStill(q)
      BY <3>1 DEF AloneInv
    <3>3. ClaimHeld(q)'
      BY <2>2, <3>2 DEF ClaimHeld, Spared, Over
    <3>4. FoundStill(q)'
      BY <2>2, <3>2 DEF FoundStill, Spared, At
    <3> QED BY <3>3, <3>4
  <2> QED BY <2>1, <2>2
<1>4. (restores = 0 => SkippedNothingSent)'
  BY DEF AloneInv, SkippedNothingSent, Spared, Over, Accepted
<1> QED BY <1>2, <1>3, <1>4 DEF AloneInv

\* A step of r on version a while nobody else is in a step there: r holds the claim, or
\* finds it free. What is in flight for a afterwards is r's own call.
LEMMA OwnStep ==
    ASSUME IInv, AloneInv, NEW r \in Runners, NEW a \in Audiences,
           \A q \in Runners : q # r /\ run[q].pc \in Claimed => run[q].aud # a,
           \A b \in Audiences : b # a => row'[b] = row[b],
           \A q \in Runners : q # r => run'[q] = run[q],
           run'[r].pc \in Claimed => run'[r].aud = a /\ ClaimHeld(r)' /\ FoundStill(r)',
           UNCHANGED <<prov, restores>>,
           \A p \in wire' : p.aud # a => p \in wire,
           \A p \in wire' : p.aud = a =>
               p.by = r /\ p.live /\ row'[a].claim = r /\ ~row'[a].stale /\ ~Over(row'[a]),
           restores = 0 /\ row'[a].state = "SKIPPED" =>
               \A c \in Campaigns : prov[c].aud = a => ~Accepted(c)
    PROVE  AloneInv'
<1>1. wire \subseteq Request
  BY DEF IInv, TypeOK
<1>2. RequestsHeld'
  <2> SUFFICES ASSUME NEW p \in wire'
               PROVE  /\ row'[p.aud].claim = p.by /\ ~row'[p.aud].stale
                      /\ \A q \in Runners : run'[q].pc \in Claimed /\ run'[q].aud = p.aud => p.live
    BY DEF RequestsHeld
  <2>1. CASE p.aud = a
    BY <2>1
  <2>2. CASE p.aud # a
    <3>1. p \in wire /\ p.aud \in Audiences
      BY <1>1, <2>2 DEF Request
    <3>2. row'[p.aud] = row[p.aud]
      BY <2>2, <3>1
    <3> QED BY <2>2, <3>1, <3>2 DEF AloneInv, RequestsHeld
  <2> QED BY <2>1, <2>2
<1>3. ASSUME NEW q \in Runners PROVE ClaimHeld(q)' /\ FoundStill(q)'
  <2>1. CASE run'[q].pc \notin Claimed
    BY <2>1 DEF ClaimHeld, FoundStill, Creating, Claimed, At
  <2>2. CASE run'[q].pc \in Claimed /\ q # r
    <3>1. run'[q] = run[q] /\ run[q].aud \in Audiences /\ run[q].aud # a
      BY <2>2, AtVersion DEF Claimed
    <3>2. row'[run[q].aud] = row[run[q].aud]
      BY <3>1
    <3>3. ClaimHeld(q) /\ FoundStill(q)
      BY DEF AloneInv
    <3> QED BY <3>1, <3>2, <3>3 DEF ClaimHeld, FoundStill, At, Over
  <2> QED BY <2>1, <2>2
<1>4. (restores = 0 => SkippedNothingSent)'
  <2> SUFFICES ASSUME restores = 0, NEW b \in Audiences, row'[b].state = "SKIPPED"
               PROVE  /\ \A c \in Campaigns : prov[c].aud = b => ~Accepted(c)
                      /\ ~\E q \in wire' : q.op = "schedule" /\ q.aud = b
    BY DEF SkippedNothingSent, Accepted
  <2>1. CASE b = a
    BY <2>1 DEF Over
  <2>2. CASE b # a
    BY <2>2 DEF AloneInv, SkippedNothingSent
  <2> QED BY <2>1, <2>2
<1> QED BY <1>2, <1>3, <1>4 DEF AloneInv

\* A holder is alone on its version; unless it waits for a call, nothing is in flight there.
LEMMA HolderAlone ==
    ASSUME IInv, AloneInv, NEW r \in Runners, run[r].pc \in Claimed
    PROVE  /\ run[r].aud \in Audiences /\ Holds(r) /\ ~row[run[r].aud].stale
           /\ ~Over(row[run[r].aud])
           /\ \A q \in Runners : q # r /\ run[q].pc \in Claimed => run[q].aud # run[r].aud
           /\ \A p \in wire : p.aud = run[r].aud =>
                /\ p.by = r /\ p.live /\ run[r].pc \in {"create", "sched"}
                /\ run[r].pc = (IF p.op = "create" THEN "create" ELSE "sched")
                /\ \A o \in wire : o.live /\ o.by = r => o = p
<1> DEFINE a == run[r].aud
<1>1. a \in Audiences
  BY AtVersion DEF Claimed
<1>2. Holds(r) /\ ~row[a].stale /\ ~Over(row[a])
  BY DEF AloneInv, ClaimHeld, Holds
<1>3. \A q \in Runners : q # r /\ run[q].pc \in Claimed => run[q].aud # a
  BY <1>2 DEF AloneInv, ClaimHeld, Holds
<1>4. ASSUME NEW p \in wire, p.aud = a
      PROVE  /\ p.by = r /\ p.live /\ run[r].pc \in {"create", "sched"}
             /\ run[r].pc = (IF p.op = "create" THEN "create" ELSE "sched")
             /\ \A o \in wire : o.live /\ o.by = r => o = p
  <2>1. p.by = r /\ p.live
    BY <1>2, <1>4 DEF AloneInv, RequestsHeld, Holds
  <2>2. CallsOf(r)
    BY DEF IInv, RunnerSound
  <2> QED BY <2>1, <2>2 DEF CallsOf
<1> QED BY <1>1, <1>2, <1>3, <1>4

\* A version whose claim is free has nobody in a step and nothing in flight.
LEMMA FreeAlone ==
    ASSUME IInv, AloneInv, NEW a \in Audiences, Claimable(row[a])
    PROVE  /\ \A q \in Runners : run[q].pc \in Claimed => run[q].aud # a
           /\ \A p \in wire : p.aud # a
<1>1. \A q \in Runners : run[q].pc \in Claimed => run[q].aud # a
  BY NoneIsNone DEF AloneInv, ClaimHeld, Claimable
<1>2. \A p \in wire : p.by \in Runners
  BY DEF IInv, TypeOK, Request
<1>3. \A p \in wire : p.aud # a
  BY <1>2, NoneIsNone DEF AloneInv, RequestsHeld, Claimable
<1> QED BY <1>1, <1>3

-----------------------------------------------------------------------------
(* Steps beside the claims                                                 *)

\* One runner moves to a step where it holds nothing.
FreeMove(r) == run'[r].pc \notin Claimed /\ \A q \in Runners : q # r => run'[q] = run[q]

LEMMA FreeMoves ==
    ASSUME IInv, NEW r \in Runners
    PROVE  /\ Leave(r) => FreeMove(r)
           /\ \A p \in Resting \cup {"claimSched", "claimResolve"} : Goto(r, p) => FreeMove(r)
           /\ \A t : Begin(r, t) => FreeMove(r)
<1>1. run \in [Runners -> Runner] /\ run[r] \in Runner
  BY DEF IInv, TypeOK
<1>2. Left(run[r]).pc \in {"idle", "look"}
  BY <1>1, LeftTyped
<1>3. Leave(r) => FreeMove(r)
  BY <1>1, <1>2 DEF Leave, FreeMove, Claimed
<1>4. ASSUME NEW p \in Resting \cup {"claimSched", "claimResolve"}, Goto(r, p) PROVE FreeMove(r)
  BY <1>1, <1>4 DEF Goto, FreeMove, Resting, Claimed, Runner
<1>5. ASSUME NEW t, Begin(r, t) PROVE FreeMove(r)
  <2>1. run'[r].pc = "look" /\ \A q \in Runners : q # r => run'[q] = run[q]
    BY <1>1, <1>5 DEF Begin, Idle
  <2> QED BY <2>1 DEF FreeMove, Claimed
<1> QED BY <1>3, <1>4, <1>5

LEMMA EnterMoves ==
    ASSUME IInv, NEW r \in Runners, NEW a \in Audiences, NEW x \in Runner,
           NEW steps \in SUBSET Entered, Enter(r, a, x, steps)
    PROVE  FreeMove(r)
<1> DEFINE y == [x EXCEPT !.aud = a, !.camp = row[a].camp]
<1>1. run \in [Runners -> Runner] /\ row[a].camp \in Campaigns \cup {None}
  BY DEF IInv, TypeOK, Row
<1>2. y \in Runner
  BY <1>1 DEF Runner
<1>3. Left(y).pc \in {"idle", "look"}
  BY <1>2, LeftTyped
<1>4. CASE run' = [run EXCEPT ![r] = Left(y)]
  BY <1>1, <1>3, <1>4 DEF FreeMove, Claimed
<1>5. ASSUME NEW p \in steps, NEW m,
             run' = [run EXCEPT ![r] = [y EXCEPT !.pc = p, !.mark = m]]
      PROVE  FreeMove(r)
  <2>1. run'[r].pc = p /\ p \in Entered /\ \A q \in Runners : q # r => run'[q] = run[q]
    BY <1>1, <1>2, <1>5 DEF Runner
  <2> QED BY <2>1 DEF FreeMove, Entered, Claimed
<1> QED BY <1>4, <1>5 DEF Enter

LEMMA LookAlone ==
    ASSUME IInv, AloneInv, NEW r \in Runners, LookAgain(r) \/ \E a \in Audiences : Look(r, a)
    PROVE  AloneInv'
<1>1. \A b \in Audiences : Spared(row[b], row[b])
  BY DEF Spared
<1>2. ASSUME NEW a \in Audiences, Look(r, a) PROVE AloneInv'
  <2> DEFINE x == [run[r] EXCEPT !.todo = @ \ {a}]
             steps == IF x.sweep THEN SweepSteps(row[a]) ELSE AdvanceSteps(x, a, row[a])
  <2>1. x \in Runner
    BY DEF IInv, TypeOK, Runner
  <2>2. Enter(r, a, x, steps) /\ UNCHANGED <<row, prov, wire, restores>>
    BY <1>2 DEF Look
  <2>3. steps \in SUBSET Entered
    BY LookLeadsTo
  <2> HIDE DEF x, steps
  <2>4. FreeMove(r)
    BY <2>1, <2>2, <2>3, EnterMoves
  <2> QED BY <1>1, <2>2, <2>4, SideStep DEF FreeMove
<1>3. ASSUME LookAgain(r) PROVE AloneInv'
  <2> DEFINE x == run[r]
             a == x.aud
             s == row[a]
             steps == IF x.pc = "created" THEN CreatedSteps(x, a, s)
                      ELSE IF s.state # "SCHEDULED" THEN {}
                      ELSE IF x.sweep THEN {"claimVerify"} ELSE VerifySteps(x, s)
  <2>1. x \in Runner /\ a \in Audiences
    BY <1>3, AtVersion DEF LookAgain
  <2>2. Enter(r, a, x, steps) /\ UNCHANGED <<row, prov, wire, restores>>
    BY <1>3 DEF LookAgain
  <2>3. steps \in SUBSET Entered
    BY LookLeadsTo DEF Entered
  <2> HIDE DEF x, a, s, steps
  <2>4. FreeMove(r)
    BY <2>1, <2>2, <2>3, EnterMoves
  <2> QED BY <1>1, <2>2, <2>4, SideStep DEF FreeMove
<1> QED BY <1>2, <1>3

\* A write that spares one row, by a runner without a claim or by an editor.
LEMMA SideEdit ==
    ASSUME IInv, AloneInv, NEW a \in Audiences, NEW t, Spared(row[a], t),
           row' = row \/ row' = [row EXCEPT ![a] = t],
           UNCHANGED <<prov, wire, restores>>,
           UNCHANGED run \/ \E r \in Runners : FreeMove(r)
    PROVE  AloneInv'
<1>1. row \in [Audiences -> Row]
  BY DEF IInv, TypeOK
<1>2. \A b \in Audiences : Spared(row[b], row[b])
  BY DEF Spared
<1>3. \A b \in Audiences : Spared(row[b], row'[b])
  BY <1>1, <1>2
<1> QED BY <1>3, SideStep DEF FreeMove

LEMMA SparedEdits ==
    ASSUME NEW s \in Row, NEW w \in BOOLEAN
    PROVE  /\ Spared(s, s) /\ Spared(s, Waits(s, w))
           /\ Spared(s, [s EXCEPT !.due = TRUE]) /\ Spared(s, [s EXCEPT !.approved = TRUE])
           /\ Spared(s, [s EXCEPT !.approved = TRUE, !.due = TRUE])
           /\ Spared(s, Wrote(s, "FAILED", "fatal", FALSE))
           /\ Spared(s, [s EXCEPT !.state = "PENDING", !.pending = FALSE, !.own = TRUE,
                                  !.approved = FALSE, !.err = "none", !.waiting = FALSE])
BY DEF Spared, Row, Waits, Wrote, Over

LEMMA DoorsAlone ==
    ASSUME IInv, AloneInv, NEW r \in Runners,
           \/ PressAdvances(r) \/ \E t \in Triggers : Start(r, t)
           \/ \E a \in Audiences : PressSendFree(r, a)
    PROVE  AloneInv'
<1>1. row \in [Audiences -> Row] /\ UNCHANGED <<prov, wire, restores>>
  BY DEF IInv, TypeOK, PressAdvances, Start, PressSendFree
<1>2. CASE PressAdvances(r) \/ \E t \in Triggers : Start(r, t)
  <2>1. PICK t : Begin(r, t)
    BY <1>2 DEF PressAdvances, Start
  <2>2. FreeMove(r)
    BY <2>1, FreeMoves
  <2>3. \A b \in Audiences : row'[b] = row[b] \/ row'[b] = [row[b] EXCEPT !.due = TRUE]
    BY <1>1, <2>1 DEF Begin
  <2>4. \A b \in Audiences : Spared(row[b], row'[b])
    BY <1>1, <2>3, SparedEdits
  <2> QED BY <1>1, <2>2, <2>4, SideStep DEF FreeMove
<1>3. ASSUME NEW a \in Audiences, PressSendFree(r, a) PROVE AloneInv'
  <2> DEFINE t == [row[a] EXCEPT !.approved = TRUE, !.due = TRUE]
  <2>1. row' = [row EXCEPT ![a] = t] /\ Goto(r, "press")
    BY <1>1, <1>3 DEF PressSendFree
  <2>2. Spared(row[a], t)
    BY <1>1, SparedEdits
  <2> HIDE DEF t
  <2>3. FreeMove(r)
    BY <2>1, FreeMoves DEF Resting, Steps, Claimed
  <2> QED BY <1>1, <2>1, <2>2, <2>3, SideEdit
<1> QED BY <1>2, <1>3

\* The late render, a configuration that is not valid, the guard's refusal: written
\* without a claim, and none of it settles a version or touches its campaign.
LEMMA UnfencedAlone ==
    ASSUME IInv, AloneInv, NEW r \in Runners,
           Render(r) \/ ConfigInvalid(r) \/ GuardRefuses(r)
    PROVE  AloneInv'
<1> DEFINE a == run[r].aud
           s == row[a]
           t == Wrote(s, "FAILED", "fatal", FALSE)
           u == [s EXCEPT !.state = "PENDING", !.pending = FALSE, !.own = TRUE,
                          !.approved = FALSE, !.err = "none", !.waiting = FALSE]
           w == Waits(s, TRUE)
<1>1. a \in Audiences /\ s \in Row /\ run[r] \in Runner /\ run \in [Runners -> Runner]
      /\ UNCHANGED <<prov, wire, restores>>
  BY AtVersion DEF Render, ConfigInvalid, GuardRefuses, At
<1>2. \/ row' = row \/ row' = [row EXCEPT ![a] = t]
      \/ row' = [row EXCEPT ![a] = u] \/ row' = [row EXCEPT ![a] = w]
  <2>1. Render(r) => row' = row \/ row' = [row EXCEPT ![a] = u] \/ row' = [row EXCEPT ![a] = w]
    BY DEF Render, Waits
  <2>2. ConfigInvalid(r) => row' = row \/ row' = [row EXCEPT ![a] = t]
    BY DEF ConfigInvalid, Wrote
  <2>3. GuardRefuses(r) => row' = [row EXCEPT ![a] = w]
    BY DEF GuardRefuses, Waits
  <2> QED BY <2>1, <2>2, <2>3
<1>3. Spared(s, t) /\ Spared(s, u) /\ Spared(s, w)
  BY <1>1, SparedEdits
<1> HIDE DEF t, u, w
<1>4. FreeMove(r)
  <2>1. "configInvalid" \in Resting
    BY DEF Resting, Steps, Claimed
  <2>2. \/ Leave(r) \/ Goto(r, "configInvalid")
        \/ run' = [run EXCEPT ![r].pc = "claimCreate", ![r].mark = s.createMark]
    BY DEF Render, ConfigInvalid, GuardRefuses
  <2>3. run' = [run EXCEPT ![r].pc = "claimCreate", ![r].mark = s.createMark] => FreeMove(r)
    BY <1>1 DEF FreeMove, Runner, Claimed
  <2> QED BY <2>1, <2>2, <2>3, FreeMoves
<1> QED BY <1>1, <1>2, <1>3, <1>4, SideEdit

\* Editors and the clock; the end of a wait, and of a request nobody waits for.
LEMMA EditorsAlone ==
    ASSUME IInv, AloneInv,
           \/ Hold \/ ClockMoves \/ SendTimeComes
           \/ \E listed \in SUBSET Audiences : Approve(listed)
           \/ \E a \in Audiences : WaitEnds(a)
           \/ \E q \in wire : RequestLost(q)
    PROVE  AloneInv'
<1>1. row \in [Audiences -> Row] /\ \A b \in Audiences : row[b] \in Row
  BY DEF IInv, TypeOK
<1>2. UNCHANGED <<prov, run, restores>> /\ wire' \subseteq wire
  BY DEF Hold, ClockMoves, SendTimeComes, Approve, WaitEnds, RequestLost
<1>3. \A b \in Audiences : \/ row'[b] = row[b] \/ row'[b] = [row[b] EXCEPT !.due = TRUE]
                           \/ row'[b] = [row[b] EXCEPT !.approved = TRUE]
                           \/ row'[b] = Waits(row[b], FALSE)
  <2>1. Hold \/ ClockMoves \/ (\E q \in wire : RequestLost(q)) => row' = row
    BY DEF Hold, ClockMoves, RequestLost
  <2>2. SendTimeComes => \A b \in Audiences : row'[b] = [row[b] EXCEPT !.due = TRUE]
    BY DEF SendTimeComes
  <2>3. ASSUME NEW listed, Approve(listed)
        PROVE  \A b \in Audiences : row'[b] = row[b] \/ row'[b] = [row[b] EXCEPT !.approved = TRUE]
    BY <2>3 DEF Approve
  <2>4. ASSUME NEW a \in Audiences, WaitEnds(a)
        PROVE  \A b \in Audiences : row'[b] = row[b] \/ row'[b] = Waits(row[b], FALSE)
    BY <1>1, <2>4 DEF WaitEnds, Waits
  <2> QED BY <2>1, <2>2, <2>3, <2>4
<1>4. \A b \in Audiences : Spared(row[b], row'[b])
  BY <1>1, <1>3, SparedEdits
<1> QED BY <1>2, <1>4, SideStep

\* A claim ages only once nobody is in a step on its version and nothing is in flight.
LEMMA ClaimAgesAlone ==
    ASSUME IInv, AloneInv, ~SlowSteps, ~LateCalls, NEW a \in Audiences, ClaimAges(a)
    PROVE  AloneInv'
<1>1. /\ row \in [Audiences -> Row] /\ row' = [row EXCEPT ![a].stale = TRUE]
      /\ UNCHANGED <<prov, wire, run, restores>>
      /\ \A q \in wire : q.aud # a
      /\ LET r == row[a].claim IN ~(run[r].pc \in Claimed /\ run[r].aud = a)
  BY DEF ClaimAges, IInv, TypeOK
<1>2. /\ \A b \in Audiences : b # a => row'[b] = row[b]
      /\ row'[a].state = row[a].state
  BY <1>1 DEF Row
<1>3. \A q \in Runners : run[q].pc \in Claimed => run[q].aud # a
  BY <1>1 DEF AloneInv, ClaimHeld
<1>4. RequestsHeld'
  <2>1. \A p \in wire : p.aud \in Audiences /\ p.aud # a
    BY <1>1 DEF IInv, TypeOK, Request
  <2> QED BY <1>1, <1>2, <2>1 DEF AloneInv, RequestsHeld
<1>5. ASSUME NEW q \in Runners PROVE ClaimHeld(q)' /\ FoundStill(q)'
  <2>1. CASE run[q].pc \notin Claimed
    BY <1>1, <2>1 DEF ClaimHeld, FoundStill, Creating, Claimed, At
  <2>2. CASE run[q].pc \in Claimed
    <3>1. run[q].aud \in Audiences /\ row'[run[q].aud] = row[run[q].aud]
      BY <1>2, <1>3, <2>2, AtVersion DEF Claimed
    <3> QED BY <1>1, <3>1 DEF AloneInv, ClaimHeld, FoundStill, At, Over
  <2> QED BY <2>1, <2>2
<1>6. (restores = 0 => SkippedNothingSent)'
  BY <1>1, <1>2 DEF AloneInv, SkippedNothingSent, Accepted
<1> QED BY <1>4, <1>5, <1>6 DEF AloneInv

\* A crashed runner's claim stays, and so does its request, with nobody waiting.
LEMMA CrashAlone ==
    ASSUME IInv, AloneInv, NEW r \in Runners, Crash(r)
    PROVE  AloneInv'
<1>1. /\ UNCHANGED <<row, prov, restores>> /\ run' = [run EXCEPT ![r] = Idle]
      /\ run \in [Runners -> Runner] /\ wire \subseteq Request
      /\ wire' = {[q EXCEPT !.live = @ /\ q.by # r] : q \in {p \in wire : ~(p.by = r /\ p.done)}}
  BY DEF Crash, IInv, TypeOK
<1>2. run'[r].pc \notin Claimed /\ \A q \in Runners : q # r => run'[q] = run[q]
  BY <1>1 DEF Idle, Claimed
<1>3. ASSUME NEW p \in wire'
      PROVE  \E q \in wire : /\ q.op = p.op /\ q.aud = p.aud /\ q.by = p.by
                             /\ q.by # r => q.live = p.live
  <2>1. PICK q \in wire : p = [q EXCEPT !.live = @ /\ q.by # r]
    BY <1>1
  <2>2. q \in Request
    BY <1>1
  <2> QED BY <2>1, <2>2 DEF Request
<1>4. RequestsHeld'
  <2> SUFFICES ASSUME NEW p \in wire'
               PROVE  /\ row[p.aud].claim = p.by /\ ~row[p.aud].stale
                      /\ \A q \in Runners : run'[q].pc \in Claimed /\ run'[q].aud = p.aud => p.live
    BY <1>1 DEF RequestsHeld
  <2>1. PICK o \in wire : o.aud = p.aud /\ o.by = p.by /\ (o.by # r => o.live = p.live)
    BY <1>3
  <2>2. /\ row[o.aud].claim = o.by /\ ~row[o.aud].stale
        /\ \A q \in Runners : run[q].pc \in Claimed /\ run[q].aud = o.aud => o.live
    BY DEF AloneInv, RequestsHeld
  <2>3. \A q \in Runners : run[q].pc \in Claimed /\ run[q].aud = o.aud => q = o.by
    BY <2>2 DEF AloneInv, ClaimHeld
  <2> QED BY <1>2, <2>1, <2>2, <2>3
<1>5. \A q \in Runners : ClaimHeld(q)' /\ FoundStill(q)'
  <2> SUFFICES ASSUME NEW q \in Runners PROVE ClaimHeld(q)' /\ FoundStill(q)'
    OBVIOUS
  <2>1. CASE q = r
    BY <1>2, <2>1 DEF ClaimHeld, FoundStill, Creating, Claimed, At
  <2>2. CASE q # r
    BY <1>1, <1>2, <2>2 DEF AloneInv, ClaimHeld, FoundStill, At, Over
  <2> QED BY <2>1, <2>2
<1>6. (restores = 0 => SkippedNothingSent)'
  BY <1>1, <1>3 DEF AloneInv, SkippedNothingSent, Accepted
<1> QED BY <1>4, <1>5, <1>6 DEF AloneInv

-----------------------------------------------------------------------------
(* Claims, and the holder's steps                                          *)

\* None of a version's campaigns was accepted, as far as this database's row can tell.
NoneAccepted(a) == \A c \in Campaigns : prov[c].aud = a => ~Accepted(c)

\* No saved campaign, a saved draft, or no marker: nothing of the version went out.
LEMMA NothingOut ==
    ASSUME IInv, restores = 0, NEW a \in Audiences,
           \/ row[a].camp = None \/ ~row[a].schedMark
           \/ row[a].camp \in Campaigns /\ prov[row[a].camp].state = "DRAFT"
    PROVE  NoneAccepted(a)
<1> SUFFICES ASSUME NEW c \in Campaigns, prov[c].aud = a, Accepted(c) PROVE FALSE
  BY DEF NoneAccepted
<1>1. row[a].camp = c
  BY DEF IInv, AcceptedIsSaved
<1>2. row[a].schedMark
  BY <1>1, NoneIsNone DEF IInv, MarkerIsProof, Accepted
<1> QED BY <1>1, <1>2, NoneIsNone DEF Accepted

\* A claim: won where it was free, it leads to a step that found what it needs.
LEMMA ClaimAlone ==
    ASSUME IInv, AloneInv, NEW r \in Runners, run[r].pc \notin {"idle", "press", "look"},
           NEW legal, NEW s \in Row, NEW x \in Runner, Claim(r, legal, s, x),
           UNCHANGED <<prov, wire, restores>>,
           x.pc \in Claimed, x.aud = run[r].aud,
           legal => /\ ~Over(s)
                    /\ x.pc \in Creating => s.camp = None
                    /\ x.pc = "skip" => ~s.schedMark
                    /\ x.pc \in {"stampSched", "issue"} => prov[x.camp].state = "DRAFT"
    PROVE  AloneInv'
<1> DEFINE a == run[r].aud
<1>1. a \in Audiences /\ row \in [Audiences -> Row] /\ run \in [Runners -> Runner]
  BY AtVersion
<1>2. CASE UNCHANGED row /\ Leave(r)
  <2>1. \A b \in Audiences : Spared(row[b], row[b])
    BY DEF Spared
  <2> QED BY <1>2, <2>1, FreeMoves, SideStep DEF FreeMove
<1>3. CASE /\ legal /\ Claimable(row[a])
           /\ row' = [row EXCEPT ![a] = Taken(s, r)] /\ run' = [run EXCEPT ![r] = x]
  <2>1. /\ row'[a] = Taken(s, r) /\ run'[r] = x
        /\ \A b \in Audiences : b # a => row'[b] = row[b]
        /\ \A q \in Runners : q # r => run'[q] = run[q]
    BY <1>1, <1>3
  <2>2. /\ Taken(s, r).claim = r /\ ~Taken(s, r).stale /\ Taken(s, r).camp = s.camp
        /\ Taken(s, r).schedMark = s.schedMark /\ Taken(s, r).state = s.state
    BY DEF Taken, Row
  <2>3. ClaimHeld(r)'
    BY <1>3, <2>1, <2>2 DEF ClaimHeld, Over
  <2>4. FoundStill(r)'
    BY <1>3, <2>1, <2>2 DEF FoundStill, At
  <2>5. /\ \A q \in Runners : run[q].pc \in Claimed => run[q].aud # a
        /\ \A p \in wire : p.aud # a
    BY <1>1, <1>3, FreeAlone
  <2>6. row'[a].state # "SKIPPED"
    BY <1>3, <2>1, <2>2 DEF Over
  <2> QED BY <1>1, <2>1, <2>3, <2>4, <2>5, <2>6, OwnStep
<1> QED BY <1>2, <1>3 DEF Claim

LEMMA ClaimToAskAlone ==
    ASSUME IInv, AloneInv, NEW r \in Runners,
           ClaimVerify(r) \/ ClaimSkip(r) \/ ClaimResolve(r)
    PROVE  AloneInv'
<1> DEFINE s == row[run[r].aud]
           v == [run[r] EXCEPT !.pc = "verify", !.camp = s.camp]
           k == [run[r] EXCEPT !.pc = "skip"]
           w == [run[r] EXCEPT !.pc = "resolve", !.camp = s.camp]
           open == s.state \in {"PENDING", "CREATED", "FAILED"}
<1>1. s \in Row /\ run[r] \in Runner /\ run[r].pc \notin {"idle", "press", "look"}
      /\ UNCHANGED <<prov, wire, restores>>
  BY AtVersion DEF ClaimVerify, ClaimSkip, ClaimResolve, At
<1>2. /\ v \in Runner /\ v.pc = "verify" /\ v.aud = run[r].aud
      /\ k \in Runner /\ k.pc = "skip" /\ k.aud = run[r].aud
      /\ w \in Runner /\ w.pc = "resolve" /\ w.aud = run[r].aud
  BY <1>1 DEF Runner, Row, Steps, Claimed
<1>3. \/ Claim(r, s.state = "SCHEDULED", s, v)
      \/ Claim(r, open /\ ~s.schedMark, s, k)
      \/ Claim(r, open, s, w)
  BY DEF ClaimVerify, ClaimSkip, ClaimResolve
<1>4. s.state = "SCHEDULED" \/ open => ~Over(s)
  BY DEF Over
<1> HIDE DEF v, k, w, open
<1>5. CASE Claim(r, s.state = "SCHEDULED", s, v)
  BY <1>1, <1>2, <1>4, <1>5, ClaimAlone DEF Claimed, Creating
<1>6. CASE Claim(r, open /\ ~s.schedMark, s, k)
  <2> DEFINE legal == open /\ ~s.schedMark
  <2>1. Claim(r, legal, s, k) /\ (legal => ~Over(s) /\ ~s.schedMark)
    BY <1>4, <1>6
  <2> HIDE DEF legal
  <2> QED BY <1>1, <1>2, <2>1, ClaimAlone DEF Claimed, Creating
<1>7. CASE Claim(r, open, s, w)
  BY <1>1, <1>2, <1>4, <1>7, ClaimAlone DEF Claimed, Creating
<1> QED BY <1>3, <1>5, <1>6, <1>7

LEMMA ClaimScheduleAlone ==
    ASSUME IInv, AloneInv, NEW r \in Runners, ClaimSchedule(r)
    PROVE  AloneInv'
<1> DEFINE x == run[r]
           s == row[x.aud]
           first == s.state = "CREATED" /\ s.camp = x.camp /\ ~s.schedMark
           again == s.state \in {"CREATED", "FAILED"} /\ s.camp = x.camp
           i == [x EXCEPT !.pc = "issue", !.mark = FALSE]
           t == [x EXCEPT !.pc = "status", !.mark = s.schedMark]
<1>1. s \in Row /\ x \in Runner /\ x.pc \notin {"idle", "press", "look"} /\ x.aud \in Audiences
      /\ UNCHANGED <<prov, wire, restores>> /\ At(r, "claimSched")
  BY AtVersion DEF ClaimSchedule, At
<1>2. Claim(r, first, Marked(s), i) \/ Claim(r, again, s, t)
  BY DEF ClaimSchedule
<1>3. /\ i \in Runner /\ i.pc = "issue" /\ i.aud = x.aud /\ i.camp = x.camp
      /\ t \in Runner /\ t.pc = "status" /\ t.aud = x.aud
  BY <1>1 DEF Runner, Row, Steps, Claimed
<1>4. Marked(s) \in Row /\ Marked(s).state = s.state
  BY <1>1 DEF Marked, Row
<1>5. first => ~Over(Marked(s)) /\ prov[x.camp].state = "DRAFT"
  <2>1. x.camp \in Campaigns
    BY <1>1 DEF IInv, RunnerSound, RunnerCampaign, FromRow, At
  <2> QED BY <1>1, <1>4, <2>1, NoneIsNone DEF IInv, MarkerIsProof, Over
<1>6. again => ~Over(s)
  BY DEF Over
<1> HIDE DEF first, again, i, t
<1>7. CASE Claim(r, first, Marked(s), i)
  <2> DEFINE m == Marked(s)
  <2>1. m \in Row /\ Claim(r, first, m, i) /\ (first => ~Over(m) /\ prov[i.camp].state = "DRAFT")
    BY <1>3, <1>4, <1>5, <1>7
  <2> HIDE DEF m
  <2> QED BY <1>1, <1>3, <2>1, ClaimAlone DEF Claimed, Creating
<1>8. CASE Claim(r, again, s, t)
  BY <1>1, <1>3, <1>6, <1>8, ClaimAlone DEF Claimed, Creating
<1> QED BY <1>2, <1>7, <1>8

LEMMA ClaimCreateAlone ==
    ASSUME IInv, AloneInv, NEW r \in Runners, ClaimCreate(r)
    PROVE  AloneInv'
<1> DEFINE x == run[r]
           a == x.aud
           s == row[a]
           legal == s.state \in {"PENDING", "FAILED"} /\ s.camp = None
           first == legal /\ ~s.createMark
           go(p) == [x EXCEPT !.pc = p, !.mark = OwnCreate(s)]
           m == [s EXCEPT !.createMark = TRUE]
           f == Wrote(s, "FAILED", "other", FALSE)
<1>1. s \in Row /\ x \in Runner /\ x.pc \notin {"idle", "press", "look"} /\ a \in Audiences
      /\ UNCHANGED <<prov, wire, restores>> /\ row \in [Audiences -> Row]
      /\ run \in [Runners -> Runner]
  BY AtVersion DEF ClaimCreate, At
<1>2. \/ \E p \in {"stamp", "lookup"} : Claim(r, first, m, go(p)) \/ Claim(r, legal, s, go(p))
      \/ legal /\ Claimable(s) /\ row' = [row EXCEPT ![a] = Released(f)] /\ Leave(r)
      \/ row' = row /\ Leave(r)
  BY DEF ClaimCreate, FirstCreate, Wrote
<1>3. \A p \in {"stamp", "lookup"} : go(p) \in Runner /\ go(p).pc = p /\ go(p).aud = a
  BY <1>1 DEF Runner, Row, Steps, Claimed, OwnCreate
<1>4. m \in Row /\ m.state = s.state /\ m.camp = s.camp
  BY <1>1 DEF Row
<1>5. legal => ~Over(s) /\ s.camp = None
  BY DEF Over
<1>6. first => ~Over(m) /\ m.camp = None
  BY <1>4 DEF Over
<1>7. Plain(s, f) /\ f.state = "FAILED"
  BY <1>1, PlainWrites DEF States, Errors
<1> HIDE DEF first, legal, m, f
<1>8. ASSUME NEW p \in {"stamp", "lookup"}, Claim(r, first, m, go(p)) PROVE AloneInv'
  <2> DEFINE g == go(p)
  <2>1. g \in Runner /\ g.pc = p /\ g.aud = a /\ Claim(r, first, m, g)
    BY <1>3, <1>8
  <2> HIDE DEF g
  <2> QED BY <1>1, <1>4, <1>6, <2>1, ClaimAlone DEF Claimed, Creating
<1>9. ASSUME NEW p \in {"stamp", "lookup"}, Claim(r, legal, s, go(p)) PROVE AloneInv'
  <2> DEFINE g == go(p)
  <2>1. g \in Runner /\ g.pc = p /\ g.aud = a /\ Claim(r, legal, s, g)
    BY <1>3, <1>9
  <2> HIDE DEF g
  <2> QED BY <1>1, <1>5, <2>1, ClaimAlone DEF Claimed, Creating
<1>10. CASE Claimable(s) /\ row' = [row EXCEPT ![a] = Released(f)] /\ Leave(r)
  <2>1. /\ row'[a] = Released(f) /\ \A b \in Audiences : b # a => row'[b] = row[b]
    BY <1>1, <1>10
  <2>2. Released(f).state = "FAILED"
    BY <1>7 DEF Plain, Released, Row
  <2>3. FreeMove(r)
    BY <1>10, FreeMoves
  <2>4. run'[r].pc \notin Claimed /\ \A q \in Runners : q # r => run'[q] = run[q]
    BY <1>1, <1>10, LeftTyped DEF Leave, Claimed
  <2>5. /\ \A q \in Runners : run[q].pc \in Claimed => run[q].aud # a
        /\ \A p \in wire : p.aud # a
    BY <1>1, <1>10, FreeAlone
  <2> QED BY <1>1, <2>1, <2>2, <2>4, <2>5, OwnStep
<1>11. CASE row' = row /\ Leave(r)
  BY <1>1, <1>11, FreeMoves, SideEdit DEF Spared
<1> QED BY <1>2, <1>8, <1>9, <1>10, <1>11

\* The holder goes on, or writes for the last time and lets go; nothing is in flight.
LEMMA HolderStep ==
    ASSUME IInv, AloneInv, NEW r \in Runners, run[r].pc \in Claimed,
           \A b \in Audiences : b # run[r].aud => row'[b] = row[b],
           \A q \in Runners : q # r => run'[q] = run[q],
           run'[r].pc \in Claimed => run'[r].aud = run[r].aud /\ ClaimHeld(r)' /\ FoundStill(r)',
           UNCHANGED <<prov, restores>>, wire' \subseteq wire,
           \A p \in wire' : p.aud # run[r].aud,
           restores = 0 /\ row'[run[r].aud].state = "SKIPPED" => NoneAccepted(run[r].aud)
    PROVE  AloneInv'
<1> DEFINE a == run[r].aud
<1>1. a \in Audiences /\ \A q \in Runners : q # r /\ run[q].pc \in Claimed => run[q].aud # a
  BY HolderAlone
<1> QED BY <1>1, OwnStep DEF NoneAccepted

\* The reply, or giving it up, ends the only request of the version; elsewhere there is none.
LEMMA CallOver ==
    ASSUME IInv, AloneInv, ~LateCalls, NEW r \in Runners, run[r].pc \in Claimed,
           \/ UNCHANGED wire /\ run[r].pc \notin {"create", "sched"}
           \/ \E op : \E q \in MyCall(r, op) : wire' = wire \ {q} \/ GiveUp(q)
    PROVE  wire' \subseteq wire /\ \A p \in wire' : p.aud # run[r].aud
<1> DEFINE a == run[r].aud
<1>1. \A p \in wire : p.aud = a =>
        p.by = r /\ p.live /\ run[r].pc \in {"create", "sched"}
        /\ \A o \in wire : o.live /\ o.by = r => o = p
  BY HolderAlone
<1>2. CASE UNCHANGED wire /\ run[r].pc \notin {"create", "sched"}
  BY <1>1, <1>2
<1>3. CASE \E op : \E q \in MyCall(r, op) : wire' = wire \ {q} \/ GiveUp(q)
  <2>1. PICK q \in wire : q.by = r /\ q.live /\ wire' = wire \ {q}
    BY <1>3 DEF MyCall, GiveUp
  <2> QED BY <1>1, <2>1
<1> QED BY <1>2, <1>3

LEMMA FinishAlone ==
    ASSUME IInv, AloneInv, ~LateCalls, NEW r \in Runners, run[r].pc \in Claimed,
           NEW t, Plain(row[run[r].aud], t), FinishStep(r, t), FreeMove(r),
           UNCHANGED <<prov, restores>>,
           \/ UNCHANGED wire /\ run[r].pc \notin {"create", "sched"}
           \/ \E op : \E q \in MyCall(r, op) : wire' = wire \ {q} \/ GiveUp(q),
           restores = 0 /\ t.state = "SKIPPED" => NoneAccepted(run[r].aud)
    PROVE  AloneInv'
<1> DEFINE a == run[r].aud
<1>1. wire' \subseteq wire /\ \A p \in wire' : p.aud # a
  BY CallOver
<1>2. a \in Audiences /\ Holds(r) /\ row \in [Audiences -> Row]
  BY HolderAlone, AtVersion DEF Claimed
<1>3. /\ row'[a] = Released(t) /\ \A b \in Audiences : b # a => row'[b] = row[b]
  BY <1>2 DEF FinishStep
<1>4. Released(t).state = t.state
  BY DEF Released, Plain, Row
<1> QED BY <1>1, <1>3, <1>4, HolderStep DEF FreeMove

\* What the provider's answers write is never a skip.
LEMMA NotSkipped ==
    ASSUME NEW s \in Row
    PROVE  /\ \A t \in ProviderFailures(s) : t.state # "SKIPPED"
           /\ Scheduled(s).state # "SKIPPED" /\ [Scheduled(s) EXCEPT !.waiting = FALSE].state # "SKIPPED"
           /\ \A kind : ScheduleFailure(s, kind).state # "SKIPPED"
           /\ Wrote(s, "FAILED", "terminal", FALSE).state # "SKIPPED"
           /\ Waits(s, TRUE).state = s.state
           /\ Moved(s, "SENT", FALSE).state # "SKIPPED"
           /\ Moved(s, "PARTIALLY_SENT", FALSE).state # "SKIPPED"
<1>1. \A t \in ProviderFailures(s) : t.state # "SKIPPED"
  BY DEF ProviderFailures, Row
<1>2. Scheduled(s).state = "SCHEDULED" /\ [Scheduled(s) EXCEPT !.waiting = FALSE].state = "SCHEDULED"
  BY DEF Scheduled, Row
<1>3. \A kind : ScheduleFailure(s, kind).state # "SKIPPED"
  BY DEF ScheduleFailure, Row
<1>4. Wrote(s, "FAILED", "terminal", FALSE).state = "FAILED"
  BY DEF Wrote, Row
<1>5. Waits(s, TRUE).state = s.state
  BY DEF Waits, Row
<1>6. /\ Moved(s, "SENT", FALSE).state = "SENT"
      /\ Moved(s, "PARTIALLY_SENT", FALSE).state = "PARTIALLY_SENT"
  BY DEF Moved, Row
<1> QED BY <1>1, <1>2, <1>3, <1>4, <1>5, <1>6

LEMMA VerifyAlone ==
    ASSUME IInv, AloneInv, ~LateCalls, NEW r \in Runners, Verify(r)
    PROVE  AloneInv'
<1> DEFINE s == row[run[r].aud]
<1>1. s \in Row /\ run[r].pc \in Claimed /\ run[r].pc \notin {"create", "sched"} /\ Leave(r)
      /\ UNCHANGED <<prov, wire, restores>>
  BY AtVersion DEF Verify, At, Claimed
<1>2. PICK t : /\ FinishStep(r, t)
               /\ \/ t = Wrote(s, "FAILED", "terminal", FALSE) \/ t = Waits(s, TRUE)
                  \/ t = Moved(s, "SENT", FALSE) \/ t = Moved(s, "PARTIALLY_SENT", FALSE)
                  \/ t \in ProviderFailures(s)
  BY DEF Verify, Wrote, Moved, Waits
<1>3. Plain(s, t)
  <2>1. Plain(s, Waits(s, TRUE)) /\ Plain(s, Moved(s, "SENT", FALSE))
        /\ Plain(s, Moved(s, "PARTIALLY_SENT", FALSE))
    BY <1>1, PlainMoves DEF States
  <2> QED BY <1>1, <1>2, <2>1, PlainEdits
<1>4. ~Over(s)
  BY <1>1, HolderAlone
<1>5. t.state # "SKIPPED"
  BY <1>1, <1>2, <1>4, NotSkipped DEF Over
<1>6. FreeMove(r)
  BY <1>1, FreeMoves
<1> QED BY <1>1, <1>2, <1>3, <1>5, <1>6, FinishAlone

\* The sweep's claim was won on a null marker, and nobody has set it since.
LEMMA SkipAlone ==
    ASSUME IInv, AloneInv, ~LateCalls, NEW r \in Runners, Skip(r)
    PROVE  AloneInv'
<1> DEFINE s == row[run[r].aud]
           t == Moved(s, "SKIPPED", FALSE)
<1>1. s \in Row /\ run[r].pc \in Claimed /\ run[r].pc \notin {"create", "sched"} /\ Leave(r)
      /\ UNCHANGED <<prov, wire, restores>> /\ FinishStep(r, t) /\ At(r, "skip")
      /\ run[r].aud \in Audiences
  BY AtVersion DEF Skip, At, Claimed, Moved
<1>2. Plain(s, t)
  BY <1>1, PlainMoves DEF States
<1>3. ~s.schedMark
  BY <1>1 DEF AloneInv, FoundStill
<1>4. restores = 0 => NoneAccepted(run[r].aud)
  BY <1>1, <1>3, NothingOut
<1>5. FreeMove(r)
  BY <1>1, FreeMoves
<1> HIDE DEF t
<1> QED BY <1>1, <1>2, <1>4, <1>5, FinishAlone

\* The provider itself said the row's campaign is still a draft.
LEMMA ResolveAlone ==
    ASSUME IInv, RecordInv, AloneInv, ~LateCalls, NEW r \in Runners, Resolve(r)
    PROVE  AloneInv'
<1> DEFINE a == run[r].aud
           s == row[a]
           st == prov[run[r].camp].state
<1>1. s \in Row /\ a \in Audiences /\ run[r].pc \in Claimed /\ run[r].pc \notin {"create", "sched"}
      /\ UNCHANGED <<prov, wire, restores>>
  BY AtVersion DEF Resolve, At, Claimed
<1>2. s.camp \in Campaigns /\ s.camp = run[r].camp
  BY DEF RecordInv, RunnerRecord, AsksItsRow, Resolve, At
<1>3. PICK t : /\ FinishStep(r, t)
               /\ \/ t = Wrote(s, "FAILED", "terminal", FALSE)
                  \/ st = "DRAFT" /\ t = Moved(s, "SKIPPED", FALSE)
                  \/ t = Scheduled(s) \/ t \in ProviderFailures(s)
  BY DEF Resolve, Wrote, Moved, StillDraft
<1>4. Plain(s, t)
  <2>1. Plain(s, Moved(s, "SKIPPED", FALSE))
    BY <1>1, PlainMoves DEF States
  <2> QED BY <1>1, <1>3, <2>1, PlainEdits
<1>5. t.state = "SKIPPED" => st = "DRAFT"
  BY <1>1, <1>3, NotSkipped
<1>6. restores = 0 /\ t.state = "SKIPPED" => NoneAccepted(a)
  BY <1>1, <1>2, <1>5, NothingOut
<1>7. FreeMove(r)
  <2>1. Leave(r) \/ \E p \in Resting : Goto(r, p)
    BY DEF Resolve, Resting, Steps, Claimed
  <2> QED BY <2>1, FreeMoves
<1> QED BY <1>1, <1>3, <1>4, <1>6, <1>7, FinishAlone

\* The holder goes on to another of its steps and the row keeps its claim.
LEMMA HolderGoes ==
    ASSUME IInv, AloneInv, NEW r \in Runners, run[r].pc \in Claimed,
           NEW z \in Runner, run' = [run EXCEPT ![r] = z], z.pc \in Claimed, z.aud = run[r].aud,
           NEW t,
           \/ UNCHANGED row
           \/ t.claim = r /\ ~t.stale /\ ~Over(t) /\ row' = [row EXCEPT ![run[r].aud] = t],
           z.pc \in Creating => row'[run[r].aud].camp = None,
           z.pc # "skip",
           z.pc \in {"stampSched", "issue"} => prov[z.camp].state = "DRAFT",
           UNCHANGED <<prov, restores>>,
           \A p \in wire' : p.aud # run[r].aud => p \in wire,
           \A p \in wire' : p.aud = run[r].aud => p.by = r /\ p.live
    PROVE  AloneInv'
<1> DEFINE a == run[r].aud
<1>1. /\ a \in Audiences /\ row \in [Audiences -> Row] /\ run \in [Runners -> Runner]
      /\ row[a].claim = r /\ ~row[a].stale /\ ~Over(row[a])
      /\ \A q \in Runners : q # r /\ run[q].pc \in Claimed => run[q].aud # a
  BY HolderAlone DEF Holds, IInv, TypeOK
<1>2. /\ run'[r] = z /\ \A q \in Runners : q # r => run'[q] = run[q]
      /\ \A b \in Audiences : b # a => row'[b] = row[b]
      /\ row'[a].claim = r /\ ~row'[a].stale /\ ~Over(row'[a])
  BY <1>1
<1>3. ClaimHeld(r)'
  BY <1>2 DEF ClaimHeld
<1>4. FoundStill(r)'
  BY <1>2 DEF FoundStill, At
<1>5. row'[a].state # "SKIPPED"
  BY <1>2 DEF Over
<1> QED BY <1>1, <1>2, <1>3, <1>4, <1>5, OwnStep

LEMMA AskStatusAlone ==
    ASSUME IInv, AloneInv, ~LateCalls, NEW r \in Runners, AskStatus(r)
    PROVE  AloneInv'
<1> DEFINE x == run[r]
           s == row[x.aud]
           z == [x EXCEPT !.pc = "stampSched"]
<1>1. s \in Row /\ x \in Runner /\ x.pc \in Claimed /\ x.pc \notin {"create", "sched"}
      /\ UNCHANGED <<prov, wire, restores>>
  BY AtVersion DEF AskStatus, At, Claimed
<1>2. \/ prov[x.camp].state = "DRAFT" /\ run' = [run EXCEPT ![r] = z] /\ row' = row
      \/ /\ \E t : FinishStep(r, t)
                  /\ (t = ScheduleFailure(s, "unknown") \/ t = Scheduled(s) \/ t \in ProviderFailures(s))
         /\ Leave(r) \/ Goto(r, "scheduled")
  BY DEF AskStatus, StillDraft, Goto
<1>3. z \in Runner /\ z.pc = "stampSched" /\ z.aud = x.aud /\ z.camp = x.camp
  BY <1>1 DEF Runner, Steps, Claimed
<1> HIDE DEF z
<1>4. CASE prov[x.camp].state = "DRAFT" /\ run' = [run EXCEPT ![r] = z] /\ row' = row
  <2>1. \A p \in wire : p.aud # x.aud
    BY <1>1, HolderAlone
  <2>2. z.pc \in Claimed /\ z.pc \notin Creating /\ z.pc # "skip"
    BY <1>3 DEF Claimed, Creating
  <2> QED BY <1>1, <1>3, <1>4, <2>1, <2>2, HolderGoes
<1>5. ASSUME NEW t, FinishStep(r, t),
             t = ScheduleFailure(s, "unknown") \/ t = Scheduled(s) \/ t \in ProviderFailures(s),
             Leave(r) \/ Goto(r, "scheduled")
      PROVE  AloneInv'
  <2>1. Plain(s, t)
    BY <1>1, <1>5, PlainEdits
  <2>2. t.state # "SKIPPED"
    BY <1>1, <1>5, NotSkipped
  <2>3. "scheduled" \in Resting
    BY DEF Resting, Steps, Claimed
  <2>4. FreeMove(r)
    BY <1>5, <2>3, FreeMoves
  <2> QED BY <1>1, <1>5, <2>1, <2>2, <2>4, FinishAlone
<1> QED BY <1>2, <1>4, <1>5

LEMMA AdoptMarkAlone ==
    ASSUME IInv, AloneInv, ~LateCalls, NEW r \in Runners, AdoptMark(r)
    PROVE  AloneInv'
<1> DEFINE s == row[run[r].aud]
           u == [Scheduled(s) EXCEPT !.waiting = FALSE]
<1>1. s \in Row /\ run[r].pc \in Claimed /\ run[r].pc \notin {"create", "sched"}
      /\ UNCHANGED <<prov, wire, restores>>
  BY AtVersion DEF AdoptMark, At, Claimed
<1>2. PICK t : FinishStep(r, t) /\ (t = u \/ t \in ProviderFailures(s))
  BY DEF AdoptMark
<1>3. Leave(r) \/ Goto(r, "created")
  BY DEF AdoptMark
<1>4. Plain(s, t) /\ t.state # "SKIPPED"
  <2>1. Plain(s, u) /\ u.state # "SKIPPED"
    BY <1>1, PlainEdits, NotSkipped
  <2> HIDE DEF u
  <2> QED BY <1>1, <1>2, <2>1, PlainEdits, NotSkipped
<1>5. "created" \in Resting
  BY DEF Resting, Steps, Claimed
<1>6. FreeMove(r)
  BY <1>3, <1>5, FreeMoves
<1> HIDE DEF u
<1> QED BY <1>1, <1>2, <1>4, <1>6, FinishAlone

LEMMA ScheduleReplyAlone ==
    ASSUME IInv, AloneInv, ~LateCalls, NEW r \in Runners, ScheduleReply(r)
    PROVE  AloneInv'
<1> DEFINE s == row[run[r].aud]
<1>1. s \in Row /\ run[r].pc \in Claimed /\ UNCHANGED <<prov, restores>>
  BY AtVersion DEF ScheduleReply, At, Claimed
<1>2. PICK q \in MyCall(r, "schedule") :
        /\ wire' = wire \ {q} \/ GiveUp(q)
        /\ \/ FinishStep(r, Scheduled(s)) /\ Goto(r, "scheduled")
           \/ (\E kind : FinishStep(r, ScheduleFailure(s, kind))) /\ Leave(r)
  BY DEF ScheduleReply
<1>3. PICK t : FinishStep(r, t) /\ (t = Scheduled(s) \/ \E kind : t = ScheduleFailure(s, kind))
  BY <1>2
<1>4. Plain(s, t) /\ t.state # "SKIPPED"
  <2>1. Plain(s, Scheduled(s)) /\ Scheduled(s).state # "SKIPPED"
    BY <1>1, PlainEdits, NotSkipped
  <2>2. ASSUME NEW kind
        PROVE  Plain(s, ScheduleFailure(s, kind)) /\ ScheduleFailure(s, kind).state # "SKIPPED"
    BY <1>1, PlainEdits, NotSkipped
  <2> QED BY <1>3, <2>1, <2>2
<1>5. "scheduled" \in Resting
  BY DEF Resting, Steps, Claimed
<1>6. FreeMove(r)
  BY <1>2, <1>5, FreeMoves
<1>7. \E op : \E p \in MyCall(r, op) : wire' = wire \ {p} \/ GiveUp(p)
  BY <1>2
<1> QED BY <1>1, <1>3, <1>4, <1>6, <1>7, FinishAlone

\* The holder goes on and nothing but its step changed.
LEMMA HolderMoves ==
    ASSUME IInv, AloneInv, NEW r \in Runners, run[r].pc \in Claimed,
           run[r].pc \notin {"create", "sched"},
           NEW z \in Runner, run' = [run EXCEPT ![r] = z], z.pc \in Claimed, z.aud = run[r].aud,
           UNCHANGED <<row, prov, wire, restores>>,
           z.pc \in Creating => row[run[r].aud].camp = None,
           z.pc \notin {"skip", "stampSched", "issue"}
    PROVE  AloneInv'
<1>1. \A p \in wire : p.aud # run[r].aud
  BY HolderAlone
<1> QED BY <1>1, HolderGoes

\* A create that failed, or was given up, leaves a version without a campaign.
LEMMA CreateFailureAlone ==
    ASSUME IInv, AloneInv, ~LateCalls, NEW r \in Runners,
           run[r].pc \in {"lookup", "create"},
           NEW kind, NEW keep \in BOOLEAN, NEW t \in CreateFailures(row[run[r].aud], kind, keep),
           FinishStep(r, t), Leave(r), UNCHANGED <<prov, restores>>,
           \/ UNCHANGED wire /\ run[r].pc \notin {"create", "sched"}
           \/ \E op : \E q \in MyCall(r, op) : wire' = wire \ {q} \/ GiveUp(q)
    PROVE  AloneInv'
<1> DEFINE a == run[r].aud
<1>1. a \in Audiences /\ row[a] \in Row /\ run[r].pc \in Claimed
  BY AtVersion DEF Claimed
<1>2. row[a].camp = None
  BY DEF AloneInv, FoundStill, Creating
<1>3. restores = 0 => NoneAccepted(a)
  BY <1>1, <1>2, NothingOut
<1>4. Plain(row[a], t)
  BY <1>1, PlainCreateFailures
<1>5. FreeMove(r)
  BY FreeMoves
<1> QED BY <1>1, <1>3, <1>4, <1>5, FinishAlone

LEMMA LookupAlone ==
    ASSUME IInv, AloneInv, ~LateCalls, NEW r \in Runners, Lookup(r)
    PROVE  AloneInv'
<1> DEFINE a == run[r].aud
<1>1. At(r, "lookup") /\ run[r].pc \in Claimed /\ run[r] \in Runner
      /\ UNCHANGED <<prov, wire, restores>>
  BY AtVersion DEF Lookup, At, Claimed
<1>2. row[a].camp = None
  BY <1>1 DEF AloneInv, FoundStill, Creating, At
<1>3. ASSUME NEW c \in Campaigns, UNCHANGED row,
             run' = [run EXCEPT ![r].pc = "adopt", ![r].camp = c]
      PROVE  AloneInv'
  <2> DEFINE z == [run[r] EXCEPT !.pc = "adopt", !.camp = c]
  <2>1. z \in Runner /\ z.pc = "adopt" /\ z.aud = a /\ z.pc \in Claimed
    BY <1>1 DEF Runner, Steps, Claimed
  <2>2. run' = [run EXCEPT ![r] = z]
    BY <1>3 DEF IInv, TypeOK
  <2> HIDE DEF z
  <2> QED BY <1>1, <1>2, <1>3, <2>1, <2>2, HolderMoves DEF At
<1>4. ASSUME Goto(r, "stamp"), UNCHANGED row PROVE AloneInv'
  <2> DEFINE z == [run[r] EXCEPT !.pc = "stamp"]
  <2>1. z \in Runner /\ z.pc = "stamp" /\ z.aud = a /\ z.pc \in Claimed
    BY <1>1 DEF Runner, Steps, Claimed
  <2>2. run' = [run EXCEPT ![r] = z]
    BY <1>4 DEF IInv, TypeOK, Goto
  <2> HIDE DEF z
  <2> QED BY <1>1, <1>2, <1>4, <2>1, <2>2, HolderMoves DEF At
<1>5. ASSUME NEW kind, NEW s \in CreateFailures(row[a], kind, TRUE), FinishStep(r, s), Leave(r)
      PROVE  AloneInv'
  BY <1>1, <1>5, CreateFailureAlone DEF At
<1> QED BY <1>3, <1>4, <1>5 DEF Lookup

LEMMA AdoptAlone ==
    ASSUME IInv, AloneInv, NEW r \in Runners, Adopt(r)
    PROVE  AloneInv'
<1> DEFINE c == run[r].camp
<1>1. At(r, "adopt") /\ run[r].pc \in Claimed /\ run[r] \in Runner
      /\ UNCHANGED <<row, prov, wire, restores>> /\ run[r].aud \in Audiences
  BY AtVersion DEF Adopt, At, Claimed
<1>2. row[run[r].aud].camp = None
  BY <1>1 DEF AloneInv, FoundStill, Creating, At
<1>3. prov[c].state \in Answers
  <2>1. prov[c] \in Campaign /\ prov[c].state # "NONE"
    BY <1>1, NoneIsNone
       DEF At, IInv, TypeOK, RunnerSound, RunnerCampaign, OnCampaign, ProviderSound
  <2> QED BY <2>1 DEF Campaign, Answers
<1>4. PICK ans \in {"unknown", prov[c].state} :
        run' = [run EXCEPT ![r].pc = "adoptSave", ![r].ans = ans]
  BY DEF Adopt
<1> DEFINE z == [run[r] EXCEPT !.pc = "adoptSave", !.ans = ans]
<1>5. z \in Runner /\ z.pc = "adoptSave" /\ z.aud = run[r].aud /\ z.pc \in Claimed
  BY <1>1, <1>3 DEF Runner, Steps, Claimed, Answers
<1>6. run' = [run EXCEPT ![r] = z]
  BY <1>4 DEF IInv, TypeOK
<1> HIDE DEF z
<1> QED BY <1>1, <1>2, <1>5, <1>6, HolderMoves DEF At

\* The id is saved: the holder lets go, or keeps its claim to record what it was told.
LEMMA SaveAlone ==
    ASSUME IInv, AloneInv, NEW r \in Runners, run[r].pc \in {"adoptSave", "persist"},
           NEW extra \in Row, NEW next, NEW lost, SaveId(r, row[run[r].aud], extra, next, lost),
           \/ next = "created"
           \/ next = "adoptMark" /\ extra.claim = r /\ ~extra.stale,
           UNCHANGED <<prov, wire, restores>>
    PROVE  AloneInv'
<1> DEFINE a == run[r].aud
           t == [extra EXCEPT !.camp = run[r].camp, !.state = "CREATED",
                              !.waiting = FALSE, !.err = "none"]
<1>1. run[r].pc \in Claimed /\ run[r].pc \notin {"create", "sched"} /\ a \in Audiences
      /\ row \in [Audiences -> Row] /\ run \in [Runners -> Runner] /\ run[r] \in Runner
  BY AtVersion DEF Claimed
<1>2. row[a].camp = None
  BY DEF AloneInv, FoundStill, Creating
<1>3. row' = [row EXCEPT ![a] = t] /\ Goto(r, next)
  BY <1>2 DEF SaveId, NoIdYet
<1>4. t.state = "CREATED" /\ t.claim = extra.claim /\ t.stale = extra.stale
  BY DEF Row
<1>5. ~Over(t)
  BY <1>4 DEF Over
<1> HIDE DEF t
<1>6. \A p \in wire : p.aud # a
  BY <1>1, HolderAlone
<1>7. CASE next = "created"
  <2>1. FreeMove(r)
    BY <1>3, <1>7, FreeMoves DEF Resting, Steps, Claimed
  <2>2. /\ row'[a] = t /\ \A b \in Audiences : b # a => row'[b] = row[b]
    BY <1>1, <1>3
  <2> QED BY <1>1, <1>4, <1>6, <2>1, <2>2, HolderStep DEF FreeMove
<1>8. CASE next = "adoptMark" /\ extra.claim = r /\ ~extra.stale
  <2> DEFINE z == [run[r] EXCEPT !.pc = "adoptMark"]
  <2>1. z \in Runner /\ z.pc = "adoptMark" /\ z.aud = a /\ z.pc \in Claimed /\ z.pc \notin Creating
    BY <1>1 DEF Runner, Steps, Claimed, Creating
  <2>2. run' = [run EXCEPT ![r] = z]
    BY <1>3, <1>8 DEF Goto, IInv, TypeOK
  <2> HIDE DEF z
  <2> QED BY <1>1, <1>3, <1>4, <1>5, <1>6, <1>8, <2>1, <2>2, HolderGoes
<1> QED BY <1>7, <1>8

LEMMA AdoptSaveAlone ==
    ASSUME IInv, AloneInv, NEW r \in Runners, AdoptSave(r)
    PROVE  AloneInv'
<1> DEFINE a == run[r].aud
           s == row[a]
           marked == [s EXCEPT !.schedMark = TRUE]
           foreign == [marked EXCEPT !.adopted = TRUE, !.own = TRUE, !.approved = FALSE]
<1>1. At(r, "adoptSave") /\ run[r].pc \in Claimed /\ s \in Row
      /\ UNCHANGED <<prov, wire, restores>>
  BY AtVersion DEF AdoptSave, At, Claimed
<1>2. s.claim = r /\ ~s.stale
  BY <1>1 DEF AloneInv, ClaimHeld
<1>3. marked \in Row /\ marked.claim = r /\ ~marked.stale /\ foreign \in Row
  BY <1>1, <1>2 DEF Row
<1>4. Released(marked) \in Row /\ Released(foreign) \in Row
  BY <1>3, RowEdits
<1>5. \E lost : \/ SaveId(r, s, marked, "adoptMark", lost)
                \/ SaveId(r, s, Released(marked), "created", lost)
                \/ SaveId(r, s, Released(foreign), "created", lost)
  BY DEF AdoptSave
<1> HIDE DEF marked, foreign
<1> QED BY <1>1, <1>3, <1>4, <1>5, SaveAlone DEF At

LEMMA PersistAlone ==
    ASSUME IInv, AloneInv, NEW r \in Runners, Persist(r)
    PROVE  AloneInv'
<1> DEFINE s == row[run[r].aud]
<1>1. At(r, "persist") /\ run[r].pc \in Claimed /\ s \in Row
      /\ UNCHANGED <<prov, wire, restores>>
  BY AtVersion DEF Persist, At, Claimed
<1>2. Released(s) \in Row
  BY <1>1, RowEdits
<1>3. CASE SaveId(r, s, Released(s), "created", row)
  BY <1>1, <1>2, <1>3, SaveAlone DEF At
<1>4. CASE UNCHANGED row /\ Leave(r)
  <2>1. \A b \in Audiences : Spared(row[b], row[b])
    BY DEF Spared
  <2> QED BY <1>1, <1>4, <2>1, FreeMoves, SideStep DEF FreeMove
<1> QED BY <1>3, <1>4 DEF Persist

LEMMA StampAlone ==
    ASSUME IInv, AloneInv, NEW r \in Runners, Stamp(r)
    PROVE  AloneInv'
<1> DEFINE a == run[r].aud
           s == row[a]
           t == [s EXCEPT !.createMark = TRUE, !.createSent = TRUE]
           q == [op |-> "create", by |-> r, aud |-> a, camp |-> None,
                 content |-> s.content, live |-> TRUE, done |-> FALSE]
           z == [run[r] EXCEPT !.pc = "create"]
<1>1. At(r, "stamp") /\ run[r].pc \in Claimed /\ s \in Row /\ run[r] \in Runner
      /\ row \in [Audiences -> Row] /\ UNCHANGED <<prov, restores>>
  BY AtVersion DEF Stamp, At, Claimed
<1>2. Holds(r) /\ ~s.stale /\ ~Over(s) /\ \A p \in wire : p.aud # a
  BY <1>1, HolderAlone DEF At
<1>3. row' = [row EXCEPT ![a] = t] /\ wire' = wire \cup {q} /\ run' = [run EXCEPT ![r] = z]
  BY <1>1, <1>2 DEF Stamp, Goto
<1>4. t.claim = r /\ ~t.stale /\ t.camp = None /\ t.state = s.state
  BY <1>1, <1>2 DEF Row, Holds, AloneInv, FoundStill, Creating, At
<1>5. ~Over(t)
  BY <1>2, <1>4 DEF Over
<1>6. z \in Runner /\ z.pc = "create" /\ z.aud = a /\ z.pc \in Claimed
  BY <1>1 DEF Runner, Steps, Claimed
<1>7. q.by = r /\ q.live /\ q.aud = a
  OBVIOUS
<1> HIDE DEF t, q, z
<1>8. row'[a].camp = None
  BY <1>1, <1>3, <1>4, AtVersion DEF At
<1>9. /\ \A p \in wire' : p.aud # a => p \in wire
      /\ \A p \in wire' : p.aud = a => p.by = r /\ p.live
  BY <1>2, <1>3, <1>7
<1>10. z.pc \notin {"skip", "stampSched", "issue"}
  BY <1>6
<1> QED BY <1>1, <1>3, <1>4, <1>5, <1>6, <1>8, <1>9, <1>10, HolderGoes

LEMMA CreateReplyAlone ==
    ASSUME IInv, AloneInv, ~LateCalls, NEW r \in Runners, CreateReply(r)
    PROVE  AloneInv'
<1> DEFINE a == run[r].aud
<1>1. At(r, "create") /\ run[r].pc \in Claimed /\ run[r] \in Runner
      /\ UNCHANGED <<prov, restores>>
  BY AtVersion DEF CreateReply, At, Claimed
<1>2. PICK q \in MyCall(r, "create") :
        \/ /\ q.done /\ wire' = wire \ {q}
           /\ run' = [run EXCEPT ![r].pc = "persist", ![r].camp = q.camp]
           /\ UNCHANGED row
        \/ /\ wire' = wire \ {q} \/ GiveUp(q)
           /\ \E kind : \E s \in CreateFailures(row[q.aud], kind, FALSE) : FinishStep(r, s)
           /\ Leave(r)
  BY DEF CreateReply
<1>3. q \in wire /\ q.op = "create" /\ q.aud = a
  BY CallerKnown
<1>4. \E op : \E p \in MyCall(r, op) : wire' = wire \ {p} \/ GiveUp(p)
  BY <1>2
<1>5. CASE /\ q.done
           /\ run' = [run EXCEPT ![r].pc = "persist", ![r].camp = q.camp]
           /\ UNCHANGED row
  <2> DEFINE z == [run[r] EXCEPT !.pc = "persist", !.camp = q.camp]
  <2>1. q.camp \in Campaigns
    BY <1>3, <1>5 DEF IInv, CreateRequests
  <2>2. z \in Runner /\ z.pc = "persist" /\ z.aud = a /\ z.pc \in Claimed
    BY <1>1, <2>1 DEF Runner, Steps, Claimed
  <2>3. run' = [run EXCEPT ![r] = z]
    BY <1>5 DEF IInv, TypeOK
  <2> HIDE DEF z
  <2>4. row[a].camp = None
    BY <1>1 DEF AloneInv, FoundStill, Creating, At
  <2>5. wire' \subseteq wire /\ \A p \in wire' : p.aud # a
    BY <1>1, <1>4, CallOver
  <2> QED BY <1>1, <1>5, <2>2, <2>3, <2>4, <2>5, HolderGoes
<1>6. ASSUME NEW kind, NEW s \in CreateFailures(row[q.aud], kind, FALSE), FinishStep(r, s), Leave(r)
      PROVE  AloneInv'
  BY <1>1, <1>3, <1>4, <1>6, CreateFailureAlone DEF At
<1> QED BY <1>2, <1>5, <1>6

LEMMA StampScheduleAlone ==
    ASSUME IInv, AloneInv, NEW r \in Runners, StampSchedule(r)
    PROVE  AloneInv'
<1> DEFINE s == row[run[r].aud]
           m == Marked(s)
           z == [run[r] EXCEPT !.pc = "issue"]
<1>1. At(r, "stampSched") /\ run[r].pc \in Claimed /\ s \in Row /\ run[r] \in Runner
      /\ row \in [Audiences -> Row] /\ UNCHANGED <<prov, wire, restores>>
  BY AtVersion DEF StampSchedule, At, Claimed
<1>2. Holds(r) /\ ~s.stale /\ ~Over(s) /\ \A p \in wire : p.aud # run[r].aud
  BY <1>1, HolderAlone DEF At
<1>3. row' = [row EXCEPT ![run[r].aud] = m] /\ run' = [run EXCEPT ![r] = z]
  BY <1>1, <1>2 DEF StampSchedule, Goto
<1>4. m.claim = r /\ ~m.stale /\ m.state = s.state
  BY <1>1, <1>2 DEF Marked, Row, Holds
<1>5. ~Over(m)
  BY <1>2, <1>4 DEF Over
<1>6. z \in Runner /\ z.pc = "issue" /\ z.aud = run[r].aud /\ z.camp = run[r].camp
  BY <1>1 DEF Runner, Steps, Claimed
<1>7. prov[z.camp].state = "DRAFT"
  BY <1>1, <1>6 DEF AloneInv, FoundStill, At
<1>8. z.pc \in Claimed /\ z.pc \notin Creating /\ z.pc # "skip"
  BY <1>6 DEF Claimed, Creating
<1> HIDE DEF m, z
<1> QED BY <1>1, <1>2, <1>3, <1>4, <1>5, <1>6, <1>7, <1>8, HolderGoes

LEMMA IssueScheduleAlone ==
    ASSUME IInv, AloneInv, ~LateCalls, NEW r \in Runners, IssueSchedule(r)
    PROVE  AloneInv'
<1> DEFINE x == run[r]
           a == x.aud
           s == row[a]
           t == [s EXCEPT !.schedMark = x.mark]
           q == [op |-> "schedule", by |-> r, aud |-> a, camp |-> x.camp,
                 content |-> 0, live |-> TRUE, done |-> FALSE]
           z == [x EXCEPT !.pc = "sched"]
<1>1. At(r, "issue") /\ x.pc \in Claimed /\ s \in Row /\ x \in Runner /\ x.mark \in BOOLEAN
      /\ UNCHANGED <<prov, restores>>
  BY AtVersion DEF IssueSchedule, At, Claimed, Runner
<1>2. ~Over(s) /\ \A p \in wire : p.aud # a
  BY <1>1, HolderAlone DEF At
<1>3. \/ FinishStep(r, t) /\ UNCHANGED wire /\ Leave(r)
      \/ wire' = wire \cup {q} /\ UNCHANGED row /\ run' = [run EXCEPT ![r] = z]
  BY DEF IssueSchedule, Goto
<1>4. Plain(s, t) /\ t.state = s.state
  BY <1>1, PlainMarks
<1>5. z \in Runner /\ z.pc = "sched" /\ z.aud = a
  BY <1>1 DEF Runner, Steps, Claimed
<1>6. q.by = r /\ q.live /\ q.aud = a
  OBVIOUS
<1> HIDE DEF t, q, z
<1>7. CASE FinishStep(r, t) /\ UNCHANGED wire /\ Leave(r)
  <2>1. t.state # "SKIPPED"
    BY <1>2, <1>4 DEF Over
  <2> QED BY <1>1, <1>4, <1>7, <2>1, FreeMoves, FinishAlone DEF At
<1>8. CASE wire' = wire \cup {q} /\ UNCHANGED row /\ run' = [run EXCEPT ![r] = z]
  <2>1. /\ \A p \in wire' : p.aud # a => p \in wire
        /\ \A p \in wire' : p.aud = a => p.by = r /\ p.live
    BY <1>2, <1>6, <1>8
  <2>2. z.pc \in Claimed /\ z.pc \notin Creating /\ z.pc \notin {"skip", "stampSched", "issue"}
    BY <1>5 DEF Claimed, Creating
  <2> QED BY <1>1, <1>5, <1>8, <2>1, <2>2, HolderGoes
<1> QED BY <1>3, <1>7, <1>8

-----------------------------------------------------------------------------
(* The provider, the backup, and every step                                *)

\* A request in flight is for a version nobody else is in a step of.
LEMMA InFlightAlone ==
    ASSUME IInv, AloneInv, NEW q \in wire, q.op = "schedule",
           NEW r \in Runners, run[r].pc \in {"stampSched", "issue"}
    PROVE  q.camp # run[r].camp
<1>1. q \in Request /\ run[r].pc \in Claimed
  BY DEF IInv, TypeOK, Claimed
<1>2. q.camp \in Campaigns /\ row[q.aud].camp = q.camp /\ prov[q.camp].aud = q.aud
  BY <1>1, NoneIsNone DEF IInv, ScheduleRequests, IdsReal, Request
<1>3. run[r].aud \in Audiences /\ q.aud # run[r].aud
  BY <1>1, HolderAlone
<1>4. run[r].camp \in Campaigns /\ prov[run[r].camp].aud = run[r].aud
  BY <1>3, NoneIsNone DEF IInv, RunnerSound, RunnerCampaign, FromRow, IdsReal
<1> QED BY <1>2, <1>3, <1>4

\* What the provider does, if it settles nothing that was skipped or is about to be scheduled.
LEMMA ProviderAlone ==
    ASSUME IInv, AloneInv, UNCHANGED <<row, run, restores>>,
           \A p \in wire' : \E q \in wire :
               q.op = p.op /\ q.aud = p.aud /\ q.by = p.by /\ q.live = p.live,
           \A r \in Runners : run[r].pc \in {"stampSched", "issue"} =>
               prov'[run[r].camp] = prov[run[r].camp],
           restores = 0 =>
               \A c \in Campaigns : Accepted(c)' =>
                   \/ Accepted(c) /\ prov'[c].aud = prov[c].aud
                   \/ \E q \in wire : q.op = "schedule" /\ q.aud = prov'[c].aud
    PROVE  AloneInv'
<1>1. RequestsHeld'
  <2> SUFFICES ASSUME NEW p \in wire'
               PROVE  /\ row[p.aud].claim = p.by /\ ~row[p.aud].stale
                      /\ \A q \in Runners : run[q].pc \in Claimed /\ run[q].aud = p.aud => p.live
    BY DEF RequestsHeld
  <2>1. PICK o \in wire : o.aud = p.aud /\ o.by = p.by /\ o.live = p.live
    OBVIOUS
  <2> QED BY <2>1 DEF AloneInv, RequestsHeld
<1>2. \A r \in Runners : ClaimHeld(r)' /\ FoundStill(r)'
  BY DEF AloneInv, ClaimHeld, FoundStill, At
<1>3. (restores = 0 => SkippedNothingSent)'
  <2> SUFFICES ASSUME restores = 0, NEW a \in Audiences, row[a].state = "SKIPPED"
               PROVE  /\ \A c \in Campaigns : prov'[c].aud = a => ~Accepted(c)'
                      /\ ~\E q \in wire' : q.op = "schedule" /\ q.aud = a
    BY DEF SkippedNothingSent
  <2>1. /\ \A c \in Campaigns : prov[c].aud = a => ~Accepted(c)
        /\ ~\E q \in wire : q.op = "schedule" /\ q.aud = a
    BY DEF AloneInv, SkippedNothingSent
  <2> QED BY <2>1
<1> QED BY <1>1, <1>2, <1>3 DEF AloneInv

LEMMA ProviderActsAlone ==
    ASSUME IInv, AloneInv, NEW q \in wire, ProviderActs(q)
    PROVE  AloneInv'
<1>1. /\ UNCHANGED <<row, run, restores>> /\ q \in Request
      /\ prov \in [Campaigns -> Campaign] /\ wire \subseteq Request
  BY DEF ProviderActs, IInv, TypeOK
<1>2. ASSUME NEW p \in wire'
      PROVE  \E o \in wire : o.op = p.op /\ o.aud = p.aud /\ o.by = p.by /\ o.live = p.live
  <2>1. \/ p \in wire \/ p = [q EXCEPT !.done = TRUE]
        \/ \E c \in Campaigns : p = [q EXCEPT !.done = TRUE, !.camp = c]
    BY DEF ProviderActs
  <2> QED BY <1>1, <2>1 DEF Request
<1>3. \A r \in Runners : run[r].pc \in {"stampSched", "issue"} =>
        run[r].camp \in Campaigns /\ prov[run[r].camp].state = "DRAFT"
  BY DEF AloneInv, FoundStill, IInv, RunnerSound, RunnerCampaign, FromRow
<1>4. CASE q.op = "create"
  <2>1. PICK c \in Campaigns :
          /\ prov[c].state = "NONE"
          /\ prov' = [prov EXCEPT ![c] = [aud |-> q.aud, state |-> "DRAFT", content |-> q.content]]
    BY <1>4 DEF ProviderActs
  <2>2. prov'[c].state = "DRAFT" /\ \A d \in Campaigns : d # c => prov'[d] = prov[d]
    BY <1>1, <2>1
  <2>3. \A r \in Runners : run[r].pc \in {"stampSched", "issue"} =>
          prov'[run[r].camp] = prov[run[r].camp]
    BY <1>3, <2>1, <2>2
  <2>4. \A d \in Campaigns : Accepted(d)' => Accepted(d) /\ prov'[d].aud = prov[d].aud
    BY <2>2 DEF Accepted
  <2> QED BY <1>1, <1>2, <2>3, <2>4, ProviderAlone
<1>5. CASE q.op = "schedule"
  <2> DEFINE c == q.camp
  <2>1. prov' = IF prov[c].state = "DRAFT"
                THEN [prov EXCEPT ![c].state = "SCHEDULED"] ELSE prov
    BY <1>5 DEF ProviderActs
  <2>2. c \in Campaigns /\ prov[c].aud = q.aud
    BY <1>1, <1>5, NoneIsNone DEF IInv, ScheduleRequests, IdsReal, Request
  <2>3. /\ \A d \in Campaigns : d # c => prov'[d] = prov[d]
        /\ prov'[c].aud = q.aud
    BY <1>1, <2>1, <2>2 DEF Campaign
  <2>4. \A r \in Runners : run[r].pc \in {"stampSched", "issue"} =>
          prov'[run[r].camp] = prov[run[r].camp]
    BY <1>3, <1>5, <2>3, InFlightAlone
  <2>5. \A d \in Campaigns : Accepted(d)' =>
          \/ Accepted(d) /\ prov'[d].aud = prov[d].aud
          \/ \E o \in wire : o.op = "schedule" /\ o.aud = prov'[d].aud
    BY <1>5, <2>3 DEF Accepted
  <2> QED BY <1>1, <1>2, <2>4, <2>5, ProviderAlone
<1> QED BY <1>4, <1>5 DEF ProviderActs

LEMMA DeliveredAlone ==
    ASSUME IInv, AloneInv, NEW c \in Campaigns, Delivered(c)
    PROVE  AloneInv'
<1>1. /\ UNCHANGED <<row, run, wire, restores>> /\ prov \in [Campaigns -> Campaign]
      /\ prov[c].state = "SCHEDULED"
  BY DEF Delivered, IInv, TypeOK
<1>2. PICK st \in {"SENT", "FAILED"} : prov' = [prov EXCEPT ![c].state = st]
  BY DEF Delivered
<1>3. \A r \in Runners : run[r].pc \in {"stampSched", "issue"} =>
        run[r].camp \in Campaigns /\ prov[run[r].camp].state = "DRAFT"
  BY DEF AloneInv, FoundStill, IInv, RunnerSound, RunnerCampaign, FromRow
<1>4. /\ \A d \in Campaigns : d # c => prov'[d] = prov[d]
      /\ prov'[c].aud = prov[c].aud /\ Accepted(c)
  BY <1>1, <1>2 DEF Campaign, Accepted
<1>5. \A r \in Runners : run[r].pc \in {"stampSched", "issue"} =>
        prov'[run[r].camp] = prov[run[r].camp]
  BY <1>1, <1>3, <1>4
<1>6. \A d \in Campaigns : Accepted(d)' => Accepted(d) /\ prov'[d].aud = prov[d].aud
  BY <1>4 DEF Accepted
<1> QED BY <1>1, <1>5, <1>6, ProviderAlone

\* Nobody at work, nothing in flight, every row fresh.
LEMMA RestoreAlone ==
    ASSUME IInv, Restore
    PROVE  AloneInv'
<1>1. /\ wire' = {} /\ restores' # 0 /\ \A r \in Runners : run'[r].pc = "idle"
  BY DEF Restore, At, IInv, TypeOK
<1> QED BY <1>1 DEF AloneInv, RequestsHeld, ClaimHeld, FoundStill, Creating, Claimed, At

LEMMA InitAlone == Init => AloneInv
<1> SUFFICES ASSUME Init PROVE AloneInv
  OBVIOUS
<1>1. wire = {} /\ \A r \in Runners : run[r].pc = "idle"
  BY DEF Init, Idle
<1>2. \A c \in Campaigns : ~Accepted(c)
  BY DEF Init, Accepted
<1> QED BY <1>1, <1>2 DEF AloneInv, RequestsHeld, ClaimHeld, FoundStill, Creating, Claimed, At,
                          SkippedNothingSent

LEMMA StepAlone ==
    ASSUME IInv, RecordInv, AloneInv, ~LateCalls, NEW r \in Runners, Step(r)
    PROVE  AloneInv'
BY LookAlone, DoorsAlone, UnfencedAlone, ClaimCreateAlone, LookupAlone, AdoptAlone,
   AdoptSaveAlone, AdoptMarkAlone, StampAlone, CreateReplyAlone, PersistAlone,
   ClaimScheduleAlone, AskStatusAlone, StampScheduleAlone, IssueScheduleAlone,
   ScheduleReplyAlone, ClaimToAskAlone, VerifyAlone, SkipAlone, ResolveAlone
   DEF Step

LEMMA NextAlone ==
    ASSUME ~SlowSteps, ~LateCalls
    PROVE  IInv /\ RecordInv /\ AloneInv /\ [Next]_vars => AloneInv'
<1> SUFFICES ASSUME IInv, RecordInv, AloneInv, [Next]_vars PROVE AloneInv'
  OBVIOUS
<1>1. CASE UNCHANGED vars
  <2>1. \A b \in Audiences : Spared(row[b], row[b])
    BY DEF Spared
  <2> QED BY <1>1, <2>1, SideStep DEF vars
<1>2. CASE Next
  BY <1>2, StepAlone, CrashAlone, DoorsAlone, EditorsAlone, ClaimAgesAlone, RestoreAlone,
     ProviderActsAlone, DeliveredAlone
     DEF Next
<1> QED BY <1>1, <1>2

\* A claim is exclusive, what its holder found stays so, and a skipped version is not
\* in the mail, in every state.
THEOREM AloneHolds ==
    ASSUME ~SlowSteps, ~LateCalls
    PROVE  Spec => []AloneInv
<1>1. Init => AloneInv
  BY InitAlone
<1>2. IInv /\ RecordInv /\ AloneInv /\ [Next]_vars => AloneInv'
  BY NextAlone
<1> QED BY <1>1, <1>2, Invariance, RecordHolds, PTL DEF Spec

\* The marker can be trusted at the sweep: while the database is not put back, a version
\* recorded as skipped has no accepted campaign and no schedule() under way, so its
\* stories may roll forward to the next digest.
THEOREM SkippedStaysHome ==
    ASSUME ~SlowSteps, ~LateCalls
    PROVE  Spec => [](restores = 0 => SkippedNothingSent)
<1>1. AloneInv => (restores = 0 => SkippedNothingSent)
  BY DEF AloneInv
<1> QED BY <1>1, AloneHolds, PTL

\* schedule() is called only on a campaign that is still a draft, one call at a time:
\* the status asked before a second call stays true until the call is made.
THEOREM OnlyDrafts ==
    ASSUME ~SlowSteps, ~LateCalls
    PROVE  Spec => ScheduleOnlyDrafts
<1>1. IInv /\ AloneInv /\ [Next]_vars
      => [\A q \in NewSchedules :
            /\ prov[q.camp].state = "DRAFT"
            /\ ~\E p \in wire : p.op = "schedule" /\ p.camp = q.camp]_vars
  <2> SUFFICES ASSUME IInv, AloneInv, [Next]_vars, NEW q \in NewSchedules
               PROVE  /\ prov[q.camp].state = "DRAFT"
                      /\ ~\E p \in wire : p.op = "schedule" /\ p.camp = q.camp
    OBVIOUS
  <2>1. PICK r \in Runners : At(r, "issue") /\ q.camp = run[r].camp
    BY CalledFromIssue
  <2>2. prov[q.camp].state = "DRAFT"
    BY <2>1 DEF AloneInv, FoundStill, At
  <2>3. \A p \in wire : p.op = "schedule" => p.camp # q.camp
    BY <2>1, InFlightAlone DEF At
  <2> QED BY <2>2, <2>3
<1>2. Spec => [][Next]_vars
  BY DEF Spec
<1> QED BY <1>1, <1>2, Invariance, AloneHolds, PTL DEF ScheduleOnlyDrafts

-----------------------------------------------------------------------------
(* DigestSend implements DigestDay                                         *)

\* A step settles at most one version, and only one that was open.
SettlesOne ==
    \/ \A b \in Audiences : row'[b].state = row[b].state
    \/ \E a \in Audiences : ~Over(row[a]) /\ \A b \in Audiences : b # a => row'[b].state = row[b].state

\* A runner writes the row of the version it works on, and no other.
OwnRow(r) == \A b \in Audiences : b # run[r].aud => row'[b] = row[b]

LEMMA HolderWrites ==
    ASSUME IInv, NEW r \in Runners,
           \/ Lookup(r) \/ Adopt(r) \/ AdoptSave(r) \/ AdoptMark(r) \/ Stamp(r)
           \/ CreateReply(r) \/ Persist(r) \/ AskStatus(r) \/ StampSchedule(r)
           \/ IssueSchedule(r) \/ ScheduleReply(r) \/ Verify(r) \/ Skip(r) \/ Resolve(r)
    PROVE  OwnRow(r) /\ run[r].pc \in Claimed
<1> DEFINE a == run[r].aud
<1>1. run[r].pc \in Claimed
  BY DEF Lookup, Adopt, AdoptSave, AdoptMark, Stamp, CreateReply, Persist, AskStatus,
         StampSchedule, IssueSchedule, ScheduleReply, Verify, Skip, Resolve, At, Claimed
<1>2. row \in [Audiences -> Row]
  BY DEF IInv, TypeOK
<1>3. row' = row \/ \E t : row' = [row EXCEPT ![a] = t]
  <2>1. (\E t : FinishStep(r, t)) => row' = row \/ \E t : row' = [row EXCEPT ![a] = t]
    BY DEF FinishStep
  <2>2. CASE Lookup(r) \/ Adopt(r) \/ AdoptMark(r) \/ CreateReply(r) \/ AskStatus(r)
             \/ IssueSchedule(r) \/ ScheduleReply(r) \/ Verify(r) \/ Skip(r) \/ Resolve(r)
    <3>1. row' = row \/ \E t : FinishStep(r, t)
      BY <2>2 DEF Lookup, Adopt, AdoptMark, CreateReply, AskStatus, IssueSchedule,
                  ScheduleReply, Verify, Skip, Resolve
    <3> QED BY <2>1, <3>1
  <2>3. CASE AdoptSave(r) \/ Persist(r)
    <3>1. \/ row' = row
          \/ \E extra, next, lost :
               /\ SaveId(r, row[a], extra, next, lost)
               /\ lost = row \/ lost = [row EXCEPT ![a] = Released(row[a])]
      BY <2>3 DEF AdoptSave, Persist
    <3> QED BY <3>1 DEF SaveId
  <2>4. CASE Stamp(r)
    <3>1. row' = row \/ row' = [row EXCEPT ![a] = [row[a] EXCEPT !.createMark = TRUE, !.createSent = TRUE]]
      BY <1>2, <2>4 DEF Stamp
    <3> QED BY <3>1
  <2>5. CASE StampSchedule(r)
    <3>1. row' = row \/ row' = [row EXCEPT ![a] = Marked(row[a])]
      BY <2>5 DEF StampSchedule
    <3> QED BY <3>1
  <2> QED BY <2>2, <2>3, <2>4, <2>5
<1>4. OwnRow(r)
  BY <1>2, <1>3 DEF OwnRow
<1> QED BY <1>1, <1>4

LEMMA StepSettles ==
    ASSUME IInv, AloneInv, NEW r \in Runners, Step(r)
    PROVE  SettlesOne
<1> DEFINE a == run[r].aud
           s == row[a]
<1>1. CASE \/ Lookup(r) \/ Adopt(r) \/ AdoptSave(r) \/ AdoptMark(r) \/ Stamp(r)
           \/ CreateReply(r) \/ Persist(r) \/ AskStatus(r) \/ StampSchedule(r)
           \/ IssueSchedule(r) \/ ScheduleReply(r) \/ Verify(r) \/ Skip(r) \/ Resolve(r)
  BY <1>1, HolderWrites, HolderAlone DEF SettlesOne, OwnRow
<1>2. CASE LookAgain(r) \/ \E b \in Audiences : Look(r, b)
  BY <1>2 DEF LookAgain, Look, SettlesOne
<1>3. CASE PressAdvances(r)
  <2>1. \A b \in Audiences : row'[b] = row[b] \/ row'[b] = [row[b] EXCEPT !.due = TRUE]
    BY <1>3 DEF PressAdvances, Begin, IInv, TypeOK
  <2>2. \A b \in Audiences : row[b] \in Row
    BY DEF IInv, TypeOK
  <2> QED BY <2>1, <2>2 DEF SettlesOne, Row
<1>4. CASE \/ Render(r) \/ ConfigInvalid(r) \/ GuardRefuses(r) \/ ClaimCreate(r)
           \/ ClaimSchedule(r) \/ ClaimVerify(r) \/ ClaimSkip(r) \/ ClaimResolve(r)
  <2>1. a \in Audiences /\ s \in Row /\ row \in [Audiences -> Row]
    BY <1>4, AtVersion DEF Render, ConfigInvalid, GuardRefuses, ClaimCreate, ClaimSchedule,
                           ClaimVerify, ClaimSkip, ClaimResolve, At
  <2>2. CASE GuardRefuses(r)
    BY <2>1, <2>2 DEF GuardRefuses, SettlesOne, Row
  <2>3. CASE Render(r)
    <3>1. s.state = "FAILED" \/ row' = row
      BY <2>3 DEF Render
    <3>2. OwnRow(r)
      BY <2>1, <2>3 DEF Render, OwnRow
    <3> QED BY <2>1, <3>1, <3>2 DEF SettlesOne, OwnRow, Over
  <2>4. CASE ConfigInvalid(r)
    <3>1. s.state \in {"PENDING", "FAILED"} \/ row' = row
      BY <2>4 DEF ConfigInvalid
    <3>2. OwnRow(r)
      BY <2>1, <2>4 DEF ConfigInvalid, OwnRow
    <3> QED BY <2>1, <3>1, <3>2 DEF SettlesOne, OwnRow, Over
  <2>5. CASE ClaimCreate(r) \/ ClaimSchedule(r) \/ ClaimVerify(r) \/ ClaimSkip(r) \/ ClaimResolve(r)
    <3>1. row' = row \/ s.state \in {"PENDING", "CREATED", "FAILED", "SCHEDULED"}
      BY <2>5 DEF ClaimCreate, ClaimSchedule, ClaimVerify, ClaimSkip, ClaimResolve, Claim
    <3>2. OwnRow(r)
      BY <2>1, <2>5 DEF ClaimCreate, ClaimSchedule, ClaimVerify, ClaimSkip, ClaimResolve, Claim, OwnRow
    <3> QED BY <2>1, <3>1, <3>2 DEF SettlesOne, OwnRow, Over
  <2> QED BY <1>4, <2>2, <2>3, <2>4, <2>5
<1> QED BY <1>1, <1>2, <1>3, <1>4 DEF Step

LEMMA NextSettles ==
    ASSUME IInv, AloneInv, [Next]_vars, restores' = restores
    PROVE  SettlesOne
<1>1. CASE UNCHANGED row
  BY <1>1 DEF SettlesOne
<1>2. ASSUME NEW r \in Runners, NEW t \in Triggers, Start(r, t) PROVE SettlesOne
  <2>1. \A b \in Audiences : row'[b] = row[b] \/ row'[b] = [row[b] EXCEPT !.due = TRUE]
    BY <1>2 DEF Start, Begin, IInv, TypeOK
  <2>2. \A b \in Audiences : row[b] \in Row
    BY DEF IInv, TypeOK
  <2> QED BY <2>1, <2>2 DEF SettlesOne, Row
<1>3. ASSUME NEW r \in Runners, NEW a \in Audiences, PressSendFree(r, a) PROVE SettlesOne
  <2>1. row \in [Audiences -> Row]
    BY DEF IInv, TypeOK
  <2>2. row' = [row EXCEPT ![a].approved = TRUE, ![a].due = TRUE]
    BY <1>3 DEF PressSendFree
  <2> QED BY <2>1, <2>2 DEF SettlesOne, Row
<1>4. ASSUME SendTimeComes \/ \E listed \in SUBSET Audiences : Approve(listed) PROVE SettlesOne
  <2>1. \A b \in Audiences : \/ row'[b] = row[b] \/ row'[b] = [row[b] EXCEPT !.due = TRUE]
                             \/ row'[b] = [row[b] EXCEPT !.approved = TRUE]
    BY <1>4 DEF SendTimeComes, Approve
  <2>2. \A b \in Audiences : row[b] \in Row
    BY DEF IInv, TypeOK
  <2> QED BY <2>1, <2>2 DEF SettlesOne, Row
<1>5. ASSUME NEW a \in Audiences, WaitEnds(a) \/ ClaimAges(a) PROVE SettlesOne
  <2>1. row \in [Audiences -> Row]
    BY DEF IInv, TypeOK
  <2>2. \/ row' = [row EXCEPT ![a].waiting = FALSE]
        \/ row' = [row EXCEPT ![a].stale = TRUE]
    BY <1>5 DEF WaitEnds, ClaimAges
  <2> QED BY <2>1, <2>2 DEF SettlesOne, Row
<1>6. ~Restore
  BY DEF Restore, IInv, TypeOK
<1>7. CASE \/ \E r \in Runners : Crash(r)
           \/ Hold \/ ClockMoves
           \/ \E q \in wire : ProviderActs(q) \/ RequestLost(q)
           \/ \E c \in Campaigns : Delivered(c)
  BY <1>1, <1>7 DEF Crash, Hold, ClockMoves, ProviderActs, RequestLost, Delivered
<1> QED BY <1>1, <1>2, <1>3, <1>4, <1>5, <1>6, <1>7, StepSettles DEF Next, vars

\* The verdict is a function of the row's state, and settled exactly when it is over.
LEMMA Verdicts ==
    ASSUME NEW s, NEW t
    PROVE  /\ t.state = s.state => VerdictOf(t) = VerdictOf(s)
           /\ VerdictOf(s) = "open" <=> ~Over(s)
           /\ VerdictOf(s) = "sent" <=> s.state \in {"SENT", "PARTIALLY_SENT"}
           /\ VerdictOf(s) = "skipped" <=> s.state = "SKIPPED"
           /\ VerdictOf(s) \in {"open", "sent", "skipped"}
BY DEF VerdictOf, Over

\* Where a verdict is written, it tells the truth about the mail.
LEMMA DecidesTruly ==
    ASSUME IInv', RecordInv', AloneInv', restores' = 0, NEW a \in Audiences
    PROVE  /\ VerdictOf(row[a])' = "sent" => a \in Mailed'
           /\ VerdictOf(row[a])' = "skipped" => a \notin Mailed'
<1>1. ASSUME VerdictOf(row[a])' = "sent" PROVE a \in Mailed'
  <2>1. row'[a].state \in {"SENT", "PARTIALLY_SENT"}
    BY <1>1, Verdicts
  <2>2. row'[a].camp \in Campaigns /\ Accepted(row[a].camp)'
    BY <2>1 DEF RecordInv, HandedOverAccepted, HandedOver
  <2>3. prov'[row'[a].camp].aud = a
    BY <2>2, NoneIsNone DEF IInv, IdsReal
  <2> QED BY <2>2, <2>3 DEF Mailed, Accepted
<1>2. ASSUME VerdictOf(row[a])' = "skipped" PROVE a \notin Mailed'
  <2>1. row'[a].state = "SKIPPED"
    BY <1>2, Verdicts
  <2>2. \A c \in Campaigns : prov'[c].aud = a => ~Accepted(c)'
    BY <2>1 DEF AloneInv, SkippedNothingSent
  <2> QED BY <2>2 DEF Mailed, Accepted
<1> QED BY <1>1, <1>2

\* The provider's part of a step: nothing is mailed, or an open version for the first time.
MailsOne ==
    \/ Mailed' = Mailed
    \/ \E a \in Audiences : a \notin Mailed /\ ~Over(row[a]) /\ Mailed' = Mailed \cup {a}

LEMMA ProviderMails ==
    ASSUME IInv, RecordInv, AloneInv, restores = 0,
           (\E q \in wire : ProviderActs(q)) \/ \E c \in Campaigns : Delivered(c)
    PROVE  MailsOne
<1>1. prov \in [Campaigns -> Campaign] /\ wire \subseteq Request
  BY DEF IInv, TypeOK
<1>2. ASSUME NEW q \in wire, ProviderActs(q), q.op = "create" PROVE Mailed' = Mailed
  <2>1. PICK c \in Campaigns :
          /\ prov[c].state = "NONE"
          /\ prov' = [prov EXCEPT ![c] = [aud |-> q.aud, state |-> "DRAFT", content |-> q.content]]
    BY <1>2 DEF ProviderActs
  <2>2. /\ \A d \in Campaigns : d # c => prov'[d] = prov[d]
        /\ ~Accepted(c) /\ ~Accepted(c)'
    BY <1>1, <2>1 DEF Accepted
  <2> QED BY <2>2 DEF Mailed, Accepted
<1>3. ASSUME NEW q \in wire, ProviderActs(q), q.op = "schedule" PROVE MailsOne
  <2> DEFINE c == q.camp
             a == q.aud
  <2>1. prov' = IF prov[c].state = "DRAFT"
                THEN [prov EXCEPT ![c].state = "SCHEDULED"] ELSE prov
    BY <1>3 DEF ProviderActs
  <2>2. a \in Audiences /\ c \in Campaigns /\ prov[c].aud = a /\ row[a].camp = c
    BY <1>1, <1>3, NoneIsNone DEF IInv, ScheduleRequests, IdsReal, Request
  <2>3. CASE prov[c].state # "DRAFT"
    BY <2>1, <2>3 DEF Mailed, Accepted, MailsOne
  <2>4. CASE prov[c].state = "DRAFT"
    <3>1. /\ \A d \in Campaigns : d # c => prov'[d] = prov[d]
          /\ ~Accepted(c) /\ Accepted(c)' /\ prov'[c].aud = a
      BY <1>1, <2>1, <2>2, <2>4 DEF Campaign, Accepted
    <3>2. a \notin Mailed
      BY <2>2, <3>1 DEF Mailed, IInv, AcceptedIsSaved
    <3>3. ~Over(row[a])
      <4>1. row[a].state # "SKIPPED"
        BY <1>3, <2>2 DEF AloneInv, SkippedNothingSent
      <4>2. row[a].state \notin {"SENT", "PARTIALLY_SENT"}
        BY <2>2, <3>1 DEF RecordInv, HandedOverAccepted, HandedOver
      <4> QED BY <4>1, <4>2 DEF Over
    <3>4. Mailed' = Mailed \cup {a}
      BY <2>2, <3>1 DEF Mailed, Accepted
    <3> QED BY <2>2, <3>2, <3>3, <3>4 DEF MailsOne
  <2> QED BY <2>3, <2>4
<1>4. ASSUME NEW c \in Campaigns, Delivered(c) PROVE Mailed' = Mailed
  <2>1. PICK st \in {"SENT", "FAILED"} : prov' = [prov EXCEPT ![c].state = st]
    BY <1>4 DEF Delivered
  <2>2. /\ \A d \in Campaigns : d # c => prov'[d] = prov[d]
        /\ prov'[c].aud = prov[c].aud /\ Accepted(c) /\ Accepted(c)'
    BY <1>1, <1>4, <2>1 DEF Delivered, Campaign, Accepted
  <2> QED BY <2>2 DEF Mailed, Accepted
<1> QED BY <1>2, <1>3, <1>4 DEF ProviderActs, MailsOne

\* Every step of the state machine is a step of the day, or leaves it as it was.
LEMMA DaySimulated ==
    ASSUME IInv, RecordInv, AloneInv, IInv', RecordInv', AloneInv',
           restores = 0, restores' = 0, [Next]_vars
    PROVE  DayStep
<1>1. CASE (\E q \in wire : ProviderActs(q)) \/ \E c \in Campaigns : Delivered(c)
  <2>1. MailsOne
    BY <1>1, ProviderMails
  <2>2. Settled' = Settled
    BY <1>1 DEF ProviderActs, Delivered, Settled
  <2>3. \A a \in Audiences : ~Over(row[a]) => Settled[a] = "open"
    BY Verdicts DEF Settled
  <2> QED BY <2>1, <2>2, <2>3 DEF MailsOne, DayStep, Day!Next, Day!Mail
<1>2. CASE UNCHANGED prov
  <2>1. Mailed' = Mailed
    BY <1>2 DEF Mailed, Accepted
  <2>2. SettlesOne
    BY NextSettles
  <2>3. CASE \A b \in Audiences : row'[b].state = row[b].state
    <3>1. \A b \in Audiences : VerdictOf(row[b])' = VerdictOf(row[b])
      BY <2>3, Verdicts
    <3>2. Settled' = Settled
      BY <3>1 DEF Settled
    <3> QED BY <2>1, <3>2 DEF DayStep
  <2>4. ASSUME NEW a \in Audiences, ~Over(row[a]),
               \A b \in Audiences : b # a => row'[b].state = row[b].state
        PROVE  DayStep
    <3> DEFINE v == VerdictOf(row'[a])
    <3>1. /\ Settled[a] = "open" /\ v \in {"open", "sent", "skipped"}
          /\ \A b \in Audiences : b # a => VerdictOf(row'[b]) = VerdictOf(row[b])
      BY <2>4, Verdicts DEF Settled
    <3>2. Settled' = [Settled EXCEPT ![a] = v]
      BY <3>1 DEF Settled
    <3>3. CASE v = "open"
      <4>1. Settled' = Settled
        BY <3>1, <3>2, <3>3 DEF Settled
      <4> QED BY <2>1, <4>1 DEF DayStep
    <3>4. CASE v \in {"sent", "skipped"}
      <4>1. (v = "sent" => a \in Mailed) /\ (v = "skipped" => a \notin Mailed)
        BY <2>1, DecidesTruly
      <4>2. v \in Day!Verdicts \ {"open"}
        BY <3>4 DEF Day!Verdicts
      <4>3. Day!Decide(a, v)
        BY <2>1, <3>1, <3>2, <4>1 DEF Day!Decide
      <4> HIDE DEF v
      <4> QED BY <4>2, <4>3 DEF DayStep, Day!Next
    <3> QED BY <3>1, <3>3, <3>4
  <2> QED BY <2>2, <2>3, <2>4 DEF SettlesOne
<1>3. UNCHANGED prov \/ (\E q \in wire : ProviderActs(q)) \/ \E c \in Campaigns : Delivered(c)
  <2>1. ASSUME NEW r \in Runners, Step(r) PROVE UNCHANGED prov
    BY <2>1 DEF Step, PressAdvances, LookAgain, Render, ConfigInvalid, Look, ClaimCreate, Lookup,
       Adopt, AdoptSave, AdoptMark, Stamp, CreateReply, Persist, ClaimSchedule, GuardRefuses,
       AskStatus, StampSchedule, IssueSchedule, ScheduleReply, ClaimVerify, Verify, ClaimSkip,
       Skip, ClaimResolve, Resolve
  <2> QED BY <2>1 DEF Next, vars, Crash, Start, PressSendFree, Approve, Hold, ClockMoves,
       SendTimeComes, Restore, WaitEnds, ClaimAges, RequestLost
<1> QED BY <1>1, <1>2, <1>3

LEMMA DayBegins == Init => Day!Init
<1> SUFFICES ASSUME Init PROVE Day!Init
  OBVIOUS
<1>1. Mailed = {}
  BY DEF Init, Mailed, Accepted
<1>2. \A a \in Audiences : VerdictOf(row[a]) = "open"
  BY FreshRests, Verdicts DEF Init
<1>3. Settled = [a \in Audiences |-> "open"]
  BY <1>2 DEF Settled
<1> QED BY <1>1, <1>3 DEF Day!Init

\* The run so far has seen no restore.
NoRestore == restores = 0

\* With no restore allowed there is none.
LEMMA NotRestored ==
    ASSUME MaxRestores = 0
    PROVE  NoRestore /\ [Next]_vars => NoRestore'
<1> SUFFICES ASSUME restores = 0, [Next]_vars PROVE restores' = 0
  BY DEF NoRestore
<1>1. ~Restore
  BY DEF Restore
<1>2. ASSUME NEW r \in Runners, Step(r) PROVE UNCHANGED restores
  BY <1>2 DEF Step, PressAdvances, LookAgain, Render, ConfigInvalid, Look, ClaimCreate, Lookup,
     Adopt, AdoptSave, AdoptMark, Stamp, CreateReply, Persist, ClaimSchedule, GuardRefuses,
     AskStatus, StampSchedule, IssueSchedule, ScheduleReply, ClaimVerify, Verify, ClaimSkip,
     Skip, ClaimResolve, Resolve
<1> QED BY <1>1, <1>2 DEF Next, vars, Crash, Start, PressSendFree, Approve, Hold, ClockMoves,
     SendTimeComes, WaitEnds, ClaimAges, RequestLost, ProviderActs, Delivered

\* Between two restores the state machine keeps the day's promise: each version mailed at
\* most once, one verdict each, never "sent" without the mail or "skipped" over it.
THEOREM DayImplemented ==
    ASSUME ~SlowSteps, ~LateCalls, MaxRestores = 0
    PROVE  Spec => DayKept
<1>1. Init => Day!Init
  BY DayBegins
<1>2. Init => NoRestore
  BY DEF Init, NoRestore
<1>3. NoRestore /\ [Next]_vars => NoRestore'
  BY NotRestored
<1>4. Spec => []NoRestore
  BY <1>2, <1>3, PTL DEF Spec
<1>5. /\ IInv /\ RecordInv /\ AloneInv /\ IInv' /\ RecordInv' /\ AloneInv'
      /\ NoRestore /\ NoRestore' /\ [Next]_vars
      => DayStep
  BY DaySimulated DEF NoRestore
<1>6. DayStep => [Day!Next]_<<Mailed, Settled>>
  BY DEF DayStep
<1> QED BY <1>1, <1>4, <1>5, <1>6, Invariance, RecordHolds, AloneHolds, PTL
       DEF Spec, DayKept, Day!Spec
=============================================================================
