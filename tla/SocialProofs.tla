----------------------------- MODULE SocialProofs -----------------------------
(***************************************************************************)
(* Theorems about SocialPost, for any articles, pushes, crons, requests,   *)
(* delays and caps. Here the invariant behind its properties is stated and  *)
(* proved; MCServices explores the properties on small pages.              *)
(***************************************************************************)
EXTENDS SocialPost, FiniteSetTheorems, WellFoundedInduction, TLAPS

-----------------------------------------------------------------------------
(* The inductive invariant                                                 *)

\* Who is in which step: a tick reads and creates while it has budget, a request of
\* the screen presses Retry, and only Facebook blocks.
CallRight(c) ==
    /\ call[c].pc \in {"press", "posting"} => call[c].key \in Keys /\ row[call[c].key].st # "none"
    /\ call[c].pc \in {"due", "create"} => call[c].left > 0
    /\ At(c, "stopping") => net = "facebook"
    /\ At(c, "posting") => (call[c].from = "press" <=> c \notin Tickers)
    /\ c \notin Tickers => call[c].pc \notin {"due", "create"}
    /\ At(c, "press") => c \notin Tickers

\* A row that is still to be posted was not closed as unknown.
OpenKnown == \A k \in Keys : row[k].st \in {"none", "flight", "waiting"} => ~row[k].unknown

\* While the policy stop stands, whoever is under way was so when it was written.
StoppedEarly ==
    policy => net = "facebook" /\ \A c \in Callers : call[c].pc # "idle" => call[c].early

\* A row is of a push that was sent: of its own, or of one of its article from before
\* the cut, which has no row of its own.
RowApart(k) ==
    IF row[k].st = "none" THEN row[k].push = None
    ELSE /\ row[k].push \in 1 .. sent
         /\ k[1] = "push" => row[k].push = k[2]
         /\ k[1] = "article" =>
               /\ ArticleOf[row[k].push] = k[2] /\ row[k].push < cut
               /\ row[<<"push", row[k].push>>].st = "none"

\* A candidate that was read may still be created: a push from the cut on, or an article
\* with a push before the cut, of which no push from before the cut has a row.
Eligible(k) ==
    /\ k[1] = "push" => k[2] \in cut .. sent
    /\ k[1] = "article" =>
          /\ \E p \in PushesOf(k[2]) : p < cut
          /\ \A p \in PushesOf(k[2]) : p < cut => row[<<"push", p>>].st = "none"
Creates(m) == m.pc = "create" \/ (m.pc = "posting" /\ m.from = "create")
RowsApart ==
    /\ \A k \in Keys : RowApart(k)
    /\ \A c \in Callers : Creates(call[c]) => \A k \in call[c].todo : Eligible(k)

\* While attempts end in time a row being posted is in flight, in one caller's hands,
\* and counts that caller's attempt.
InHand(c) ==
    At(c, "posting") =>
        /\ row[call[c].key].st = "flight" /\ ~row[call[c].key].old
        /\ row[call[c].key].attempts = call[c].attempts
        /\ \A d \in Callers : At(d, "posting") /\ call[d].key = call[c].key => d = c
Numbered(k) == row[k].attempts <= (IF row[k].st = "waiting" THEN Retries ELSE MaxAttempts)
InTime ==
    slow = 0 => (\A c \in Callers : InHand(c)) /\ \A k \in Keys : Numbered(k)

\* What ticks posted today, and the ticks under way since a moment of today.
ByTick == {k \in PostedToday : ~row[k].byHand}
UnderWay == {c \in Tickers : call[c].pc # "idle" /\ call[c].today}
CapHeld ==
    net = "facebook" =>
        /\ IsFiniteSet(PostedToday)
        /\ Cardinality(ByTick) + Cardinality(UnderWay) < DailyCap + Cardinality(Tickers)

IInv ==
    /\ TypeOK
    /\ \A c \in Callers : CallRight(c)
    /\ OpenKnown /\ StoppedEarly /\ RowsApart /\ InTime /\ CapHeld

-----------------------------------------------------------------------------
(* Sets, and the pushes of an article                                      *)

\* Of two numbers Min is the smaller.
LEMMA SmallerOfTwo ==
    ASSUME NEW m \in Nat, NEW n \in Nat
    PROVE  Min({m, n}) = IF m <= n THEN m ELSE n
<1> DEFINE x == IF m <= n THEN m ELSE n
<1>1. x \in {m, n} /\ \A y \in {m, n} : x <= y
  OBVIOUS
<1>2. \A z \in {m, n} : (\A y \in {m, n} : z <= y) => z = x
  OBVIOUS
<1> QED BY <1>1, <1>2 DEF Min

\* A set of numbers has a least one.
LEMMA Least ==
    ASSUME NEW S \in SUBSET Nat, S # {}
    PROVE  \E x \in S : \A y \in S : x <= y
<1> DEFINE R == OpToRel(<, Nat)
<1>1. IsWellFoundedOn(R, Nat)
  BY NatLessThanWellFounded
<1>2. \A x, y \in S : y < x => <<y, x>> \in R
  BY DEF OpToRel
<1> HIDE DEF R
<1>3. PICK x \in S : \A y \in S : ~ (<<y, x>> \in R)
  BY <1>1, WFMin
<1>4. \A y \in S : ~(y < x)
  BY <1>2, <1>3
<1>5. x \in Nat /\ \A y \in S : y \in Nat
  OBVIOUS
<1>6. \A y \in S : x <= y
  BY <1>4, <1>5
<1> QED BY <1>6

\* An article that was pushed is posted for its oldest push.
LEMMA OldestPush ==
    ASSUME NEW a, sent \in Nat, PushesOf(a) # {}
    PROVE  /\ PushOf(<<"article", a>>) \in PushesOf(a)
           /\ \A q \in PushesOf(a) : PushOf(<<"article", a>>) <= q
<1>1. PushesOf(a) \in SUBSET Nat
  BY DEF PushesOf
<1>2. \E p \in PushesOf(a) : \A q \in PushesOf(a) : p <= q
  BY <1>1, Least
<1>3. PushOf(<<"article", a>>) = CHOOSE p \in PushesOf(a) : \A q \in PushesOf(a) : p <= q
  BY DEF PushOf
<1> QED BY <1>2, <1>3

\* The ticks of a worker are callers, and none of them is a request of the screen.
LEMMA TickersAreCallers ==
    ASSUME SocialOK, net \in Networks
    PROVE  /\ Tickers \subseteq Callers /\ IsFiniteSet(Tickers)
           /\ Desks \subseteq Callers /\ \A d \in Desks : d \notin Tickers
<1>1. \A c \in Crons[net] : c \in UNION {Crons[n] : n \in Networks}
  OBVIOUS
<1>2. IsFiniteSet(Crons[net]) /\ Crons[net] \cap Desks = {}
  BY DEF SocialOK
<1> QED BY <1>1, <1>2 DEF Tickers, Callers

-----------------------------------------------------------------------------
(* What keeps each part of the invariant                                   *)

\* No row is made, and no more is read for creation than may be created; or the cut moves
\* past every push that was sent, and nobody is creating.
LEMMA ApartKeeps ==
    ASSUME SocialOK, TypeOK, RowsApart, sent' \in 0 .. Last, cut' \in Nat, sent <= sent',
           \A k \in Keys : /\ row'[k].push = row[k].push
                           /\ row'[k].st = "none" <=> row[k].st = "none",
           \/ /\ cut' = cut
              /\ \A c \in Callers : Creates(call'[c]) => \A k \in call'[c].todo : k \in Keys /\ Eligible(k)
           \/ cut' > sent /\ \A c \in Callers : ~Creates(call'[c])
    PROVE  RowsApart'
<1> USE DEF Keys
<1>1. ASSUME NEW k \in Keys PROVE RowApart(k)'
  <2>1. RowApart(k) /\ sent \in Nat /\ cut \in Nat
    BY <1>1 DEF RowsApart, TypeOK, SocialOK
  <2>2. CASE row[k].st = "none"
    BY <2>1, <2>2 DEF RowApart
  <2>3. CASE row[k].st # "none"
    <3>1. row[k].push \in 1 .. sent /\ row[k].push \in Pushes
      BY <2>1, <2>3 DEF RowApart, TypeOK, SocialOK
    <3>2. <<"push", row[k].push>> \in Keys
      BY <3>1
    <3> QED BY <2>1, <2>3, <3>1, <3>2 DEF RowApart
  <2> QED BY <2>2, <2>3
<1>2. ASSUME NEW c \in Callers, Creates(call'[c]), NEW k \in call'[c].todo PROVE Eligible(k)'
  <2>1. cut' = cut /\ k \in Keys /\ Eligible(k)
    BY <1>2
  <2>2. sent \in Nat /\ cut \in Nat /\ sent <= Last
    BY DEF TypeOK, SocialOK
  <2>3. CASE k[1] = "push"
    BY <2>1, <2>2, <2>3 DEF Eligible
  <2>4. CASE k[1] = "article"
    <3>1. PushesOf(k[2]) \subseteq PushesOf(k[2])'
      BY <2>2 DEF PushesOf
    <3>2. ASSUME NEW p \in PushesOf(k[2])', p < cut PROVE row'[<<"push", p>>].st = "none"
      <4>1. CASE p <= sent
        BY <2>1, <2>2, <2>4, <3>2, <4>1 DEF Eligible, PushesOf, SocialOK
      <4>2. CASE ~(p <= sent)
        <5>1. p \in Pushes /\ <<"push", p>> \in Keys
          BY <3>2 DEF PushesOf, SocialOK
        <5>2. RowApart(<<"push", p>>)
          BY <5>1 DEF RowsApart
        <5>3. row[<<"push", p>>].st = "none"
          BY <2>2, <4>2, <5>1, <5>2 DEF RowApart
        <5> QED BY <5>1, <5>3
      <4> QED BY <4>1, <4>2
    <3> QED BY <2>1, <2>4, <3>1, <3>2 DEF Eligible
  <2> QED BY <2>1, <2>3, <2>4
<1> QED BY <1>1, <1>2 DEF RowsApart

\* No row is taken and no answer comes in; a row that is being posted is left alone.
LEMMA TimeKeeps ==
    ASSUME SocialOK, TypeOK, \A c \in Callers : CallRight(c), InTime, slow' = 0 => slow = 0,
           \A c \in Callers : call'[c].pc = "posting" =>
               /\ call[c].pc = "posting"
               /\ call'[c].key = call[c].key /\ call'[c].attempts = call[c].attempts,
           slow' = 0 => \A k \in Keys :
               /\ row'[k].attempts = row[k].attempts
               /\ row'[k].st = "waiting" => row[k].st = "waiting"
               /\ Posting(k) # {} => row'[k].st = row[k].st /\ row'[k].old = row[k].old
    PROVE  InTime'
<1> SUFFICES ASSUME slow' = 0 PROVE (\A c \in Callers : InHand(c)') /\ \A k \in Keys : Numbered(k)'
  BY DEF InTime
<1>1. slow = 0 /\ (\A c \in Callers : InHand(c)) /\ \A k \in Keys : Numbered(k)
  BY DEF InTime
<1>2. ASSUME NEW c \in Callers, call'[c].pc = "posting" PROVE InHand(c)'
  <2>1. call[c].pc = "posting" /\ call'[c].key = call[c].key /\ call'[c].attempts = call[c].attempts
    BY <1>2
  <2>2. call[c].key \in Keys /\ Posting(call[c].key) # {}
    BY <2>1 DEF CallRight, Posting, At
  <2>3. InHand(c)
    BY <1>1
  <2>4. /\ row'[call[c].key].st = row[call[c].key].st /\ row'[call[c].key].old = row[call[c].key].old
        /\ row'[call[c].key].attempts = row[call[c].key].attempts
    BY <2>2
  <2> QED BY <2>1, <2>3, <2>4 DEF InHand, At
<1>3. ASSUME NEW k \in Keys PROVE Numbered(k)'
  <2>1. row[k].attempts \in Nat /\ Retries \in Nat
    BY DEF TypeOK, Row, SocialOK, Counted, MaxAttempts
  <2>2. row'[k].attempts = row[k].attempts /\ (row'[k].st = "waiting" => row[k].st = "waiting")
    OBVIOUS
  <2> QED BY <1>1, <2>1, <2>2 DEF Numbered, MaxAttempts
<1> QED BY <1>2, <1>3 DEF InHand, At

\* A caller takes a row that is in nobody's hands.
LEMMA TimeTaken ==
    ASSUME TypeOK, InTime, slow' = slow,
           NEW c \in Callers, NEW k \in Keys, NEW s \in Row, NEW m \in Call,
           row' = [row EXCEPT ![k] = s], call' = [call EXCEPT ![c] = m],
           row[k].st # "flight", s.st = "flight", ~s.old,
           m.key = k, m.attempts = s.attempts, slow = 0 => s.attempts <= MaxAttempts
    PROVE  InTime'
<1> SUFFICES ASSUME slow = 0 PROVE (\A d \in Callers : InHand(d)') /\ \A j \in Keys : Numbered(j)'
  BY DEF InTime
<1>1. (\A d \in Callers : InHand(d)) /\ \A j \in Keys : Numbered(j)
  BY DEF InTime
<1>2. \A d \in Callers : d # c => call'[d] = call[d]
  BY DEF TypeOK
<1>3. \A j \in Keys : j # k => row'[j] = row[j]
  BY DEF TypeOK
<1>4. row'[k] = s /\ call'[c] = m
  BY DEF TypeOK
<1>5. \A d \in Callers : At(d, "posting") => call[d].key # k
  BY <1>1 DEF InHand
<1>6. ASSUME NEW d \in Callers, d # c, call[d].pc = "posting" PROVE InHand(d)'
  <2>1. InHand(d) /\ call[d].key # k
    BY <1>1, <1>5, <1>6 DEF At
  <2>2. row'[call[d].key] = row[call[d].key]
    BY <2>1 DEF TypeOK
  <2>3. \A e \in Callers : At(e, "posting")' /\ call'[e].key = call[d].key => e = d
    BY <1>2, <1>4, <1>6, <2>1 DEF InHand, At
  <2> QED BY <1>2, <1>6, <2>1, <2>2, <2>3 DEF InHand, At
<1>7. InHand(c)'
  BY <1>2, <1>4, <1>5 DEF InHand, At
<1>8. \A j \in Keys : Numbered(j)'
  BY <1>1, <1>3, <1>4 DEF Numbered
<1> QED BY <1>2, <1>6, <1>7, <1>8 DEF InHand, At

\* A caller writes its answer and lets go of the row.
LEMMA TimeAnswered ==
    ASSUME TypeOK, InTime, slow' = slow,
           NEW c \in Callers, NEW s \in Row, NEW m \in Call, At(c, "posting"), call[c].key \in Keys,
           row' = [row EXCEPT ![call[c].key] = s], call' = [call EXCEPT ![c] = m],
           m.pc # "posting",
           slow = 0 => s.attempts <= IF s.st = "waiting" THEN Retries ELSE MaxAttempts
    PROVE  InTime'
<1> DEFINE k == call[c].key
<1> SUFFICES ASSUME slow = 0 PROVE (\A d \in Callers : InHand(d)') /\ \A j \in Keys : Numbered(j)'
  BY DEF InTime
<1>1. (\A d \in Callers : InHand(d)) /\ \A j \in Keys : Numbered(j)
  BY DEF InTime
<1>2. \A d \in Callers : d # c => call'[d] = call[d]
  BY DEF TypeOK
<1>3. \A j \in Keys : j # k => row'[j] = row[j]
  BY DEF TypeOK
<1>4. row'[k] = s /\ call'[c] = m
  BY DEF TypeOK
<1>5. ASSUME NEW d \in Callers, d # c, call[d].pc = "posting" PROVE InHand(d)'
  <2>1. InHand(d) /\ call[d].key # k
    BY <1>1, <1>5 DEF InHand, At
  <2>2. row'[call[d].key] = row[call[d].key]
    BY <2>1 DEF TypeOK
  <2>3. \A e \in Callers : At(e, "posting")' /\ call'[e].key = call[d].key => e = d
    BY <1>2, <1>4, <1>5, <2>1 DEF InHand, At
  <2> QED BY <1>2, <1>5, <2>1, <2>2, <2>3 DEF InHand, At
<1>6. \A j \in Keys : Numbered(j)'
  BY <1>1, <1>3, <1>4 DEF Numbered
<1> QED BY <1>2, <1>4, <1>5, <1>6 DEF InHand, At

\* Nothing more is posted today, and no tick begins.
LEMMA CapKeeps ==
    ASSUME SocialOK, TypeOK, CapHeld, net' = net,
           \A k \in Keys : row'[k].st = "POSTED" /\ row'[k].today =>
               row[k].st = "POSTED" /\ row[k].today /\ row'[k].byHand = row[k].byHand,
           \A c \in Tickers : call'[c].pc # "idle" /\ call'[c].today =>
               call[c].pc # "idle" /\ call[c].today
    PROVE  CapHeld'
<1> SUFFICES ASSUME net = "facebook"
             PROVE  /\ IsFiniteSet(PostedToday')
                    /\ Cardinality(ByTick') + Cardinality(UnderWay')
                          < DailyCap + Cardinality(Tickers')
  BY DEF CapHeld
<1>1. Tickers' = Tickers /\ Tickers \subseteq Callers /\ IsFiniteSet(Tickers)
  BY TickersAreCallers DEF Tickers, TypeOK
<1>2. PostedToday' \subseteq PostedToday
  BY DEF PostedToday
<1>3. ByTick' \subseteq ByTick /\ ByTick \subseteq PostedToday
  BY DEF ByTick, PostedToday
<1>4. UnderWay' \subseteq UnderWay /\ UnderWay \subseteq Tickers
  BY <1>1 DEF UnderWay
<1>5. IsFiniteSet(ByTick) /\ IsFiniteSet(UnderWay) /\ IsFiniteSet(PostedToday)
  BY <1>1, <1>3, <1>4, FS_Subset DEF CapHeld
<1>6. Cardinality(ByTick') <= Cardinality(ByTick) /\ Cardinality(UnderWay') <= Cardinality(UnderWay)
  BY <1>3, <1>4, <1>5, FS_Subset
<1>7. IsFiniteSet(PostedToday') /\ IsFiniteSet(ByTick') /\ IsFiniteSet(UnderWay')
  BY <1>2, <1>3, <1>4, <1>5, FS_Subset
<1>8. /\ Cardinality(ByTick') \in Nat /\ Cardinality(UnderWay') \in Nat
      /\ Cardinality(ByTick) \in Nat /\ Cardinality(UnderWay) \in Nat /\ Cardinality(Tickers) \in Nat
  BY <1>1, <1>5, <1>7, FS_CardinalityType
<1>9. DailyCap \in Nat
  BY DEF SocialOK
<1> QED BY <1>1, <1>6, <1>7, <1>8, <1>9 DEF CapHeld

\* An answer puts one more post on today's page at most, and then its tick is over.
LEMMA CapAnswered ==
    ASSUME SocialOK, TypeOK, CapHeld, net' = net,
           NEW c \in Callers, NEW s \in Row, NEW m \in Call, At(c, "posting"), call[c].key \in Keys,
           row' = [row EXCEPT ![call[c].key] = s], call' = [call EXCEPT ![c] = m],
           m.pc # "idle" /\ m.today => call[c].today,
           \/ /\ s.st = row[call[c].key].st /\ s.today = row[call[c].key].today
              /\ s.byHand = row[call[c].key].byHand
           \/ s.st # "POSTED" \/ ~s.today \/ s.byHand
           \/ c \in Tickers /\ call[c].today /\ (net = "facebook" => m.pc = "idle")
    PROVE  CapHeld'
<1> DEFINE k == call[c].key
<1> SUFFICES ASSUME net = "facebook"
             PROVE  /\ IsFiniteSet(PostedToday')
                    /\ Cardinality(ByTick') + Cardinality(UnderWay')
                          < DailyCap + Cardinality(Tickers')
  BY DEF CapHeld
<1>1. Tickers' = Tickers /\ Tickers \subseteq Callers /\ IsFiniteSet(Tickers)
  BY TickersAreCallers DEF Tickers, TypeOK
<1>2. /\ \A j \in Keys : j # k => row'[j] = row[j]
      /\ \A d \in Callers : d # c => call'[d] = call[d]
      /\ row'[k] = s /\ call'[c] = m
  BY DEF TypeOK
<1>3. PostedToday' \subseteq PostedToday \cup {k}
  BY <1>2 DEF PostedToday
<1>4. ByTick \subseteq PostedToday /\ UnderWay \subseteq Tickers /\ ByTick' \subseteq PostedToday'
  BY DEF ByTick, UnderWay
<1>5. UnderWay' \subseteq UnderWay
  BY <1>1, <1>2 DEF UnderWay, At
<1>6. IsFiniteSet(ByTick) /\ IsFiniteSet(UnderWay) /\ IsFiniteSet(PostedToday)
  BY <1>1, <1>4, FS_Subset DEF CapHeld
<1>7. IsFiniteSet(PostedToday \cup {k})
  BY <1>6, FS_AddElement
<1>8. IsFiniteSet(PostedToday') /\ IsFiniteSet(UnderWay')
  BY <1>3, <1>5, <1>6, <1>7, FS_Subset
<1>9. IsFiniteSet(ByTick')
  BY <1>4, <1>8, FS_Subset
<1>10. /\ Cardinality(ByTick') \in Nat /\ Cardinality(UnderWay') \in Nat /\ DailyCap \in Nat
       /\ Cardinality(ByTick) \in Nat /\ Cardinality(UnderWay) \in Nat /\ Cardinality(Tickers) \in Nat
  BY <1>1, <1>6, <1>8, <1>9, FS_CardinalityType DEF SocialOK
<1>11. CASE ByTick' \subseteq ByTick
  <2>1. Cardinality(ByTick') <= Cardinality(ByTick) /\ Cardinality(UnderWay') <= Cardinality(UnderWay)
    BY <1>5, <1>6, <1>11, FS_Subset
  <2> QED BY <1>1, <1>8, <1>10, <2>1 DEF CapHeld
<1>12. CASE ~(ByTick' \subseteq ByTick)
  <2>1. /\ s.st = "POSTED" /\ s.today /\ ~s.byHand
        /\ ~(row[k].st = "POSTED" /\ row[k].today /\ ~row[k].byHand)
    BY <1>2, <1>12 DEF ByTick, PostedToday
  <2>2. c \in Tickers /\ call[c].today /\ m.pc = "idle"
    BY <2>1
  <2>3. c \in UnderWay /\ UnderWay' \subseteq UnderWay \ {c}
    BY <1>1, <1>2, <1>5, <2>2 DEF UnderWay, At
  <2>4. ByTick' \subseteq ByTick \cup {k}
    BY <1>2 DEF ByTick, PostedToday
  <2>5. /\ IsFiniteSet(ByTick \cup {k}) /\ Cardinality(ByTick \cup {k}) <= Cardinality(ByTick) + 1
        /\ Cardinality(ByTick \cup {k}) \in Nat
    <3>1. /\ IsFiniteSet(ByTick \cup {k})
          /\ Cardinality(ByTick \cup {k}) =
                IF k \in ByTick THEN Cardinality(ByTick) ELSE Cardinality(ByTick) + 1
      BY <1>6, FS_AddElement
    <3> QED BY <1>10, <3>1
  <2>6. /\ IsFiniteSet(UnderWay \ {c}) /\ Cardinality(UnderWay \ {c}) = Cardinality(UnderWay) - 1
    BY <1>6, <2>3, FS_RemoveElement
  <2>7. Cardinality(ByTick') <= Cardinality(ByTick \cup {k})
    BY <2>4, <2>5, FS_Subset
  <2>8. Cardinality(UnderWay') <= Cardinality(UnderWay \ {c})
    BY <2>3, <2>6, FS_Subset
  <2> QED BY <1>1, <1>8, <1>10, <2>5, <2>6, <2>7, <2>8 DEF CapHeld
<1> QED BY <1>11, <1>12

-----------------------------------------------------------------------------
(* Steps that take no row and answer none                                  *)

\* A row that is not taken: aged, swept, skipped, or left alone.
QuietRow(r, s) ==
    /\ s.push = r.push /\ s.attempts = r.attempts
    /\ s.st = "none" <=> r.st = "none"
    /\ s.st = "waiting" => r.st = "waiting"
    /\ s.st \in {"none", "flight", "waiting"} =>
          r.st \in {"none", "flight", "waiting"} /\ s.unknown = r.unknown
    /\ s.st = "POSTED" /\ s.today => r.st = "POSTED" /\ r.today /\ s.byHand = r.byHand

\* A caller that goes on where it was, or is gone.
QuietCall(m, n) ==
    \/ n.pc = "idle" /\ ~Creates(n)
    \/ /\ n.pc = m.pc /\ n.key = m.key /\ n.attempts = m.attempts /\ n.from = m.from
       /\ n.left = m.left /\ n.todo \subseteq m.todo /\ (n.today => m.today)

\* Such a step keeps the invariant.
LEMMA QuietKeeps ==
    ASSUME SocialOK, IInv, TypeOK', net' = net, sent <= sent',
           \A k \in Keys : QuietRow(row[k], row'[k]),
           \A c \in Callers : QuietCall(call[c], call'[c]),
           slow' = 0 => /\ slow = 0
                        /\ \A k \in Keys : Posting(k) # {} =>
                              row'[k].st = row[k].st /\ row'[k].old = row[k].old,
           \/ StoppedEarly'
           \/ policy' => /\ policy
                         /\ \A c \in Callers : call'[c].pc # "idle" => call'[c].early = call[c].early,
           cut' = cut \/ (cut' > sent /\ \A c \in Callers : call'[c].pc = "idle")
    PROVE  IInv'
<1>1. /\ TypeOK /\ \A c \in Callers : CallRight(c)
      /\ OpenKnown /\ StoppedEarly /\ RowsApart /\ InTime /\ CapHeld
  BY DEF IInv
<1>2. Tickers' = Tickers
  BY DEF Tickers
<1>3. ASSUME NEW c \in Callers PROVE CallRight(c)'
  <2>1. QuietCall(call[c], call'[c]) /\ CallRight(c)
    BY <1>1
  <2>2. CASE call'[c].pc = "idle"
    BY <2>2, <1>2 DEF CallRight, At
  <2>3. CASE call'[c].pc # "idle"
    <3>1. /\ call'[c].pc = call[c].pc /\ call'[c].key = call[c].key
          /\ call'[c].from = call[c].from /\ call'[c].left = call[c].left
      BY <2>1, <2>3 DEF QuietCall
    <3>2. \A k \in Keys : row'[k].st = "none" <=> row[k].st = "none"
      BY DEF QuietRow
    <3> QED BY <1>2, <2>1, <3>1, <3>2 DEF CallRight, At
  <2> QED BY <2>2, <2>3
<1>4. OpenKnown'
  <2>1. ASSUME NEW k \in Keys, row'[k].st \in {"none", "flight", "waiting"} PROVE ~row'[k].unknown
    BY <1>1, <2>1 DEF OpenKnown, QuietRow
  <2> QED BY <2>1 DEF OpenKnown
<1>5. StoppedEarly'
  <2> SUFFICES ASSUME policy, policy',
                      \A c \in Callers : call'[c].pc # "idle" => call'[c].early = call[c].early
               PROVE  net' = "facebook" /\ \A c \in Callers : call'[c].pc # "idle" => call'[c].early
    BY DEF StoppedEarly
  <2>1. ASSUME NEW c \in Callers, call'[c].pc # "idle" PROVE call[c].pc # "idle"
    BY <2>1 DEF QuietCall
  <2> QED BY <1>1, <2>1 DEF StoppedEarly
<1>6. RowsApart'
  <2>1. sent' \in 0 .. Last /\ cut' \in Nat
    BY DEF TypeOK, SocialOK
  <2>2. \A k \in Keys : /\ row'[k].push = row[k].push
                        /\ row'[k].st = "none" <=> row[k].st = "none"
    BY DEF QuietRow
  <2>3. CASE cut' = cut
    <3>1. ASSUME NEW c \in Callers, Creates(call'[c]), NEW k \in call'[c].todo
          PROVE  k \in Keys /\ Eligible(k)
      <4>1. call'[c].pc # "idle"
        BY <3>1 DEF Creates
      <4>2. Creates(call[c]) /\ k \in call[c].todo
        BY <3>1, <4>1 DEF QuietCall, Creates
      <4>3. call[c].todo \subseteq Keys
        BY <1>1 DEF TypeOK, Call
      <4> QED BY <1>1, <4>2, <4>3 DEF RowsApart
    <3> QED BY <1>1, <2>1, <2>2, <2>3, <3>1, ApartKeeps
  <2>4. CASE cut' > sent /\ \A c \in Callers : call'[c].pc = "idle"
    <3>1. \A c \in Callers : ~Creates(call'[c])
      BY <2>4 DEF Creates
    <3> QED BY <1>1, <2>1, <2>2, <2>4, <3>1, ApartKeeps
  <2> QED BY <2>3, <2>4
<1>7. InTime'
  <2>1. \A c \in Callers : call'[c].pc = "posting" =>
            /\ call[c].pc = "posting"
            /\ call'[c].key = call[c].key /\ call'[c].attempts = call[c].attempts
    BY DEF QuietCall
  <2>2. \A k \in Keys : /\ row'[k].attempts = row[k].attempts
                        /\ row'[k].st = "waiting" => row[k].st = "waiting"
    BY DEF QuietRow
  <2> QED BY <1>1, <2>1, <2>2, TimeKeeps
<1>8. CapHeld'
  <2>1. \A k \in Keys : row'[k].st = "POSTED" /\ row'[k].today =>
            row[k].st = "POSTED" /\ row[k].today /\ row'[k].byHand = row[k].byHand
    BY DEF QuietRow
  <2>2. \A c \in Tickers : call'[c].pc # "idle" /\ call'[c].today =>
            call[c].pc # "idle" /\ call[c].today
    BY <1>1, TickersAreCallers DEF QuietCall, TypeOK
  <2> QED BY <1>1, <2>1, <2>2, CapKeeps
<1> QED BY <1>3, <1>4, <1>5, <1>6, <1>7, <1>8 DEF IInv

LEMMA IdleIsCall ==
    ASSUME SocialOK
    PROVE  Idle \in Call /\ Idle.pc = "idle" /\ ~Creates(Idle)
BY DEF SocialOK, Idle, Call, Counted, MaxAttempts, Creates

\* A row and a caller that stay as they are, are quiet.
LEMMA SameIsQuiet ==
    ASSUME TypeOK
    PROVE  /\ \A k \in Keys : QuietRow(row[k], row[k])
           /\ \A c \in Callers : QuietCall(call[c], call[c])
BY DEF QuietRow, QuietCall, TypeOK, Call

LEMMA StutterKeeps == ASSUME SocialOK, IInv, UNCHANGED vars PROVE IInv'
<1>1. TypeOK /\ sent \in Nat /\ slow \in Nat
  BY DEF IInv, TypeOK
<1>2. TypeOK'
  BY <1>1 DEF TypeOK, vars
<1> QED BY <1>1, <1>2, SameIsQuiet, QuietKeeps DEF vars

\* The steps of the world that leave rows and calls alone.
LEMMA PushSentKeeps == ASSUME SocialOK, IInv, PushSent PROVE IInv'
<1>1. TypeOK /\ sent \in Nat /\ slow \in Nat
  BY DEF IInv, TypeOK
<1>2. TypeOK'
  BY <1>1 DEF TypeOK, PushSent, SocialOK
<1> QED BY <1>1, <1>2, SameIsQuiet, QuietKeeps DEF PushSent

LEMMA NewTokenKeeps == ASSUME SocialOK, IInv, NewToken PROVE IInv'
<1>1. TypeOK /\ sent \in Nat /\ slow \in Nat
  BY DEF IInv, TypeOK
<1>2. TypeOK'
  BY <1>1 DEF TypeOK, NewToken
<1> QED BY <1>1, <1>2, SameIsQuiet, QuietKeeps DEF NewToken

\* Only closed and waiting rows are skipped: none that is being posted in time.
LEMMA SkipPostKeeps == ASSUME SocialOK, IInv, NEW k \in Keys, SkipPost(k) PROVE IInv'
<1>1. TypeOK /\ sent \in Nat /\ slow \in Nat /\ InTime
  BY DEF IInv, TypeOK
<1> DEFINE s == [row[k] EXCEPT !.st = "SKIPPED", !.due = FALSE]
<1>2. s \in Row /\ row' = [row EXCEPT ![k] = s]
  BY <1>1 DEF TypeOK, Row, Statuses, SkipPost
<1>3. QuietRow(row[k], s)
  BY <1>1 DEF TypeOK, Row, SkipPost, QuietRow
<1> HIDE DEF s
<1>4. TypeOK'
  BY <1>1, <1>2 DEF TypeOK, SkipPost
<1>5. \A j \in Keys : QuietRow(row[j], row'[j])
  BY <1>1, <1>2, <1>3, SameIsQuiet DEF TypeOK
<1>6. ASSUME slow = 0, NEW j \in Keys, Posting(j) # {} PROVE row'[j] = row[j]
  <2>1. row[j].st = "flight"
    BY <1>1, <1>6 DEF InTime, InHand, Posting
  <2> QED BY <1>1, <1>2, <2>1 DEF SkipPost, TypeOK
<1>7. UNCHANGED <<net, slow, sent, cut, policy>> /\ call' = call
  BY DEF SkipPost
<1>8. /\ \A c \in Callers : QuietCall(call[c], call'[c])
      /\ policy' => policy /\ \A c \in Callers : call'[c].pc # "idle" => call'[c].early = call[c].early
      /\ slow' = 0 => slow = 0 /\ \A j \in Keys : Posting(j) # {} =>
            row'[j].st = row[j].st /\ row'[j].old = row[j].old
  BY <1>1, <1>6, <1>7, SameIsQuiet
<1> QED BY <1>1, <1>4, <1>5, <1>7, <1>8, QuietKeeps

\* A row that ages while its call is out counts as slow.
LEMMA RowAgesKeeps == ASSUME SocialOK, IInv, NEW k \in Keys, RowAges(k) PROVE IInv'
<1>1. TypeOK /\ sent \in Nat /\ slow \in Nat
  BY DEF IInv, TypeOK
<1> DEFINE s == [row[k] EXCEPT !.old = TRUE]
<1>2. s \in Row /\ row' = [row EXCEPT ![k] = s]
  BY <1>1 DEF TypeOK, Row, RowAges
<1>3. QuietRow(row[k], s)
  BY <1>1 DEF TypeOK, Row, QuietRow
<1> HIDE DEF s
<1>4. slow' \in 0 .. MaxSlow /\ (slow' = 0 => slow = 0 /\ Posting(k) = {})
  BY <1>1 DEF RowAges, TypeOK, SocialOK
<1>5. TypeOK'
  BY <1>1, <1>2, <1>4 DEF TypeOK, RowAges
<1>6. \A j \in Keys : QuietRow(row[j], row'[j])
  BY <1>1, <1>2, <1>3, SameIsQuiet DEF TypeOK
<1>7. \A j \in Keys : j # k => row'[j] = row[j]
  BY <1>1, <1>2 DEF TypeOK
<1>8. UNCHANGED <<net, sent, cut, policy>> /\ call' = call
  BY DEF RowAges
<1>9. /\ \A c \in Callers : QuietCall(call[c], call'[c])
      /\ policy' => policy /\ \A c \in Callers : call'[c].pc # "idle" => call'[c].early = call[c].early
      /\ slow' = 0 => slow = 0 /\ \A j \in Keys : Posting(j) # {} =>
            row'[j].st = row[j].st /\ row'[j].old = row[j].old
  BY <1>1, <1>4, <1>7, <1>8, SameIsQuiet
<1> QED BY <1>1, <1>5, <1>6, <1>8, <1>9, QuietKeeps

\* A delay passes: the row stays what it is, and only lists of rows to retry lose it.
LEMMA DueComesKeeps == ASSUME SocialOK, IInv, NEW k \in Keys, DueComes(k) PROVE IInv'
<1>1. TypeOK /\ sent \in Nat /\ slow \in Nat
  BY DEF IInv, TypeOK
<1> DEFINE s == [row[k] EXCEPT !.due = TRUE]
           n(c) == IF At(c, "create") \/ call[c].from = "create" THEN call[c]
                   ELSE [call[c] EXCEPT !.todo = @ \ {k}]
<1>2. s \in Row /\ row' = [row EXCEPT ![k] = s] /\ s.st = row[k].st /\ s.old = row[k].old
  BY <1>1 DEF TypeOK, Row, DueComes
<1>3. QuietRow(row[k], s)
  BY <1>1 DEF TypeOK, Row, QuietRow
<1>4. \A c \in Callers : n(c) \in Call /\ QuietCall(call[c], n(c)) /\ n(c).early = call[c].early
  BY <1>1 DEF TypeOK, Call, QuietCall
<1>5. call' = [c \in Callers |-> n(c)]
  BY DEF DueComes
<1> HIDE DEF s, n
<1>6. TypeOK'
  <2>1. row' \in [Keys -> Row]
    BY <1>1, <1>2 DEF TypeOK
  <2>2. call' \in [Callers -> Call]
    BY <1>4, <1>5
  <2> QED BY <1>1, <2>1, <2>2 DEF TypeOK, DueComes
<1>7. \A j \in Keys : QuietRow(row[j], row'[j]) /\ row'[j].st = row[j].st /\ row'[j].old = row[j].old
  BY <1>1, <1>2, <1>3, SameIsQuiet DEF TypeOK
<1>8. UNCHANGED <<net, slow, sent, cut, policy>>
  BY DEF DueComes
<1>9. \A c \in Callers : QuietCall(call[c], call'[c]) /\ call'[c].early = call[c].early
  BY <1>4, <1>5
<1> QED BY <1>1, <1>6, <1>7, <1>8, <1>9, QuietKeeps

\* Midnight: nothing was posted today any more, and what is under way began yesterday.
LEMMA MidnightKeeps == ASSUME SocialOK, IInv, Midnight PROVE IInv'
<1>1. TypeOK /\ sent \in Nat /\ slow \in Nat
  BY DEF IInv, TypeOK
<1> DEFINE s(k) == [row[k] EXCEPT !.today = FALSE]
           n(c) == [call[c] EXCEPT !.today = @ /\ call[c].pc = "idle"]
<1>2. \A k \in Keys : /\ s(k) \in Row /\ s(k).st = row[k].st /\ s(k).old = row[k].old
                      /\ QuietRow(row[k], s(k))
  BY <1>1 DEF TypeOK, Row, QuietRow
<1>3. \A c \in Callers : n(c) \in Call /\ QuietCall(call[c], n(c)) /\ n(c).early = call[c].early
  BY <1>1 DEF TypeOK, Call, QuietCall
<1>4. row' = [k \in Keys |-> s(k)] /\ call' = [c \in Callers |-> n(c)]
  BY DEF Midnight
<1> HIDE DEF s, n
<1>5. TypeOK'
  <2>1. row' \in [Keys -> Row]
    BY <1>2, <1>4
  <2>2. call' \in [Callers -> Call]
    BY <1>3, <1>4
  <2> QED BY <1>1, <2>1, <2>2 DEF TypeOK, Midnight
<1>6. UNCHANGED <<net, slow, sent, cut, policy>>
  BY DEF Midnight
<1>7. \A c \in Callers : QuietCall(call[c], call'[c]) /\ call'[c].early = call[c].early
  BY <1>3, <1>4
<1>8. \A k \in Keys : QuietRow(row[k], row'[k]) /\ row'[k].st = row[k].st /\ row'[k].old = row[k].old
  BY <1>2, <1>4
<1> QED BY <1>1, <1>5, <1>6, <1>7, <1>8, QuietKeeps

\* The stop is lifted.
LEMMA ResumePolicyKeeps == ASSUME SocialOK, IInv, ResumePolicy PROVE IInv'
<1>1. TypeOK /\ sent \in Nat /\ slow \in Nat
  BY DEF IInv, TypeOK
<1> DEFINE n(c) == [call[c] EXCEPT !.early = FALSE]
<1>2. \A c \in Callers : n(c) \in Call /\ QuietCall(call[c], n(c))
  BY <1>1 DEF TypeOK, Call, QuietCall
<1>3. call' = [c \in Callers |-> n(c)]
  BY DEF ResumePolicy
<1> HIDE DEF n
<1>4. TypeOK'
  BY <1>1, <1>2, <1>3 DEF TypeOK, ResumePolicy
<1>5. UNCHANGED <<net, slow, sent, cut, row>> /\ ~policy'
  BY DEF ResumePolicy
<1>6. \A c \in Callers : QuietCall(call[c], call'[c])
  BY <1>2, <1>3
<1> QED BY <1>1, <1>4, <1>5, <1>6, SameIsQuiet, QuietKeeps

\* A container dies.
LEMMA CrashKeeps == ASSUME SocialOK, IInv, NEW p \in Procs, Crash(p) PROVE IInv'
<1>1. TypeOK /\ sent \in Nat /\ slow \in Nat
  BY DEF IInv, TypeOK
<1>2. \A c \in Callers : /\ QuietCall(call[c], call'[c])
                         /\ call'[c].pc # "idle" => call'[c].early = call[c].early
  BY <1>1, SameIsQuiet, IdleIsCall DEF Crash, QuietCall
<1>3. call' \in [Callers -> Call]
  BY <1>1, IdleIsCall DEF Crash, TypeOK
<1>4. TypeOK'
  BY <1>1, <1>3 DEF TypeOK, Crash, SocialOK
<1> QED BY <1>1, <1>2, <1>4, SameIsQuiet, QuietKeeps DEF Crash

\* A redeploy that moves the cut ends every call, and the cut is past what was sent.
LEMMA RedeployKeeps == ASSUME SocialOK, IInv, Redeploy PROVE IInv'
<1>1. TypeOK /\ sent \in Nat /\ slow \in Nat
  BY DEF IInv, TypeOK
<1>2. \A c \in Callers : QuietCall(call[c], call'[c]) /\ call'[c].pc = "idle"
  BY IdleIsCall DEF Redeploy, QuietCall
<1>3. call' \in [Callers -> Call]
  BY IdleIsCall DEF Redeploy
<1>4. cut' \in 1 .. Last + 1 /\ cut' > sent
  BY <1>1 DEF Redeploy, TypeOK, SocialOK
<1>5. TypeOK'
  BY <1>1, <1>3, <1>4 DEF TypeOK, Redeploy, SocialOK
<1> QED BY <1>1, <1>2, <1>4, <1>5, SameIsQuiet, QuietKeeps DEF Redeploy

\* A tick that found nothing more is over.
LEMMA TickEndsKeeps == ASSUME SocialOK, IInv, NEW c \in Callers, TickEnds(c) PROVE IInv'
<1>1. TypeOK /\ sent \in Nat /\ slow \in Nat
  BY DEF IInv, TypeOK
<1>2. \A d \in Callers : /\ QuietCall(call[d], call'[d])
                         /\ call'[d].pc # "idle" => call'[d].early = call[d].early
  BY <1>1, SameIsQuiet, IdleIsCall DEF TickEnds, QuietCall, TypeOK
<1>3. call' \in [Callers -> Call]
  BY <1>1, IdleIsCall DEF TickEnds, TypeOK
<1>4. TypeOK'
  BY <1>1, <1>3 DEF TypeOK, TickEnds
<1> QED BY <1>1, <1>2, <1>4, SameIsQuiet, QuietKeeps DEF TickEnds

-----------------------------------------------------------------------------
(* Steps of a caller that take no row                                      *)

\* A caller goes from one of its steps to another, and no row changes.
LEMMA MoveKeeps ==
    ASSUME SocialOK, IInv, NEW c \in Callers, NEW n \in Call,
           row' = row, call' = [call EXCEPT ![c] = n], n.pc # "posting",
           UNCHANGED <<net, slow, sent, cut, stopped, policy, crashes>>,
           CallRight(c)',
           Creates(n) => \A k \in n.todo : k \in Keys /\ Eligible(k),
           c \in Tickers /\ n.pc # "idle" /\ n.today => call[c].pc # "idle" /\ call[c].today,
           policy /\ n.pc # "idle" => n.early
    PROVE  IInv'
<1>1. /\ TypeOK /\ \A d \in Callers : CallRight(d)
      /\ OpenKnown /\ StoppedEarly /\ RowsApart /\ InTime /\ CapHeld
  BY DEF IInv
<1>2. call'[c] = n /\ \A d \in Callers : d # c => call'[d] = call[d]
  BY <1>1 DEF TypeOK
<1>3. TypeOK'
  BY <1>1 DEF TypeOK
<1>4. \A d \in Callers : CallRight(d)'
  BY <1>1, <1>2 DEF CallRight, At, Tickers
<1>5. OpenKnown'
  BY <1>1 DEF OpenKnown
<1>6. StoppedEarly'
  BY <1>1, <1>2 DEF StoppedEarly
<1>7. RowsApart'
  <2>1. ASSUME NEW d \in Callers, Creates(call'[d]), NEW k \in call'[d].todo
        PROVE  k \in Keys /\ Eligible(k)
    <3>1. CASE d = c
      BY <1>2, <2>1, <3>1
    <3>2. CASE d # c
      BY <1>1, <1>2, <2>1, <3>2 DEF RowsApart, TypeOK, Call
    <3> QED BY <3>1, <3>2
  <2>2. sent' \in 0 .. Last /\ cut' \in Nat /\ sent <= sent'
    BY <1>1 DEF TypeOK, SocialOK
  <2> QED BY <1>1, <2>1, <2>2, ApartKeeps
<1>8. InTime'
  <2>1. \A d \in Callers : call'[d].pc = "posting" =>
            /\ call[d].pc = "posting"
            /\ call'[d].key = call[d].key /\ call'[d].attempts = call[d].attempts
    BY <1>2
  <2> QED BY <1>1, <2>1, TimeKeeps
<1>9. CapHeld'
  <2>1. \A d \in Tickers : call'[d].pc # "idle" /\ call'[d].today =>
            call[d].pc # "idle" /\ call[d].today
    BY <1>1, <1>2, TickersAreCallers DEF TypeOK
  <2> QED BY <1>1, <2>1, CapKeeps
<1> QED BY <1>3, <1>4, <1>5, <1>6, <1>7, <1>8, <1>9 DEF IInv

\* What may be created from the table as it is, is read as candidates.
LEMMA CandidatesEligible ==
    ASSUME SocialOK, TypeOK, NEW k \in Candidates
    PROVE  k \in Keys /\ Eligible(k)
<1>1. sent \in 0 .. Last /\ cut \in 1 .. Last + 1 /\ Last \in Nat /\ Pushes = 1 .. Last
  BY DEF TypeOK, SocialOK
<1>2. CASE k \in NewRule
  <2>1. PICK p \in cut .. sent : k = <<"push", p>>
    BY <1>2 DEF NewRule
  <2> QED BY <1>1, <2>1 DEF Keys, Eligible
<1>3. CASE k \in TodaysRule
  <2>1. PICK a \in Articles \ Earlier :
            k = <<"article", a>> /\ (\E p \in PushesOf(a) : p < cut) /\ ~Handled(a)
    BY <1>3 DEF TodaysRule
  <2> QED BY <2>1 DEF Keys, Eligible, Handled
<1> QED BY <1>2, <1>3 DEF Candidates

\* The tick reads the candidates.
LEMMA ReadNewKeeps == ASSUME SocialOK, IInv, NEW c \in Callers, ReadNew(c) PROVE IInv'
<1>1. TypeOK /\ CallRight(c) /\ StoppedEarly
  BY DEF IInv
<1> DEFINE n == [call[c] EXCEPT !.pc = "create", !.todo = Candidates]
<1>2. Candidates \subseteq Keys
  BY <1>1, CandidatesEligible
<1>3. n \in Call /\ call' = [call EXCEPT ![c] = n]
  BY <1>1, <1>2 DEF TypeOK, Call, ReadNew
<1>4. /\ n.pc = "create" /\ n.todo = Candidates /\ n.left = call[c].left
      /\ n.today = call[c].today /\ n.early = call[c].early
  BY <1>1 DEF TypeOK, Call
<1>5. call'[c] = n
  BY <1>1, <1>3 DEF TypeOK
<1> HIDE DEF n
<1>6. CallRight(c)'
  BY <1>1, <1>4, <1>5 DEF CallRight, At, ReadNew, Tickers
<1>7. policy => n.early
  BY <1>1, <1>4 DEF StoppedEarly, ReadNew, At
<1>8. call[c].pc = "due" /\ UNCHANGED <<net, slow, sent, cut, row, stopped, policy, crashes>>
  BY DEF ReadNew, At
<1> QED BY <1>1, <1>3, <1>4, <1>6, <1>7, <1>8, CandidatesEligible, MoveKeeps

\* A row that is not what the tick read any more is left out of its list.
LEMMA DropKeeps ==
    ASSUME SocialOK, IInv, NEW c \in Callers, NEW k \in Keys, call[c].pc \in {"due", "create"},
           call' = [call EXCEPT ![c].todo = @ \ {k}],
           UNCHANGED <<net, slow, sent, cut, row, stopped, policy, crashes>>
    PROVE  IInv'
<1>1. TypeOK /\ CallRight(c) /\ StoppedEarly /\ RowsApart
  BY DEF IInv
<1> DEFINE n == [call[c] EXCEPT !.todo = @ \ {k}]
<1>2. n \in Call /\ call' = [call EXCEPT ![c] = n]
  BY <1>1 DEF TypeOK, Call
<1>3. /\ n.pc = call[c].pc /\ n.todo = call[c].todo \ {k} /\ n.left = call[c].left
      /\ n.from = call[c].from
      /\ n.today = call[c].today /\ n.early = call[c].early
  BY <1>1 DEF TypeOK, Call
<1>4. call'[c] = n
  BY <1>1, <1>2 DEF TypeOK
<1> HIDE DEF n
<1>5. CallRight(c)'
  BY <1>1, <1>3, <1>4 DEF CallRight, At, Tickers
<1>6. Creates(n) => \A j \in n.todo : j \in Keys /\ Eligible(j)
  <2>1. call[c].todo \subseteq Keys
    BY <1>1 DEF TypeOK, Call
  <2> QED BY <1>1, <1>3, <2>1 DEF RowsApart, Creates
<1>7. policy => n.early
  BY <1>1, <1>3 DEF StoppedEarly
<1> QED BY <1>1, <1>2, <1>3, <1>5, <1>6, <1>7, MoveKeeps

\* A press of Retry that passed its check.
LEMMA PressKeeps ==
    ASSUME SocialOK, IInv, NEW d \in Desks, NEW k \in Keys, Press(d, k)
    PROVE  IInv'
<1>1. TypeOK /\ StoppedEarly
  BY DEF IInv
<1>2. d \in Callers /\ d \notin Tickers
  BY <1>1, TickersAreCallers DEF TypeOK
<1> DEFINE n == [Idle EXCEPT !.pc = "press", !.key = k]
<1>3. n \in Call /\ call' = [call EXCEPT ![d] = n]
  BY IdleIsCall DEF Call, Press
<1>4. n.pc = "press" /\ n.key = k
  BY DEF Idle
<1>5. call'[d] = n
  BY <1>1, <1>2, <1>3 DEF TypeOK
<1> HIDE DEF n
<1>6. /\ row[k].st # "none" /\ ~policy
      /\ UNCHANGED <<net, slow, sent, cut, row, stopped, policy, crashes>>
  BY <1>1 DEF Press, Retriable, MayRetry, StoppedEarly
<1>7. CallRight(d)'
  BY <1>2, <1>4, <1>5, <1>6 DEF CallRight, At, Tickers
<1> QED BY <1>1, <1>2, <1>3, <1>4, <1>6, <1>7, MoveKeeps DEF Creates

\* A Retry whose row is no longer closed does nothing.
LEMMA PressDropKeeps ==
    ASSUME SocialOK, IInv, NEW c \in Callers, call' = [call EXCEPT ![c] = Idle],
           UNCHANGED <<net, slow, sent, cut, row, stopped, policy, crashes>>
    PROVE  IInv'
<1>1. TypeOK
  BY DEF IInv
<1>2. call'[c] = Idle
  BY <1>1 DEF TypeOK
<1>3. CallRight(c)'
  BY <1>2, IdleIsCall DEF CallRight, At
<1> QED BY <1>3, IdleIsCall, MoveKeeps

\* The policy stop is written: who is under way now, was so when it was.
LEMMA PolicyStopKeeps == ASSUME SocialOK, IInv, NEW c \in Callers, PolicyStop(c) PROVE IInv'
<1>1. TypeOK /\ CallRight(c) /\ StoppedEarly
  BY DEF IInv
<1> DEFINE n(d) == IF d = c THEN Idle
                   ELSE [call[d] EXCEPT !.early = @ \/ (call[d].pc # "idle" /\ ~policy)]
<1>2. \A d \in Callers : n(d) \in Call /\ QuietCall(call[d], n(d))
  BY <1>1, IdleIsCall DEF TypeOK, Call, QuietCall
<1>3. call' = [d \in Callers |-> n(d)]
  BY DEF PolicyStop
<1>4. \A d \in Callers : n(d).pc # "idle" => n(d).early
  <2>1. ASSUME NEW d \in Callers, n(d).pc # "idle" PROVE n(d).early
    <3>1. d # c /\ call[d].pc # "idle" /\ call[d] \in Call
      BY <1>1, <2>1, IdleIsCall DEF TypeOK, Call
    <3>2. n(d).early = (call[d].early \/ ~policy)
      BY <3>1 DEF Call
    <3>3. policy => call[d].early
      BY <1>1, <3>1 DEF StoppedEarly
    <3> QED BY <3>2, <3>3
  <2> QED BY <2>1
<1> HIDE DEF n
<1>5. net = "facebook" /\ policy' /\ UNCHANGED <<net, slow, sent, cut, row, stopped, crashes>>
  BY <1>1 DEF CallRight, PolicyStop
<1>6. TypeOK'
  <2>1. call' \in [Callers -> Call]
    BY <1>2, <1>3
  <2> QED BY <1>1, <1>5, <2>1 DEF TypeOK, PolicyStop
<1>7. StoppedEarly'
  BY <1>3, <1>4, <1>5 DEF StoppedEarly
<1>8. /\ \A d \in Callers : QuietCall(call[d], call'[d])
      /\ \A k \in Keys : QuietRow(row[k], row'[k])
      /\ sent <= sent'
      /\ slow' = 0 => slow = 0 /\ \A k \in Keys : Posting(k) # {} =>
            row'[k].st = row[k].st /\ row'[k].old = row[k].old
  BY <1>1, <1>2, <1>3, <1>5, SameIsQuiet DEF TypeOK
<1> QED BY <1>5, <1>6, <1>7, <1>8, QuietKeeps

-----------------------------------------------------------------------------
(* A tick begins                                                           *)

\* The sweep closes rows that nobody posts in time.
LEMMA SweptQuiet ==
    ASSUME SocialOK, IInv
    PROVE  /\ Swept \in [Keys -> Row]
           /\ \A k \in Keys : QuietRow(row[k], Swept[k])
           /\ slow = 0 => \A k \in Keys : Posting(k) # {} => Swept[k] = row[k]
<1>1. TypeOK /\ InTime
  BY DEF IInv
<1>2. ASSUME NEW k \in Keys, Stale(k)
      PROVE  Close(row[k]) \in Row /\ QuietRow(row[k], Close(row[k]))
  BY <1>1, <1>2 DEF Stale, Close, TypeOK, Row, Statuses, QuietRow
<1>3. \A k \in Keys : Swept[k] \in Row /\ QuietRow(row[k], Swept[k])
  BY <1>1, <1>2, SameIsQuiet DEF Swept, TypeOK
<1>4. ASSUME slow = 0, NEW k \in Keys, Posting(k) # {} PROVE Swept[k] = row[k]
  <2>1. ~row[k].old
    BY <1>1, <1>4 DEF InTime, InHand, Posting
  <2> QED BY <2>1 DEF Swept, Stale
<1> QED BY <1>3, <1>4 DEF Swept

LEMMA TickKeeps == ASSUME SocialOK, IInv, NEW c \in Tickers, Tick(c) PROVE IInv'
<1>1. /\ TypeOK /\ \A d \in Callers : CallRight(d)
      /\ OpenKnown /\ StoppedEarly /\ RowsApart /\ InTime /\ CapHeld
  BY DEF IInv
<1>2. c \in Callers /\ Tickers \subseteq Callers /\ IsFiniteSet(Tickers)
  BY <1>1, TickersAreCallers DEF TypeOK
<1>3. /\ row' = Swept /\ call[c].pc = "idle"
      /\ UNCHANGED <<net, slow, sent, cut, stopped, policy, crashes>>
  BY DEF Tick, At
<1>4. /\ row' \in [Keys -> Row]
      /\ \A k \in Keys : QuietRow(row[k], row'[k])
      /\ slow = 0 => \A k \in Keys : Posting(k) # {} => row'[k] = row[k]
  BY <1>3, SweptQuiet
<1>5. sent \in Nat /\ cut \in Nat /\ sent' \in 0 .. Last /\ slow \in Nat
  BY <1>1, <1>3 DEF TypeOK, SocialOK
<1>6. CASE UNCHANGED call
  <2>1. TypeOK'
    BY <1>1, <1>3, <1>4, <1>6 DEF TypeOK
  <2>2. /\ \A d \in Callers : QuietCall(call[d], call'[d])
        /\ sent <= sent'
        /\ policy' => policy /\ \A d \in Callers : call'[d].pc # "idle" => call'[d].early = call[d].early
        /\ slow' = 0 => slow = 0 /\ \A k \in Keys : Posting(k) # {} =>
              row'[k].st = row[k].st /\ row'[k].old = row[k].old
    BY <1>1, <1>3, <1>4, <1>5, <1>6, SameIsQuiet
  <2> QED BY <1>3, <1>4, <2>1, <2>2, QuietKeeps
<1>7. ASSUME Runs(c), NEW D \in DueReads,
             call' = [call EXCEPT ![c] = [Idle EXCEPT !.pc = "due", !.todo = D]]
      PROVE  IInv'
  <2> DEFINE n == [Idle EXCEPT !.pc = "due", !.todo = D]
  <2>1. D \subseteq Keys
    BY DEF DueReads, kSubset, DueRows
  <2>2. n \in Call /\ n.pc = "due" /\ n.left = MaxPerTick /\ n.todo = D /\ ~Creates(n)
    BY <2>1, IdleIsCall DEF Call, Idle, Creates
  <2>3. call'[c] = n /\ \A d \in Callers : d # c => call'[d] = call[d]
    BY <1>1, <1>2, <1>7 DEF TypeOK
  <2>4. call' \in [Callers -> Call]
    BY <1>1, <1>7, <2>2 DEF TypeOK
  <2> HIDE DEF n
  <2>5. TypeOK'
    BY <1>1, <1>3, <1>4, <2>4 DEF TypeOK
  <2>6. ASSUME NEW d \in Callers PROVE CallRight(d)'
    <3>1. \A k \in Keys : row'[k].st = "none" <=> row[k].st = "none"
      BY <1>4 DEF QuietRow
    <3>2. CASE d = c
      BY <1>3, <2>2, <2>3, <3>2 DEF CallRight, At, Tickers, SocialOK
    <3>3. CASE d # c
      BY <1>1, <1>3, <2>3, <3>1, <3>3 DEF CallRight, At, Tickers
    <3> QED BY <3>2, <3>3
  <2>7. OpenKnown'
    <3>1. ASSUME NEW k \in Keys, row'[k].st \in {"none", "flight", "waiting"} PROVE ~row'[k].unknown
      BY <1>1, <1>4, <3>1 DEF OpenKnown, QuietRow
    <3> QED BY <3>1 DEF OpenKnown
  <2>8. ~policy
    BY <1>1, <1>7 DEF Runs, StoppedEarly
  <2>9. StoppedEarly'
    BY <1>3, <2>8 DEF StoppedEarly
  <2>10. RowsApart'
    <3>1. \A d \in Callers : Creates(call'[d]) => \A k \in call'[d].todo : k \in Keys /\ Eligible(k)
      BY <1>1, <2>2, <2>3 DEF RowsApart, TypeOK, Call
    <3>2. \A k \in Keys : /\ row'[k].push = row[k].push
                          /\ row'[k].st = "none" <=> row[k].st = "none"
      BY <1>4 DEF QuietRow
    <3> QED BY <1>1, <1>3, <1>5, <3>1, <3>2, ApartKeeps
  <2>11. InTime'
    <3>1. \A d \in Callers : call'[d].pc = "posting" =>
              /\ call[d].pc = "posting"
              /\ call'[d].key = call[d].key /\ call'[d].attempts = call[d].attempts
      BY <2>2, <2>3
    <3>2. slow' = 0 => \A k \in Keys :
              /\ row'[k].attempts = row[k].attempts
              /\ row'[k].st = "waiting" => row[k].st = "waiting"
              /\ Posting(k) # {} => row'[k].st = row[k].st /\ row'[k].old = row[k].old
      BY <1>3, <1>4 DEF QuietRow
    <3> QED BY <1>1, <1>3, <3>1, <3>2, TimeKeeps
  <2>12. CapHeld'
    <3> SUFFICES ASSUME net = "facebook"
                 PROVE  /\ IsFiniteSet(PostedToday')
                        /\ Cardinality(ByTick') + Cardinality(UnderWay')
                              < DailyCap + Cardinality(Tickers)
      BY <1>3 DEF CapHeld, Tickers
    <3>1. PostedToday' \subseteq PostedToday
      BY <1>4 DEF PostedToday, QuietRow
    <3>2. ByTick' \subseteq PostedToday' /\ UnderWay' \subseteq Tickers
      BY <1>3 DEF ByTick, UnderWay, Tickers
    <3>3. IsFiniteSet(PostedToday) /\ Cardinality(PostedToday) < DailyCap
      BY <1>1, <1>7 DEF CapHeld, Runs, Paced
    <3>4. IsFiniteSet(PostedToday') /\ Cardinality(PostedToday') <= Cardinality(PostedToday)
      BY <3>1, <3>3, FS_Subset
    <3>5. IsFiniteSet(ByTick') /\ Cardinality(ByTick') <= Cardinality(PostedToday')
      BY <3>2, <3>4, FS_Subset
    <3>6. IsFiniteSet(UnderWay') /\ Cardinality(UnderWay') <= Cardinality(Tickers)
      BY <1>2, <3>2, FS_Subset
    <3>7. /\ Cardinality(ByTick') \in Nat /\ Cardinality(UnderWay') \in Nat
          /\ Cardinality(PostedToday) \in Nat /\ Cardinality(PostedToday') \in Nat
          /\ Cardinality(Tickers) \in Nat /\ DailyCap \in Nat
      BY <1>2, <3>3, <3>4, <3>5, <3>6, FS_CardinalityType DEF SocialOK
    <3> QED BY <3>3, <3>4, <3>5, <3>6, <3>7
  <2> QED BY <2>5, <2>6, <2>7, <2>9, <2>10, <2>11, <2>12 DEF IInv
<1> QED BY <1>6, <1>7 DEF Tick

-----------------------------------------------------------------------------
(* Answers                                                                 *)

\* What an answer may leave of its row ...
Answered(c, s) ==
    /\ s \in Row /\ s.push = row[call[c].key].push
    /\ s.st \in {"waiting", "POSTED", "FAILED", "SKIPPED"}
    /\ s.st = "waiting" => ~s.unknown
    /\ slow = 0 => s.attempts <= IF s.st = "waiting" THEN Retries ELSE MaxAttempts

\* ... and of its caller: nothing, the stop to write, or the rest of a LinkedIn tick.
LetsGo(c, m) ==
    /\ m \in Call
    /\ \/ m = Idle
       \/ /\ m.early = call[c].early /\ m.today = call[c].today /\ m.todo = call[c].todo
          /\ \/ m.pc = "stopping" /\ net = "facebook"
             \/ /\ m.pc = call[c].from /\ m.left > 0 /\ call[c].from # "press"
                /\ net = "linkedin"

LEMMA GoesOrEnds ==
    ASSUME SocialOK, TypeOK, NEW c \in Callers
    PROVE  \E m \in Call : LetsGo(c, m) /\ Goes(c) = [call EXCEPT ![c] = m]
                           /\ (net = "facebook" => m = Idle)
<1> DEFINE goesOn == net = "linkedin" /\ call[c].from # "press" /\ call[c].left > 0
           n == [call[c] EXCEPT !.pc = call[c].from, !.key = None]
<1>1. CASE goesOn
  <2>1. n \in Call /\ n.pc = call[c].from /\ n.left = call[c].left
    BY <1>1 DEF TypeOK, Call
  <2>2. n.early = call[c].early /\ n.today = call[c].today /\ n.todo = call[c].todo
    BY DEF TypeOK, Call
  <2>3. Goes(c) = [call EXCEPT ![c] = n]
    BY <1>1 DEF Goes
  <2> HIDE DEF n
  <2>4. LetsGo(c, n)
    BY <1>1, <2>1, <2>2 DEF LetsGo
  <2> QED BY <1>1, <2>1, <2>3, <2>4
<1>2. CASE ~goesOn
  <2>1. Goes(c) = [call EXCEPT ![c] = Idle]
    BY <1>2 DEF Goes
  <2>2. Idle \in Call /\ LetsGo(c, Idle)
    BY IdleIsCall DEF LetsGo
  <2> QED BY <2>1, <2>2
<1> QED BY <1>1, <1>2

LEMMA AnswerKeeps ==
    ASSUME SocialOK, IInv, NEW c \in Callers, NEW s \in Row, NEW m \in Call,
           At(c, "posting"), Answered(c, s), LetsGo(c, m),
           row' = [row EXCEPT ![call[c].key] = s], call' = [call EXCEPT ![c] = m],
           stopped' \subseteq Procs, UNCHANGED <<net, slow, sent, cut, policy, crashes>>,
           \/ /\ s.st = row[call[c].key].st /\ s.today = row[call[c].key].today
              /\ s.byHand = row[call[c].key].byHand
           \/ s.st # "POSTED" \/ ~s.today \/ s.byHand
           \/ c \in Tickers /\ call[c].today /\ (net = "facebook" => m.pc = "idle")
    PROVE  IInv'
<1>1. /\ TypeOK /\ \A d \in Callers : CallRight(d)
      /\ OpenKnown /\ StoppedEarly /\ RowsApart /\ InTime /\ CapHeld
  BY DEF IInv
<1> DEFINE k == call[c].key
<1>2. k \in Keys /\ row[k].st # "none" /\ call[c].pc = "posting"
  BY <1>1 DEF CallRight, At
<1>3. /\ \A j \in Keys : j # k => row'[j] = row[j]
      /\ \A d \in Callers : d # c => call'[d] = call[d]
      /\ row'[k] = s /\ call'[c] = m
  BY <1>1, <1>2 DEF TypeOK
<1>4. /\ m.pc \in {"idle", "stopping", "due", "create"}
      /\ m.pc = "idle" \/ m.todo = call[c].todo
      /\ m.pc # "idle" => m.early = call[c].early /\ m.today = call[c].today
      /\ m.pc = "create" => call[c].from = "create"
      /\ m.pc = "stopping" => net = "facebook"
      /\ m.pc \in {"due", "create"} => m.left > 0 /\ call[c].from # "press"
  <2>1. call[c].from \in {"due", "create", "press"}
    BY <1>1 DEF TypeOK, Call
  <2> QED BY <2>1, IdleIsCall DEF LetsGo
<1>5. TypeOK'
  <2>1. row' \in [Keys -> Row]
    BY <1>1 DEF TypeOK
  <2>2. call' \in [Callers -> Call]
    BY <1>1 DEF TypeOK
  <2> QED BY <1>1, <2>1, <2>2 DEF TypeOK
<1>6. \A j \in Keys : row'[j].st = "none" <=> row[j].st = "none"
  BY <1>2, <1>3 DEF Answered
<1>7. ASSUME NEW d \in Callers PROVE CallRight(d)'
  <2>1. Tickers' = Tickers
    BY DEF Tickers
  <2>2. CASE d = c
    BY <1>1, <1>2, <1>3, <1>4, <2>1, <2>2 DEF CallRight, At
  <2>3. CASE d # c
    BY <1>1, <1>3, <1>6, <2>1, <2>3 DEF CallRight, At
  <2> QED BY <2>2, <2>3
<1>8. OpenKnown'
  BY <1>1, <1>3 DEF OpenKnown, Answered
<1>9. StoppedEarly'
  BY <1>1, <1>2, <1>3, <1>4 DEF StoppedEarly
<1>10. RowsApart'
  <2>1. ASSUME NEW d \in Callers, Creates(call'[d]), NEW j \in call'[d].todo
        PROVE  j \in Keys /\ Eligible(j)
    <3>1. CASE d = c
      <4>1. m.pc = "create" /\ Creates(call[c]) /\ j \in call[c].todo
        BY <1>2, <1>3, <1>4, <2>1, <3>1 DEF Creates
      <4> QED BY <1>1, <4>1 DEF RowsApart, TypeOK, Call
    <3>2. CASE d # c
      BY <1>1, <1>3, <2>1, <3>2 DEF RowsApart, TypeOK, Call
    <3> QED BY <3>1, <3>2
  <2>2. sent' \in 0 .. Last /\ cut' \in Nat /\ sent <= sent'
    BY <1>1 DEF TypeOK, SocialOK
  <2>3. \A j \in Keys : /\ row'[j].push = row[j].push
                        /\ row'[j].st = "none" <=> row[j].st = "none"
    BY <1>3, <1>6 DEF Answered
  <2> QED BY <1>1, <2>1, <2>2, <2>3, ApartKeeps
<1>11. InTime'
  <2>1. slow' = slow /\ m.pc # "posting"
    BY <1>4
  <2>2. slow = 0 => s.attempts <= IF s.st = "waiting" THEN Retries ELSE MaxAttempts
    BY DEF Answered
  <2> QED BY <1>1, <1>2, <2>1, <2>2, TimeAnswered
<1>12. CapHeld'
  <2>1. m.pc # "idle" /\ m.today => call[c].today
    BY <1>4
  <2> QED BY <1>1, <1>2, <2>1, CapAnswered
<1> QED BY <1>5, <1>7, <1>8, <1>9, <1>10, <1>11, <1>12 DEF IInv

\* The row of a call that is out: in time it is in flight and counts the call's attempt.
LEMMA RowInHand ==
    ASSUME SocialOK, IInv, NEW c \in Callers, At(c, "posting")
    PROVE  /\ call[c].key \in Keys /\ Mine(c) = row[call[c].key] /\ Mine(c) \in Row
           /\ Mine(c).st # "none" /\ call[c].attempts \in 0 .. Counted
           /\ Mine(c).st \in {"flight", "waiting"} => ~Mine(c).unknown
           /\ slow = 0 => /\ Mine(c).st = "flight" /\ Mine(c).attempts = call[c].attempts
                          /\ call[c].attempts <= MaxAttempts
           /\ Retries \in Nat /\ MaxAttempts = Retries + 1 /\ Counted = Retries + 2
<1>1. TypeOK /\ CallRight(c) /\ OpenKnown /\ InTime
  BY DEF IInv
<1>2. call[c].key \in Keys /\ Mine(c) = row[call[c].key] /\ Mine(c).st # "none"
  BY <1>1 DEF CallRight, At, Mine
<1>3. Mine(c) \in Row /\ call[c] \in Call
  BY <1>1, <1>2 DEF TypeOK
<1>4. Retries \in Nat /\ MaxAttempts = Retries + 1 /\ Counted = Retries + 2
  BY DEF SocialOK, MaxAttempts, Counted
<1>5. Mine(c).st \in {"flight", "waiting"} => ~Mine(c).unknown
  BY <1>1, <1>2 DEF OpenKnown
<1>6. ASSUME slow = 0
      PROVE  /\ Mine(c).st = "flight" /\ Mine(c).attempts = call[c].attempts
             /\ call[c].attempts <= MaxAttempts
  <2>1. InHand(c) /\ Numbered(call[c].key)
    BY <1>1, <1>2, <1>6 DEF InTime
  <2> QED BY <1>2, <2>1 DEF InHand, Numbered
<1> QED BY <1>2, <1>3, <1>4, <1>5, <1>6 DEF Call

\* A row that nobody waits for any more keeps its status; another one waits.
LEMMA WaitsRow ==
    ASSUME SocialOK, IInv, NEW c \in Callers, At(c, "posting"), NEW due \in BOOLEAN
    PROVE  LET w == Waits(Mine(c), due) IN
           /\ w \in Row /\ w.push = Mine(c).push /\ w.attempts = Mine(c).attempts
           /\ w.unknown = Mine(c).unknown /\ w.today = Mine(c).today /\ w.byHand = Mine(c).byHand
           /\ w.st = IF Mine(c).st \in {"flight", "waiting"} THEN "waiting" ELSE Mine(c).st
<1>1. Mine(c) \in Row
  BY RowInHand
<1> QED BY <1>1 DEF Waits, Row, Statuses

LEMMA PostedKeeps == ASSUME SocialOK, IInv, NEW c \in Callers, Posted(c) PROVE IInv'
<1>1. At(c, "posting") /\ TypeOK /\ CallRight(c)
  BY DEF Posted, IInv
<1> DEFINE s == [Mine(c) EXCEPT !.st = "POSTED", !.due = FALSE, !.unknown = FALSE,
                                !.today = call[c].today, !.byHand = call[c].from = "press"]
<1>2. Mine(c) \in Row /\ call[c].today \in BOOLEAN
  BY <1>1, RowInHand DEF TypeOK, Call
<1>3. s \in Row
  BY <1>2 DEF Row, Statuses
<1>4. /\ s.st = "POSTED" /\ s.push = Mine(c).push /\ s.attempts = Mine(c).attempts
      /\ s.today = call[c].today /\ s.byHand = (call[c].from = "press")
  BY <1>2 DEF Row
<1>5. row' = [row EXCEPT ![call[c].key] = s]
  BY DEF Posted, Write
<1> HIDE DEF s
<1>6. Answered(c, s)
  BY <1>1, <1>3, <1>4, RowInHand DEF Answered
<1>7. PICK m \in Call : LetsGo(c, m) /\ call' = [call EXCEPT ![c] = m]
                        /\ (net = "facebook" => m = Idle)
  BY <1>1, GoesOrEnds DEF Posted
<1>8. /\ stopped' \subseteq Procs
      /\ UNCHANGED <<net, slow, sent, cut, policy, crashes>>
  BY <1>1 DEF Posted, TypeOK
<1>9. ~s.today \/ s.byHand \/
      (c \in Tickers /\ call[c].today /\ (net = "facebook" => m.pc = "idle"))
  BY <1>1, <1>4, <1>7, IdleIsCall DEF CallRight
<1> QED BY <1>1, <1>3, <1>5, <1>6, <1>7, <1>8, <1>9, AnswerKeeps

\* A login stop gives the attempt back.
LEMMA AuthStopKeeps == ASSUME SocialOK, IInv, NEW c \in Callers, AuthStop(c) PROVE IInv'
<1>1. At(c, "posting") /\ TypeOK
  BY DEF AuthStop, IInv
<1> DEFINE w == Waits(Mine(c), TRUE)
           n == IF call[c].attempts > 0 THEN call[c].attempts - 1 ELSE 0
           s == [w EXCEPT !.attempts = n]
<1>2. /\ w \in Row /\ w.push = Mine(c).push
      /\ w.unknown = Mine(c).unknown /\ w.today = Mine(c).today /\ w.byHand = Mine(c).byHand
      /\ w.st = IF Mine(c).st \in {"flight", "waiting"} THEN "waiting" ELSE Mine(c).st
  BY <1>1, WaitsRow
<1>3. row' = [row EXCEPT ![call[c].key] = s]
  BY DEF AuthStop, Write
<1>4. /\ call[c].attempts \in 0 .. Counted /\ Counted \in Nat
      /\ slow = 0 => call[c].attempts <= Retries + 1
      /\ Retries \in Nat /\ MaxAttempts = Retries + 1
  BY <1>1, RowInHand
<1>5. n \in 0 .. Counted /\ (slow = 0 => n <= Retries)
  BY <1>4
<1> HIDE DEF w, n
<1>6. /\ s \in Row /\ s.st = w.st /\ s.push = w.push /\ s.unknown = w.unknown
      /\ s.today = w.today /\ s.byHand = w.byHand /\ s.attempts = n
  BY <1>2, <1>5 DEF Row
<1> HIDE DEF s
<1>7. Answered(c, s)
  <2>1. slow = 0 => s.attempts <= IF s.st = "waiting" THEN Retries ELSE MaxAttempts
    BY <1>4, <1>5, <1>6
  <2>2. s.push = row[call[c].key].push /\ (s.st = "waiting" => ~s.unknown)
    BY <1>1, <1>2, <1>6, RowInHand
  <2>3. s.st \in {"waiting", "POSTED", "FAILED", "SKIPPED"}
    BY <1>1, <1>2, <1>6, RowInHand DEF Row, Statuses
  <2> QED BY <1>6, <2>1, <2>2, <2>3 DEF Answered
<1>8. LetsGo(c, Idle) /\ Idle \in Call /\ call' = [call EXCEPT ![c] = Idle] /\ Idle.pc = "idle"
  BY IdleIsCall DEF AuthStop, Ends, LetsGo
<1>9. stopped' \subseteq Procs /\ UNCHANGED <<net, slow, sent, cut, policy, crashes>>
  BY <1>1 DEF AuthStop, TypeOK, Procs
<1>10. \/ /\ s.st = row[call[c].key].st /\ s.today = row[call[c].key].today
          /\ s.byHand = row[call[c].key].byHand
       \/ s.st # "POSTED"
  BY <1>1, <1>2, <1>6, RowInHand
<1> QED BY <1>1, <1>3, <1>6, <1>7, <1>8, <1>9, <1>10, AnswerKeeps

\* A row that is closed as failed.
LEMMA FailedAnswers ==
    ASSUME SocialOK, IInv, NEW c \in Callers, At(c, "posting"), NEW u \in BOOLEAN
    PROVE  LET s == [Mine(c) EXCEPT !.st = "FAILED", !.due = FALSE, !.unknown = u] IN
           s \in Row /\ s.st = "FAILED" /\ Answered(c, s)
<1> DEFINE s == [Mine(c) EXCEPT !.st = "FAILED", !.due = FALSE, !.unknown = u]
<1>1. Mine(c) \in Row
  BY RowInHand
<1>2. s \in Row /\ s.st = "FAILED" /\ s.push = Mine(c).push /\ s.attempts = Mine(c).attempts
  BY <1>1 DEF Row, Statuses
<1> HIDE DEF s
<1>3. Answered(c, s)
  BY <1>2, RowInHand DEF Answered
<1> QED BY <1>2, <1>3 DEF s

LEMMA FailKeeps ==
    ASSUME SocialOK, IInv, NEW c \in Callers, At(c, "posting"), NEW u \in BOOLEAN, NEW m \in Call,
           LetsGo(c, m), call' = [call EXCEPT ![c] = m],
           row' = [row EXCEPT ![call[c].key] =
                     [Mine(c) EXCEPT !.st = "FAILED", !.due = FALSE, !.unknown = u]],
           UNCHANGED <<net, slow, sent, cut, stopped, policy, crashes>>
    PROVE  IInv'
<1> DEFINE s == [Mine(c) EXCEPT !.st = "FAILED", !.due = FALSE, !.unknown = u]
<1>1. s \in Row /\ s.st = "FAILED" /\ Answered(c, s)
  BY FailedAnswers
<1>2. row' = [row EXCEPT ![call[c].key] = s]
  OBVIOUS
<1> HIDE DEF s
<1>3. stopped' \subseteq Procs /\ UNCHANGED <<net, slow, sent, cut, policy, crashes>>
  BY DEF IInv, TypeOK
<1> QED BY <1>1, <1>2, <1>3, AnswerKeeps

LEMMA RefusedKeeps == ASSUME SocialOK, IInv, NEW c \in Callers, Refused(c) PROVE IInv'
<1>1. At(c, "posting") /\ TypeOK
  BY DEF Refused, IInv
<1>2. PICK thrown \in BOOLEAN :
          Write(c, [Mine(c) EXCEPT !.st = "FAILED", !.due = FALSE, !.unknown = thrown \/ @])
  BY DEF Refused
<1> DEFINE u == thrown \/ Mine(c).unknown
<1>3. u \in BOOLEAN
  BY <1>1, RowInHand DEF Row
<1>4. row' = [row EXCEPT ![call[c].key] =
                [Mine(c) EXCEPT !.st = "FAILED", !.due = FALSE, !.unknown = u]]
  BY <1>2 DEF Write
<1> HIDE DEF u
<1>5. PICK m \in Call : LetsGo(c, m) /\ call' = [call EXCEPT ![c] = m]
  BY <1>1, GoesOrEnds DEF Refused
<1>6. UNCHANGED <<net, slow, sent, cut, stopped, policy, crashes>>
  BY DEF Refused
<1> QED BY <1>1, <1>3, <1>4, <1>5, <1>6, FailKeeps

\* A row of which only these two fields change keeps what was known of it.
LEMMA FailedAsKnown ==
    ASSUME SocialOK, IInv, NEW c \in Callers, At(c, "posting")
    PROVE  /\ Mine(c).unknown \in BOOLEAN
           /\ [Mine(c) EXCEPT !.st = "FAILED", !.due = FALSE] =
              [Mine(c) EXCEPT !.st = "FAILED", !.due = FALSE, !.unknown = Mine(c).unknown]
<1>1. Mine(c) \in Row
  BY RowInHand
<1> QED BY <1>1 DEF Row

LEMMA BlockedKeeps == ASSUME SocialOK, IInv, NEW c \in Callers, Blocked(c) PROVE IInv'
<1>1. At(c, "posting") /\ TypeOK /\ net = "facebook"
  BY DEF Blocked, IInv
<1> DEFINE m == [call[c] EXCEPT !.pc = "stopping"]
<1>2. /\ m \in Call /\ m.pc = "stopping" /\ m.early = call[c].early
      /\ m.today = call[c].today /\ m.todo = call[c].todo
  BY <1>1 DEF TypeOK, Call
<1>3. call' = [call EXCEPT ![c] = m]
  BY DEF Blocked
<1> HIDE DEF m
<1>4. LetsGo(c, m)
  BY <1>1, <1>2 DEF LetsGo
<1>5. Mine(c).unknown \in BOOLEAN
  BY <1>1, FailedAsKnown
<1>6. row' = [row EXCEPT ![call[c].key] =
                [Mine(c) EXCEPT !.st = "FAILED", !.due = FALSE, !.unknown = Mine(c).unknown]]
  BY <1>1, FailedAsKnown DEF Blocked, Write
<1>7. UNCHANGED <<net, slow, sent, cut, stopped, policy, crashes>>
  BY DEF Blocked
<1> QED BY <1>1, <1>2, <1>3, <1>4, <1>5, <1>6, <1>7, FailKeeps

LEMMA TransientKeeps == ASSUME SocialOK, IInv, NEW c \in Callers, Transient(c) PROVE IInv'
<1>1. At(c, "posting") /\ TypeOK
  BY DEF Transient, IInv
<1>2. PICK d \in Delays :
          Write(c, IF MayWait(call[c].attempts, d) THEN Waits(Mine(c), FALSE)
                   ELSE [Mine(c) EXCEPT !.st = "FAILED", !.due = FALSE])
  BY DEF Transient
<1>3. PICK m \in Call : LetsGo(c, m) /\ call' = [call EXCEPT ![c] = m]
  BY <1>1, GoesOrEnds DEF Transient
<1>4. UNCHANGED <<net, slow, sent, cut, stopped, policy, crashes>>
  BY DEF Transient
<1>5. CASE MayWait(call[c].attempts, d)
  <2> DEFINE w == Waits(Mine(c), FALSE)
  <2>1. /\ w \in Row /\ w.push = Mine(c).push /\ w.attempts = Mine(c).attempts
        /\ w.unknown = Mine(c).unknown /\ w.today = Mine(c).today /\ w.byHand = Mine(c).byHand
        /\ w.st = IF Mine(c).st \in {"flight", "waiting"} THEN "waiting" ELSE Mine(c).st
    BY <1>1, WaitsRow
  <2>2. row' = [row EXCEPT ![call[c].key] = w]
    BY <1>2, <1>5 DEF Write
  <2> HIDE DEF w
  <2>3. Retries \in Nat \ {0} /\ call[c].attempts \in Nat /\ d \in Nat /\ d <= Retries
    BY <1>1, RowInHand DEF Delays, SocialOK
  <2>4. call[c].attempts <= Retries
    BY <1>5, <2>3 DEF MayWait
  <2>5. Answered(c, w)
    <3>1. slow = 0 => w.attempts <= IF w.st = "waiting" THEN Retries ELSE MaxAttempts
      BY <1>1, <2>1, <2>3, <2>4, RowInHand
    <3>2. w.push = row[call[c].key].push /\ (w.st = "waiting" => ~w.unknown)
      BY <1>1, <2>1, RowInHand
    <3>3. w.st \in {"waiting", "POSTED", "FAILED", "SKIPPED"}
      BY <1>1, <2>1, RowInHand DEF Row, Statuses
    <3> QED BY <2>1, <3>1, <3>2, <3>3 DEF Answered
  <2>6. \/ /\ w.st = row[call[c].key].st /\ w.today = row[call[c].key].today
           /\ w.byHand = row[call[c].key].byHand
        \/ w.st # "POSTED"
    BY <1>1, <2>1, RowInHand
  <2>7. stopped' \subseteq Procs /\ UNCHANGED <<net, slow, sent, cut, policy, crashes>>
    BY <1>1, <1>4 DEF TypeOK
  <2> QED BY <1>1, <1>3, <2>1, <2>2, <2>5, <2>6, <2>7, AnswerKeeps
<1>6. CASE ~MayWait(call[c].attempts, d)
  <2>1. Mine(c).unknown \in BOOLEAN
    BY <1>1, FailedAsKnown
  <2>2. row' = [row EXCEPT ![call[c].key] =
                  [Mine(c) EXCEPT !.st = "FAILED", !.due = FALSE, !.unknown = Mine(c).unknown]]
    BY <1>1, <1>2, <1>6, FailedAsKnown DEF Write
  <2> QED BY <1>1, <1>3, <1>4, <2>1, <2>2, FailKeeps
<1> QED BY <1>5, <1>6

-----------------------------------------------------------------------------
(* A caller takes a row                                                    *)

LEMMA TakeKeeps ==
    ASSUME SocialOK, IInv, NEW c \in Callers, NEW k \in Keys, NEW s \in Row, NEW m \in Call,
           row' = [row EXCEPT ![k] = s], call' = [call EXCEPT ![c] = m],
           UNCHANGED <<net, slow, sent, cut, stopped, policy, crashes>>,
           row[k].st # "flight", s.st = "flight", ~s.old, ~s.unknown,
           slow = 0 => s.attempts <= MaxAttempts,
           m.pc = "posting", m.key = k, m.attempts = s.attempts,
           m.from = "press" <=> c \notin Tickers,
           call[c].pc # "idle", m.today = call[c].today, m.early = call[c].early,
           RowsApart'
    PROVE  IInv'
<1>1. /\ TypeOK /\ \A d \in Callers : CallRight(d)
      /\ OpenKnown /\ StoppedEarly /\ RowsApart /\ InTime /\ CapHeld
  BY DEF IInv
<1>2. /\ \A j \in Keys : j # k => row'[j] = row[j]
      /\ \A d \in Callers : d # c => call'[d] = call[d]
      /\ row'[k] = s /\ call'[c] = m
  BY <1>1 DEF TypeOK
<1>3. TypeOK'
  <2>1. row' \in [Keys -> Row]
    BY <1>1 DEF TypeOK
  <2>2. call' \in [Callers -> Call]
    BY <1>1 DEF TypeOK
  <2> QED BY <1>1, <2>1, <2>2 DEF TypeOK
<1>4. ASSUME NEW d \in Callers PROVE CallRight(d)'
  <2>1. Tickers' = Tickers
    BY DEF Tickers
  <2>2. \A j \in Keys : row[j].st # "none" => row'[j].st # "none"
    BY <1>2
  <2>3. CASE d = c
    BY <1>2, <2>1, <2>3 DEF CallRight, At
  <2>4. CASE d # c
    BY <1>1, <1>2, <2>1, <2>2, <2>4 DEF CallRight, At
  <2> QED BY <2>3, <2>4
<1>5. OpenKnown'
  BY <1>1, <1>2 DEF OpenKnown
<1>6. StoppedEarly'
  BY <1>1, <1>2 DEF StoppedEarly
<1>7. InTime'
  <2>1. slow' = slow
    OBVIOUS
  <2> QED BY <1>1, <2>1, TimeTaken
<1>8. CapHeld'
  <2>1. \A j \in Keys : row'[j].st = "POSTED" /\ row'[j].today =>
            row[j].st = "POSTED" /\ row[j].today /\ row'[j].byHand = row[j].byHand
    BY <1>2
  <2>2. \A d \in Tickers : call'[d].pc # "idle" /\ call'[d].today =>
            call[d].pc # "idle" /\ call[d].today
    BY <1>1, <1>2, TickersAreCallers DEF TypeOK
  <2> QED BY <1>1, <2>1, <2>2, CapKeeps
<1> QED BY <1>3, <1>4, <1>5, <1>6, <1>7, <1>8 DEF IInv

\* A row that there is keeps its push when it is taken.
LEMMA TakenApart ==
    ASSUME SocialOK, IInv, NEW c \in Callers, NEW k \in Keys, NEW s \in Row, NEW m \in Call,
           row' = [row EXCEPT ![k] = s], call' = [call EXCEPT ![c] = m],
           sent' = sent, cut' = cut,
           row[k].st # "none", s.st # "none", s.push = row[k].push, ~Creates(m)
    PROVE  RowsApart'
<1>1. TypeOK /\ RowsApart
  BY DEF IInv
<1>2. \A j \in Keys : /\ row'[j].push = row[j].push
                      /\ row'[j].st = "none" <=> row[j].st = "none"
  BY <1>1 DEF TypeOK
<1>3. \A d \in Callers : Creates(call'[d]) => \A j \in call'[d].todo : j \in Keys /\ Eligible(j)
  <2>1. ASSUME NEW d \in Callers, Creates(call'[d]) PROVE call'[d] = call[d]
    BY <1>1, <2>1 DEF TypeOK
  <2> QED BY <1>1, <2>1 DEF RowsApart, TypeOK, Call
<1>4. sent' \in 0 .. Last /\ cut' \in Nat /\ sent <= sent'
  BY <1>1 DEF TypeOK, SocialOK
<1> QED BY <1>1, <1>2, <1>3, <1>4, ApartKeeps

LEMMA ClaimDueKeeps == ASSUME SocialOK, IInv, NEW c \in Tickers, ClaimDue(c) PROVE IInv'
<1>1. TypeOK /\ OpenKnown /\ InTime /\ MaxPerTick \in Nat /\ Retries \in Nat
  BY DEF IInv, SocialOK
<1>2. c \in Callers
  BY <1>1, TickersAreCallers DEF TypeOK
<1>3. call[c].pc = "due" /\ call[c].left > 0 /\ call[c] \in Call
      /\ UNCHANGED <<net, slow, sent, cut, stopped, policy, crashes>>
  BY <1>1, <1>2 DEF ClaimDue, At, TypeOK
<1>4. PICK k \in call[c].todo :
        IF Claimable(k)
        THEN /\ row' = [row EXCEPT ![k].st = "flight", ![k].due = FALSE,
                           ![k].old = FALSE, ![k].attempts = OneMore(k)]
             /\ call' = [call EXCEPT ![c].pc = "posting", ![c].key = k,
                           ![c].attempts = OneMore(k), ![c].from = "due",
                           ![c].todo = @ \ {k}, ![c].left = @ - 1]
        ELSE call' = [call EXCEPT ![c].todo = @ \ {k}] /\ UNCHANGED row
  BY DEF ClaimDue
<1>5. k \in Keys
  BY <1>3 DEF Call
<1>6. CASE ~Claimable(k)
  BY <1>2, <1>3, <1>4, <1>5, <1>6, DropKeeps
<1>7. CASE Claimable(k)
  <2> DEFINE n == OneMore(k)
             s == [row[k] EXCEPT !.st = "flight", !.due = FALSE, !.old = FALSE, !.attempts = n]
             m == [call[c] EXCEPT !.pc = "posting", !.key = k, !.attempts = n, !.from = "due",
                                  !.todo = @ \ {k}, !.left = @ - 1]
  <2>1. row[k] \in Row /\ row[k].st = "waiting" /\ ~row[k].unknown
    BY <1>1, <1>5, <1>7 DEF Claimable, TypeOK, OpenKnown
  <2>2. n \in 0 .. Counted /\ (slow = 0 => n <= MaxAttempts)
    <3>1. row[k].attempts \in Nat /\ Counted \in Nat /\ Counted = Retries + 2
      BY <1>1, <2>1 DEF Row, Counted, MaxAttempts
    <3>2. n = IF row[k].attempts + 1 <= Counted THEN row[k].attempts + 1 ELSE Counted
      BY <3>1, SmallerOfTwo DEF OneMore
    <3>3. slow = 0 => row[k].attempts <= Retries
      BY <1>1, <1>5, <2>1 DEF InTime, Numbered
    <3> QED BY <1>1, <3>1, <3>2, <3>3 DEF MaxAttempts
  <2>3. row' = [row EXCEPT ![k] = s] /\ call' = [call EXCEPT ![c] = m]
    BY <1>1, <1>2, <1>4, <1>5, <1>7 DEF TypeOK
  <2> HIDE DEF n
  <2>4. /\ s \in Row /\ s.st = "flight" /\ ~s.old /\ ~s.unknown /\ s.attempts = n
        /\ s.push = row[k].push
    BY <2>1, <2>2 DEF Row, Statuses
  <2>5. call[c].left - 1 \in 0 .. MaxPerTick
    BY <1>1, <1>3 DEF Call
  <2>6. /\ m \in Call /\ m.pc = "posting" /\ m.key = k /\ m.attempts = n /\ m.from = "due"
        /\ m.today = call[c].today /\ m.early = call[c].early
    BY <1>3, <1>5, <2>2, <2>5 DEF Call
  <2> HIDE DEF s, m
  <2>7. RowsApart'
    BY <1>2, <1>3, <1>5, <2>1, <2>3, <2>4, <2>6, TakenApart DEF Creates
  <2>8. slow = 0 => s.attempts <= MaxAttempts
    BY <2>2, <2>4
  <2> QED BY <1>2, <1>3, <1>5, <2>1, <2>3, <2>4, <2>6, <2>7, <2>8, TakeKeeps
<1> QED BY <1>6, <1>7

\* Retry takes a closed row, whatever it was closed for.
LEMMA ClaimRetryKeeps == ASSUME SocialOK, IInv, NEW d \in Desks, ClaimRetry(d) PROVE IInv'
<1>1. TypeOK /\ Retries \in Nat
  BY DEF IInv, SocialOK
<1>2. d \in Callers /\ d \notin Tickers
  BY <1>1, TickersAreCallers DEF TypeOK
<1>3. /\ call[d].pc = "press" /\ call[d] \in Call /\ CallRight(d)
      /\ UNCHANGED <<net, slow, sent, cut, stopped, policy, crashes>>
  BY <1>1, <1>2 DEF ClaimRetry, At, TypeOK, IInv
<1> DEFINE k == call[d].key
<1>4. k \in Keys
  BY <1>3 DEF CallRight, At
<1>5. CASE ~Retriable(k)
  <2>1. call' = [call EXCEPT ![d] = Idle] /\ UNCHANGED row
    BY <1>5 DEF ClaimRetry, Ends
  <2> QED BY <1>2, <1>3, <2>1, PressDropKeeps
<1>6. CASE Retriable(k)
  <2> DEFINE s == [row[k] EXCEPT !.st = "flight", !.due = FALSE, !.old = FALSE,
                                 !.attempts = 1, !.unknown = FALSE]
             m == [call[d] EXCEPT !.pc = "posting", !.attempts = 1, !.from = "press"]
  <2>1. row[k] \in Row /\ row[k].st = "FAILED"
    BY <1>1, <1>4, <1>6 DEF Retriable, TypeOK
  <2>2. 1 \in 0 .. Counted /\ 1 <= MaxAttempts
    BY <1>1 DEF Counted, MaxAttempts
  <2>3. row' = [row EXCEPT ![k] = s] /\ call' = [call EXCEPT ![d] = m]
    BY <1>1, <1>2, <1>4, <1>6 DEF ClaimRetry, Write, Mine, TypeOK
  <2>4. /\ s \in Row /\ s.st = "flight" /\ ~s.old /\ ~s.unknown /\ s.attempts = 1
        /\ s.push = row[k].push
    BY <2>1, <2>2 DEF Row, Statuses
  <2>5. /\ m \in Call /\ m.pc = "posting" /\ m.key = k /\ m.attempts = 1 /\ m.from = "press"
        /\ m.today = call[d].today /\ m.early = call[d].early
    BY <1>3, <1>4, <2>2 DEF Call
  <2> HIDE DEF s, m
  <2>6. RowsApart'
    BY <1>2, <1>3, <1>4, <2>1, <2>3, <2>4, <2>5, TakenApart DEF Creates
  <2>7. slow = 0 => s.attempts <= MaxAttempts
    BY <2>2, <2>4
  <2> QED BY <1>2, <1>3, <1>4, <2>1, <2>3, <2>4, <2>5, <2>6, <2>7, TakeKeeps
<1> QED BY <1>5, <1>6

\* A row that is made is of a push no other row is of.
LEMMA BornApart ==
    ASSUME SocialOK, TypeOK, RowsApart, NEW k \in Keys, Eligible(k), NEW s \in Row,
           row[k].st = "none", s.st = "flight", s.push = PushOf(k),
           row' = [row EXCEPT ![k] = s], sent' = sent, cut' = cut,
           \A d \in Callers : Creates(call'[d]) => \A j \in call'[d].todo : j \in Keys /\ Eligible(j)
    PROVE  RowsApart'
<1>1. /\ sent \in Nat /\ cut \in Nat /\ sent <= Last /\ Pushes = 1 .. Last /\ Last \in Nat
      /\ cut >= 1
  BY DEF TypeOK, SocialOK
<1>2. row'[k] = s /\ \A j \in Keys : j # k => row'[j] = row[j]
  BY DEF TypeOK
<1>3. \A p \in 1 .. sent : <<"push", p>> \in Keys
  BY <1>1 DEF Keys
<1>4. \A p \in 1 .. sent : p < cut => <<"push", p>> # k
  BY <1>1 DEF Eligible
<1>5. RowApart(k)'
  <2>1. CASE k[1] = "push"
    <3>1. s.push = k[2] /\ k[2] \in cut .. sent
      BY <2>1 DEF PushOf, Eligible
    <3> QED BY <1>1, <1>2, <2>1, <3>1 DEF RowApart
  <2>2. CASE k[1] = "article"
    <3>1. PICK a \in Articles : k = <<"article", a>>
      BY <2>2 DEF Keys
    <3>2. PICK p \in PushesOf(a) : p < cut
      BY <2>2, <3>1 DEF Eligible
    <3>3. s.push \in PushesOf(a) /\ s.push <= p
      BY <1>1, <3>1, <3>2, OldestPush
    <3>4. s.push \in 1 .. sent /\ ArticleOf[s.push] = a /\ s.push < cut
      BY <1>1, <3>2, <3>3 DEF PushesOf
    <3>5. row[<<"push", s.push>>].st = "none"
      BY <2>2, <3>1, <3>3, <3>4 DEF Eligible
    <3>6. row'[<<"push", s.push>>].st = "none"
      BY <1>2, <1>3, <1>4, <3>4, <3>5
    <3> QED BY <1>2, <2>2, <3>1, <3>4, <3>6 DEF RowApart
  <2> QED BY <2>1, <2>2 DEF Keys
<1>6. ASSUME NEW j \in Keys, j # k PROVE RowApart(j)'
  <2>1. RowApart(j) /\ row'[j] = row[j]
    BY <1>2, <1>6 DEF RowsApart
  <2>2. CASE row[j].st = "none"
    BY <2>1, <2>2 DEF RowApart
  <2>3. CASE row[j].st # "none"
    <3>1. row[j].push \in 1 .. sent
      BY <2>1, <2>3 DEF RowApart
    <3>2. j[1] = "article" => row'[<<"push", row[j].push>>].st = "none"
      BY <1>2, <1>3, <1>4, <2>1, <2>3, <3>1 DEF RowApart
    <3> QED BY <2>1, <2>3, <3>1, <3>2 DEF RowApart
  <2> QED BY <2>2, <2>3
<1>7. ASSUME NEW d \in Callers, Creates(call'[d]), NEW j \in call'[d].todo PROVE Eligible(j)'
  <2>1. j \in Keys /\ Eligible(j)
    BY <1>7
  <2>2. PushesOf(j[2])' = PushesOf(j[2])
    BY DEF PushesOf
  <2>3. CASE j[1] = "push"
    BY <2>1, <2>3 DEF Eligible
  <2>4. CASE j[1] = "article"
    <3>1. ASSUME NEW p \in PushesOf(j[2]), p < cut PROVE row'[<<"push", p>>].st = "none"
      <4>1. p \in 1 .. sent /\ row[<<"push", p>>].st = "none"
        BY <2>1, <2>4, <3>1 DEF Eligible, PushesOf
      <4> QED BY <1>2, <1>3, <1>4, <3>1, <4>1
    <3> QED BY <2>1, <2>2, <2>4, <3>1 DEF Eligible
  <2> QED BY <2>1, <2>3, <2>4 DEF Keys
<1> QED BY <1>5, <1>6, <1>7 DEF RowsApart

LEMMA CreateKeeps == ASSUME SocialOK, IInv, NEW c \in Tickers, Create(c) PROVE IInv'
<1>1. TypeOK /\ RowsApart /\ MaxPerTick \in Nat /\ Retries \in Nat
  BY DEF IInv, SocialOK
<1>2. c \in Callers
  BY <1>1, TickersAreCallers DEF TypeOK
<1>3. /\ call[c].pc = "create" /\ call[c] \in Call /\ CallRight(c)
      /\ UNCHANGED <<net, slow, sent, cut, stopped, policy, crashes>>
  BY <1>1, <1>2 DEF Create, At, TypeOK, IInv
<1>4. PICK k \in call[c].todo :
        IF row[k].st = "none"
        THEN /\ row' = [row EXCEPT ![k] = [NoRow EXCEPT !.st = "flight",
                          !.push = PushOf(k), !.attempts = 1]]
             /\ call' = [call EXCEPT ![c].pc = "posting", ![c].key = k,
                          ![c].attempts = 1, ![c].from = "create",
                          ![c].todo = @ \ {k}, ![c].left = @ - 1]
        ELSE call' = [call EXCEPT ![c].todo = @ \ {k}] /\ UNCHANGED row
  BY DEF Create
<1>5. k \in Keys /\ Eligible(k)
  BY <1>1, <1>2, <1>3 DEF Call, RowsApart, Creates
<1>6. CASE row[k].st # "none"
  BY <1>2, <1>3, <1>4, <1>5, <1>6, DropKeeps
<1>7. CASE row[k].st = "none"
  <2> DEFINE s == [NoRow EXCEPT !.st = "flight", !.push = PushOf(k), !.attempts = 1]
             m == [call[c] EXCEPT !.pc = "posting", !.key = k, !.attempts = 1, !.from = "create",
                                  !.todo = @ \ {k}, !.left = @ - 1]
  <2>1. PushOf(k) \in Pushes
    <3>1. CASE k[1] = "push"
      BY <1>5, <3>1 DEF PushOf, Keys
    <3>2. CASE k[1] = "article"
      <4>1. PICK a \in Articles : k = <<"article", a>>
        BY <1>5, <3>2 DEF Keys
      <4>2. PushesOf(a) # {} /\ sent \in Nat
        BY <1>1, <1>5, <3>2, <4>1 DEF Eligible, TypeOK
      <4>3. PushOf(k) \in PushesOf(a)
        BY <4>1, <4>2, OldestPush
      <4> QED BY <1>1, <4>3 DEF PushesOf, TypeOK, SocialOK
    <3> QED BY <1>5, <3>1, <3>2 DEF Keys
  <2>2. 1 \in 0 .. Counted /\ 1 <= MaxAttempts
    BY <1>1 DEF Counted, MaxAttempts
  <2>3. row' = [row EXCEPT ![k] = s] /\ call' = [call EXCEPT ![c] = m]
    BY <1>1, <1>2, <1>4, <1>7 DEF TypeOK
  <2>4. /\ s \in Row /\ s.st = "flight" /\ ~s.old /\ ~s.unknown /\ s.attempts = 1
        /\ s.push = PushOf(k)
    BY <2>1, <2>2 DEF NoRow, Row, Statuses
  <2>5. call[c].left - 1 \in 0 .. MaxPerTick
    BY <1>1, <1>3 DEF Call, CallRight, At
  <2>6. /\ m \in Call /\ m.pc = "posting" /\ m.key = k /\ m.attempts = 1 /\ m.from = "create"
        /\ m.today = call[c].today /\ m.early = call[c].early /\ m.todo \subseteq call[c].todo
    BY <1>3, <1>5, <2>2, <2>5 DEF Call
  <2> HIDE DEF s, m
  <2>7. \A d \in Callers : Creates(call'[d]) => \A j \in call'[d].todo : j \in Keys /\ Eligible(j)
    <3>1. ASSUME NEW d \in Callers, Creates(call'[d])
          PROVE  Creates(call[d]) /\ call'[d].todo \subseteq call[d].todo
      BY <1>1, <1>3, <2>3, <2>6, <3>1 DEF TypeOK, Creates
    <3>2. \A d \in Callers : call[d].todo \subseteq Keys
      BY <1>1 DEF TypeOK, Call
    <3> QED BY <1>1, <3>1, <3>2 DEF RowsApart
  <2>8. RowsApart'
    BY <1>1, <1>3, <1>5, <1>7, <2>3, <2>4, <2>7, BornApart
  <2>9. slow = 0 => s.attempts <= MaxAttempts
    BY <2>2, <2>4
  <2> QED BY <1>2, <1>3, <1>5, <1>7, <2>3, <2>4, <2>6, <2>8, <2>9, TakeKeeps
<1> QED BY <1>6, <1>7

-----------------------------------------------------------------------------
(* The invariant holds                                                     *)

LEMMA InitHolds == ASSUME SocialOK, Init PROVE IInv
<1>1. /\ net \in Networks /\ slow = 0 /\ sent = 0 /\ cut = Rule[net]
      /\ row = [k \in Keys |-> NoRow] /\ call = [c \in Callers |-> Idle]
      /\ stopped = {} /\ policy = FALSE /\ crashes = 0
  BY DEF Init
<1>2. NoRow \in Row /\ NoRow.st = "none" /\ NoRow.push = None /\ ~NoRow.unknown /\ NoRow.attempts = 0
  BY DEF NoRow, Row, Statuses, SocialOK, Counted, MaxAttempts
<1>3. Idle \in Call /\ Idle.pc = "idle" /\ ~Creates(Idle)
  BY IdleIsCall
<1>4. cut \in 1 .. Last + 1 /\ MaxSlow \in Nat /\ MaxCrashes \in Nat /\ Last \in Nat
      /\ Retries \in Nat /\ DailyCap \in Nat \ {0}
  BY <1>1 DEF SocialOK
<1>5. TypeOK
  <2>1. row \in [Keys -> Row] /\ call \in [Callers -> Call]
    BY <1>1, <1>2, <1>3
  <2>2. slow \in 0 .. MaxSlow /\ sent \in 0 .. Last /\ crashes \in 0 .. MaxCrashes
    BY <1>1, <1>4
  <2> QED BY <1>1, <1>4, <2>1, <2>2 DEF TypeOK
<1>6. \A c \in Callers : CallRight(c) /\ InHand(c)
  BY <1>1, <1>3 DEF CallRight, InHand, At
<1>7. OpenKnown /\ StoppedEarly
  BY <1>1, <1>2 DEF OpenKnown, StoppedEarly
<1>8. RowsApart
  BY <1>1, <1>2, <1>3 DEF RowsApart, RowApart
<1>9. InTime
  BY <1>1, <1>2, <1>4, <1>6 DEF InTime, Numbered, MaxAttempts
<1>10. CapHeld
  <2>1. PostedToday = {} /\ ByTick = {}
    BY <1>1, <1>2 DEF PostedToday, ByTick
  <2>2. Tickers \subseteq Callers /\ IsFiniteSet(Tickers)
    BY <1>1, TickersAreCallers
  <2>3. UnderWay = {}
    BY <1>1, <1>3, <2>2 DEF UnderWay
  <2>4. Cardinality({}) = 0 /\ IsFiniteSet({}) /\ Cardinality(Tickers) \in Nat
    BY <2>2, FS_EmptySet, FS_CardinalityType
  <2> QED BY <1>4, <2>1, <2>3, <2>4 DEF CapHeld
<1> QED BY <1>5, <1>6, <1>7, <1>8, <1>9, <1>10 DEF IInv

LEMMA NextKeeps == ASSUME SocialOK, IInv, [Next]_vars PROVE IInv'
<1>1. CASE UNCHANGED vars
  BY <1>1, StutterKeeps
<1>2. net \in Networks /\ Tickers \subseteq Callers /\ Desks \subseteq Callers
  BY TickersAreCallers DEF IInv, TypeOK
<1>3. ASSUME NEW c \in Tickers, Tick(c) \/ TickStep(c) PROVE IInv'
  BY <1>2, <1>3, TickKeeps, ClaimDueKeeps, ReadNewKeeps, CreateKeeps, TickEndsKeeps DEF TickStep
<1>4. ASSUME NEW c \in Callers, Answer(c) PROVE IInv'
  BY <1>4, PostedKeeps, AuthStopKeeps, TransientKeeps, RefusedKeeps, BlockedKeeps,
     PolicyStopKeeps DEF Answer
<1>5. ASSUME NEW d \in Desks, ClaimRetry(d) \/ \E k \in Keys : Press(d, k) PROVE IInv'
  BY <1>5, ClaimRetryKeeps, PressKeeps
<1>6. ASSUME NEW k \in Keys, SkipPost(k) \/ RowAges(k) \/ DueComes(k) PROVE IInv'
  BY <1>6, SkipPostKeeps, RowAgesKeeps, DueComesKeeps
<1>7. ASSUME ResumePolicy \/ PushSent \/ NewToken \/ Midnight \/ Redeploy PROVE IInv'
  BY <1>7, ResumePolicyKeeps, PushSentKeeps, NewTokenKeeps, MidnightKeeps, RedeployKeeps
<1>8. ASSUME NEW p \in Procs, Crash(p) PROVE IInv'
  BY <1>8, CrashKeeps
<1> QED BY <1>1, <1>3, <1>4, <1>5, <1>6, <1>7, <1>8 DEF Next

-----------------------------------------------------------------------------
(* The theorems                                                            *)

\* What the workers' rows and calls satisfy at every moment: see IInv.
THEOREM Invariance == ASSUME SocialOK PROVE Spec => []IInv
<1>1. Init => IInv
  BY InitHolds
<1>2. IInv /\ [Next]_vars => IInv'
  BY NextKeeps
<1> QED BY <1>1, <1>2, PTL DEF Spec

\* Every row and every call holds values of its kind.
THEOREM TypeCorrect == ASSUME SocialOK PROVE Spec => []TypeOK
<1>1. IInv => TypeOK
  BY DEF IInv
<1> QED BY <1>1, Invariance, PTL

\* A post begins with one of three claims, of a row that nobody is posting.
LEMMA BeginsHow ==
    ASSUME SocialOK, IInv, Next, NEW c \in Callers, NEW k \in Keys, Begins(c, k)
    PROVE  \/ c \in Tickers /\ row[k].st \in {"none", "waiting"} /\ call[c].pc # "idle"
           \/ c \in Desks /\ c \notin Tickers /\ call[c].pc # "idle"
<1>1. TypeOK /\ net \in Networks /\ call[c].pc # "posting" /\ call'[c].pc = "posting" /\ call'[c].key = k
  BY DEF IInv, TypeOK, Begins
<1>2. /\ Tickers \subseteq Callers /\ Desks \subseteq Callers /\ \A d \in Desks : d \notin Tickers
  BY <1>1, TickersAreCallers
<1>3. ASSUME NEW d \in Tickers, Tick(d) \/ TickStep(d)
      PROVE  c = d /\ row[k].st \in {"none", "waiting"} /\ call[c].pc # "idle"
  <2>1. call[d] \in Call /\ d \in Callers
    BY <1>1, <1>2 DEF TypeOK
  <2>2. CASE ClaimDue(d)
    <3>1. \A e \in Callers : e # d => call'[e] = call[e]
      BY <1>1, <2>2 DEF ClaimDue, TypeOK
    <3>2. c = d
      BY <1>1, <3>1
    <3>3. PICK j \in call[d].todo :
            IF Claimable(j)
            THEN /\ row' = [row EXCEPT ![j].st = "flight", ![j].due = FALSE,
                               ![j].old = FALSE, ![j].attempts = OneMore(j)]
                 /\ call' = [call EXCEPT ![d].pc = "posting", ![d].key = j,
                               ![d].attempts = OneMore(j), ![d].from = "due",
                               ![d].todo = @ \ {j}, ![d].left = @ - 1]
            ELSE call' = [call EXCEPT ![d].todo = @ \ {j}] /\ UNCHANGED row
      BY <2>2 DEF ClaimDue
    <3>4. Claimable(j)
      BY <1>1, <2>1, <3>2, <3>3 DEF TypeOK, Call
    <3>5. call'[d].key = j
      BY <1>1, <2>1, <3>3, <3>4 DEF TypeOK, Call
    <3> QED BY <1>1, <2>2, <3>2, <3>4, <3>5 DEF Claimable, ClaimDue, At
  <2>3. CASE Create(d)
    <3>1. \A e \in Callers : e # d => call'[e] = call[e]
      BY <1>1, <2>3 DEF Create, TypeOK
    <3>2. c = d
      BY <1>1, <3>1
    <3>3. PICK j \in call[d].todo :
            IF row[j].st = "none"
            THEN call' = [call EXCEPT ![d].pc = "posting", ![d].key = j,
                            ![d].attempts = 1, ![d].from = "create",
                            ![d].todo = @ \ {j}, ![d].left = @ - 1]
            ELSE call' = [call EXCEPT ![d].todo = @ \ {j}]
      BY <2>3 DEF Create
    <3>4. row[j].st = "none"
      BY <1>1, <2>1, <3>2, <3>3 DEF TypeOK, Call
    <3>5. call'[d].key = j
      BY <1>1, <2>1, <3>3, <3>4 DEF TypeOK, Call
    <3> QED BY <1>1, <2>3, <3>2, <3>4, <3>5 DEF Create, At
  <2>4. CASE Tick(d)
    <3>1. \A e \in Callers : call'[e].pc = call[e].pc \/ call'[e].pc = "due"
      BY <1>1, <2>4, IdleIsCall DEF Tick, TypeOK, Call
    <3> QED BY <1>1, <3>1
  <2>5. CASE ReadNew(d) \/ TickEnds(d)
    <3>1. \A e \in Callers : call'[e].pc = call[e].pc \/ call'[e].pc \in {"create", "idle"}
      BY <1>1, <2>5, IdleIsCall DEF ReadNew, TickEnds, TypeOK, Call
    <3> QED BY <1>1, <3>1
  <2> QED BY <1>3, <2>2, <2>3, <2>4, <2>5 DEF TickStep
<1>4. ASSUME NEW d \in Callers, Answer(d) PROVE FALSE
  <2>1. CASE PolicyStop(d)
    <3>1. \A e \in Callers : call'[e].pc = call[e].pc \/ call'[e].pc = "idle"
      BY <1>1, <2>1, IdleIsCall DEF PolicyStop, TypeOK, Call
    <3> QED BY <1>1, <3>1
  <2>2. CASE ~PolicyStop(d)
    <3>1. At(d, "posting")
      BY <1>4, <2>2 DEF Answer, Posted, AuthStop, Transient, Refused, Blocked
    <3>2. \A e \in Callers : e # d => call'[e] = call[e]
      BY <1>1, <1>4, <2>2 DEF Answer, Posted, AuthStop, Transient, Refused, Blocked, Goes, Ends, TypeOK
    <3> QED BY <1>1, <3>1, <3>2 DEF At
  <2> QED BY <2>1, <2>2
<1>5. ASSUME NEW d \in Desks, ClaimRetry(d) PROVE c = d /\ call[c].pc # "idle"
  <2>1. \A e \in Callers : e # d => call'[e] = call[e]
    BY <1>1, <1>5 DEF ClaimRetry, Ends, TypeOK
  <2> QED BY <1>1, <1>5, <2>1 DEF ClaimRetry, At
<1>6. ASSUME NEW d \in Desks, NEW j \in Keys, Press(d, j) PROVE FALSE
  <2>1. \A e \in Callers : call'[e].pc = call[e].pc \/ call'[e].pc = "press"
    BY <1>1, <1>6, IdleIsCall DEF Press, TypeOK, Call
  <2> QED BY <1>1, <2>1
<1>7. ASSUME NEW j \in Keys, SkipPost(j) \/ RowAges(j) \/ DueComes(j) PROVE FALSE
  <2>1. \A e \in Callers : call'[e].pc = call[e].pc
    BY <1>1, <1>7 DEF SkipPost, RowAges, DueComes, TypeOK, Call
  <2> QED BY <1>1, <2>1
<1>8. ASSUME ResumePolicy \/ PushSent \/ NewToken \/ Midnight \/ Redeploy PROVE FALSE
  <2>1. \A e \in Callers : call'[e].pc = call[e].pc \/ call'[e].pc = "idle"
    BY <1>1, <1>8, IdleIsCall DEF ResumePolicy, PushSent, NewToken, Midnight, Redeploy, TypeOK, Call
  <2> QED BY <1>1, <2>1
<1>9. ASSUME NEW p \in Procs, Crash(p) PROVE FALSE
  <2>1. \A e \in Callers : call'[e].pc = call[e].pc \/ call'[e].pc = "idle"
    BY <1>1, <1>9, IdleIsCall DEF Crash, TypeOK, Call
  <2> QED BY <1>1, <2>1
<1> QED BY <1>2, <1>3, <1>4, <1>5, <1>6, <1>7, <1>8, <1>9 DEF Next

\* A row that was closed without an answer is never posted again by a tick, whatever
\* the late answer of the slow attempt writes.
THEOREM UnknownStays == ASSUME SocialOK PROVE Spec => UnknownNeverReposted
<1>1. IInv /\ [Next]_vars => [UnknownStep]_vars
  <2> SUFFICES ASSUME IInv, Next, NEW c \in Tickers, NEW k \in Keys, Begins(c, k)
               PROVE  ~row[k].unknown
    BY DEF UnknownStep
  <2>1. c \in Callers
    BY TickersAreCallers DEF IInv, TypeOK
  <2>2. row[k].st \in {"none", "waiting"}
    BY <2>1, BeginsHow
  <2> QED BY <2>2 DEF IInv, OpenKnown
<1> QED BY <1>1, Invariance, PTL DEF Spec, UnknownNeverReposted

\* After a policy block only calls that were under way when it was written begin a post,
\* until an admin resumes.
THEOREM StopIsKept == ASSUME SocialOK PROVE Spec => StopHolds
<1>1. IInv /\ [Next]_vars => [StopStep]_vars
  <2> SUFFICES ASSUME IInv, Next, NEW c \in Callers, NEW k \in Keys, Begins(c, k), policy
               PROVE  call[c].early
    BY DEF StopStep
  <2>1. call[c].pc # "idle"
    BY BeginsHow
  <2> QED BY <2>1 DEF IInv, StoppedEarly
<1> QED BY <1>1, Invariance, PTL DEF Spec, StopHolds

\* While attempts end within 10 minutes no row is posted by two callers at once.
THEOREM OneCall == ASSUME SocialOK PROVE Spec => []OneCallPerRow
<1>1. IInv => OneCallPerRow
  <2> SUFFICES ASSUME IInv, slow = 0, NEW k \in Keys PROVE Cardinality(Posting(k)) <= 1
    BY DEF OneCallPerRow
  <2>1. \A c, d \in Posting(k) : c = d
    BY DEF IInv, InTime, InHand, Posting
  <2>2. CASE Posting(k) = {}
    <3>1. Cardinality({}) = 0
      BY FS_EmptySet
    <3> QED BY <2>2, <3>1
  <2>3. CASE Posting(k) # {}
    <3>1. PICK c : c \in Posting(k)
      BY <2>3
    <3>2. Posting(k) = {c}
      BY <2>1, <3>1
    <3>3. Cardinality({c}) = 1
      BY FS_Singleton
    <3> QED BY <3>2, <3>3
  <2> QED BY <2>2, <2>3
<1> QED BY <1>1, Invariance, PTL

\* ... and a post on record stays on record: no Retry, no second tick takes it back.
THEOREM PostedStays == ASSUME SocialOK PROVE Spec => PostedIsFinal
<1>1. IInv /\ [Next]_vars => [PostedStep]_vars
  <2> SUFFICES ASSUME IInv, Next, slow = 0, NEW k \in Keys, row[k].st = "POSTED"
               PROVE  row'[k].st = "POSTED"
    BY DEF PostedStep
  <2>1. TypeOK /\ InTime /\ Tickers \subseteq Callers /\ Desks \subseteq Callers
    BY TickersAreCallers DEF IInv, TypeOK
  <2>2. row \in [Keys -> Row]
    BY <2>1 DEF TypeOK
  <2>3. ASSUME NEW c \in Tickers, Tick(c) \/ TickStep(c) PROVE row'[k].st = "POSTED"
    <3>1. CASE Tick(c)
      BY <3>1 DEF Tick, Swept, Stale
    <3>2. CASE ClaimDue(c)
      BY <2>2, <3>2 DEF ClaimDue, Claimable
    <3>3. CASE Create(c)
      BY <2>2, <3>3 DEF Create
    <3>4. CASE ReadNew(c) \/ TickEnds(c)
      BY <3>4 DEF ReadNew, TickEnds
    <3> QED BY <2>3, <3>1, <3>2, <3>3, <3>4 DEF TickStep
  <2>4. ASSUME NEW c \in Callers, Answer(c) PROVE row'[k].st = "POSTED"
    <3>1. CASE PolicyStop(c)
      BY <3>1 DEF PolicyStop
    <3>2. CASE ~PolicyStop(c)
      <4>1. At(c, "posting")
        BY <2>4, <3>2 DEF Answer, Posted, AuthStop, Transient, Refused, Blocked
      <4>2. row[call[c].key].st = "flight"
        BY <2>1, <4>1 DEF InTime, InHand
      <4>3. \E s : row' = [row EXCEPT ![call[c].key] = s]
        BY <2>4, <3>2 DEF Answer, Posted, AuthStop, Transient, Refused, Blocked, Write
      <4> QED BY <2>2, <4>2, <4>3
    <3> QED BY <3>1, <3>2
  <2>5. ASSUME NEW d \in Desks, ClaimRetry(d) \/ \E j \in Keys : Press(d, j)
        PROVE  row'[k].st = "POSTED"
    BY <2>2, <2>5 DEF ClaimRetry, Press, Retriable, Write
  <2>6. ASSUME NEW j \in Keys, SkipPost(j) \/ RowAges(j) \/ DueComes(j)
        PROVE  row'[k].st = "POSTED"
    BY <2>2, <2>6 DEF SkipPost, RowAges, DueComes, Row
  <2>7. ASSUME ResumePolicy \/ PushSent \/ NewToken \/ Midnight \/ Redeploy
        PROVE  row'[k].st = "POSTED"
    BY <2>2, <2>7 DEF ResumePolicy, PushSent, NewToken, Midnight, Redeploy, Row
  <2>8. ASSUME NEW p \in Procs, Crash(p) PROVE row'[k].st = "POSTED"
    BY <2>8 DEF Crash
  <2> QED BY <2>3, <2>4, <2>5, <2>6, <2>7, <2>8 DEF Next
<1> QED BY <1>1, Invariance, PTL DEF Spec, PostedIsFinal

\* A push has one row on the page, whichever rule made it and however often the rule
\* was switched.
THEOREM OneRow == ASSUME SocialOK PROVE Spec => []OneRowPerPush
<1>1. IInv => OneRowPerPush
  <2> SUFFICES ASSUME IInv, NEW j \in Keys, NEW k \in Keys,
                      row[j].st # "none", row[j].push = row[k].push
               PROVE  j = k
    BY DEF OneRowPerPush
  <2>1. RowApart(j) /\ RowApart(k) /\ sent \in 0 .. Last /\ Last \in Nat /\ Pushes = 1 .. Last
    BY DEF IInv, RowsApart, TypeOK, SocialOK
  <2>2. row[j].push \in 1 .. sent /\ row[j].push \in Pushes /\ None \notin Pushes
    BY <2>1 DEF RowApart, SocialOK
  <2>3. row[k].st # "none"
    BY <2>1, <2>2 DEF RowApart
  <2>4. ASSUME NEW l \in Keys, RowApart(l), row[l].st # "none"
        PROVE  \/ l = <<"push", row[l].push>>
               \/ /\ l = <<"article", ArticleOf[row[l].push]>>
                  /\ row[<<"push", row[l].push>>].st = "none"
    BY <2>4 DEF RowApart, Keys
  <2> QED BY <2>1, <2>3, <2>4
<1> QED BY <1>1, Invariance, PTL

\* Between two presses of Retry a row gets no more attempts than it has delays, and one.
THEOREM AttemptsAreBounded == ASSUME SocialOK PROVE Spec => []AttemptsBounded
<1>1. IInv => AttemptsBounded
  <2> SUFFICES ASSUME IInv, slow = 0, NEW k \in Keys PROVE row[k].attempts <= MaxAttempts
    BY DEF AttemptsBounded
  <2>1. Numbered(k) /\ row[k].attempts \in Nat /\ Retries \in Nat
    BY DEF IInv, InTime, TypeOK, Row, Counted, MaxAttempts, SocialOK
  <2> QED BY <2>1 DEF Numbered, MaxAttempts
<1> QED BY <1>1, Invariance, PTL

\* Ticks pass the day's cap by at most one post for each container beyond the first.
THEOREM CapIsKept == ASSUME SocialOK PROVE Spec => []WithinDailyCap
<1>1. IInv => WithinDailyCap
  <2> SUFFICES ASSUME IInv, net = "facebook"
               PROVE  Cardinality(ByTick) < DailyCap + Cardinality(Tickers)
    BY DEF WithinDailyCap, ByTick
  <2>1. IsFiniteSet(Tickers) /\ IsFiniteSet(PostedToday)
        /\ Cardinality(ByTick) + Cardinality(UnderWay) < DailyCap + Cardinality(Tickers)
    BY TickersAreCallers DEF IInv, TypeOK, CapHeld
  <2>2. ByTick \subseteq PostedToday /\ UnderWay \subseteq Tickers
    BY DEF ByTick, UnderWay
  <2>3. IsFiniteSet(ByTick) /\ IsFiniteSet(UnderWay)
    BY <2>1, <2>2, FS_Subset
  <2>4. /\ Cardinality(ByTick) \in Nat /\ Cardinality(UnderWay) \in Nat
        /\ Cardinality(Tickers) \in Nat /\ DailyCap \in Nat
    BY <2>1, <2>3, FS_CardinalityType DEF SocialOK
  <2> QED BY <2>1, <2>4
<1> QED BY <1>1, Invariance, PTL

\* LinkedIn, Facebook: a push has one post; no row is posted by two callers at once, or more often than its delays
\* allow, while attempts end in time; and the ticks keep the daily cap.
THEOREM PostsAreBounded == ASSUME SocialOK PROVE Spec => []PostsBounded
  BY OneCall, OneRow, AttemptsAreBounded, CapIsKept, PTL DEF PostsBounded

\* LinkedIn, Facebook: what was closed without an answer or posted in time is not posted again, and a policy block
\* holds all but the calls that were past their check.
THEOREM PostsStayFinal == ASSUME SocialOK PROVE Spec => PostsFinal
  BY UnknownStays, PostedStays, StopIsKept, PTL
     DEF PostsFinal, FinalStep, UnknownNeverReposted, PostedIsFinal, StopHolds
=============================================================================
