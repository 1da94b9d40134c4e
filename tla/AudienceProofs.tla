---------------------------- MODULE AudienceProofs ----------------------------
(***************************************************************************)
(* The CMS audience: whatever order events, list rows, opt-outs, restarts  *)
(* and reviews come in, no account goes back, no pull passes over a        *)
(* change, only hidden accounts count as gone, every member row follows    *)
(* its accounts, and an opt-out stands until a later opt-in. For any       *)
(* number of accounts, addresses, versions, pages, pulls and faults.       *)
(***************************************************************************)
EXTENDS AudienceSync, FiniteSetTheorems, TLAPS

-----------------------------------------------------------------------------
(* The inductive invariant                                                 *)

Breakers == {"none", "first_load", "truncated_load", "change_too_large", "erasure_cap"}

\* A pull in progress: its fields, and the pages it has read.
RunOK ==
    run # NoRun =>
      /\ run = [mode |-> run.mode, page |-> run.page, got |-> run.got, fetched |-> run.fetched, seen |-> run.seen,
                asOf |-> run.asOf, since |-> run.since, bad |-> run.bad, count |-> run.count, roles |-> run.roles,
                opened |-> run.opened]
      /\ run.mode \in {"full", "incr"} /\ run.page \in 1 .. Len(Pages) + 1
      /\ run.fetched \in BOOLEAN /\ run.bad \in BOOLEAN
      /\ run.fetched => run.page <= Len(Pages)
      /\ ~run.fetched => run.got = {}
      /\ run.asOf # None => run.asOf \in 0 .. clock
      /\ run.since = IF run.mode = "incr" THEN mark - 1 ELSE 0
      /\ \A x \in run.got : /\ x[1] \in Accounts /\ x[2] \in 1 .. Len(versions[x[1]])
                            /\ x = <<x[1], x[2]>> /\ x[1] \in run.seen

Typed ==
    /\ clock \in Nat /\ mark \in 0 .. clock /\ lifts \in 0 .. MaxLifts
    /\ faults \in 0 .. MaxFaults /\ runs \in 0 .. MaxRuns /\ breaker \in Breakers
    /\ hidden \subseteq Accounts /\ touched \subseteq Accounts
    /\ versions \in [Accounts -> Seq(Snap)] /\ receipts \subseteq Accounts \X Nat
    /\ acct \in [Accounts -> Account \cup {None}] /\ supp \subseteq OptedOut
    /\ member \in [Addresses -> Member \cup {None}]
    /\ left \in [Addresses -> Nat] /\ lifted \in [Addresses -> Nat]
    /\ RunOK

\* The versions of an account are numbered and dated; its row is one of them.
Dated ==
    \A a \in Accounts :
      /\ \A n \in 1 .. Len(versions[a]) :
           LET v == versions[a][n] IN
           /\ v.seq = n /\ v.stamp \in 1 .. clock /\ v.at <= clock
           /\ v.deleted = (v.status = "deleted") /\ (v.addr = None => Withheld(v))
      /\ acct[a] # None => acct[a].seq \in 1 .. Len(versions[a])

\* The program has what is new of an account.
Stored(a) == acct[a] # None /\ (acct[a].erased \/ acct[a].seq = Len(versions[a]))

\* What a pull has read so far, as long as nothing failed, is stored or in its hands; and
\* an account it has not seen on a page it read was not there, or moved since.
Covered(p) == p < run.page \/ (p = run.page /\ run.fetched)
Reads ==
    run # NoRun /\ ~run.bad =>
      \A p \in DOMAIN Pages : Covered(p) =>
        /\ run.asOf # None
        /\ \A a \in Pages[p] \ hidden :
             LET n == Len(versions[a]) IN
             /\ n > 0 /\ versions[a][n].stamp <= run.asOf => Stored(a) \/ <<a, n>> \in run.got
             /\ run.mode = "full" => a \in run.seen \/ acct[a] = None \/ a \in touched

\* An address has one opt-out, of the moment it last opted out.
OptedOutOnce ==
    /\ \A r \in supp : r.addr # None => r.reason \in Liftable /\ r.seen = left[r.addr]
    /\ \A r, q \in supp : r.addr # None /\ r.addr = q.addr => r = q
    /\ \A e \in Addresses : left[e] <= clock /\ lifted[e] <= clock

IInv ==
    /\ Typed /\ Dated /\ NeverBehind /\ Reads /\ NoGap /\ AbsentWasHidden
    /\ MemberFollows /\ OptedOutOnce /\ OptOutStands

-----------------------------------------------------------------------------
(* The parts of an accepted snapshot's outcome                             *)

NextOf(a, s)  == NextAccount(acct[a], s)
TableOf(a, s) == [acct EXCEPT ![a] = NextOf(a, s)]
Revived(a, s) == IF acct[a] # None /\ acct[a].deleted /\ ~s.deleted
                 THEN {r \in supp : ~(r.acct = a /\ r.reason = "ACCOUNT_DELETED")} ELSE supp
Removal(a)    == [addr |-> None, acct |-> a, reason |-> "ACCOUNT_DELETED", seen |-> 0, clear |-> FALSE]
Removed(a, s) == IF s.deleted /\ ~\E r \in Revived(a, s) : r.acct = a /\ r.reason = "ACCOUNT_DELETED"
                 THEN Revived(a, s) \cup {Removal(a)} ELSE Revived(a, s)
ClearOf(a, s, r) == IF NextOf(a, s).erased /\ (r.acct = a \/ (r.addr # None /\ r.addr = NextOf(a, s).addr))
                       /\ Live(TableOf(a, s), r.addr) \ {a} = {}
                    THEN [r EXCEPT !.clear = FALSE] ELSE r
Cleared(a, s) == {ClearOf(a, s, r) : r \in Removed(a, s)}
LiftOf(a, s)  == IF lifts < MaxLifts THEN DueLifts(Cleared(a, s), NextOf(a, s), s) ELSE {}
EsOf(a, s)    == Touches(acct[a], NextOf(a, s))
SuppOf(a, s)  == Stamped(TableOf(a, s), Cleared(a, s) \ LiftOf(a, s), EsOf(a, s))
MemberOf(a, s) ==
    [e \in Addresses |->
        IF e \in EsOf(a, s)
        THEN Row(TableOf(a, s), SuppOf(a, s), e, member[e], s.addr = e, NextOf(a, s).erased /\ e = NextOf(a, s).addr,
                 LiftOf(a, s) # {} /\ e = NextOf(a, s).addr)
        ELSE member[e]]

\* An accepted snapshot's outcome, part by part.
LEMMA OutcomeParts ==
    ASSUME NEW a, NEW s
    PROVE  /\ Outcome(a, s).acct = TableOf(a, s) /\ Outcome(a, s).supp = SuppOf(a, s)
           /\ Outcome(a, s).lift = LiftOf(a, s) /\ Outcome(a, s).member = MemberOf(a, s)
  BY DEF Outcome, TableOf, NextOf, Revived, Removal, Removed, ClearOf, Cleared, LiftOf, EsOf, SuppOf, MemberOf

\* What a snapshot leaves in the program, accepted or not.
LEMMA Applied ==
    ASSUME NEW a, NEW s, NEW source, ApplyAccountSnapshot(a, s, source), breaker \in Breakers
    PROVE  /\ breaker' \in Breakers /\ UNCHANGED left
           /\ \/ ~Accepted(acct[a], s, source) /\ UNCHANGED <<acct, supp, member, lifts, breaker, touched, lifted>>
              \/ /\ Accepted(acct[a], s, source)
                 /\ acct' = TableOf(a, s) /\ supp' = SuppOf(a, s) /\ member' = MemberOf(a, s)
                 /\ lifts' = lifts + Cardinality(LiftOf(a, s))
                 /\ touched' = (IF run = NoRun THEN {} ELSE touched \cup {a})
                 /\ lifted' = [e \in Addresses |-> IF \E r \in LiftOf(a, s) : r.addr = e THEN s.at ELSE lifted[e]]
  <1>1. CASE ~Accepted(acct[a], s, source)
    BY <1>1 DEF ApplyAccountSnapshot, ghosts
  <1>2. CASE Accepted(acct[a], s, source)
    <2> DEFINE o == Outcome(a, s)
    <2>1. /\ acct' = o.acct /\ supp' = o.supp /\ member' = o.member /\ lifts' = lifts + Cardinality(o.lift)
          /\ breaker' = IF o.capped THEN Opened(breaker, "erasure_cap") ELSE breaker
          /\ touched' = IF run = NoRun THEN {} ELSE touched \cup {a}
          /\ lifted' = [e \in Addresses |-> IF \E r \in o.lift : r.addr = e THEN s.at ELSE lifted[e]]
          /\ UNCHANGED left
      BY <1>2 DEF ApplyAccountSnapshot
    <2>2. breaker' \in Breakers
      BY <2>1 DEF Opened, Breakers
    <2> QED  BY <1>2, <2>1, <2>2, OutcomeParts
  <1> QED  BY <1>1, <1>2

\* Stamping an opt-out changes nothing but its account, which becomes a live holder of its address.
\* q is r but for its account.
Restamp(q, r) == q = [r EXCEPT !.acct = q.acct]

LEMMA StampedRows ==
    ASSUME NEW t, NEW s \in SUBSET OptedOut, NEW es
    PROVE  /\ \A q \in Stamped(t, s, es) : \E r \in s :
                /\ Restamp(q, r)
                /\ q.acct # r.acct => r.addr \in es /\ q.acct \in Live(t, r.addr)
           /\ \A r \in s : \E q \in Stamped(t, s, es) : Restamp(q, r)
  <1> DEFINE hit(r) == r.addr \in es /\ r.acct = None /\ Cardinality(Live(t, r.addr)) = 1
             who(r) == CHOOSE a \in Live(t, r.addr) : TRUE
             stamp(r) == IF hit(r) THEN [r EXCEPT !.acct = who(r)] ELSE r
  <1>1. Stamped(t, s, es) = {stamp(r) : r \in s}
    BY DEF Stamped
  <1>2. ASSUME NEW r \in s
        PROVE  /\ stamp(r) = [r EXCEPT !.acct = stamp(r).acct]
               /\ stamp(r).acct # r.acct => r.addr \in es /\ stamp(r).acct \in Live(t, r.addr)
    <2>1. r \in OptedOut
      OBVIOUS
    <2>2. CASE hit(r)
      <3>1. Live(t, r.addr) # {}
        BY <2>2, FS_EmptySet
      <3>2. who(r) \in Live(t, r.addr)
        BY <3>1
      <3>3. stamp(r) = [r EXCEPT !.acct = who(r)]
        BY <2>2
      <3>4. stamp(r).acct = who(r)
        BY <2>1, <3>3 DEF OptedOut
      <3> HIDE DEF who, stamp
      <3> QED  BY <2>2, <3>2, <3>3, <3>4
    <2>3. CASE ~hit(r)
      <3>1. stamp(r) = r
        BY <2>3
      <3>2. r = [r EXCEPT !.acct = r.acct]
        BY <2>1 DEF OptedOut
      <3> HIDE DEF stamp
      <3> QED  BY <3>1, <3>2
    <2> QED  BY <2>2, <2>3
  <1> HIDE DEF stamp
  <1> QED  BY <1>1, <1>2 DEF Restamp

LEMMA StampedTyped ==
    ASSUME AudienceOK, NEW t \in [Accounts -> Account \cup {None}], NEW s \in SUBSET OptedOut, NEW es
    PROVE  Stamped(t, s, es) \subseteq OptedOut
  <1> SUFFICES ASSUME NEW q \in Stamped(t, s, es)
               PROVE  q \in OptedOut
    OBVIOUS
  <1>1. PICK r \in s : /\ Restamp(q, r)
                       /\ q.acct # r.acct => r.addr \in es /\ q.acct \in Live(t, r.addr)
    BY StampedRows
  <1>2. r \in OptedOut
    OBVIOUS
  <1>3. q.acct \in Accounts \cup {None}
    BY <1>1, <1>2 DEF OptedOut, Live, Holders
  <1> QED  BY <1>1, <1>2, <1>3 DEF OptedOut, Restamp

\* An address no stamping is about is held back after it only if it was before.
LEMMA StampedKeeps ==
    ASSUME AudienceOK, NEW t, NEW s \in SUBSET OptedOut, NEW es, NEW e \in Addresses, e \notin es,
           Suppressed(Stamped(t, s, es), e, Live(t, e))
    PROVE  Suppressed(s, e, Live(t, e))
  <1>1. PICK q \in Stamped(t, s, es) : q.addr = e \/ q.acct \in Live(t, e)
    BY DEF Suppressed
  <1>2. PICK r \in s : /\ Restamp(q, r)
                       /\ q.acct # r.acct => r.addr \in es /\ q.acct \in Live(t, r.addr)
    BY <1>1, StampedRows
  <1>3. q.addr = r.addr
    BY <1>2 DEF OptedOut, Restamp
  <1>4. r.addr = e \/ r.acct \in Live(t, e)
    BY <1>1, <1>2, <1>3 DEF Live, Holders
  <1> QED  BY <1>4 DEF Suppressed

-----------------------------------------------------------------------------
(* An accepted snapshot, part by part                                      *)

\* The version of an account a step takes: what the invariant says of it.
LEMMA Version ==
    ASSUME Typed, Dated, NEW a \in Accounts, NEW n \in 1 .. Len(versions[a])
    PROVE  LET s == versions[a][n] IN
           /\ s \in Snap /\ s.seq = n /\ n \in Nat \ {0} /\ s.at <= clock
           /\ s.deleted = (s.status = "deleted") /\ (s.addr = None => Withheld(s))
  <1>1. versions[a] \in Seq(Snap)
    BY DEF Typed
  <1>2. versions[a][n] \in Snap
    BY <1>1
  <1> QED  BY <1>1, <1>2 DEF Dated

LEMMA NextTyped ==
    ASSUME AudienceOK, Typed, NEW a \in Accounts, NEW s \in Snap
    PROVE  /\ acct[a] # None => acct[a] \in Account
           /\ NextOf(a, s) \in Account /\ NextOf(a, s) # None
           /\ NextOf(a, s).seq = s.seq /\ NextOf(a, s).out = FALSE /\ NextOf(a, s).consent = s.consent
           /\ NextOf(a, s).deleted = s.deleted
           /\ acct[a] # None /\ acct[a].erased => NextOf(a, s).erased
           /\ s.status \in Known => NextOf(a, s).status = s.status
           /\ s.addr # None => NextOf(a, s).addr = s.addr
           /\ TableOf(a, s) \in [Accounts -> Account \cup {None}]
           /\ TableOf(a, s)[a] = NextOf(a, s)
           /\ \A b \in Accounts \ {a} : TableOf(a, s)[b] = acct[b]
           /\ EsOf(a, s) \subseteq Addresses
  <1>1. acct[a] \in Account \cup {None} /\ acct \in [Accounts -> Account \cup {None}]
    BY DEF Typed
  <1>2. NextOf(a, s) = [seq     |-> s.seq,
           status  |-> IF s.status \in Known \/ acct[a] = None THEN s.status ELSE acct[a].status,
           consent |-> s.consent, at |-> s.at,
           addr    |-> IF s.addr # None \/ acct[a] = None THEN s.addr ELSE acct[a].addr,
           deleted |-> s.deleted,
           erased  |-> (acct[a] # None /\ acct[a].erased) \/ (s.deleted /\ s.erasure),
           out     |-> FALSE]
    BY DEF NextOf, NextAccount
  <1>3. /\ s.seq \in Nat /\ s.status \in STRING /\ s.consent \in Consents /\ s.at \in Nat
        /\ s.addr \in Addresses \cup {None} /\ s.deleted \in BOOLEAN /\ s.erasure \in BOOLEAN
    BY DEF Snap
  <1>4. acct[a] # None => acct[a].status \in STRING /\ acct[a].addr \in Addresses \cup {None}
    BY <1>1 DEF Account
  <1>5. /\ (IF s.status \in Known \/ acct[a] = None THEN s.status ELSE acct[a].status) \in STRING
        /\ (IF s.addr # None \/ acct[a] = None THEN s.addr ELSE acct[a].addr) \in Addresses \cup {None}
        /\ ((acct[a] # None /\ acct[a].erased) \/ (s.deleted /\ s.erasure)) \in BOOLEAN
    BY <1>3, <1>4
  <1>6. NextOf(a, s) \in Account
    BY <1>2, <1>3, <1>5 DEF Account
  <1>7. NextOf(a, s) # None
    BY <1>6 DEF AudienceOK
  <1>8. TableOf(a, s) \in [Accounts -> Account \cup {None}]
    BY <1>1, <1>6 DEF TableOf
  <1>9. /\ TableOf(a, s)[a] = NextOf(a, s)
        /\ \A b \in Accounts \ {a} : TableOf(a, s)[b] = acct[b]
    BY <1>1 DEF TableOf
  <1>10. EsOf(a, s) \subseteq Addresses
    BY DEF EsOf, Touches
  <1>11. /\ NextOf(a, s).seq = s.seq /\ NextOf(a, s).out = FALSE /\ NextOf(a, s).consent = s.consent
         /\ NextOf(a, s).deleted = s.deleted
         /\ s.status \in Known => NextOf(a, s).status = s.status
         /\ s.addr # None => NextOf(a, s).addr = s.addr
    BY <1>2
  <1>12. NextOf(a, s).erased = ((acct[a] # None /\ acct[a].erased) \/ (s.deleted /\ s.erasure))
    BY ONLY <1>2
  <1> QED  BY <1>1, <1>6, <1>7, <1>8, <1>9, <1>10, <1>11, <1>12

\* The row a version of an account becomes.
LEMMA VersionNext ==
    ASSUME AudienceOK, Typed, Dated, NEW a \in Accounts, NEW n \in 1 .. Len(versions[a])
    PROVE  LET s == versions[a][n] IN
           /\ NextOf(a, s) \in Account /\ NextOf(a, s) # None
           /\ NextOf(a, s).seq = s.seq /\ NextOf(a, s).out = FALSE
           /\ acct[a] # None /\ acct[a].erased => NextOf(a, s).erased
           /\ TableOf(a, s) \in [Accounts -> Account \cup {None}] /\ TableOf(a, s)[a] = NextOf(a, s)
           /\ \A b \in Accounts \ {a} : TableOf(a, s)[b] = acct[b]
  <1> DEFINE s == versions[a][n]
  <1>1. s \in Snap
    BY Version
  <1> HIDE DEF s
  <1>2. NextOf(a, s) \in Account
    BY <1>1, NextTyped
  <1>7. NextOf(a, s) # None
    BY <1>2 DEF AudienceOK
  <1>5. NextOf(a, s).seq = s.seq
    BY <1>1, NextTyped, Zenon
  <1>6. NextOf(a, s).out = FALSE
    BY <1>1, NextTyped
  <1>3. /\ TableOf(a, s) \in [Accounts -> Account \cup {None}] /\ TableOf(a, s)[a] = NextOf(a, s)
        /\ \A b \in Accounts \ {a} : TableOf(a, s)[b] = acct[b]
    BY <1>1, NextTyped
  <1>4. acct[a] # None /\ acct[a].erased => NextOf(a, s).erased
    BY <1>1, NextTyped, Zenon
  <1> QED  BY <1>2, <1>3, <1>4, <1>5, <1>6, <1>7 DEF s

\* Deleting, reviving and erasing an account touch no opt-out of an address but its clear text.
LEMMA ClearedRows ==
    ASSUME AudienceOK, Typed, NEW a \in Accounts, NEW s
    PROVE  /\ Cleared(a, s) \subseteq OptedOut
           /\ \A q \in Cleared(a, s) : \/ q.addr = None /\ q.acct = a
                                       \/ \E r \in supp : q = [r EXCEPT !.clear = q.clear]
           /\ \A r \in supp : r.addr # None /\ (r.acct = a => r.reason # "ACCOUNT_DELETED")
                                => \E q \in Cleared(a, s) : q = [r EXCEPT !.clear = q.clear]
  <1>1. supp \subseteq OptedOut
    BY DEF Typed
  <1>2. Revived(a, s) \subseteq supp
    BY DEF Revived
  <1>3. Removal(a) \in OptedOut
    BY DEF Removal, OptedOut, Rank
  <1>4. Removed(a, s) \subseteq supp \cup {Removal(a)} /\ Removed(a, s) \subseteq OptedOut
    BY <1>1, <1>2, <1>3 DEF Removed
  <1>5. ASSUME NEW r \in OptedOut
        PROVE  ClearOf(a, s, r) \in OptedOut /\ ClearOf(a, s, r) = [r EXCEPT !.clear = ClearOf(a, s, r).clear]
               /\ ClearOf(a, s, r).addr = r.addr /\ ClearOf(a, s, r).acct = r.acct
    <2>1. r = [r EXCEPT !.clear = r.clear]
      BY DEF OptedOut
    <2>2. CASE ClearOf(a, s, r) = r
      BY <2>1, <2>2
    <2>3. CASE ClearOf(a, s, r) = [r EXCEPT !.clear = FALSE]
      BY <2>3 DEF OptedOut
    <2> QED  BY <2>2, <2>3 DEF ClearOf
  <1>6. ASSUME NEW q \in Cleared(a, s)
        PROVE  q \in OptedOut /\ (\/ q.addr = None /\ q.acct = a
                                  \/ \E r \in supp : q = [r EXCEPT !.clear = q.clear])
    <2>1. PICK r \in Removed(a, s) : q = ClearOf(a, s, r)
      BY DEF Cleared
    <2>2. q \in OptedOut /\ q = [r EXCEPT !.clear = q.clear] /\ q.addr = r.addr /\ q.acct = r.acct
      BY <1>4, <1>5, <2>1
    <2>3. CASE r = Removal(a)
      BY <2>2, <2>3 DEF Removal
    <2> QED  BY <1>4, <2>2, <2>3
  <1>7. ASSUME NEW r \in supp, r.acct = a => r.reason # "ACCOUNT_DELETED"
        PROVE  \E q \in Cleared(a, s) : q = [r EXCEPT !.clear = q.clear]
    <2>1. r \in Removed(a, s)
      BY <1>7 DEF Removed, Revived
    <2>2. ClearOf(a, s, r) \in Cleared(a, s)
      BY <2>1 DEF Cleared
    <2> QED  BY <1>1, <1>5, <2>2
  <1> QED  BY <1>6, <1>7

\* The rows an opt-in of the account may lift.
LEMMA LiftRows ==
    ASSUME NEW a, NEW s
    PROVE  /\ LiftOf(a, s) \subseteq Cleared(a, s)
           /\ LiftOf(a, s) # {} => lifts < MaxLifts /\ NextOf(a, s).addr # None
           /\ \A r \in LiftOf(a, s) : r.addr = NextOf(a, s).addr /\ r.reason \in Liftable /\ s.at > r.seen
  BY DEF LiftOf, DueLifts

-----------------------------------------------------------------------------
(* Member rows                                                             *)

\* The member row m of address e agrees with the account rows t and the suppressions s.
Follows(t, s, m, e) ==
    IF m = None THEN Role(t, e) = "NONE"
    ELSE /\ m.role = Role(t, e) /\ m.bar = NoMarketing(t, e)
         /\ Suppressed(s, e, Live(t, e)) => m.held

Paid(r) == r.status \in {"active", "cancelled"} \/ (r.status = "ended" /\ r.consent # "no")

LEMMA RoleKind == ASSUME NEW t, NEW e PROVE Role(t, e) \in {"PREMIUM", "FORMER", "NONE"}
  BY DEF Role

LEMMA NoRole == ASSUME NEW t, NEW e
                PROVE  Role(t, e) = "NONE" <=> \A b \in Live(t, e) : ~Paid(t[b])
  BY DEF Role, Paid

\* A computed row agrees, provided an address nobody knows in clear text has no role.
LEMMA RowFollows ==
    ASSUME AudienceOK, NEW t, NEW s, NEW e, NEW m \in Member \cup {None}, NEW fresh \in BOOLEAN,
           NEW erase \in BOOLEAN, NEW resub \in BOOLEAN, m = None /\ ~fresh => Role(t, e) = "NONE"
    PROVE  /\ Row(t, s, e, m, fresh, erase, resub) \in Member \cup {None}
           /\ Follows(t, s, Row(t, s, e, m, fresh, erase, resub), e)
  <1> DEFINE role  == Role(t, e)
             bar   == NoMarketing(t, e)
             held  == Suppressed(s, e, Live(t, e))
             gone  == erase /\ Live(t, e) = {}
             again == ~gone /\ (resub \/ (m # None /\ m.resub))
             mail  == ~gone /\ (fresh \/ (m # None /\ m.mail))
             tags  == ~gone /\ m # None /\ m.tagged
             r     == Row(t, s, e, m, fresh, erase, resub)
             full  == [role |-> role, bar |-> bar, held |-> held, mail |-> mail, resub |-> again, tagged |-> tags]
  <1>1. r = IF role = "NONE" /\ ~bar /\ ~tags /\ ~again THEN None ELSE IF m = None /\ ~mail THEN None ELSE full
    BY DEF Row
  <1>2. bar \in BOOLEAN /\ held \in BOOLEAN /\ again \in BOOLEAN /\ mail \in BOOLEAN /\ tags \in BOOLEAN
    <2>1. m # None => m.resub \in BOOLEAN /\ m.mail \in BOOLEAN /\ m.tagged \in BOOLEAN
      BY DEF Member
    <2> QED  BY <2>1 DEF NoMarketing, Suppressed
  <1>3. role \in {"PREMIUM", "FORMER", "NONE"}
    BY RoleKind
  <1>4. m = None /\ ~mail => role = "NONE"
    <2>1. gone => role = "NONE"
      BY NoRole
    <2> QED  BY <2>1
  <1>5. full \in Member /\ full # None
    <2> HIDE DEF role, bar, held, again, mail, tags
    <2>1. full \in Member
      BY <1>2, <1>3 DEF Member
    <2> QED  BY <2>1 DEF AudienceOK
  <1>6. full.role = role /\ full.bar = bar /\ full.held = held
    OBVIOUS
  <1>7. CASE r = None
    <2>1. role = "NONE"
      BY <1>1, <1>4, <1>5, <1>7
    <2> QED  BY <1>7, <2>1 DEF Follows
  <1>8. CASE r = full
    BY <1>5, <1>6, <1>8 DEF Follows
  <1> HIDE DEF r, full
  <1> QED  BY <1>1, <1>7, <1>8

\* An address is judged by the rows that hold it alone.
LEMMA SameHolders ==
    ASSUME NEW t, NEW u, NEW e, \A b \in Accounts : t[b] = u[b] \/ (t[b].addr # e /\ u[b].addr # e)
                                                   \/ (t[b] = None /\ u[b].addr # e)
    PROVE  /\ Holders(t, e) = Holders(u, e) /\ Live(t, e) = Live(u, e) /\ Role(t, e) = Role(u, e)
           /\ NoMarketing(t, e) = NoMarketing(u, e)
  <1>1. \A b \in Accounts : b \in Holders(t, e) \/ b \in Holders(u, e) => t[b] = u[b]
    BY DEF Holders
  <1>2. Holders(t, e) = Holders(u, e)
    BY <1>1 DEF Holders
  <1>3. Holders(t, e) \subseteq Accounts /\ Live(t, e) \subseteq Accounts
    BY DEF Holders, Live
  <1>4. Live(t, e) = Live(u, e) /\ \A b \in Holders(t, e) : t[b] = u[b]
    BY <1>1, <1>2, <1>3 DEF Live
  <1>5. Live(t, e) \subseteq Holders(t, e)
    BY DEF Live
  <1>6. Role(t, e) = Role(u, e)
    <2>1. /\ (\E b \in Live(t, e) : t[b].status \in {"active", "cancelled"}) <=>
             (\E b \in Live(u, e) : u[b].status \in {"active", "cancelled"})
          /\ (\E b \in Live(t, e) : t[b].status = "ended" /\ t[b].consent # "no") <=>
             (\E b \in Live(u, e) : u[b].status = "ended" /\ u[b].consent # "no")
      BY <1>4, <1>5
    <2> QED  BY <2>1 DEF Role
  <1>7. NoMarketing(t, e) = NoMarketing(u, e)
    <2>1. /\ (\E b \in Live(t, e) : t[b].consent = "no") <=> (\E b \in Live(u, e) : u[b].consent = "no")
          /\ (\E b \in Holders(t, e) : InScope(t[b])) <=> (\E b \in Holders(u, e) : InScope(u[b]))
      BY <1>2, <1>4, <1>5
    <2> QED  BY <1>4, <2>1 DEF NoMarketing
  <1> QED  BY <1>2, <1>4, <1>6, <1>7

\* Fewer or unpaid live holders give no role.
LEMMA FewerRoles ==
    ASSUME NEW t, NEW u, NEW e, Role(u, e) = "NONE",
           \A b \in Live(t, e) : (b \in Live(u, e) /\ t[b].status = u[b].status /\ t[b].consent = u[b].consent) \/ ~Paid(t[b])
    PROVE  Role(t, e) = "NONE"
  BY NoRole DEF Paid

\* The member rows after an accepted snapshot agree with its account rows and suppressions.
LEMMA AppliedFollows ==
    ASSUME AudienceOK, Typed, Dated, MemberFollows, NEW a \in Accounts, NEW n \in 1 .. Len(versions[a])
    PROVE  LET s == versions[a][n] IN
           /\ MemberOf(a, s) \in [Addresses -> Member \cup {None}]
           /\ \A e \in Addresses : Follows(TableOf(a, s), SuppOf(a, s), MemberOf(a, s)[e], e)
  <1> DEFINE s == versions[a][n]
             t == TableOf(a, s)
             z == SuppOf(a, s)
             x == NextOf(a, s)
             es == EsOf(a, s)
  <1>1. /\ s \in Snap /\ s.deleted = (s.status = "deleted") /\ (s.addr = None => Withheld(s))
    BY Version
  <1> HIDE DEF s
  <1>2. /\ x \in Account /\ x # None /\ x.out = FALSE /\ x.consent = s.consent /\ x.deleted = s.deleted
        /\ s.status \in Known => x.status = s.status
        /\ s.addr # None => x.addr = s.addr
        /\ t \in [Accounts -> Account \cup {None}] /\ t[a] = x /\ \A b \in Accounts \ {a} : t[b] = acct[b]
        /\ es \subseteq Addresses
    BY <1>1, NextTyped
  <1>3. supp \subseteq OptedOut /\ member \in [Addresses -> Member \cup {None}]
    BY DEF Typed
  <1>4. Cleared(a, s) \subseteq OptedOut /\ Cleared(a, s) \ LiftOf(a, s) \subseteq OptedOut
    BY ClearedRows
  <1>5. es = {e \in Addresses : e = x.addr \/ (acct[a] # None /\ e = acct[a].addr)}
    BY DEF EsOf, Touches
  <1>6. ASSUME NEW e \in Addresses
        PROVE  Follows(acct, supp, member[e], e)
    BY DEF MemberFollows, Follows
  <1>7. ASSUME NEW e \in Addresses, e \notin es
        PROVE  MemberOf(a, s)[e] \in Member \cup {None} /\ Follows(t, z, MemberOf(a, s)[e], e)
    <2>1. MemberOf(a, s)[e] = member[e]
      BY <1>7 DEF MemberOf
    <2>2. x.addr # e /\ (acct[a] = None \/ acct[a].addr # e)
      BY <1>5, <1>7
    <2>3. \A b \in Accounts : acct[b] = t[b] \/ (acct[b].addr # e /\ t[b].addr # e) \/ (acct[b] = None /\ t[b].addr # e)
      BY <1>2, <2>2
    <2> HIDE DEF t, x, es
    <2>4. /\ Live(acct, e) = Live(t, e) /\ Role(acct, e) = Role(t, e) /\ NoMarketing(acct, e) = NoMarketing(t, e)
      BY <2>3, SameHolders
    <2>5. ASSUME Suppressed(z, e, Live(t, e))
          PROVE  Suppressed(supp, e, Live(t, e))
      <3>1. Suppressed(Cleared(a, s) \ LiftOf(a, s), e, Live(t, e))
        BY <1>4, <1>7, <2>5, StampedKeeps DEF SuppOf, t, es
      <3>2. PICK q \in Cleared(a, s) : q.addr = e \/ q.acct \in Live(t, e)
        BY <3>1 DEF Suppressed
      <3>3. a \notin Live(t, e)
        BY <1>2, <2>2 DEF Live, Holders
      <3>4. PICK r \in supp : q = [r EXCEPT !.clear = q.clear]
        BY <3>2, <3>3, ClearedRows DEF AudienceOK
      <3>5. q.addr = r.addr /\ q.acct = r.acct
        BY <1>3, <3>4 DEF OptedOut
      <3> QED  BY <3>2, <3>5 DEF Suppressed
    <2> QED  BY <1>3, <1>6, <2>1, <2>4, <2>5 DEF Follows
  <1>8. ASSUME NEW e \in Addresses, e \in es
        PROVE  MemberOf(a, s)[e] \in Member \cup {None} /\ Follows(t, z, MemberOf(a, s)[e], e)
    <2> DEFINE fresh == s.addr = e
               erase == x.erased /\ e = x.addr
               resub == LiftOf(a, s) # {} /\ e = x.addr
    <2>1. MemberOf(a, s)[e] = Row(t, z, e, member[e], fresh, erase, resub)
      BY <1>8 DEF MemberOf
    <2>2. ASSUME member[e] = None, s.addr # e
          PROVE  Role(t, e) = "NONE"
      <3>1. Role(acct, e) = "NONE"
        BY <1>6, <2>2 DEF Follows
      <3>2. ASSUME NEW b \in Live(t, e)
            PROVE  (b \in Live(acct, e) /\ t[b].status = acct[b].status /\ t[b].consent = acct[b].consent) \/ ~Paid(t[b])
        <4>1. b \in Accounts /\ t[b] # None /\ t[b].addr = e /\ IsLive(t[b])
          BY <3>2 DEF Live, Holders
        <4>2. CASE b # a
          <5>1. t[b] = acct[b]
            BY <1>2, <4>1, <4>2
          <5> QED  BY <4>1, <5>1 DEF Live, Holders
        <4>3. CASE b = a
          <5>1. s.addr = None
            BY <1>2, <2>2, <4>1, <4>3
          <5>2. Withheld(s)
            BY <1>1, <5>1
          <5>3. x.status = s.status /\ x.consent = s.consent
            BY <1>2, <5>2 DEF Withheld, Known
          <5> QED  BY <1>2, <4>3, <5>2, <5>3 DEF Withheld, Paid
        <4> QED  BY <4>2, <4>3
      <3> QED  BY <3>1, <3>2, FewerRoles
    <2>3. x.erased \in BOOLEAN
      BY <1>2 DEF Account
    <2>4. erase \in BOOLEAN /\ resub \in BOOLEAN /\ fresh \in BOOLEAN /\ member[e] \in Member \cup {None}
      BY <1>3, <2>3
    <2>5. member[e] = None /\ ~fresh => Role(t, e) = "NONE"
      BY <2>2
    <2> HIDE DEF t, z, x, erase, resub, fresh
    <2> QED  BY <2>1, <2>4, <2>5, RowFollows
  <1>9. MemberOf(a, s) \in [Addresses -> Member \cup {None}]
    <2>1. MemberOf(a, s) = [e \in Addresses |-> MemberOf(a, s)[e]]
      BY DEF MemberOf
    <2> QED  BY <1>7, <1>8, <2>1
  <1> QED  BY <1>7, <1>8, <1>9 DEF s

-----------------------------------------------------------------------------
(* Opt-outs                                                                *)

OneEach(s)  == \A r, q \in s : r.addr # None /\ r.addr = q.addr => r = q
DatedOuts(s) == \A r \in s : r.addr # None => r.reason \in Liftable /\ r.seen = left[r.addr]
HasOut(s, e) == \E r \in s : r.addr = e /\ r.reason \in Liftable
LiftedBy(a, s) == [e \in Addresses |-> IF \E r \in LiftOf(a, s) : r.addr = e THEN s.at ELSE lifted[e]]

LEMMA StampedOne ==
    ASSUME NEW t, NEW s \in SUBSET OptedOut, NEW es, OneEach(s)
    PROVE  OneEach(Stamped(t, s, es))
  <1> DEFINE stamp(r) == IF r.addr \in es /\ r.acct = None /\ Cardinality(Live(t, r.addr)) = 1
                         THEN [r EXCEPT !.acct = CHOOSE a \in Live(t, r.addr) : TRUE] ELSE r
  <1>1. Stamped(t, s, es) = {stamp(r) : r \in s}
    BY DEF Stamped
  <1>2. \A r \in s : stamp(r).addr = r.addr
    BY DEF OptedOut
  <1> HIDE DEF stamp
  <1> QED  BY <1>1, <1>2 DEF OneEach

LEMMA ClearedOne ==
    ASSUME AudienceOK, Typed, NEW a \in Accounts, NEW s, OneEach(supp)
    PROVE  OneEach(Cleared(a, s))
  <1>1. supp \subseteq OptedOut
    BY DEF Typed
  <1>2. \A r \in Removed(a, s) : r = Removal(a) \/ r \in supp
    BY DEF Removed, Revived
  <1>3. Removal(a).addr = None /\ Removal(a) \in OptedOut
    BY DEF Removal, OptedOut, Rank
  <1>4. \A r \in OptedOut : ClearOf(a, s, r).addr = r.addr
    BY DEF ClearOf, OptedOut
  <1>5. Removed(a, s) \subseteq OptedOut /\ OneEach(Removed(a, s))
    BY <1>1, <1>2, <1>3 DEF OneEach
  <1> QED  BY <1>4, <1>5 DEF Cleared, OneEach

\* Stamping opt-outs neither adds, loses nor dates one.
LEMMA StampedOuts ==
    ASSUME NEW t, NEW s \in SUBSET OptedOut, NEW es
    PROVE  /\ DatedOuts(s) => DatedOuts(Stamped(t, s, es))
           /\ \A e : HasOut(Stamped(t, s, es), e) <=> HasOut(s, e)
  <1>1. ASSUME NEW r \in s, NEW q, Restamp(q, r)
        PROVE  q.addr = r.addr /\ q.reason = r.reason /\ q.seen = r.seen
    BY <1>1 DEF OptedOut, Restamp
  <1>2. /\ \A q \in Stamped(t, s, es) : \E r \in s : Restamp(q, r)
        /\ \A r \in s : \E q \in Stamped(t, s, es) : Restamp(q, r)
    BY StampedRows
  <1>3. /\ \A q \in Stamped(t, s, es) : \E r \in s : q.addr = r.addr /\ q.reason = r.reason /\ q.seen = r.seen
        /\ \A r \in s : \E q \in Stamped(t, s, es) : q.addr = r.addr /\ q.reason = r.reason /\ q.seen = r.seen
    BY <1>1, <1>2
  <1> QED  BY <1>3 DEF DatedOuts, HasOut

LEMMA AppliedOptOuts ==
    ASSUME AudienceOK, Typed, Dated, OptedOutOnce, OptOutStands, NEW a \in Accounts, NEW n \in 1 .. Len(versions[a])
    PROVE  LET s == versions[a][n] IN
           /\ SuppOf(a, s) \subseteq OptedOut /\ OneEach(SuppOf(a, s)) /\ DatedOuts(SuppOf(a, s))
           /\ LiftedBy(a, s) \in [Addresses -> Nat] /\ \A e \in Addresses : LiftedBy(a, s)[e] <= clock
           /\ \A e \in Addresses : HasOut(SuppOf(a, s), e) <=> left[e] > LiftedBy(a, s)[e]
           /\ lifts + Cardinality(LiftOf(a, s)) \in 0 .. MaxLifts
  <1> DEFINE s == versions[a][n]
             c == Cleared(a, s)
             l == LiftOf(a, s)
             t == TableOf(a, s)
             x == NextOf(a, s)
             kept == c \ l
  <1>1. s \in Snap /\ s.at \in Nat /\ s.at <= clock
    BY Version DEF Snap
  <1> HIDE DEF s
  <1>2. /\ supp \subseteq OptedOut /\ lifted \in [Addresses -> Nat] /\ left \in [Addresses -> Nat]
        /\ OneEach(supp) /\ DatedOuts(supp) /\ clock \in Nat
    BY DEF Typed, OptedOutOnce, OneEach, DatedOuts
  <1>3. c \subseteq OptedOut /\ OneEach(c)
    BY <1>2, ClearedRows, ClearedOne
  <1>4. ASSUME NEW r \in supp, NEW q, q = [r EXCEPT !.clear = q.clear]
        PROVE  q.addr = r.addr /\ q.reason = r.reason /\ q.seen = r.seen
    BY <1>2, <1>4 DEF OptedOut
  <1>5. ASSUME NEW q \in c, q.addr # None
        PROVE  \E r \in supp : q.addr = r.addr /\ q.reason = r.reason /\ q.seen = r.seen
    BY <1>4, <1>5, ClearedRows
  <1>6. DatedOuts(c)
    BY <1>2, <1>5 DEF DatedOuts
  <1>7. ASSUME NEW r \in supp, r.addr # None
        PROVE  \E q \in c : q.addr = r.addr /\ q.reason = r.reason /\ q.seen = r.seen
    <2>1. r.reason # "ACCOUNT_DELETED"
      BY <1>2, <1>7 DEF DatedOuts, Liftable
    <2>2. PICK q \in c : q = [r EXCEPT !.clear = q.clear]
      BY <1>7, <2>1, ClearedRows
    <2> QED  BY <1>4, <2>2
  <1>8. l \subseteq c /\ (l # {} => lifts < MaxLifts /\ x.addr # None)
        /\ \A r \in l : r.addr = x.addr /\ r.reason \in Liftable /\ s.at > r.seen
    BY LiftRows
  <1>9. x \in Account
    BY <1>1, NextTyped
  <1>10. kept \subseteq OptedOut /\ OneEach(kept) /\ DatedOuts(kept)
    BY <1>3, <1>6 DEF OneEach, DatedOuts
  <1>11. SuppOf(a, s) = Stamped(t, kept, EsOf(a, s))
    BY DEF SuppOf
  <1>12. t \in [Accounts -> Account \cup {None}]
    BY <1>1, NextTyped
  <1> HIDE DEF c, l, t, x, kept
  <1>13. SuppOf(a, s) \subseteq OptedOut /\ OneEach(SuppOf(a, s)) /\ DatedOuts(SuppOf(a, s))
    <2>1. kept \in SUBSET OptedOut
      BY <1>10
    <2>2. Stamped(t, kept, EsOf(a, s)) \subseteq OptedOut
      BY <1>12, <2>1, StampedTyped, Zenon
    <2>3. OneEach(Stamped(t, kept, EsOf(a, s)))
      BY <1>10, <2>1, StampedOne, Zenon
    <2>4. DatedOuts(Stamped(t, kept, EsOf(a, s)))
      BY <1>10, <2>1, StampedOuts, Zenon
    <2> QED  BY <1>11, <2>2, <2>3, <2>4
  <1>14. LiftedBy(a, s) \in [Addresses -> Nat] /\ \A e \in Addresses : LiftedBy(a, s)[e] <= clock
    BY <1>1, <1>2 DEF LiftedBy, OptedOutOnce
  <1>15. ASSUME NEW e \in Addresses
         PROVE  HasOut(SuppOf(a, s), e) <=> left[e] > LiftedBy(a, s)[e]
    <2>1. HasOut(SuppOf(a, s), e) <=> HasOut(kept, e)
      BY <1>10, <1>11, StampedOuts
    <2>2. HasOut(c, e) <=> left[e] > lifted[e]
      <3>1. HasOut(supp, e) <=> left[e] > lifted[e]
        BY DEF OptOutStands, HasOut
      <3>2. e # None
        BY DEF AudienceOK
      <3> QED  BY <1>5, <1>7, <3>1, <3>2 DEF HasOut
    <2>3. CASE \E r \in l : r.addr = e
      <3>1. PICK r \in l : r.addr = e
        BY <2>3
      <3>2. r \in c /\ s.at > r.seen /\ r.seen = left[e] /\ e # None
        BY <1>6, <1>8, <3>1 DEF DatedOuts, AudienceOK
      <3>3. LiftedBy(a, s)[e] = s.at
        BY <2>3 DEF LiftedBy, l
      <3>4. ~\E q \in kept : q.addr = e
        BY <1>3, <3>1, <3>2 DEF OneEach, kept
      <3> QED  BY <1>1, <1>2, <2>1, <3>2, <3>3, <3>4 DEF HasOut
    <2>4. CASE ~\E r \in l : r.addr = e
      <3>1. LiftedBy(a, s)[e] = lifted[e]
        BY <2>4 DEF LiftedBy, l
      <3>2. HasOut(kept, e) <=> HasOut(c, e)
        BY <2>4 DEF kept, HasOut
      <3> QED  BY <2>1, <2>2, <3>1, <3>2
    <2> QED  BY <2>3, <2>4
  <1>16. lifts + Cardinality(l) \in 0 .. MaxLifts
    <2>1. lifts \in 0 .. MaxLifts /\ MaxLifts \in Nat
      BY DEF Typed, AudienceOK
    <2>2. CASE l = {}
      BY <2>1, <2>2, FS_EmptySet
    <2>3. CASE l # {}
      <3>1. PICK r \in l : TRUE
        BY <2>3
      <3>2. l = {r}
        BY <1>3, <1>8, <2>3, <3>1 DEF OneEach
      <3>3. Cardinality(l) = 1
        BY <3>2, FS_Singleton
      <3> QED  BY <1>8, <2>1, <2>3, <3>3
    <2> QED  BY <2>2, <2>3
  <1> QED  BY <1>13, <1>14, <1>15, <1>16 DEF s, l

-----------------------------------------------------------------------------
(* A snapshot against the whole invariant                                  *)

\* r is the row of an account later than p: not lost, not behind, not brought back from an erasure.
Later(p, r) == p # None => r # None /\ (p.erased => r.erased) /\ r.seq >= p.seq

Tables ==
    /\ lifts \in 0 .. MaxLifts /\ breaker \in Breakers /\ touched \subseteq Accounts
    /\ acct \in [Accounts -> Account \cup {None}] /\ supp \subseteq OptedOut
    /\ member \in [Addresses -> Member \cup {None}]
    /\ left \in [Addresses -> Nat] /\ lifted \in [Addresses -> Nat]

Agreed == AbsentWasHidden /\ MemberFollows /\ OptedOutOnce /\ OptOutStands

LEMMA ApplyStep ==
    ASSUME AudienceOK, IInv, NEW a \in Accounts, NEW n \in 1 .. Len(versions[a]), NEW source,
           ApplyAccountSnapshot(a, versions[a][n], source), UNCHANGED <<clock, versions, hidden>>
    PROVE  /\ Tables' /\ Dated' /\ Agreed'
           /\ \A b \in Accounts : Later(acct[b], acct'[b]) /\ (b # a => acct'[b] = acct[b])
           /\ acct'[a] # None /\ (acct'[a].erased \/ acct'[a].seq >= n)
           /\ run # NoRun => touched \subseteq touched' /\ (acct'[a] = acct[a] \/ a \in touched')
  <1> DEFINE s == versions[a][n]
             x == NextOf(a, s)
  <1>1. s \in Snap /\ s.seq = n /\ n \in Nat \ {0} /\ s.at <= clock
    BY Version DEF IInv
  <1>2. /\ acct \in [Accounts -> Account \cup {None}] /\ supp \subseteq OptedOut /\ None \notin Account
        /\ member \in [Addresses -> Member \cup {None}] /\ breaker \in Breakers /\ touched \subseteq Accounts
        /\ lifts \in 0 .. MaxLifts /\ left \in [Addresses -> Nat] /\ lifted \in [Addresses -> Nat]
    BY DEF IInv, Typed, AudienceOK
  <1>3. \A b \in Accounts : acct[b] # None => acct[b].seq \in Nat /\ acct[b].erased \in BOOLEAN
    BY <1>2 DEF Account
  <1>4. Typed /\ Dated /\ AbsentWasHidden /\ MemberFollows /\ OptedOutOnce /\ OptOutStands
    BY DEF IInv
  <1>5. CASE /\ ~Accepted(acct[a], s, source)
             /\ UNCHANGED <<acct, supp, member, lifts, breaker, touched, lifted, left>>
    <2>1. Tables'
      BY <1>2, <1>5 DEF Tables
    <2>2. Dated'
      BY <1>4, <1>5 DEF Dated
    <2>3. Agreed'
      <3>1. AbsentWasHidden' /\ OptedOutOnce' /\ OptOutStands'
        BY <1>4, <1>5 DEF AbsentWasHidden, OptedOutOnce, OptOutStands
      <3>2. \A e \in Addresses : Follows(acct', supp', member'[e], e)
        BY <1>4, <1>5 DEF MemberFollows, Follows
      <3>3. MemberFollows'
        BY <3>2 DEF MemberFollows, Follows
      <3> QED  BY <3>1, <3>3 DEF Agreed
    <2>4. acct[a] # None /\ (acct[a].erased \/ acct[a].seq >= n)
      <3>1. acct[a] # None /\ (acct[a].erased \/ ~(s.seq > acct[a].seq) \/ ~(s.seq >= acct[a].seq))
        BY <1>5 DEF Accepted
      <3> HIDE DEF s
      <3> QED  BY <1>1, <1>3, <3>1
    <2> QED  BY <1>3, <1>5, <2>1, <2>2, <2>3, <2>4 DEF Later
  <1>6. CASE /\ Accepted(acct[a], s, source) /\ UNCHANGED left /\ breaker' \in Breakers
             /\ acct' = TableOf(a, s) /\ supp' = SuppOf(a, s) /\ member' = MemberOf(a, s)
             /\ lifts' = lifts + Cardinality(LiftOf(a, s))
             /\ touched' = (IF run = NoRun THEN {} ELSE touched \cup {a})
             /\ lifted' = LiftedBy(a, s)
    <2>1. /\ x \in Account /\ x # None /\ x.seq = n /\ x.out = FALSE
          /\ acct[a] # None /\ acct[a].erased => x.erased
          /\ acct' \in [Accounts -> Account \cup {None}] /\ acct'[a] = x
          /\ \A b \in Accounts \ {a} : acct'[b] = acct[b]
      <3> HIDE DEF s
      <3>1. /\ x \in Account /\ x # None /\ x.seq = s.seq /\ x.out = FALSE
            /\ acct[a] # None /\ acct[a].erased => x.erased
            /\ TableOf(a, s) \in [Accounts -> Account \cup {None}] /\ TableOf(a, s)[a] = x
            /\ \A b \in Accounts \ {a} : TableOf(a, s)[b] = acct[b]
        BY <1>4, VersionNext DEF s
      <3> HIDE DEF x
      <3> QED  BY <1>1, <1>6, <3>1
    <2>2. /\ supp' \subseteq OptedOut /\ OneEach(supp') /\ DatedOuts(supp')
          /\ lifted' \in [Addresses -> Nat] /\ \A e \in Addresses : lifted'[e] <= clock
          /\ \A e \in Addresses : HasOut(supp', e) <=> left[e] > lifted'[e]
          /\ lifts' \in 0 .. MaxLifts
      BY <1>4, <1>6, AppliedOptOuts
    <2>3. /\ member' \in [Addresses -> Member \cup {None}]
          /\ \A e \in Addresses : Follows(acct', supp', member'[e], e)
      BY <1>4, <1>6, AppliedFollows
    <2>4. touched' \subseteq Accounts /\ (run # NoRun => touched \subseteq touched' /\ a \in touched')
      BY <1>2, <1>6
    <2>5. Tables'
      BY <1>2, <1>6, <2>1, <2>2, <2>3, <2>4 DEF Tables
    <2>6. \A b \in Accounts : Later(acct[b], acct'[b])
      <3>1. acct[a] # None => s.seq >= acct[a].seq
        <4>1. acct[a] # None => s.seq > acct[a].seq \/ s.seq >= acct[a].seq
          BY <1>6 DEF Accepted
        <4> HIDE DEF s
        <4> QED  BY <1>1, <1>3, <4>1
      <3>2. Later(acct[a], acct'[a])
        BY <1>1, <2>1, <3>1 DEF Later
      <3> QED  BY <1>3, <2>1, <3>2 DEF Later
    <2>7. Dated'
      <3> HIDE DEF s, x
      <3> QED  BY <1>4, <2>1 DEF Dated
    <2>8. AbsentWasHidden'
      BY <1>4, <2>1 DEF AbsentWasHidden
    <2>9. MemberFollows'
      BY <2>3 DEF MemberFollows, Follows
    <2>10. OptedOutOnce'
      BY <1>4, <1>6, <2>2 DEF OptedOutOnce, OneEach, DatedOuts
    <2>11. OptOutStands'
      BY <1>6, <2>2 DEF OptOutStands, HasOut
    <2> HIDE DEF s, x
    <2> QED  BY <1>1, <2>1, <2>4, <2>5, <2>6, <2>7, <2>8, <2>9, <2>10, <2>11 DEF Agreed
  <1> HIDE DEF s
  <1> QED  BY <1>2, <1>5, <1>6, Applied DEF LiftedBy, s

\* What the program has of an account it keeps.
LEMMA StillStored ==
    ASSUME Dated', NEW b \in Accounts, UNCHANGED versions, Stored(b), Later(acct[b], acct'[b]),
           acct[b].seq \in Nat, versions[b] \in Seq(Snap)
    PROVE  Stored(b)'
  <1>1. acct'[b] # None /\ acct'[b].seq \in 1 .. Len(versions[b])
    BY DEF Dated, Later, Stored
  <1>2. acct[b].seq = Len(versions[b]) => acct'[b].seq = Len(versions[b])
    BY <1>1 DEF Later, Stored
  <1> QED  BY <1>1, <1>2 DEF Later, Stored

-----------------------------------------------------------------------------
(* One lemma for each kind of step                                         *)

\* Steps that leave the account rows, the opt-outs and the member rows alone.
LEMMA AgreedSame ==
    ASSUME IInv, UNCHANGED <<acct, supp, member, left, lifted>>, hidden \subseteq hidden',
           clock' \in Nat, clock' >= clock
    PROVE  Agreed'
  <1>1. AbsentWasHidden' /\ OptOutStands'
    BY DEF IInv, AbsentWasHidden, OptOutStands
  <1>2. OptedOutOnce'
    <2>1. left \in [Addresses -> Nat] /\ lifted \in [Addresses -> Nat] /\ clock \in Nat
      BY DEF IInv, Typed
    <2> QED  BY <2>1 DEF IInv, OptedOutOnce
  <1>3. \A e \in Addresses : Follows(acct', supp', member'[e], e)
    BY DEF IInv, MemberFollows, Follows
  <1>4. MemberFollows'
    BY <1>3 DEF MemberFollows, Follows
  <1> QED  BY <1>1, <1>2, <1>4 DEF Agreed

\* The CMS makes a new version of an account.
LEMMA ChangeInv ==
    ASSUME AudienceOK, IInv, NEW a \in Accounts, Change(a)
    PROVE  IInv'
  <1> DEFINE n == Len(versions[a]) + 1
             h == History[a][n]
             v == Snapshot(a, n)
  <1>1. /\ n <= Len(History[a]) /\ versions' = [versions EXCEPT ![a] = Append(@, v)] /\ clock' = clock + 1
        /\ UNCHANGED <<hidden, receipts, acct, supp, member, lifts, breaker, mark, run, touched, runs, faults, left, lifted>>
    BY DEF Change, state, ghosts
  <1>2. Typed /\ Dated /\ NeverBehind /\ Reads /\ NoGap
    BY DEF IInv
  <1>3. versions \in [Accounts -> Seq(Snap)] /\ versions[a] \in Seq(Snap) /\ clock \in Nat /\ mark \in 0 .. clock
    BY <1>2 DEF Typed
  <1>4. n \in Nat \ {0} /\ n \in DOMAIN History[a]
    BY <1>1, <1>3 DEF AudienceOK
  <1>5. /\ h.status \in STRING /\ h.consent \in Consents /\ h.addr \in Addresses \cup {None} /\ h.erasure \in BOOLEAN
        /\ h.addr = None => Withheld(h)
    <2> DEFINE R == [status : STRING, consent : Consents, fresh : BOOLEAN, addr : Addresses \cup {None},
                     erasure : BOOLEAN]
    <2>1. History[a] \in Seq(R)
      BY DEF AudienceOK
    <2>2. h \in R
      <3>1. n \in 1 .. Len(History[a])
        BY <1>1, <1>4, <2>1
      <3> HIDE DEF n, R
      <3> QED  BY <2>1, <3>1
    <2>3. h.addr = None => Withheld(h)
      BY <1>4 DEF AudienceOK
    <2> HIDE DEF h
    <2> QED  BY <2>2, <2>3
  <1>6. /\ v \in Snap /\ v.seq = n /\ v.stamp = clock + 1 /\ v.at <= clock + 1
        /\ v.deleted = (v.status = "deleted") /\ (v.addr = None => Withheld(v))
    <2> DEFINE at == IF h.consent = "yes" /\ h.fresh THEN clock + 1 ELSE IF n > 1 THEN versions[a][n - 1].at ELSE 0
    <2>1. at \in Nat /\ at <= clock + 1
      <3>1. n > 1 => versions[a][n - 1] \in Snap /\ versions[a][n - 1].at <= clock
        BY <1>2, <1>3, <1>4 DEF Dated
      <3> QED  BY <1>3, <3>1 DEF Snap
    <2>2. v = [seq |-> n, status |-> h.status, consent |-> h.consent, at |-> at, addr |-> h.addr,
               deleted |-> h.status = "deleted", erasure |-> h.erasure, stamp |-> clock + 1]
      BY DEF Snapshot
    <2> HIDE DEF at, v, h, n
    <2>3. v \in Snap
      BY <1>3, <1>4, <1>5, <2>1, <2>2 DEF Snap
    <2> QED  BY <1>5, <2>1, <2>2, <2>3 DEF Withheld
  <1> HIDE DEF v, h
  <1>7. /\ versions'[a] = Append(versions[a], v) /\ \A b \in Accounts \ {a} : versions'[b] = versions[b]
        /\ Len(versions'[a]) = n /\ versions'[a][n] = v /\ versions' \in [Accounts -> Seq(Snap)]
        /\ \A k \in 1 .. n - 1 : versions'[a][k] = versions[a][k]
        /\ n - 1 = Len(versions[a])
    BY <1>1, <1>3, <1>6
  <1> HIDE DEF n
  <1>8. RunOK'
    <2>1. RunOK
      BY <1>2 DEF Typed
    <2> SUFFICES ASSUME run # NoRun
                 PROVE  RunOK'
      BY <1>1 DEF RunOK
    <2>2. \A x \in run.got : x[1] \in Accounts /\ x[2] \in 1 .. Len(versions'[x[1]])
      <3>1. ASSUME NEW x \in run.got
            PROVE  x[1] \in Accounts /\ x[2] \in 1 .. Len(versions'[x[1]])
        <4>1. x[1] \in Accounts /\ x[2] \in 1 .. Len(versions[x[1]])
          BY <2>1 DEF RunOK
        <4>2. CASE x[1] = a
          BY <1>4, <1>7, <4>1, <4>2
        <4>3. CASE x[1] # a
          BY <1>7, <4>1, <4>3
        <4> QED  BY <4>2, <4>3
      <3> QED  BY <3>1
    <2>3. run.asOf # None => run.asOf \in 0 .. clock'
      BY <1>1, <1>3, <2>1 DEF RunOK
    <2> QED  BY <1>1, <2>1, <2>2, <2>3 DEF RunOK
  <1>9. Typed'
    BY <1>1, <1>2, <1>7, <1>8 DEF Typed
  <1>10. Dated'
    <2> SUFFICES ASSUME NEW b \in Accounts
                 PROVE  /\ \A k \in 1 .. Len(versions'[b]) :
                             LET w == versions'[b][k] IN
                             /\ w.seq = k /\ w.stamp \in 1 .. clock' /\ w.at <= clock'
                             /\ w.deleted = (w.status = "deleted") /\ (w.addr = None => Withheld(w))
                        /\ acct'[b] # None => acct'[b].seq \in 1 .. Len(versions'[b])
      BY DEF Dated
    <2>1. /\ \A k \in 1 .. Len(versions[b]) :
               LET w == versions[b][k] IN
               /\ w \in Snap /\ w.seq = k /\ w.stamp \in 1 .. clock /\ w.at <= clock
               /\ w.deleted = (w.status = "deleted") /\ (w.addr = None => Withheld(w))
          /\ acct[b] # None => acct[b].seq \in 1 .. Len(versions[b])
      BY <1>2, <1>3 DEF Dated
    <2>2. ASSUME NEW w, w \in Snap, w.stamp \in 1 .. clock, w.at <= clock
          PROVE  w.stamp \in 1 .. clock' /\ w.at <= clock'
      BY <1>1, <1>3, <2>2 DEF Snap
    <2>3. CASE b # a
      BY <1>1, <1>7, <2>1, <2>2, <2>3
    <2>4. CASE b = a
      BY <1>1, <1>3, <1>4, <1>6, <1>7, <2>1, <2>2, <2>4
    <2> QED  BY <2>3, <2>4
  <1>11. NeverBehind'
    BY <1>1, <1>2 DEF NeverBehind
  <1>12. Reads'
    <2> SUFFICES ASSUME run # NoRun, ~run.bad, NEW p \in DOMAIN Pages, Covered(p)
                 PROVE  /\ run.asOf # None
                        /\ \A b \in Pages[p] \ hidden :
                             LET k == Len(versions'[b]) IN
                             /\ k > 0 /\ versions'[b][k].stamp <= run.asOf => Stored(b)' \/ <<b, k>> \in run.got
                             /\ run.mode = "full" => b \in run.seen \/ acct[b] = None \/ b \in touched
      BY <1>1 DEF Reads, Covered
    <2>1. /\ run.asOf # None
          /\ \A b \in Pages[p] \ hidden :
               LET k == Len(versions[b]) IN
               /\ k > 0 /\ versions[b][k].stamp <= run.asOf => Stored(b) \/ <<b, k>> \in run.got
               /\ run.mode = "full" => b \in run.seen \/ acct[b] = None \/ b \in touched
      BY <1>2 DEF Reads
    <2>2. run.asOf \in 0 .. clock
      BY <1>2, <2>1 DEF Typed, RunOK
    <2>3. Pages[p] \subseteq Accounts
      BY DEF AudienceOK
    <2>4. ~(versions'[a][Len(versions'[a])].stamp <= run.asOf)
      BY <1>3, <1>6, <1>7, <2>2
    <2>5. \A b \in Accounts \ {a} : Stored(b)' = Stored(b)
      BY <1>1, <1>7 DEF Stored
    <2> QED  BY <1>7, <2>1, <2>3, <2>4, <2>5
  <1>13. NoGap'
    <2> SUFFICES ASSUME NEW b \in Accounts \ hidden, Len(versions'[b]) > 0,
                        versions'[b][Len(versions'[b])].stamp <= mark
                 PROVE  acct[b] # None /\ (acct[b].erased \/ acct[b].seq = Len(versions'[b]))
      BY <1>1 DEF NoGap
    <2>1. b # a
      BY <1>3, <1>6, <1>7
    <2> QED  BY <1>2, <1>7, <2>1 DEF NoGap
  <1>14. Agreed'
    BY <1>1, <1>3, AgreedSame
  <1> QED  BY <1>9, <1>10, <1>11, <1>12, <1>13, <1>14 DEF IInv, Agreed

\* The reads and the watermark, after a step that keeps the CMS, the pull and every row it had or a later one.
LEMMA ReadsKept ==
    ASSUME AudienceOK, IInv, Dated', UNCHANGED <<versions, hidden, mark>>,
           \A b \in Accounts : Later(acct[b], acct'[b])
    PROVE  /\ \A b \in Accounts : Stored(b) => Stored(b)'
           /\ NoGap'
  <1>1. /\ versions \in [Accounts -> Seq(Snap)] /\ acct \in [Accounts -> Account \cup {None}] /\ Dated /\ NoGap
    BY DEF IInv, Typed
  <1>2. ASSUME NEW b \in Accounts, Stored(b)
        PROVE  Stored(b)'
    <2>1. acct[b].seq \in Nat /\ versions[b] \in Seq(Snap)
      BY <1>1, <1>2 DEF Stored, Account
    <2> QED  BY <1>2, <2>1, StillStored
  <1>3. NoGap'
    <2> SUFFICES ASSUME NEW b \in Accounts \ hidden, Len(versions[b]) > 0, versions[b][Len(versions[b])].stamp <= mark
                 PROVE  acct'[b] # None /\ (acct'[b].erased \/ acct'[b].seq = Len(versions[b]))
      BY DEF NoGap
    <2>1. Stored(b)
      BY <1>1 DEF NoGap, Stored
    <2>2. Stored(b)'
      BY <1>2, <2>1
    <2> QED  BY <2>2 DEF Stored
  <1> QED  BY <1>2, <1>3

\* What is known of an account stays known.
LEMMA StillAhead ==
    ASSUME IInv, UNCHANGED receipts,
           \A b \in Accounts : Later(acct[b], acct'[b]) /\ (acct'[b] # None => acct'[b].seq \in Nat)
    PROVE  NeverBehind'
  <1>1. acct \in [Accounts -> Account \cup {None}] /\ receipts \subseteq Accounts \X Nat /\ NeverBehind
    BY DEF IInv, Typed
  <1>2. ASSUME NEW x \in receipts
        PROVE  acct'[x[1]] # None /\ (acct'[x[1]].erased \/ acct'[x[1]].seq >= x[2])
    <2>1. x[1] \in Accounts /\ x[2] \in Nat
      BY <1>1
    <2>2. acct[x[1]] # None /\ acct[x[1]].seq \in Nat /\ (acct[x[1]].erased \/ acct[x[1]].seq >= x[2])
      BY <1>1, <2>1 DEF NeverBehind, Account
    <2> QED  BY <2>1, <2>2 DEF Later
  <1> QED  BY <1>2 DEF NeverBehind

LEMMA HideInv ==
    ASSUME AudienceOK, IInv, NEW a \in Accounts, Hide(a)
    PROVE  IInv'
  <1>1. /\ hidden' = hidden \cup {a}
        /\ UNCHANGED <<clock, versions, receipts, acct, supp, member, lifts, breaker, mark, run, touched, runs, faults,
                       left, lifted>>
    BY DEF Hide, state, ghosts
  <1>2. Typed' /\ Dated' /\ NeverBehind'
    BY <1>1 DEF IInv, Typed, RunOK, Dated, NeverBehind
  <1>3. Reads'
    BY <1>1 DEF IInv, Reads, Covered, Stored
  <1>4. NoGap'
    BY <1>1 DEF IInv, NoGap
  <1>5. Agreed'
    <2>1. clock \in Nat
      BY DEF IInv, Typed
    <2> QED  BY <1>1, <2>1, AgreedSame
  <1> QED  BY <1>2, <1>3, <1>4, <1>5 DEF IInv, Agreed

\* A signed event, the first time it comes.
LEMMA EventInv ==
    ASSUME AudienceOK, IInv, NEW a \in Accounts, NEW n, Event(a, n)
    PROVE  IInv'
  <1>1. /\ n \in 1 .. Len(versions[a]) /\ receipts' = receipts \cup {<<a, n>>}
        /\ ApplyAccountSnapshot(a, versions[a][n], "webhook")
        /\ UNCHANGED <<clock, versions, hidden, mark, run, runs, faults>>
    BY DEF Event, cms
  <1>2. /\ Tables' /\ Dated' /\ Agreed'
        /\ \A b \in Accounts : Later(acct[b], acct'[b]) /\ (b # a => acct'[b] = acct[b])
        /\ acct'[a] # None /\ (acct'[a].erased \/ acct'[a].seq >= n)
        /\ run # NoRun => touched \subseteq touched' /\ (acct'[a] = acct[a] \/ a \in touched')
    BY <1>1, ApplyStep
  <1>3. /\ versions \in [Accounts -> Seq(Snap)] /\ receipts \subseteq Accounts \X Nat /\ n \in Nat
        /\ acct \in [Accounts -> Account \cup {None}]
    BY <1>1 DEF IInv, Typed
  <1>4. RunOK'
    <2>1. RunOK
      BY DEF IInv, Typed
    <2> QED  BY <1>1, <2>1 DEF RunOK
  <1>5. Typed'
    BY <1>1, <1>2, <1>3, <1>4 DEF IInv, Typed, Tables
  <1>6. NeverBehind'
    <2> SUFFICES ASSUME NEW x \in receipts'
                 PROVE  acct'[x[1]] # None /\ (acct'[x[1]].erased \/ acct'[x[1]].seq >= x[2])
      BY DEF NeverBehind
    <2>1. CASE x = <<a, n>>
      BY <1>2, <2>1
    <2>2. CASE x \in receipts
      <3>1. x[1] \in Accounts /\ x[2] \in Nat
        BY <1>3, <2>2
      <3>2. acct[x[1]] # None /\ acct[x[1]].seq \in Nat /\ (acct[x[1]].erased \/ acct[x[1]].seq >= x[2])
        BY <1>3, <2>2, <3>1 DEF IInv, NeverBehind, Account
      <3>3. acct'[x[1]] # None /\ acct'[x[1]].seq \in Nat
        BY <1>2, <3>1, <3>2 DEF Later, Tables, Account
      <3> QED  BY <1>2, <3>1, <3>2, <3>3 DEF Later
    <2> QED  BY <1>1, <2>1, <2>2
  <1>7. NoGap' /\ \A b \in Accounts : Stored(b) => Stored(b)'
    BY <1>1, <1>2, ReadsKept
  <1>8. Reads'
    <2> SUFFICES ASSUME run # NoRun, ~run.bad, NEW p \in DOMAIN Pages, Covered(p)
                 PROVE  /\ run.asOf # None
                        /\ \A b \in Pages[p] \ hidden :
                             LET k == Len(versions[b]) IN
                             /\ k > 0 /\ versions[b][k].stamp <= run.asOf => Stored(b)' \/ <<b, k>> \in run.got
                             /\ run.mode = "full" => b \in run.seen \/ acct'[b] = None \/ b \in touched'
      BY <1>1 DEF Reads, Covered
    <2>1. /\ run.asOf # None
          /\ \A b \in Pages[p] \ hidden :
               LET k == Len(versions[b]) IN
               /\ k > 0 /\ versions[b][k].stamp <= run.asOf => Stored(b) \/ <<b, k>> \in run.got
               /\ run.mode = "full" => b \in run.seen \/ acct[b] = None \/ b \in touched
      BY DEF IInv, Reads
    <2>2. Pages[p] \subseteq Accounts
      BY DEF AudienceOK
    <2> QED  BY <1>2, <1>7, <2>1, <2>2
  <1> QED  BY <1>2, <1>5, <1>6, <1>7, <1>8 DEF IInv, Agreed

\* One row of the page a pull has read.
LEMMA StoreInv ==
    ASSUME AudienceOK, IInv, NEW x, Store(x)
    PROVE  IInv'
  <1> DEFINE a == x[1]
             n == x[2]
             got == run.got \ {x}
  <1>1. /\ run # NoRun /\ x \in run.got /\ UNCHANGED <<clock, versions, hidden, receipts, mark, runs, faults>>
    BY DEF Store, cms
  <1>2. RunOK /\ Typed /\ Dated
    BY DEF IInv, Typed
  <1>3. a \in Accounts /\ n \in 1 .. Len(versions[a]) /\ x = <<a, n>>
    BY <1>1, <1>2 DEF RunOK
  <1>4. \/ /\ Skippable(a, versions[a][n]) /\ UNCHANGED <<acct, supp, member, lifts, breaker, touched, left, lifted>>
           /\ run' = [run EXCEPT !.got = got]
        \/ /\ ApplyAccountSnapshot(a, versions[a][n], "pull")
           /\ run' = [run EXCEPT !.got = got, !.roles = run.roles + RoleChanges(member, member')]
    BY DEF Store, ghosts
  <1>5. /\ versions \in [Accounts -> Seq(Snap)] /\ acct \in [Accounts -> Account \cup {None}]
    BY <1>2 DEF Typed
  <1>6. /\ Tables' /\ Dated' /\ Agreed'
        /\ \A b \in Accounts : Later(acct[b], acct'[b]) /\ (b # a => acct'[b] = acct[b])
        /\ acct'[a] # None /\ (acct'[a].erased \/ acct'[a].seq >= n)
        /\ touched \subseteq touched' /\ (acct'[a] = acct[a] \/ a \in touched')
    <2>1. CASE ApplyAccountSnapshot(a, versions[a][n], "pull")
      <3> HIDE DEF a, n
      <3> QED  BY <1>1, <1>3, <2>1, ApplyStep
    <2>2. CASE Skippable(a, versions[a][n]) /\ UNCHANGED <<acct, supp, member, lifts, breaker, touched, left, lifted>>
      <3>1. versions[a][n].seq = n /\ n \in Nat
        BY <1>2, <1>3 DEF Dated
      <3>2. acct[a] # None /\ acct[a].seq = n
        BY <2>2, <3>1 DEF Skippable
      <3>3. Tables'
        BY <1>2, <2>2 DEF Typed, Tables
      <3>4. Dated'
        BY <1>1, <1>2, <2>2 DEF Dated
      <3>5. clock \in Nat
        BY <1>2 DEF Typed
      <3>6. Agreed'
        BY <1>1, <2>2, <3>5, AgreedSame
      <3>7. \A b \in Accounts : acct[b] # None => acct[b].seq \in Nat
        BY <1>5 DEF Account
      <3> QED  BY <2>2, <3>1, <3>2, <3>3, <3>4, <3>6, <3>7 DEF Later
    <2> QED  BY <1>4, <2>1, <2>2
  <1>7. /\ run'.mode = run.mode /\ run'.page = run.page /\ run'.got = got /\ run'.fetched = run.fetched
        /\ run'.seen = run.seen /\ run'.asOf = run.asOf /\ run'.since = run.since /\ run'.bad = run.bad
        /\ run' = [mode |-> run'.mode, page |-> run'.page, got |-> run'.got, fetched |-> run'.fetched,
                   seen |-> run'.seen, asOf |-> run'.asOf, since |-> run'.since, bad |-> run'.bad,
                   count |-> run'.count, roles |-> run'.roles, opened |-> run'.opened]
    <2>1. run = [mode |-> run.mode, page |-> run.page, got |-> run.got, fetched |-> run.fetched, seen |-> run.seen,
                 asOf |-> run.asOf, since |-> run.since, bad |-> run.bad, count |-> run.count, roles |-> run.roles,
                 opened |-> run.opened]
      BY <1>1, <1>2 DEF RunOK
    <2> HIDE DEF got, a, n
    <2> QED  BY <1>4, <2>1
  <1>8. RunOK'
    BY <1>1, <1>2, <1>7 DEF RunOK
  <1>9. Typed'
    BY <1>1, <1>2, <1>6, <1>8 DEF Typed, Tables
  <1>10. NeverBehind'
    <2>1. \A b \in Accounts : acct'[b] # None => acct'[b].seq \in Nat
      BY <1>6 DEF Tables, Account
    <2> QED  BY <1>1, <1>6, <2>1, StillAhead
  <1>11. NoGap' /\ \A b \in Accounts : Stored(b) => Stored(b)'
    BY <1>1, <1>6, ReadsKept
  <1>12. n = Len(versions[a]) => Stored(a)'
    <2>1. acct'[a].seq \in 1 .. Len(versions[a]) /\ Len(versions[a]) \in Nat
      BY <1>1, <1>3, <1>5, <1>6 DEF Dated
    <2> QED  BY <1>1, <1>6, <2>1 DEF Stored
  <1>13. Reads'
    <2> SUFFICES ASSUME ~run.bad, NEW p \in DOMAIN Pages, Covered(p)
                 PROVE  /\ run.asOf # None
                        /\ \A b \in Pages[p] \ hidden :
                             LET k == Len(versions[b]) IN
                             /\ k > 0 /\ versions[b][k].stamp <= run.asOf => Stored(b)' \/ <<b, k>> \in got
                             /\ run.mode = "full" => b \in run.seen \/ acct'[b] = None \/ b \in touched'
      BY <1>1, <1>7 DEF Reads, Covered
    <2>1. /\ run.asOf # None
          /\ \A b \in Pages[p] \ hidden :
               LET k == Len(versions[b]) IN
               /\ k > 0 /\ versions[b][k].stamp <= run.asOf => Stored(b) \/ <<b, k>> \in run.got
               /\ run.mode = "full" => b \in run.seen \/ acct[b] = None \/ b \in touched
      BY <1>1 DEF IInv, Reads
    <2>2. Pages[p] \subseteq Accounts
      BY DEF AudienceOK
    <2>3. ASSUME NEW b \in Accounts, <<b, Len(versions[b])>> = x
          PROVE  Stored(b)'
      BY <1>12, <2>3
    <2> HIDE DEF a, n
    <2> QED  BY <1>6, <1>11, <2>1, <2>2, <2>3
  <1> QED  BY <1>6, <1>9, <1>10, <1>11, <1>13 DEF IInv, Agreed

\* Mailercloud reports an opt-out.
LEMMA OptOutInv ==
    ASSUME AudienceOK, IInv, NEW e \in Addresses, NEW reason \in Liftable, OptOut(e, reason)
    PROVE  IInv'
  <1> DEFINE at   == clock + 1
             hit  == {IF r.addr = e THEN [r EXCEPT !.reason = Escalated(r, reason), !.seen = at] ELSE r : r \in supp}
             born == [addr |-> e, acct |-> None, reason |-> reason, seen |-> at, clear |-> TRUE]
             new  == IF \E r \in supp : r.addr = e THEN hit ELSE supp \cup {born}
  <1>1. /\ Typed /\ Dated /\ NeverBehind /\ Reads /\ NoGap /\ AbsentWasHidden /\ MemberFollows /\ OptedOutOnce
        /\ OptOutStands
    BY DEF IInv
  <1>2. /\ clock \in Nat /\ supp \subseteq OptedOut /\ member \in [Addresses -> Member \cup {None}]
        /\ acct \in [Accounts -> Account \cup {None}] /\ None \notin Addresses
        /\ left \in [Addresses -> Nat] /\ lifted \in [Addresses -> Nat]
    BY <1>1 DEF Typed, AudienceOK
  <1>3. UNCHANGED <<versions, hidden, receipts, acct, lifts, breaker, mark, rows, run, touched, runs, faults, lifted>>
    BY DEF OptOut, cms, state
  <1>4. CASE ~IsFresh(e, reason)
    <2>1. UNCHANGED <<clock, supp, member, left>>
      BY <1>2, <1>4 DEF OptOut, IsFresh
    <2>2. Typed' /\ Dated' /\ NeverBehind' /\ NoGap'
      BY <1>1, <1>3, <2>1 DEF Typed, RunOK, Dated, NeverBehind, NoGap
    <2>3. Reads'
      BY <1>1, <1>3, <2>1 DEF Reads, Covered, Stored
    <2>4. Agreed'
      BY <1>2, <1>3, <2>1, AgreedSame
    <2> QED  BY <2>2, <2>3, <2>4 DEF IInv, Agreed
  <1>5. CASE IsFresh(e, reason)
    <2>1. /\ supp' = Stamped(acct, new, {e}) /\ clock' = at
          /\ member' = [member EXCEPT ![e] = IF @ = None THEN None ELSE [@ EXCEPT !.held = TRUE]]
          /\ left' = [left EXCEPT ![e] = at]
      BY <1>2, <1>5 DEF OptOut, IsFresh
    <2>2. ASSUME NEW r \in supp, r.addr = e
          PROVE  LET q == [r EXCEPT !.reason = Escalated(r, reason), !.seen = at] IN
                 /\ q \in OptedOut /\ q.addr = e /\ q.acct = r.acct /\ q.reason \in Liftable /\ q.seen = at
      <3>1. r \in OptedOut /\ r.reason \in Liftable
        BY <1>1, <1>2, <2>2 DEF OptedOutOnce
      <3>2. Escalated(r, reason) \in Liftable /\ Escalated(r, reason) \in DOMAIN Rank
        BY <3>1 DEF Escalated, Liftable, Rank
      <3> DEFINE x == Escalated(r, reason)
                 q == [r EXCEPT !.reason = x, !.seen = at]
      <3>3. at \in Nat
        BY <1>2
      <3> HIDE DEF x, at
      <3>4. q.addr = e /\ q.acct = r.acct /\ q.reason = x /\ q.seen = at
        BY <2>2, <3>1 DEF OptedOut
      <3>5. q \in OptedOut
        BY <3>1, <3>2, <3>3 DEF OptedOut, x
      <3> HIDE DEF q
      <3> QED  BY <3>2, <3>4, <3>5 DEF x, q
    <2>3. born \in OptedOut /\ born.addr = e /\ born.reason \in Liftable /\ born.seen = at
      BY <1>2 DEF OptedOut, Liftable, Rank
    <2> HIDE DEF born
    <2>4. \A q \in new : \/ q \in supp /\ q.addr # e
                         \/ /\ q \in OptedOut /\ q.addr = e /\ q.reason \in Liftable /\ q.seen = at
                            /\ (q = born \/ \E r \in supp : r.addr = e /\ q.acct = r.acct)
      BY <2>2, <2>3
    <2>5. \E q \in new : q.addr = e
      BY <2>2, <2>3
    <2>6. \A r \in supp : r.addr # e => r \in new
      OBVIOUS
    <2>7. OneEach(new)
      <3>1. \A r, q \in supp : r.addr # None /\ r.addr = q.addr => r = q
        BY <1>1 DEF OptedOutOnce
      <3>2. CASE \E r \in supp : r.addr = e
        <4>1. PICK r \in supp : r.addr = e
          BY <3>2
        <4>2. \A q \in new : q.addr = e => q = [r EXCEPT !.reason = Escalated(r, reason), !.seen = at]
          BY <1>2, <2>2, <3>1, <3>2, <4>1
        <4> HIDE DEF new
        <4> QED  BY <2>4, <3>1, <4>2 DEF OneEach
      <3>3. CASE ~\E r \in supp : r.addr = e
        BY <2>3, <3>1, <3>3 DEF OneEach
      <3> QED  BY <3>2, <3>3
    <2> HIDE DEF new
    <2>8. new \in SUBSET OptedOut
      BY <1>2, <2>4
    <2>9. /\ left' \in [Addresses -> Nat] /\ left'[e] = at /\ \A f \in Addresses \ {e} : left'[f] = left[f]
      BY <1>2, <2>1
    <2>10. \A r \in new : r.addr # None => r.reason \in Liftable /\ r.seen = left'[r.addr]
      <3> SUFFICES ASSUME NEW r \in new, r.addr # None
                   PROVE  r.reason \in Liftable /\ r.seen = left'[r.addr]
        OBVIOUS
      <3>1. CASE r.addr = e
        BY <2>4, <2>9, <3>1
      <3>2. CASE r.addr # e
        <4>1. r \in supp /\ r.addr \in Addresses
          BY <1>2, <2>4, <3>2 DEF OptedOut
        <4> QED  BY <1>1, <2>9, <3>2, <4>1 DEF OptedOutOnce
      <3> QED  BY <3>1, <3>2
    <2>11. /\ supp' \subseteq OptedOut /\ OneEach(supp')
      BY <1>2, <2>1, <2>7, <2>8, StampedTyped, StampedOne
    <2>12. \A q \in supp' : \E r \in new : Restamp(q, r)
      BY <2>1, <2>8, StampedRows
    <2>13. \A q \in supp' : q.addr # None => q.reason \in Liftable /\ q.seen = left'[q.addr]
      <3> SUFFICES ASSUME NEW q \in supp', q.addr # None
                   PROVE  q.reason \in Liftable /\ q.seen = left'[q.addr]
        OBVIOUS
      <3>1. PICK r \in new : Restamp(q, r)
        BY <2>12
      <3>2. q.addr = r.addr /\ q.reason = r.reason /\ q.seen = r.seen
        BY <2>8, <3>1 DEF Restamp, OptedOut
      <3> QED  BY <2>10, <3>2
    <2>14. \A f : HasOut(supp', f) <=> HasOut(new, f)
      BY <2>1, <2>8, StampedOuts
    <2>15. OptedOutOnce'
      <3>1. \A f \in Addresses : left'[f] <= clock' /\ lifted'[f] <= clock'
        BY <1>1, <1>2, <1>3, <2>1, <2>9 DEF OptedOutOnce
      <3>2. \A r, q \in supp' : r.addr # None /\ r.addr = q.addr => r = q
        BY <2>11 DEF OneEach
      <3> QED  BY <2>13, <3>1, <3>2 DEF OptedOutOnce
    <2>16. OptOutStands'
      <3> SUFFICES ASSUME NEW f \in Addresses
                   PROVE  HasOut(supp', f) <=> left'[f] > lifted[f]
        BY <1>3 DEF OptOutStands, HasOut
      <3>1. CASE f = e
        <4>1. HasOut(new, e)
          BY <2>4, <2>5 DEF HasOut
        <4>2. lifted[e] \in Nat /\ lifted[e] <= clock
          BY <1>1, <1>2 DEF OptedOutOnce
        <4> QED  BY <1>2, <2>9, <2>14, <3>1, <4>1, <4>2
      <3>2. CASE f # e
        <4>1. HasOut(new, f) <=> HasOut(supp, f)
          BY <2>4, <2>6, <3>2 DEF HasOut
        <4>2. HasOut(supp, f) <=> left[f] > lifted[f]
          BY <1>1 DEF OptOutStands, HasOut
        <4> QED  BY <2>9, <2>14, <3>2, <4>1, <4>2
      <3> QED  BY <3>1, <3>2
    <2>17. /\ member' \in [Addresses -> Member \cup {None}]
           /\ \A f \in Addresses : Follows(acct, supp', member'[f], f)
      <3>1. member[e] # None => /\ [member[e] EXCEPT !.held = TRUE] \in Member
                                /\ [member[e] EXCEPT !.held = TRUE].role = member[e].role
                                /\ [member[e] EXCEPT !.held = TRUE].bar = member[e].bar
                                /\ [member[e] EXCEPT !.held = TRUE].held = TRUE
        BY <1>2 DEF Member
      <3>2. member'[e] = (IF member[e] = None THEN None ELSE [member[e] EXCEPT !.held = TRUE])
            /\ \A f \in Addresses \ {e} : member'[f] = member[f]
        BY <1>2, <2>1
      <3>3. member' \in [Addresses -> Member \cup {None}]
        BY <1>2, <2>1, <3>1
      <3>4. \A f \in Addresses : Follows(acct, supp, member[f], f)
        BY <1>1 DEF MemberFollows, Follows
      <3>5. None \notin Member
        BY DEF AudienceOK
      <3>6. Follows(acct, supp', member'[e], e)
        BY <3>1, <3>2, <3>4, <3>5 DEF Follows
      <3>7. ASSUME NEW f \in Addresses \ {e}
            PROVE  Follows(acct, supp', member'[f], f)
        <4>1. ASSUME Suppressed(supp', f, Live(acct, f))
              PROVE  Suppressed(supp, f, Live(acct, f))
          <5>1. Suppressed(new, f, Live(acct, f))
            BY <2>1, <2>8, <4>1, StampedKeeps
          <5>2. PICK q \in new : q.addr = f \/ q.acct \in Live(acct, f)
            BY <5>1 DEF Suppressed
          <5>3. q # born
            <6>1. born.addr = e /\ born.acct = None
              BY DEF born
            <6>2. None \notin Live(acct, f)
              BY DEF Live, Holders, AudienceOK
            <6> QED  BY <5>2, <6>1, <6>2
          <5>4. CASE q \in supp
            BY <5>2, <5>4 DEF Suppressed
          <5>5. CASE \E r \in supp : q.addr = e /\ q.acct = r.acct
            BY <5>2, <5>5 DEF Suppressed
          <5> QED  BY <2>4, <5>3, <5>4, <5>5
        <4> QED  BY <3>2, <3>4, <4>1 DEF Follows
      <3> QED  BY <3>3, <3>6, <3>7
    <2>18. MemberFollows'
      BY <1>3, <2>17 DEF MemberFollows, Follows
    <2>19. RunOK'
      <3>1. RunOK
        BY <1>1 DEF Typed
      <3>2. run # NoRun /\ run.asOf # None => run.asOf \in 0 .. clock'
        BY <1>2, <2>1, <3>1 DEF RunOK
      <3> QED  BY <1>3, <3>1, <3>2 DEF RunOK
    <2>20. clock' \in Nat /\ mark' \in 0 .. clock'
      BY <1>1, <1>2, <1>3, <2>1 DEF Typed
    <2>21. Typed'
      BY <1>1, <1>3, <2>9, <2>11, <2>17, <2>19, <2>20 DEF Typed
    <2>22. Dated'
      <3>1. ASSUME NEW b \in Accounts, NEW k \in 1 .. Len(versions[b])
            PROVE  versions[b][k].stamp \in 1 .. clock' /\ versions[b][k].at <= clock'
        <4>1. versions[b] \in Seq(Snap)
          BY <1>1 DEF Typed
        <4>2. versions[b][k] \in Snap
          BY <4>1
        <4> QED  BY <1>1, <1>2, <2>1, <4>2 DEF Dated, Snap
      <3> QED  BY <1>1, <1>3, <3>1 DEF Dated
    <2>23. NeverBehind' /\ NoGap' /\ AbsentWasHidden'
      BY <1>1, <1>3 DEF NeverBehind, NoGap, AbsentWasHidden
    <2>24. Reads'
      BY <1>1, <1>3 DEF Reads, Covered, Stored
    <2> QED  BY <2>15, <2>16, <2>18, <2>21, <2>22, <2>23, <2>24 DEF IInv
  <1> QED  BY <1>4, <1>5

\* The writer has brought Mailercloud in line with a member.
LEMMA WrittenInv ==
    ASSUME AudienceOK, IInv, NEW e \in Addresses, Written(e)
    PROVE  IInv'
  <1> DEFINE m == member[e]
             tagged == (m.role # "NONE" /\ (~m.held \/ m.tagged)) \/ m.bar
             w == IF m.role = "NONE" /\ ~m.bar THEN None ELSE [m EXCEPT !.tagged = tagged, !.resub = FALSE]
  <1>1. /\ m # None /\ member' = [member EXCEPT ![e] = w]
        /\ UNCHANGED <<clock, versions, hidden, receipts, acct, supp, lifts, breaker, mark, rows, run, touched, runs,
                       faults, left, lifted>>
    BY DEF Written, cms, state, ghosts
  <1>2. /\ Typed /\ MemberFollows /\ member \in [Addresses -> Member \cup {None}] /\ None \notin Member
    BY DEF IInv, Typed, AudienceOK
  <1>3. m \in Member /\ tagged \in BOOLEAN
    BY <1>1, <1>2 DEF Member
  <1>4. ASSUME ~(m.role = "NONE" /\ ~m.bar)
        PROVE  w \in Member /\ w.role = m.role /\ w.bar = m.bar /\ w.held = m.held
    <2>1. w = [m EXCEPT !.tagged = tagged, !.resub = FALSE]
      BY <1>4
    <2> HIDE DEF tagged, w, m
    <2> QED  BY <1>3, <2>1 DEF Member
  <1>5. Follows(acct, supp, m, e)
    BY <1>2 DEF MemberFollows, Follows
  <1>6. w \in Member \cup {None} /\ Follows(acct, supp, w, e)
    <2>1. CASE m.role = "NONE" /\ ~m.bar
      <3>1. w = None
        BY <2>1
      <3> HIDE DEF w, m
      <3> QED  BY <1>1, <1>5, <2>1, <3>1 DEF Follows
    <2>2. CASE ~(m.role = "NONE" /\ ~m.bar)
      <3> HIDE DEF w, m
      <3> QED  BY <1>1, <1>2, <1>4, <1>5, <2>2 DEF Follows
    <2> QED  BY <2>1, <2>2
  <1> HIDE DEF w, m
  <1>7. member' \in [Addresses -> Member \cup {None}] /\ \A f \in Addresses : Follows(acct', supp', member'[f], f)
    <2>1. \A f \in Addresses : Follows(acct, supp, member[f], f)
      BY <1>2 DEF MemberFollows, Follows
    <2> QED  BY <1>1, <1>2, <1>6, <2>1
  <1>8. MemberFollows'
    BY <1>7 DEF MemberFollows, Follows
  <1>9. Typed'
    BY <1>1, <1>2, <1>7 DEF Typed, RunOK
  <1>10. Dated' /\ NeverBehind' /\ NoGap' /\ AbsentWasHidden' /\ OptedOutOnce' /\ OptOutStands'
    BY <1>1 DEF IInv, Dated, NeverBehind, NoGap, AbsentWasHidden, OptedOutOnce, OptOutStands
  <1>11. Reads'
    BY <1>1 DEF IInv, Reads, Covered, Stored
  <1> QED  BY <1>8, <1>9, <1>10, <1>11 DEF IInv

-----------------------------------------------------------------------------
(* A pull's own steps                                                      *)

PullFields ==
    run = [mode |-> run.mode, page |-> run.page, got |-> run.got, fetched |-> run.fetched, seen |-> run.seen,
           asOf |-> run.asOf, since |-> run.since, bad |-> run.bad, count |-> run.count, roles |-> run.roles,
           opened |-> run.opened]

\* Steps that only move the pull on.
LEMMA PullStepInv ==
    ASSUME AudienceOK, IInv, RunOK', Reads', breaker' \in Breakers, runs' \in 0 .. MaxRuns, faults' \in 0 .. MaxFaults,
           touched' \subseteq Accounts,
           UNCHANGED <<clock, versions, hidden, receipts, acct, supp, member, lifts, mark, left, lifted>>
    PROVE  IInv'
  <1>1. Typed'
    BY DEF IInv, Typed
  <1>2. Dated' /\ NeverBehind' /\ NoGap'
    BY DEF IInv, Dated, NeverBehind, NoGap
  <1>3. Agreed'
    <2>1. clock \in Nat
      BY DEF IInv, Typed
    <2> QED  BY <2>1, AgreedSame
  <1> QED  BY <1>1, <1>2, <1>3 DEF IInv, Agreed

LEMMA StartInv ==
    ASSUME AudienceOK, IInv, NEW mode \in {"full", "incr"}, Start(mode)
    PROVE  IInv'
  <1>1. /\ UNCHANGED <<clock, versions, hidden, receipts, acct, supp, member, lifts, mark, left, lifted, faults>>
        /\ runs < MaxRuns /\ runs' = runs + 1 /\ touched' = {}
    BY DEF Start, cms, ghosts
  <1>2. /\ run'.mode = mode /\ run'.page = 1 /\ run'.got = {} /\ run'.fetched = FALSE /\ run'.asOf = None
        /\ run'.since = (IF mode = "incr" THEN mark - 1 ELSE 0) /\ run'.bad = FALSE /\ PullFields'
    BY DEF Start, PullFields
  <1>3. breaker' \in Breakers
    BY DEF Start, IInv, Typed, Opened, Breakers
  <1>4. runs' \in 0 .. MaxRuns /\ faults' \in 0 .. MaxFaults
    BY <1>1 DEF IInv, Typed, AudienceOK
  <1>5. Len(Pages) \in Nat
    BY DEF AudienceOK
  <1>6. RunOK'
    <2>1. run'.mode \in {"full", "incr"} /\ run'.page \in 1 .. Len(Pages) + 1
      BY <1>2, <1>5
    <2>2. run'.fetched \in BOOLEAN /\ run'.bad \in BOOLEAN /\ ~run'.fetched
      BY <1>2
    <2>3. run'.since = (IF run'.mode = "incr" THEN mark' - 1 ELSE 0)
      BY <1>1, <1>2
    <2> QED  BY <1>2, <2>1, <2>2, <2>3 DEF RunOK, PullFields
  <1>7. Reads'
    <2>1. \A p \in DOMAIN Pages : ~Covered(p)'
      <3>1. \A p \in DOMAIN Pages : p \in Nat /\ p >= 1
        BY DEF AudienceOK
      <3> QED  BY <1>2, <3>1 DEF Covered
    <2> QED  BY <2>1 DEF Reads
  <1> QED  BY <1>1, <1>3, <1>4, <1>6, <1>7, PullStepInv

LEMMA FetchInv ==
    ASSUME AudienceOK, IInv, Fetch
    PROVE  IInv'
  <1> DEFINE got == Listed(run.page, run.since)
  <1>1. /\ run # NoRun /\ ~run.fetched /\ run.page <= Len(Pages)
        /\ run' = [run EXCEPT !.fetched = TRUE, !.got = got, !.asOf = AsOf, !.count = @ + Cardinality(got),
                              !.seen = @ \cup {x[1] : x \in got}]
        /\ UNCHANGED <<clock, versions, hidden, receipts, acct, supp, member, lifts, breaker, mark, left, lifted, touched,
                       runs, faults>>
    BY DEF Fetch, cms, ghosts, state
  <1>2. Typed /\ RunOK /\ Dated /\ Reads /\ NoGap
    BY DEF IInv, Typed
  <1>3. PullFields /\ run.mode \in {"full", "incr"} /\ run.page \in 1 .. Len(Pages) + 1 /\ run.got = {}
        /\ run.since = (IF run.mode = "incr" THEN mark - 1 ELSE 0) /\ run.bad \in BOOLEAN
        /\ (run.asOf # None => run.asOf \in 0 .. clock)
    BY <1>1, <1>2 DEF RunOK, PullFields
  <1>4. clock \in Nat /\ mark \in 0 .. clock /\ Len(Pages) \in Nat
        /\ versions \in [Accounts -> Seq(Snap)] /\ acct \in [Accounts -> Account \cup {None}]
    BY <1>2 DEF Typed, AudienceOK
  <1> HIDE DEF got
  <1>5. /\ run'.mode = run.mode /\ run'.page = run.page /\ run'.got = got /\ run'.fetched = TRUE
        /\ run'.seen = run.seen \cup {x[1] : x \in got} /\ run'.asOf = AsOf /\ run'.since = run.since
        /\ run'.bad = run.bad /\ PullFields'
    BY <1>1, <1>3 DEF PullFields
  <1>6. AsOf \in 0 .. clock /\ (run.asOf # None => AsOf = run.asOf)
    BY <1>3, <1>4 DEF AsOf
  <1>7. Pages[run.page] \subseteq Accounts
    BY <1>1, <1>3 DEF AudienceOK
  <1>8. \A x \in got : /\ x[1] \in Accounts /\ x[2] \in 1 .. Len(versions[x[1]])
                       /\ x = <<x[1], x[2]>> /\ x[1] \in run'.seen
    <2> SUFFICES ASSUME NEW x \in got
                 PROVE  x[1] \in Accounts /\ x[2] \in 1 .. Len(versions[x[1]]) /\ x = <<x[1], x[2]>> /\ x[1] \in run'.seen
      OBVIOUS
    <2>1. PICK b \in Pages[run.page] : x = <<b, Len(versions[b])>> /\ versions[b] # <<>>
      BY DEF got, Listed
    <2>2. versions[b] \in Seq(Snap)
      BY <1>4, <1>7, <2>1
    <2>3. Len(versions[b]) \in Nat /\ Len(versions[b]) # 0
      BY <2>1, <2>2
    <2> QED  BY <1>5, <1>7, <2>1, <2>3
  <1>9. RunOK'
    <2>1. /\ run'.mode \in {"full", "incr"} /\ run'.page \in 1 .. Len(Pages) + 1 /\ run'.page <= Len(Pages)
          /\ run'.fetched \in BOOLEAN /\ run'.bad \in BOOLEAN /\ run'.fetched
      BY <1>1, <1>3, <1>5
    <2>2. run'.asOf \in 0 .. clock' /\ run'.since = IF run'.mode = "incr" THEN mark' - 1 ELSE 0
      BY <1>1, <1>3, <1>5, <1>6
    <2>3. \A x \in run'.got : /\ x[1] \in Accounts /\ x[2] \in 1 .. Len(versions'[x[1]])
                              /\ x = <<x[1], x[2]>> /\ x[1] \in run'.seen
      BY <1>1, <1>5, <1>8
    <2> QED  BY <1>5, <2>1, <2>2, <2>3 DEF RunOK, PullFields
  <1>10. Reads'
    <2> SUFFICES ASSUME ~run.bad, NEW p \in DOMAIN Pages, Covered(p)', NEW b \in Pages[p] \ hidden
                 PROVE  LET n == Len(versions[b]) IN
                        /\ n > 0 /\ versions[b][n].stamp <= AsOf => Stored(b) \/ <<b, n>> \in got
                        /\ run.mode = "full" => b \in run'.seen \/ acct[b] = None \/ b \in touched
      <3>1. AsOf # None => run'.asOf # None
        BY <1>5
      <3>2. \A b \in Accounts : Stored(b)' = Stored(b)
        BY <1>1 DEF Stored
      <3>3. \A p \in DOMAIN Pages : Pages[p] \subseteq Accounts
        BY DEF AudienceOK
      <3>4. AsOf # None \/ run'.asOf # None
        BY <1>5, <1>6, <1>4 DEF AudienceOK
      <3> QED  BY <1>1, <1>5, <3>2, <3>3, <3>4 DEF Reads
    <2> DEFINE n == Len(versions[b])
    <2>1. b \in Accounts /\ p \in Nat
      BY DEF AudienceOK
    <2>2. versions[b] \in Seq(Snap) /\ n \in Nat
      BY <1>4, <2>1
    <2>3. CASE p < run.page
      <3>1. Covered(p)
        BY <2>3 DEF Covered
      <3>2. /\ run.asOf # None
            /\ n > 0 /\ versions[b][n].stamp <= run.asOf => Stored(b) \/ <<b, n>> \in run.got
            /\ run.mode = "full" => b \in run.seen \/ acct[b] = None \/ b \in touched
        BY <1>1, <1>2, <3>1 DEF Reads
      <3> QED  BY <1>3, <1>5, <1>6, <3>2
    <2>4. CASE p = run.page
      <3>1. n > 0 => versions[b][n].stamp \in 1 .. clock /\ versions[b] # <<>>
        BY <1>2, <2>1, <2>2 DEF Dated
      <3>2. n > 0 /\ versions[b][n].stamp > run.since => <<b, n>> \in got
        BY <2>4, <3>1 DEF got, Listed
      <3>3. <<b, n>> \in got => b \in run'.seen
        BY <1>8
      <3>4. n > 0 => Stored(b) \/ <<b, n>> \in got
        <4>1. CASE run.mode = "full"
          BY <1>3, <3>1, <3>2, <4>1
        <4>2. CASE run.mode = "incr" /\ n > 0 /\ ~(versions[b][n].stamp > run.since)
          <5>1. versions[b][n].stamp <= mark
            BY <1>3, <1>4, <3>1, <4>2
          <5> QED  BY <1>2, <2>1, <4>2, <5>1 DEF NoGap, Stored
        <4> QED  BY <1>3, <3>2, <4>1, <4>2
      <3>5. n = 0 => acct[b] = None
        BY <1>2, <2>1 DEF Dated
      <3>6. run.mode = "full" => b \in run'.seen \/ acct[b] = None
        <4>1. run.mode = "full" /\ n > 0 => versions[b][n].stamp > run.since
          BY <1>3, <3>1
        <4> QED  BY <2>2, <3>2, <3>3, <3>5, <4>1
      <3> QED  BY <3>4, <3>6
    <2>5. p < run.page \/ p = run.page
      BY <1>3, <1>5, <2>1 DEF Covered
    <2> QED  BY <2>3, <2>4, <2>5
  <1>11. breaker' \in Breakers /\ runs' \in 0 .. MaxRuns /\ faults' \in 0 .. MaxFaults /\ touched' \subseteq Accounts
    BY <1>1, <1>2 DEF Typed
  <1> QED  BY <1>1, <1>9, <1>10, <1>11, PullStepInv

\* A row that fails, a page that is not answered, a page done.
LEMMA RowFailsInv ==
    ASSUME AudienceOK, IInv, NEW x, RowFails(x)
    PROVE  IInv'
  <1>1. /\ run # NoRun /\ run' = [run EXCEPT !.got = @ \ {x}, !.bad = TRUE] /\ faults < MaxFaults /\ faults' = faults + 1
        /\ UNCHANGED <<clock, versions, hidden, receipts, acct, supp, member, lifts, breaker, mark, left, lifted, touched,
                       runs>>
    BY DEF RowFails, cms, ghosts, state
  <1>2. RunOK /\ Typed
    BY DEF IInv, Typed
  <1>3. PullFields
    BY <1>1, <1>2 DEF RunOK, PullFields
  <1>4. /\ run'.mode = run.mode /\ run'.page = run.page /\ run'.got = run.got \ {x} /\ run'.fetched = run.fetched
        /\ run'.seen = run.seen /\ run'.asOf = run.asOf /\ run'.since = run.since /\ run'.bad = TRUE /\ PullFields'
    BY <1>1, <1>3 DEF PullFields
  <1>5. RunOK'
    BY <1>1, <1>2, <1>4 DEF RunOK, PullFields
  <1>6. Reads'
    BY <1>4 DEF Reads
  <1>7. breaker' \in Breakers /\ runs' \in 0 .. MaxRuns /\ faults' \in 0 .. MaxFaults /\ touched' \subseteq Accounts
    BY <1>1, <1>2 DEF Typed, AudienceOK
  <1> QED  BY <1>1, <1>5, <1>6, <1>7, PullStepInv

LEMMA PageFailsInv ==
    ASSUME AudienceOK, IInv, PageFails
    PROVE  IInv'
  <1>1. /\ run # NoRun /\ ~run.fetched /\ run' = [run EXCEPT !.page = Len(Pages) + 1, !.bad = TRUE]
        /\ faults < MaxFaults /\ faults' = faults + 1
        /\ UNCHANGED <<clock, versions, hidden, receipts, acct, supp, member, lifts, breaker, mark, left, lifted, touched,
                       runs>>
    BY DEF PageFails, cms, ghosts, state
  <1>2. RunOK /\ Typed
    BY DEF IInv, Typed
  <1>3. PullFields
    BY <1>1, <1>2 DEF RunOK, PullFields
  <1>4. /\ run'.mode = run.mode /\ run'.page = Len(Pages) + 1 /\ run'.got = run.got /\ run'.fetched = run.fetched
        /\ run'.seen = run.seen /\ run'.asOf = run.asOf /\ run'.since = run.since /\ run'.bad = TRUE /\ PullFields'
    BY <1>1, <1>3 DEF PullFields
  <1>5. Len(Pages) + 1 \in 1 .. Len(Pages) + 1
    BY DEF AudienceOK
  <1>6. RunOK'
    BY <1>1, <1>2, <1>4, <1>5 DEF RunOK, PullFields
  <1>7. Reads'
    BY <1>4 DEF Reads
  <1>8. breaker' \in Breakers /\ runs' \in 0 .. MaxRuns /\ faults' \in 0 .. MaxFaults /\ touched' \subseteq Accounts
    BY <1>1, <1>2 DEF Typed, AudienceOK
  <1> QED  BY <1>1, <1>6, <1>7, <1>8, PullStepInv

LEMMA NextPageInv ==
    ASSUME AudienceOK, IInv, NextPage
    PROVE  IInv'
  <1> DEFINE trips == run.roles > ChangeLimit
  <1>1. /\ run # NoRun /\ run.fetched /\ run.got = {}
        /\ breaker' = IF trips THEN Opened(breaker, "change_too_large") ELSE breaker
        /\ run' = [run EXCEPT !.page = @ + 1, !.fetched = FALSE, !.opened = @ \/ (trips /\ breaker = "none")]
        /\ UNCHANGED <<clock, versions, hidden, receipts, acct, supp, member, lifts, mark, left, lifted, touched, runs,
                       faults>>
    BY DEF NextPage, cms, ghosts
  <1>2. RunOK /\ Typed /\ Reads
    BY DEF IInv, Typed
  <1>3. PullFields /\ run.page \in 1 .. Len(Pages)
    BY <1>1, <1>2 DEF RunOK, PullFields, AudienceOK
  <1>4. /\ run'.mode = run.mode /\ run'.page = run.page + 1 /\ run'.got = run.got /\ run'.fetched = FALSE
        /\ run'.seen = run.seen /\ run'.asOf = run.asOf /\ run'.since = run.since /\ run'.bad = run.bad /\ PullFields'
    BY <1>1, <1>3 DEF PullFields
  <1>5. run.page + 1 \in 1 .. Len(Pages) + 1
    BY <1>3 DEF AudienceOK
  <1>6. RunOK'
    BY <1>1, <1>2, <1>4, <1>5 DEF RunOK, PullFields
  <1>7. \A p \in DOMAIN Pages : Covered(p)' => Covered(p)
    <2>1. \A p \in DOMAIN Pages : p \in Nat
      BY DEF AudienceOK
    <2> QED  BY <1>1, <1>3, <1>4, <2>1 DEF Covered
  <1>8. Reads'
    BY <1>1, <1>2, <1>4, <1>7 DEF Reads, Stored
  <1>9. breaker' \in Breakers /\ runs' \in 0 .. MaxRuns /\ faults' \in 0 .. MaxFaults /\ touched' \subseteq Accounts
    BY <1>1, <1>2 DEF Typed, Opened, Breakers
  <1> QED  BY <1>1, <1>6, <1>8, <1>9, PullStepInv

LEMMA RestartInv ==
    ASSUME AudienceOK, IInv, Restart
    PROVE  IInv'
  <1>1. /\ run' = NoRun /\ touched' = {} /\ faults < MaxFaults /\ faults' = faults + 1
        /\ UNCHANGED <<clock, versions, hidden, receipts, acct, supp, member, lifts, breaker, mark, left, lifted, runs>>
    BY DEF Restart, cms, ghosts, state
  <1>2. RunOK' /\ Reads'
    BY <1>1 DEF RunOK, Reads
  <1>3. breaker' \in Breakers /\ runs' \in 0 .. MaxRuns /\ faults' \in 0 .. MaxFaults /\ touched' \subseteq Accounts
    BY <1>1 DEF IInv, Typed, AudienceOK
  <1> QED  BY <1>1, <1>2, <1>3, PullStepInv

LEMMA ResumeInv ==
    ASSUME AudienceOK, IInv, Resume
    PROVE  IInv'
  <1>1. /\ breaker' = "none"
        /\ UNCHANGED <<clock, versions, hidden, receipts, acct, supp, member, lifts, mark, left, lifted, run, touched, runs,
                       faults>>
    BY DEF Resume, cms, ghosts
  <1>2. RunOK' /\ Reads'
    BY <1>1 DEF IInv, Typed, RunOK, Reads, Covered, Stored
  <1>3. breaker' \in Breakers /\ runs' \in 0 .. MaxRuns /\ faults' \in 0 .. MaxFaults /\ touched' \subseteq Accounts
    BY <1>1 DEF IInv, Typed, Breakers
  <1> QED  BY <1>1, <1>2, <1>3, PullStepInv

\* A pull that ends: a complete full load marks what it did not list.
LEMMA FinishInv ==
    ASSUME AudienceOK, IInv, Finish
    PROVE  IInv'
  <1> DEFINE absent == IF run.mode = "full" /\ Complete THEN Absent ELSE {}
             t  == [a \in Accounts |-> IF a \in absent THEN [acct[a] EXCEPT !.out = TRUE] ELSE acct[a]]
             es == {acct[a].addr : a \in absent} \ {None}
             s  == Stamped(t, supp, es)
             m  == [e \in Addresses |-> IF e \in es THEN Row(t, s, e, member[e], FALSE, FALSE, FALSE) ELSE member[e]]
  <1>1. /\ run # NoRun /\ run.page > Len(Pages) /\ acct' = t /\ supp' = s /\ member' = m
        /\ mark' = (IF Complete /\ run.asOf > mark THEN run.asOf ELSE mark)
        /\ run' = NoRun /\ touched' = {}
        /\ UNCHANGED <<clock, versions, hidden, receipts, lifts, runs, faults, left, lifted>>
    BY DEF Finish, cms, ghosts
  <1>2. breaker' \in Breakers
    <2>1. breaker \in Breakers
      BY DEF IInv, Typed
    <2> DEFINE trips == run.roles + RoleChanges(member, m) > ChangeLimit
               b1 == IF run.mode = "full" /\ ~Complete THEN Opened(breaker, "truncated_load") ELSE breaker
               b2 == IF trips THEN Opened(b1, "change_too_large") ELSE b1
    <2>2. b2 \in Breakers
      BY <2>1 DEF Opened, Breakers
    <2>3. breaker' = b2 \/ breaker' = "none"
      BY DEF Finish
    <2> HIDE DEF b2
    <2> QED  BY <2>2, <2>3 DEF Breakers
  <1>3. /\ Typed /\ RunOK /\ Dated /\ NeverBehind /\ Reads /\ NoGap /\ AbsentWasHidden /\ MemberFollows /\ OptedOutOnce
        /\ OptOutStands
    BY DEF IInv, Typed
  <1>4. /\ clock \in Nat /\ mark \in 0 .. clock /\ versions \in [Accounts -> Seq(Snap)]
        /\ acct \in [Accounts -> Account \cup {None}] /\ supp \in SUBSET OptedOut
        /\ member \in [Addresses -> Member \cup {None}]
    BY <1>3 DEF Typed
  <1>5. ~run.fetched /\ run.got = {} /\ (run.asOf # None => run.asOf \in 0 .. clock) /\ run.page \in Nat
        /\ Len(Pages) \in Nat /\ Len(Pages) > 0
    BY <1>1, <1>3 DEF RunOK, AudienceOK
  <1>6. \A p \in DOMAIN Pages : Covered(p)
    <2>1. \A p \in DOMAIN Pages : p \in Nat /\ p <= Len(Pages)
      BY DEF AudienceOK
    <2> QED  BY <1>1, <1>5, <2>1 DEF Covered
  <1>7. \A b \in Accounts : \E p \in DOMAIN Pages : b \in Pages[p]
    BY DEF AudienceOK
  <1>8. ASSUME Complete
        PROVE  /\ run.asOf \in 0 .. clock
               /\ \A b \in Accounts \ hidden :
                    LET n == Len(versions[b]) IN
                    /\ n > 0 /\ versions[b][n].stamp <= run.asOf => Stored(b)
                    /\ run.mode = "full" => b \in run.seen \/ acct[b] = None \/ b \in touched
    <2>1. ~run.bad
      BY <1>8 DEF Complete
    <2>2. \A p \in DOMAIN Pages :
            /\ run.asOf # None
            /\ \A a \in Pages[p] \ hidden :
                 LET n == Len(versions[a]) IN
                 /\ n > 0 /\ versions[a][n].stamp <= run.asOf => Stored(a) \/ <<a, n>> \in run.got
                 /\ run.mode = "full" => a \in run.seen \/ acct[a] = None \/ a \in touched
      BY <1>1, <1>3, <1>6, <2>1 DEF Reads
    <2>3. 1 \in DOMAIN Pages
      BY <1>5 DEF AudienceOK
    <2> QED  BY <1>5, <1>7, <2>2, <2>3
  <1>9. absent \subseteq Accounts /\ \A b \in absent : b \in hidden /\ acct[b] # None
    <2>1. ASSUME NEW b \in absent
          PROVE  b \in Accounts /\ b \in hidden /\ acct[b] # None
      <3>1. run.mode = "full" /\ Complete /\ b \in Absent
        BY <2>1
      <3>2. b \in Accounts /\ acct[b] # None /\ b \notin run.seen /\ b \notin touched
        BY <3>1 DEF Absent
      <3> QED  BY <1>8, <3>1, <3>2
    <2> QED  BY <2>1
  <1>10. /\ \A b \in absent : t[b] = [acct[b] EXCEPT !.out = TRUE]
         /\ \A b \in Accounts \ absent : t[b] = acct[b]
    BY <1>9
  <1> HIDE DEF absent, t
  <1>11. \A b \in absent : /\ t[b] \in Account /\ t[b] # None /\ acct[b] \in Account
                           /\ t[b].seq = acct[b].seq /\ t[b].erased = acct[b].erased /\ t[b].out = TRUE
                           /\ t[b].addr = acct[b].addr
    <2> SUFFICES ASSUME NEW b \in absent
                 PROVE  /\ t[b] \in Account /\ t[b] # None /\ acct[b] \in Account
                        /\ t[b].seq = acct[b].seq /\ t[b].erased = acct[b].erased /\ t[b].out = TRUE
                        /\ t[b].addr = acct[b].addr
      OBVIOUS
    <2>1. acct[b] \in Account
      BY <1>4, <1>9
    <2>2. t[b] = [acct[b] EXCEPT !.out = TRUE]
      BY <1>10
    <2>3. t[b] \in Account /\ t[b].seq = acct[b].seq /\ t[b].erased = acct[b].erased /\ t[b].out = TRUE
          /\ t[b].addr = acct[b].addr
      BY <2>1, <2>2 DEF Account
    <2>4. t[b] # None
      BY <2>3 DEF AudienceOK
    <2> QED  BY <2>1, <2>3, <2>4
  <1>12. t \in [Accounts -> Account \cup {None}]
    <2>1. \A b \in Accounts : t[b] \in Account \cup {None}
      BY <1>4, <1>10, <1>11
    <2>2. t = [b \in Accounts |-> t[b]]
      BY DEF t
    <2> QED  BY <2>1, <2>2
  <1>13. es \subseteq Addresses
    BY <1>11 DEF Account
  <1>14. \A b \in Accounts : Later(acct[b], acct'[b])
    <2>1. ASSUME NEW b \in Accounts
          PROVE  Later(acct[b], t[b])
      <3>1. acct[b] # None => acct[b].seq \in Nat
        BY <1>4 DEF Account
      <3>2. CASE b \in absent
        BY <1>11, <3>1, <3>2, <1>9 DEF Later
      <3>3. CASE b \notin absent
        BY <1>10, <3>1, <3>3 DEF Later
      <3> QED  BY <3>2, <3>3
    <2> QED  BY <1>1, <2>1
  <1>15. Dated'
    <2>1. \A b \in Accounts : acct'[b] # None => acct'[b].seq \in 1 .. Len(versions[b])
      BY <1>1, <1>3, <1>9, <1>10, <1>11 DEF Dated
    <2> QED  BY <1>1, <1>3, <2>1 DEF Dated
  <1>16. NeverBehind'
    <2>1. \A b \in Accounts : acct'[b] # None => acct'[b].seq \in Nat
      BY <1>1, <1>12 DEF Account
    <2> QED  BY <1>1, <1>14, <2>1, StillAhead
  <1>17. mark' \in 0 .. clock
    BY <1>1, <1>4, <1>8
  <1>18. NoGap'
    <2> SUFFICES ASSUME NEW b \in Accounts \ hidden, Len(versions[b]) > 0, versions[b][Len(versions[b])].stamp <= mark'
                 PROVE  acct'[b] # None /\ (acct'[b].erased \/ acct'[b].seq = Len(versions[b]))
      BY <1>1 DEF NoGap
    <2>1. Stored(b)
      <3>1. CASE mark' = mark
        BY <1>3, <3>1 DEF NoGap, Stored
      <3>2. CASE Complete /\ mark' = run.asOf
        BY <1>8, <3>2
      <3> QED  BY <1>1, <3>1, <3>2
    <2>2. Stored(b)'
      <3>1. acct[b].seq \in Nat /\ versions[b] \in Seq(Snap)
        BY <1>4, <2>1 DEF Stored, Account
      <3> QED  BY <1>1, <1>14, <1>15, <2>1, <3>1, StillStored
    <2> QED  BY <1>1, <2>2 DEF Stored
  <1>19. AbsentWasHidden'
    BY <1>1, <1>3, <1>9, <1>10 DEF AbsentWasHidden
  <1> HIDE DEF es
  <1>20. s \subseteq OptedOut /\ OneEach(s) /\ DatedOuts(s) /\ \A e \in Addresses : HasOut(s, e) <=> HasOut(supp, e)
    <2>1. OneEach(supp) /\ DatedOuts(supp)
      BY <1>3 DEF OptedOutOnce, OneEach, DatedOuts
    <2>2. Stamped(t, supp, es) \subseteq OptedOut /\ OneEach(Stamped(t, supp, es))
      BY <1>4, <1>12, <2>1, StampedTyped, StampedOne
    <2>3. DatedOuts(Stamped(t, supp, es)) /\ \A e : HasOut(Stamped(t, supp, es), e) <=> HasOut(supp, e)
      BY <1>4, <2>1, StampedOuts
    <2> QED  BY <2>2, <2>3
  <1> HIDE DEF s
  <1>21. OptedOutOnce'
    BY <1>1, <1>3, <1>20 DEF OptedOutOnce, OneEach, DatedOuts
  <1>22. OptOutStands'
    BY <1>1, <1>3, <1>20 DEF OptOutStands, HasOut
  <1>23. ASSUME NEW e \in Addresses
         PROVE  m[e] \in Member \cup {None} /\ Follows(t, s, m[e], e)
    <2>1. Follows(acct, supp, member[e], e)
      BY <1>3 DEF MemberFollows, Follows
    <2>2. CASE e \in es
      <3>1. m[e] = Row(t, s, e, member[e], FALSE, FALSE, FALSE)
        BY <2>2
      <3>2. ASSUME member[e] = None
            PROVE  Role(t, e) = "NONE"
        <4>1. Role(acct, e) = "NONE"
          BY <2>1, <3>2 DEF Follows
        <4>2. \A b \in Live(t, e) : b \in Live(acct, e) /\ t[b].status = acct[b].status /\ t[b].consent = acct[b].consent
          <5> SUFFICES ASSUME NEW b \in Live(t, e)
                       PROVE  b \in Live(acct, e) /\ t[b] = acct[b]
            OBVIOUS
          <5>1. b \in Accounts /\ t[b] # None /\ t[b].addr = e /\ IsLive(t[b])
            BY DEF Live, Holders
          <5>2. b \notin absent
            BY <1>11, <5>1 DEF IsLive, InScope
          <5> QED  BY <1>10, <5>1, <5>2 DEF Live, Holders
        <4> QED  BY <4>1, <4>2, FewerRoles
      <3>3. member[e] \in Member \cup {None}
        BY <1>4
      <3> HIDE DEF m
      <3> QED  BY <3>1, <3>2, <3>3, RowFollows
    <2>3. CASE e \notin es
      <3>1. m[e] = member[e] /\ member[e] \in Member \cup {None}
        BY <1>4, <2>3
      <3>2. \A b \in Accounts : acct[b] = t[b] \/ (acct[b].addr # e /\ t[b].addr # e)
        <4>1. \A b \in absent : acct[b].addr # e
          BY <2>3 DEF es, AudienceOK
        <4> QED  BY <1>10, <1>11, <4>1
      <3>3. /\ Live(acct, e) = Live(t, e) /\ Role(acct, e) = Role(t, e) /\ NoMarketing(acct, e) = NoMarketing(t, e)
        BY <3>2, SameHolders
      <3>4. Suppressed(s, e, Live(t, e)) => Suppressed(supp, e, Live(t, e))
        BY <1>4, <2>3, StampedKeeps DEF s
      <3> QED  BY <2>1, <3>1, <3>3, <3>4 DEF Follows
    <2> QED  BY <2>2, <2>3
  <1>24. member' \in [Addresses -> Member \cup {None}]
    BY <1>1, <1>23
  <1>25. MemberFollows'
    BY <1>1, <1>23 DEF MemberFollows, Follows
  <1>26. RunOK' /\ Reads'
    BY <1>1 DEF RunOK, Reads
  <1>27. Typed'
    BY <1>1, <1>2, <1>3, <1>12, <1>17, <1>20, <1>24, <1>26 DEF Typed
  <1> QED  BY <1>15, <1>16, <1>18, <1>19, <1>21, <1>22, <1>25, <1>26, <1>27 DEF IInv

-----------------------------------------------------------------------------
(* Theorems                                                                *)

LEMMA InitInv == AudienceOK /\ Init => IInv
  <1> SUFFICES ASSUME AudienceOK, Init
               PROVE  IInv
    OBVIOUS
  <1>1. \A a \in Accounts : versions[a] = <<>> /\ acct[a] = None
    BY DEF Init
  <1>2. Typed
    BY DEF Init, Typed, RunOK, Breakers, AudienceOK
  <1>3. Dated /\ NoGap /\ AbsentWasHidden
    BY <1>1 DEF Dated, NoGap, AbsentWasHidden
  <1>4. NeverBehind /\ Reads /\ OptedOutOnce /\ OptOutStands
    BY DEF Init, NeverBehind, Reads, OptedOutOnce, OptOutStands
  <1>5. MemberFollows
    <2>1. \A e : Holders(acct, e) = {}
      BY <1>1 DEF Holders
    <2>2. \A e : Role(acct, e) = "NONE"
      BY <2>1 DEF Role, Live
    <2> QED  BY <2>2 DEF Init, MemberFollows
  <1> QED  BY <1>2, <1>3, <1>4, <1>5 DEF IInv

\* Every step keeps the invariant.
LEMMA NextInv == AudienceOK /\ IInv /\ [Next]_vars => IInv'
  <1> SUFFICES ASSUME AudienceOK, IInv, [Next]_vars
               PROVE  IInv'
    OBVIOUS
  <1>1. ASSUME NEW a \in Accounts, Change(a) \/ Hide(a) \/ \E n \in DOMAIN History[a] : Event(a, n)
        PROVE  IInv'
    BY <1>1, ChangeInv, HideInv, EventInv
  <1>2. ASSUME NEW e \in Addresses, Written(e)
        PROVE  IInv'
    BY <1>2, WrittenInv
  <1>3. ASSUME NEW x \in OptOuts, OptOut(x[1], x[2])
        PROVE  IInv'
    <2>1. x[1] \in Addresses /\ x[2] \in Liftable
      BY DEF AudienceOK
    <2> QED  BY <1>3, <2>1, OptOutInv
  <1>4. ASSUME NEW mode \in {"full", "incr"}, Start(mode)
        PROVE  IInv'
    BY <1>4, StartInv
  <1>5. ASSUME NEW x \in run.got, Store(x) \/ RowFails(x)
        PROVE  IInv'
    BY <1>5, StoreInv, RowFailsInv
  <1>6. CASE Fetch \/ NextPage \/ PageFails \/ Finish \/ Restart \/ Resume
    BY <1>6, FetchInv, NextPageInv, PageFailsInv, FinishInv, RestartInv, ResumeInv
  <1>7. CASE UNCHANGED vars
    <2>1. UNCHANGED <<clock, versions, hidden, receipts, acct, supp, member, lifts, breaker, mark, left, lifted, run,
                      touched, runs, faults>>
      BY <1>7 DEF vars, cms, ghosts, state
    <2>2. RunOK' /\ Reads' /\ breaker' \in Breakers /\ runs' \in 0 .. MaxRuns /\ faults' \in 0 .. MaxFaults
          /\ touched' \subseteq Accounts
      BY <2>1 DEF IInv, Typed, RunOK, Reads, Covered, Stored
    <2> QED  BY <2>1, <2>2, PullStepInv
  <1> QED  BY <1>1, <1>2, <1>3, <1>4, <1>5, <1>6, <1>7 DEF Next

\* Every reachable state of the audience satisfies the inductive invariant.
THEOREM Invariance == ASSUME AudienceOK PROVE Spec => []IInv
  <1>1. Init => IInv
    BY InitInv
  <1>2. IInv /\ [Next]_vars => IInv'
    BY NextInv
  <1> QED  BY <1>1, <1>2, PTL DEF Spec

\* Types; the caps on lifts, faults and pulls hold; no address has two opt-outs; rows name versions the CMS has made.
THEOREM TypeCorrect == ASSUME AudienceOK PROVE Spec => []TypeOK
  <1>1. IInv => TypeOK
    <2> SUFFICES ASSUME IInv
                 PROVE  TypeOK
      OBVIOUS
    <2>1. Typed /\ Dated /\ OptedOutOnce
      BY DEF IInv
    <2>2. ASSUME NEW e \in Addresses
          PROVE  Cardinality({r \in supp : r.addr = e}) <= 1
      <3> DEFINE mine == {r \in supp : r.addr = e}
      <3>1. CASE mine = {}
        BY <3>1, FS_EmptySet
      <3>2. CASE mine # {}
        <4>1. PICK r \in mine : TRUE
          BY <3>2
        <4>2. mine = {r}
          BY <2>1, <4>1 DEF OptedOutOnce, AudienceOK
        <4>3. Cardinality(mine) = 1
          BY <4>2, FS_Singleton
        <4> QED  BY <4>3
      <3> QED  BY <3>1, <3>2
    <2> QED  BY <2>1, <2>2 DEF TypeOK, Typed, Dated, Breakers, OptedOut
  <1> QED  BY <1>1, Invariance, PTL

\* No row is ever behind an event that was answered for, whatever order events and list rows come in.
THEOREM EventsStand == ASSUME AudienceOK PROVE Spec => []NeverBehind
  <1>1. IInv => NeverBehind
    BY DEF IInv
  <1> QED  BY <1>1, Invariance, PTL

\* The watermark never passes a change of a listed account that is not stored.
THEOREM PullsMissNothing == ASSUME AudienceOK PROVE Spec => []NoGap
  <1>1. IInv => NoGap
    BY DEF IInv
  <1> QED  BY <1>1, Invariance, PTL

\* An account counts as out of scope only if the CMS left it out of its list.
THEOREM GoneWasHidden == ASSUME AudienceOK PROVE Spec => []AbsentWasHidden
  <1>1. IInv => AbsentWasHidden
    BY DEF IInv
  <1> QED  BY <1>1, Invariance, PTL

\* A member row has the role and the exclusion its accounts give it, and is held back by every opt-out of theirs.
THEOREM MembersFollow == ASSUME AudienceOK PROVE Spec => []MemberFollows
  <1>1. IInv => MemberFollows
    BY DEF IInv
  <1> QED  BY <1>1, Invariance, PTL

\* An opt-out stands exactly until an opt-in dated after it.
THEOREM OptOutsStand == ASSUME AudienceOK PROVE Spec => []OptOutStands
  <1>1. IInv => OptOutStands
    BY DEF IInv
  <1> QED  BY <1>1, Invariance, PTL

\* A breaker that needs a review is closed by the review alone.
THEOREM ReviewsCloseBreakers == Spec => Reviewed
  <1>1. [Next]_vars => [ReviewStep]_vars
    <2> SUFFICES ASSUME Next, breaker \notin {"none"} \cup AutoClose
                 PROVE  breaker' = breaker \/ Resume \/ vars' = vars
      BY DEF ReviewStep
    <2>1. \A reason : Opened(breaker, reason) = breaker
      BY DEF Opened
    <2>2. ASSUME NEW a, NEW s, NEW source, ApplyAccountSnapshot(a, s, source)
          PROVE  breaker' = breaker
      BY <2>1, <2>2 DEF ApplyAccountSnapshot
    <2>3. ASSUME NEW a \in Accounts, Change(a) \/ Hide(a) \/ \E n \in DOMAIN History[a] : Event(a, n)
          PROVE  breaker' = breaker
      BY <2>2, <2>3 DEF Change, Hide, Event, state
    <2>4. ASSUME NEW e \in Addresses, Written(e)
          PROVE  breaker' = breaker
      BY <2>4 DEF Written, state
    <2>5. ASSUME NEW x \in OptOuts, OptOut(x[1], x[2])
          PROVE  breaker' = breaker
      BY <2>5 DEF OptOut, state
    <2>6. ASSUME NEW mode, Start(mode)
          PROVE  breaker' = breaker
      BY <2>1, <2>6 DEF Start
    <2>7. ASSUME NEW x, Store(x) \/ RowFails(x)
          PROVE  breaker' = breaker
      BY <2>2, <2>7 DEF Store, RowFails, state
    <2>8. CASE Finish
      <3> DEFINE m == member'
                 trips == run.roles + RoleChanges(member, m) > ChangeLimit
                 b1 == IF run.mode = "full" /\ ~Complete THEN Opened(breaker, "truncated_load") ELSE breaker
                 b2 == IF trips THEN Opened(b1, "change_too_large") ELSE b1
      <3>1. breaker' = (IF run.mode = "full" /\ Complete /\ ~run.opened /\ b2 = breaker /\ b2 \in AutoClose
                        THEN "none" ELSE b2)
        BY <2>8 DEF Finish
      <3>2. b1 = breaker /\ b2 = breaker
        BY <2>1
      <3> HIDE DEF b2
      <3> QED  BY <3>1, <3>2
    <2>9. CASE Fetch \/ NextPage \/ PageFails \/ Restart
      BY <2>1, <2>9 DEF Fetch, NextPage, PageFails, Restart, state
    <2> QED  BY <2>3, <2>4, <2>5, <2>6, <2>7, <2>8, <2>9 DEF Next
  <1> QED  BY <1>1, PTL DEF Spec, Reviewed

\* ingest.ts: every member row is what its accounts say, and an opt-out stands until a later opt-in.
THEOREM ConsentIsKept == ASSUME AudienceOK PROVE Spec => []ConsentKept
  BY MembersFollow, OptOutsStand, PTL DEF ConsentKept

\* snapshot.ts and pull.ts: no account goes back to an earlier version, what a complete pull covered is in the table,
\* only accounts that left the list count as gone, and a breaker a person has to look at is closed by a person.
THEOREM AudienceIsCurrent == ASSUME AudienceOK PROVE Spec => AudienceCurrent
  BY EventsStand, PullsMissNothing, GoneWasHidden, ReviewsCloseBreakers, PTL DEF AudienceCurrent, CurrentStep, Reviewed
=============================================================================
