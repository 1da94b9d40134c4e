---------------------------- MODULE AudienceSync ----------------------------
(* The CMS audience: how accounts pushed by the CMS's signed events and listed by its pulls become account  *)
(* rows, suppressions and audience members (services/audience/ingest.ts, pull.ts, rules.ts, breaker.ts,     *)
(* services/suppression.ts, the storing half of services/digest/webhook.ts, routes/cmsEvents.ts).           *)
(* One database transaction is one step; a pull is many: each page is read from the CMS in one step and     *)
(* stored in a later one, so that events land in between, and a restart may end it anywhere.                *)
(* Times are ticks of one clock, moved by every change in the CMS and every opt-out received.               *)
EXTENDS Integers, Sequences, FiniteSets, TLC

CONSTANTS
    Accounts,       \* CMS accounts
    Addresses,      \* their addresses (the program stores hashes)
    History,        \* what the CMS makes of each account, version by version (its index is the `seq`)
    OptOuts,        \* the opt-outs Mailercloud may report: <<address, reason>>, each perhaps repeatedly
    Hidable,        \* accounts the CMS's allowlist may leave out of its lists
    Pages,          \* the list's pages: a sequence of sets of accounts
    None,           \* no address, no account, no row
    MinShare,       \* MIN_FULL_SHARE, in percent
    ChangeLimit,    \* role changes one run may make before the breaker opens
    MaxErasures,    \* AUDIENCE_MAX_ERASURES_PER_DAY (all on one day here)
    MaxLifts,       \* MAX_LIFTS_PER_DAY
    MaxFaults,      \* bound: failed pages, failed rows and restarts
    MaxRuns         \* bound: pulls

Known     == {"free", "active", "cancelled", "ended", "deleted"}
Liftable  == {"UNSUBSCRIBE", "HARD_BOUNCE", "SPAM"}
AutoClose == {"truncated_load"}
Consents  == {"none", "yes", "no"}
Rank == [ACCOUNT_DELETED |-> 0, UNSUBSCRIBE |-> 1, HARD_BOUNCE |-> 2, SPAM |-> 3, MANUAL |-> 4]
NoRun == [mode |-> "none"]

\* A row of CmsAccount, EmailSuppression and AudienceMember, and a snapshot as the CMS sends it.
Account == [seq : Nat, status : STRING, consent : Consents, at : Nat, addr : Addresses \cup {None}, deleted : BOOLEAN,
            erased : BOOLEAN, out : BOOLEAN]
OptedOut == [addr : Addresses \cup {None}, acct : Accounts \cup {None}, reason : DOMAIN Rank, seen : Nat,
             clear : BOOLEAN]
Member == [role : {"PREMIUM", "FORMER", "NONE"}, bar : BOOLEAN, held : BOOLEAN, mail : BOOLEAN, resub : BOOLEAN,
           tagged : BOOLEAN]
Snap == [seq : Nat, status : STRING, consent : Consents, at : Nat, addr : Addresses \cup {None}, deleted : BOOLEAN,
         erasure : BOOLEAN, stamp : Nat]

\* The CMS withholds an address only with a refused consent and no paid plan, or of an account it deleted. Every
\* account is on some page, and Mailercloud reports opt-outs of an address.
Withheld(h) == h.status = "deleted" \/ (h.consent = "no" /\ h.status \in {"free", "ended"})
AudienceOK ==
    /\ History \in [Accounts -> Seq([status : STRING, consent : Consents, fresh : BOOLEAN,
                                      addr : Addresses \cup {None}, erasure : BOOLEAN])]
    /\ \A a \in Accounts : \A n \in DOMAIN History[a] : History[a][n].addr = None => Withheld(History[a][n])
    /\ Pages \in Seq(SUBSET Accounts) /\ Pages # <<>> /\ UNION {Pages[p] : p \in DOMAIN Pages} = Accounts
    /\ OptOuts \subseteq Addresses \X Liftable
    /\ None \notin Nat /\ None \notin Addresses /\ None \notin Accounts /\ None \notin Account /\ None \notin Member
    /\ {MaxLifts, MaxFaults, MaxRuns} \subseteq Nat

VARIABLES
    clock, versions, hidden,               \* the CMS: its clock, each account's snapshots, accounts out of its list
    receipts,                              \* CmsEventReceipt: <<account, seq>>
    acct, supp, member,                    \* CmsAccount, EmailSuppression, AudienceMember
    events,                                \* EmailEvent opt-outs stored
    lifts,                                 \* RESUBSCRIBE events of the day
    breaker, mark, rows,                   \* AudienceSyncState: breakerReason, the latest asOf, lastFullRowCount
    run, touched, runs, faults,            \* the pull in progress; accounts updated since it began; bounds
    left, lifted                           \* history: when an address last opted out; the opt-in that lifted it

cms    == <<versions, hidden>>
ghosts == <<left, lifted>>
state  == <<breaker, mark, rows>>
vars   == <<clock, cms, receipts, acct, supp, member, events, lifts, state, run, touched, runs, faults, ghosts>>

Init ==
    /\ clock = 0 /\ versions = [a \in Accounts |-> <<>>] /\ hidden = {}
    /\ receipts = {} /\ acct = [a \in Accounts |-> None] /\ supp = {} /\ member = [e \in Addresses |-> None]
    /\ events = {} /\ lifts = 0 /\ breaker = "none" /\ mark = 0 /\ rows = None
    /\ run = NoRun /\ touched = {} /\ runs = 0 /\ faults = 0
    /\ left = [e \in Addresses |-> 0] /\ lifted = [e \in Addresses |-> 0]

-----------------------------------------------------------------------------
(* The rules over a table t of account rows. *)

Holders(t, e) == {a \in Accounts : t[a] # None /\ t[a].addr = e}
InScope(r)    == ~r.out
IsLive(r)     == ~r.deleted /\ r.status # "deleted" /\ InScope(r)
Live(t, e)    == {a \in Holders(t, e) : IsLive(t[a])}

Role(t, e) ==
    IF \E a \in Live(t, e) : t[a].status \in {"active", "cancelled"} THEN "PREMIUM"
    ELSE IF \E a \in Live(t, e) : t[a].status = "ended" /\ t[a].consent # "no" THEN "FORMER"
    ELSE "NONE"

NoMarketing(t, e) ==
    \/ \E a \in Live(t, e) : t[a].consent = "no"
    \/ Live(t, e) = {} /\ \E a \in Holders(t, e) : InScope(t[a])

Suppressed(s, e, ids) == \E r \in s : r.addr = e \/ r.acct \in ids

\* The account row a snapshot produces: no address keeps the known one, an unknown status the last known one.
NextAccount(prev, s) ==
    [seq     |-> s.seq,
     status  |-> IF s.status \in Known \/ prev = None THEN s.status ELSE prev.status,
     consent |-> s.consent, at |-> s.at,
     addr    |-> IF s.addr # None \/ prev = None THEN s.addr ELSE prev.addr,
     deleted |-> s.deleted,
     erased  |-> (prev # None /\ prev.erased) \/ (s.deleted /\ s.erasure),
     out     |-> FALSE]


\* An event must be newer than the row; a list row may repair it at the same seq; erased is final.
Accepted(prev, s, source) ==
    \/ prev = None
    \/ /\ IF source = "webhook" THEN s.seq > prev.seq ELSE s.seq >= prev.seq
       /\ ~(prev.erased /\ ~s.deleted)

\* Suppressions with no account get the only live account of their address.
Stamped(t, s, es) ==
    {IF r.addr \in es /\ r.acct = None /\ Cardinality(Live(t, r.addr)) = 1
     THEN [r EXCEPT !.acct = CHOOSE a \in Live(t, r.addr) : TRUE] ELSE r : r \in s}

\* The member row of an address: kept while it has a role, an exclusion, tags to remove or a re-subscription due.
Row(t, s, e, m, fresh, erase, resub) ==
    LET role  == Role(t, e)
        bar   == NoMarketing(t, e)
        gone  == erase /\ Live(t, e) = {}
        again == ~gone /\ (resub \/ (m # None /\ m.resub))
        mail  == ~gone /\ (fresh \/ (m # None /\ m.mail))
        tags  == ~gone /\ m # None /\ m.tagged
    IN IF role = "NONE" /\ ~bar /\ ~tags /\ ~again THEN None
       ELSE IF m = None /\ ~mail THEN None
       ELSE [role |-> role, bar |-> bar, held |-> Suppressed(s, e, Live(t, e)), mail |-> mail,
             resub |-> again, tagged |-> tags]

DueLifts_Undated(s, next, snap) ==
    IF snap.deleted \/ snap.consent # "yes" \/ next.addr = None THEN {}
    ELSE {r \in s : r.addr = next.addr /\ r.reason \in Liftable}

\* Opt-outs of an address that a dated opt-in of its holder undoes.
DueLifts(s, next, snap) ==
    IF snap.deleted \/ snap.consent # "yes" \/ next.addr = None THEN {}
    ELSE {r \in s : r.addr = next.addr /\ r.reason \in Liftable /\ snap.at > r.seen}


Touches(prev, next) == {e \in Addresses : e = next.addr \/ (prev # None /\ e = prev.addr)}

\* Everything one accepted snapshot changes: the account, its suppressions, the members of its addresses.
Outcome(a, snap) ==
    LET prev  == acct[a]
        next  == NextAccount(prev, snap)
        t     == [acct EXCEPT ![a] = next]
        s1    == IF prev # None /\ prev.deleted /\ ~snap.deleted
                 THEN {r \in supp : ~(r.acct = a /\ r.reason = "ACCOUNT_DELETED")} ELSE supp
        s2    == IF snap.deleted /\ ~\E r \in s1 : r.acct = a /\ r.reason = "ACCOUNT_DELETED"
                 THEN s1 \cup {[addr |-> None, acct |-> a, reason |-> "ACCOUNT_DELETED", seen |-> 0, clear |-> FALSE]}
                 ELSE s1
        s3    == {IF next.erased /\ (r.acct = a \/ (r.addr # None /\ r.addr = next.addr)) /\ Live(t, r.addr) \ {a} = {}
                  THEN [r EXCEPT !.clear = FALSE] ELSE r : r \in s2}
        lift  == IF lifts < MaxLifts THEN DueLifts(s3, next, snap) ELSE {}
        es    == Touches(prev, next)
        s4    == Stamped(t, s3 \ lift, es)
    IN [acct |-> t, supp |-> s4, lift |-> lift,
        member |-> [e \in Addresses |->
            IF e \in es
            THEN Row(t, s4, e, member[e], snap.addr = e, next.erased /\ e = next.addr, lift # {} /\ e = next.addr)
            ELSE member[e]],
        capped |-> next.erased /\ ~(prev # None /\ prev.erased)
                   /\ Cardinality({b \in Accounts : t[b] # None /\ t[b].erased}) > MaxErasures]

\* An open breaker keeps its first reason.
Opened(b, reason) == IF b = "none" THEN reason ELSE b

ApplyAccountSnapshot(a, snap, source) ==
    IF ~Accepted(acct[a], snap, source) THEN UNCHANGED <<acct, supp, member, lifts, breaker, touched, ghosts>>
    ELSE LET o == Outcome(a, snap) IN
         /\ acct' = o.acct /\ supp' = o.supp /\ member' = o.member
         /\ lifts' = lifts + Cardinality(o.lift)
         /\ breaker' = IF o.capped THEN Opened(breaker, "erasure_cap") ELSE breaker
         /\ touched' = IF run = NoRun THEN {} ELSE touched \cup {a}
         /\ lifted' = [e \in Addresses |-> IF \E r \in o.lift : r.addr = e THEN snap.at ELSE lifted[e]]
         /\ UNCHANGED left

-----------------------------------------------------------------------------
(* The CMS *)

Snapshot(a, n) ==
    LET h == History[a][n]
        consentAt == IF h.consent = "yes" /\ h.fresh THEN clock + 1
                     ELSE IF n > 1 THEN versions[a][n - 1].at ELSE 0
    IN [seq |-> n, status |-> h.status, consent |-> h.consent, at |-> consentAt, addr |-> h.addr,
        deleted |-> h.status = "deleted", erasure |-> h.erasure, stamp |-> clock + 1]

Change(a) ==
    LET n == Len(versions[a]) + 1 IN
    /\ n <= Len(History[a])
    /\ versions' = [versions EXCEPT ![a] = Append(@, Snapshot(a, n))]
    /\ clock' = clock + 1
    /\ UNCHANGED <<hidden, receipts, acct, supp, member, events, lifts, state, run, touched, runs, faults, ghosts>>

\* The CMS's allowlist leaves an account out of its lists from now on.
Hide(a) ==
    /\ a \in Hidable \ hidden /\ hidden' = hidden \cup {a}
    /\ UNCHANGED <<clock, versions, receipts, acct, supp, member, events, lifts, state, run, touched, runs, faults, ghosts>>

\* A signed event arrives, late or in any order; receipt and effects are one transaction. A delivery of a known
\* event changes nothing (answerKnown), so only the first is a step.
Event(a, n) ==
    /\ n \in 1 .. Len(versions[a]) /\ <<a, n>> \notin receipts
    /\ receipts' = receipts \cup {<<a, n>>}
    /\ ApplyAccountSnapshot(a, versions[a][n], "webhook")
    /\ UNCHANGED <<clock, cms, events, mark, rows, run, runs, faults>>

-----------------------------------------------------------------------------
(* Mailercloud's opt-outs *)

\* A replayed opt-out event is a duplicate of its dedupe key and touches no suppression.
IsFresh(e, reason) == <<e, reason>> \notin events

Escalated(r, reason) == IF Rank[reason] > Rank[r.reason] THEN reason ELSE r.reason

\* storeChunk: a new event upserts the address's row; then the account is stamped and the member held back.
OptOut(e, reason) ==
    /\ IF IsFresh(e, reason)
       THEN LET at  == clock + 1
                new == IF \E r \in supp : r.addr = e
                       THEN {IF r.addr = e THEN [r EXCEPT !.reason = Escalated(r, reason), !.seen = at] ELSE r : r \in supp}
                       ELSE supp \cup {[addr |-> e, acct |-> None, reason |-> reason, seen |-> at, clear |-> TRUE]}
            IN /\ supp' = Stamped(acct, new, {e})
               /\ member' = [member EXCEPT ![e] = IF @ = None THEN None ELSE [@ EXCEPT !.held = TRUE]]
               /\ clock' = at
       ELSE UNCHANGED <<supp, member, clock>>
    /\ events' = events \cup {<<e, reason>>}
    /\ left' = [left EXCEPT ![e] = IF <<e, reason>> \in events THEN @ ELSE clock + 1]
    /\ UNCHANGED <<cms, receipts, acct, lifts, state, run, touched, runs, faults, lifted>>

\* The writer (AudienceWriter) has brought Mailercloud in line with a member: what it leaves behind.
Written(e) ==
    /\ member[e] # None /\ breaker = "none" /\ run = NoRun
    /\ LET m == member[e]
           tagged == (m.role # "NONE" /\ (~m.held \/ m.tagged)) \/ m.bar IN
       /\ m.mail /\ (m.tagged # tagged \/ m.resub)
       /\ member' = [member EXCEPT ![e] = IF m.role = "NONE" /\ ~m.bar THEN None
                                          ELSE [m EXCEPT !.tagged = tagged, !.resub = FALSE]]
    /\ UNCHANGED <<clock, cms, receipts, acct, supp, events, lifts, state, run, touched, runs, faults, ghosts>>

-----------------------------------------------------------------------------
(* A pull *)

Listed(p, since) ==
    {<<a, Len(versions[a])>> : a \in {b \in Pages[p] \ hidden :
        versions[b] # <<>> /\ versions[b][Len(versions[b])].stamp > since}}

Start(mode) ==
    /\ run = NoRun /\ runs < MaxRuns
    /\ mode = "incr" => rows # None
    /\ run' = [mode |-> mode, page |-> 1, got |-> {}, fetched |-> FALSE, seen |-> {}, asOf |-> None,
               since |-> IF mode = "incr" THEN mark - 1 ELSE 0, bad |-> FALSE, count |-> 0, roles |-> 0,
               opened |-> mode = "full" /\ rows = None /\ breaker = "none"]
    /\ breaker' = IF mode = "full" /\ rows = None THEN Opened(breaker, "first_load") ELSE breaker
    /\ touched' = {} /\ runs' = runs + 1
    /\ UNCHANGED <<clock, cms, receipts, acct, supp, member, events, lifts, mark, rows, faults, ghosts>>

\* The watermark is the CMS's time at the FIRST page.
AsOf == IF run.asOf = None THEN clock ELSE run.asOf

Fetch ==
    /\ run # NoRun /\ ~run.fetched /\ run.page <= Len(Pages)
    /\ LET got == Listed(run.page, run.since) IN
       run' = [run EXCEPT !.fetched = TRUE, !.got = got, !.asOf = AsOf, !.count = @ + Cardinality(got),
                          !.seen = @ \cup {x[1] : x \in got}]
    /\ UNCHANGED <<clock, cms, receipts, acct, supp, member, events, lifts, state, touched, runs, faults, ghosts>>

\* applySnapshots leaves alone a row that would change nothing.
Skippable(a, snap) ==
    /\ acct[a] # None /\ snap.seq = acct[a].seq /\ ~acct[a].out
    /\ NextAccount(acct[a], snap) = acct[a]
    /\ DueLifts(supp, acct[a], snap) = {}
    /\ ~(snap.addr # None /\ member[snap.addr] # None /\ ~member[snap.addr].mail)

RoleChanges(m1, m2) ==
    LET role(m) == IF m = None THEN "NONE" ELSE m.role IN
    Cardinality({e \in Addresses : role(m1[e]) # role(m2[e])})

\* A page's rows are stored one by one; a row that fails makes the load incomplete.
Store(x) ==
    /\ run # NoRun /\ x \in run.got
    /\ LET a == x[1]
           snap == versions[a][x[2]] IN
       IF Skippable(a, snap)
       THEN /\ run' = [run EXCEPT !.got = @ \ {x}]
            /\ UNCHANGED <<acct, supp, member, lifts, breaker, touched, ghosts>>
       ELSE /\ ApplyAccountSnapshot(a, snap, "pull")
            /\ run' = [run EXCEPT !.got = @ \ {x}, !.roles = @ + RoleChanges(member, member')]
    /\ UNCHANGED <<clock, cms, receipts, events, mark, rows, runs, faults>>

RowFails(x) ==
    /\ run # NoRun /\ x \in run.got /\ faults < MaxFaults
    /\ run' = [run EXCEPT !.got = @ \ {x}, !.bad = TRUE]
    /\ faults' = faults + 1
    /\ UNCHANGED <<clock, cms, receipts, acct, supp, member, events, lifts, state, touched, runs, ghosts>>

\* After a page: the breaker opens at once past the cap.
NextPage ==
    /\ run # NoRun /\ run.fetched /\ run.got = {}
    /\ LET trips == run.roles > ChangeLimit IN
       /\ breaker' = IF trips THEN Opened(breaker, "change_too_large") ELSE breaker
       /\ run' = [run EXCEPT !.page = @ + 1, !.fetched = FALSE, !.opened = @ \/ (trips /\ breaker = "none")]
    /\ UNCHANGED <<clock, cms, receipts, acct, supp, member, events, lifts, mark, rows, touched, runs, faults, ghosts>>

\* A page the CMS does not answer ends the load there, incomplete.
PageFails ==
    /\ run # NoRun /\ ~run.fetched /\ run.page <= Len(Pages) /\ faults < MaxFaults
    /\ run' = [run EXCEPT !.page = Len(Pages) + 1, !.bad = TRUE]
    /\ faults' = faults + 1
    /\ UNCHANGED <<clock, cms, receipts, acct, supp, member, events, lifts, state, touched, runs, ghosts>>

Complete ==
    /\ ~run.bad
    /\ run.mode = "full" /\ rows # None => 100 * run.count >= rows * MinShare

Absent_AnyAge == {a \in Accounts : acct[a] # None /\ ~acct[a].deleted /\ ~acct[a].out /\ a \notin run.seen}

\* Live, in-scope accounts a complete full load did not list and nothing touched since it began.
Absent == {a \in Accounts : acct[a] # None /\ ~acct[a].deleted /\ ~acct[a].out /\ a \notin run.seen /\ a \notin touched}

Finish ==
    /\ run # NoRun /\ run.page > Len(Pages)
    /\ LET absent == IF run.mode = "full" /\ Complete THEN Absent ELSE {}
           t  == [a \in Accounts |-> IF a \in absent THEN [acct[a] EXCEPT !.out = TRUE] ELSE acct[a]]
           es == {acct[a].addr : a \in absent} \ {None}
           s  == Stamped(t, supp, es)
           m  == [e \in Addresses |-> IF e \in es THEN Row(t, s, e, member[e], FALSE, FALSE, FALSE) ELSE member[e]]
           trips == run.roles + RoleChanges(member, m) > ChangeLimit
           b1 == IF run.mode = "full" /\ ~Complete THEN Opened(breaker, "truncated_load") ELSE breaker
           b2 == IF trips THEN Opened(b1, "change_too_large") ELSE b1
       IN /\ acct' = t /\ supp' = s /\ member' = m
          /\ breaker' = IF run.mode = "full" /\ Complete /\ ~run.opened /\ b2 = breaker /\ b2 \in AutoClose
                        THEN "none" ELSE b2
    /\ mark' = IF Complete /\ run.asOf > mark THEN run.asOf ELSE mark
    /\ rows' = IF run.mode = "full" /\ Complete THEN run.count ELSE rows
    /\ run' = NoRun /\ touched' = {}
    /\ UNCHANGED <<clock, cms, receipts, events, lifts, runs, faults, ghosts>>

Restart ==
    /\ run # NoRun /\ faults < MaxFaults
    /\ run' = NoRun /\ touched' = {} /\ faults' = faults + 1
    /\ UNCHANGED <<clock, cms, receipts, acct, supp, member, events, lifts, state, runs, ghosts>>

\* ADMIN "Resume sync".
Resume ==
    /\ breaker # "none" /\ breaker' = "none"
    /\ UNCHANGED <<clock, cms, receipts, acct, supp, member, events, lifts, mark, rows, run, touched, runs, faults, ghosts>>

Next ==
    \/ \E a \in Accounts : Change(a) \/ Hide(a) \/ \E n \in DOMAIN History[a] : Event(a, n)
    \/ \E e \in Addresses : Written(e)
    \/ \E x \in OptOuts : OptOut(x[1], x[2])
    \/ \E mode \in {"full", "incr"} : Start(mode)
    \/ Fetch
    \/ run # NoRun /\ \E x \in run.got : Store(x) \/ RowFails(x)
    \/ NextPage
    \/ PageFails
    \/ Finish
    \/ Restart
    \/ Resume

Spec == Init /\ [][Next]_vars

-----------------------------------------------------------------------------
(* Properties *)

TypeOK ==
    /\ clock \in Nat /\ mark \in 0 .. clock /\ lifts \in 0 .. MaxLifts /\ faults \in 0 .. MaxFaults /\ runs \in 0 .. MaxRuns
    /\ hidden \subseteq Accounts /\ touched \subseteq Accounts
    /\ \A a \in Accounts : acct[a] # None => acct[a].seq \in 1 .. Len(versions[a])
    /\ \A r \in supp : r.reason \in DOMAIN Rank /\ r.addr \in Addresses \cup {None}
    /\ \A e \in Addresses : Cardinality({r \in supp : r.addr = e}) <= 1
    /\ breaker \in {"none", "first_load", "truncated_load", "change_too_large", "erasure_cap"}

\* Events and list rows arrive late, repeated and in any order: an account's row is never behind an event that was
\* answered for, so no late one revives a deleted account or restores an old consent.
NeverBehind == \A x \in receipts : acct[x[1]] # None /\ (acct[x[1]].erased \/ acct[x[1]].seq >= x[2])

\* The watermark the next incremental pull starts from never passes a change the program has not stored, whatever
\* changed while the pages were being read, failed or were cut short.
NoGap == \A a \in Accounts \ hidden :
    LET n == Len(versions[a]) IN
    n > 0 /\ versions[a][n].stamp <= mark => acct[a] # None /\ (acct[a].erased \/ acct[a].seq = n)

\* Only an account the CMS did leave out of a list is ever marked out of scope: one created or changed by an event
\* while the full load was past its page is not.
AbsentWasHidden == \A a \in Accounts : acct[a] # None /\ acct[a].out => a \in hidden

\* A member agrees with every account that holds its address, whichever of them moved, ended, was deleted or
\* dropped out of scope, and an opt-out of the address or of a live holder always holds it back.
MemberFollows == \A e \in Addresses :
    IF member[e] = None THEN Role(acct, e) = "NONE"
    ELSE /\ member[e].role = Role(acct, e) /\ member[e].bar = NoMarketing(acct, e)
         /\ Suppressed(supp, e, Live(acct, e)) => member[e].held

\* A reader's opt-out stands exactly until an opt-in dated after it: neither an older consent in a repeated list row
\* lifts it, nor does a replay of Mailercloud's old event bring it back once lifted.
OptOutStands == \A e \in Addresses :
    (\E r \in supp : r.addr = e /\ r.reason \in Liftable) <=> left[e] > lifted[e]

\* A breaker that needs an admin's review closes by that review alone: no later, lesser reason replaces it and then
\* closes by itself.
ReviewStep == breaker \notin {"none"} \cup AutoClose => breaker' = breaker \/ Resume
Reviewed   == [][ReviewStep]_vars

\* Every member row is what its accounts say, and an opt-out stands until a later opt-in.
ConsentKept == MemberFollows /\ OptOutStands

\* No account goes back to an earlier version, what a complete pull covered is in the table, only accounts that left
\* the list count as gone, and a breaker a person has to look at is closed by a person.
CurrentStep     == ReviewStep /\ (NeverBehind /\ NoGap /\ AbsentWasHidden)'
AudienceCurrent == [][CurrentStep]_vars
=============================================================================
