--------------------------- MODULE AudienceWriter ---------------------------
(* The one writer of Mailercloud contacts (services/audience/writer.ts, mcContacts.ts), for one address.     *)
(* Each call to Mailercloud is a step of its own, and so is the transaction that records what was            *)
(* acknowledged; meanwhile ingest may change the member (recomputeMembers), a reader may opt out, another    *)
(* container may be writing the same member, and a call may fail, be refused, or take effect unanswered.     *)
(* Only the tags that are ours are kept: the premium tag, which grants mail, and the exclusion.              *)
EXTENDS Integers, FiniteSets

CONSTANTS
    Writers,       \* containers running the writer (two during a deployment)
    Faults,        \* what may go wrong with a call: "failed", "lost" (done, unanswered), "refused", "crash"
    None,          \* no row, no contact, nothing in flight
    ResubscribeOn, \* AUDIENCE_RESUBSCRIBE_WRITES
    MaxChanges,    \* bound: changes of the member by ingest and the webhook
    MaxFaults      \* bound

VARIABLES
    member,    \* the AudienceMember row
    blocked,   \* Mailercloud's own opt-out of the address is in EmailSuppression
    consent,   \* a live account of the address says consent = true
    contact,   \* Mailercloud: the contact's tags of ours, and whether it is subscribed
    w,         \* per container: the write in flight
    unseen,    \* history: "new" while ingest has changed what the member should carry since the last recorded write
               \* read it; "refused" when a write that had not read the change was then refused; else "no"
    changes, faults

vars == <<member, blocked, consent, contact, w, unseen, changes, faults>>

Unread == [tags |-> {"unread"}]

Init ==
    /\ member = None /\ blocked = FALSE /\ consent = FALSE /\ contact = None
    /\ w = [x \in Writers |-> None] /\ unseen = "no" /\ changes = 0 /\ faults = 0

-----------------------------------------------------------------------------
(* Ingest and the webhook, as they leave one row (AudienceSync has the rules) *)

DesiredTags(m) == {t \in {"premium", "exclude"} : (t = "premium" /\ m.role = "PREMIUM") \/ (t = "exclude" /\ m.bar)}

\* Any write to the row moves its updatedAt, which the writes in flight will notice.
Moved == [x \in Writers |-> IF w[x] = None THEN None ELSE [w[x] EXCEPT !.moved = TRUE]]

\* recomputeMembers: the row goes when it holds nothing; any change of what it should carry makes it due.
Recompute(role, bar, held, resub) ==
    LET old  == member
        tags == IF old = None THEN {} ELSE old.tags
        need == role # "NONE" \/ bar \/ tags # {} \/ resub
        new  == [role |-> role, bar |-> bar, held |-> held, mail |-> TRUE, resub |-> resub, tags |-> tags,
                 mc |-> IF old = None THEN "UNKNOWN" ELSE old.mc, due |-> TRUE,
                 refused |-> old # None /\ old.refused]
        same == old # None /\ old.mail /\ <<old.role, old.bar, old.held, old.resub>> = <<role, bar, held, resub>>
    IN /\ member' = IF ~need THEN None ELSE IF same THEN old ELSE new
       /\ w' = IF member' = old THEN w ELSE Moved
       /\ unseen' = IF member' = old THEN unseen ELSE IF member' = None THEN "no" ELSE "new"

Ingest ==
    /\ changes < MaxChanges /\ changes' = changes + 1
    /\ \E role \in {"PREMIUM", "NONE"}, bar, agreed \in BOOLEAN :
        /\ consent' = agreed
        /\ Recompute(role, bar, blocked, member # None /\ member.resub)
    /\ UNCHANGED <<blocked, contact, faults>>

\* A dated opt-in lifts the opt-out: the member may be re-subscribed, once.
Lift ==
    /\ blocked /\ member # None /\ changes < MaxChanges /\ changes' = changes + 1
    /\ blocked' = FALSE /\ consent' = TRUE
    /\ Recompute(member.role, FALSE, FALSE, TRUE)
    /\ UNCHANGED <<contact, faults>>

\* An erasure at ingest: the CMS has deleted the contact; the row keeps the hash and the exclusion alone.
Erase ==
    /\ member # None /\ changes < MaxChanges /\ changes' = changes + 1
    /\ member' = [role |-> "NONE", bar |-> TRUE, held |-> TRUE, mail |-> FALSE, resub |-> FALSE, tags |-> {},
                  mc |-> "ABSENT", due |-> FALSE, refused |-> member.refused]
    /\ contact' = None /\ consent' = FALSE
    /\ w' = Moved /\ unseen' = "no"
    /\ UNCHANGED <<blocked, faults>>

\* A reader opts out of mail; Mailercloud's webhook holds the member back (storeChunk, afterSuppressionWrite).
OptOut ==
    /\ contact # None /\ contact.active /\ changes < MaxChanges /\ changes' = changes + 1
    /\ contact' = [contact EXCEPT !.active = FALSE]
    /\ blocked' = TRUE
    /\ IF member # None /\ ~member.held
       THEN member' = [member EXCEPT !.held = TRUE, !.due = TRUE] /\ w' = Moved /\ unseen' = "new"
       ELSE UNCHANGED <<member, w, unseen>>
    /\ UNCHANGED <<consent, faults>>

-----------------------------------------------------------------------------
(* One member's write *)

\* diffMember: a member held back gets the exclusion only, and not even that when Mailercloud blocks it already.
Adds(m) ==
    LET wanted == {t \in DesiredTags(m) \ m.tags : ~m.held \/ t = "exclude"} IN
    IF m.held /\ blocked THEN {} ELSE wanted
Removes(m) == m.tags \ DesiredTags(m)

Begin(x) ==
    /\ w[x] = None /\ member # None /\ member.due /\ member.mail
    /\ w' = [w EXCEPT ![x] = [pc |-> IF Adds(member) # {} \/ member.resub THEN "get"
                                     ELSE IF Removes(member) # {} THEN "remove" ELSE "finish",
                              seen |-> member, adds |-> Adds(member), removes |-> Removes(member), read |-> Unread,
                              tags |-> member.tags, mc |-> member.mc, resubDone |-> FALSE, moved |-> FALSE, kind |-> "ok"]]
    /\ UNCHANGED <<member, blocked, consent, contact, unseen, changes, faults>>

\* What is left to do once the tags are added, and once they are removed.
AfterRemove(s) == IF s.seen.resub THEN "resub" ELSE "finish"
AfterAdd(s)    == IF s.removes # {} THEN "remove" ELSE AfterRemove(s)

\* A call's outcome: it may take effect and it may be answered; a failure ends the write with what was acknowledged.
Call(x, o, effect, answered) ==
    /\ o \in {"ok"} \cup (Faults \ {"crash"})
    /\ o = "ok" \/ faults < MaxFaults
    /\ faults' = IF o = "ok" THEN faults ELSE faults + 1
    /\ contact' = IF o \in {"ok", "lost"} THEN effect ELSE contact
    /\ w' = [w EXCEPT ![x] = IF o = "ok" THEN answered
                             ELSE [@ EXCEPT !.pc = "finish", !.kind = IF o = "refused" THEN "FATAL" ELSE "RETRYABLE"]]
    /\ UNCHANGED <<member, blocked, consent, unseen, changes>>

Get(x, o) ==
    /\ w[x] # None /\ w[x].pc = "get"
    /\ LET s == w[x] IN
       Call(x, o, contact,
            [s EXCEPT !.read = contact, !.mc = IF contact = None THEN "ABSENT" ELSE "PRESENT",
                      !.pc = IF s.adds = {} THEN AfterAdd(s) ELSE IF contact = None THEN "create" ELSE "put"])

\* A contact created meanwhile answers ALREADY_EXISTS and is read again (by the next Get).
Create(x, o) ==
    /\ w[x] # None /\ w[x].pc = "create"
    /\ LET s == w[x] IN
       IF contact = None
       THEN Call(x, o, [tags |-> s.adds, active |-> TRUE],
                 [s EXCEPT !.tags = @ \cup s.adds, !.mc = "PRESENT", !.pc = AfterAdd(s)])
       ELSE Call(x, o, contact, [s EXCEPT !.pc = "get"])

\* PUT sends the union of what was read and what is added; tags of ours that were read count as applied.
Put(x, o) ==
    /\ w[x] # None /\ w[x].pc = "put"
    /\ LET s == [w[x] EXCEPT !.tags = @ \cup w[x].read.tags] IN
       Call(x, o, IF contact = None THEN None ELSE [contact EXCEPT !.tags = s.read.tags \cup s.adds],
            [s EXCEPT !.tags = @ \cup s.adds, !.pc = AfterAdd(s)])

Remove(x, o) ==
    /\ w[x] # None /\ w[x].pc = "remove"
    /\ LET s == [w[x] EXCEPT !.tags = @ \ w[x].removes, !.pc = AfterRemove(w[x])] IN
       IF w[x].mc = "ABSENT"
       THEN o = "ok" /\ w' = [w EXCEPT ![x] = s] /\ UNCHANGED <<member, blocked, consent, contact, unseen, changes, faults>>
       ELSE Call(x, o, IF contact = None THEN None ELSE [contact EXCEPT !.tags = @ \ s.removes],
                 IF contact = None THEN [s EXCEPT !.mc = "ABSENT"] ELSE s)

\* Only for a member whose opt-out was lifted, while an account of the address still says yes.
Resubscribe(x, o) ==
    /\ w[x] # None /\ w[x].pc = "resub"
    /\ LET s == [w[x] EXCEPT !.resubDone = TRUE, !.pc = "finish"] IN
       IF ResubscribeOn /\ ~s.seen.held /\ consent /\ s.read # None
       THEN Call(x, o, IF contact = None THEN None ELSE [contact EXCEPT !.active = TRUE], s)
       ELSE o = "ok" /\ w' = [w EXCEPT ![x] = s] /\ UNCHANGED <<member, blocked, consent, contact, unseen, changes, faults>>

\* As if what ingest changed meanwhile had been written too.
Untouched_Always(x) == TRUE

\* finish: the row's updatedAt is still the one this write read.
Untouched(x) == ~w[x].moved

Finish(x) ==
    /\ w[x] # None /\ w[x].pc = "finish"
    /\ LET s     == w[x]
           resub == IF s.resubDone /\ Untouched(x) THEN FALSE ELSE member.resub
           moved == [y \in Writers |-> IF y = x THEN None ELSE Moved[y]]
       IN IF member = None
          THEN member' = None /\ w' = [w EXCEPT ![x] = None]
          ELSE /\ w' = moved
               /\ member' =
                    IF s.kind = "ok" /\ Untouched(x) /\ member.role = "NONE" /\ ~member.bar /\ s.tags = {} /\ ~resub THEN None
                    ELSE IF s.kind = "ok"
                    THEN [member EXCEPT !.tags = s.tags, !.mc = s.mc, !.resub = resub, !.refused = FALSE, !.due = ~Untouched(x)]
                    ELSE [member EXCEPT !.tags = s.tags, !.mc = s.mc, !.refused = s.kind = "FATAL", !.due = s.kind # "FATAL"]
    /\ unseen' = IF ~w[x].moved THEN "no"
                 ELSE IF unseen = "new" /\ w[x].kind = "FATAL" THEN "refused" ELSE unseen
    /\ UNCHANGED <<blocked, consent, contact, changes, faults>>

\* ADMIN "Retry refused".
RetryRefused ==
    /\ member # None /\ member.refused /\ member.mail
    /\ member' = [member EXCEPT !.due = TRUE, !.refused = FALSE] /\ w' = Moved
    /\ UNCHANGED <<blocked, consent, contact, unseen, changes, faults>>

\* The nightly drift check takes Mailercloud's truth for what is applied, and makes the member due.
Drift ==
    /\ member # None /\ member.mail /\ \A x \in Writers : w[x] = None
    /\ LET observed == IF contact = None THEN {} ELSE contact.tags IN
       /\ observed # member.tags
       /\ member' = [member EXCEPT !.tags = observed, !.mc = IF contact = None THEN "ABSENT" ELSE "PRESENT", !.due = TRUE]
    /\ UNCHANGED <<blocked, consent, contact, w, unseen, changes, faults>>

Crash(x) ==
    /\ "crash" \in Faults /\ faults < MaxFaults /\ w[x] # None
    /\ w' = [w EXCEPT ![x] = None] /\ faults' = faults + 1
    /\ UNCHANGED <<member, blocked, consent, contact, unseen, changes>>

Next ==
    \/ Ingest \/ Lift \/ Erase \/ OptOut \/ RetryRefused \/ Drift
    \/ \E x \in Writers : Begin(x) \/ Finish(x) \/ Crash(x)
    \/ \E x \in Writers, o \in {"ok"} \cup Faults :
        Get(x, o) \/ Create(x, o) \/ Put(x, o) \/ Remove(x, o) \/ Resubscribe(x, o)

Spec == Init /\ [][Next]_vars

-----------------------------------------------------------------------------
(* Properties *)

Idle == \A x \in Writers : w[x] = None

TypeOK ==
    /\ unseen \in {"no", "new", "refused"}
    /\ member # None => /\ member.role \in {"PREMIUM", "NONE"} /\ member.mc \in {"UNKNOWN", "PRESENT", "ABSENT"}
                        /\ member.tags \subseteq {"premium", "exclude"}
    /\ contact # None => contact.tags \subseteq {"premium", "exclude"}
    /\ \A x \in Writers : w[x] # None => w[x].pc \in {"get", "create", "put", "remove", "resub", "finish"}

\* A change ingest or an opt-out made to a member while a write was on its way is never taken for written: the member
\* stays due until a write has read that change, whatever was lost or crashed meanwhile. Left out is a change that a
\* write under way had not read when Mailercloud refused it, which stops the member (ChangeAlwaysDue).
ChangeStaysDue == unseen = "new" /\ Idle /\ member # None /\ member.mail => member.due

\* finish: "If ingest changed the member meanwhile (its updatedAt moved), it stays due", be the write refused or not.
ChangeAlwaysDue == unseen # "no" /\ Idle /\ member # None /\ member.mail => member.due

\* ingest.ts of a member's row: "a row exists only while it has a role, noMarketing, or tags still applied in
\* Mailercloud (then the writer removes them before it goes)". So a premium tag the writer put on a contact that
\* should not have it is known to a row that will be written or waits for an admin.
StrayTagIsKnown ==
    Idle /\ contact # None /\ "premium" \in contact.tags =>
        /\ member # None
        /\ member.role # "PREMIUM" => member.due \/ member.refused

=============================================================================
