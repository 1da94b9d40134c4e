-------------------------- MODULE PushCampaignInv ---------------------------
(***************************************************************************)
(* The inductive invariant of PushCampaign where the poller dispatches     *)
(* nothing itself (Captures: the editorial filter and the pacer are on, or *)
(* the mode is capture_only), which is how the system runs today.          *)
(***************************************************************************)
EXTENDS PushCampaign

Captures == \A q \in Queues : ~ShouldSend(q)

\* Rows some party may still choose to send.
Choosable(c) == \/ Queued(c) \/ Awaiting(c)
                \/ row[c].status = "SCHEDULED" /\ row[c].scheduledAt # None

\* Who has a row in hand, and with the right to decide its first send.
Holding == {"link", "send", "sending", "defer", "promote"}
Deciding == Holding \ {"sending"}
Held(c) == \E w \in Workers : call[w].c = c /\ call[w].pc \in Holding

\* What can still be chosen, and what does not exist, is unsent and in nobody's hands.
ChoosableUnsent ==
    \A c \in Campaigns : Choosable(c) \/ ~Exists(c) => outs[c] = 0 /\ ~Held(c)

\* Whoever decides on a row is alone with it, and it is unsent.
DecidersAlone ==
    \A w \in Workers : call[w].pc \in Deciding =>
        /\ outs[call[w].c] = 0
        /\ \A v \in Workers : call[v].pc \in Holding /\ call[v].c = call[w].c => v = w

\* What a worker remembers of a row is still so: a pick is of the auto queues,
\* a promoted row is a handled review item, a row put off is today's new draft,
\* and the sweeper's list holds rows with a time.  Each kind of worker stays
\* within its own steps.
MemoryOf(w, m) ==
    /\ m.pc \in Holding \cup {"claim", "close"} => m.c \in Campaigns
    /\ m.pc = "claim" => row[m.c].queue \in AutoQueues
    /\ m.pc = "promote" => row[m.c].queue = "REVIEW" /\ row[m.c].reviewed
    /\ m.pc = "defer" => /\ row[m.c].status = "DRAFT" /\ row[m.c].queue = None
                         /\ row[m.c].createdAt = "today" /\ row[m.c].scheduledAt = None
    /\ m.pc = "create" =>
          \E u \in Urls, r \in Requests \cup {None} : m.body = Draft(u, None, r)
    /\ w \in Sweepers => \A c \in m.list : row[c].scheduledAt # None
    /\ m.pc = "sweep" => w \in Sweepers
    /\ m.pc \in {"defer", "promote", "create"} => w \in Desks
    /\ m.pc \in {"recover", "close", "select", "backfill", "claim"} => w \in Pacers
    /\ w \notin Sweepers /\ m.pc \notin {"recover", "close"} => m.list = {}
MemoriesHold == \A w \in Workers : MemoryOf(w, call[w])

\* Only rows outside the queues are ever given a time.
TimedUnqueued == \A c \in Campaigns : row[c].scheduledAt # None => row[c].queue = None

\* The unique index on clientRequestId.
RequestsUnique ==
    \A c, d \in Campaigns :
        row[c].request # None /\ row[c].request = row[d].request => c = d

\* A free slot is blank.
FreeBlank == \A c \in Campaigns : ~Exists(c) => row[c] = NoRow

\* A rejected item stays a handled review item, unsent, in nobody's hands.
RejectedApart ==
    \A c \in rejected : /\ outs[c] = 0 /\ row[c].queue = "REVIEW"
                        /\ row[c].reviewed /\ ~Held(c)

\* The invariant behind OneFanOut: a row is sent only by the one worker that
\* took it while it could be chosen, and taking it ends that for good (every
\* claim of pacer.ts, sweeper.ts and api.ts).
IInv ==
    /\ TypeOK
    /\ OneFanOut
    /\ RequestsUnique
    /\ ChoosableUnsent
    /\ DecidersAlone
    /\ MemoriesHold
    /\ TimedUnqueued
    /\ RejectedApart
    /\ FreeBlank
-----------------------------------------------------------------------------
(* What recovery relies on while sends end within its half hour            *)

\* A worker has its row to itself.
HoldersAlone ==
    \A v, w \in Workers :
        call[v].pc \in Holding /\ call[w].pc \in Holding /\ call[v].c = call[w].c => v = w

\* Only rows of the auto queues are ever claimed.
ClaimedQueued == \A c \in Campaigns : row[c].claimedAt # None => row[c].queue \in AutoQueues

\* A claimed row in a live sender's hands has a fresh claim and says SCHEDULED.
Sending == {"link", "send", "sending"}
HandFresh(m, r) ==
    m.pc \in Sending /\ r[m.c].claimedAt # None =>
        r[m.c].status = "SCHEDULED" /\ r[m.c].claimedAt = "fresh"

\* What a recovery under way has listed is old, and is nobody's draft; what it read
\* of the deliveries is still so.
Aged(r) == r.claimedAt = "stale" /\ r.status # "DRAFT"
RecoveryRight(m, r) ==
    /\ \A c \in m.list : Aged(r[c])
    /\ m.pc = "close" => Aged(r[m.c]) /\ (r[m.c].event => m.delivered)

ClaimInv ==
    /\ HoldersAlone
    /\ ClaimedQueued
    /\ \A w \in Workers : HandFresh(call[w], row)
    /\ \A p \in Pacers : RecoveryRight(call[p], row)
-----------------------------------------------------------------------------
(* What one pacer relies on while nobody but it sends                      *)

\* One pacer, and editors and the poller who only fill and review the queues.
PacerAlone ==
    /\ \A p, q \in Pacers : p = q
    /\ Ops \subseteq {"capture", "approve", "reject"}

\* Nothing is scheduled, and no sweeper or desk has a campaign to send.
OthersQuiet ==
    /\ \A c \in Campaigns : row[c].scheduledAt = None
    /\ \A d \in Desks : call[d].pc \in {"idle", "promote"}
    /\ \A s \in Sweepers : call[s].pc \in {"idle", "sweep"} /\ call[s].list = {}

\* From the gate to its last batch the pacer stays within the ceiling it read.
Releasing == {"select", "backfill", "claim", "link", "send"}
Counted(m) ==
    /\ m.pc \in Releasing => Cardinality(sentToday) < Ceiling
    /\ m.pc = "sending" =>
          Ceiling > 0 /\ (m.c \in sentToday \/ Cardinality(sentToday) < Ceiling)
CeilingInv ==
    /\ IsFiniteSet(sentToday) /\ Cardinality(sentToday) <= Ceiling
    /\ \A p \in Pacers : Counted(call[p])

\* What the pacer read as used stays all that is used, and its pick is none of it.
Unused(m) ==
    /\ m.pc = "backfill" => \A d \in claimedToday : row[d].url \in m.used
    /\ m.pc = "claim" /\ m.backfill => \A d \in claimedToday : row[d].url # row[m.c].url
    /\ m.pc \in {"link", "send"} => m.c \in claimedToday
    /\ m.pc \in {"link", "send"} /\ m.backfill =>
          \A d \in claimedToday : d # m.c => row[d].url # row[m.c].url
ResendInv ==
    /\ \A c \in claimedToday : Exists(c)
    /\ \A c \in outToday : c \in claimedToday /\ outs[c] > 0
    /\ \A p \in Pacers : Unused(call[p])
=============================================================================
