---------------------------- MODULE DigestSendInv ----------------------------
(***************************************************************************)
(* The inductive invariant behind DigestSend's safety properties: what     *)
(* each runner, each request in flight and each row owe one another. TLC   *)
(* checks it on small instances, DigestSendProofs proves it for all.       *)
(***************************************************************************)
EXTENDS DigestSend

\* A campaign created but not yet saved stays a draft until the row names one.
Unsaved(c, a) == row[a].camp = None => prov[c].state = "DRAFT"

\* Steps of a runner that found or created a campaign, and of one that read the id
\* off its row; in any other step its campaign does not matter.
OnCampaign == {"adopt", "adoptSave", "persist"}
FromRow == {"adoptMark", "created", "claimSched", "status", "stampSched", "issue", "sched"}

\* Between its look at a version and leaving it a runner works on that version.
OnVersion(r) == run[r].pc \notin {"idle", "press", "look"} => run[r].aud \in Audiences

RunnerCampaign(r) ==
    /\ run[r].pc \in OnCampaign =>
         /\ run[r].camp \in Campaigns
         /\ prov[run[r].camp].aud = run[r].aud
    /\ run[r].pc \in FromRow =>
         /\ run[r].camp \in Campaigns
         /\ row[run[r].aud].camp = run[r].camp
    /\ At(r, "persist") => Unsaved(run[r].camp, run[r].aud)

\* A runner about to call schedule(), or calling it, has its marker in the row.
IssuesMarked(r) == run[r].pc \in {"issue", "sched"} => row[run[r].aud].schedMark

\* The holder's memory of the marker is right, so taking it back is safe.
MarkerRemembered(r) ==
    /\ run[r].pc \in {"status", "stampSched"} /\ Holds(r) =>
         run[r].mark = row[run[r].aud].schedMark
    /\ At(r, "issue") /\ ~run[r].mark /\ Holds(r) =>
         /\ \A q \in Runners : q # r /\ run[q].pc \in {"issue", "sched"} => run[q].aud # run[r].aud
         /\ \A q \in wire : q.op = "schedule" => q.aud # run[r].aud
         /\ prov[run[r].camp].state = "DRAFT"

\* A runner waits for one reply at a time, at the step that made the call.
CallsOf(r) ==
    \A q \in wire : q.live /\ q.by = r =>
        /\ run[r].pc = (IF q.op = "create" THEN "create" ELSE "sched")
        /\ run[r].aud = q.aud
        /\ \A p \in wire : p.live /\ p.by = r => p = q

RunnerSound(r) ==
    /\ OnVersion(r) /\ RunnerCampaign(r) /\ IssuesMarked(r)
    /\ MarkerRemembered(r) /\ CallsOf(r)

ProviderSound == \A c \in Campaigns : prov[c].aud = None <=> prov[c].state = "NONE"

\* A row names a campaign the provider holds for that version.
IdsReal == \A a \in Audiences : row[a].camp # None => prov[row[a].camp].aud = a

\* A schedule() in flight is for the campaign its row names, whose marker is set.
ScheduleRequests ==
    \A q \in wire : q.op = "schedule" =>
        q.camp \in Campaigns /\ row[q.aud].camp = q.camp /\ row[q.aud].schedMark

CreateRequests ==
    \A q \in wire : q.op = "create" /\ q.done =>
        q.camp \in Campaigns /\ prov[q.camp].aud = q.aud /\ Unsaved(q.camp, q.aud)

\* While the database is not restored, an accepted campaign is the one its row names.
AcceptedIsSaved ==
    restores = 0 => \A c \in Campaigns : Accepted(c) => row[prov[c].aud].camp = c

IInv ==
    /\ TypeOK
    /\ ProviderSound /\ IdsReal /\ ScheduleRequests /\ CreateRequests
    /\ MarkerIsProof /\ AcceptedIsSaved
    /\ \A r \in Runners : RunnerSound(r)
-----------------------------------------------------------------------------
(* What the record owes the mail, and the mail the editor                  *)

\* A version on its way, or reported as sent, has a campaign the provider accepted.
HandedOverAccepted ==
    \A a \in Audiences : HandedOver(row[a]) =>
        row[a].camp \in Campaigns /\ Accepted(row[a].camp)

\* A schedule() that took effect had its campaign accepted.
DoneSchedules == \A q \in wire : q.op = "schedule" /\ q.done => Accepted(q.camp)

\* The campaigns a lookup finds hold this database's content.
NamedOurs(a) == \A c \in Named(a) : prov[c].content = row[a].content

\* A create carries the row's content; with a lookup, once a create was sent nothing
\* older has the version's name.
CreatesOurs ==
    /\ \A q \in wire : q.op = "create" =>
         /\ q.content = row[q.aud].content
         /\ q.done => prov[q.camp].content = q.content
    /\ \A a \in Audiences : HasLookup /\ row[a].createSent => NamedOurs(a)

\* A saved draft with other content was adopted, and waits for its own approval.
DraftsSeen ==
    \A a \in Audiences :
        /\ row[a].camp # None
        /\ prov[row[a].camp].content # row[a].content
        /\ ~Accepted(row[a].camp)
        => row[a].own /\ row[a].adopted

\* What the gate asked for stays so while the version has its campaign.
GatePassed(a) ==
    IF a \in ManualOnly THEN row[a].approved ELSE ~AwaitingOwnApproval(a, row[a])

\* The holder of a claim never finds a version that was reported as sent.
HolderFindsOpen(r) ==
    run[r].pc \in Claimed /\ Holds(r) => row[run[r].aud].state \notin {"SENT", "PARTIALLY_SENT"}

\* A runner asks about the campaign of its row, and what it was told stays true.
AsksItsRow(r) ==
    /\ run[r].pc \in {"verify", "resolve"} =>
         run[r].camp \in Campaigns /\ row[run[r].aud].camp = run[r].camp
    /\ At(r, "claimResolve") => row[run[r].aud].camp # None
    /\ At(r, "adoptMark") \/ (At(r, "adoptSave") /\ run[r].ans \notin {"unknown", "DRAFT"}) =>
         Accepted(run[r].camp)

\* Where a runner is about to create, adopt or save, it knows whose content it has.
KnowsContent(r) ==
    /\ run[r].pc \in {"lookup", "adopt", "adoptSave"} => HasLookup
    /\ HasLookup /\ (At(r, "stamp")
                     \/ (run[r].pc \in {"lookup", "adopt", "adoptSave"} /\ run[r].mark))
         => NamedOurs(run[r].aud)
    /\ At(r, "persist") => prov[run[r].camp].content = row[run[r].aud].content

\* Past the gate; and with a draft that is ours, or that an editor was shown.
Gated(r) ==
    /\ run[r].pc \in {"claimSched", "status", "stampSched", "issue"} => GatePassed(run[r].aud)
    /\ run[r].pc \in {"stampSched", "issue"} /\ prov[run[r].camp].content # row[run[r].aud].content
         => row[run[r].aud].own /\ row[run[r].aud].adopted

RunnerRecord(r) == HolderFindsOpen(r) /\ AsksItsRow(r) /\ KnowsContent(r) /\ Gated(r)

RecordInv ==
    /\ HandedOverAccepted /\ DoneSchedules /\ CreatesOurs /\ DraftsSeen
    /\ \A r \in Runners : RunnerRecord(r)

-----------------------------------------------------------------------------
(* While steps end before their claim ages and calls before they are given up *)

\* A claim is its holder's until the holder lets go of it: nobody else is in a step
\* on the version, and it is not over.
ClaimHeld(r) ==
    run[r].pc \in Claimed =>
        LET s == row[run[r].aud] IN s.claim = r /\ ~s.stale /\ ~Over(s)

\* A request keeps its version claimed, and only its waiting caller is in a step there.
RequestsHeld ==
    \A q \in wire :
        /\ row[q.aud].claim = q.by /\ ~row[q.aud].stale
        /\ \A r \in Runners : run[r].pc \in Claimed /\ run[r].aud = q.aud => q.live

\* What the holder found when it claimed is still so.
Creating == {"lookup", "adopt", "adoptSave", "stamp", "create", "persist"}
FoundStill(r) ==
    /\ run[r].pc \in Creating => row[run[r].aud].camp = None
    /\ At(r, "skip") => ~row[run[r].aud].schedMark
    /\ run[r].pc \in {"stampSched", "issue"} => prov[run[r].camp].state = "DRAFT"

AloneInv ==
    /\ RequestsHeld
    /\ \A r \in Runners : ClaimHeld(r) /\ FoundStill(r)
    /\ restores = 0 => SkippedNothingSent
=============================================================================
