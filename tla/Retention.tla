------------------------------ MODULE Retention ------------------------------
(* The nightly sweeper of an event log; there are two (sweepers/eventRetention.ts and digestRetention.ts, and   *)
(* the scripts that run them by hand). A batch of old rows is read, then one transaction adds it to the          *)
(* rolled-up counts and deletes it; every number on a screen is the rolled-up count plus the rows that are left  *)
(* (services/metrics.ts, digest/stats.ts). Rows are numbered in the order they were written. The program         *)
(* deletes no campaign and no send.                                                                              *)
EXTENDS Naturals, Sequences, FiniteSets

CONSTANTS
    Log,         \* the rows to come: [type, of, linked]; `of`: the campaign or send, or None;
                 \* `linked`: by sendId, otherwise by mcCampaignId
    Sweepers,    \* processes: the container, its successor during a deploy, a script
    Table,       \* "Event" or "EmailEvent"
    BatchSize, MaxBatches,
    MaxFaults,   \* bound on transactions that roll back and processes that die
    None

VARIABLES
    written,     \* rows 1..written were recorded
    aged,        \* rows 1..aged are past the window
    live,        \* rows in the table
    rolled,      \* Campaign.rolled* and DigestSend.rolled*, by owner and type
    first,       \* Campaign.rolledFirstSentAt: a row, or 0
    lifetime,    \* EventRollup, by type
    proof,       \* sends with webhookProofAt
    sw,          \* per process, its sweep
    twice,       \* some row was in the hands of two sweepers
    faults

vars == <<written, aged, live, rolled, first, lifetime, proof, sw, twice, faults>>

Rows     == 1..Len(Log)
Types    == {Log[r].type : r \in Rows}
Owners   == {Log[r].of : r \in Rows} \ {None}
Windowed == {"SENT", "CLICKED", "FAILED"}
Feedback == {"UNSUBSCRIBE", "HARD_BOUNCE", "SPAM"}
Proofs   == {"CAMPAIGN_SENT", "CAMPAIGN_ERROR"}
Counted  == IF Table = "Event" THEN Windowed ELSE Feedback

Purged   == Windowed \cup {"DISMISSED"}

\* A row of EmailEvent is a provider's event, never one of the browser's.
RetentionOK ==
    /\ Table \in {"Event", "EmailEvent"} /\ {BatchSize, MaxBatches} \subseteq Nat \ {0}
    /\ {MaxFaults, Len(Log)} \subseteq Nat
    /\ Table = "EmailEvent" => Purged \cap Types = {}

OfType(S, o, k) == Cardinality({r \in S : Log[r].of = o /\ Log[r].type = k})

Asleep == [pc |-> "idle", cutoff |-> 0, left |-> 0, batch |-> {}]

Init ==
    /\ written = 0 /\ aged = 0 /\ live = {}
    /\ rolled = [o \in Owners |-> [k \in Windowed \cup Feedback |-> 0]]
    /\ first = [o \in Owners |-> 0]
    /\ lifetime = [k \in Types |-> 0]
    /\ proof = {}
    /\ sw = [s \in Sweepers |-> Asleep]
    /\ twice = FALSE /\ faults = 0

-----------------------------------------------------------------------------
(* The log                                                                 *)

Write ==
    /\ written < Len(Log)
    /\ written' = written + 1
    /\ live' = live \cup {written'}
    /\ UNCHANGED <<aged, rolled, first, lifetime, proof, sw, twice, faults>>

Age ==
    /\ aged < written
    /\ aged' = aged + 1
    /\ UNCHANGED <<written, live, rolled, first, lifetime, proof, sw, twice, faults>>

-----------------------------------------------------------------------------
(* A sweep                                                                 *)

Oldest(S, n) == {r \in S : Cardinality({q \in S : q < r}) < n}

\* Event: what is past the window, then DISMISSED of any age; other types stay. EmailEvent: whatever is old.
NextBatch(cutoff) ==
    LET old  == {r \in live : r <= cutoff}
        win  == Oldest({r \in old : Log[r].type \in Windowed}, BatchSize)
        rest == {r \in live : Log[r].type = "DISMISSED"}
    IN IF Table = "EmailEvent" THEN Oldest(old, BatchSize)
       ELSE win \cup Oldest(rest, BatchSize - Cardinality(win))

\* One sweep at a time in a process.
Sweep(s) ==
    /\ sw[s].pc = "idle"
    /\ sw' = [sw EXCEPT ![s] = [pc |-> "select", cutoff |-> aged, left |-> MaxBatches, batch |-> {}]]
    /\ UNCHANGED <<written, aged, live, rolled, first, lifetime, proof, twice, faults>>

Select(s) ==
    /\ sw[s].pc = "select"
    /\ LET b == IF sw[s].left = 0 THEN {} ELSE NextBatch(sw[s].cutoff)
       IN /\ sw' = [sw EXCEPT ![s] = IF b = {} THEN Asleep ELSE [@ EXCEPT !.pc = "fold", !.batch = b]]
          /\ twice' = (twice \/ \E z \in Sweepers \ {s} : sw[z].batch \cap b # {})
    /\ UNCHANGED <<written, aged, live, rolled, first, lifetime, proof, faults>>

Earliest(a, S) == IF S = {} THEN a ELSE LET m == CHOOSE r \in S : \A q \in S : r <= q
                                        IN IF a = 0 \/ m < a THEN m ELSE a

Stamped_Linked(b) == {Log[r].of : r \in {q \in b : Log[q].type \in Proofs /\ Log[q].linked}} \ {None}
Stamped(b) == {Log[r].of : r \in {q \in b : Log[q].type \in Proofs}} \ {None}

\* The transaction. It counts the rows it was handed, there or not.
Fold(s) ==
    /\ sw[s].pc = "fold"
    /\ LET b == sw[s].batch
       IN /\ rolled' = [o \in Owners |-> [k \in Windowed \cup Feedback |->
                           rolled[o][k] + IF k \in Counted THEN OfType(b, o, k) ELSE 0]]
          /\ first' = [o \in Owners |-> Earliest(first[o], {r \in b : Log[r].of = o /\ Log[r].type = "SENT"})]
          /\ lifetime' = [k \in Types |->
                            lifetime[k] + IF Table = "Event" THEN Cardinality({r \in b : Log[r].type = k}) ELSE 0]
          /\ proof' = proof \cup Stamped(b)
          /\ live' = live \ b
    /\ sw' = [sw EXCEPT ![s] = IF Cardinality(@.batch) < BatchSize THEN Asleep
                                  ELSE [sw[s] EXCEPT !.pc = "select", !.left = @ - 1, !.batch = {}]]
    /\ UNCHANGED <<written, aged, twice, faults>>

\* A timeout rolls the transaction back, or the process dies: nothing of the batch was done.
Stops(s) ==
    /\ sw[s].pc # "idle" /\ faults < MaxFaults
    /\ sw' = [sw EXCEPT ![s] = Asleep] /\ faults' = faults + 1
    /\ UNCHANGED <<written, aged, live, rolled, first, lifetime, proof, twice>>

-----------------------------------------------------------------------------
(* The numbers on the screens                                              *)

Proved(o) == o \in proof \/ \E r \in live : Log[r].of = o /\ Log[r].type \in Proofs

Next ==
    \/ Write \/ Age
    \/ \E s \in Sweepers : Sweep(s) \/ Select(s) \/ Fold(s) \/ Stops(s)

Spec == Init /\ [][Next]_vars

-----------------------------------------------------------------------------
(* Properties *)

\* Every variable holds values of its kind.
TypeOK ==
    /\ written \in 0..Len(Log) /\ aged \in 0..written /\ live \subseteq 1..written
    /\ rolled \in [Owners -> [Windowed \cup Feedback -> Nat]]
    /\ first \in [Owners -> 0..Len(Log)] /\ lifetime \in [Types -> Nat] /\ proof \subseteq Owners
    /\ \A s \in Sweepers :
         sw[s].pc \in {"idle", "select", "fold"} /\ sw[s].batch \subseteq 1..written
    /\ twice \in BOOLEAN /\ faults \in 0..MaxFaults

Ever(o, k) == OfType(1..written, o, k)
Total(o, k) == rolled[o][k] + OfType(live, o, k)
Lifetime(k) == lifetime[k] + Cardinality({r \in live : Log[r].type = k})

\* A batch that rolled back, a death and a re-run lose no count of a campaign, of a send, or of the lifetime totals.
NothingLost ==
    /\ \A o \in Owners, k \in Windowed \cup Feedback : Total(o, k) >= Ever(o, k)
    /\ \A k \in Types \cap Purged : Lifetime(k) >= Cardinality({r \in 1..written : Log[r].type = k})

\* While no row is in the hands of two sweepers, every count is exact, and so is the time of a campaign's first push.
Exact ==
    ~twice =>
      /\ \A o \in Owners, k \in Windowed \cup Feedback : Total(o, k) = Ever(o, k)
      /\ \A k \in Types \cap Purged : Lifetime(k) = Cardinality({r \in 1..written : Log[r].type = k})
      /\ \A o \in Owners :
           Earliest(first[o], {r \in live : Log[r].of = o /\ Log[r].type = "SENT"})
             = Earliest(0, {r \in 1..written : Log[r].of = o /\ Log[r].type = "SENT"})

\* A send whose webhook was heard of stays covered when the rows that prove it go.
StaysProved == \A r \in 1..written : Log[r].type \in Proofs /\ Log[r].of # None => Proved(Log[r].of)

\* Retention: a sweep that fails or is repeated loses no count, a row swept once is counted once, and a send that was
\* proved stays proved.
CountsKept == NothingLost /\ Exact /\ StaysProved
=============================================================================
