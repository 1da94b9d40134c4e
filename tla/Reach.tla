-------------------------------- MODULE Reach --------------------------------
(***************************************************************************)
(* Whom a send reaches and what it records: executeCampaign and            *)
(* dispatchCampaign of src/src/services/send.ts, filterByCap of            *)
(* src/src/lib/cap.ts and sendToSubscriber of src/src/lib/push.ts. Several *)
(* campaigns go out at once; each counts a reader's events of the day,     *)
(* pushes in parallel lanes, and writes its own events in batches.         *)
(***************************************************************************)
EXTENDS Naturals, FiniteSetsExt

CONSTANTS
    Readers,    \* subscribers
    Campaigns,  \* campaigns that come to be sent in the day
    Lanes,      \* SEND_CONCURRENCY
    Batch,      \* EVENT_BATCH
    Cap,        \* FREQ_CAP_PER_DAY
    MaxForced,  \* bound: campaigns sent with `force`
    MaxFaults,  \* bound: event writes that failed or whose answer was lost, and crashes
    MaxNights   \* bound: midnights

ReachOK ==
    /\ {Lanes, Batch, Cap} \subseteq Nat \ {0} /\ {MaxForced, MaxFaults, MaxNights} \subseteq Nat
    /\ IsFiniteSet(Campaigns)

VARIABLES
    send,      \* each campaign's send
    events,    \* how many Event rows each delivery has
    today,     \* each reader's SENT events since midnight
    warm,      \* readers with a SENT event within MIN_GAP_MINUTES
    got,       \* pushes a reader's device took today
    together,  \* the most sends ever under way at once
    unheard,   \* event writes that were stored although the call failed
    forced, faults, nights

vars == <<send, events, today, warm, got, together, unheard, forced, faults, nights>>

Rows == Campaigns \X Readers

\* A delivery's outcome waits in `pending` until a lane writes it, with the batch it is in.
Outcomes == Readers \X {"SENT", "FAILED"}
Send == [pc: {"draft", "counting", "fanout", "last", "SENT", "FAILED"}, force: BOOLEAN,
         left: SUBSET Readers,        \* candidates, then those kept and not taken by a lane
         reached: SUBSET Readers,     \* taken by a lane
         pending: SUBSET Outcomes,
         writes: SUBSET SUBSET Outcomes]
Draft == [pc |-> "draft", force |-> FALSE, left |-> {}, reached |-> {}, pending |-> {},
          writes |-> {}]

Init ==
    /\ send = [c \in Campaigns |-> Draft]
    /\ events = [r \in Rows |-> 0] /\ today = [s \in Readers |-> 0] /\ warm = {}
    /\ got = [s \in Readers |-> 0] /\ together = 0 /\ unheard = 0
    /\ forced = 0 /\ faults = 0 /\ nights = 0

At(c, pc) == send[c].pc = pc
UnderWay == {c \in Campaigns : send[c].pc \in {"counting", "fanout", "last"}}

-----------------------------------------------------------------------------
(* Who is kept                                                             *)

\* At the daily cap already.
Capped(s) == today[s] >= Cap

\* The targets (the topic's ACTIVE subscribers at that moment: Subscriber has what makes them so), and the day's
\* counts; `force` lifts the cap.
CountToday(c) ==
    /\ At(c, "draft")
    /\ \E f \in BOOLEAN, targets \in SUBSET Readers :
         /\ f => forced < MaxForced
         /\ forced' = IF f THEN forced + 1 ELSE forced
         /\ send' = [send EXCEPT ![c].pc = "counting", ![c].force = f,
                       ![c].left = {s \in targets : f \/ ~Capped(s)}]
    /\ together' = Max({together, Cardinality(UnderWay) + 1})
    /\ UNCHANGED <<events, today, warm, got, unheard, faults, nights>>

\* The cooldown is a second query; `force` lifts it too.
RestedOf(c) == send[c].left \ warm
Cooldown(c) ==
    /\ At(c, "counting")
    /\ send' = [send EXCEPT ![c].pc = "fanout",
                            ![c].left = IF send[c].force THEN @ ELSE RestedOf(c)]
    /\ UNCHANGED <<events, today, warm, got, together, unheard, forced, faults, nights>>

-----------------------------------------------------------------------------
(* The fan-out                                                             *)

\* The buffer is emptied before the write, so that no other lane writes its rows too.
Buffer_UntilWritten(p) == p
Buffer(p) == IF Cardinality(p) >= Batch THEN {} ELSE p

\* A lane pushes to the next reader. Every outcome, 404 and 410 included, is
\* an event to be written; the lane that fills the buffer writes it.
Push(c) ==
    /\ At(c, "fanout") /\ Cardinality(send[c].writes) < Lanes
    /\ \E s \in send[c].left, outcome \in {"SENT", "FAILED"} :
         /\ got' = IF outcome = "SENT" THEN [got EXCEPT ![s] = @ + 1] ELSE got
         /\ LET p == send[c].pending \cup {<<s, outcome>>} IN
            send' = [send EXCEPT ![c].left = @ \ {s}, ![c].reached = @ \cup {s},
                       ![c].pending = Buffer(p),
                       ![c].writes = IF Cardinality(p) >= Batch THEN @ \cup {p} ELSE @]
    /\ UNCHANGED <<events, today, warm, together, unheard, forced, faults, nights>>

InBatch(B, outcome) == {s \in Readers : <<s, outcome>> \in B}

Stores(c, B) ==
    /\ events' = [r \in Rows |-> IF r[1] = c /\ r[2] \in InBatch(B, "SENT") \cup InBatch(B, "FAILED")
                                 THEN events[r] + 1 ELSE events[r]]
    /\ today' = [s \in Readers |-> IF s \in InBatch(B, "SENT") THEN today[s] + 1 ELSE today[s]]
    /\ warm' = warm \cup InBatch(B, "SENT")

Write(c, B) ==
    /\ Stores(c, B)
    /\ send' = [send EXCEPT ![c].writes = @ \ {B}]
    /\ UNCHANGED <<got, together, unheard, forced, faults, nights>>

\* The call throws: mid-send the rows go back in the buffer; after the lanes, the send fails.
Restored(p, B) == p \cup B
Throws(c, B) ==
    /\ faults < MaxFaults /\ faults' = faults + 1
    /\ send' = [send EXCEPT ![c].writes = @ \ {B},
                  ![c].pc = IF At(c, "last") THEN "FAILED" ELSE @,
                  ![c].pending = IF At(c, "last") THEN @ ELSE Restored(@, B)]

WriteFails(c, B) ==
    /\ Throws(c, B)
    /\ UNCHANGED <<events, today, warm, got, together, unheard, forced, nights>>

\* The rows are stored and the answer is lost: put back, they will be written again.
WriteUnheard(c, B) ==
    /\ Throws(c, B) /\ Stores(c, B) /\ unheard' = unheard + 1
    /\ UNCHANGED <<got, together, forced, nights>>

\* Every lane is done: what is left in the buffer is written.
LanesDone(c) ==
    /\ At(c, "fanout") /\ send[c].left = {} /\ send[c].writes = {}
    /\ send' = [send EXCEPT ![c].pc = "last", ![c].pending = {},
                  ![c].writes = IF send[c].pending = {} THEN {} ELSE {send[c].pending}]
    /\ UNCHANGED <<events, today, warm, got, together, unheard, forced, faults, nights>>

Ends(c) ==
    /\ At(c, "last") /\ send[c].writes = {}
    /\ send' = [send EXCEPT ![c].pc = "SENT"]
    /\ UNCHANGED <<events, today, warm, got, together, unheard, forced, faults, nights>>

-----------------------------------------------------------------------------
(* The rest of the world                                                   *)

\* The container dies: what was not written is lost.
Crash ==
    /\ UnderWay # {} /\ faults < MaxFaults /\ faults' = faults + 1
    /\ send' = [c \in Campaigns |-> IF c \in UnderWay
                  THEN [send[c] EXCEPT !.pc = "FAILED", !.left = {}, !.pending = {},
                                       !.writes = {}]
                  ELSE send[c]]
    /\ UNCHANGED <<events, today, warm, got, together, unheard, forced, nights>>

GapPasses ==
    /\ warm # {} /\ UnderWay = {} /\ warm' = {}
    /\ UNCHANGED <<send, events, today, got, together, unheard, forced, faults, nights>>

Midnight ==
    /\ nights < MaxNights /\ nights' = nights + 1
    /\ today' = [s \in Readers |-> 0]
    /\ got' = [s \in Readers |-> 0]
    /\ UNCHANGED <<send, events, warm, together, unheard, forced, faults>>

Next ==
    \/ \E c \in Campaigns :
          \/ CountToday(c) \/ Cooldown(c) \/ Push(c) \/ LanesDone(c) \/ Ends(c)
          \/ \E B \in send[c].writes : Write(c, B) \/ WriteFails(c, B) \/ WriteUnheard(c, B)
    \/ Crash \/ GapPasses \/ Midnight

Spec == Init /\ [][Next]_vars

-----------------------------------------------------------------------------
(* Properties                                                              *)

\* Every variable holds a value of its kind.
TypeOK ==
    /\ send \in [Campaigns -> Send]
    /\ events \in [Rows -> Nat] /\ {today, got} \subseteq [Readers -> Nat] /\ warm \subseteq Readers
    /\ together \in 0 .. Cardinality(Campaigns) /\ forced \in 0 .. MaxForced
    /\ faults \in 0 .. MaxFaults /\ unheard \in 0 .. faults /\ nights \in 0 .. MaxNights

\* A reader's pushes of a day stay within FREQ_CAP_PER_DAY, but for forced sends and for
\* sends under way at once, which do not see each other's events: one more for each.
WithinCap ==
    faults = 0 => \A s \in Readers : got[s] <= Cap + forced + Max({together - 1, 0})

\* A delivery's event is written once, and once more for each write whose answer was lost, however the lanes
\* overlap; a campaign closed as SENT has the event of every reader it was pushed to, although writes failed.
EventOnce ==
    \A c \in Campaigns, s \in Readers :
        /\ events[<<c, s>>] <= 1 + unheard
        /\ At(c, "SENT") /\ s \in send[c].reached => events[<<c, s>>] >= 1

\* A reader who got a push within the cooldown gets another only by a forced send or by
\* one that was under way at the same time.
RestStep == \A s \in warm : got'[s] > got[s] => forced > 0 \/ together > 1

\* A reader's daily cap, one record of each delivery but for answers lost, and a rest after each push.
FairStep  == RestStep /\ (WithinCap /\ EventOnce)'
ReachFair == [][FairStep]_vars
=============================================================================
