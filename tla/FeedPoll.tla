------------------------------ MODULE FeedPoll ------------------------------
(***************************************************************************)
(* The feed poller, src/src/services/poller.ts: every container reads the  *)
(* feeds one after another, claims each new article by its guid, decides   *)
(* by headline which queue it enters, and captures or dispatches it.       *)
(* PushCampaign takes the campaign from there.                             *)
(***************************************************************************)
EXTENDS Naturals, FiniteSets

CONSTANTS
    Containers,  \* two at once only while a deploy overlaps
    Feeds,       \* the sections, then the master feed: feed n lists Lists[n]
    Lists,
    Headline,    \* of each article, normalised: two copies of a story share it
    Queue,       \* the classifier's answer for each headline
    None,
    Modes,       \* how the poller may be configured, see ShouldSend
    MaxFaults    \* bound: crashes, failed writes and failed fetches

Articles == DOMAIN Headline
Headlines == {Headline[a] : a \in Articles}
Queues == {"QUALIFIED", "FALLBACK", "REVIEW"}
AutoQueues == {"QUALIFIED", "FALLBACK"}

PollOK ==
    /\ Feeds = 1 .. Cardinality(Feeds) /\ Lists \in [Feeds -> SUBSET Articles]
    /\ Queue \in [Headlines -> Queues] /\ MaxFaults \in Nat
    /\ Modes \subseteq {"capture_only", "unfiltered", "unpaced", "paced"} /\ 1 \in Feeds
    /\ None \notin Articles \cup Queues

VARIABLES
    mode,       \* SEND_MODE, RSS_EDITORIAL_FILTER and PACER_ENABLED
    published,  \* articles in the feeds
    claimed,    \* articles with a FeedItem
    linked,     \* FeedItems with a campaignId
    queue,      \* campaigns captured, with their sendQueue
    sends,      \* campaigns dispatched by the poller itself
    aged,       \* campaigns out of DUPLICATE_TITLE_WINDOW_HOURS
    poll,       \* each container's poll
    lost,       \* articles claimed and then dropped by a fault
    blind,      \* headlines captured while another poll had read the recent ones
    faults

vars == <<mode, published, claimed, linked, queue, sends, aged, poll, lost, blind, faults>>

Idle == [pc |-> "idle", feed |-> 1, fresh |-> {}, titles |-> {}, item |-> None, as |-> "REVIEW"]
Poll == [pc: {"idle", "fetch", "titles", "items", "capture", "link"}, feed: Feeds,
         fresh: SUBSET Articles,     \* read and not handled yet
         titles: SUBSET Headlines,   \* recentTitles
         item: Articles \cup {None}, as: Queues]

Init ==
    /\ mode \in Modes /\ published = {} /\ claimed = {} /\ linked = {}
    /\ queue = [a \in Articles |-> None] /\ sends = [a \in Articles |-> 0]
    /\ aged = {} /\ poll = [c \in Containers |-> Idle] /\ lost = {} /\ blind = {} /\ faults = 0

At(c, pc) == poll[c].pc = pc
Captured == {a \in Articles : queue[a] # None}

\* The end of one feed's poll: the next feed, or the end of the tick.
NextFeed(c) ==
    LET n == poll[c].feed + 1
    IN  [poll EXCEPT ![c] = IF n \in Feeds THEN [Idle EXCEPT !.pc = "fetch", !.feed = n] ELSE Idle]

\* capture_only never dispatches; unfiltered live mode dispatches everything; with the
\* editorial filter only QUALIFIED, and nothing while the pacer is on.
ShouldSend(q) == mode = "unfiltered" \/ (mode = "unpaced" /\ q = "QUALIFIED")

-----------------------------------------------------------------------------

\* isPolling: one tick at a time in a container.
Start(c) ==
    /\ At(c, "idle") /\ poll' = [poll EXCEPT ![c].pc = "fetch"]
    /\ UNCHANGED <<mode, published, claimed, linked, queue, sends, aged, lost, blind, faults>>

\* The feed, and which of its guids any feed has claimed already.
Fetch(c) ==
    /\ At(c, "fetch")
    /\ LET fresh == (Lists[poll[c].feed] \cap published) \ claimed IN
       poll' = IF fresh = {} THEN NextFeed(c)
               ELSE [poll EXCEPT ![c].pc = "titles", ![c].fresh = fresh]
    /\ UNCHANGED <<mode, published, claimed, linked, queue, sends, aged, lost, blind, faults>>

\* Headlines of the campaigns in the window, read once a tick.
ReadTitles(c) ==
    /\ At(c, "titles")
    /\ poll' = [poll EXCEPT ![c].pc = "items",
                            ![c].titles = {Headline[a] : a \in Captured \ aged}]
    /\ UNCHANGED <<mode, published, claimed, linked, queue, sends, aged, lost, blind, faults>>

\* The unique guid turns a second claim away. A headline in recentTitles is a repeat.
IsFresh_AsRead(a) == TRUE
IsFresh(a) == a \notin claimed
Decided(c, a) == IF Headline[a] \in poll[c].titles THEN "REVIEW" ELSE Queue[Headline[a]]

\* What one claim writes: the article's own FeedItem.
Claims(c, a) == {a}

ClaimItem(c) ==
    /\ At(c, "items")
    /\ \E a \in poll[c].fresh :
         IF IsFresh(a)
         THEN /\ claimed' = claimed \cup Claims(c, a)
              /\ poll' = [poll EXCEPT ![c].pc = "capture", ![c].item = a, ![c].fresh = @ \ {a},
                                      ![c].titles = @ \cup {Headline[a]}, ![c].as = Decided(c, a)]
         ELSE /\ poll' = [poll EXCEPT ![c].fresh = @ \ {a}] /\ UNCHANGED claimed
    /\ UNCHANGED <<mode, published, linked, queue, sends, aged, lost, blind, faults>>

\* The claim's write fails: the article is left for the next tick.
ClaimFails(c) ==
    /\ At(c, "items") /\ faults < MaxFaults /\ faults' = faults + 1
    /\ \E a \in poll[c].fresh : poll' = [poll EXCEPT ![c].fresh = @ \ {a}]
    /\ UNCHANGED <<mode, published, claimed, linked, queue, sends, aged, lost, blind>>

FeedDone(c) ==
    /\ At(c, "items") /\ poll[c].fresh = {} /\ poll' = NextFeed(c)
    /\ UNCHANGED <<mode, published, claimed, linked, queue, sends, aged, lost, blind, faults>>

\* Polls that have read the recent headlines and not finished their feed.
Reading == {c \in Containers : poll[c].pc \in {"items", "capture", "link"}}

\* The campaign's row, and its fan-out (or its deferral) when the poller sends it.
Capture(c) ==
    /\ At(c, "capture")
    /\ LET a == poll[c].item IN
       /\ queue' = [queue EXCEPT ![a] = poll[c].as]
       /\ sends' = [sends EXCEPT ![a] = IF ShouldSend(poll[c].as) THEN @ + 1 ELSE @]
       /\ blind' = IF Reading \ {c} = {} THEN blind ELSE blind \cup {Headline[a]}
    /\ poll' = [poll EXCEPT ![c].pc = "link"]
    /\ UNCHANGED <<mode, published, claimed, linked, aged, lost, faults>>

\* The capture or the dispatch throws before the row exists; the FeedItem is kept.
CaptureFails(c) ==
    /\ At(c, "capture") /\ faults < MaxFaults /\ faults' = faults + 1
    /\ lost' = lost \cup {poll[c].item}
    /\ poll' = [poll EXCEPT ![c].pc = "items", ![c].item = None]
    /\ UNCHANGED <<mode, published, claimed, linked, queue, sends, aged, blind>>

\* FeedItem.campaignId; a send or a link that fails is logged and left.
Link(c) ==
    /\ At(c, "link")
    /\ \/ linked' = linked \cup {poll[c].item} /\ UNCHANGED faults
       \/ faults < MaxFaults /\ faults' = faults + 1 /\ UNCHANGED linked
    /\ poll' = [poll EXCEPT ![c].pc = "items", ![c].item = None]
    /\ UNCHANGED <<mode, published, claimed, queue, sends, aged, lost, blind>>

FetchFails(c) ==
    /\ poll[c].pc \in {"fetch", "titles"} /\ faults < MaxFaults /\ faults' = faults + 1
    /\ poll' = NextFeed(c)
    /\ UNCHANGED <<mode, published, claimed, linked, queue, sends, aged, lost, blind>>

-----------------------------------------------------------------------------

Publish(a) ==
    /\ a \notin published /\ published' = published \cup {a}
    /\ UNCHANGED <<mode, claimed, linked, queue, sends, aged, poll, lost, blind, faults>>

\* The window passes: what is older than it was captured before any poll under way began.
LeaveWindow(a) ==
    /\ a \in Captured \ aged /\ Reading = {} /\ aged' = aged \cup {a}
    /\ UNCHANGED <<mode, published, claimed, linked, queue, sends, poll, lost, blind, faults>>

Crash(c) ==
    /\ ~At(c, "idle") /\ faults < MaxFaults /\ faults' = faults + 1
    /\ poll' = [poll EXCEPT ![c] = Idle]
    /\ lost' = IF At(c, "capture") THEN lost \cup {poll[c].item} ELSE lost
    /\ UNCHANGED <<mode, published, claimed, linked, queue, sends, aged, blind>>

Next ==
    \/ \E c \in Containers :
          \/ Start(c) \/ Fetch(c) \/ ReadTitles(c) \/ ClaimItem(c) \/ ClaimFails(c)
          \/ FeedDone(c) \/ Capture(c) \/ CaptureFails(c) \/ Link(c) \/ FetchFails(c) \/ Crash(c)
    \/ \E a \in Articles : Publish(a) \/ LeaveWindow(a)

Spec == Init /\ [][Next]_vars

-----------------------------------------------------------------------------
(* Properties                                                              *)

\* Every variable holds a value of its kind.
TypeOK ==
    /\ mode \in Modes /\ published \subseteq Articles /\ claimed \subseteq published
    /\ linked \subseteq Captured /\ queue \in [Articles -> Queues \cup {None}]
    /\ sends \in [Articles -> Nat] /\ aged \subseteq Captured
    /\ poll \in [Containers -> Poll] /\ lost \subseteq claimed
    /\ blind \subseteq Headlines /\ faults \in 0 .. MaxFaults

\* An article is captured once and dispatched at most once, whichever feeds list it,
\* whatever containers poll at once and wherever one died. (The claim precedes the row.)
CaptureStep == \A a \in Articles :
    /\ queue[a] # None => queue'[a] = queue[a]
    /\ sends'[a] <= 1

\* Two copies of a story are both sent without an editor only when they are a window
\* apart, or two containers polled at once and neither could see the other's.
RepeatHeld == \A a, b \in Captured \ aged :
    a # b /\ Headline[a] = Headline[b] /\ {queue[a], queue[b]} \subseteq AutoQueues
        => Headline[a] \in blind

\* A fault costs at most the one article in hand: every other claimed article has its
\* campaign or is being captured.
OneLostPerFault ==
    /\ \A a \in claimed : queue[a] = None =>
           a \in lost \/ \E c \in Containers : At(c, "capture") /\ poll[c].item = a
    /\ Cardinality(lost) <= faults

\* An article is captured once, a repeated headline is not queued on its own, a fault loses one article.
CapturedStep == CaptureStep /\ (RepeatHeld /\ OneLostPerFault)'
CapturedOnce == [][CapturedStep]_vars
=============================================================================
