----------------------------- MODULE Subscriber -----------------------------
(***************************************************************************)
(* One reader's browser and its Subscriber rows: the SDK                   *)
(* src/public/taxscan-push.js in every open tab, the service worker        *)
(* src/public/sw.js, and POST /subscribe of src/src/routes/api.ts. The     *)
(* tabs share the permission, the push subscription and the local storage; *)
(* any of them may be left at any moment.                                  *)
(***************************************************************************)
EXTENDS Naturals, FiniteSets

CONSTANTS
    Tabs,
    Topics,        \* what a reader may choose; "all" is the default
    None,
    MaxEndpoints   \* bound: subscriptions the browser makes with our key

Endpoints == 1 .. MaxEndpoints
Theirs == 0        \* a subscription made with the former vendor's key
SubscriberOK == "all" \in Topics /\ None \notin Topics \cup Nat /\ MaxEndpoints \in Nat

VARIABLES
    variant, realScroll,   \* /api/config
    permission,
    push,       \* the browser's subscription
    made,       \* endpoints made so far
    dead,       \* endpoints the push service gave up
    rows,       \* Subscriber rows
    dismissed,  \* the 7-day flag
    stored,     \* txn_push_topics
    tab,
    worker,     \* the endpoint the service worker is about to post
    unposted    \* endpoints whose POST /subscribe never arrived

vars == <<variant, realScroll, permission, push, made, dead, rows, dismissed, stored,
          tab, worker, unposted>>

Busy == {"asking", "look", "drop", "subscribe", "post"}
Tab == [pc: {"armed", "shown", "done"} \cup Busy,
        visible: BOOLEAN, waiting: BOOLEAN,   \* a trigger waits for the tab to be seen
        topics: Topics \cup {None}, ep: Endpoints \cup {None}]
Done == [pc |-> "done", visible |-> TRUE, waiting |-> FALSE, topics |-> None, ep |-> None]
Row == [status: {"none", "ACTIVE", "EXPIRED"}, topics: Topics \cup {None}]

Init ==
    /\ variant \in {"v1", "v2"} /\ realScroll \in BOOLEAN
    /\ permission \in {"default", "granted"}
    /\ push \in (IF permission = "granted" THEN {Theirs, None} ELSE {None})
    /\ made = 0 /\ dead = {} /\ rows = [e \in Endpoints |-> [status |-> "none", topics |-> None]]
    /\ dismissed = FALSE /\ stored = None /\ tab = [t \in Tabs |-> Done]
    /\ worker = None /\ unposted = {}

Does(t, pc) == tab[t].pc = pc
Goes(t, pc) == tab' = [tab EXCEPT ![t] = IF pc = "done" THEN Done ELSE [@ EXCEPT !.pc = pc]]

-----------------------------------------------------------------------------
(* The soft prompt                                                         *)

\* A page of a visit. On a tab's first page, its landing, v1 arms no trigger.
Load(t) ==
    /\ Does(t, "done")
    /\ \E landing \in BOOLEAN, visible \in {TRUE, ~realScroll} :
         tab' = [tab EXCEPT ![t] = [Done EXCEPT !.visible = visible,
                   !.pc = CASE permission = "granted" -> "look"
                            [] permission = "default" /\ ~dismissed
                               /\ (landing => variant = "v2") -> "armed"
                            [] OTHER -> "done"]]
    /\ UNCHANGED <<variant, realScroll, permission, push, made, dead, rows, dismissed,
                   stored, worker, unposted>>

\* Checked when a trigger fires, and again when the tab is seen.
MayShow_Armed(t) == Does(t, "armed")
MayShow(t) == Does(t, "armed") /\ ~dismissed /\ permission = "default"

MaybeShow(t, visible) ==
    IF ~MayShow(t) THEN [tab[t] EXCEPT !.visible = visible, !.waiting = FALSE]
    ELSE IF realScroll /\ ~visible THEN [tab[t] EXCEPT !.waiting = TRUE]
    ELSE [tab[t] EXCEPT !.visible = visible, !.waiting = FALSE, !.pc = "shown"]

\* Dwell, scroll or a second page.
Trigger(t) ==
    /\ Does(t, "armed")
    /\ tab' = [tab EXCEPT ![t] = MaybeShow(t, @.visible)]
    /\ UNCHANGED <<variant, realScroll, permission, push, made, dead, rows, dismissed,
                   stored, worker, unposted>>

Seen(t) ==
    /\ Does(t, "armed") /\ ~tab[t].visible
    /\ tab' = [tab EXCEPT ![t] = IF @.waiting THEN MaybeShow(t, TRUE)
                                 ELSE [@ EXCEPT !.visible = TRUE]]
    /\ UNCHANGED <<variant, realScroll, permission, push, made, dead, rows, dismissed,
                   stored, worker, unposted>>

Dismiss(t) ==
    /\ Does(t, "shown") /\ Goes(t, "done") /\ dismissed' = TRUE
    /\ UNCHANGED <<variant, realScroll, permission, push, made, dead, rows, stored,
                   worker, unposted>>

\* Allow: the choice is stored at once (v2 offers none), then the browser asks.
Allow(t) ==
    /\ Does(t, "shown")
    /\ \E c \in (IF variant = "v2" THEN {"all"} ELSE Topics) :
         /\ stored' = c /\ tab' = [tab EXCEPT ![t].pc = "asking", ![t].topics = c]
    /\ UNCHANGED <<variant, realScroll, permission, push, made, dead, rows, dismissed,
                   worker, unposted>>

Answer(t) ==
    /\ Does(t, "asking")
    /\ permission' \in (IF permission = "default" THEN {"default", "granted", "denied"}
                        ELSE {permission})
    /\ IF permission' = "granted" THEN Goes(t, "look") /\ UNCHANGED dismissed
       ELSE Goes(t, "done") /\ dismissed' = TRUE
    /\ UNCHANGED <<variant, realScroll, push, made, dead, rows, stored, worker, unposted>>

-----------------------------------------------------------------------------
(* ensureSubscribedSilently                                                *)

\* A subscription with our key is left alone, one with another key is dropped.
Ours(p) == p \in Endpoints

Look(t) ==
    /\ Does(t, "look")
    /\ Goes(t, IF Ours(push) THEN "done" ELSE IF push = None THEN "subscribe" ELSE "drop")
    /\ UNCHANGED <<variant, realScroll, permission, push, made, dead, rows, dismissed,
                   stored, worker, unposted>>

\* Another tab may have subscribed meanwhile: its endpoint ends too.
Drop(t) ==
    /\ Does(t, "drop") /\ Goes(t, "subscribe") /\ push' = None
    /\ dead' = dead \cup ({push} \cap Endpoints)
    /\ UNCHANGED <<variant, realScroll, permission, made, rows, dismissed, stored,
                   worker, unposted>>

\* pushManager.subscribe: a subscription there already is returned as it is.
NewPush == IF push \in Endpoints THEN push ELSE made + 1
Subscribe(t) ==
    /\ Does(t, "subscribe") /\ push # Theirs /\ NewPush \in Endpoints
    /\ push' = NewPush /\ made' = IF push = NewPush THEN made ELSE made + 1
    /\ tab' = [tab EXCEPT ![t].pc = "post", ![t].ep = NewPush,
                 ![t].topics = IF @ # None THEN @ ELSE IF stored # None THEN stored ELSE "all"]
    /\ UNCHANGED <<variant, realScroll, permission, dead, rows, dismissed, stored,
                   worker, unposted>>

\* POST /subscribe: explicit topics, else the row's, else all; a known row is revived.
Revived(r) == "ACTIVE"
Upsert(e, topics) ==
    rows' = [rows EXCEPT ![e] = [status |-> Revived(@),
               topics |-> IF topics # None THEN topics
                          ELSE IF @.topics # None THEN @.topics ELSE "all"]]

\* A request that fails is swallowed.
Post(t) ==
    /\ Does(t, "post") /\ Goes(t, "done")
    /\ \/ Upsert(tab[t].ep, tab[t].topics) /\ unposted' = unposted \ {tab[t].ep}
       \/ UNCHANGED rows /\ unposted' = unposted \cup {tab[t].ep}
    /\ UNCHANGED <<variant, realScroll, permission, push, made, dead, dismissed, stored, worker>>

\* The reader leaves the page, whatever it was doing.
Leave(t) ==
    /\ ~Does(t, "done") /\ Goes(t, "done")
    /\ unposted' = IF Does(t, "post") THEN unposted \cup {tab[t].ep} ELSE unposted
    /\ UNCHANGED <<variant, realScroll, permission, push, made, dead, rows, dismissed,
                   stored, worker>>

-----------------------------------------------------------------------------
(* The service worker, the push service and a send                         *)

\* The push service replaces the subscription; the worker makes one with our key.
PushSubscriptionChange ==
    /\ push \in Endpoints /\ made + 1 \in Endpoints /\ worker = None
    /\ dead' = dead \cup {push} /\ push' = made + 1 /\ made' = made + 1 /\ worker' = made + 1
    /\ UNCHANGED <<variant, realScroll, permission, rows, dismissed, stored, tab, unposted>>

\* Its post names no topics.
WorkerPosts ==
    /\ worker # None /\ worker' = None
    /\ \/ Upsert(worker, None) /\ unposted' = unposted \ {worker}
       \/ UNCHANGED rows /\ unposted' = unposted \cup {worker}
    /\ UNCHANGED <<variant, realScroll, permission, push, made, dead, dismissed, stored, tab>>

\* The push service forgets the subscription without a word.
PushDies ==
    /\ push \in Endpoints /\ dead' = dead \cup {push} /\ push' = None
    /\ UNCHANGED <<variant, realScroll, permission, made, rows, dismissed, stored, tab,
                   worker, unposted>>

\* A send's 404 or 410.
Gone(e) ==
    /\ e \in dead /\ rows[e].status = "ACTIVE"
    /\ rows' = [rows EXCEPT ![e].status = "EXPIRED"]
    /\ UNCHANGED <<variant, realScroll, permission, push, made, dead, dismissed, stored,
                   tab, worker, unposted>>

WeekPasses ==
    /\ dismissed /\ dismissed' = FALSE
    /\ UNCHANGED <<variant, realScroll, permission, push, made, dead, rows, stored, tab,
                   worker, unposted>>

Next ==
    \/ \E t \in Tabs :
          \/ Load(t) \/ Trigger(t) \/ Seen(t) \/ Dismiss(t) \/ Allow(t) \/ Answer(t)
          \/ Look(t) \/ Drop(t) \/ Subscribe(t) \/ Post(t) \/ Leave(t)
    \/ PushSubscriptionChange \/ WorkerPosts \/ PushDies \/ WeekPasses
    \/ \E e \in Endpoints : Gone(e)

Spec == Init /\ [][Next]_vars

-----------------------------------------------------------------------------
(* Properties                                                              *)

\* Every variable holds a value of its kind.
TypeOK ==
    /\ variant \in {"v1", "v2"} /\ realScroll \in BOOLEAN
    /\ permission \in {"default", "granted", "denied"} /\ push \in Endpoints \cup {Theirs, None}
    /\ made \in 0 .. MaxEndpoints /\ dead \subseteq 1 .. made /\ rows \in [Endpoints -> Row]
    /\ dismissed \in BOOLEAN /\ stored \in Topics \cup {None} /\ tab \in [Tabs -> Tab]
    /\ worker \in Endpoints \cup {None} /\ unposted \subseteq 1 .. made

\* No card appears within a week of a "no", or once the browser's own prompt was
\* answered, although the answer came in another tab after this one armed its triggers;
\* and in a hidden tab none appears that real-scroll mode holds back.
AskStep == \A t \in Tabs :
    tab[t].pc # "shown" /\ tab'[t].pc = "shown" =>
        /\ ~dismissed /\ permission = "default"
        /\ realScroll => tab'[t].visible

\* A page that ran to its end on a browser that allows notifications leaves no
\* subscription of the former vendor, and if it leaves one of ours the server knows it:
\* unless its POST was lost, and whatever other tabs and the worker did meanwhile.
Known == push \in Endpoints =>
    \/ rows[push].status = "ACTIVE" \/ push \in unposted \/ worker = push
    \/ \E u \in Tabs : Does(u, "post") /\ tab[u].ep = push
VisitStep == \A t \in Tabs :
    (Look(t) \/ Post(t)) /\ tab'[t].pc = "done" => push' # Theirs /\ Known'

\* Nobody is asked again before the time is up, and a subscription of the former vendor is replaced on a visit.
PoliteStep    == AskStep /\ VisitStep
AskedPolitely == [][PoliteStep]_vars
=============================================================================
