---------------------------- MODULE DigestStories ----------------------------
(* Which stories a digest carries, from day to day (digest/builder.ts, and the build step of runner.ts that      *)
(* freezes them): the window since the last build that froze, one story per article, what was sent before left   *)
(* out, and the top of a day that fell short carried over. Time counts ticks, PerDay of them a day; the order by *)
(* reads is any order the queue and the authority allow.                                                         *)
EXTENDS Integers, FiniteSets, FiniteSetsExt

CONSTANTS
    Keys,                      \* articles
    Tier,                      \* per article, authorityTier
    Dying,                     \* articles whose page may be gone
    Pushable,                  \* articles that are pushed
    Arrives,                   \* queues in which captures come
    Audiences,
    Runners,                   \* containers
    None,
    MaxItems, MinItems, RollforwardItems,
    PerDay, WindowCap, FirstWindow,
    MaxTime, MaxCaptures

VARIABLES
    now,
    captured,                  \* Campaign rows: [id, key, at, queue, status]
    run,                       \* per day, its DigestRun with items and sends
    work,                      \* per container, its build step
    news,                      \* history: per day, the articles the build found new
    aside                      \* history: articles that waited for a review, or were being pushed when a build looked

vars == <<now, captured, run, work, news, aside>>

Days   == 0..MaxTime \div PerDay
Today  == now \div PerDay
Queues == {"QUALIFIED", "FALLBACK"}

StoriesOK ==
    /\ Tier \in [Keys -> Nat] /\ Dying \cup Pushable \subseteq Keys /\ Arrives \subseteq Queues \cup {"REVIEW"}
    /\ {MaxItems, MinItems, RollforwardItems, PerDay, WindowCap, FirstWindow, MaxTime, MaxCaptures} \subseteq Nat
    /\ PerDay > 0 /\ None \notin Nat \cup Audiences

Unborn  == [build |-> "none", builtAt |-> None, items |-> {}, sends |-> [a \in Audiences |-> "none"]]
NoPicks == [a \in Audiences |-> {}]
Resting == [pc |-> "idle", day |-> 0, at |-> 0, lists |-> NoPicks, found |-> {}]

Init ==
    /\ now = 0 /\ captured = {}
    /\ run = [d \in Days |-> Unborn]
    /\ work = [r \in Runners |-> Resting]
    /\ news = [d \in Days |-> {}] /\ aside = {}

-----------------------------------------------------------------------------
(* The articles                                                            *)

Clock ==
    /\ now < MaxTime /\ now' = now + 1
    /\ UNCHANGED <<captured, run, work, news, aside>>

\* The poller, a backfill clone or a re-capture under another GUID; never at the very instant a build began.
Capture(k, q) ==
    /\ Cardinality(captured) < MaxCaptures
    /\ \A r \in Runners : work[r].pc = "idle" \/ work[r].at < now
    /\ run[Today].builtAt # now
    /\ captured' = captured \cup {[id |-> Cardinality(captured), key |-> k, at |-> now, queue |-> q, status |-> "DRAFT"]}
    /\ aside' = IF q = "REVIEW" THEN aside \cup {k} ELSE aside
    /\ UNCHANGED <<now, run, work, news>>

Becomes(x, y) == captured' = (captured \ {x}) \cup {y}

Reviewed(x) ==
    /\ x.queue = "REVIEW"
    /\ Becomes(x, [x EXCEPT !.queue = "QUALIFIED"])
    /\ UNCHANGED <<now, run, work, news, aside>>

\* A push begins, and ends; one that failed counts as one that never ends, what has expired as sent.
Pushed(x, st) ==
    /\ x.key \in Pushable /\ x.queue \in Queues
    /\ <<x.status, st>> \in {<<"DRAFT", "SCHEDULED">>, <<"SCHEDULED", "SENT">>}
    /\ Becomes(x, [x EXCEPT !.status = st])
    /\ UNCHANGED <<now, run, work, news, aside>>

-----------------------------------------------------------------------------
(* The selection                                                           *)

Latest(S) == IF S = {} THEN None ELSE Max(S)

\* digestWindow; the run before that froze, whatever it ended as.
Froze(d) == Latest({e \in Days : e < d /\ run[e].builtAt # None})
Start(d, t) ==
    LET p == Froze(d)
    IN IF p = None THEN t - FirstWindow ELSE Min({Max({run[p].builtAt, t - WindowCap}), t})

\* captureHistoryQuery: any queue counts as seen.
FirstSeen(k, t) == Min({x.at : x \in {y \in captured : y.key = k /\ y.at <= t}})

\* candidateQuery and dedupe; an article seen before the window is not new.
Candidates(s, t) == {x \in captured : s < x.at /\ x.at <= t /\ x.queue \in Queues /\ x.status # "SCHEDULED"}
BeingPushed == {x.key : x \in {y \in captured : y.status = "SCHEDULED"}}
Fresh(s, t)      == {k \in {x.key : x \in Candidates(s, t)} : FirstSeen(k, t) > s}
IsQualified(k, s, t) == \E x \in Candidates(s, t) : x.key = k /\ x.queue = "QUALIFIED"

\* rankDigest: the place of each story. Reads never move one across a queue or a tier.
Orders(s, t) ==
    LET F == Fresh(s, t)
    IN {o \in [F -> 1..Cardinality(F)] :
          \A i, j \in F : i # j =>
            /\ o[i] # o[j]
            /\ o[i] < o[j] =>
                 \/ IsQualified(i, s, t) /\ ~IsQualified(j, s, t)
                 \/ IsQualified(i, s, t) = IsQualified(j, s, t) /\ Tier[i] <= Tier[j]}

WentOut == {"SENT", "PARTIALLY_SENT"}

\* DigestItem rows of one version: those of both versions and its own.
OfVersion(d, a) == {x \in run[d].items : x.aud = None \/ x.aud = a}
SentIn(k, a, d) == {e \in Days \ {d} : run[e].sends[a] \in WentOut /\ \E x \in OfVersion(e, a) : x.key = k}

RollsForward(p, a) == run[p].build = "SKIPPED" \/ run[p].sends[a] \in {"PARTIALLY_SENT", "FAILED", "SKIPPED"}

\* A story of the run before may be repeated if that run alone sent it: the readers it did not reach missed it.
MayRepeat_Always(k, a, d, p) == TRUE
MayRepeat(k, a, d, p) == SentIn(k, a, d) \subseteq {p}

\* MAIN before ICYMI, then by rank.
Standing(x) == IF x.section = "MAIN" THEN x.rank ELSE MaxItems + x.rank

\* What the run before, if it is recent and fell short, leaves for version a, today's own stories aside; each at the
\* place it first has there.
Pool(d, t, a, today) ==
    LET p == Latest({e \in Days : e < d /\ run[e].build # "none"})
        falls == p # None /\ run[p].builtAt # None /\ t - run[p].builtAt <= WindowCap /\ RollsForward(p, a)
        left == IF falls THEN {x \in OfVersion(p, a) : x.key \notin today /\ MayRepeat(x.key, a, d, p)} ELSE {}
    IN [k \in {x.key : x \in left} |-> Min({Standing(x) : x \in {y \in left : y.key = k}})]

\* takeLive: the first n that are live.
TakeLive(order, keys, n, dead) ==
    LET live == keys \ dead IN {k \in live : Cardinality({j \in live : order[j] < order[k]}) < n}

\* Each at its place in the list, after `above` others.
Entries(order, keys, section, above) ==
    {[key |-> k, section |-> section, rank |-> above + Cardinality({j \in keys : order[j] <= order[k]})] : k \in keys}

\* selectDigest, for one version.
List(d, t, a, order, dead) ==
    LET eligible == {k \in DOMAIN order : SentIn(k, a, d) = {}}
        pool  == Pool(d, t, a, eligible)
        icymi == TakeLive(pool, DOMAIN pool, Min({RollforwardItems, MaxItems}), dead)
        main  == TakeLive(order, eligible, MaxItems - Cardinality(icymi), dead)
    IN Entries(order, main, "MAIN", 0) \cup Entries(pool, icymi, "ICYMI", Cardinality(main))

Mains(list) == Cardinality({x \in list : x.section = "MAIN"})

\* collapseRows: a row of its own, unless every version has the story at that place.
ItemRow(x, aud) == [key |-> x.key, section |-> x.section, rank |-> x.rank, aud |-> aud]
SamePlace(lists, x) == \A a \in Audiences : x \in lists[a]
Collapse(lists) ==
    UNION {{ItemRow(x, IF SamePlace(lists, x) THEN None ELSE a) : x \in lists[a]} : a \in Audiences}

-----------------------------------------------------------------------------
(* A day                                                                   *)

Open ==
    /\ run[Today].build = "none"
    /\ run' = [run EXCEPT ![Today].build = "BUILDING"]
    /\ UNCHANGED <<now, captured, work, news, aside>>

Settled(d) == \A a \in Audiences : run[d].sends[a] # "open"

\* The tick has closed what earlier days left open (portalTick). The window ends when the tick began.
Select(r) ==
    /\ work[r].pc = "idle" /\ run[Today].build = "BUILDING"
    /\ \A e \in Days : e < Today => run[e].build # "BUILDING" /\ Settled(e)
    /\ LET s == Start(Today, now)
       IN \E order \in Orders(s, now), dead \in SUBSET Dying :
            work' = [work EXCEPT ![r] = [pc |-> "freeze", day |-> Today, at |-> now,
                       lists |-> [a \in Audiences |-> List(Today, now, a, order, dead)], found |-> Fresh(s, now)]]
    /\ aside' = aside \cup BeingPushed
    /\ UNCHANGED <<now, captured, run, news>>

\* Until the pages are read and the content is rendered, nothing is written. One transaction, on a run still building.
Freeze(r) ==
    /\ work[r].pc = "freeze"
    /\ LET w == work[r]
           short == \E a \in Audiences : Mains(w.lists[a]) < MinItems
       IN IF run[w.day].build = "BUILDING"
          THEN /\ run' = [run EXCEPT ![w.day] =
                            [build |-> IF short THEN "SKIPPED" ELSE "BUILT", builtAt |-> w.at,
                             items |-> Collapse(w.lists),
                             sends |-> [a \in Audiences |-> IF short THEN "none" ELSE "open"]]]
               /\ news' = [news EXCEPT ![w.day] = w.found]
          ELSE UNCHANGED <<run, news>>
    /\ work' = [work EXCEPT ![r] = Resting]
    /\ UNCHANGED <<now, captured, aside>>

\* The content cannot be made, or the container dies. A later tick selects again.
BuildFails(r) ==
    /\ work[r].pc = "freeze"
    /\ work' = [work EXCEPT ![r] = Resting]
    /\ UNCHANGED <<now, captured, run, news, aside>>

\* The cut-off, or settings that allow no build.
SkipRun(d) ==
    /\ run[d].build = "BUILDING"
    /\ run' = [run EXCEPT ![d].build = "SKIPPED"]
    /\ UNCHANGED <<now, captured, work, news, aside>>

\* DigestSend: how a version ends.
Resolve(d, a, st) ==
    /\ run[d].sends[a] = "open"
    /\ run' = [run EXCEPT ![d].sends[a] = st]
    /\ UNCHANGED <<now, captured, work, news, aside>>

Next ==
    \/ Clock \/ Open
    \/ \E k \in Keys, q \in Arrives : Capture(k, q)
    \/ \E x \in captured : Reviewed(x) \/ \E st \in {"SCHEDULED", "SENT"} : Pushed(x, st)
    \/ \E r \in Runners : Select(r) \/ Freeze(r) \/ BuildFails(r)
    \/ \E d \in Days : SkipRun(d)
    \/ \E d \in Days, a \in Audiences, st \in WentOut \cup {"FAILED", "SKIPPED"} : Resolve(d, a, st)

Spec == Init /\ [][Next]_vars

-----------------------------------------------------------------------------
(* Properties *)

\* Every variable holds values of its kind.
TypeOK ==
    /\ now \in 0..MaxTime /\ Cardinality(captured) <= MaxCaptures /\ aside \subseteq Keys
    /\ \A x \in captured : x.key \in Keys /\ x.at \in 0..now /\ x.queue \in Queues \cup {"REVIEW"}
    /\ \A d \in Days :
         /\ run[d].build \in {"none", "BUILDING", "BUILT", "SKIPPED"} /\ run[d].builtAt \in 0..now \cup {None}
         /\ \A x \in run[d].items : x.key \in Keys /\ x.rank \in 1..MaxItems /\ x.aud \in Audiences \cup {None}
    /\ \A r \in Runners : work[r].pc \in {"idle", "freeze"}
    /\ news \in [Days -> SUBSET Keys]

Carries(d, a, k) == \E x \in OfVersion(d, a) : x.key = k

\* A reader is not sent a story twice, on whatever day and under whatever capture; only the day after a partial send
\* may repeat it, as something missed.
NoRepeat ==
    \A a \in Audiences, d, e \in Days, k \in Keys :
      d < e /\ Carries(d, a, k) /\ Carries(e, a, k) /\ {run[d].sends[a], run[e].sends[a]} \subseteq WentOut =>
        /\ run[d].sends[a] = "PARTIALLY_SENT"
        /\ \A f \in Days : d < f /\ f < e => run[f].build = "none"
        /\ \A x \in OfVersion(e, a) : x.key = k => x.section = "ICYMI"

\* "afternoon stories appear exactly once": what came between two builds, qualified at once, not seen before and not
\* being pushed when a build looked, is new to the later one, also when that took its time or was repeated after days
\* without one; and to no other.
NewOnce ==
    /\ \A d \in Days : run[d].builtAt # None /\ Froze(d) # None /\ run[d].builtAt - run[Froze(d)].builtAt <= WindowCap =>
         \A k \in Keys \ aside : \A x \in captured :
           x.key = k /\ FirstSeen(k, now) = x.at /\ run[Froze(d)].builtAt < x.at /\ x.at <= run[d].builtAt => k \in news[d]
    /\ \A d, e \in Days : d # e => news[d] \cap news[e] = {}

\* No digest goes out short, over its size, or with a story in it twice.
WellFilled ==
    \A d \in Days, a \in Audiences : run[d].build = "BUILT" =>
      /\ Cardinality({x \in OfVersion(d, a) : x.section = "MAIN"}) >= MinItems
      /\ Cardinality(OfVersion(d, a)) <= MaxItems
      /\ \A x, y \in OfVersion(d, a) : x.key = y.key => x = y

\* What is read back of a frozen run for one version is the list that was made for it.
FreezeStep ==
    \A d \in Days : run'[d].items # run[d].items =>
      \E r \in Runners : work[r].pc = "freeze" /\ work[r].day = d /\ \A a \in Audiences :
        {[key |-> x.key, section |-> x.section, rank |-> x.rank] : x \in OfVersion(d, a)'} = work[r].lists[a]

=============================================================================
