----------------------------- MODULE WhatsAppQueue -----------------------------
(***************************************************************************)
(* The WhatsApp channel: nothing is posted by the program. It lists the    *)
(* pushes of a day with their marks (src/src/services/whatsapp/queue.ts),  *)
(* an editor marks each Posted or Skipped, or undoes it, and a five-minute *)
(* tick of every container tells the staff's devices when new ones wait    *)
(* (nudge.ts).                                                             *)
(***************************************************************************)
EXTENDS Integers, FiniteSetsExt

CONSTANTS
    Containers,  \* those whose cron runs the tick: two while a deploy replaces one
    ArticleOf,   \* the article of each push, in the order they are sent
    Slots,       \* ticks in a day; the first and the last are quiet hours
    Gap,         \* NUDGE_MIN_GAP_MS, in ticks
    MaxTime,     \* bound: ticks explored
    MaxCrashes,  \* bound: restarts and new rules
    MaxOverlaps  \* bound: nudges begun while another container's is under way

Pushes == DOMAIN ArticleOf
Articles == {ArticleOf[p] : p \in Pushes}
Last == Cardinality(Pushes)

QueueOK ==
    /\ Pushes = 1 .. Last /\ {Last, Slots, Gap, MaxTime, MaxCrashes, MaxOverlaps} \subseteq Nat
    /\ Slots > Gap + 3 /\ Slots <= MaxTime + 3

VARIABLES
    now,       \* ticks since the first midnight
    ticked,    \* the tick of this moment has run, by container
    sent,      \* pushes 1 .. sent are SENT
    at,        \* lastSentAt of each push: no two are the same
    excused,   \* pushes closed out by the pacer's recovery, with a lastSentAt in the
               \* past, and pushes listed again by an Undo
    cut,       \* the first push of the "every push gets a row" rule; Last + 1: off
    mark,      \* WhatsAppPost, by key
    watermark, lastNudge, \* the nudge's DigestSetting; Never while there is none
    tick,      \* the pushes the nudge under way in each container tells of as new
    tells,     \* how often each push was told of as new
    crashes, overlaps

vars == <<now, ticked, sent, at, excused, cut, mark, watermark, lastNudge, tick, tells, crashes, overlaps>>

Never == -9
Marks == {"TODO", "POSTED"}   \* SKIPPED is treated as POSTED is
Keys == ({"article"} \X Articles) \cup ({"push"} \X Pushes)
Instant(t, p) == t * (Last + 1) + p
TickOf(i) == i \div (Last + 1)
Day(t) == t \div Slots
Quiet(t) == t % Slots \in {0, Slots - 1}
Sent == 1 .. sent

Init ==
    /\ now = Slots - 3 /\ ticked = [c \in Containers |-> FALSE] /\ sent = 0 /\ at = [p \in Pushes |-> Never] /\ excused = {}
    /\ cut \in {1, Last + 1} /\ mark = [k \in Keys |-> "TODO"]
    /\ watermark = Never /\ lastNudge = Never
    /\ tick = [c \in Containers |-> {}] /\ tells = [p \in Pushes |-> 0] /\ crashes = 0 /\ overlaps = 0

-----------------------------------------------------------------------------
(* The queue                                                               *)

OldRule == {p \in Sent : p < cut}
Group(a) == {p \in OldRule : ArticleOf[p] = a}
KeyOf(p) == IF p < cut THEN <<"article", ArticleOf[p]>> ELSE <<"push", p>>

\* The rows of the list, each with the push it shows: an article's first.
RowKeys == {KeyOf(p) : p \in Sent}
PushOf(k) == IF k[1] = "push" THEN k[2] ELSE Min(Group(k[2]))

\* An article row without a mark of its own shows one its pushes got as rows of the new rule.
Shown(k) ==
    IF k[1] = "push" \/ mark[k] # "TODO" THEN mark[k]
    ELSE LET via == {p \in Group(k[2]) : mark[<<"push", p>>] # "TODO"} IN
         IF via = {} THEN "TODO" ELSE mark[<<"push", Max(via)>>]

Cleared(k) == {k} \cup IF k[1] = "push" THEN {}
                       ELSE {<<"push", p>> : p \in {q \in Sent : ArticleOf[q] = k[2]}}

Mark(p, s) ==
    /\ p \in Sent
    /\ mark' = IF s = "TODO"
               THEN [k \in Keys |-> IF k \in Cleared(KeyOf(p)) THEN "TODO" ELSE mark[k]]
               ELSE [mark EXCEPT ![KeyOf(p)] = s]
    /\ excused' = IF s # "TODO" THEN excused
                  ELSE excused \cup {q \in Sent : ArticleOf[q] = ArticleOf[p]}
    /\ UNCHANGED <<now, ticked, sent, at, cut, watermark, lastNudge, tick, tells, crashes, overlaps>>

-----------------------------------------------------------------------------
(* The nudge                                                               *)

\* Last night began at 23:00 of yesterday.
NightStart_Midnight == Instant(Day(now) * Slots, 0)
NightStart == Instant(Day(now) * Slots - 1, 0)

Waiting == {p \in {PushOf(k) : k \in {r \in RowKeys : Shown(r) = "TODO"}} :
              LET d == Day(TickOf(at[p])) IN
              d = Day(now) \/ (d = Day(now) - 1 /\ at[p] >= NightStart)}
IsNew(p) == IF watermark = Never THEN at[p] > NightStart ELSE at[p] > watermark
Fresh == {p \in Waiting : IsNew(p)}
TooSoon == now - lastNudge < Gap

Idle(c) == tick[c] = {}

\* `ticking` holds one container's ticks apart; nothing holds those of two apart.
Nudge(c) ==
    /\ ~ticked[c] /\ Idle(c) /\ ticked' = [ticked EXCEPT ![c] = TRUE]
    /\ IF Quiet(now) \/ Fresh = {} \/ TooSoon THEN UNCHANGED <<tick, tells, overlaps>>
       ELSE /\ tick' = [tick EXCEPT ![c] = Fresh]
            /\ tells' = [p \in Pushes |-> IF p \in Fresh THEN tells[p] + 1 ELSE tells[p]]
            /\ overlaps' = IF \A d \in Containers : Idle(d) THEN overlaps ELSE overlaps + 1
            /\ overlaps' <= MaxOverlaps
    /\ UNCHANGED <<now, sent, at, excused, cut, mark, watermark, lastNudge, crashes>>

\* The devices have been told; then the watermark is set to the newest of them, also where another container's nudge
\* left a later one.
NudgeSaved(c) ==
    /\ ~Idle(c) /\ tick' = [tick EXCEPT ![c] = {}]
    /\ watermark' = Max({at[p] : p \in tick[c]}) /\ lastNudge' = now
    /\ UNCHANGED <<now, ticked, sent, at, excused, cut, mark, tells, crashes, overlaps>>

-----------------------------------------------------------------------------
(* The rest of the world                                                   *)

\* A send ends now, or its stranded claim is closed out with the time of its last event.
PushSent ==
    /\ sent < Last /\ sent' = sent + 1
    /\ \E t \in {now, now - 1} :
         /\ t >= 0 /\ at' = [at EXCEPT ![sent + 1] = Instant(t, sent + 1)]
         /\ excused' = IF t < now THEN excused \cup {sent + 1} ELSE excused
    /\ UNCHANGED <<now, ticked, cut, mark, watermark, lastNudge, tick, tells, crashes, overlaps>>

\* Five minutes, in which a container ticks and every nudge ends.
Time ==
    /\ now < MaxTime /\ (\E c \in Containers : ticked[c]) /\ (\A c \in Containers : Idle(c))
    /\ now' = now + 1 /\ ticked' = [c \in Containers |-> FALSE]
    /\ UNCHANGED <<sent, at, excused, cut, mark, watermark, lastNudge, tick, tells, crashes, overlaps>>

\* A container dies with a nudge half sent, and the one started in its place ticks.
Crash(c) ==
    /\ crashes < MaxCrashes /\ crashes' = crashes + 1
    /\ tick' = [tick EXCEPT ![c] = {}] /\ ticked' = [ticked EXCEPT ![c] = FALSE]
    /\ UNCHANGED <<now, sent, at, excused, cut, mark, watermark, lastNudge, tells, overlaps>>

\* WHATSAPP_ALL_PUSHES_FROM is set to the present moment, or removed.
NewRule ==
    /\ crashes < MaxCrashes /\ (\A c \in Containers : Idle(c)) /\ crashes' = crashes + 1
    /\ cut' = IF cut = Last + 1 THEN sent + 1 ELSE Last + 1
    /\ UNCHANGED <<now, ticked, sent, at, excused, mark, watermark, lastNudge, tick, tells, overlaps>>

Next ==
    \/ \E p \in Pushes, s \in Marks : Mark(p, s)
    \/ \E c \in Containers : Nudge(c) \/ NudgeSaved(c) \/ Crash(c)
    \/ PushSent \/ Time \/ NewRule

Spec == Init /\ [][Next]_vars

-----------------------------------------------------------------------------
(* Properties                                                              *)

\* Every variable holds a value of its kind.
TypeOK ==
    /\ now \in 1 .. MaxTime /\ ticked \in [Containers -> BOOLEAN] /\ sent \in 0 .. Last
    /\ at \in [Pushes -> {Never} \cup 0 .. Instant(MaxTime, Last)] /\ excused \subseteq Pushes
    /\ cut \in 1 .. Last + 1 /\ mark \in [Keys -> Marks]
    /\ {watermark, lastNudge} \subseteq {Never} \cup 0 .. Instant(MaxTime, Last) /\ tick \in [Containers -> SUBSET Pushes]
    /\ crashes \in 0 .. MaxCrashes /\ overlaps \in 0 .. MaxOverlaps

\* The list shows what the editor just did to the row, undo included, whichever rule
\* older marks of the article were made under.
MarkStep == \A p \in Pushes, s \in Marks :
                Mark(p, s) => Shown(KeyOf(p))' = s

\* Switching "every push gets a row" on or off never lists an article as waiting
\* again when one of its pushes was handled.
RuleStep == cut' # cut => \A p \in OldRule' :
                (\E q \in Sent : ArticleOf[q] = ArticleOf[p] /\ Shown(KeyOf(q)) # "TODO")
                    => Shown(KeyOf(p))' # "TODO"

MarksShown == [][MarkStep]_vars
NeverRelisted == [][RuleStep]_vars

\* A push is told of as new once, and once more for each time a nudge died half sent or began while another container's
\* was under way, which may also set the watermark back.
ToldOnce == \A p \in Pushes : tells[p] <= 1 + crashes + overlaps

\* nudge.ts: "a restart can't repeat a nudge".
NeverRepeated == \A p \in Pushes : tells[p] <= 1

\* A push that still waits is told of within the gap, counted in open hours, a night's
\* in the morning. Left out, as the code leaves them out: a send closed out with a time in
\* the past, a row an Undo brought back, and the last pushes before 23:00, whose next tick is quiet and whose list is
\* yesterday's in the morning.
OpenTicks(p) == Cardinality({t \in TickOf(at[p]) + 1 .. now - 1 : ~Quiet(t)})
BeforeNight(p) == \E d \in 1 .. Gap + 1 : ~Quiet(TickOf(at[p])) /\ (TickOf(at[p]) + d) % Slots = Slots - 1
ToldInTime ==
    crashes = 0 =>
        \A p \in {q \in Sent \ excused : q = PushOf(KeyOf(q)) /\ Shown(KeyOf(q)) = "TODO"} :
            ~BeforeNight(p) /\ OpenTicks(p) >= Gap => tells[p] > 0
=============================================================================
