------------------------------ MODULE SocialPost ------------------------------
(***************************************************************************)
(* Posting to a social page: src/src/services/linkedin/worker.ts and       *)
(* src/src/services/facebook/worker.ts, one page each. A minute tick in    *)
(* every container reads the SENT pushes, creates a row BEFORE the call,   *)
(* posts, and writes the answer to the row; an editor may press Retry or   *)
(* Skip meanwhile. `net` says which of the two workers a behaviour is of.  *)
(***************************************************************************)
EXTENDS Naturals, FiniteSetsExt

CONSTANTS
    Networks,     \* the workers explored: "linkedin", "facebook"
    Articles,     \* public articles
    ArticleOf,    \* the article of each push, oldest push first; Store for a course
    Store,        \* a course or shop product: posted by the "every push" rule only
    Earlier,      \* articles pushed in the 14 days before go-live
    Rule,         \* which rule each worker starts with: every push posts from the
                  \* first (1), or from none
    Crons, Desks, Home,  \* each worker's crons, editors' requests, and their containers
    None,
    MaxPerTick,   \* MAX_PER_TICK
    Retries,      \* how many delays RETRY_DELAYS_MIN has
    DailyCap,     \* FACEBOOK_DAILY_CAP
    MaxSlow,      \* bound: attempts that outlast the 10 minutes after which a row is stale
    MaxCrashes    \* bound: containers that die or are replaced

Pushes == DOMAIN ArticleOf
Last == Cardinality(Pushes)
Callers == (UNION {Crons[n] : n \in Networks}) \cup Desks
Procs == {Home[c] : c \in Callers}

SocialOK ==
    /\ Networks \subseteq {"linkedin", "facebook"} /\ Pushes = 1 .. Last /\ Last \in Nat
    /\ \A n \in Networks : /\ Rule[n] \in 1 .. Last + 1
                          /\ IsFiniteSet(Crons[n]) /\ Crons[n] \cap Desks = {}
    /\ None \notin Pushes
    /\ \A p \in Pushes : ArticleOf[p] \in Articles \cup {Store}
    /\ Earlier \subseteq Articles /\ Store \notin Articles
    /\ {MaxPerTick, Retries, DailyCap} \subseteq Nat \ {0} /\ {MaxSlow, MaxCrashes} \subseteq Nat

VARIABLES
    net,       \* which worker
    slow,      \* attempts that outlasted the 10 minutes so far
    sent,      \* pushes 1 .. sent are SENT
    cut,       \* the first push of the "every push posts" rule; Last + 1 while it is off
    row,       \* LinkedInPost / FacebookPost rows of the page, by key
    call,      \* what each tick and each Retry is doing
    stopped,   \* containers stopped on the present token
    policy,    \* Facebook's policy stop, in the database
    crashes

vars == <<net, slow, sent, cut, row, call, stopped, policy, crashes>>

Keys == ({"article"} \X Articles) \cup ({"push"} \X Pushes)

\* PENDING is "flight" while nextAttemptAt is null, "waiting" once it is set.
Statuses == {"none", "flight", "waiting", "POSTED", "FAILED", "SKIPPED"}
MaxAttempts == Retries + 1
Counted == MaxAttempts + 1    \* bound: attempts are counted no further
Row == [st: Statuses, push: Pushes \cup {None}, attempts: 0 .. Counted,
        due: BOOLEAN,      \* nextAttemptAt has come
        old: BOOLEAN,      \* not written for 10 minutes
        unknown: BOOLEAN,  \* closed as "unknown - check the page"
        today: BOOLEAN,    \* postedAt is today
        byHand: BOOLEAN]   \* posted by a press of Retry
NoRow == [st |-> "none", push |-> None, attempts |-> 0, due |-> FALSE,
          old |-> FALSE, unknown |-> FALSE, today |-> FALSE, byHand |-> FALSE]

Call == [pc: {"idle", "due", "new", "create", "press", "posting", "stopping"},
         key: Keys \cup {None}, attempts: 0 .. Counted,
         from: {"due", "create", "press"},
         todo: SUBSET Keys, \* rows, or candidates, read and not handled yet
         left: 0 .. MaxPerTick,
         today: BOOLEAN,    \* it began today
         early: BOOLEAN]    \* it was under way when the policy stop was written
Idle == [pc |-> "idle", key |-> None, attempts |-> 0, from |-> "due", todo |-> {},
         left |-> MaxPerTick, today |-> TRUE, early |-> FALSE]

Init ==
    /\ net \in Networks /\ slow = 0 /\ sent = 0 /\ cut = Rule[net]
    /\ row = [k \in Keys |-> NoRow] /\ call = [c \in Callers |-> Idle]
    /\ stopped = {} /\ policy = FALSE /\ crashes = 0

-----------------------------------------------------------------------------
(* What a tick may post                                                    *)

Tickers == Crons[net]
At(c, pc) == call[c].pc = pc
Posting(k) == {c \in Callers : At(c, "posting") /\ call[c].key = k}
PostedToday == {k \in Keys : row[k].st = "POSTED" /\ row[k].today}

\* Every push from the cut on is its own candidate.
NewRule == {<<"push", p>> : p \in cut .. sent}

PushesOf(a) == {p \in 1 .. sent : ArticleOf[p] = a}

\* An article with a `push:` row of any of its pushes was handled by the new rule.
Handled(a) == \E p \in PushesOf(a) : row[<<"push", p>>].st # "none"

\* A push before the cut posts its article once, unless it was pushed before go-live.
TodaysRule == {<<"article", a>> : a \in {b \in Articles \ Earlier :
                   (\E p \in PushesOf(b) : p < cut) /\ ~Handled(b)}}

Candidates == {k \in NewRule \cup TodaysRule : row[k].st = "none"}

\* The push a key is posted for: an article's oldest.
PushOf(k) == IF k[1] = "push" THEN k[2]
             ELSE CHOOSE p \in PushesOf(k[2]) : \A q \in PushesOf(k[2]) : p <= q

-----------------------------------------------------------------------------
(* The tick                                                                *)

\* In-flight rows without an answer for 10 minutes are closed, never posted again.
Stale(k) == row[k].st = "flight" /\ row[k].old
Close(s) == [s EXCEPT !.st = "FAILED", !.unknown = TRUE]
Swept == [k \in Keys |-> IF Stale(k) THEN Close(row[k]) ELSE row[k]]

\* Facebook waits for its stops and the day's cap; LinkedIn for its login stop.
Paced == Cardinality(PostedToday) < DailyCap
Runs(c) ==
    /\ Home[c] \notin stopped
    /\ net = "facebook" => ~policy /\ Paced

\* The rows whose retry is due, as many as the tick may take.
DueRows == {k \in Keys : row[k].st = "waiting" /\ row[k].due}
DueReads == kSubset(Min({MaxPerTick, Cardinality(DueRows)}), DueRows)

\* A tick that waits for the gap between posts, or for quiet hours, reads nothing.
Tick(c) ==
    /\ At(c, "idle")
    /\ row' = Swept
    /\ \/ ~Runs(c) /\ UNCHANGED call
       \/ /\ Runs(c)
          /\ \E D \in DueReads :
               call' = [call EXCEPT ![c] = [Idle EXCEPT !.pc = "due", !.todo = D]]
    /\ UNCHANGED <<net, slow, sent, cut, stopped, policy, crashes>>

\* The claim's where-clause sees the row as it is now.
Claimable_AsRead(k) == row[k].st \in {"waiting", "flight"}
Claimable(k) == row[k].st = "waiting" /\ row[k].due

OneMore(k) == Min({row[k].attempts + 1, Counted})

ClaimDue(c) ==
    /\ At(c, "due") /\ call[c].left > 0
    /\ \E k \in call[c].todo :
         IF Claimable(k)
         THEN /\ row' = [row EXCEPT ![k].st = "flight", ![k].due = FALSE,
                            ![k].old = FALSE, ![k].attempts = OneMore(k)]
              /\ call' = [call EXCEPT ![c].pc = "posting", ![c].key = k,
                            ![c].attempts = OneMore(k), ![c].from = "due",
                            ![c].todo = @ \ {k}, ![c].left = @ - 1]
         ELSE call' = [call EXCEPT ![c].todo = @ \ {k}] /\ UNCHANGED row
    /\ UNCHANGED <<net, slow, sent, cut, stopped, policy, crashes>>

ReadNew(c) ==
    /\ At(c, "due") /\ call[c].todo = {} /\ call[c].left > 0
    /\ call' = [call EXCEPT ![c].pc = "create", ![c].todo = Candidates]
    /\ UNCHANGED <<net, slow, sent, cut, row, stopped, policy, crashes>>

\* Oldest first; the unique (page, articleKey) turns a second tick away.
Create(c) ==
    /\ At(c, "create") /\ call[c].todo # {}
    /\ \E k \in call[c].todo :
         /\ \A j \in call[c].todo : PushOf(k) <= PushOf(j)
         /\ IF row[k].st = "none"
            THEN /\ row' = [row EXCEPT ![k] = [NoRow EXCEPT !.st = "flight",
                              !.push = PushOf(k), !.attempts = 1]]
                 /\ call' = [call EXCEPT ![c].pc = "posting", ![c].key = k,
                              ![c].attempts = 1, ![c].from = "create",
                              ![c].todo = @ \ {k}, ![c].left = @ - 1]
            ELSE call' = [call EXCEPT ![c].todo = @ \ {k}] /\ UNCHANGED row
    /\ UNCHANGED <<net, slow, sent, cut, stopped, policy, crashes>>

TickEnds(c) ==
    /\ At(c, "create") /\ call[c].todo = {}
    /\ call' = [call EXCEPT ![c] = Idle]
    /\ UNCHANGED <<net, slow, sent, cut, row, stopped, policy, crashes>>

-----------------------------------------------------------------------------
(* The answer of one attempt                                               *)

\* LinkedIn goes on to the next row while the tick's budget lasts; Facebook attempts
\* one a tick; a Retry is over.
Goes(c) == [call EXCEPT ![c] =
              IF net = "linkedin" /\ @.from # "press" /\ @.left > 0
              THEN [@ EXCEPT !.pc = call[c].from, !.key = None]
              ELSE Idle]
Ends(c) == [call EXCEPT ![c] = Idle]

Mine(c) == row[call[c].key]
Write(c, s) == row' = [row EXCEPT ![call[c].key] = s]

Posted(c) ==
    /\ At(c, "posting")
    /\ Write(c, [Mine(c) EXCEPT !.st = "POSTED", !.due = FALSE, !.unknown = FALSE,
                                !.today = call[c].today, !.byHand = call[c].from = "press"])
    /\ call' = Goes(c)
    /\ UNCHANGED <<net, slow, sent, cut, stopped, policy, crashes>>

\* nextAttemptAt alone is written: a row that is no longer PENDING keeps its status.
Waits_Reopens(s, due) == [s EXCEPT !.st = "waiting", !.due = due, !.old = FALSE]
Waits(s, due) == IF s.st \in {"flight", "waiting"}
                 THEN [s EXCEPT !.st = "waiting", !.due = due, !.old = FALSE] ELSE s

\* 401 / 403: not a real attempt; the container stops on this token.
AuthStop(c) ==
    /\ At(c, "posting")
    /\ Write(c, [Waits(Mine(c), TRUE) EXCEPT
                   !.attempts = IF call[c].attempts > 0 THEN call[c].attempts - 1 ELSE 0])
    /\ call' = Ends(c) /\ stopped' = stopped \cup {Home[c]}
    /\ UNCHANGED <<net, slow, sent, cut, policy, crashes>>

\* Facebook has one delay less after a rate limit.
Delays == IF net = "linkedin" THEN {Retries} ELSE {Retries - 1, Retries}
MayWait(n, d) == n <= d

\* 429, 5xx, a timeout or a network error, whether or not the post was taken.
Transient(c) ==
    /\ At(c, "posting")
    /\ \E d \in Delays :
         Write(c, IF MayWait(call[c].attempts, d) THEN Waits(Mine(c), FALSE)
                  ELSE [Mine(c) EXCEPT !.st = "FAILED", !.due = FALSE])
    /\ call' = Goes(c)
    /\ UNCHANGED <<net, slow, sent, cut, stopped, policy, crashes>>

\* Refused, a duplicate, no such campaign or link; an exception closes it as unknown.
Refused(c) ==
    /\ At(c, "posting")
    /\ \E thrown \in BOOLEAN :
         Write(c, [Mine(c) EXCEPT !.st = "FAILED", !.due = FALSE,
                                  !.unknown = thrown \/ @])
    /\ call' = Goes(c)
    /\ UNCHANGED <<net, slow, sent, cut, stopped, policy, crashes>>

\* Facebook blocked the post: the row fails, then the stop is written.
Blocked(c) ==
    /\ At(c, "posting") /\ net = "facebook"
    /\ Write(c, [Mine(c) EXCEPT !.st = "FAILED", !.due = FALSE])
    /\ call' = [call EXCEPT ![c].pc = "stopping"]
    /\ UNCHANGED <<net, slow, sent, cut, stopped, policy, crashes>>

PolicyStop(c) ==
    /\ At(c, "stopping")
    /\ policy' = TRUE
    /\ call' = [d \in Callers |-> IF d = c THEN Idle
                  ELSE [call[d] EXCEPT !.early = @ \/ (call[d].pc # "idle" /\ ~policy)]]
    /\ UNCHANGED <<net, slow, sent, cut, row, stopped, crashes>>

-----------------------------------------------------------------------------
(* The screen                                                              *)

Retriable(k) == row[k].st = "FAILED"
\* Retry: Facebook's is refused while the policy stop is in force.
MayRetry == ~policy
Press(d, k) ==
    /\ At(d, "idle") /\ Retriable(k)
    /\ net = "facebook" => MayRetry
    /\ call' = [call EXCEPT ![d] = [Idle EXCEPT !.pc = "press", !.key = k]]
    /\ UNCHANGED <<net, slow, sent, cut, row, stopped, policy, crashes>>

ClaimRetry(d) ==
    /\ At(d, "press")
    /\ IF Retriable(call[d].key)
       THEN /\ Write(d, [Mine(d) EXCEPT !.st = "flight", !.due = FALSE, !.old = FALSE,
                                        !.attempts = 1, !.unknown = FALSE])
            /\ call' = [call EXCEPT ![d].pc = "posting", ![d].attempts = 1,
                                    ![d].from = "press"]
       ELSE call' = Ends(d) /\ UNCHANGED row
    /\ UNCHANGED <<net, slow, sent, cut, stopped, policy, crashes>>

SkipPost(k) ==
    /\ row[k].st \in {"FAILED", "waiting"}
    /\ row' = [row EXCEPT ![k].st = "SKIPPED", ![k].due = FALSE]
    /\ UNCHANGED <<net, slow, sent, cut, call, stopped, policy, crashes>>

ResumePolicy ==
    /\ policy /\ policy' = FALSE
    /\ call' = [d \in Callers |-> [call[d] EXCEPT !.early = FALSE]]
    /\ UNCHANGED <<net, slow, sent, cut, row, stopped, crashes>>

-----------------------------------------------------------------------------
(* The rest of the world                                                   *)

PushSent ==
    /\ sent < Last /\ sent' = sent + 1
    /\ UNCHANGED <<net, slow, cut, row, call, stopped, policy, crashes>>

\* A new token has another fingerprint.
NewToken ==
    /\ stopped # {} /\ stopped' = {}
    /\ UNCHANGED <<net, slow, sent, cut, row, call, policy, crashes>>

RowAges(k) ==
    /\ row[k].st = "flight" /\ ~row[k].old
    /\ IF Posting(k) = {} THEN UNCHANGED slow ELSE slow < MaxSlow /\ slow' = slow + 1
    /\ row' = [row EXCEPT ![k].old = TRUE]
    /\ UNCHANGED <<net, sent, cut, call, stopped, policy, crashes>>

\* The delay passes, and the quiet hours it was pushed out of: a tick that began before
\* compares with its own beginning, and cannot claim the row any more.
DueComes(k) ==
    /\ row[k].st = "waiting" /\ ~row[k].due
    /\ row' = [row EXCEPT ![k].due = TRUE]
    /\ call' = [c \in Callers |-> IF At(c, "create") \/ call[c].from = "create" THEN call[c]
                                 ELSE [call[c] EXCEPT !.todo = @ \ {k}]]
    /\ UNCHANGED <<net, slow, sent, cut, stopped, policy, crashes>>

Midnight ==
    /\ PostedToday # {} /\ net = "facebook"
    /\ row' = [k \in Keys |-> [row[k] EXCEPT !.today = FALSE]]
    /\ call' = [c \in Callers |-> [call[c] EXCEPT !.today = @ /\ call[c].pc = "idle"]]
    /\ UNCHANGED <<net, slow, sent, cut, stopped, policy, crashes>>

\* A container dies and restarts: its calls and its login stop are forgotten.
Crash(p) ==
    /\ crashes < MaxCrashes /\ crashes' = crashes + 1
    /\ call' = [c \in Callers |-> IF Home[c] = p THEN Idle ELSE call[c]]
    /\ stopped' = stopped \ {p}
    /\ UNCHANGED <<net, slow, sent, cut, row, policy>>

\* The all-pushes time is set to the present moment, or removed: every container is
\* replaced (an overlap of old and new ones is left out).
Redeploy ==
    /\ crashes < MaxCrashes /\ crashes' = crashes + 1
    /\ cut' = IF cut = Last + 1 THEN sent + 1 ELSE Last + 1
    /\ call' = [c \in Callers |-> Idle] /\ stopped' = {}
    /\ UNCHANGED <<net, slow, sent, row, policy>>

Answer(c) == Posted(c) \/ AuthStop(c) \/ Transient(c) \/ Refused(c) \/ Blocked(c)
             \/ PolicyStop(c)
TickStep(c) == ClaimDue(c) \/ ReadNew(c) \/ Create(c) \/ TickEnds(c)

Next ==
    \/ \E c \in Tickers : Tick(c) \/ TickStep(c)
    \/ \E c \in Callers : Answer(c)
    \/ \E d \in Desks : ClaimRetry(d) \/ \E k \in Keys : Press(d, k)
    \/ \E k \in Keys : SkipPost(k) \/ RowAges(k) \/ DueComes(k)
    \/ ResumePolicy \/ PushSent \/ NewToken \/ Midnight \/ Redeploy
    \/ \E p \in Procs : Crash(p)

Spec == Init /\ [][Next]_vars

-----------------------------------------------------------------------------
(* Properties                                                              *)

\* Every row and every call holds values of its kind.
TypeOK ==
    /\ net \in Networks /\ slow \in 0 .. MaxSlow /\ sent \in 0 .. Last /\ cut \in 1 .. Last + 1
    /\ row \in [Keys -> Row] /\ call \in [Callers -> Call]
    /\ stopped \subseteq Procs /\ policy \in BOOLEAN
    /\ crashes \in 0 .. MaxCrashes

Begins(c, k) == call[c].pc # "posting" /\ call'[c].pc = "posting" /\ call'[c].key = k

\* "unknown, never re-posted": once a row was closed without an answer no tick posts
\* it again, even when the answer of the slow attempt comes in after all, as a retry.
UnknownStep == \A c \in Tickers, k \in Keys : Begins(c, k) => ~row[k].unknown
UnknownNeverReposted == [][UnknownStep]_vars

\* While attempts end within 10 minutes, two ticks and Retry never post one row at once.
OneCallPerRow == slow = 0 => \A k \in Keys : Cardinality(Posting(k)) <= 1

\* ... and a post that is on record stays so: no late write, no Retry, no second tick
\* brings it back.
PostedStep == slow = 0 => \A k \in Keys : row[k].st = "POSTED" => row'[k].st = "POSTED"
PostedIsFinal == [][PostedStep]_vars

\* One post per push on the page, whichever rule is in force: switching "every push
\* posts" on and off never posts a push of the past again.
OneRowPerPush ==
    \A j, k \in Keys : row[j].st # "none" /\ row[j].push = row[k].push => j = k

\* After a policy block nothing is posted until an admin resumes, but for calls that
\* were past their check when the stop was written.
StopStep == \A c \in Callers, k \in Keys : Begins(c, k) /\ policy => call[c].early
StopHolds == [][StopStep]_vars

\* A row gets at most the attempts its delays allow between two presses of Retry:
\* a login stop, a restart and two ticks that read it at once never add one.
AttemptsBounded == slow = 0 => \A k \in Keys : row[k].attempts <= MaxAttempts

\* However many containers overlap, ticks put at most one post a day over the page's
\* cap for each container beyond the first, midnight and late answers included.
WithinDailyCap ==
    net = "facebook" =>
        Cardinality({k \in PostedToday : ~row[k].byHand}) < DailyCap + Cardinality(Tickers)

\* A push has one post, whichever rule is in force; while attempts end in time, no row is posted by two callers at
\* once; a row gets no more attempts than its delays allow; and the ticks keep the daily cap.
PostsBounded == OneCallPerRow /\ OneRowPerPush /\ AttemptsBounded /\ WithinDailyCap

\* A row closed without an answer is never posted again by a tick; while attempts end in time, a post on record stays
\* on record; after a policy block only calls that were past their check are still made.
FinalStep  == UnknownStep /\ PostedStep /\ StopStep
PostsFinal == [][FinalStep]_vars
=============================================================================
