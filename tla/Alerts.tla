------------------------------- MODULE Alerts -------------------------------
(* The alert markers of a digest run (digest/runAlerts.ts, health.ts) and the passes that mail and push them     *)
(* (digest/alerts.ts): every minute, in every container, and after each advance. A pass claims a kind under the  *)
(* row lock, sends, and stamps the outcome while its claim stands. Mail and push are two channels with a claim   *)
(* each; a slot is a channel of a kind. Time counts ten minutes a step, the length of a claim and of the wait    *)
(* after a failure.                                                                                              *)
EXTENDS Naturals, FiniteSets

CONSTANTS
    Passes,       \* containers
    Kinds,        \* kinds that may be raised, beside the recovery notes
    Blocking,     \* BLOCKING_KINDS, those that a sent run makes moot
    Health,       \* HEALTH_PROBLEM_KINDS
    Editor,       \* EDITOR_KINDS: also pushed to staff devices
    MaxAttempts, PushStale,
    MaxTime, MaxCrashes

VARIABLES
    now,
    raised,       \* per kind, when its marker was written, or Never
    slot,         \* per channel and kind, the fields of its claim
    solved,       \* the run is sent
    healthy,      \* DigestRun.healthOk
    pass,         \* per container, its pass
    told,         \* history: per slot, how often somebody was told
    taken,        \* history: slots whose claim was taken over
    unanswered,   \* history: slots told of by a call that was then taken for failed
    crashes

vars == <<now, raised, slot, solved, healthy, pass, told, taken, unanswered, crashes>>

Recovery == {"resolved", "health_recovered"}
AllKinds == Kinds \cup Recovery
Mail(k)  == <<"mail", k>>
Slots    == {Mail(k) : k \in AllKinds} \cup {<<"push", k>> : k \in Editor}
Never    == MaxTime + 9

\* A recovery note is a kind of its own.
AlertsOK ==
    /\ Blocking \cup Health \cup Editor \subseteq Kinds /\ Kinds \cap Recovery = {} /\ IsFiniteSet(Passes)
    /\ {MaxAttempts, PushStale, MaxTime, MaxCrashes} \subseteq Nat /\ MaxAttempts > 0

Open    == [st |-> "open", claim |-> 0, at |-> Never, attempts |-> 0, retry |-> 0]
Resting == [pc |-> "idle", t0 |-> 0, todo |-> {}, slot |-> Mail("resolved"), mine |-> 0, ok |-> "none"]

Init ==
    /\ now = 0
    /\ raised = [k \in AllKinds |-> Never]
    /\ slot = [s \in Slots |-> Open]
    /\ solved = FALSE /\ healthy = TRUE
    /\ pass = [p \in Passes |-> Resting]
    /\ told = [s \in Slots |-> 0] /\ taken = {} /\ unanswered = {} /\ crashes = 0

Raised(k) == raised[k] # Never

-----------------------------------------------------------------------------
(* The run                                                                 *)

Clock ==
    /\ now < MaxTime /\ now' = now + 1
    /\ UNCHANGED <<raised, slot, solved, healthy, pass, told, taken, unanswered, crashes>>

\* recordRunAlert: once per kind.
Raise(k) ==
    /\ ~Raised(k) /\ k \notin Health
    /\ raised' = [raised EXCEPT ![k] = now]
    /\ UNCHANGED <<now, slot, solved, healthy, pass, told, taken, unanswered, crashes>>

HealthFails(k) ==
    /\ k \in Health /\ healthy /\ healthy' = FALSE
    /\ raised' = IF Raised(k) THEN raised ELSE [raised EXCEPT ![k] = now]
    /\ UNCHANGED <<now, slot, solved, pass, told, taken, unanswered, crashes>>

\* addRecoveryMarker, once, on the locked row: skipped unless a problem was mailed or is being mailed.
Heard_Stamped(P) == \E k \in P : Raised(k) /\ slot[Mail(k)].st = "sent"
Heard(P) == \E k \in P : Raised(k) /\ (slot[Mail(k)].st = "sent" \/ slot[Mail(k)].claim # 0)
Recovers(k, P) ==
    IF Raised(k) THEN UNCHANGED <<raised, slot>>
    ELSE /\ raised' = [raised EXCEPT ![k] = now]
         /\ slot' = [slot EXCEPT ![Mail(k)].st = IF Heard(P) THEN "open" ELSE "unheard"]

HealthBack ==
    /\ ~healthy /\ healthy' = TRUE
    /\ Recovers("health_recovered", Health)
    /\ UNCHANGED <<now, solved, pass, told, taken, unanswered, crashes>>

RunSent ==
    /\ ~solved /\ solved' = TRUE
    /\ UNCHANGED <<now, raised, slot, healthy, pass, told, taken, unanswered, crashes>>

-----------------------------------------------------------------------------
(* A pass                                                                  *)

In(p, pc) == pass[p].pc = pc

\* A problem whose mail is still to come is covered by the recovery note.
Due(c) == {s \in Slots : s[1] = c /\ Raised(s[2]) /\ slot[s].st = "open"
             /\ (c = "mail" /\ s[2] \in Blocking => ~Raised("resolved"))}

\* It reads the run, and whether it is sent. A pass with nothing to do is left out.
Begin(p) ==
    /\ In(p, "idle")
    /\ LET note == solved /\ ~Raised("resolved") /\ \E k \in Blocking : Raised(k)
       IN /\ note \/ Due("mail") \cup Due("push") # {}
          /\ pass' = [pass EXCEPT ![p] = [Resting EXCEPT !.pc = IF note THEN "resolve" ELSE "next",
                        !.t0 = now, !.todo = Due("mail")]]
    /\ UNCHANGED <<now, raised, slot, solved, healthy, told, taken, unanswered, crashes>>

Resolve(p) ==
    /\ In(p, "resolve")
    /\ Recovers("resolved", Blocking)
    /\ pass' = [pass EXCEPT ![p].pc = "read"]
    /\ UNCHANGED <<now, solved, healthy, told, taken, unanswered, crashes>>

\* After the note, and when the mails are done, it reads the markers again.
Read(p) ==
    /\ pass' = [pass EXCEPT ![p] =
                   IF In(p, "read") THEN [@ EXCEPT !.pc = "next", !.todo = Due("mail")]
                   ELSE IF Due("push") = {} THEN Resting
                   ELSE [@ EXCEPT !.pc = "last", !.todo = Due("push")]]
    /\ In(p, "read") \/ (In(p, "next") /\ pass[p].todo = {})
    /\ UNCHANGED <<now, raised, slot, solved, healthy, told, taken, unanswered, crashes>>

\* The where-clause of claimKind and claimPush; t is the time the pass began.
Stale(s, t)   == slot[s].at = Never \/ slot[s].at + 1 < t
MayTry(s)     == slot[s].attempts < MaxAttempts
Claimable(s, t) ==
    /\ slot[s].st = "open" /\ Stale(s, t) /\ MayTry(s) /\ slot[s].retry <= t
    /\ s[1] = "mail" /\ s[2] \in Blocking => ~Raised("resolved")

Claim(p, s) ==
    /\ In(p, "next") \/ In(p, "last")
    /\ s \in pass[p].todo /\ (s = Mail("resolved") => pass[p].todo = {s})
    /\ LET q == [pass[p] EXCEPT !.todo = @ \ {s}, !.slot = s]
           n == slot[s].attempts + 1
       IN IF Claimable(s, q.t0)
          THEN /\ slot' = [slot EXCEPT ![s].claim = n, ![s].at = q.t0, ![s].attempts = n]
               /\ pass' = [pass EXCEPT ![p] = [q EXCEPT !.pc = "sending", !.slot = s, !.mine = n]]
               /\ taken' = IF slot[s].claim # 0 THEN taken \cup {s} ELSE taken
          ELSE pass' = [pass EXCEPT ![p] = q] /\ UNCHANGED <<slot, taken>>
    /\ UNCHANGED <<now, raised, solved, healthy, told, unanswered, crashes>>

\* Somebody is told, nobody could be, or there is nobody (routine, too old, no device) and it is skipped. "lost": somebody
\* is told and the answer comes after the timeout, or not at all, so every call counts as failed.
Outcomes == {"sent", "lost", "failed", "skipped"}

Send(p) ==
    /\ In(p, "sending")
    /\ \E r \in Outcomes :
         LET s == pass[p].slot
             late == s[1] = "push" /\ pass[p].t0 > raised[s[2]] + PushStale
         IN /\ late => r = "skipped"
            /\ pass' = [pass EXCEPT ![p].pc = "stamp", ![p].ok = IF r = "lost" THEN "failed" ELSE r]
            /\ told' = IF r \in {"sent", "lost"} THEN [told EXCEPT ![s] = @ + 1] ELSE told
            /\ unanswered' = IF r = "lost" THEN unanswered \cup {s} ELSE unanswered
    /\ UNCHANGED <<now, raised, slot, solved, healthy, taken, crashes>>

\* finishKind, finishPush: only while the claim is its own.
Own(p) == slot[pass[p].slot].claim = pass[p].mine

Stamp(p) ==
    /\ In(p, "stamp")
    /\ LET s == pass[p].slot
       IN slot' = IF Own(p)
                  THEN [slot EXCEPT ![s].claim = 0, ![s].at = Never,
                          ![s].st = IF pass[p].ok = "failed" THEN @ ELSE pass[p].ok,
                          ![s].retry = IF pass[p].ok = "failed" THEN pass[p].t0 + 1 ELSE @]
                  ELSE slot
    /\ pass' = [pass EXCEPT ![p] = [Resting EXCEPT !.pc = IF pass[p].slot[1] = "mail" THEN "next" ELSE "last",
                                       !.t0 = pass[p].t0, !.todo = pass[p].todo]]
    /\ UNCHANGED <<now, raised, solved, healthy, told, taken, unanswered, crashes>>

\* The pushes come last.
Ends(p) ==
    /\ In(p, "last") /\ pass[p].todo = {}
    /\ pass' = [pass EXCEPT ![p] = Resting]
    /\ UNCHANGED <<now, raised, slot, solved, healthy, told, taken, unanswered, crashes>>

\* The container dies, or a query throws and the pass is over.
Crash(p) ==
    /\ pass[p].pc # "idle" /\ crashes < MaxCrashes
    /\ pass' = [pass EXCEPT ![p] = Resting] /\ crashes' = crashes + 1
    /\ UNCHANGED <<now, raised, slot, solved, healthy, told, taken, unanswered>>

Next ==
    \/ Clock \/ HealthBack \/ RunSent
    \/ \E k \in Kinds : Raise(k) \/ HealthFails(k)
    \/ \E p \in Passes : Begin(p) \/ Resolve(p) \/ Read(p) \/ Send(p) \/ Stamp(p) \/ Ends(p) \/ Crash(p)
    \/ \E p \in Passes, s \in Slots : Claim(p, s)

Spec == Init /\ [][Next]_vars

-----------------------------------------------------------------------------
(* Properties *)

\* Every variable holds values of its kind.
TypeOK ==
    /\ now \in 0..MaxTime /\ raised \in [AllKinds -> 0..MaxTime \cup {Never}]
    /\ \A s \in Slots :
         /\ slot[s].st \in {"open", "sent", "skipped", "unheard"} /\ slot[s].attempts \in 0..MaxAttempts
         /\ slot[s].claim \in 0..slot[s].attempts
    /\ \A p \in Passes : pass[p].todo \subseteq Slots /\ pass[p].slot \in Slots
    /\ taken \cup unanswered \subseteq Slots /\ crashes \in 0..MaxCrashes

\* A lost stamp or a lost answer repeats a mail or a push, but no more often than its attempts; without one it goes out
\* once.
ToldFewTimes == \A s \in Slots : told[s] <= MaxAttempts /\ (told[s] > 1 => s \in taken \cup unanswered)

\* What is stamped as sent was sent, whoever stamps.
StampTrue == \A s \in Slots : slot[s].st = "sent" => told[s] > 0

\* Where no claim of a problem was taken over and no answer was lost, a run that was marked resolved without a note had
\* no problem mailed, before or after.
RecoveryHeard ==
    slot[Mail("resolved")].st = "unheard" =>
        \A k \in Blocking : told[Mail(k)] = 0 \/ Mail(k) \in taken \cup unanswered

\* "nobody gets a recovery note for a problem they never heard about": somebody tried to mail the problem first.
NoteAfterProblem ==
    /\ told[Mail("resolved")] > 0 => \E k \in Blocking : slot[Mail(k)].attempts > 0
    /\ told[Mail("health_recovered")] > 0 => \E k \in Health : slot[Mail(k)].attempts > 0

\* A problem is told about once, unless a pass was taken for dead or its calls for failed; what is marked as sent was
\* sent; and whoever was told of a problem is, but for those two cases, told of its end.
AlertsTold == ToldFewTimes /\ StampTrue /\ RecoveryHeard /\ NoteAfterProblem
=============================================================================
