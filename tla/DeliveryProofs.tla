---------------------------- MODULE DeliveryProofs ----------------------------
(***************************************************************************)
(* What reaches people, for any number of them and of processes at work:   *)
(* the alerts of a digest run, the daily cap of a reader's pushes, the     *)
(* articles a poll captures, the browser's asking, the WhatsApp nudge, the *)
(* browsers on which staff are notified.                                   *)
(***************************************************************************)
EXTENDS Integers, FiniteSets, FiniteSetTheorems, TLAPS

-----------------------------------------------------------------------------
(* The alerts of a digest run                                              *)

CONSTANTS Passes, Kinds, Blocking, Health, Editor, MaxAttempts, PushStale, MaxTime, MaxCrashes
VARIABLES now, raised, slot, solved, healthy, pass, told, taken, unanswered, crashes

Alert == INSTANCE Alerts

Slots  == Alert!Slots
SlotRow == [st : {"open", "sent", "skipped", "unheard"}, claim : Nat, at : Nat, attempts : 0 .. MaxAttempts, retry : Nat]
PassRow == [pc : {"idle", "resolve", "read", "next", "sending", "stamp", "last"}, t0 : 0 .. MaxTime, todo : SUBSET Slots,
            slot : Slots, mine : Nat, ok : {"none", "sent", "failed", "skipped"}]

\* A pass with a claim of slot s in its hands; those that are yet to send.
Active(p, s)  == pass[p].pc \in {"sending", "stamp"} /\ pass[p].slot = s
Sending(s)    == {p \in Passes : pass[p].pc = "sending" /\ pass[p].slot = s}

AlertTypes ==
    /\ now \in 0 .. MaxTime /\ raised \in [Alert!AllKinds -> 0 .. MaxTime \cup {Alert!Never}]
    /\ slot \in [Slots -> SlotRow] /\ \A s \in Slots : slot[s].claim <= slot[s].attempts
    /\ pass \in [Passes -> PassRow] /\ \A p \in Passes : pass[p].pc = "stamp" => pass[p].ok # "none"
    /\ told \in [Slots -> Nat]
    /\ taken \subseteq Slots /\ unanswered \subseteq Slots /\ crashes \in 0 .. MaxCrashes

\* Nothing was done yet about a kind that is not raised.
Untouched ==
    \A s \in Slots : ~Alert!Raised(s[2]) =>
        /\ slot[s] = Alert!Open /\ told[s] = 0
        /\ \A p \in Passes : s \notin pass[p].todo /\ ~Active(p, s)

\* Each attempt tells at most once; what is stamped was told.
Bounded ==
    /\ \A s \in Slots : told[s] + Cardinality(Sending(s)) <= slot[s].attempts
    /\ \A s \in Slots : slot[s].st = "sent" => told[s] > 0
    /\ \A p \in Passes : pass[p].pc = "stamp" /\ pass[p].ok = "sent" => told[pass[p].slot] > 0

\* A slot nobody took over has one claim, and is told of once unless an answer was lost.
Alone(s) ==
    s \notin taken =>
        /\ \A p \in Passes : Active(p, s) => pass[p].mine = slot[s].claim /\ slot[s].claim # 0 /\ slot[s].st = "open"
        /\ \A p, q \in Passes : Active(p, s) /\ Active(q, s) => p = q
        /\ told[s] >= 1 /\ s \notin unanswered =>
              /\ told[s] = 1
              /\ \/ slot[s].st = "sent"
                 \/ slot[s].claim # 0 /\ \A p \in Passes : Active(p, s) => pass[p].pc = "stamp" /\ pass[p].ok = "sent"

\* A note that was never to be sent is nobody's; the others follow an attempt to tell of the problem.
Silent == \A s \in Slots : slot[s].st = "unheard" => told[s] = 0 /\ \A p \in Passes : ~Active(p, s)
Noted(k, P) ==
    Alert!Raised(k) => slot[Alert!Mail(k)].st = "unheard" \/ \E b \in P : slot[Alert!Mail(b)].attempts > 0

\* Once a run is resolved without a note, no problem of it is in anybody's hands, unless a claim was taken over; and
\* nobody was told of one by a call whose answer came.
Dropped(s) == slot[s].claim = 0 /\ (told[s] = 0 \/ s \in unanswered)
Unheard ==
    slot[Alert!Mail("resolved")].st = "unheard" =>
        /\ Alert!Raised("resolved")
        /\ \A k \in Blocking : Alert!Mail(k) \in taken \/ Dropped(Alert!Mail(k))

AlertInv ==
    /\ AlertTypes /\ Untouched /\ Bounded /\ (\A s \in Slots : Alone(s)) /\ Silent
    /\ Noted("resolved", Blocking) /\ Noted("health_recovered", Health) /\ Unheard

LEMMA SlotKind ==
    ASSUME Alert!AlertsOK, NEW s \in Slots
    PROVE  s[2] \in Alert!AllKinds /\ (s = Alert!Mail(s[2]) \/ s[2] \in Editor)
  BY DEF Slots, Alert!Slots, Alert!Mail, Alert!AllKinds, Alert!AlertsOK

LEMMA FewPasses == Alert!AlertsOK => IsFiniteSet(Passes)
  BY DEF Alert!AlertsOK, Alert!IsFiniteSet, IsFiniteSet

LEMMA MailSlot ==
    ASSUME NEW k \in Alert!AllKinds
    PROVE  Alert!Mail(k) \in Slots /\ Alert!Mail(k)[1] = "mail" /\ Alert!Mail(k)[2] = k
  BY DEF Slots, Alert!Slots, Alert!Mail

\* Steps that tell nobody, claim and stamp nothing: passes may lay down what they hold, kinds may be raised.
LEMMA AlertQuiet ==
    ASSUME Alert!AlertsOK, AlertInv, UNCHANGED <<slot, told, taken, unanswered>>,
           now' \in 0 .. MaxTime, crashes' \in 0 .. MaxCrashes,
           raised' \in [Alert!AllKinds -> 0 .. MaxTime \cup {Alert!Never}],
           \A k \in Alert!AllKinds : raised'[k] = raised[k] \/ (k \in Kinds /\ raised'[k] # Alert!Never),
           pass' \in [Passes -> PassRow],
           \A p \in Passes : pass'[p].pc \in {"sending", "stamp"} => pass'[p] = pass[p],
           \A p \in Passes : \A s \in pass'[p].todo : raised'[s[2]] # Alert!Never
    PROVE  AlertInv'
  <1>1. /\ AlertTypes /\ Untouched /\ Bounded /\ (\A s \in Slots : Alone(s)) /\ Silent
        /\ Noted("resolved", Blocking) /\ Noted("health_recovered", Health) /\ Unheard
    BY DEF AlertInv
  <1>2. \A p \in Passes, s \in Slots : Active(p, s)' => Active(p, s) /\ pass'[p] = pass[p]
    BY DEF Active
  <1>3. AlertTypes'
    BY <1>1 DEF AlertTypes, Slots
  <1>4. Untouched'
    <2> SUFFICES ASSUME NEW s \in Slots, raised'[s[2]] = Alert!Never
                 PROVE  /\ slot[s] = Alert!Open /\ told[s] = 0
                        /\ \A p \in Passes : s \notin pass'[p].todo /\ ~Active(p, s)'
      BY DEF Untouched, Alert!Raised, Slots
    <2>1. s[2] \in Alert!AllKinds
      BY SlotKind
    <2>2. raised[s[2]] = Alert!Never
      BY <2>1
    <2> QED  BY <1>1, <1>2, <2>2 DEF Untouched, Alert!Raised
  <1>5. Bounded'
    <2>1. ASSUME NEW s \in Slots
          PROVE  told[s] + Cardinality(Sending(s)') <= slot[s].attempts
      <3>1. Sending(s)' \subseteq Sending(s) /\ Sending(s) \subseteq Passes
        BY DEF Sending
      <3>2. IsFiniteSet(Sending(s))
        BY <3>1, FewPasses, FS_Subset
      <3>3. /\ Cardinality(Sending(s)') <= Cardinality(Sending(s))
            /\ Cardinality(Sending(s)') \in Nat /\ Cardinality(Sending(s)) \in Nat
        BY <3>1, <3>2, FS_Subset, FS_CardinalityType
      <3>4. told[s] + Cardinality(Sending(s)) <= slot[s].attempts /\ told[s] \in Nat /\ slot[s].attempts \in Nat
        BY <1>1 DEF Bounded, AlertTypes, SlotRow
      <3> QED  BY <3>3, <3>4
    <2>2. \A s \in Slots : slot[s].st = "sent" => told[s] > 0
      BY <1>1 DEF Bounded
    <2>3. \A p \in Passes : pass'[p].pc = "stamp" /\ pass'[p].ok = "sent" => told[pass'[p].slot] > 0
      BY <1>1 DEF Bounded
    <2> QED  BY <2>1, <2>2, <2>3 DEF Bounded, Slots
  <1>6. ASSUME NEW s \in Slots
        PROVE  Alone(s)'
    <2>1. Alone(s)
      BY <1>1
    <2> QED  BY <1>2, <2>1 DEF Alone
  <1>7. Silent'
    BY <1>1, <1>2 DEF Silent, Slots
  <1>8. \A k \in Alert!Recovery : Alert!Raised(k)' <=> Alert!Raised(k)
    BY DEF Alert!Raised, Alert!AllKinds, Alert!AlertsOK
  <1>9. Noted("resolved", Blocking)' /\ Noted("health_recovered", Health)' /\ Unheard'
    BY <1>1, <1>8 DEF Noted, Unheard, Dropped, Alert!Recovery
  <1> QED  BY <1>3, <1>4, <1>5, <1>6, <1>7, <1>9 DEF AlertInv, Slots

LEMMA AlertInit == ASSUME Alert!AlertsOK PROVE Alert!Init => AlertInv
  <1> SUFFICES ASSUME Alert!Init PROVE AlertInv
    OBVIOUS
  <1> USE DEF Alert!Init, Slots
  <1>1. MaxTime \in Nat /\ MaxAttempts \in Nat /\ MaxCrashes \in Nat /\ Alert!Mail("resolved") \in Slots
    BY MailSlot DEF Alert!AlertsOK, Alert!AllKinds, Alert!Recovery
  <1>2. \A s \in Slots : s[2] \in Alert!AllKinds
    BY SlotKind
  <1>3. \A k \in Alert!AllKinds : ~Alert!Raised(k)
    BY <1>1 DEF Alert!Raised
  <1>4. \A p \in Passes : pass[p] = Alert!Resting
    OBVIOUS
  <1>5. Alert!Open \in SlotRow /\ Alert!Resting \in PassRow /\ Alert!Resting.pc = "idle" /\ Alert!Resting.todo = {}
    BY <1>1 DEF Alert!Open, Alert!Never, SlotRow, Alert!Resting, PassRow
  <1>6. AlertTypes
    BY <1>1, <1>4, <1>5 DEF AlertTypes, Alert!Open
  <1>7. Untouched /\ Silent
    BY <1>4, <1>5 DEF Untouched, Silent, Active, Alert!Open
  <1>8. ASSUME NEW s \in Slots PROVE told[s] + Cardinality(Sending(s)) <= slot[s].attempts
    <2>1. Sending(s) = {}
      BY <1>4, <1>5 DEF Sending
    <2> QED  BY <2>1, FS_EmptySet DEF Alert!Open
  <1>9. Bounded
    BY <1>4, <1>5, <1>8 DEF Bounded, Alert!Open
  <1>10. \A s \in Slots : Alone(s)
    BY <1>4, <1>5 DEF Alone, Active, Alert!Open
  <1>11. Noted("resolved", Blocking) /\ Noted("health_recovered", Health) /\ Unheard
    BY <1>1, <1>3 DEF Noted, Unheard, Alert!AllKinds, Alert!Recovery, Alert!Open
  <1> QED  BY <1>6, <1>7, <1>9, <1>10, <1>11 DEF AlertInv

\* Where nothing else changes, fewer passes are about to send.
LEMMA FewerSend ==
    ASSUME Alert!AlertsOK, Bounded, AlertTypes, NEW s \in Slots, Sending(s)' \subseteq Sending(s),
           told'[s] = told[s], slot'[s].attempts = slot[s].attempts
    PROVE  told'[s] + Cardinality(Sending(s)') <= slot'[s].attempts
  <1>1. IsFiniteSet(Sending(s))
    BY FewPasses, FS_Subset DEF Sending
  <1>2. /\ Cardinality(Sending(s)') <= Cardinality(Sending(s))
        /\ Cardinality(Sending(s)') \in Nat /\ Cardinality(Sending(s)) \in Nat
    BY <1>1, FS_Subset, FS_CardinalityType
  <1>3. told[s] + Cardinality(Sending(s)) <= slot[s].attempts /\ told[s] \in Nat /\ slot[s].attempts \in Nat
    BY DEF Bounded, AlertTypes, SlotRow
  <1> QED  BY <1>2, <1>3

\* A recovery note is written, to be sent or never to be.
LEMMA RecoverInv ==
    ASSUME Alert!AlertsOK, AlertInv, UNCHANGED <<now, told, taken, unanswered, crashes>>,
           NEW k, NEW P, <<k, P>> \in {<<"resolved", Blocking>>, <<"health_recovered", Health>>},
           ~Alert!Raised(k), Alert!Recovers(k, P), pass' \in [Passes -> PassRow],
           \A p \in Passes : pass'[p].pc \in {"sending", "stamp"} => pass'[p] = pass[p],
           \A p \in Passes : pass'[p].todo \subseteq pass[p].todo
    PROVE  AlertInv'
  <1> DEFINE s0 == Alert!Mail(k)
  <1>1. /\ AlertTypes /\ Untouched /\ Bounded /\ (\A s \in Slots : Alone(s)) /\ Silent
        /\ Noted("resolved", Blocking) /\ Noted("health_recovered", Health) /\ Unheard
    BY DEF AlertInv
  <1>2. \A p \in Passes, s \in Slots : Active(p, s)' => Active(p, s) /\ pass'[p] = pass[p]
    BY DEF Active
  <1>3. k \in Alert!AllKinds /\ k \notin Kinds /\ P \subseteq Kinds /\ k \in Alert!Recovery
    BY DEF Alert!AllKinds, Alert!Recovery, Alert!AlertsOK
  <1>4. s0 \in Slots /\ s0[2] = k
    BY <1>3, MailSlot
  <1>5. slot[s0] = Alert!Open /\ told[s0] = 0 /\ \A p \in Passes : ~Active(p, s0)
    BY <1>1, <1>4 DEF Untouched
  <1>6. \A s \in Slots : s[2] = k => s = s0
    BY <1>3, SlotKind DEF Alert!AlertsOK
  <1>7. /\ raised' = [raised EXCEPT ![k] = now]
        /\ slot' = [slot EXCEPT ![s0].st = IF Alert!Heard(P) THEN "open" ELSE "unheard"]
    BY DEF Alert!Recovers
  <1>8. slot \in [Slots -> SlotRow] /\ slot' \in [Slots -> SlotRow]
    BY <1>1, <1>4, <1>7 DEF AlertTypes, SlotRow
  <1>9. /\ \A s \in Slots : slot'[s].attempts = slot[s].attempts /\ slot'[s].claim = slot[s].claim
        /\ \A s \in Slots : s # s0 => slot'[s] = slot[s]
        /\ slot'[s0].st = IF Alert!Heard(P) THEN "open" ELSE "unheard"
    BY <1>4, <1>7, <1>8 DEF SlotRow
  <1>10. /\ now # Alert!Never /\ raised'[k] = now /\ \A b \in Alert!AllKinds : b # k => raised'[b] = raised[b]
         /\ raised' \in [Alert!AllKinds -> 0 .. MaxTime \cup {Alert!Never}]
    BY <1>1, <1>3, <1>7 DEF AlertTypes, Alert!Never, Alert!AlertsOK
  <1> HIDE DEF s0
  <1>11. AlertTypes'
    BY <1>1, <1>8, <1>9, <1>10 DEF AlertTypes, Slots
  <1>12. Untouched'
    <2> SUFFICES ASSUME NEW s \in Slots, raised'[s[2]] = Alert!Never
                 PROVE  /\ slot'[s] = Alert!Open /\ told'[s] = 0
                        /\ \A p \in Passes : s \notin pass'[p].todo /\ ~Active(p, s)'
      BY DEF Untouched, Alert!Raised, Slots
    <2>1. s[2] \in Alert!AllKinds /\ s[2] # k /\ s # s0
      BY <1>4, <1>10, SlotKind
    <2>2. raised[s[2]] = Alert!Never
      BY <1>10, <2>1
    <2> QED  BY <1>1, <1>2, <1>9, <2>1, <2>2 DEF Untouched, Alert!Raised
  <1>13. Bounded'
    <2>1. ASSUME NEW s \in Slots
          PROVE  told'[s] + Cardinality(Sending(s)') <= slot'[s].attempts
      <3>1. Sending(s)' \subseteq Sending(s)
        BY DEF Sending
      <3> QED  BY <1>1, <1>9, <3>1, FewerSend
    <2>2. \A s \in Slots : slot'[s].st = "sent" => told[s] > 0
      BY <1>1, <1>9 DEF Bounded
    <2>3. \A p \in Passes : pass'[p].pc = "stamp" /\ pass'[p].ok = "sent" => told[pass'[p].slot] > 0
      BY <1>1 DEF Bounded
    <2> QED  BY <2>1, <2>2, <2>3 DEF Bounded, Slots
  <1>14. ASSUME NEW s \in Slots
         PROVE  Alone(s)'
    <2>1. CASE s = s0
      BY <1>2, <1>5, <2>1 DEF Alone
    <2>2. CASE s # s0
      <3>1. Alone(s) /\ slot'[s] = slot[s]
        BY <1>1, <1>9, <2>2
      <3> QED  BY <1>2, <3>1 DEF Alone
    <2> QED  BY <2>1, <2>2
  <1>15. Silent'
    BY <1>1, <1>2, <1>5, <1>9 DEF Silent, Slots
  <1>16. \A b \in P : Alert!Mail(b) \in Slots /\ Alert!Mail(b)[2] = b /\ Alert!Mail(b) # s0
    BY <1>3, <1>4, MailSlot DEF Alert!AllKinds
  <1>17. ASSUME NEW b \in P, slot[Alert!Mail(b)].st = "sent" \/ slot[Alert!Mail(b)].claim # 0
         PROVE  slot[Alert!Mail(b)].attempts > 0
    <2> DEFINE s == Alert!Mail(b)
    <2>1. s \in Slots
      BY <1>16
    <2> HIDE DEF s
    <2>2. /\ slot[s].claim <= slot[s].attempts /\ slot[s].claim \in Nat /\ slot[s].attempts \in Nat /\ told[s] \in Nat
          /\ told[s] + Cardinality(Sending(s)) <= slot[s].attempts /\ (slot[s].st = "sent" => told[s] > 0)
      BY <1>1, <1>8, <2>1 DEF AlertTypes, SlotRow, Bounded
    <2>3. Cardinality(Sending(s)) \in Nat
      BY FewPasses, FS_Subset, FS_CardinalityType DEF Sending
    <2>4. slot[s].st = "sent" \/ slot[s].claim # 0
      BY <1>17 DEF s
    <2>5. slot[s].attempts > 0
      BY <2>2, <2>3, <2>4
    <2> QED  BY <2>5 DEF s
  <1>18. Noted(k, P)'
    BY <1>9, <1>16, <1>17 DEF Noted, Alert!Heard, s0
  <1>19. ASSUME NEW j, NEW Q, Noted(j, Q), j \in Alert!Recovery, j # k, Q \subseteq Kinds
         PROVE  Noted(j, Q)'
    <2>1. j \in Alert!AllKinds /\ Alert!Mail(j) # s0 /\ Alert!Mail(j) \in Slots
      BY <1>4, <1>19, MailSlot DEF Alert!AllKinds
    <2>2. raised'[j] = raised[j] /\ slot'[Alert!Mail(j)] = slot[Alert!Mail(j)]
      BY <1>9, <1>10, <1>19, <2>1
    <2>3. \A b \in Q : slot'[Alert!Mail(b)].attempts = slot[Alert!Mail(b)].attempts
      BY <1>9, <1>19, MailSlot DEF Alert!AllKinds
    <2> QED  BY <1>19, <2>2, <2>3 DEF Noted, Alert!Raised
  <1>20. Noted("resolved", Blocking)' /\ Noted("health_recovered", Health)'
    BY <1>1, <1>18, <1>19 DEF Alert!Recovery, Alert!AlertsOK
  <1>21. Unheard'
    <2>1. CASE k = "resolved"
      <3>1. P = Blocking /\ s0 = Alert!Mail("resolved")
        BY <2>1 DEF s0
      <3> SUFFICES ASSUME slot'[s0].st = "unheard", NEW b \in Blocking, Alert!Mail(b) \notin taken
                   PROVE  Dropped(Alert!Mail(b))'
        BY <1>10, <2>1, <3>1 DEF Unheard, Alert!Raised
      <3> DEFINE m == Alert!Mail(b)
      <3>2. ~Alert!Heard(Blocking)
        BY <1>9, <3>1
      <3>3. m \in Slots /\ m[2] = b
        BY <1>16, <3>1
      <3>4. ~Alert!Raised(b) \/ (slot[m].st # "sent" /\ slot[m].claim = 0)
        BY <3>2 DEF Alert!Heard
      <3>5. slot'[m].claim = slot[m].claim /\ m \notin taken /\ told[m] \in Nat
        BY <1>1, <1>9, <3>3 DEF AlertTypes
      <3> HIDE DEF m
      <3>6. CASE ~Alert!Raised(b)
        <4>1. slot[m] = Alert!Open /\ told[m] = 0
          BY <1>1, <3>3, <3>6 DEF Untouched
        <4> QED  BY <3>5, <4>1 DEF m, Alert!Open, Dropped
      <3>7. CASE slot[m].st # "sent" /\ slot[m].claim = 0
        <4>1. ~(told[m] >= 1) \/ m \in unanswered
          BY <1>1, <3>3, <3>5, <3>7 DEF Alone
        <4> QED  BY <3>5, <3>7, <4>1 DEF m, Dropped
      <3> QED  BY <3>4, <3>6, <3>7
    <2>2. CASE k = "health_recovered"
      <3>1. "resolved" \in Alert!AllKinds /\ "resolved" # k /\ Alert!Mail("resolved") \in Slots
        BY <2>2, MailSlot DEF Alert!AllKinds, Alert!Recovery
      <3>2. Alert!Mail("resolved") # s0
        BY <1>4, <3>1, MailSlot
      <3>3. slot'[Alert!Mail("resolved")] = slot[Alert!Mail("resolved")] /\ raised'["resolved"] = raised["resolved"]
        BY <1>9, <1>10, <3>1, <3>2
      <3>4. \A b \in Blocking : slot'[Alert!Mail(b)].claim = slot[Alert!Mail(b)].claim
        BY <1>9, MailSlot DEF Alert!AllKinds, Alert!AlertsOK
      <3> QED  BY <1>1, <3>3, <3>4 DEF Unheard, Dropped, Alert!Raised
    <2> QED  BY <2>1, <2>2
  <1> QED  BY <1>11, <1>12, <1>13, <1>14, <1>15, <1>20, <1>21 DEF AlertInv, Slots

\* A pass claims a slot.
LEMMA ClaimInv ==
    ASSUME Alert!AlertsOK, AlertInv, NEW p \in Passes, NEW s \in Slots, pass[p].pc \in {"next", "last"},
           s \in pass[p].todo, Alert!Claimable(s, pass[p].t0), Alert!Claim(p, s)
    PROVE  AlertInv'
  <1> DEFINE n == slot[s].attempts + 1
  <1>1. /\ AlertTypes /\ Untouched /\ Bounded /\ (\A u \in Slots : Alone(u)) /\ Silent
        /\ Noted("resolved", Blocking) /\ Noted("health_recovered", Health) /\ Unheard
    BY DEF AlertInv
  <1>2. /\ slot[s] \in SlotRow /\ slot[s].st = "open" /\ slot[s].attempts < MaxAttempts
        /\ s[1] = "mail" /\ s[2] \in Blocking => ~Alert!Raised("resolved")
    BY <1>1 DEF Alert!Claimable, Alert!MayTry, AlertTypes
  <1>3. /\ slot' = [slot EXCEPT ![s].claim = n, ![s].at = pass[p].t0, ![s].attempts = n]
        /\ pass' = [pass EXCEPT ![p] = [[pass[p] EXCEPT !.todo = @ \ {s}, !.slot = s]
                                           EXCEPT !.pc = "sending", !.slot = s, !.mine = n]]
        /\ taken' = IF slot[s].claim # 0 THEN taken \cup {s} ELSE taken
        /\ UNCHANGED <<now, raised, solved, healthy, told, unanswered, crashes>>
    BY <1>1 DEF Alert!Claim, AlertTypes, PassRow
  <1>4. pass[p] \in PassRow /\ pass[p].t0 \in 0 .. MaxTime /\ n \in 1 .. MaxAttempts
    BY <1>1, <1>2 DEF AlertTypes, PassRow, SlotRow, Alert!AlertsOK
  <1>5. /\ slot' \in [Slots -> SlotRow] /\ \A u \in Slots : u # s => slot'[u] = slot[u]
        /\ slot'[s].claim = n /\ slot'[s].attempts = n /\ slot'[s].st = "open"
    <2>1. slot[s] \in SlotRow /\ slot \in [Slots -> SlotRow]
      BY <1>1, <1>2 DEF AlertTypes
    <2>2. [slot[s] EXCEPT !.claim = n, !.at = pass[p].t0, !.attempts = n] \in SlotRow
      <3>1. n \in Nat /\ n \in 0 .. MaxAttempts /\ pass[p].t0 \in Nat
        BY <1>4 DEF Alert!AlertsOK
      <3> HIDE DEF n
      <3> QED  BY <2>1, <3>1 DEF SlotRow
    <2> QED  BY <1>2, <1>3, <2>1, <2>2 DEF SlotRow
  <1>6. /\ pass' \in [Passes -> PassRow] /\ \A q \in Passes : q # p => pass'[q] = pass[q]
        /\ pass'[p].pc = "sending" /\ pass'[p].slot = s /\ pass'[p].mine = n /\ pass'[p].todo = pass[p].todo \ {s}
    <2>1. n \in Nat
      BY <1>4
    <2> HIDE DEF n
    <2>2. pass' = [pass EXCEPT ![p] = [pass[p] EXCEPT !.todo = @ \ {s}, !.slot = s, !.pc = "sending", !.mine = n]]
      BY <1>3, <1>4 DEF PassRow
    <2>3. [pass[p] EXCEPT !.todo = @ \ {s}, !.slot = s, !.pc = "sending", !.mine = n] \in PassRow
      BY <1>4, <2>1 DEF PassRow
    <2> QED  BY <1>1, <1>4, <2>2, <2>3 DEF AlertTypes, PassRow
  <1> HIDE DEF n
  <1>7. \A q \in Passes, u \in Slots : Active(q, u)' => (q = p /\ u = s) \/ (Active(q, u) /\ q # p /\ pass'[q] = pass[q])
    BY <1>6 DEF Active
  <1>8. AlertTypes'
    BY <1>1, <1>3, <1>4, <1>5, <1>6 DEF AlertTypes, Slots
  <1>9. Alert!Raised(s[2])
    BY <1>1 DEF Untouched
  <1>10. Untouched'
    <2> SUFFICES ASSUME NEW u \in Slots, ~Alert!Raised(u[2])
                 PROVE  /\ slot'[u] = Alert!Open /\ told[u] = 0
                        /\ \A q \in Passes : u \notin pass'[q].todo /\ ~Active(q, u)'
      BY <1>3 DEF Untouched, Alert!Raised, Slots
    <2>1. u # s
      BY <1>9
    <2>2. \A q \in Passes : pass'[q].todo \subseteq pass[q].todo
      BY <1>6
    <2> QED  BY <1>1, <1>5, <1>7, <2>1, <2>2 DEF Untouched
  <1>11. Bounded'
    <2>1. told[s] + Cardinality(Sending(s)') <= slot'[s].attempts
      <3>1. Sending(s)' = Sending(s) \cup {p} /\ p \notin Sending(s)
        BY <1>6 DEF Sending
      <3>2. IsFiniteSet(Sending(s))
        BY FewPasses, FS_Subset DEF Sending
      <3>3. Cardinality(Sending(s)') = Cardinality(Sending(s)) + 1 /\ Cardinality(Sending(s)) \in Nat
        BY <3>1, <3>2, FS_AddElement, FS_CardinalityType
      <3>4. told[s] + Cardinality(Sending(s)) <= slot[s].attempts /\ told[s] \in Nat /\ slot[s].attempts \in Nat
        BY <1>1, <1>2 DEF Bounded, AlertTypes, SlotRow
      <3> QED  BY <1>5, <3>3, <3>4 DEF n
    <2>2. ASSUME NEW u \in Slots, u # s
          PROVE  told[u] + Cardinality(Sending(u)') <= slot'[u].attempts
      <3>1. Sending(u)' \subseteq Sending(u)
        BY <1>6, <2>2 DEF Sending
      <3>2. told'[u] = told[u] /\ slot'[u].attempts = slot[u].attempts
        BY <1>3, <1>5, <2>2
      <3>3. told'[u] + Cardinality(Sending(u)') <= slot'[u].attempts
        BY <1>1, <3>1, <3>2, FewerSend
      <3> QED  BY <3>2, <3>3
    <2>3. \A u \in Slots : slot'[u].st = "sent" => told[u] > 0
      BY <1>1, <1>5 DEF Bounded
    <2>4. \A q \in Passes : pass'[q].pc = "stamp" /\ pass'[q].ok = "sent" => told[pass'[q].slot] > 0
      BY <1>1, <1>6 DEF Bounded
    <2> QED  BY <1>3, <2>1, <2>2, <2>3, <2>4 DEF Bounded, Slots
  <1>12. ASSUME NEW u \in Slots, u \notin taken'
         PROVE  Alone(u)'
    <2>1. Alone(u) /\ u \notin taken
      BY <1>1, <1>3, <1>12
    <2>2. CASE u = s
      <3>1. slot[s].claim = 0
        BY <1>3, <1>12, <2>2
      <3>2. (\A q \in Passes : ~Active(q, s)) /\ ~(told[s] >= 1 /\ s \notin unanswered)
        BY <1>2, <2>1, <2>2, <3>1 DEF Alone
      <3>3. \A q \in Passes : Active(q, s)' => q = p
        BY <1>7, <3>2
      <3>4. n # 0
        BY <1>4
      <3> QED  BY <1>3, <1>5, <1>6, <2>2, <3>2, <3>3, <3>4 DEF Alone
    <2>3. CASE u # s
      <3>1. slot'[u] = slot[u] /\ told'[u] = told[u] /\ unanswered' = unanswered
        BY <1>3, <1>5, <2>3
      <3>2. \A q \in Passes : Active(q, u)' => Active(q, u) /\ pass'[q] = pass[q]
        BY <1>7, <2>3
      <3> QED  BY <2>1, <3>1, <3>2 DEF Alone
    <2> QED  BY <2>2, <2>3
  <1>13. \A u \in Slots : Alone(u)'
    <2>1. ASSUME NEW u \in Slots, u \in taken' PROVE Alone(u)'
      BY <2>1 DEF Alone
    <2> QED  BY <1>12, <2>1
  <1>14. Silent'
    BY <1>1, <1>3, <1>5, <1>7 DEF Silent, Slots
  <1>15. \A u \in Slots : slot'[u].st = slot[u].st /\ (slot[u].attempts > 0 => slot'[u].attempts > 0)
    BY <1>2, <1>4, <1>5
  <1>16. ASSUME NEW j \in Alert!Recovery, NEW Q \in SUBSET Kinds, Noted(j, Q)
         PROVE  Noted(j, Q)'
    <2>1. Alert!Mail(j) \in Slots /\ \A b \in Q : Alert!Mail(b) \in Slots
      BY MailSlot DEF Alert!AllKinds
    <2>2. slot'[Alert!Mail(j)].st = slot[Alert!Mail(j)].st
      BY <1>15, <2>1
    <2>3. \A b \in Q : slot[Alert!Mail(b)].attempts > 0 => slot'[Alert!Mail(b)].attempts > 0
      BY <1>15, <2>1
    <2> QED  BY <1>3, <1>16, <2>2, <2>3 DEF Noted, Alert!Raised
  <1>17. Noted("resolved", Blocking)' /\ Noted("health_recovered", Health)'
    BY <1>1, <1>16 DEF Alert!Recovery, Alert!AlertsOK
  <1>18. Unheard'
    <2> SUFFICES ASSUME slot'[Alert!Mail("resolved")].st = "unheard"
                 PROVE  /\ Alert!Raised("resolved")
                        /\ \A k \in Blocking : Alert!Mail(k) \in taken' \/ Dropped(Alert!Mail(k))'
      BY <1>3 DEF Unheard, Alert!Raised
    <2>1. slot[Alert!Mail("resolved")].st = "unheard"
      BY <1>15, MailSlot DEF Alert!AllKinds, Alert!Recovery
    <2>2. Alert!Raised("resolved")
      BY <1>1, <2>1 DEF Unheard
    <2>3. ASSUME NEW k \in Blocking
          PROVE  Alert!Mail(k) \in taken' \/ Dropped(Alert!Mail(k))'
      <3>1. Alert!Mail(k) \in Slots /\ Alert!Mail(k)[1] = "mail" /\ Alert!Mail(k)[2] = k
        BY MailSlot DEF Alert!AllKinds, Alert!AlertsOK
      <3>2. Alert!Mail(k) # s
        BY <1>2, <2>2, <3>1
      <3>3. slot'[Alert!Mail(k)] = slot[Alert!Mail(k)] /\ taken \subseteq taken'
        BY <1>3, <1>5, <3>1, <3>2
      <3> QED  BY <1>1, <1>3, <2>1, <3>3 DEF Unheard, Dropped
    <2> QED  BY <2>2, <2>3
  <1> QED  BY <1>8, <1>10, <1>11, <1>13, <1>14, <1>17, <1>18 DEF AlertInv, Slots

\* A pass sends, and tells somebody or nobody.
LEMMA SendInv ==
    ASSUME Alert!AlertsOK, AlertInv, NEW p \in Passes, NEW s \in Slots, s = pass[p].slot, Alert!Send(p)
    PROVE  AlertInv'
  <1>1. /\ AlertTypes /\ Untouched /\ Bounded /\ (\A u \in Slots : Alone(u)) /\ Silent
        /\ Noted("resolved", Blocking) /\ Noted("health_recovered", Health) /\ Unheard
    BY DEF AlertInv
  <1>2. PICK r \in Alert!Outcomes :
          /\ pass' = [pass EXCEPT ![p].pc = "stamp", ![p].ok = IF r = "lost" THEN "failed" ELSE r]
          /\ told' = IF r \in {"sent", "lost"} THEN [told EXCEPT ![s] = @ + 1] ELSE told
          /\ unanswered' = IF r = "lost" THEN unanswered \cup {s} ELSE unanswered
    BY DEF Alert!Send
  <1> DEFINE ok == IF r = "lost" THEN "failed" ELSE r
  <1>3. pass[p].pc = "sending" /\ UNCHANGED <<now, raised, slot, solved, healthy, taken, crashes>>
    BY DEF Alert!Send, Alert!In
  <1>4. pass[p] \in PassRow /\ s \in Slots /\ told[s] \in Nat
    BY <1>1 DEF AlertTypes, PassRow
  <1>5. /\ pass' \in [Passes -> PassRow] /\ \A q \in Passes : q # p => pass'[q] = pass[q]
        /\ pass'[p].pc = "stamp" /\ pass'[p].ok = ok /\ pass'[p].slot = s /\ pass'[p].mine = pass[p].mine
        /\ pass'[p].todo = pass[p].todo
    <2>1. ok \in {"sent", "failed", "skipped"}
      BY DEF Alert!Outcomes
    <2>2. pass' = [pass EXCEPT ![p].pc = "stamp", ![p].ok = ok]
      BY <1>2
    <2> HIDE DEF ok
    <2> QED  BY <1>1, <1>4, <2>1, <2>2 DEF AlertTypes, PassRow
  <1> HIDE DEF ok
  <1>6. /\ told' \in [Slots -> Nat] /\ \A u \in Slots : u # s => told'[u] = told[u]
        /\ told'[s] = IF r \in {"sent", "lost"} THEN told[s] + 1 ELSE told[s]
        /\ unanswered \subseteq unanswered' /\ unanswered' \subseteq unanswered \cup {s}
        /\ (r = "lost" => s \in unanswered')
    BY <1>1, <1>2, <1>4 DEF AlertTypes
  <1>7. Active(p, s) /\ p \in Sending(s) /\ (\A u \in Slots : u # s => ~Active(p, u))
    BY <1>3 DEF Active, Sending
  <1>8. \A q \in Passes, u \in Slots : Active(q, u)' <=> Active(q, u)
    BY <1>3, <1>5, <1>7 DEF Active
  <1>9. AlertTypes'
    <2>1. \A q \in Passes : pass'[q].pc = "stamp" => pass'[q].ok # "none"
      BY <1>1, <1>5 DEF AlertTypes, ok, Alert!Outcomes
    <2> QED  BY <1>1, <1>3, <1>4, <1>5, <1>6, <2>1 DEF AlertTypes, Slots
  <1>10. Alert!Raised(s[2])
    BY <1>1, <1>4, <1>7 DEF Untouched
  <1>11. Untouched'
    <2> SUFFICES ASSUME NEW u \in Slots, ~Alert!Raised(u[2])
                 PROVE  /\ slot[u] = Alert!Open /\ told'[u] = 0
                        /\ \A q \in Passes : u \notin pass'[q].todo /\ ~Active(q, u)'
      BY <1>3 DEF Untouched, Alert!Raised, Slots
    <2>1. u # s
      BY <1>10
    <2>2. \A q \in Passes : pass'[q].todo = pass[q].todo
      BY <1>5
    <2> QED  BY <1>1, <1>6, <1>8, <2>1, <2>2 DEF Untouched
  <1>12. Bounded'
    <2>1. told'[s] + Cardinality(Sending(s)') <= slot[s].attempts
      <3>1. Sending(s)' = Sending(s) \ {p} /\ p \in Sending(s)
        BY <1>5, <1>7 DEF Sending
      <3>2. IsFiniteSet(Sending(s))
        BY FewPasses, FS_Subset DEF Sending
      <3>3. /\ Cardinality(Sending(s)') = Cardinality(Sending(s)) - 1
            /\ Cardinality(Sending(s)) \in Nat /\ Cardinality(Sending(s)') \in Nat
        BY <3>1, <3>2, FS_RemoveElement, FS_CardinalityType, FS_Subset
      <3>4. told[s] + Cardinality(Sending(s)) <= slot[s].attempts /\ slot[s].attempts \in Nat
        BY <1>1, <1>4 DEF Bounded, AlertTypes, SlotRow
      <3> QED  BY <1>4, <1>6, <3>3, <3>4
    <2>2. ASSUME NEW u \in Slots, u # s
          PROVE  told'[u] + Cardinality(Sending(u)') <= slot'[u].attempts
      <3>1. Sending(u)' \subseteq Sending(u)
        BY <1>5, <2>2 DEF Sending
      <3> QED  BY <1>1, <1>3, <1>6, <2>2, <3>1, FewerSend
    <2>3. \A u \in Slots : told[u] > 0 => told'[u] > 0
      BY <1>4, <1>6
    <2>4. \A q \in Passes : pass'[q].pc = "stamp" /\ pass'[q].ok = "sent" => told'[pass'[q].slot] > 0
      <3>1. ASSUME NEW q \in Passes, q # p, pass'[q].pc = "stamp", pass'[q].ok = "sent"
            PROVE  told'[pass'[q].slot] > 0
        <4>1. pass'[q] = pass[q] /\ pass[q].slot \in Slots
          BY <1>1, <1>5, <3>1 DEF AlertTypes, PassRow
        <4> QED  BY <1>1, <2>3, <3>1, <4>1 DEF Bounded
      <3>2. pass'[p].ok = "sent" => told'[pass'[p].slot] > 0
        BY <1>4, <1>5, <1>6 DEF ok
      <3> QED  BY <3>1, <3>2
    <2>5. \A u \in Slots : slot[u].st = "sent" => told'[u] > 0
      BY <1>1, <2>3 DEF Bounded
    <2> QED  BY <1>3, <2>1, <2>2, <2>4, <2>5 DEF Bounded, Slots
  <1>13. ASSUME NEW u \in Slots, u \notin taken
         PROVE  Alone(u)'
    <2>1. Alone(u)
      BY <1>1
    <2>2. CASE u = s
      <3>1. /\ pass[p].mine = slot[s].claim /\ slot[s].claim # 0 /\ slot[s].st = "open"
            /\ \A q \in Passes : Active(q, s) => q = p
        BY <1>7, <1>13, <2>1, <2>2 DEF Alone
      <3>2. ~(told[s] >= 1 /\ s \notin unanswered)
        BY <1>3, <1>7, <1>13, <2>1, <2>2, <3>1 DEF Alone
      <3>3. told[s] = 0 \/ s \in unanswered
        BY <1>4, <3>2
      <3>4. told'[s] >= 1 /\ s \notin unanswered' => told'[s] = 1 /\ ok = "sent"
        BY <1>6, <3>3 DEF ok
      <3> QED  BY <1>3, <1>5, <1>8, <2>2, <3>1, <3>4 DEF Alone
    <2>3. CASE u # s
      <3>1. \A q \in Passes : Active(q, u)' => Active(q, u) /\ pass'[q] = pass[q]
        BY <1>5, <1>7, <1>8, <2>3
      <3>2. told'[u] = told[u] /\ (u \in unanswered' <=> u \in unanswered)
        BY <1>6, <2>3
      <3> QED  BY <1>3, <2>1, <3>1, <3>2 DEF Alone
    <2> QED  BY <2>2, <2>3
  <1>14. \A u \in Slots : Alone(u)'
    <2>1. ASSUME NEW u \in Slots, u \in taken PROVE Alone(u)'
      BY <1>3, <2>1 DEF Alone
    <2> QED  BY <1>13, <2>1
  <1>15. Silent'
    <2>1. slot[s].st # "unheard"
      BY <1>1, <1>4, <1>7 DEF Silent
    <2> QED  BY <1>1, <1>3, <1>6, <1>8, <2>1 DEF Silent, Slots
  <1>16. Noted("resolved", Blocking)' /\ Noted("health_recovered", Health)'
    BY <1>1, <1>3 DEF Noted, Alert!Raised
  <1>17. Unheard'
    <2>1. ASSUME NEW k \in Blocking, Alert!Mail(k) \notin taken, slot[Alert!Mail(k)].claim = 0
          PROVE  told'[Alert!Mail(k)] = told[Alert!Mail(k)]
      <3>1. Alert!Mail(k) \in Slots
        BY MailSlot DEF Alert!AllKinds, Alert!AlertsOK
      <3>2. Alert!Mail(k) # s
        BY <1>1, <1>4, <1>7, <2>1 DEF Alone
      <3> QED  BY <1>6, <3>1, <3>2
    <2> QED  BY <1>1, <1>3, <1>6, <2>1 DEF Unheard, Dropped, Alert!Raised
  <1> QED  BY <1>9, <1>11, <1>12, <1>14, <1>15, <1>16, <1>17 DEF AlertInv, Slots

\* A pass stamps the outcome on the claim it still holds.
LEMMA StampInv ==
    ASSUME Alert!AlertsOK, AlertInv, NEW p \in Passes, NEW s \in Slots, s = pass[p].slot,
           Alert!Stamp(p), Alert!Own(p)
    PROVE  AlertInv'
  <1> DEFINE ok == pass[p].ok
             wait == IF ok = "failed" THEN pass[p].t0 + 1 ELSE slot[s].retry
             ends == IF ok = "failed" THEN slot[s].st ELSE ok
  <1>1. /\ AlertTypes /\ Untouched /\ Bounded /\ (\A u \in Slots : Alone(u)) /\ Silent
        /\ Noted("resolved", Blocking) /\ Noted("health_recovered", Health) /\ Unheard
    BY DEF AlertInv
  <1>2. /\ pass[p].pc = "stamp" /\ UNCHANGED <<now, raised, solved, healthy, told, taken, unanswered, crashes>>
        /\ slot' = [slot EXCEPT ![s].claim = 0, ![s].at = Alert!Never, ![s].st = ends,
                                ![s].retry = wait]
        /\ pass' = [pass EXCEPT ![p] = [Alert!Resting EXCEPT !.pc = IF s[1] = "mail" THEN "next" ELSE "last",
                                          !.t0 = pass[p].t0, !.todo = pass[p].todo]]
    BY <1>1 DEF Alert!Stamp, Alert!In, Alert!Own, AlertTypes, SlotRow
  <1>3. pass[p] \in PassRow /\ slot[s] \in SlotRow /\ ok # "none" /\ pass[p].t0 \in Nat /\ Alert!Never \in Nat
    BY <1>1, <1>2 DEF AlertTypes, PassRow, Alert!Never, Alert!AlertsOK
  <1>4. Active(p, s) /\ slot[s].st # "unheard"
    BY <1>1, <1>2 DEF Active, Silent
  <1>5. ends \in {"open", "sent", "skipped"} /\ wait \in Nat
    BY <1>3, <1>4 DEF SlotRow, PassRow
  <1> HIDE DEF ends, wait
  <1>6. /\ slot' \in [Slots -> SlotRow] /\ \A u \in Slots : u # s => slot'[u] = slot[u]
        /\ slot'[s].claim = 0 /\ slot'[s].attempts = slot[s].attempts /\ slot'[s].st = ends
    <2>1. [slot[s] EXCEPT !.claim = 0, !.at = Alert!Never, !.st = ends, !.retry = wait] \in SlotRow
      BY <1>3, <1>5 DEF SlotRow
    <2> QED  BY <1>1, <1>2, <1>3, <2>1 DEF AlertTypes, SlotRow
  <1>7. /\ pass' \in [Passes -> PassRow] /\ \A q \in Passes : q # p => pass'[q] = pass[q]
        /\ pass'[p].pc \in {"next", "last"} /\ pass'[p].todo = pass[p].todo
    <2>1. Alert!Mail("resolved") \in Slots
      BY MailSlot DEF Alert!AllKinds, Alert!Recovery
    <2>2. [Alert!Resting EXCEPT !.pc = IF s[1] = "mail" THEN "next" ELSE "last",
                                !.t0 = pass[p].t0, !.todo = pass[p].todo] \in PassRow
      BY <1>3, <2>1 DEF PassRow, Alert!Resting
    <2> QED  BY <1>1, <1>2, <2>2 DEF AlertTypes, PassRow, Alert!Resting
  <1>8. \A q \in Passes, u \in Slots : Active(q, u)' => Active(q, u) /\ q # p /\ pass'[q] = pass[q]
    BY <1>7 DEF Active
  <1>9. AlertTypes'
    <2>1. ASSUME NEW u \in Slots PROVE slot'[u].claim <= slot'[u].attempts
      BY <1>1, <1>3, <1>6 DEF AlertTypes, SlotRow
    <2>2. \A q \in Passes : pass'[q].pc = "stamp" => pass'[q].ok # "none"
      BY <1>1, <1>7 DEF AlertTypes
    <2> QED  BY <1>1, <1>2, <1>6, <1>7, <2>1, <2>2 DEF AlertTypes, Slots
  <1>10. Alert!Raised(s[2])
    BY <1>1, <1>4 DEF Untouched
  <1>11. Untouched'
    <2> SUFFICES ASSUME NEW u \in Slots, ~Alert!Raised(u[2])
                 PROVE  /\ slot'[u] = Alert!Open /\ told[u] = 0
                        /\ \A q \in Passes : u \notin pass'[q].todo /\ ~Active(q, u)'
      BY <1>2 DEF Untouched, Alert!Raised, Slots
    <2>1. u # s
      BY <1>10
    <2>2. \A q \in Passes : pass'[q].todo = pass[q].todo
      BY <1>7
    <2> QED  BY <1>1, <1>6, <1>8, <2>1, <2>2 DEF Untouched
  <1>12. Bounded'
    <2>1. ASSUME NEW u \in Slots
          PROVE  told'[u] + Cardinality(Sending(u)') <= slot'[u].attempts
      <3>1. Sending(u)' \subseteq Sending(u)
        BY <1>2, <1>7 DEF Sending
      <3>2. told'[u] = told[u] /\ slot'[u].attempts = slot[u].attempts
        BY <1>2, <1>6
      <3> QED  BY <1>1, <3>1, <3>2, FewerSend
    <2>2. \A u \in Slots : slot'[u].st = "sent" => told[u] > 0
      <3>1. ends = "sent" => told[s] > 0
        BY <1>1, <1>2 DEF Bounded, ends
      <3> QED  BY <1>1, <1>6, <3>1 DEF Bounded
    <2>3. \A q \in Passes : pass'[q].pc = "stamp" /\ pass'[q].ok = "sent" => told[pass'[q].slot] > 0
      BY <1>1, <1>7 DEF Bounded
    <2> QED  BY <1>2, <2>1, <2>2, <2>3 DEF Bounded, Slots
  <1>13. ASSUME NEW u \in Slots, u \notin taken
         PROVE  Alone(u)'
    <2>1. Alone(u)
      BY <1>1
    <2>2. CASE u = s
      <3>1. \A q \in Passes : Active(q, s) => q = p
        BY <1>4, <1>13, <2>1, <2>2 DEF Alone
      <3>2. \A q \in Passes : ~Active(q, s)'
        BY <1>8, <3>1
      <3>3. told[s] >= 1 /\ s \notin unanswered => told[s] = 1 /\ (slot[s].st = "sent" \/ ok = "sent")
        BY <1>4, <1>13, <2>1, <2>2 DEF Alone
      <3>4. told[s] >= 1 /\ s \notin unanswered => told[s] = 1 /\ ends = "sent"
        <4>1. slot[s].st = "open"
          BY <1>4, <1>13, <2>1, <2>2 DEF Alone
        <4> QED  BY <3>3, <4>1 DEF ends
      <3> QED  BY <1>2, <1>6, <2>2, <3>2, <3>4 DEF Alone
    <2>3. CASE u # s
      <3>1. slot'[u] = slot[u]
        BY <1>6, <2>3
      <3> QED  BY <1>2, <1>8, <2>1, <3>1 DEF Alone
    <2> QED  BY <2>2, <2>3
  <1>14. \A u \in Slots : Alone(u)'
    <2>1. ASSUME NEW u \in Slots, u \in taken PROVE Alone(u)'
      BY <1>2, <2>1 DEF Alone
    <2> QED  BY <1>13, <2>1
  <1>15. Silent'
    BY <1>1, <1>2, <1>5, <1>6, <1>8 DEF Silent, Slots
  <1>16. \A u \in Slots : /\ slot'[u].attempts = slot[u].attempts /\ slot'[u].claim \in {0, slot[u].claim}
                          /\ slot'[u].st = "unheard" <=> slot[u].st = "unheard"
    BY <1>4, <1>5, <1>6
  <1>17. Alert!Mail("resolved") \in Slots /\ Alert!Mail("health_recovered") \in Slots /\ \A k \in Kinds : Alert!Mail(k) \in Slots
    BY MailSlot DEF Alert!AllKinds, Alert!Recovery
  <1>18. Noted("resolved", Blocking)' /\ Noted("health_recovered", Health)'
    BY <1>1, <1>2, <1>16, <1>17 DEF Noted, Alert!Raised, Alert!AlertsOK
  <1>19. Unheard'
    BY <1>1, <1>2, <1>16, <1>17 DEF Unheard, Dropped, Alert!Raised, Alert!AlertsOK
  <1> QED  BY <1>9, <1>11, <1>12, <1>14, <1>15, <1>18, <1>19 DEF AlertInv, Slots

\* A pass lays down what it holds, or goes on to what it read of the markers.
LEMMA AlertMoves ==
    ASSUME Alert!AlertsOK, AlertInv, UNCHANGED <<now, raised, slot, told, taken, unanswered>>, crashes' \in 0 .. MaxCrashes,
           NEW p \in Passes, NEW row \in PassRow, pass' = [pass EXCEPT ![p] = row],
           row.pc \notin {"sending", "stamp"}, \A s \in row.todo : s \in pass[p].todo \/ Alert!Raised(s[2])
    PROVE  AlertInv'
  <1>1. AlertTypes /\ Untouched
    BY DEF AlertInv
  <1>2. pass' \in [Passes -> PassRow] /\ \A q \in Passes : pass'[q] = IF q = p THEN row ELSE pass[q]
    BY <1>1 DEF AlertTypes
  <1>3. ASSUME NEW q \in Passes, NEW s \in pass'[q].todo PROVE raised'[s[2]] # Alert!Never
    <2>1. s \in Slots
      BY <1>2 DEF PassRow
    <2> QED  BY <1>1, <1>2, <2>1 DEF Untouched, Alert!Raised
  <1> QED  BY <1>1, <1>2, <1>3, AlertQuiet DEF AlertTypes

LEMMA AlertNext ==
    ASSUME Alert!AlertsOK, AlertInv, [Alert!Next]_(Alert!vars)
    PROVE  AlertInv'
  <1>1. AlertTypes /\ Untouched
    BY DEF AlertInv
  <1>2. /\ \A p \in Passes : pass[p] \in PassRow
        /\ \A p \in Passes : \A s \in pass[p].todo : Alert!Raised(s[2])
        /\ Alert!Never \notin 0 .. MaxTime
    BY <1>1 DEF AlertTypes, Untouched, PassRow, Alert!Never, Alert!AlertsOK
  <1>3. Alert!Resting \in PassRow /\ Alert!Resting.pc = "idle" /\ Alert!Resting.todo = {}
    BY MailSlot DEF PassRow, Alert!Resting, Alert!AllKinds, Alert!Recovery, Alert!AlertsOK
  <1>4. \A c : Alert!Due(c) \subseteq Slots /\ \A s \in Alert!Due(c) : Alert!Raised(s[2])
    BY DEF Alert!Due, Slots
  <1>5. ASSUME UNCHANGED <<raised, slot, pass, told, taken, unanswered>>, now' \in 0 .. MaxTime, crashes' = crashes
        PROVE  AlertInv'
    BY <1>1, <1>2, <1>5, AlertQuiet DEF AlertTypes, Alert!Raised
  <1>6. CASE UNCHANGED Alert!vars
    BY <1>1, <1>5, <1>6 DEF Alert!vars, AlertTypes
  <1>7. CASE Alert!Clock
    BY <1>1, <1>5, <1>7 DEF Alert!Clock, AlertTypes, Alert!AlertsOK
  <1>8. CASE Alert!RunSent
    BY <1>1, <1>5, <1>8 DEF Alert!RunSent, AlertTypes
  <1>9. CASE Alert!HealthBack
    <2>1. CASE Alert!Raised("health_recovered")
      BY <1>1, <1>5, <1>9, <2>1 DEF Alert!HealthBack, Alert!Recovers, AlertTypes
    <2>2. CASE ~Alert!Raised("health_recovered")
      BY <1>1, <1>9, <2>2, RecoverInv DEF Alert!HealthBack, AlertTypes
    <2> QED  BY <2>1, <2>2
  <1>10. ASSUME NEW k \in Kinds, Alert!Raise(k) \/ Alert!HealthFails(k)
         PROVE  AlertInv'
    <2>1. /\ raised' = raised \/ raised' = [raised EXCEPT ![k] = now]
          /\ UNCHANGED <<now, slot, pass, told, taken, unanswered, crashes>>
      BY <1>10 DEF Alert!Raise, Alert!HealthFails
    <2>2. k \in Alert!AllKinds /\ now \in 0 .. MaxTime
      BY <1>1 DEF Alert!AllKinds, AlertTypes
    <2>3. /\ raised' \in [Alert!AllKinds -> 0 .. MaxTime \cup {Alert!Never}]
          /\ \A j \in Alert!AllKinds : raised'[j] = raised[j] \/ (j \in Kinds /\ raised'[j] # Alert!Never)
      BY <1>1, <1>2, <2>1, <2>2 DEF AlertTypes
    <2>4. ASSUME NEW p \in Passes, NEW s \in pass'[p].todo PROVE raised'[s[2]] # Alert!Never
      <3>1. s \in Slots /\ raised[s[2]] # Alert!Never
        BY <1>2, <2>1 DEF PassRow, Alert!Raised
      <3> QED  BY <2>3, <3>1, SlotKind
    <2> QED  BY <1>1, <2>1, <2>3, <2>4, AlertQuiet DEF AlertTypes
  <1>11. ASSUME NEW p \in Passes, Alert!Begin(p)
         PROVE  AlertInv'
    <2>1. PICK c \in {"resolve", "next"} :
            pass' = [pass EXCEPT ![p] = [Alert!Resting EXCEPT !.pc = c, !.t0 = now, !.todo = Alert!Due("mail")]]
      BY <1>11 DEF Alert!Begin
    <2> DEFINE row == [Alert!Resting EXCEPT !.pc = c, !.t0 = now, !.todo = Alert!Due("mail")]
    <2>2. row \in PassRow /\ row.pc = c /\ row.todo = Alert!Due("mail")
      BY <1>1, <1>3, <1>4 DEF PassRow, Alert!Resting, AlertTypes
    <2>3. pass' = [pass EXCEPT ![p] = row] /\ UNCHANGED <<now, raised, slot, told, taken, unanswered, crashes>>
      BY <1>11, <2>1 DEF Alert!Begin
    <2> HIDE DEF row
    <2>4. row.pc \notin {"sending", "stamp"} /\ crashes' \in 0 .. MaxCrashes
      BY <1>1, <2>2, <2>3 DEF AlertTypes
    <2>5. \A s \in row.todo : Alert!Raised(s[2])
      BY <1>4, <2>2
    <2> QED  BY <2>2, <2>3, <2>4, <2>5, AlertMoves
  <1>12. ASSUME NEW p \in Passes, Alert!Resolve(p)
         PROVE  AlertInv'
    <2>1. /\ pass[p].pc = "resolve" /\ pass' = [pass EXCEPT ![p].pc = "read"]
          /\ UNCHANGED <<now, told, taken, unanswered, crashes>>
      BY <1>12 DEF Alert!Resolve, Alert!In
    <2> DEFINE row == [pass[p] EXCEPT !.pc = "read"]
    <2>2. row \in PassRow /\ row.pc = "read" /\ row.todo = pass[p].todo /\ pass' = [pass EXCEPT ![p] = row]
      BY <1>1, <1>2, <2>1 DEF PassRow, AlertTypes
    <2> HIDE DEF row
    <2>3. CASE Alert!Raised("resolved")
      <3>1. UNCHANGED <<raised, slot>>
        BY <1>12, <2>3 DEF Alert!Resolve, Alert!Recovers
      <3> QED  BY <1>1, <2>1, <2>2, <3>1, AlertMoves DEF AlertTypes
    <2>4. CASE ~Alert!Raised("resolved")
      <3>1. Alert!Recovers("resolved", Blocking)
        BY <1>12 DEF Alert!Resolve
      <3>2. /\ pass' \in [Passes -> PassRow] /\ \A q \in Passes : pass'[q].todo \subseteq pass[q].todo
            /\ \A q \in Passes : pass'[q].pc \in {"sending", "stamp"} => pass'[q] = pass[q]
        BY <1>1, <2>2 DEF AlertTypes
      <3> QED  BY <2>1, <2>4, <3>1, <3>2, RecoverInv
    <2> QED  BY <2>3, <2>4
  <1>13. ASSUME NEW p \in Passes, Alert!Read(p)
         PROVE  AlertInv'
    <2>1. PICK row \in {[pass[p] EXCEPT !.pc = "next", !.todo = Alert!Due("mail")], Alert!Resting,
                        [pass[p] EXCEPT !.pc = "last", !.todo = Alert!Due("push")]} : pass' = [pass EXCEPT ![p] = row]
      BY <1>1, <1>13 DEF Alert!Read, AlertTypes
    <2>2. row \in PassRow /\ row.pc \in {"next", "idle", "last"} /\ \A s \in row.todo : Alert!Raised(s[2])
      <3>1. ASSUME NEW c \in {"next", "last"}, NEW d, row = [pass[p] EXCEPT !.pc = c, !.todo = Alert!Due(d)]
            PROVE  row \in PassRow /\ row.pc = c /\ row.todo = Alert!Due(d)
        BY <1>2, <1>4, <3>1 DEF PassRow
      <3>2. CASE row = Alert!Resting
        BY <1>3, <3>2
      <3>3. CASE row = [pass[p] EXCEPT !.pc = "next", !.todo = Alert!Due("mail")]
        <4>1. row \in PassRow /\ row.pc = "next" /\ row.todo = Alert!Due("mail")
          BY <3>1, <3>3
        <4> QED  BY <1>4, <4>1
      <3>4. CASE row = [pass[p] EXCEPT !.pc = "last", !.todo = Alert!Due("push")]
        <4>1. row \in PassRow /\ row.pc = "last" /\ row.todo = Alert!Due("push")
          BY <3>1, <3>4
        <4> QED  BY <1>4, <4>1
      <3> QED  BY <2>1, <3>2, <3>3, <3>4
    <2>3. UNCHANGED <<now, raised, slot, told, taken, unanswered, crashes>>
      BY <1>13 DEF Alert!Read
    <2> QED  BY <1>1, <2>1, <2>2, <2>3, AlertMoves DEF AlertTypes
  <1>14. ASSUME NEW p \in Passes, Alert!Send(p)
         PROVE  AlertInv'
    BY <1>2, <1>14, SendInv DEF PassRow
  <1>15. ASSUME NEW p \in Passes, Alert!Stamp(p)
         PROVE  AlertInv'
    <2>1. pass[p].slot \in Slots
      BY <1>2 DEF PassRow
    <2>2. CASE Alert!Own(p)
      BY <1>15, <2>1, <2>2, StampInv
    <2>3. CASE ~Alert!Own(p)
      <3> DEFINE row == [Alert!Resting EXCEPT !.pc = IF pass[p].slot[1] = "mail" THEN "next" ELSE "last",
                                              !.t0 = pass[p].t0, !.todo = pass[p].todo]
      <3>1. row \in PassRow /\ row.pc \in {"next", "last"} /\ row.todo = pass[p].todo
        BY <1>2, <1>3 DEF PassRow, Alert!Resting
      <3>2. pass' = [pass EXCEPT ![p] = row] /\ UNCHANGED <<now, raised, slot, told, taken, unanswered, crashes>>
        BY <1>15, <2>3 DEF Alert!Stamp
      <3> HIDE DEF row
      <3> QED  BY <1>1, <3>1, <3>2, AlertMoves DEF AlertTypes
    <2> QED  BY <2>2, <2>3
  <1>16. ASSUME NEW p \in Passes, Alert!Ends(p) \/ Alert!Crash(p)
         PROVE  AlertInv'
    <2>1. /\ pass' = [pass EXCEPT ![p] = Alert!Resting] /\ UNCHANGED <<now, raised, slot, told, taken, unanswered>>
          /\ crashes' \in 0 .. MaxCrashes
      BY <1>1, <1>16 DEF Alert!Ends, Alert!Crash, AlertTypes, Alert!AlertsOK
    <2> QED  BY <1>3, <2>1, AlertMoves
  <1>17. ASSUME NEW p \in Passes, NEW s \in Slots, Alert!Claim(p, s)
         PROVE  AlertInv'
    <2>1. pass[p].pc \in {"next", "last"} /\ s \in pass[p].todo
      BY <1>17 DEF Alert!Claim, Alert!In
    <2>2. CASE Alert!Claimable(s, pass[p].t0)
      BY <1>17, <2>1, <2>2, ClaimInv
    <2>3. CASE ~Alert!Claimable(s, pass[p].t0)
      <3> DEFINE row == [pass[p] EXCEPT !.todo = @ \ {s}, !.slot = s]
      <3>1. row \in PassRow /\ row.pc \in {"next", "last"} /\ row.todo \subseteq pass[p].todo /\ row.t0 = pass[p].t0
        BY <1>2, <2>1 DEF PassRow
      <3>2. pass' = [pass EXCEPT ![p] = row] /\ UNCHANGED <<now, raised, slot, told, taken, unanswered, crashes>>
        BY <1>17, <2>3, <3>1 DEF Alert!Claim
      <3> HIDE DEF row
      <3> QED  BY <1>1, <2>1, <3>1, <3>2, AlertMoves DEF AlertTypes
    <2> QED  BY <2>2, <2>3
  <1> QED  BY <1>6, <1>7, <1>8, <1>9, <1>10, <1>11, <1>12, <1>13, <1>14, <1>15, <1>16, <1>17 DEF Alert!Next, Slots

\* The invariant holds of every behaviour of the alert passes.
THEOREM AlertInvariance == ASSUME Alert!AlertsOK PROVE Alert!Spec => []AlertInv
  <1>1. AlertInv /\ [Alert!Next]_(Alert!vars) => AlertInv'
    BY AlertNext
  <1> QED  BY AlertInit, <1>1, PTL DEF Alert!Spec

\* runAlerts.ts, alerts.ts: markers, claims and passes only ever hold values of their kind, for any number of
\* containers, kinds and attempts.
THEOREM AlertTypeCorrect == ASSUME Alert!AlertsOK PROVE Alert!Spec => []Alert!TypeOK
  <1>1. AlertInv => Alert!TypeOK
    BY DEF AlertInv, AlertTypes, SlotRow, PassRow, Alert!TypeOK, Slots, Alert!AlertsOK
  <1> QED  BY AlertInvariance, <1>1, PTL

\* alerts.ts: nobody is told of a problem more often than it is attempted, and only once unless a claim on it was
\* taken over from a container that fell silent or the answer of a call that told somebody was lost.
THEOREM AlertToldFewTimes == ASSUME Alert!AlertsOK PROVE Alert!Spec => []Alert!ToldFewTimes
  <1>1. ASSUME AlertInv, NEW s \in Slots PROVE told[s] <= MaxAttempts /\ (told[s] > 1 => s \in taken \cup unanswered)
    <2>1. /\ told[s] + Cardinality(Sending(s)) <= slot[s].attempts /\ told[s] \in Nat
          /\ slot[s].attempts \in 0 .. MaxAttempts /\ Alone(s)
      BY <1>1 DEF AlertInv, Bounded, AlertTypes, SlotRow
    <2>2. Cardinality(Sending(s)) \in Nat
      BY FewPasses, FS_Subset, FS_CardinalityType DEF Sending
    <2> QED  BY <2>1, <2>2 DEF Alone, Alert!AlertsOK
  <1>2. AlertInv => Alert!ToldFewTimes
    BY <1>1 DEF Alert!ToldFewTimes, Slots
  <1> QED  BY AlertInvariance, <1>2, PTL

\* alerts.ts, finishKind and finishPush: a marker stamped as sent was sent, whichever container stamps it.
THEOREM AlertStampTrue == ASSUME Alert!AlertsOK PROVE Alert!Spec => []Alert!StampTrue
  <1>1. AlertInv => Alert!StampTrue
    BY DEF AlertInv, Bounded, Alert!StampTrue, Slots
  <1> QED  BY AlertInvariance, <1>1, PTL

\* runAlerts.ts, addRecoveryMarker: a run marked resolved without a note never had a problem mailed, nor will it,
\* unless a claim was taken over or the answer of the call that mailed it was lost.
THEOREM AlertRecoveryHeard == ASSUME Alert!AlertsOK PROVE Alert!Spec => []Alert!RecoveryHeard
  <1>1. AlertInv => Alert!RecoveryHeard
    BY DEF AlertInv, Unheard, Dropped, Alert!RecoveryHeard
  <1> QED  BY AlertInvariance, <1>1, PTL

\* runAlerts.ts: a recovery note reaches people only after somebody tried to mail the problem it closes.
THEOREM AlertNoteAfterProblem == ASSUME Alert!AlertsOK PROVE Alert!Spec => []Alert!NoteAfterProblem
  <1>1. ASSUME AlertInv, NEW j \in Alert!Recovery, NEW Q, Noted(j, Q), told[Alert!Mail(j)] > 0
        PROVE  \E b \in Q : slot[Alert!Mail(b)].attempts > 0
    <2>1. Alert!Mail(j) \in Slots /\ Alert!Mail(j)[2] = j
      BY MailSlot DEF Alert!AllKinds
    <2>2. Alert!Raised(j) /\ slot[Alert!Mail(j)].st # "unheard"
      BY <1>1, <2>1 DEF AlertInv, Untouched, Silent
    <2> QED  BY <1>1, <2>2 DEF Noted
  <1>2. AlertInv => Alert!NoteAfterProblem
    BY <1>1 DEF AlertInv, Alert!NoteAfterProblem, Alert!Recovery
  <1> QED  BY AlertInvariance, <1>2, PTL

\* alerts.ts: a problem is told about once, and whoever was told of it is told of its end, unless a pass was taken for
\* dead or an answer was lost; what is marked as sent was sent.
THEOREM AlertsAreTold == ASSUME Alert!AlertsOK PROVE Alert!Spec => []Alert!AlertsTold
  BY AlertToldFewTimes, AlertStampTrue, AlertRecoveryHeard, AlertNoteAfterProblem, PTL DEF Alert!AlertsTold

-----------------------------------------------------------------------------
(* A reader's browser                                                      *)

CONSTANTS Tabs, Topics, None, MaxEndpoints
VARIABLES variant, realScroll, permission, push, made, dead, rows, dismissed, stored, tab, worker, unposted

Browser == INSTANCE Subscriber

BrowserTypes ==
    /\ variant \in {"v1", "v2"} /\ realScroll \in BOOLEAN /\ permission \in {"default", "granted", "denied"}
    /\ made \in 0 .. MaxEndpoints /\ dead \subseteq 1 .. made
    /\ push \in 1 .. made \cup {Browser!Theirs, None} /\ push \notin dead
    /\ rows \in [Browser!Endpoints -> Browser!Row] /\ dismissed \in BOOLEAN /\ stored \in Topics \cup {None}
    /\ tab \in [Tabs -> Browser!Tab] /\ worker \in 1 .. made \cup {None} /\ unposted \subseteq 1 .. made

\* A tab that posts has one of our subscriptions in hand; the former vendor's is gone by then.
Posting(t) == tab[t].pc = "post"
InHand == \A t \in Tabs : Posting(t) => tab[t].ep \in 1 .. made /\ push # Browser!Theirs

BrowserInv == BrowserTypes /\ InHand /\ Browser!Known

\* Pages come and go, ask and are answered: nothing is subscribed or posted.
LEMMA BrowserQuiet ==
    ASSUME BrowserInv, UNCHANGED <<variant, realScroll, push, made, dead, rows, worker, unposted>>,
           permission' \in {"default", "granted", "denied"}, dismissed' \in BOOLEAN, stored' \in Topics \cup {None},
           tab' \in [Tabs -> Browser!Tab],
           \A t \in Tabs : IF Posting(t) THEN tab'[t] = tab[t] ELSE tab'[t].pc # "post"
    PROVE  BrowserInv'
  <1>1. BrowserTypes'
    BY DEF BrowserInv, BrowserTypes
  <1>2. \A t \in Tabs : Posting(t)' <=> Posting(t)
    BY DEF Posting
  <1>3. InHand'
    BY <1>2 DEF BrowserInv, InHand, Posting
  <1>4. Browser!Known'
    BY DEF BrowserInv, Browser!Known, Browser!Does, Posting
  <1> QED  BY <1>1, <1>3, <1>4 DEF BrowserInv

\* A tab that goes on, and does not begin to post.
LEMMA TabGoes ==
    ASSUME Browser!SubscriberOK, BrowserTypes, NEW t \in Tabs, ~Posting(t), NEW row \in Browser!Tab, row.pc # "post",
           tab' = [tab EXCEPT ![t] = row]
    PROVE  /\ tab' \in [Tabs -> Browser!Tab]
           /\ \A u \in Tabs : IF Posting(u) THEN tab'[u] = tab[u] ELSE tab'[u].pc # "post"
  BY DEF BrowserTypes, Posting

\* A POST of e arrives or is lost.
LEMMA PostOf ==
    ASSUME Browser!SubscriberOK, BrowserTypes, NEW e \in 1 .. made, NEW topics \in Topics \cup {None},
           \/ Browser!Upsert(e, topics) /\ unposted' = unposted \ {e}
           \/ UNCHANGED rows /\ unposted' = unposted \cup {e}
    PROVE  /\ rows' \in [Browser!Endpoints -> Browser!Row] /\ unposted' \subseteq 1 .. made
           /\ rows'[e].status = "ACTIVE" \/ e \in unposted'
           /\ \A d \in Browser!Endpoints : d # e => rows'[d] = rows[d] /\ (d \in unposted => d \in unposted')
  <1>1. e \in Browser!Endpoints /\ rows \in [Browser!Endpoints -> Browser!Row] /\ unposted \subseteq 1 .. made
    BY DEF BrowserTypes, Browser!Endpoints, Browser!SubscriberOK
  <1>2. CASE Browser!Upsert(e, topics) /\ unposted' = unposted \ {e}
    <2> DEFINE row == [status |-> Browser!Revived(rows[e]),
                       topics |-> IF topics # None THEN topics
                                  ELSE IF rows[e].topics # None THEN rows[e].topics ELSE "all"]
    <2>1. rows' = [rows EXCEPT ![e] = row]
      BY <1>2 DEF Browser!Upsert
    <2>2. row \in Browser!Row /\ row.status = "ACTIVE"
      BY <1>1 DEF Browser!Row, Browser!Revived, Browser!SubscriberOK
    <2> HIDE DEF row
    <2> QED  BY <1>1, <1>2, <2>1, <2>2
  <1>3. CASE UNCHANGED rows /\ unposted' = unposted \cup {e}
    BY <1>1, <1>3
  <1> QED  BY <1>2, <1>3

LEMMA BrowserInit == ASSUME Browser!SubscriberOK PROVE Browser!Init => BrowserInv
  <1> SUFFICES ASSUME Browser!Init PROVE BrowserInv
    OBVIOUS
  <1>1. \A t \in Tabs : tab[t] = Browser!Done
    BY DEF Browser!Init
  <1>2. Browser!Done \in Browser!Tab /\ Browser!Done.pc = "done"
    BY DEF Browser!Done, Browser!Tab
  <1>3. made = 0 /\ dead = {} /\ push \in {Browser!Theirs, None} /\ 1 .. made = {}
    BY DEF Browser!Init
  <1>4. rows \in [Browser!Endpoints -> Browser!Row]
    BY DEF Browser!Init, Browser!Row
  <1>5. tab \in [Tabs -> Browser!Tab]
    BY <1>2 DEF Browser!Init
  <1>6. BrowserTypes
    <2>1. variant \in {"v1", "v2"} /\ realScroll \in BOOLEAN /\ permission \in {"default", "granted", "denied"}
      BY DEF Browser!Init
    <2>2. dismissed \in BOOLEAN /\ stored \in Topics \cup {None} /\ worker = None /\ unposted = {}
      BY DEF Browser!Init
    <2>3. made \in 0 .. MaxEndpoints
      BY <1>3 DEF Browser!SubscriberOK
    <2> QED  BY <1>3, <1>4, <1>5, <2>1, <2>2, <2>3 DEF BrowserTypes
  <1>7. InHand
    BY <1>1, <1>2 DEF InHand, Posting
  <1>8. push \notin Browser!Endpoints
    BY <1>3 DEF Browser!Endpoints, Browser!Theirs, Browser!SubscriberOK
  <1> QED  BY <1>6, <1>7, <1>8 DEF BrowserInv, Browser!Known

LEMMA BrowserNext ==
    ASSUME Browser!SubscriberOK, BrowserInv, [Browser!Next]_(Browser!vars)
    PROVE  BrowserInv'
  <1>1. BrowserTypes /\ InHand /\ Browser!Known
    BY DEF BrowserInv
  <1>2. /\ MaxEndpoints \in Nat /\ None \notin Nat /\ made \in Nat /\ made <= MaxEndpoints
        /\ permission \in {"default", "granted", "denied"} /\ dismissed \in BOOLEAN /\ stored \in Topics \cup {None}
    BY <1>1 DEF Browser!SubscriberOK, BrowserTypes
  <1>3. None \notin Browser!Endpoints /\ Browser!Theirs \notin Browser!Endpoints /\ 1 .. made \subseteq Browser!Endpoints
    BY <1>2 DEF Browser!Endpoints, Browser!Theirs
  <1>4. CASE UNCHANGED Browser!vars
    <2>1. tab \in [Tabs -> Browser!Tab] /\ \A t \in Tabs : IF Posting(t) THEN tab'[t] = tab[t] ELSE tab'[t].pc # "post"
      BY <1>1, <1>4 DEF BrowserTypes, Posting, Browser!vars
    <2> QED  BY <1>2, <1>4, <2>1, BrowserQuiet DEF Browser!vars
  <1>5. CASE Browser!WeekPasses
    <2>1. tab \in [Tabs -> Browser!Tab] /\ \A t \in Tabs : IF Posting(t) THEN tab'[t] = tab[t] ELSE tab'[t].pc # "post"
      BY <1>1, <1>5 DEF BrowserTypes, Posting, Browser!WeekPasses
    <2> QED  BY <1>2, <1>5, <2>1, BrowserQuiet DEF Browser!WeekPasses
  <1>6. ASSUME NEW t \in Tabs, Browser!Load(t) \/ Browser!Trigger(t) \/ Browser!Seen(t)
        PROVE  BrowserInv'
    <2>1. /\ tab[t].pc \in {"done", "armed"} /\ tab[t] \in Browser!Tab
          /\ UNCHANGED <<variant, realScroll, permission, push, made, dead, rows, dismissed, stored, worker, unposted>>
      BY <1>1, <1>6 DEF Browser!Load, Browser!Trigger, Browser!Seen, Browser!Does, BrowserTypes
    <2>2. PICK row \in Browser!Tab : row.pc # "post" /\ tab' = [tab EXCEPT ![t] = row]
      <3>1. CASE Browser!Load(t)
        <4>1. PICK pc \in {"look", "armed", "done"}, v \in BOOLEAN :
                tab' = [tab EXCEPT ![t] = [Browser!Done EXCEPT !.visible = v, !.pc = pc]]
          BY <1>1, <3>1 DEF Browser!Load, BrowserTypes
        <4> DEFINE row == [Browser!Done EXCEPT !.visible = v, !.pc = pc]
        <4>2. row \in Browser!Tab /\ row.pc # "post"
          BY DEF Browser!Done, Browser!Tab, Browser!Busy
        <4> QED  BY <4>1, <4>2
      <3>2. CASE Browser!Trigger(t) \/ Browser!Seen(t)
        <4>1. PICK v \in BOOLEAN, w \in BOOLEAN, pc \in {"armed", "shown"} :
                tab' = [tab EXCEPT ![t] = [tab[t] EXCEPT !.visible = v, !.waiting = w, !.pc = pc]]
          <5>1. tab[t].pc = "armed" /\ tab[t].visible \in BOOLEAN /\ tab[t].waiting \in BOOLEAN
            BY <2>1, <3>2 DEF Browser!Trigger, Browser!Seen, Browser!Does, Browser!Tab
          <5>2. ASSUME NEW v \in BOOLEAN
                PROVE  \E u \in BOOLEAN, w \in BOOLEAN, pc \in {"armed", "shown"} :
                          Browser!MaybeShow(t, v) = [tab[t] EXCEPT !.visible = u, !.waiting = w, !.pc = pc]
            <6>1. /\ [tab[t] EXCEPT !.visible = v, !.waiting = FALSE]
                        = [tab[t] EXCEPT !.visible = v, !.waiting = FALSE, !.pc = "armed"]
                  /\ [tab[t] EXCEPT !.waiting = TRUE]
                        = [tab[t] EXCEPT !.visible = tab[t].visible, !.waiting = TRUE, !.pc = "armed"]
              BY <2>1, <5>1 DEF Browser!Tab
            <6> QED  BY <5>1, <6>1 DEF Browser!MaybeShow
          <5>3. [tab[t] EXCEPT !.visible = TRUE]
                   = [tab[t] EXCEPT !.visible = TRUE, !.waiting = tab[t].waiting, !.pc = "armed"]
            BY <2>1, <5>1 DEF Browser!Tab
          <5>4. \/ \E v \in BOOLEAN : tab' = [tab EXCEPT ![t] = Browser!MaybeShow(t, v)]
                \/ tab' = [tab EXCEPT ![t] = [tab[t] EXCEPT !.visible = TRUE]]
            BY <1>1, <3>2, <5>1 DEF Browser!Trigger, Browser!Seen, BrowserTypes
          <5> QED  BY <5>1, <5>2, <5>3, <5>4
        <4> DEFINE row == [tab[t] EXCEPT !.visible = v, !.waiting = w, !.pc = pc]
        <4>2. row \in Browser!Tab /\ row.pc # "post"
          BY <2>1 DEF Browser!Tab, Browser!Busy
        <4> QED  BY <4>1, <4>2
      <3> QED  BY <1>6, <3>1, <3>2
    <2>3. ~Posting(t)
      BY <2>1 DEF Posting
    <2> QED  BY <1>1, <1>2, <2>1, <2>2, <2>3, BrowserQuiet, TabGoes
  <1>7. ASSUME NEW t \in Tabs, Browser!Dismiss(t) \/ Browser!Allow(t) \/ Browser!Answer(t) \/ Browser!Look(t)
        PROVE  BrowserInv'
    <2>1. tab[t].pc \in {"shown", "asking", "look"} /\ tab[t] \in Browser!Tab
      BY <1>1, <1>7 DEF Browser!Dismiss, Browser!Allow, Browser!Answer, Browser!Look, Browser!Does, BrowserTypes
    <2>2. /\ UNCHANGED <<variant, realScroll, push, made, dead, rows, worker, unposted>>
          /\ permission' \in {"default", "granted", "denied"} /\ dismissed' \in BOOLEAN /\ stored' \in Topics \cup {None}
      BY <1>2, <1>7 DEF Browser!Dismiss, Browser!Allow, Browser!Answer, Browser!Look, Browser!SubscriberOK
    <2>3. PICK row \in Browser!Tab : row.pc # "post" /\ tab' = [tab EXCEPT ![t] = row]
      <3>1. ASSUME NEW pc \in {"done", "asking", "look", "subscribe", "drop"}, Browser!Goes(t, pc)
            PROVE  \E row \in Browser!Tab : row.pc # "post" /\ tab' = [tab EXCEPT ![t] = row]
        <4>1. CASE pc = "done"
          <5>1. Browser!Done \in Browser!Tab /\ Browser!Done.pc = "done"
            BY DEF Browser!Done, Browser!Tab
          <5> QED  BY <3>1, <4>1, <5>1 DEF Browser!Goes
        <4>2. CASE pc # "done"
          <5> DEFINE row == [tab[t] EXCEPT !.pc = pc]
          <5>1. row \in Browser!Tab /\ row.pc = pc
            BY <2>1, <3>1 DEF Browser!Tab, Browser!Busy
          <5>2. tab' = [tab EXCEPT ![t] = row]
            BY <1>1, <3>1, <4>2 DEF Browser!Goes, BrowserTypes
          <5> HIDE DEF row
          <5> QED  BY <3>1, <5>1, <5>2
        <4> QED  BY <4>1, <4>2
      <3>2. CASE Browser!Allow(t)
        <4>1. PICK c \in Topics : tab' = [tab EXCEPT ![t].pc = "asking", ![t].topics = c]
          BY <3>2 DEF Browser!Allow, Browser!SubscriberOK
        <4> DEFINE row == [tab[t] EXCEPT !.pc = "asking", !.topics = c]
        <4>2. row \in Browser!Tab /\ row.pc # "post" /\ tab' = [tab EXCEPT ![t] = row]
          BY <1>1, <2>1, <4>1 DEF Browser!Tab, Browser!Busy, BrowserTypes
        <4> QED  BY <4>2
      <3>3. CASE Browser!Dismiss(t) \/ Browser!Answer(t) \/ Browser!Look(t)
        <4>1. \E pc \in {"done", "asking", "look", "subscribe", "drop"} : Browser!Goes(t, pc)
          BY <3>3 DEF Browser!Dismiss, Browser!Answer, Browser!Look
        <4> QED  BY <3>1, <4>1
      <3> QED  BY <1>7, <3>2, <3>3
    <2>4. ~Posting(t)
      BY <2>1 DEF Posting
    <2> QED  BY <1>1, <2>2, <2>3, <2>4, BrowserQuiet, TabGoes
  \* The browser's subscription ends.
  <1>8. ASSUME NEW t \in Tabs, Browser!Drop(t)
        PROVE  BrowserInv'
    <2> DEFINE row == [tab[t] EXCEPT !.pc = "subscribe"]
    <2>1. /\ tab[t].pc = "drop" /\ push' = None /\ tab' = [tab EXCEPT ![t] = row] /\ dead' = dead \cup ({push} \cap Browser!Endpoints)
          /\ UNCHANGED <<variant, realScroll, permission, made, rows, dismissed, stored, worker, unposted>>
      BY <1>1, <1>8 DEF Browser!Drop, Browser!Does, Browser!Goes, BrowserTypes
    <2>2. row \in Browser!Tab /\ row.pc # "post"
      BY <1>1 DEF BrowserTypes, Browser!Tab, Browser!Busy
    <2> HIDE DEF row
    <2>3. /\ tab' \in [Tabs -> Browser!Tab]
          /\ \A u \in Tabs : IF Posting(u) THEN tab'[u] = tab[u] ELSE tab'[u].pc # "post"
      BY <1>1, <2>1, <2>2, TabGoes DEF Posting
    <2>4. dead' \subseteq 1 .. made /\ None \notin dead'
      BY <1>1, <1>2, <1>3, <2>1 DEF BrowserTypes
    <2>5. BrowserTypes'
      BY <1>1, <2>1, <2>3, <2>4 DEF BrowserTypes
    <2>6. InHand'
      BY <1>1, <1>2, <2>1, <2>3 DEF InHand, Posting, Browser!Theirs
    <2> QED  BY <1>3, <2>1, <2>5, <2>6 DEF BrowserInv, Browser!Known, Browser!Endpoints
  <1>9. CASE Browser!PushDies
    <2>1. /\ push \in Browser!Endpoints /\ push' = None /\ dead' = dead \cup {push}
          /\ UNCHANGED <<variant, realScroll, permission, made, rows, dismissed, stored, tab, worker, unposted>>
      BY <1>9 DEF Browser!PushDies
    <2>2. push \in 1 .. made
      BY <1>1, <1>3, <2>1 DEF BrowserTypes
    <2>5. dead' \subseteq 1 .. made /\ None \notin dead'
      BY <1>1, <1>2, <1>3, <2>1, <2>2 DEF BrowserTypes
    <2>3. BrowserTypes'
      BY <1>1, <2>1, <2>5 DEF BrowserTypes
    <2>4. InHand'
      BY <1>1, <1>2, <2>1 DEF InHand, Posting, Browser!Theirs
    <2> QED  BY <1>3, <2>1, <2>3, <2>4 DEF BrowserInv, Browser!Known, Browser!Endpoints
  <1>10. ASSUME NEW t \in Tabs, Browser!Subscribe(t)
         PROVE  BrowserInv'
    <2> DEFINE e == Browser!NewPush
               c == IF tab[t].topics # None THEN tab[t].topics ELSE IF stored # None THEN stored ELSE "all"
               row == [tab[t] EXCEPT !.pc = "post", !.ep = e, !.topics = c]
    <2>1. /\ tab[t].pc = "subscribe" /\ push # Browser!Theirs /\ e \in Browser!Endpoints /\ push' = e
          /\ made' = IF push = e THEN made ELSE made + 1
          /\ tab' = [tab EXCEPT ![t].pc = "post", ![t].ep = e, ![t].topics = c]
          /\ UNCHANGED <<variant, realScroll, permission, dead, rows, dismissed, stored, worker, unposted>>
      BY <1>1, <1>10 DEF Browser!Subscribe, Browser!Does, BrowserTypes
    <2>2. /\ made' \in Nat /\ made <= made' /\ made' <= MaxEndpoints /\ e \in 1 .. made' /\ e \notin dead
          /\ 1 .. made \subseteq 1 .. made'
      <3>1. CASE push \in Browser!Endpoints
        BY <1>1, <1>2, <1>3, <2>1, <3>1 DEF Browser!NewPush, BrowserTypes
      <3>2. CASE push \notin Browser!Endpoints
        BY <1>1, <1>2, <2>1, <3>2 DEF Browser!NewPush, BrowserTypes, Browser!Endpoints
      <3> QED  BY <3>1, <3>2
    <2>3. c \in Topics /\ tab[t] \in Browser!Tab
      BY <1>1, <1>2 DEF BrowserTypes, Browser!Tab, Browser!SubscriberOK
    <2> HIDE DEF e, c
    <2>4. row \in Browser!Tab /\ row.pc = "post" /\ row.ep = e /\ tab' = [tab EXCEPT ![t] = row]
      BY <1>1, <2>1, <2>3 DEF BrowserTypes, Browser!Tab, Browser!Busy
    <2> HIDE DEF row
    <2>5. tab' \in [Tabs -> Browser!Tab] /\ tab'[t] = row /\ \A u \in Tabs : u # t => tab'[u] = tab[u]
      BY <1>1, <2>4 DEF BrowserTypes
    <2>6. BrowserTypes'
      BY <1>1, <2>1, <2>2, <2>5 DEF BrowserTypes
    <2>7. e # Browser!Theirs
      BY <1>3, <2>1
    <2>8. InHand'
      BY <1>1, <2>1, <2>2, <2>4, <2>5, <2>7 DEF InHand, Posting
    <2>9. Browser!Known'
      BY <2>1, <2>4, <2>5 DEF Browser!Known, Browser!Does
    <2> QED  BY <2>6, <2>8, <2>9 DEF BrowserInv
  \* A tab or the worker posts, or is left while it does.
  <1>11. ASSUME NEW t \in Tabs, Browser!Post(t) \/ Browser!Leave(t)
         PROVE  BrowserInv'
    <2>1. /\ tab' = [tab EXCEPT ![t] = Browser!Done]
          /\ UNCHANGED <<variant, realScroll, permission, push, made, dead, dismissed, stored, worker>>
      BY <1>11 DEF Browser!Post, Browser!Leave, Browser!Goes
    <2>2. Browser!Done \in Browser!Tab /\ Browser!Done.pc = "done"
      BY DEF Browser!Done, Browser!Tab
    <2>3. tab' \in [Tabs -> Browser!Tab] /\ ~Posting(t)' /\ \A u \in Tabs : u # t => tab'[u] = tab[u]
      BY <1>1, <2>1, <2>2 DEF BrowserTypes, Posting
    <2>4. CASE ~Posting(t)
      <3>1. UNCHANGED <<rows, unposted>>
        BY <1>11, <2>4 DEF Browser!Post, Browser!Leave, Browser!Does, Posting
      <3>2. \A u \in Tabs : IF Posting(u) THEN tab'[u] = tab[u] ELSE tab'[u].pc # "post"
        BY <2>3, <2>4 DEF Posting
      <3> QED  BY <1>2, <2>1, <2>3, <3>1, <3>2, BrowserQuiet
    <2>5. CASE Posting(t)
      <3> DEFINE e == tab[t].ep
                 topics == tab[t].topics
      <3>1. e \in 1 .. made /\ topics \in Topics \cup {None} /\ push # Browser!Theirs
        BY <1>1, <2>5 DEF InHand, BrowserTypes, Browser!Tab
      <3>2. \/ Browser!Upsert(e, topics) /\ unposted' = unposted \ {e}
            \/ UNCHANGED rows /\ unposted' = unposted \cup {e}
        BY <1>11, <2>5 DEF Browser!Post, Browser!Leave, Browser!Does, Posting
      <3>3. /\ rows' \in [Browser!Endpoints -> Browser!Row] /\ unposted' \subseteq 1 .. made
            /\ rows'[e].status = "ACTIVE" \/ e \in unposted'
            /\ \A d \in Browser!Endpoints : d # e => rows'[d] = rows[d] /\ (d \in unposted => d \in unposted')
        <4> HIDE DEF e, topics
        <4> QED  BY <1>1, <3>1, <3>2, PostOf
      <3>4. BrowserTypes'
        BY <1>1, <2>1, <2>3, <3>3 DEF BrowserTypes
      <3>5. InHand'
        BY <1>1, <2>1, <2>3 DEF InHand, Posting
      <3>6. Browser!Known'
        <4> SUFFICES ASSUME push \in Browser!Endpoints, push # e
                     PROVE  \/ rows'[push].status = "ACTIVE" \/ push \in unposted' \/ worker = push
                            \/ \E u \in Tabs : tab'[u].pc = "post" /\ tab'[u].ep = push
          BY <2>1, <3>3 DEF Browser!Known, Browser!Does
        <4>1. \A u \in Tabs : tab[u].pc = "post" /\ tab[u].ep = push => tab'[u] = tab[u]
          BY <2>3
        <4> QED  BY <1>1, <3>3, <4>1 DEF Browser!Known, Browser!Does
      <3> QED  BY <3>4, <3>5, <3>6 DEF BrowserInv
    <2> QED  BY <2>4, <2>5
  <1>12. CASE Browser!WorkerPosts
    <2>1. /\ worker # None /\ worker' = None
          /\ UNCHANGED <<variant, realScroll, permission, push, made, dead, dismissed, stored, tab>>
          /\ \/ Browser!Upsert(worker, None) /\ unposted' = unposted \ {worker}
             \/ UNCHANGED rows /\ unposted' = unposted \cup {worker}
      BY <1>12 DEF Browser!WorkerPosts
    <2>2. worker \in 1 .. made
      BY <1>1, <2>1 DEF BrowserTypes
    <2>3. /\ rows' \in [Browser!Endpoints -> Browser!Row] /\ unposted' \subseteq 1 .. made
          /\ rows'[worker].status = "ACTIVE" \/ worker \in unposted'
          /\ \A d \in Browser!Endpoints : d # worker => rows'[d] = rows[d] /\ (d \in unposted => d \in unposted')
      BY <1>1, <2>1, <2>2, PostOf
    <2>4. BrowserTypes'
      BY <1>1, <2>1, <2>3 DEF BrowserTypes
    <2>5. InHand'
      BY <1>1, <2>1 DEF InHand, Posting
    <2>6. Browser!Known'
      BY <1>1, <2>1, <2>3 DEF Browser!Known, Browser!Does
    <2> QED  BY <2>4, <2>5, <2>6 DEF BrowserInv
  <1>13. CASE Browser!PushSubscriptionChange
    <2>1. /\ push \in Browser!Endpoints /\ made + 1 \in Browser!Endpoints /\ push' = made + 1 /\ made' = made + 1
          /\ worker' = made + 1 /\ dead' = dead \cup {push}
          /\ UNCHANGED <<variant, realScroll, permission, rows, dismissed, stored, tab, unposted>>
      BY <1>13 DEF Browser!PushSubscriptionChange
    <2>2. /\ push \in 1 .. made /\ made + 1 \in 0 .. MaxEndpoints /\ made + 1 \in 1 .. made + 1 /\ made + 1 \notin dead'
          /\ 1 .. made \subseteq 1 .. made + 1
      BY <1>1, <1>2, <1>3, <2>1 DEF BrowserTypes, Browser!Endpoints
    <2>3. BrowserTypes'
      BY <1>1, <2>1, <2>2 DEF BrowserTypes
    <2>4. InHand'
      BY <1>1, <1>3, <2>1, <2>2 DEF InHand, Posting
    <2> QED  BY <2>1, <2>3, <2>4 DEF BrowserInv, Browser!Known
  <1>14. ASSUME NEW e \in Browser!Endpoints, Browser!Gone(e)
         PROVE  BrowserInv'
    <2>1. /\ e \in dead /\ rows' = [rows EXCEPT ![e].status = "EXPIRED"]
          /\ UNCHANGED <<variant, realScroll, permission, push, made, dead, dismissed, stored, tab, worker, unposted>>
      BY <1>14 DEF Browser!Gone
    <2>2. rows' \in [Browser!Endpoints -> Browser!Row]
      BY <1>1, <2>1 DEF BrowserTypes, Browser!Row
    <2>3. BrowserTypes' /\ InHand'
      BY <1>1, <2>1, <2>2 DEF BrowserTypes, InHand, Posting
    <2>4. push # e
      BY <1>1, <2>1 DEF BrowserTypes
    <2>5. push \in Browser!Endpoints => rows'[push] = rows[push]
      BY <1>1, <2>1, <2>4 DEF BrowserTypes
    <2> QED  BY <1>1, <2>1, <2>3, <2>5 DEF BrowserInv, Browser!Known, Browser!Does
  <1> QED
    BY <1>4, <1>5, <1>6, <1>7, <1>8, <1>9, <1>10, <1>11, <1>12, <1>13, <1>14 DEF Browser!Next

\* The invariant holds of every behaviour of the browser.
THEOREM BrowserInvariance == ASSUME Browser!SubscriberOK PROVE Browser!Spec => []BrowserInv
  <1>1. BrowserInv /\ [Browser!Next]_(Browser!vars) => BrowserInv'
    BY BrowserNext
  <1> QED  BY BrowserInit, <1>1, PTL DEF Browser!Spec

\* taxscan-push.js, sw.js: tabs, worker, subscription and rows only ever hold values of their kind, for any number
\* of tabs, topics and subscriptions.
THEOREM BrowserTypeCorrect == ASSUME Browser!SubscriberOK PROVE Browser!Spec => []Browser!TypeOK
  <1>1. ASSUME BrowserInv PROVE Browser!TypeOK
    <2>1. 1 .. made \subseteq Browser!Endpoints
      BY <1>1 DEF BrowserInv, BrowserTypes, Browser!Endpoints, Browser!SubscriberOK
    <2> QED  BY <1>1, <2>1 DEF BrowserInv, BrowserTypes, Browser!TypeOK
  <1> QED  BY BrowserInvariance, <1>1, PTL

\* taxscan-push.js: in no tab does a card appear within a week of a "no", or after the browser's own prompt was
\* answered in another one.
THEOREM BrowserAsksInTime == ASSUME Browser!SubscriberOK PROVE Browser!Spec => [][Browser!AskStep]_(Browser!vars)
  <1>1. ASSUME BrowserInv, Browser!Next, NEW t \in Tabs, tab[t].pc # "shown", tab'[t].pc = "shown"
        PROVE  ~dismissed /\ permission = "default" /\ (realScroll => tab'[t].visible)
    <2>1. tab \in [Tabs -> Browser!Tab] /\ tab[t] \in Browser!Tab
      BY <1>1 DEF BrowserInv, BrowserTypes
    <2>2. ASSUME NEW u \in Tabs, NEW row, row.pc # "shown", tab' = [tab EXCEPT ![u] = row] PROVE FALSE
      BY <1>1, <2>1, <2>2
    <2>3. ASSUME NEW u \in Tabs, NEW pc \in {"done", "asking", "look", "subscribe", "drop"}, Browser!Goes(u, pc) PROVE FALSE
      <3>1. tab' = [tab EXCEPT ![u] = IF pc = "done" THEN Browser!Done ELSE [tab[u] EXCEPT !.pc = pc]]
        BY <2>1, <2>3 DEF Browser!Goes
      <3>2. tab[u] \in Browser!Tab
        BY <2>1
      <3>3. (IF pc = "done" THEN Browser!Done ELSE [tab[u] EXCEPT !.pc = pc]).pc # "shown"
        BY <2>3, <3>2 DEF Browser!Done, Browser!Tab
      <3> QED  BY <2>2, <3>1, <3>3
    <2>4. PICK u \in Tabs : \/ Browser!Load(u) \/ Browser!Trigger(u) \/ Browser!Seen(u) \/ Browser!Dismiss(u)
                            \/ Browser!Allow(u) \/ Browser!Answer(u) \/ Browser!Look(u) \/ Browser!Drop(u)
                            \/ Browser!Subscribe(u) \/ Browser!Post(u) \/ Browser!Leave(u)
      BY <1>1 DEF Browser!Next, Browser!PushSubscriptionChange, Browser!WorkerPosts, Browser!PushDies,
                  Browser!WeekPasses, Browser!Gone
    <2>5. CASE Browser!Load(u)
      <3>1. PICK pc \in {"look", "armed", "done"}, v \in BOOLEAN :
              tab' = [tab EXCEPT ![u] = [Browser!Done EXCEPT !.visible = v, !.pc = pc]]
        BY <2>1, <2>5 DEF Browser!Load
      <3>2. [Browser!Done EXCEPT !.visible = v, !.pc = pc].pc # "shown"
        BY DEF Browser!Done
      <3> QED  BY <2>2, <3>1, <3>2
    <2>6. CASE Browser!Allow(u)
      <3>1. PICK c : tab' = [tab EXCEPT ![u].pc = "asking", ![u].topics = c]
        BY <2>6 DEF Browser!Allow
      <3> DEFINE row == [tab[u] EXCEPT !.pc = "asking", !.topics = c]
      <3>2. row.pc # "shown" /\ tab' = [tab EXCEPT ![u] = row]
        BY <2>1, <3>1 DEF Browser!Tab
      <3> HIDE DEF row
      <3> QED  BY <2>2, <3>2
    <2>7. CASE Browser!Subscribe(u)
      <3>1. PICK e, c : tab' = [tab EXCEPT ![u].pc = "post", ![u].ep = e, ![u].topics = c]
        BY <2>1, <2>7 DEF Browser!Subscribe
      <3> DEFINE row == [tab[u] EXCEPT !.pc = "post", !.ep = e, !.topics = c]
      <3>2. row.pc # "shown" /\ tab' = [tab EXCEPT ![u] = row]
        BY <2>1, <3>1 DEF Browser!Tab
      <3> HIDE DEF row
      <3> QED  BY <2>2, <3>2
    <2>8. CASE \/ Browser!Dismiss(u) \/ Browser!Answer(u) \/ Browser!Look(u) \/ Browser!Drop(u)
               \/ Browser!Post(u) \/ Browser!Leave(u)
      <3>1. \E pc \in {"done", "asking", "look", "subscribe", "drop"} : Browser!Goes(u, pc)
        BY <2>8 DEF Browser!Dismiss, Browser!Answer, Browser!Look, Browser!Drop, Browser!Post, Browser!Leave
      <3> QED  BY <2>3, <3>1
    <2>9. CASE Browser!Trigger(u) \/ Browser!Seen(u)
      <3>1. /\ tab[u].pc = "armed" /\ tab[u] \in Browser!Tab
            /\ \/ \E v \in BOOLEAN : tab' = [tab EXCEPT ![u] = Browser!MaybeShow(u, v)]
               \/ tab' = [tab EXCEPT ![u] = [tab[u] EXCEPT !.visible = TRUE]]
        BY <2>1, <2>9 DEF Browser!Trigger, Browser!Seen, Browser!Does, Browser!Tab
      <3>2. u = t
        BY <1>1, <2>1, <3>1
      <3>3. PICK v \in BOOLEAN : tab'[t] = Browser!MaybeShow(t, v)
        BY <1>1, <2>1, <3>1, <3>2 DEF Browser!Tab
      <3>4. Browser!MayShow(t) /\ (realScroll => v) /\ tab'[t].visible = v
        BY <1>1, <3>1, <3>2, <3>3 DEF Browser!MaybeShow, Browser!Tab
      <3> QED  BY <3>4 DEF Browser!MayShow
    <2> QED  BY <2>4, <2>5, <2>6, <2>7, <2>8, <2>9
  <1>2. BrowserInv /\ [Browser!Next]_(Browser!vars) => [Browser!AskStep]_(Browser!vars)
    BY <1>1 DEF Browser!AskStep
  <1> QED  BY BrowserInvariance, <1>2, PTL DEF Browser!Spec

\* ensureSubscribedSilently: a page that ran to its end leaves no subscription of the former vendor, and the server
\* knows the one of ours it leaves, unless a post was lost or is still to come from another tab or the worker.
THEOREM BrowserRecaptured == ASSUME Browser!SubscriberOK PROVE Browser!Spec => [][Browser!VisitStep]_(Browser!vars)
  <1>1. ASSUME BrowserInv, Browser!Next, NEW t \in Tabs, Browser!Look(t) \/ Browser!Post(t), tab'[t].pc = "done"
        PROVE  push' # Browser!Theirs /\ Browser!Known'
    <2>1. Browser!Known'
      BY <1>1, BrowserNext DEF BrowserInv
    <2>2. CASE Browser!Look(t)
      <3>1. PICK pc \in {"done", "subscribe", "drop"} :
              Browser!Goes(t, pc) /\ push' = push /\ (pc = "done" => push \in Browser!Endpoints)
        BY <2>2 DEF Browser!Look, Browser!Ours
      <3>2. pc = "done"
        BY <1>1, <3>1 DEF Browser!Goes, BrowserInv, BrowserTypes, Browser!Tab
      <3> QED  BY <2>1, <3>1, <3>2 DEF Browser!Theirs, Browser!Endpoints, Browser!SubscriberOK
    <2>3. CASE Browser!Post(t)
      BY <1>1, <2>1, <2>3 DEF Browser!Post, Browser!Does, BrowserInv, InHand, Posting
    <2> QED  BY <1>1, <2>2, <2>3
  <1>2. BrowserInv /\ [Browser!Next]_(Browser!vars) => [Browser!VisitStep]_(Browser!vars)
    BY <1>1 DEF Browser!VisitStep
  <1> QED  BY BrowserInvariance, <1>2, PTL DEF Browser!Spec

\* taxscan-push.js: nobody is asked again before the time is up, and a visit replaces a subscription of the former
\* vendor.
THEOREM BrowserAsksPolitely == ASSUME Browser!SubscriberOK PROVE Browser!Spec => Browser!AskedPolitely
  BY BrowserAsksInTime, BrowserRecaptured, PTL DEF Browser!AskedPolitely, Browser!PoliteStep

-----------------------------------------------------------------------------
(* The articles a poll captures                                            *)

CONSTANTS Containers, Feeds, Lists, Headline, Queue, Modes, MaxFaults
VARIABLES mode, published, claimed, linked, queue, sends, aged, poll, lost, blind, faults

Feed == INSTANCE FeedPoll

Recent == Feed!Captured \ aged

FeedTypes ==
    /\ mode \in Modes /\ published \subseteq Feed!Articles /\ claimed \subseteq published
    /\ linked \subseteq Feed!Captured /\ Feed!Captured \subseteq claimed
    /\ queue \in [Feed!Articles -> Feed!Queues \cup {None}]
    /\ sends \in [Feed!Articles -> 0 .. 1] /\ \A a \in Feed!Articles : queue[a] = None => sends[a] = 0
    /\ aged \subseteq Feed!Captured /\ poll \in [Containers -> Feed!Poll]
    /\ lost \subseteq claimed /\ blind \subseteq Feed!Headlines /\ faults \in 0 .. MaxFaults
    /\ IsFiniteSet(lost) /\ Cardinality(lost) <= faults

\* A poll sees the recent headlines but for those captured while it read; it holds an article it claimed, and
\* nobody else captures that one.
Sees(titles) == \A b \in Recent : Headline[b] \in titles \cup blind
Held(a, as)  == as \in Feed!AutoQueues => \A b \in Recent : Headline[b] = Headline[a] => Headline[b] \in blind
Handles(c) ==
    /\ poll[c].fresh \subseteq published
    /\ poll[c].pc \in {"items", "capture", "link"} => Sees(poll[c].titles)
    /\ poll[c].pc \in {"capture", "link"} => poll[c].item \in claimed /\ Headline[poll[c].item] \in poll[c].titles
    /\ poll[c].pc = "capture" => queue[poll[c].item] = None /\ Held(poll[c].item, poll[c].as)
    /\ poll[c].pc = "link" => queue[poll[c].item] # None

Capturing(c) == poll[c].pc = "capture"
OwnItem  == \A c, d \in Containers : Capturing(c) /\ Capturing(d) /\ poll[c].item = poll[d].item => c = d
Captures == \A a \in claimed : queue[a] = None => a \in lost \/ \E c \in Containers : Capturing(c) /\ poll[c].item = a

FeedInv == FeedTypes /\ (\A c \in Containers : Handles(c)) /\ OwnItem /\ Captures /\ Feed!RepeatHeld

LEMMA FeedInit == ASSUME Feed!PollOK PROVE Feed!Init => FeedInv
  <1> SUFFICES ASSUME Feed!Init PROVE FeedInv
    OBVIOUS
  <1>1. \A c \in Containers : poll[c] = Feed!Idle
    BY DEF Feed!Init
  <1>2. Feed!Idle \in Feed!Poll /\ Feed!Idle.pc = "idle" /\ Feed!Idle.fresh = {}
    BY DEF Feed!Idle, Feed!Poll, Feed!PollOK, Feed!Queues
  <1>3. Feed!Captured = {}
    BY DEF Feed!Captured, Feed!Init
  <1>4. IsFiniteSet({}) /\ Cardinality({}) = 0
    BY FS_EmptySet
  <1>5. FeedTypes
    BY <1>1, <1>2, <1>3, <1>4 DEF FeedTypes, Feed!Init, Feed!PollOK
  <1>6. \A c \in Containers : Handles(c)
    BY <1>1, <1>2 DEF Handles
  <1>7. OwnItem /\ Captures
    BY <1>1, <1>2 DEF OwnItem, Captures, Capturing, Feed!Init
  <1> QED  BY <1>3, <1>5, <1>6, <1>7 DEF FeedInv, Feed!RepeatHeld

\* Steps that claim, capture and lose nothing: a container may read on, or lay down what it captured.
LEMMA FeedQuiet ==
    ASSUME Feed!PollOK, FeedInv, UNCHANGED <<mode, claimed, queue, sends, lost, blind>>,
           published' \subseteq Feed!Articles, published \subseteq published',
           aged' \subseteq Feed!Captured, aged \subseteq aged', linked' \subseteq Feed!Captured,
           faults' \in 0 .. MaxFaults, faults <= faults', poll' \in [Containers -> Feed!Poll],
           \A c \in Containers :
              \/ poll'[c] = poll[c]
              \/ /\ ~Capturing(c) /\ poll'[c].pc \notin {"capture", "link"} /\ poll'[c].fresh \subseteq published
                 /\ poll'[c].pc = "items" => Sees(poll'[c].titles)
    PROVE  FeedInv'
  <1>1. FeedTypes /\ OwnItem /\ Captures /\ Feed!RepeatHeld /\ \A c \in Containers : Handles(c)
    BY DEF FeedInv
  <1>2. Feed!Captured' = Feed!Captured /\ Recent' \subseteq Recent
    BY DEF Feed!Captured, Recent
  <1>3. FeedTypes'
    <2>1. Cardinality(lost) \in Nat /\ faults \in Nat /\ faults' \in Nat
      BY <1>1, FS_CardinalityType DEF FeedTypes, Feed!PollOK
    <2>2. Cardinality(lost') <= faults'
      BY <1>1, <2>1 DEF FeedTypes
    <2> QED  BY <1>1, <1>2, <2>2 DEF FeedTypes
  <1>4. ASSUME NEW c \in Containers PROVE Handles(c)'
    <2>1. Handles(c) /\ \A t : Sees(t) => \A b \in Recent' : Headline[b] \in t \cup blind
      BY <1>1, <1>2 DEF Sees
    <2>2. \A a, as : Held(a, as) => (as \in Feed!AutoQueues => \A b \in Recent' : Headline[b] = Headline[a] => Headline[b] \in blind)
      BY <1>2 DEF Held
    <2>3. CASE poll'[c] = poll[c]
      BY <2>1, <2>2, <2>3 DEF Handles, Sees, Held
    <2>4. CASE poll'[c] # poll[c]
      BY <2>1, <2>4 DEF Handles, Sees, Capturing
    <2> QED  BY <2>3, <2>4
  <1>5. \A c \in Containers : Capturing(c)' <=> (Capturing(c) /\ poll'[c] = poll[c])
    BY DEF Capturing
  <1>6. \A c \in Containers : Capturing(c) => poll'[c] = poll[c]
    OBVIOUS
  <1>7. OwnItem' /\ Captures'
    BY <1>1, <1>5, <1>6 DEF OwnItem, Captures
  <1>8. Feed!RepeatHeld'
    BY <1>1, <1>2 DEF Feed!RepeatHeld, Recent
  <1> QED  BY <1>3, <1>4, <1>7, <1>8 DEF FeedInv

\* A new article is claimed.
LEMMA FeedClaim ==
    ASSUME Feed!PollOK, FeedInv, NEW c \in Containers, NEW a \in poll[c].fresh, poll[c].pc = "items", a \notin claimed,
           UNCHANGED <<mode, published, linked, queue, sends, aged, lost, blind, faults>>, claimed' = claimed \cup {a},
           NEW as, as = Feed!Decided(c, a), NEW row,
           row = [poll[c] EXCEPT !.pc = "capture", !.item = a, !.fresh = @ \ {a},
                                 !.titles = @ \cup {Headline[a]}, !.as = as],
           poll' = [poll EXCEPT ![c] = row]
    PROVE  FeedInv'
  <1>1. FeedTypes /\ OwnItem /\ Captures /\ Feed!RepeatHeld /\ \A d \in Containers : Handles(d)
    BY DEF FeedInv
  <1>2. a \in published /\ a \in Feed!Articles /\ queue[a] = None /\ Headline[a] \in Feed!Headlines /\ poll[c] \in Feed!Poll
    BY <1>1 DEF FeedTypes, Handles, Feed!Captured, Feed!Headlines
  <1>3. as \in Feed!Queues /\ (as \in Feed!AutoQueues => Headline[a] \notin poll[c].titles)
    BY <1>2 DEF Feed!Decided, Feed!Queues, Feed!AutoQueues, Feed!PollOK
  <1>4. /\ row \in Feed!Poll /\ row.pc = "capture" /\ row.item = a /\ row.fresh = poll[c].fresh \ {a}
        /\ row.titles = poll[c].titles \cup {Headline[a]} /\ row.as = as
    BY <1>2, <1>3 DEF Feed!Poll
  <1>5. poll \in [Containers -> Feed!Poll]
    BY <1>1 DEF FeedTypes
  <1>6. poll' \in [Containers -> Feed!Poll] /\ poll'[c] = row /\ \A d \in Containers : d # c => poll'[d] = poll[d]
    BY <1>4, <1>5
  <1>7. Feed!Captured' = Feed!Captured /\ Recent' = Recent
    BY DEF Feed!Captured, Recent
  <1>8. FeedTypes'
    BY <1>1, <1>2, <1>6, <1>7 DEF FeedTypes
  <1>9. (\A t : Sees(t)' <=> Sees(t)) /\ (\A b, q : Held(b, q)' <=> Held(b, q))
    BY <1>7 DEF Sees, Held
  <1>10. ASSUME NEW d \in Containers PROVE Handles(d)'
    <2>1. CASE d = c
      <3>1. Sees(poll[c].titles) /\ Sees(row.titles)
        BY <1>1, <1>4 DEF Handles, Sees
      <3>2. Held(a, as)
        BY <1>3, <3>1 DEF Held, Sees
      <3>3. /\ row.fresh \subseteq published /\ row.item \in claimed' /\ Headline[row.item] \in row.titles
            /\ queue[row.item] = None
        BY <1>1, <1>2, <1>4 DEF Handles
      <3> QED  BY <1>4, <1>6, <1>9, <2>1, <3>1, <3>2, <3>3 DEF Handles
    <2>2. CASE d # c
      <3>1. poll'[d] = poll[d] /\ Handles(d)
        BY <1>1, <1>6, <2>2
      <3>2. Sees(poll[d].titles)' <=> Sees(poll[d].titles)
        BY <1>7, <3>1 DEF Sees
      <3>3. Held(poll[d].item, poll[d].as)' <=> Held(poll[d].item, poll[d].as)
        BY <1>7, <3>1 DEF Held
      <3>4. /\ poll[d].fresh \subseteq published' /\ poll[d].item \in claimed => poll[d].item \in claimed'
            /\ queue' = queue
        BY <3>1 DEF Handles
      <3> QED  BY <3>1, <3>2, <3>3, <3>4 DEF Handles
    <2> QED  BY <2>1, <2>2
  <1>11. OwnItem'
    <2>1. \A d \in Containers : d # c /\ Capturing(d) => poll[d].item # a
      BY <1>1 DEF Capturing, Handles
    <2> QED  BY <1>1, <1>4, <1>6, <2>1 DEF OwnItem, Capturing
  <1>12. Captures'
    BY <1>1, <1>4, <1>6 DEF Captures, Capturing
  <1>13. Feed!RepeatHeld'
    BY <1>1, <1>7 DEF Feed!RepeatHeld, Recent
  <1> QED  BY <1>8, <1>10, <1>11, <1>12, <1>13 DEF FeedInv

\* The article's campaign is written.
LEMMA FeedCapture ==
    ASSUME Feed!PollOK, FeedInv, NEW c \in Containers, Feed!Capture(c), NEW a, a = poll[c].item
    PROVE  FeedInv' /\ queue[a] = None /\ sends[a] = 0
  <1> DEFINE as == poll[c].as
             row == [poll[c] EXCEPT !.pc = "link"]
  <1>1. FeedTypes /\ OwnItem /\ Captures /\ Feed!RepeatHeld /\ (\A d \in Containers : Handles(d)) /\ Capturing(c)
    BY DEF FeedInv, Feed!Capture, Feed!At, Capturing
  <1>2. /\ poll' = [poll EXCEPT ![c] = row] /\ UNCHANGED <<mode, published, claimed, linked, aged, lost, faults>>
        /\ queue' = [queue EXCEPT ![a] = as]
        /\ sends' = [sends EXCEPT ![a] = IF Feed!ShouldSend(as) THEN sends[a] + 1 ELSE sends[a]]
        /\ blind' = IF Feed!Reading \ {c} = {} THEN blind ELSE blind \cup {Headline[a]}
    BY <1>1 DEF Feed!Capture, FeedTypes
  <1>3. /\ a \in claimed /\ a \in Feed!Articles /\ Headline[a] \in Feed!Headlines /\ queue[a] = None /\ sends[a] = 0
        /\ Sees(poll[c].titles) /\ Held(a, as) /\ Headline[a] \in poll[c].titles
        /\ poll[c] \in Feed!Poll /\ as \in Feed!Queues /\ as # None
    BY <1>1 DEF FeedTypes, Handles, Capturing, Feed!Headlines, Feed!Poll, Feed!PollOK
  <1>4. row \in Feed!Poll /\ row.pc = "link" /\ row.item = a /\ row.fresh = poll[c].fresh /\ row.titles = poll[c].titles
    BY <1>3 DEF Feed!Poll
  <1> HIDE DEF row, as
  <1>5. poll' \in [Containers -> Feed!Poll] /\ poll'[c] = row /\ \A d \in Containers : d # c => poll'[d] = poll[d]
    BY <1>1, <1>2, <1>4 DEF FeedTypes
  <1>6. /\ queue' \in [Feed!Articles -> Feed!Queues \cup {None}] /\ queue'[a] = as
        /\ \A b \in Feed!Articles : b # a => queue'[b] = queue[b]
    BY <1>1, <1>2, <1>3 DEF FeedTypes
  <1>7. /\ sends' \in [Feed!Articles -> 0 .. 1] /\ \A b \in Feed!Articles : b # a => sends'[b] = sends[b]
    BY <1>1, <1>2, <1>3 DEF FeedTypes
  <1>8. Feed!Captured' = Feed!Captured \cup {a} /\ Recent' \subseteq Recent \cup {a} /\ a \notin aged
    <2>1. Feed!Captured' = Feed!Captured \cup {a}
      BY <1>3, <1>6 DEF Feed!Captured
    <2>2. a \notin Feed!Captured
      BY <1>3 DEF Feed!Captured
    <2>3. a \notin aged /\ aged' = aged
      BY <1>1, <1>2, <2>2 DEF FeedTypes
    <2> QED  BY <2>1, <2>3 DEF Recent
  <1>9. blind \subseteq blind' /\ blind' \subseteq Feed!Headlines
    BY <1>1, <1>2, <1>3 DEF FeedTypes
  <1>10. FeedTypes'
    <2>1. \A b \in Feed!Articles : queue'[b] = None => sends'[b] = 0
      BY <1>1, <1>3, <1>6, <1>7 DEF FeedTypes
    <2>2. linked \subseteq Feed!Captured' /\ aged \subseteq Feed!Captured' /\ Feed!Captured' \subseteq claimed
      BY <1>1, <1>3, <1>8 DEF FeedTypes
    <2> QED  BY <1>1, <1>2, <1>5, <1>6, <1>7, <1>9, <2>1, <2>2 DEF FeedTypes
  <1>11. ASSUME NEW d \in Containers, d # c, poll[d].pc \in {"items", "capture", "link"} PROVE Headline[a] \in blind'
    BY <1>2, <1>11 DEF Feed!Reading
  <1>12. \A b \in Recent' : b \in Recent \/ b = a
    BY <1>8
  <1>13. ASSUME NEW d \in Containers PROVE Handles(d)'
    <2>1. CASE d = c
      <3>1. Sees(poll[d].titles)'
        BY <1>3, <1>4, <1>5, <1>9, <1>12, <2>1 DEF Sees
      <3> QED  BY <1>1, <1>2, <1>3, <1>4, <1>5, <1>6, <2>1, <3>1 DEF Handles
    <2>2. CASE d # c
      <3>1. poll'[d] = poll[d] /\ Handles(d)
        BY <1>1, <1>5, <2>2
      <3>2. poll[d].pc \in {"items", "capture", "link"} => Sees(poll[d].titles)'
        BY <1>9, <1>11, <1>12, <2>2, <3>1 DEF Handles, Sees
      <3>3. poll[d].pc = "capture" => poll[d].item # a /\ queue'[poll[d].item] = None
        <4>1. poll[d].pc = "capture" => poll[d].item # a /\ poll[d].item \in Feed!Articles /\ queue[poll[d].item] = None
          BY <1>1, <2>2, <3>1 DEF OwnItem, Capturing, Handles, FeedTypes
        <4> QED  BY <1>6, <4>1
      <3>4. poll[d].pc = "capture" => Held(poll[d].item, poll[d].as)'
        BY <1>9, <1>11, <1>12, <2>2, <3>1 DEF Handles, Held
      <3>5. poll[d].pc = "link" => queue'[poll[d].item] # None
        <4>1. poll[d].pc = "link" => poll[d].item \in Feed!Articles /\ queue[poll[d].item] # None
          BY <1>1, <3>1 DEF Handles, FeedTypes
        <4> QED  BY <1>3, <1>6, <4>1
      <3>6. /\ poll[d].fresh \subseteq published'
            /\ poll[d].pc \in {"capture", "link"} => poll[d].item \in claimed' /\ Headline[poll[d].item] \in poll[d].titles
        BY <1>2, <3>1 DEF Handles
      <3> QED  BY <3>1, <3>2, <3>3, <3>4, <3>5, <3>6 DEF Handles
    <2> QED  BY <2>1, <2>2
  <1>14. OwnItem'
    BY <1>1, <1>4, <1>5 DEF OwnItem, Capturing
  <1>15. Captures'
    <2>1. ASSUME NEW b \in claimed, queue'[b] = None
          PROVE  b \in lost \/ \E d \in Containers : poll'[d].pc = "capture" /\ poll'[d].item = b
      <3>1. b # a /\ b \in Feed!Articles /\ queue[b] = None
        BY <1>1, <1>3, <1>6, <2>1 DEF FeedTypes
      <3>2. b \in lost \/ \E d \in Containers : d # c /\ poll[d].pc = "capture" /\ poll[d].item = b
        BY <1>1, <3>1 DEF Captures, Capturing
      <3> QED  BY <1>5, <3>2
    <2> QED  BY <1>2, <2>1 DEF Captures, Capturing
  <1>16. Feed!RepeatHeld'
    <2>1. ASSUME NEW b \in Recent', NEW d \in Recent', b # d, Headline[b] = Headline[d],
                 queue'[b] \in Feed!AutoQueues, queue'[d] \in Feed!AutoQueues
          PROVE  Headline[b] \in blind'
      <3>1. Recent \subseteq Feed!Articles
        BY DEF Recent, Feed!Captured
      <3>2. CASE b = a
        BY <1>3, <1>6, <1>9, <1>12, <2>1, <3>2 DEF Held
      <3>3. CASE d = a
        BY <1>3, <1>6, <1>9, <1>12, <2>1, <3>3 DEF Held
      <3>4. CASE b # a /\ d # a
        <4>1. b \in Recent /\ d \in Recent /\ queue'[b] = queue[b] /\ queue'[d] = queue[d]
          BY <1>6, <1>12, <3>1, <3>4
        <4> QED  BY <1>1, <1>9, <2>1, <4>1 DEF Feed!RepeatHeld, Recent
      <3> QED  BY <3>2, <3>3, <3>4
    <2> QED  BY <2>1 DEF Feed!RepeatHeld, Recent
  <1> QED  BY <1>3, <1>10, <1>13, <1>14, <1>15, <1>16 DEF FeedInv

LEMMA OneMore ==
    ASSUME NEW S, IsFiniteSet(S), NEW e
    PROVE  /\ IsFiniteSet(S \cup {e}) /\ Cardinality(S \cup {e}) <= Cardinality(S) + 1
           /\ Cardinality(S) \in Nat /\ Cardinality(S \cup {e}) \in Nat
  <1> DEFINE n == Cardinality(S)
             m == Cardinality(S \cup {e})
  <1>1. n \in Nat /\ m \in Nat /\ (m = n \/ m = n + 1) /\ IsFiniteSet(S \cup {e})
    BY FS_AddElement, FS_CardinalityType
  <1> HIDE DEF n, m
  <1>2. m <= n + 1
    BY <1>1
  <1> QED  BY <1>1, <1>2 DEF n, m

\* The article in hand is lost, to the fault that is counted.
LEMMA FeedLose ==
    ASSUME Feed!PollOK, FeedInv, NEW c \in Containers, Capturing(c), faults' \in 0 .. MaxFaults, faults' = faults + 1,
           UNCHANGED <<mode, published, claimed, linked, queue, sends, aged, blind>>, lost' = lost \cup {poll[c].item},
           NEW row \in Feed!Poll, poll' = [poll EXCEPT ![c] = row], row.pc \notin {"capture", "link"},
           row.fresh \subseteq published, row.pc = "items" => row.titles = poll[c].titles
    PROVE  FeedInv'
  <1>1. FeedTypes /\ OwnItem /\ Captures /\ Feed!RepeatHeld /\ \A d \in Containers : Handles(d)
    BY DEF FeedInv
  <1>2. poll' \in [Containers -> Feed!Poll] /\ poll'[c] = row /\ \A d \in Containers : d # c => poll'[d] = poll[d]
    BY <1>1 DEF FeedTypes
  <1>3. Feed!Captured' = Feed!Captured /\ Recent' = Recent
    BY DEF Feed!Captured, Recent
  <1>4. poll[c].item \in claimed /\ Sees(poll[c].titles)
    BY <1>1 DEF Handles, Capturing
  <1>5. IsFiniteSet(lost') /\ Cardinality(lost') <= faults'
    <2>1. /\ IsFiniteSet(lost') /\ Cardinality(lost') <= Cardinality(lost) + 1
          /\ Cardinality(lost) \in Nat /\ Cardinality(lost') \in Nat
      BY <1>1, OneMore DEF FeedTypes
    <2> QED  BY <1>1, <2>1 DEF FeedTypes, Feed!PollOK
  <1>6. FeedTypes'
    BY <1>1, <1>2, <1>3, <1>4, <1>5 DEF FeedTypes
  <1>7. ASSUME NEW d \in Containers PROVE Handles(d)'
    <2>1. CASE d = c
      BY <1>2, <1>3, <1>4, <2>1 DEF Handles, Sees
    <2>2. CASE d # c
      <3>1. poll'[d] = poll[d] /\ Handles(d)
        BY <1>1, <1>2, <2>2
      <3>2. Sees(poll[d].titles)' <=> Sees(poll[d].titles)
        BY <1>3, <3>1 DEF Sees
      <3>3. Held(poll[d].item, poll[d].as)' <=> Held(poll[d].item, poll[d].as)
        BY <1>3, <3>1 DEF Held
      <3> QED  BY <3>1, <3>2, <3>3 DEF Handles
    <2> QED  BY <2>1, <2>2
  <1>8. OwnItem' /\ Captures'
    BY <1>1, <1>2 DEF OwnItem, Captures, Capturing
  <1>9. Feed!RepeatHeld'
    BY <1>1, <1>3 DEF Feed!RepeatHeld, Recent
  <1> QED  BY <1>6, <1>7, <1>8, <1>9 DEF FeedInv

\* A poll that captures nothing goes on.
LEMMA FeedMoves ==
    ASSUME Feed!PollOK, FeedInv, NEW c \in Containers, ~Capturing(c), linked' \subseteq Feed!Captured,
           UNCHANGED <<mode, published, claimed, queue, sends, aged, lost, blind>>,
           faults' = faults \/ (faults < MaxFaults /\ faults' = faults + 1),
           NEW row \in Feed!Poll, poll' = [poll EXCEPT ![c] = row], row.pc \notin {"capture", "link"},
           row.fresh \subseteq published, row.pc = "items" => Sees(row.titles)
    PROVE  FeedInv'
  <1>1. FeedTypes
    BY DEF FeedInv
  <1>2. faults' \in 0 .. MaxFaults /\ faults <= faults'
    BY <1>1 DEF FeedTypes, Feed!PollOK
  <1>3. poll' \in [Containers -> Feed!Poll] /\ \A d \in Containers : d # c => poll'[d] = poll[d]
    BY <1>1 DEF FeedTypes
  <1>4. poll'[c] = row
    BY <1>1 DEF FeedTypes
  <1>5. /\ published' \subseteq Feed!Articles /\ published \subseteq published'
        /\ aged' \subseteq Feed!Captured /\ aged \subseteq aged'
    BY <1>1 DEF FeedTypes
  <1> QED  BY <1>2, <1>3, <1>4, <1>5, FeedQuiet

LEMMA FeedRows ==
    ASSUME Feed!PollOK, FeedInv, NEW c \in Containers
    PROVE  /\ Feed!Idle \in Feed!Poll /\ Feed!Idle.pc = "idle" /\ Feed!Idle.fresh = {}
           /\ \E row \in Feed!Poll : /\ Feed!NextFeed(c) = [poll EXCEPT ![c] = row]
                                     /\ row.pc \in {"idle", "fetch"} /\ row.fresh \subseteq published
  <1>1. poll \in [Containers -> Feed!Poll] /\ poll[c] \in Feed!Poll /\ published \subseteq Feed!Articles
    BY DEF FeedInv, FeedTypes
  <1>2. Feed!Idle \in Feed!Poll /\ Feed!Idle.pc = "idle" /\ Feed!Idle.fresh = {}
    BY DEF Feed!Idle, Feed!Poll, Feed!PollOK, Feed!Queues
  <1>3. \E row \in Feed!Poll : /\ Feed!NextFeed(c) = [poll EXCEPT ![c] = row]
                               /\ row.pc \in {"idle", "fetch"} /\ row.fresh \subseteq published
    <2>1. CASE poll[c].feed + 1 \in Feeds
      <3> DEFINE row == [Feed!Idle EXCEPT !.pc = "fetch", !.feed = poll[c].feed + 1]
      <3>1. row \in Feed!Poll /\ row.pc = "fetch" /\ row.fresh = {}
        BY <1>2, <2>1 DEF Feed!Poll, Feed!Idle
      <3>2. Feed!NextFeed(c) = [poll EXCEPT ![c] = row]
        BY <1>1, <2>1 DEF Feed!NextFeed
      <3> QED  BY <3>1, <3>2
    <2>2. CASE poll[c].feed + 1 \notin Feeds
      BY <1>1, <1>2, <2>2 DEF Feed!NextFeed
    <2> QED  BY <2>1, <2>2
  <1> QED  BY <1>2, <1>3

LEMMA FeedNext ==
    ASSUME Feed!PollOK, FeedInv, [Feed!Next]_(Feed!vars)
    PROVE  FeedInv'
  <1>1. FeedTypes /\ \A c \in Containers : Handles(c)
    BY DEF FeedInv
  <1>2. /\ poll \in [Containers -> Feed!Poll] /\ \A c \in Containers : poll[c].fresh \subseteq published
        /\ published \subseteq Feed!Articles /\ linked \subseteq Feed!Captured /\ aged \subseteq Feed!Captured
        /\ faults \in 0 .. MaxFaults /\ faults <= faults
    BY <1>1 DEF FeedTypes, Handles, Feed!PollOK
  <1>3. ASSUME UNCHANGED <<mode, claimed, linked, queue, sends, lost, blind, faults, poll>>,
               published' \subseteq Feed!Articles, published \subseteq published',
               aged' \subseteq Feed!Captured, aged \subseteq aged'
        PROVE  FeedInv'
    BY <1>2, <1>3, FeedQuiet
  <1>4. CASE UNCHANGED Feed!vars
    BY <1>2, <1>3, <1>4 DEF Feed!vars
  <1>5. ASSUME NEW a \in Feed!Articles, Feed!Publish(a) \/ Feed!LeaveWindow(a)
        PROVE  FeedInv'
    BY <1>2, <1>3, <1>5 DEF Feed!Publish, Feed!LeaveWindow
  <1>6. ASSUME NEW c \in Containers, Feed!Start(c) \/ Feed!FeedDone(c) \/ Feed!FetchFails(c)
        PROVE  FeedInv'
    <2>1. /\ UNCHANGED <<mode, published, claimed, linked, queue, sends, aged, lost, blind>>
          /\ faults' = faults \/ (faults < MaxFaults /\ faults' = faults + 1)
          /\ ~Capturing(c)
      BY <1>6 DEF Feed!Start, Feed!FeedDone, Feed!FetchFails, Feed!At, Capturing
    <2>2. \E row \in Feed!Poll : /\ poll' = [poll EXCEPT ![c] = row]
                                 /\ row.pc \in {"idle", "fetch"} /\ row.fresh \subseteq published
      <3>1. CASE Feed!Start(c)
        <4> DEFINE row == [poll[c] EXCEPT !.pc = "fetch"]
        <4>1. row \in Feed!Poll /\ row.pc = "fetch" /\ row.fresh = poll[c].fresh /\ poll' = [poll EXCEPT ![c] = row]
          BY <1>2, <3>1 DEF Feed!Start, Feed!Poll
        <4> QED  BY <1>2, <4>1
      <3>2. CASE Feed!FeedDone(c) \/ Feed!FetchFails(c)
        BY <3>2, FeedRows DEF Feed!FeedDone, Feed!FetchFails
      <3> QED  BY <1>6, <3>1, <3>2
    <2> QED  BY <1>2, <2>1, <2>2, FeedMoves
  <1>7. ASSUME NEW c \in Containers, Feed!Fetch(c)
        PROVE  FeedInv'
    <2> DEFINE fresh == (Lists[poll[c].feed] \cap published) \ claimed
               row == [poll[c] EXCEPT !.pc = "titles", !.fresh = fresh]
    <2>1. /\ UNCHANGED <<mode, published, claimed, linked, queue, sends, aged, lost, blind, faults>> /\ ~Capturing(c)
          /\ poll' = IF fresh = {} THEN Feed!NextFeed(c) ELSE [poll EXCEPT ![c] = row]
      BY <1>2, <1>7 DEF Feed!Fetch, Feed!At, Capturing
    <2>2. fresh \subseteq published /\ fresh \subseteq Feed!Articles
      BY <1>2
    <2> HIDE DEF fresh
    <2>3. row \in Feed!Poll /\ row.pc = "titles" /\ row.fresh = fresh
      BY <1>2, <2>2 DEF Feed!Poll
    <2> HIDE DEF row
    <2>4. \E r \in Feed!Poll : /\ poll' = [poll EXCEPT ![c] = r]
                               /\ r.pc \in {"idle", "fetch", "titles"} /\ r.fresh \subseteq published
      BY <2>1, <2>2, <2>3, FeedRows
    <2> QED  BY <1>2, <2>1, <2>4, FeedMoves
  <1>8. ASSUME NEW c \in Containers, Feed!ReadTitles(c)
        PROVE  FeedInv'
    <2> DEFINE T == {Headline[a] : a \in Recent}
               row == [poll[c] EXCEPT !.pc = "items", !.titles = T]
    <2>1. /\ UNCHANGED <<mode, published, claimed, linked, queue, sends, aged, lost, blind, faults>> /\ ~Capturing(c)
          /\ poll' = [poll EXCEPT ![c] = row]
      BY <1>2, <1>8 DEF Feed!ReadTitles, Feed!At, Capturing, Recent
    <2>2. T \in SUBSET Feed!Headlines /\ Sees(T)
      BY DEF Feed!Headlines, Recent, Feed!Captured, Sees
    <2> HIDE DEF T
    <2>3. row \in Feed!Poll /\ row.pc = "items" /\ row.titles = T /\ row.fresh = poll[c].fresh
      BY <1>2, <2>2 DEF Feed!Poll
    <2> HIDE DEF row
    <2> QED  BY <1>2, <2>1, <2>2, <2>3, FeedMoves
  <1>9. ASSUME NEW c \in Containers, NEW a \in poll[c].fresh, poll[c].pc = "items", poll' = [poll EXCEPT ![c].fresh = @ \ {a}],
               UNCHANGED <<mode, published, claimed, linked, queue, sends, aged, lost, blind>>,
               faults' = faults \/ (faults < MaxFaults /\ faults' = faults + 1)
        PROVE  FeedInv'
    <2> DEFINE row == [poll[c] EXCEPT !.fresh = @ \ {a}]
    <2>1. /\ row \in Feed!Poll /\ row.pc = "items" /\ row.titles = poll[c].titles /\ row.fresh \subseteq poll[c].fresh
          /\ poll' = [poll EXCEPT ![c] = row]
      BY <1>2, <1>9 DEF Feed!Poll
    <2>2. Sees(row.titles) /\ ~Capturing(c)
      BY <1>1, <1>9, <2>1 DEF Handles, Capturing
    <2> HIDE DEF row
    <2> QED  BY <1>2, <1>9, <2>1, <2>2, FeedMoves
  <1>10. ASSUME NEW c \in Containers, Feed!ClaimItem(c)
         PROVE  FeedInv'
    <2>1. poll[c].pc = "items" /\ UNCHANGED <<mode, published, linked, queue, sends, aged, lost, blind, faults>>
      BY <1>10 DEF Feed!ClaimItem, Feed!At
    <2>2. PICK a \in poll[c].fresh :
            IF a \notin claimed
            THEN /\ claimed' = claimed \cup {a}
                 /\ poll' = [poll EXCEPT ![c].pc = "capture", ![c].item = a, ![c].fresh = @ \ {a},
                                         ![c].titles = @ \cup {Headline[a]}, ![c].as = Feed!Decided(c, a)]
            ELSE poll' = [poll EXCEPT ![c].fresh = @ \ {a}] /\ UNCHANGED claimed
      BY <1>10 DEF Feed!ClaimItem, Feed!IsFresh, Feed!Claims
    <2>3. CASE a \in claimed
      BY <1>9, <2>1, <2>2, <2>3
    <2>4. CASE a \notin claimed
      <3> DEFINE as == Feed!Decided(c, a)
                 row == [poll[c] EXCEPT !.pc = "capture", !.item = a, !.fresh = @ \ {a},
                                        !.titles = @ \cup {Headline[a]}, !.as = as]
      <3> HIDE DEF as
      <3>1. poll' = [poll EXCEPT ![c] = row] /\ claimed' = claimed \cup {a}
        BY <1>2, <2>2, <2>4 DEF as
      <3> HIDE DEF row
      <3>2. as = Feed!Decided(c, a)
        BY DEF as
      <3>3. row = [poll[c] EXCEPT !.pc = "capture", !.item = a, !.fresh = @ \ {a},
                                  !.titles = @ \cup {Headline[a]}, !.as = as]
        BY DEF row
      <3> QED  BY <2>1, <2>4, <3>1, <3>2, <3>3, FeedClaim
    <2> QED  BY <2>3, <2>4
  <1>11. ASSUME NEW c \in Containers, Feed!ClaimFails(c)
         PROVE  FeedInv'
    BY <1>9, <1>11 DEF Feed!ClaimFails, Feed!At
  <1>12. ASSUME NEW c \in Containers, Feed!Capture(c)
         PROVE  FeedInv'
    BY <1>12, FeedCapture
  <1>13. ASSUME NEW c \in Containers, Feed!CaptureFails(c)
         PROVE  FeedInv'
    <2> DEFINE row == [poll[c] EXCEPT !.pc = "items", !.item = None]
    <2>1. /\ row \in Feed!Poll /\ row.pc = "items" /\ row.titles = poll[c].titles /\ row.fresh = poll[c].fresh
          /\ poll' = [poll EXCEPT ![c] = row]
      BY <1>2, <1>13 DEF Feed!CaptureFails, Feed!Poll
    <2>2. /\ Capturing(c) /\ lost' = lost \cup {poll[c].item} /\ faults' = faults + 1 /\ faults' \in 0 .. MaxFaults
          /\ UNCHANGED <<mode, published, claimed, linked, queue, sends, aged, blind>>
      BY <1>2, <1>13 DEF Feed!CaptureFails, Feed!At, Capturing, Feed!PollOK
    <2> HIDE DEF row
    <2> QED  BY <1>2, <2>1, <2>2, FeedLose
  <1>14. ASSUME NEW c \in Containers, Feed!Link(c)
         PROVE  FeedInv'
    <2> DEFINE row == [poll[c] EXCEPT !.pc = "items", !.item = None]
    <2>1. /\ row \in Feed!Poll /\ row.pc = "items" /\ row.titles = poll[c].titles /\ row.fresh = poll[c].fresh
          /\ poll' = [poll EXCEPT ![c] = row]
      BY <1>2, <1>14 DEF Feed!Link, Feed!Poll
    <2>2. /\ ~Capturing(c) /\ UNCHANGED <<mode, published, claimed, queue, sends, aged, lost, blind>>
          /\ faults' = faults \/ (faults < MaxFaults /\ faults' = faults + 1)
          /\ linked' = linked \/ linked' = linked \cup {poll[c].item}
      BY <1>14 DEF Feed!Link, Feed!At, Capturing
    <2>3. poll[c].item \in Feed!Captured /\ Sees(poll[c].titles)
      BY <1>1, <1>14 DEF Feed!Link, Feed!At, Handles, Feed!Captured, FeedTypes
    <2>4. linked' \subseteq Feed!Captured
      BY <1>2, <2>2, <2>3
    <2> HIDE DEF row
    <2> QED  BY <1>2, <2>1, <2>2, <2>3, <2>4, FeedMoves
  <1>15. ASSUME NEW c \in Containers, Feed!Crash(c)
         PROVE  FeedInv'
    <2>1. /\ faults < MaxFaults /\ faults' = faults + 1 /\ poll' = [poll EXCEPT ![c] = Feed!Idle]
          /\ lost' = IF Capturing(c) THEN lost \cup {poll[c].item} ELSE lost
          /\ UNCHANGED <<mode, published, claimed, linked, queue, sends, aged, blind>>
      BY <1>15 DEF Feed!Crash, Feed!At, Capturing
    <2>2. faults' \in 0 .. MaxFaults
      BY <1>2, <2>1 DEF Feed!PollOK
    <2>3. Feed!Idle \in Feed!Poll /\ Feed!Idle.pc = "idle" /\ Feed!Idle.fresh \subseteq published
      BY FeedRows
    <2>4. CASE Capturing(c)
      BY <2>1, <2>2, <2>3, <2>4, FeedLose
    <2>5. CASE ~Capturing(c)
      BY <1>2, <2>1, <2>3, <2>5, FeedMoves
    <2> QED  BY <2>4, <2>5
  <1> QED
    BY <1>4, <1>5, <1>6, <1>7, <1>8, <1>10, <1>11, <1>12, <1>13, <1>14, <1>15 DEF Feed!Next

\* The invariant holds of every behaviour of the pollers.
THEOREM FeedInvariance == ASSUME Feed!PollOK PROVE Feed!Spec => []FeedInv
  <1>1. FeedInv /\ [Feed!Next]_(Feed!vars) => FeedInv'
    BY FeedNext
  <1> QED  BY FeedInit, <1>1, PTL DEF Feed!Spec

\* poller.ts: polls, claims, campaigns and queues only ever hold values of their kind, for any number of containers,
\* feeds and articles.
THEOREM FeedTypeCorrect == ASSUME Feed!PollOK PROVE Feed!Spec => []Feed!TypeOK
  <1>1. FeedInv => Feed!TypeOK
    BY DEF FeedInv, FeedTypes, Feed!TypeOK
  <1> QED  BY FeedInvariance, <1>1, PTL

\* pollFeed: an article is captured once and dispatched at most once, whichever feeds list it, whatever containers
\* poll at once and wherever one dies.
THEOREM FeedOneCapture == ASSUME Feed!PollOK PROVE Feed!Spec => [][Feed!CaptureStep]_(Feed!vars)
  <1>1. ASSUME FeedInv, Feed!Next, NEW a \in Feed!Articles
        PROVE  (queue[a] # None => queue'[a] = queue[a]) /\ sends'[a] <= 1
    <2>1. sends' \in [Feed!Articles -> 0 .. 1]
      BY <1>1, FeedNext DEF FeedInv, FeedTypes
    <2>2. UNCHANGED queue \/ \E c \in Containers : Feed!Capture(c)
      BY <1>1 DEF Feed!Next, Feed!Start, Feed!Fetch, Feed!ReadTitles, Feed!ClaimItem, Feed!ClaimFails, Feed!FeedDone,
                  Feed!CaptureFails, Feed!Link, Feed!FetchFails, Feed!Crash, Feed!Publish, Feed!LeaveWindow
    <2>3. ASSUME NEW c \in Containers, Feed!Capture(c), queue[a] # None PROVE queue'[a] = queue[a]
      <3>1. a # poll[c].item
        BY <1>1, <2>3, FeedCapture
      <3> QED  BY <1>1, <2>3, <3>1 DEF Feed!Capture, FeedInv, FeedTypes
    <2> QED  BY <2>1, <2>2, <2>3
  <1>2. FeedInv /\ [Feed!Next]_(Feed!vars) => [Feed!CaptureStep]_(Feed!vars)
    BY <1>1 DEF Feed!CaptureStep
  <1> QED  BY FeedInvariance, <1>2, PTL DEF Feed!Spec

\* poller.ts, recentTitles: two copies of a story are both sent without an editor only when a window apart, or
\* captured by polls that could not see each other's.
THEOREM FeedRepeatHeld == ASSUME Feed!PollOK PROVE Feed!Spec => []Feed!RepeatHeld
  <1>1. FeedInv => Feed!RepeatHeld
    BY DEF FeedInv
  <1> QED  BY FeedInvariance, <1>1, PTL

LEMMA FeedCount == ASSUME NEW S PROVE Feed!Cardinality(S) = Cardinality(S)
  BY DEF Feed!Cardinality, Cardinality, Feed!IsFiniteSet, IsFiniteSet

\* poller.ts: a crash or a failed write costs at most the one article in hand; every other article claimed has its
\* campaign or is being captured.
THEOREM FeedOneLostPerFault == ASSUME Feed!PollOK PROVE Feed!Spec => []Feed!OneLostPerFault
  <1>1. FeedInv => Feed!OneLostPerFault
    BY FeedCount DEF FeedInv, FeedTypes, Captures, Capturing, Feed!OneLostPerFault, Feed!At
  <1> QED  BY FeedInvariance, <1>1, PTL

\* poller.ts: an article is captured once, a repeated headline is not queued on its own, a fault loses one article.
THEOREM FeedCapturesOnce == ASSUME Feed!PollOK PROVE Feed!Spec => Feed!CapturedOnce
  BY FeedOneCapture, FeedRepeatHeld, FeedOneLostPerFault, PTL DEF Feed!CapturedOnce, Feed!CapturedStep

-----------------------------------------------------------------------------
(* The WhatsApp list and its nudge                                         *)

CONSTANTS ArticleOf, DaySlots, Gap, MaxOverlaps
VARIABLES ticked, sent, at, excused, cut, mark, watermark, lastNudge, tick, tells, overlaps

Whats == INSTANCE WhatsAppQueue WITH Slots <- DaySlots

\* A set of numbers has a least one, and where it is bounded a greatest.
LEMMA Least ==
    ASSUME NEW T \in SUBSET Nat, T # {}
    PROVE  \E e \in T : \A d \in T : e <= d
  <1> DEFINE R == {p \in Nat \X Nat : p[1] < p[2]}
  <1>1. IsWellFoundedOn(R, Nat)
    BY NatLessThanWellFounded DEF OpToRel
  <1>3. \A d, e \in Nat : d < e => <<d, e>> \in R
    OBVIOUS
  <1> HIDE DEF R
  <1>2. \E e \in T : \A d \in T : ~(<<d, e>> \in R)
    BY <1>1, WFMin
  <1>4. PICK e \in T : \A d \in T : ~(<<d, e>> \in R)
    BY <1>2
  <1>5. ASSUME NEW d \in T PROVE e <= d
    <2>1. d \in Nat /\ e \in Nat
      OBVIOUS
    <2>2. ~(d < e)
      BY <1>3, <1>4, <2>1
    <2> QED  BY <2>1, <2>2
  <1> QED  BY <1>5

LEMMA Greatest ==
    ASSUME NEW n \in Nat, NEW T \in SUBSET (0 .. n), T # {}
    PROVE  \E e \in T : \A d \in T : d <= e
  <1> DEFINE U == {n - d : d \in T}
  <1>1. \A d \in T : d \in Nat /\ d <= n /\ n - d \in Nat
    OBVIOUS
  <1>2. U \in SUBSET Nat /\ U # {}
    BY <1>1
  <1>3. PICK u \in U : \A v \in U : u <= v
    <2> HIDE DEF U
    <2> QED  BY <1>2, Least
  <1>4. PICK e \in T : u = n - e
    BY <1>3
  <1>5. ASSUME NEW d \in T PROVE d <= e
    <2>1. n - e <= n - d
      BY <1>3, <1>4
    <2> QED  BY <1>1, <2>1
  <1> QED  BY <1>5

LEMMA MinIs ==
    ASSUME NEW T \in SUBSET Nat, T # {}
    PROVE  Whats!Min(T) \in T /\ \A d \in T : Whats!Min(T) <= d
  BY Least DEF Whats!Min

LEMMA MaxIs ==
    ASSUME NEW n \in Nat, NEW T \in SUBSET (0 .. n), T # {}
    PROVE  Whats!Max(T) \in T /\ \A d \in T : d <= Whats!Max(T)
  BY Greatest DEF Whats!Max

\* Moments of later ticks are later.
LEMMA Moments ==
    ASSUME NEW l \in Nat, NEW t \in Nat, NEW u \in Nat, t <= u, NEW p \in 0 .. l
    PROVE  t * (l + 1) + p \in 0 .. u * (l + 1) + l
  OBVIOUS

Top == Whats!Instant(MaxTime, Whats!Last)

WhatsTypes ==
    /\ now \in 1 .. MaxTime /\ ticked \in [Containers -> BOOLEAN] /\ sent \in 0 .. Whats!Last
    /\ at \in [Whats!Pushes -> {Whats!Never} \cup 0 .. Top] /\ \A p \in Whats!Sent : at[p] \in 0 .. Top
    /\ excused \subseteq Whats!Pushes /\ cut \in 1 .. Whats!Last + 1 /\ mark \in [Whats!Keys -> Whats!Marks]
    /\ watermark \in {Whats!Never} \cup 0 .. Top /\ lastNudge \in {Whats!Never} \cup 0 .. MaxTime
    /\ tick \in [Containers -> SUBSET Whats!Sent] /\ tells \in [Whats!Pushes -> Nat]
    /\ crashes \in 0 .. MaxCrashes /\ overlaps \in 0 .. MaxOverlaps

\* A container is to set the watermark no lower than p. A push is safe when that is so of every nudge under way, and
\* of the watermark where none is: no nudge begun now, or after one of these has ended, tells of it.
Covers(c, p) == \E q \in tick[c] : at[q] >= at[p]
Safe(p) ==
    /\ at[p] <= watermark \/ \E c \in Containers : Covers(c, p)
    /\ \A c \in Containers : tick[c] # {} => Covers(c, p)

Repeats == crashes + overlaps
Counted == \A p \in Whats!Pushes : /\ p \notin Whats!Sent => tells[p] = 0
                                   /\ tells[p] <= Repeats + 1 /\ (~Safe(p) => tells[p] <= Repeats)

WhatsInv == WhatsTypes /\ Counted

LEMMA WhatsSizes ==
    ASSUME Whats!QueueOK
    PROVE  /\ Whats!Last \in Nat /\ Top \in Nat /\ MaxTime <= Top /\ Whats!Pushes = 1 .. Whats!Last
           /\ \A t \in 0 .. MaxTime, p \in Whats!Pushes : Whats!Instant(t, p) \in 0 .. Top
  <1> DEFINE l == Whats!Last
  <1>1. l \in Nat /\ MaxTime \in Nat /\ Whats!Pushes = 1 .. l
    BY DEF Whats!QueueOK
  <1> HIDE DEF l
  <1>2. \A t \in 0 .. MaxTime, p \in 0 .. l : t * (l + 1) + p \in 0 .. MaxTime * (l + 1) + l
    BY <1>1, Moments
  <1>3. MaxTime * (l + 1) + l \in Nat /\ MaxTime <= MaxTime * (l + 1) + l
    BY <1>1
  <1>4. Top = MaxTime * (l + 1) + l /\ \A t, p : Whats!Instant(t, p) = t * (l + 1) + p
    BY DEF Top, Whats!Instant, l
  <1>5. 1 .. l \subseteq 0 .. l
    BY <1>1
  <1> QED  BY <1>1, <1>2, <1>3, <1>4, <1>5 DEF l

\* Every row of the list shows a push that was sent.
LEMMA Listed ==
    ASSUME Whats!QueueOK, WhatsTypes
    PROVE  Whats!Waiting \subseteq Whats!Sent
  <1>1. ASSUME NEW p \in Whats!Sent PROVE Whats!PushOf(Whats!KeyOf(p)) \in Whats!Sent
    <2>1. CASE p < cut
      <3>1. p \in Whats!Group(ArticleOf[p]) /\ Whats!Group(ArticleOf[p]) \subseteq Whats!Sent
        BY <1>1, <2>1 DEF Whats!Group, Whats!OldRule
      <3>2. Whats!Sent \subseteq Nat
        BY DEF Whats!Sent
      <3>3. Whats!Min(Whats!Group(ArticleOf[p])) \in Whats!Sent
        BY <3>1, <3>2, MinIs
      <3>4. Whats!KeyOf(p) = <<"article", ArticleOf[p]>>
        BY <2>1 DEF Whats!KeyOf
      <3> QED  BY <3>3, <3>4 DEF Whats!PushOf
    <2>2. CASE ~(p < cut)
      BY <1>1, <2>2 DEF Whats!KeyOf, Whats!PushOf
    <2> QED  BY <2>1, <2>2
  <1> QED  BY <1>1 DEF Whats!Waiting, Whats!RowKeys

LEMMA WhatsInit == ASSUME Whats!QueueOK PROVE Whats!Init => WhatsInv
  <1> SUFFICES ASSUME Whats!Init PROVE WhatsInv
    OBVIOUS
  <1>1. /\ now = DaySlots - 3 /\ ticked = [c \in Containers |-> FALSE] /\ sent = 0
        /\ at = [p \in Whats!Pushes |-> Whats!Never] /\ excused = {} /\ cut \in {1, Whats!Last + 1}
        /\ mark = [k \in Whats!Keys |-> "TODO"] /\ watermark = Whats!Never /\ lastNudge = Whats!Never
        /\ tick = [c \in Containers |-> {}] /\ tells = [p \in Whats!Pushes |-> 0] /\ crashes = 0 /\ overlaps = 0
    BY DEF Whats!Init
  <1>2. Whats!Sent = {}
    BY <1>1 DEF Whats!Sent
  <1>3. /\ DaySlots \in Nat /\ Gap \in Nat /\ MaxTime \in Nat /\ MaxCrashes \in Nat /\ MaxOverlaps \in Nat
        /\ DaySlots > Gap + 3 /\ DaySlots <= MaxTime + 3
    BY DEF Whats!QueueOK
  <1>4. now \in 1 .. MaxTime /\ crashes \in 0 .. MaxCrashes /\ overlaps \in 0 .. MaxOverlaps
    BY <1>1, <1>3
  <1>5. mark \in [Whats!Keys -> Whats!Marks] /\ sent \in 0 .. Whats!Last /\ cut \in 1 .. Whats!Last + 1
    BY <1>1, WhatsSizes DEF Whats!Marks
  <1>6. /\ tells \in [Whats!Pushes -> Nat] /\ at \in [Whats!Pushes -> {Whats!Never} \cup 0 .. Top]
        /\ ticked \in [Containers -> BOOLEAN] /\ tick \in [Containers -> SUBSET Whats!Sent]
    BY <1>1
  <1>7. WhatsTypes
    BY <1>1, <1>2, <1>4, <1>5, <1>6 DEF WhatsTypes
  <1> QED  BY <1>1, <1>7 DEF WhatsInv, Counted, Repeats

\* What a step leaves of the types when it changes only the nudges, their watermark and the counters.
LEMMA NudgeTypes ==
    ASSUME WhatsTypes, UNCHANGED <<now, sent, at, excused, cut, mark>>, ticked' \in [Containers -> BOOLEAN],
           tick' \in [Containers -> SUBSET Whats!Sent], watermark' \in {Whats!Never} \cup 0 .. Top,
           lastNudge' \in {Whats!Never} \cup 0 .. MaxTime, tells' \in [Whats!Pushes -> Nat],
           crashes' \in 0 .. MaxCrashes, overlaps' \in 0 .. MaxOverlaps
    PROVE  WhatsTypes' /\ Whats!Sent' = Whats!Sent
  <1>1. Whats!Sent' = Whats!Sent
    BY DEF Whats!Sent
  <1> QED  BY <1>1 DEF WhatsTypes

\* A nudge tells the devices: alone, of pushes above the watermark; beside another, as the counter says.
LEMMA WhatsNudge ==
    ASSUME Whats!QueueOK, WhatsInv, NEW c \in Containers, Whats!Nudge(c), ~UNCHANGED <<tick, tells, overlaps>>
    PROVE  WhatsInv'
  <1> DEFINE F == Whats!Fresh
  <1>1. WhatsTypes /\ Counted
    BY DEF WhatsInv
  <1>2. /\ tick[c] = {} /\ F # {} /\ ticked' = [ticked EXCEPT ![c] = TRUE] /\ tick' = [tick EXCEPT ![c] = F]
        /\ tells' = [p \in Whats!Pushes |-> IF p \in F THEN tells[p] + 1 ELSE tells[p]]
        /\ overlaps' = IF \A d \in Containers : tick[d] = {} THEN overlaps ELSE overlaps + 1
        /\ overlaps' <= MaxOverlaps
        /\ UNCHANGED <<now, sent, at, excused, cut, mark, watermark, lastNudge, crashes>>
    BY DEF Whats!Nudge, Whats!Idle
  <1>3. /\ Whats!Never = -9 /\ MaxOverlaps \in Nat /\ Top \in Nat /\ \A p \in Whats!Sent : at[p] \in 0 .. Top
        /\ watermark \in {-9} \cup 0 .. Top /\ crashes \in Nat /\ overlaps \in Nat
        /\ tick \in [Containers -> SUBSET Whats!Sent] /\ tells \in [Whats!Pushes -> Nat]
    BY <1>1, WhatsSizes DEF WhatsTypes, Whats!Never, Whats!QueueOK
  <1>4. F \subseteq Whats!Sent /\ \A p \in F : at[p] > watermark
    <2>1. F \subseteq Whats!Sent
      BY <1>1, Listed DEF Whats!Fresh
    <2>2. ASSUME NEW p \in F PROVE at[p] > watermark
      <3>1. at[p] \in Nat
        BY <1>3, <2>1
      <3>2. Whats!IsNew(p)
        BY DEF Whats!Fresh
      <3> QED  BY <1>3, <3>1, <3>2 DEF Whats!IsNew
    <2> QED  BY <2>1, <2>2
  <1> HIDE DEF F
  <1>5. /\ tick' \in [Containers -> SUBSET Whats!Sent] /\ tick'[c] = F
        /\ \A d \in Containers : d # c => tick'[d] = tick[d]
    BY <1>2, <1>3, <1>4
  <1>6. overlaps' \in 0 .. MaxOverlaps /\ Repeats \in Nat /\ Repeats' \in Nat
    BY <1>2, <1>3 DEF Repeats
  <1>7. tells' \in [Whats!Pushes -> Nat] /\ \A p \in Whats!Pushes : tells'[p] = IF p \in F THEN tells[p] + 1 ELSE tells[p]
    BY <1>2, <1>3
  <1>8. WhatsTypes' /\ Whats!Sent' = Whats!Sent
    <2>1. ticked' \in [Containers -> BOOLEAN] /\ crashes' \in 0 .. MaxCrashes
      BY <1>1, <1>2 DEF WhatsTypes
    <2>2. watermark' \in {Whats!Never} \cup 0 .. Top /\ lastNudge' \in {Whats!Never} \cup 0 .. MaxTime
      BY <1>1, <1>2 DEF WhatsTypes
    <2> QED  BY <1>1, <1>2, <1>5, <1>6, <1>7, <2>1, <2>2, NudgeTypes
  <1>9. \A d \in Containers : \A p : d # c => (Covers(d, p)' <=> Covers(d, p))
    BY <1>2, <1>5 DEF Covers
  <1>10. \A p \in F : Covers(c, p)'
    BY <1>2, <1>3, <1>4, <1>5 DEF Covers
  <1>11. ASSUME NEW p \in Whats!Pushes
         PROVE  /\ p \notin Whats!Sent => tells'[p] = 0
                /\ tells'[p] <= Repeats' + 1 /\ (~Safe(p)' => tells'[p] <= Repeats')
    <2>1. /\ p \notin Whats!Sent => tells[p] = 0
          /\ tells[p] <= Repeats + 1 /\ (~Safe(p) => tells[p] <= Repeats) /\ tells[p] \in Nat
      BY <1>1, <1>3 DEF Counted
    <2>2. CASE \A d \in Containers : tick[d] = {}
      <3>1. Repeats' = Repeats /\ \A d \in Containers : ~Covers(d, p)
        BY <1>2, <2>2 DEF Repeats, Covers
      <3>2. Covers(c, p)' => Safe(p)'
        BY <1>5, <2>2 DEF Safe
      <3>3. CASE p \in F
        <4>1. ~Safe(p)
          BY <1>3, <1>4, <3>1, <3>3 DEF Safe
        <4>2. Safe(p)' /\ p \in Whats!Sent
          BY <1>4, <1>10, <3>2, <3>3
        <4> QED  BY <1>6, <1>7, <2>1, <3>1, <3>3, <4>1, <4>2
      <3>4. CASE p \notin F
        <4>1. ASSUME Safe(p), p \in Whats!Sent PROVE Safe(p)'
          <5>1. PICK f \in F : TRUE
            BY <1>2
          <5>2. at[p] <= watermark /\ at[f] > watermark /\ at[f] \in 0 .. Top /\ at[p] \in 0 .. Top
            BY <1>3, <1>4, <3>1, <4>1 DEF Safe
          <5>3. at[f] >= at[p]
            BY <1>3, <5>2
          <5>4. Covers(c, p)'
            BY <1>2, <1>5, <5>3 DEF Covers
          <5> QED  BY <3>2, <5>4
        <4> QED  BY <1>6, <1>7, <2>1, <3>1, <3>4, <4>1
      <3> QED  BY <3>3, <3>4
    <2>3. CASE ~\A d \in Containers : tick[d] = {}
      <3>1. Repeats' = Repeats + 1
        BY <1>2, <1>3, <2>3 DEF Repeats
      <3>2. CASE p \in F
        <4>1. ASSUME Safe(p) PROVE Safe(p)'
          <5>1. PICK d \in Containers : tick[d] # {}
            BY <2>3
          <5>2. Covers(d, p)' /\ d # c
            BY <1>2, <1>9, <4>1, <5>1 DEF Safe
          <5>3. \A e \in Containers : tick'[e] # {} => Covers(e, p)'
            BY <1>5, <1>9, <1>10, <3>2, <4>1 DEF Safe
          <5> QED  BY <5>2, <5>3 DEF Safe
        <4>2. p \in Whats!Sent
          BY <1>4, <3>2
        <4> QED  BY <1>6, <1>7, <2>1, <3>1, <3>2, <4>1, <4>2
      <3>3. CASE p \notin F
        BY <1>6, <1>7, <2>1, <3>1, <3>3
      <3> QED  BY <3>2, <3>3
    <2> QED  BY <2>2, <2>3
  <1>12. Counted'
    BY <1>2, <1>8, <1>11 DEF Counted
  <1> QED  BY <1>8, <1>12 DEF WhatsInv

\* A nudge writes the newest it told of, which is no lower than what was safe.
LEMMA WhatsSaved ==
    ASSUME Whats!QueueOK, WhatsInv, NEW c \in Containers, Whats!NudgeSaved(c)
    PROVE  WhatsInv'
  <1> DEFINE T == {at[p] : p \in tick[c]}
  <1>1. WhatsTypes /\ Counted
    BY DEF WhatsInv
  <1>2. /\ tick[c] # {} /\ tick' = [tick EXCEPT ![c] = {}] /\ watermark' = Whats!Max(T) /\ lastNudge' = now
        /\ UNCHANGED <<now, ticked, sent, at, excused, cut, mark, tells, crashes, overlaps>>
    BY DEF Whats!NudgeSaved, Whats!Idle
  <1>3. Top \in Nat /\ tick \in [Containers -> SUBSET Whats!Sent] /\ \A p \in Whats!Sent : at[p] \in 0 .. Top
    BY <1>1, WhatsSizes DEF WhatsTypes
  <1>4. T \subseteq 0 .. Top /\ T # {}
    BY <1>2, <1>3
  <1>5. Whats!Max(T) \in T /\ \A d \in T : d <= Whats!Max(T)
    <2> HIDE DEF T
    <2> QED  BY <1>3, <1>4, MaxIs
  <1>6. watermark' \in 0 .. Top /\ \A q \in tick[c] : at[q] <= watermark'
    BY <1>2, <1>4, <1>5
  <1> HIDE DEF T
  <1>7. /\ tick' \in [Containers -> SUBSET Whats!Sent] /\ tick'[c] = {}
        /\ \A d \in Containers : d # c => tick'[d] = tick[d]
    BY <1>2, <1>3
  <1>8. WhatsTypes' /\ Whats!Sent' = Whats!Sent
    <2>1. /\ ticked' \in [Containers -> BOOLEAN] /\ tells' \in [Whats!Pushes -> Nat] /\ crashes' \in 0 .. MaxCrashes
          /\ overlaps' \in 0 .. MaxOverlaps /\ lastNudge' \in {Whats!Never} \cup 0 .. MaxTime
      BY <1>1, <1>2 DEF WhatsTypes
    <2> QED  BY <1>1, <1>2, <1>6, <1>7, <2>1, NudgeTypes
  <1>9. ASSUME NEW p \in Whats!Sent, Safe(p) PROVE Safe(p)'
    <2>1. PICK q \in tick[c] : at[q] >= at[p]
      BY <1>2, <1>9 DEF Safe, Covers
    <2>2. at[q] \in 0 .. Top /\ at[p] \in 0 .. Top /\ at[q] <= watermark'
      BY <1>3, <1>6
    <2>3. at[p] <= watermark'
      BY <1>3, <1>6, <2>1, <2>2
    <2>4. ASSUME NEW d \in Containers, tick'[d] # {} PROVE Covers(d, p)'
      <3>1. d # c /\ tick'[d] = tick[d]
        BY <1>7, <2>4
      <3>2. Covers(d, p)
        BY <1>9, <2>4, <3>1 DEF Safe
      <3> QED  BY <1>2, <3>1, <3>2 DEF Covers
    <2> QED  BY <1>2, <2>3, <2>4 DEF Safe
  <1>10. Counted'
    <2>1. Repeats' = Repeats /\ Repeats \in Nat
      BY <1>1, <1>2 DEF Repeats, WhatsTypes
    <2>2. ASSUME NEW p \in Whats!Pushes
          PROVE  /\ p \notin Whats!Sent => tells[p] = 0
                 /\ tells[p] <= Repeats + 1 /\ (~Safe(p)' => tells[p] <= Repeats)
      BY <1>1, <1>9, <2>1 DEF Counted
    <2> QED  BY <1>2, <1>8, <2>1, <2>2 DEF Counted
  <1> QED  BY <1>8, <1>10 DEF WhatsInv

\* A push is sent, later than no other that counts.
LEMMA WhatsSends ==
    ASSUME Whats!QueueOK, WhatsInv, Whats!PushSent
    PROVE  WhatsInv'
  <1> DEFINE n == sent + 1
  <1>1. WhatsTypes /\ Counted
    BY DEF WhatsInv
  <1>2. PICK t \in {now, now - 1} :
          /\ t >= 0 /\ at' = [at EXCEPT ![n] = Whats!Instant(t, n)]
          /\ excused' = IF t < now THEN excused \cup {n} ELSE excused
    BY DEF Whats!PushSent
  <1>3. /\ sent < Whats!Last /\ sent' = n
        /\ UNCHANGED <<now, ticked, cut, mark, watermark, lastNudge, tick, tells, crashes, overlaps>>
    BY DEF Whats!PushSent
  <1>4. /\ Whats!Last \in Nat /\ Whats!Pushes = 1 .. Whats!Last /\ MaxTime \in Nat
        /\ sent \in 0 .. Whats!Last /\ now \in 1 .. MaxTime /\ at \in [Whats!Pushes -> {Whats!Never} \cup 0 .. Top]
        /\ excused \subseteq Whats!Pushes /\ tick \in [Containers -> SUBSET Whats!Sent]
        /\ \A p \in Whats!Sent : at[p] \in 0 .. Top
    BY <1>1, WhatsSizes DEF WhatsTypes, Whats!QueueOK
  <1>5. n \in Whats!Pushes /\ n \in 0 .. Whats!Last /\ t \in 0 .. MaxTime
    BY <1>2, <1>3, <1>4
  <1>6. Whats!Sent' = Whats!Sent \cup {n} /\ n \notin Whats!Sent /\ Whats!Sent \subseteq Whats!Pushes
    BY <1>3, <1>4 DEF Whats!Sent
  <1>7. Whats!Instant(t, n) \in 0 .. Top
    BY <1>5, WhatsSizes
  <1> HIDE DEF n
  <1>8. /\ at' \in [Whats!Pushes -> {Whats!Never} \cup 0 .. Top] /\ at'[n] \in 0 .. Top
        /\ \A p \in Whats!Sent : at'[p] = at[p]
    BY <1>2, <1>4, <1>5, <1>6, <1>7
  <1>9. WhatsTypes'
    <2>1. excused' \subseteq Whats!Pushes
      BY <1>2, <1>4, <1>5
    <2>2. \A p \in Whats!Sent' : at'[p] \in 0 .. Top
      BY <1>4, <1>6, <1>8
    <2>3. tick' \in [Containers -> SUBSET Whats!Sent']
      BY <1>3, <1>4, <1>6
    <2> QED  BY <1>1, <1>3, <1>5, <1>8, <2>1, <2>2, <2>3 DEF WhatsTypes
  <1>10. ASSUME NEW p \in Whats!Sent PROVE Safe(p)' <=> Safe(p)
    <2>1. \A c \in Containers : Covers(c, p)' <=> Covers(c, p)
      BY <1>3, <1>4, <1>8 DEF Covers
    <2> QED  BY <1>3, <1>8, <2>1 DEF Safe
  <1>11. Counted'
    <2>1. Repeats' = Repeats /\ Repeats \in Nat
      BY <1>1, <1>3 DEF Repeats, WhatsTypes
    <2>2. ASSUME NEW p \in Whats!Pushes
          PROVE  /\ p \notin Whats!Sent' => tells[p] = 0
                 /\ tells[p] <= Repeats + 1 /\ (~Safe(p)' => tells[p] <= Repeats)
      BY <1>1, <1>6, <1>10, <2>1 DEF Counted
    <2> QED  BY <1>3, <2>1, <2>2 DEF Counted
  <1> QED  BY <1>9, <1>11 DEF WhatsInv

LEMMA WhatsNext ==
    ASSUME Whats!QueueOK, WhatsInv, [Whats!Next]_(Whats!vars)
    PROVE  WhatsInv'
  <1>1. WhatsTypes /\ Counted
    BY DEF WhatsInv
  <1>2. /\ Whats!Last \in Nat /\ MaxTime \in Nat /\ MaxCrashes \in Nat /\ Whats!Pushes = 1 .. Whats!Last
        /\ Whats!Sent \subseteq Whats!Pushes /\ crashes \in 0 .. MaxCrashes /\ overlaps \in 0 .. MaxOverlaps
        /\ tells \in [Whats!Pushes -> Nat] /\ tick \in [Containers -> SUBSET Whats!Sent]
    BY <1>1, WhatsSizes DEF WhatsTypes, Whats!QueueOK, Whats!Sent
  <1>3. ASSUME UNCHANGED <<sent, at, watermark, tick, tells, overlaps>>, now' \in 1 .. MaxTime,
               ticked' \in [Containers -> BOOLEAN],
               excused' \subseteq Whats!Pushes, cut' \in 1 .. Whats!Last + 1, mark' \in [Whats!Keys -> Whats!Marks],
               UNCHANGED lastNudge, crashes' \in {crashes, crashes + 1}, crashes' <= MaxCrashes
        PROVE  WhatsInv'
    <2>1. crashes' \in 0 .. MaxCrashes /\ Repeats <= Repeats' /\ Repeats \in Nat /\ Repeats' \in Nat
      <3>1. crashes \in Nat /\ crashes' \in Nat /\ crashes <= crashes' /\ crashes' \in 0 .. MaxCrashes
        BY <1>2, <1>3
      <3>2. overlaps \in Nat /\ overlaps' = overlaps
        BY <1>2, <1>3
      <3>3. Repeats = crashes + overlaps /\ Repeats' = crashes' + overlaps
        BY <3>2 DEF Repeats
      <3>4. \A m, n, o \in Nat : m <= n => m + o \in Nat /\ n + o \in Nat /\ m + o <= n + o
        OBVIOUS
      <3>5. crashes + overlaps \in Nat /\ crashes' + overlaps \in Nat /\ crashes + overlaps <= crashes' + overlaps
        BY <3>1, <3>2, <3>4
      <3> QED  BY <3>1, <3>3, <3>5
    <2>2. Whats!Sent' = Whats!Sent /\ \A p : Safe(p)' <=> Safe(p)
      BY <1>3 DEF Whats!Sent, Safe, Covers
    <2>3. WhatsTypes'
      BY <1>1, <1>3, <2>1, <2>2 DEF WhatsTypes
    <2>4. ASSUME NEW p \in Whats!Pushes
          PROVE  tells[p] <= Repeats' + 1 /\ (~Safe(p) => tells[p] <= Repeats')
      <3>1. tells[p] \in Nat /\ tells[p] <= Repeats + 1 /\ (~Safe(p) => tells[p] <= Repeats)
        BY <1>1, <1>2 DEF Counted
      <3> QED  BY <2>1, <3>1
    <2>5. Counted'
      BY <1>1, <1>3, <2>2, <2>4 DEF Counted
    <2> QED  BY <2>3, <2>5 DEF WhatsInv
  <1>4. ASSUME NEW p \in Whats!Pushes, NEW s \in Whats!Marks, Whats!Mark(p, s) PROVE WhatsInv'
    <2>1. \A k \in Whats!Keys : mark[k] \in Whats!Marks
      BY <1>1 DEF WhatsTypes
    <2>2. mark' \in [Whats!Keys -> Whats!Marks]
      <3>1. CASE s = "TODO"
        BY <1>4, <2>1, <3>1 DEF Whats!Mark, Whats!Marks
      <3>2. CASE s # "TODO"
        BY <1>1, <1>4, <3>2 DEF Whats!Mark, WhatsTypes
      <3> QED  BY <3>1, <3>2
    <2>3. excused' \subseteq Whats!Pushes
      BY <1>1, <1>2, <1>4 DEF Whats!Mark, WhatsTypes
    <2> QED  BY <1>1, <1>3, <1>4, <2>2, <2>3 DEF Whats!Mark, WhatsTypes
  <1>5. ASSUME NEW c \in Containers, Whats!Nudge(c) PROVE WhatsInv'
    <2>1. CASE UNCHANGED <<tick, tells, overlaps>>
      <3>1. ticked' \in [Containers -> BOOLEAN]
        BY <1>1, <1>5 DEF Whats!Nudge, WhatsTypes
      <3> QED  BY <1>1, <1>3, <1>5, <2>1, <3>1 DEF Whats!Nudge, WhatsTypes
    <2>2. CASE ~UNCHANGED <<tick, tells, overlaps>>
      BY <1>5, <2>2, WhatsNudge
    <2> QED  BY <2>1, <2>2
  <1>6. ASSUME NEW c \in Containers, Whats!NudgeSaved(c) PROVE WhatsInv'
    BY <1>6, WhatsSaved
  <1>7. CASE Whats!PushSent
    BY <1>7, WhatsSends
  <1>8. CASE Whats!Time
    <2>1. now' \in 1 .. MaxTime /\ ticked' \in [Containers -> BOOLEAN]
      BY <1>1, <1>2, <1>8 DEF Whats!Time, WhatsTypes
    <2>2. crashes <= MaxCrashes
      BY <1>2
    <2> QED  BY <1>1, <1>3, <1>8, <2>1, <2>2 DEF Whats!Time, WhatsTypes
  <1>9. ASSUME NEW c \in Containers, Whats!Crash(c) PROVE WhatsInv'
    <2>1. /\ crashes' = crashes + 1 /\ tick' = [tick EXCEPT ![c] = {}] /\ ticked' = [ticked EXCEPT ![c] = FALSE]
          /\ UNCHANGED <<now, sent, at, excused, cut, mark, watermark, lastNudge, tells, overlaps>>
      BY <1>9 DEF Whats!Crash
    <2>2. crashes' \in 0 .. MaxCrashes /\ Repeats' = Repeats + 1 /\ Repeats \in Nat
      BY <1>2, <1>9, <2>1 DEF Whats!Crash, Repeats
    <2>3. tick' \in [Containers -> SUBSET Whats!Sent] /\ ticked' \in [Containers -> BOOLEAN]
      BY <1>1, <1>2, <2>1 DEF WhatsTypes
    <2>4. WhatsTypes' /\ Whats!Sent' = Whats!Sent
      <3>1. watermark' \in {Whats!Never} \cup 0 .. Top /\ lastNudge' \in {Whats!Never} \cup 0 .. MaxTime
        BY <1>1, <2>1 DEF WhatsTypes
      <3> QED  BY <1>1, <1>2, <2>1, <2>2, <2>3, <3>1, NudgeTypes
    <2>5. ASSUME NEW p \in Whats!Pushes
          PROVE  (p \notin Whats!Sent => tells[p] = 0) /\ tells[p] <= Repeats' /\ tells[p] <= Repeats' + 1
      <3>1. tells[p] \in Nat /\ tells[p] <= Repeats + 1 /\ (p \notin Whats!Sent => tells[p] = 0)
        BY <1>1, <1>2 DEF Counted
      <3> QED  BY <2>2, <3>1
    <2>6. Counted'
      BY <2>1, <2>4, <2>5 DEF Counted
    <2> QED  BY <2>4, <2>6 DEF WhatsInv
  <1>10. CASE Whats!NewRule
    <2>1. cut' \in 1 .. Whats!Last + 1
      BY <1>1, <1>2, <1>10 DEF Whats!NewRule, WhatsTypes
    <2>2. crashes' = crashes + 1 /\ crashes' <= MaxCrashes
      BY <1>2, <1>10 DEF Whats!NewRule
    <2> QED  BY <1>1, <1>3, <1>10, <2>1, <2>2 DEF Whats!NewRule, WhatsTypes
  <1>11. CASE UNCHANGED Whats!vars
    <2>1. crashes' <= MaxCrashes
      BY <1>2, <1>11 DEF Whats!vars
    <2> QED  BY <1>1, <1>3, <1>11, <2>1 DEF Whats!vars, WhatsTypes
  <1> QED  BY <1>4, <1>5, <1>6, <1>7, <1>8, <1>9, <1>10, <1>11 DEF Whats!Next

THEOREM WhatsInvariance == ASSUME Whats!QueueOK PROVE Whats!Spec => []WhatsInv
  BY WhatsInit, WhatsNext, PTL DEF Whats!Spec

\* Every variable of the WhatsApp list holds a value of its kind, and a push that is sent has the moment it was
\* sent at, for any number of pushes and articles.
THEOREM WhatsTypeCorrect == ASSUME Whats!QueueOK PROVE Whats!Spec => []Whats!TypeOK
  <1>1. WhatsInv => Whats!TypeOK
    <2> SUFFICES ASSUME WhatsInv PROVE Whats!TypeOK
      OBVIOUS
    <2>1. WhatsTypes /\ Top \in Nat /\ MaxTime \in Nat /\ MaxTime <= Top /\ Whats!Sent \subseteq Whats!Pushes
      <3>1. WhatsTypes /\ Top \in Nat /\ MaxTime \in Nat /\ MaxTime <= Top /\ sent \in 0 .. Whats!Last
        BY WhatsSizes DEF WhatsInv, Whats!QueueOK, WhatsTypes
      <3> QED  BY <3>1, WhatsSizes DEF Whats!Sent
    <2>2. lastNudge \in {Whats!Never} \cup 0 .. Top
      BY <2>1 DEF WhatsTypes
    <2>3. {watermark, lastNudge} \subseteq {Whats!Never} \cup 0 .. Top /\ tick \in [Containers -> SUBSET Whats!Pushes]
      BY <2>1, <2>2 DEF WhatsTypes
    <2> QED  BY <2>1, <2>3 DEF WhatsTypes, Whats!TypeOK, Top
  <1> QED  BY WhatsInvariance, <1>1, PTL

\* runWhatsAppNudge: a push is told of as new once, and once more for each time a nudge died before its watermark was
\* written or began while another container's was under way, for any number of containers.
THEOREM WhatsToldOnce == ASSUME Whats!QueueOK PROVE Whats!Spec => []Whats!ToldOnce
  <1>1. WhatsInv => Whats!ToldOnce
    <2> SUFFICES ASSUME WhatsInv, NEW p \in Whats!Pushes PROVE tells[p] <= 1 + crashes + overlaps
      BY DEF Whats!ToldOnce
    <2>1. tells[p] \in Nat /\ crashes \in Nat /\ overlaps \in Nat /\ tells[p] <= Repeats + 1
      BY DEF WhatsInv, WhatsTypes, Counted
    <2> QED  BY <2>1 DEF Repeats
  <1> QED  BY WhatsInvariance, <1>1, PTL

\* The key of a sent push's row is one of the keys that carry a mark.
LEMMA KeyIs ==
    ASSUME NEW p \in Whats!Pushes
    PROVE  /\ Whats!KeyOf(p) \in Whats!Keys
           /\ p < cut => Whats!KeyOf(p) = <<"article", ArticleOf[p]>>
           /\ ~(p < cut) => Whats!KeyOf(p) = <<"push", p>>
  BY DEF Whats!KeyOf, Whats!Keys, Whats!Articles

\* The mark the list shows for the article of pushes of the old rule.
LEMMA ArticleShows ==
    ASSUME Whats!QueueOK, WhatsTypes, NEW a
    PROVE  LET k == <<"article", a>>  via == {p \in Whats!Group(a) : mark[<<"push", p>>] # "TODO"}
           IN  /\ mark[k] # "TODO" => Whats!Shown(k) = mark[k]
               /\ mark[k] = "TODO" /\ via = {} => Whats!Shown(k) = "TODO"
               /\ via # {} => Whats!Shown(k) # "TODO"
  <1> DEFINE k == <<"article", a>>
             via == {p \in Whats!Group(a) : mark[<<"push", p>>] # "TODO"}
  <1>1. k[1] # "push" /\ k[2] = a
    OBVIOUS
  <1>2. Whats!Shown(k) = IF mark[k] # "TODO" THEN mark[k]
                         ELSE IF via = {} THEN "TODO" ELSE mark[<<"push", Whats!Max(via)>>]
    BY <1>1 DEF Whats!Shown
  <1>3. ASSUME via # {} PROVE Whats!Max(via) \in via
    <2>1. Whats!Last \in Nat /\ Whats!Group(a) \subseteq 0 .. Whats!Last
      BY WhatsSizes DEF WhatsTypes, Whats!Group, Whats!OldRule, Whats!Sent
    <2>2. via \subseteq 0 .. Whats!Last
      BY <2>1
    <2> HIDE DEF via
    <2> QED  BY <1>3, <2>1, <2>2, MaxIs
  <1> QED  BY <1>2, <1>3

\* updateMark: the list shows what the editor just did to a row, undo included, whichever rule older marks of the
\* article were made under.
THEOREM WhatsMarksShown == ASSUME Whats!QueueOK PROVE Whats!Spec => Whats!MarksShown
  <1>1. ASSUME WhatsInv, WhatsInv', NEW p \in Whats!Pushes, NEW s \in Whats!Marks, Whats!Mark(p, s)
        PROVE  Whats!Shown(Whats!KeyOf(p))' = s
    <2>1. p \in Whats!Sent /\ UNCHANGED <<sent, cut>> /\ mark \in [Whats!Keys -> Whats!Marks] /\ WhatsTypes /\ WhatsTypes'
      BY <1>1 DEF Whats!Mark, WhatsInv, WhatsTypes
    <2> DEFINE k == Whats!KeyOf(p)
    <2>2. k \in Whats!Keys /\ Whats!KeyOf(p)' = k
      BY <2>1, KeyIs DEF Whats!KeyOf
    <2>3. p < cut => k = <<"article", ArticleOf[p]>>
      BY KeyIs
    <2>4. ~(p < cut) => k = <<"push", p>>
      BY KeyIs
    <2>5. CASE s # "TODO"
      <3>1. mark'[k] = s
        BY <1>1, <2>1, <2>2, <2>5 DEF Whats!Mark
      <3>2. \A q : (mark'[q] # "TODO") => Whats!Shown(q)' = mark'[q]
        BY DEF Whats!Shown
      <3> QED  BY <2>2, <2>5, <3>1, <3>2 DEF Whats!Shown
    <2>6. CASE s = "TODO"
      <3>1. mark' = [q \in Whats!Keys |-> IF q \in Whats!Cleared(k) THEN "TODO" ELSE mark[q]]
        BY <1>1, <2>6 DEF Whats!Mark
      <3>2. mark'[k] = "TODO"
        BY <2>2, <3>1 DEF Whats!Cleared
      <3>3. CASE ~(p < cut)
        <4>1. k[1] = "push"
          BY <2>4, <3>3
        <4> QED  BY <2>2, <2>6, <3>2, <4>1 DEF Whats!Shown
      <3>4. CASE p < cut
        <4> DEFINE a == ArticleOf[p]
        <4>1. k[1] = "article" /\ k[2] = a /\ k = <<"article", a>>
          BY <2>3, <3>4
        <4>2. ASSUME NEW q \in Whats!Group(a)' PROVE mark'[<<"push", q>>] = "TODO"
          <5>1. q \in Whats!Sent /\ ArticleOf[q] = a /\ q \in Whats!Pushes
            BY <2>1, <4>2, WhatsSizes DEF Whats!Group, Whats!OldRule, Whats!Sent, WhatsTypes
          <5>2. <<"push", q>> \in Whats!Cleared(k) /\ <<"push", q>> \in Whats!Keys
            BY <4>1, <5>1 DEF Whats!Cleared, Whats!Keys
          <5> QED  BY <3>1, <5>2
        <4>3. Whats!Shown(<<"article", a>>)' = "TODO"
          <5>1. {q \in Whats!Group(a)' : mark'[<<"push", q>>] # "TODO"} = {}
            BY <4>2
          <5> QED  BY <3>2, <4>1, <5>1 DEF Whats!Shown
        <4> QED  BY <2>2, <2>6, <4>1, <4>3
      <3> QED  BY <3>3, <3>4
    <2> QED  BY <2>5, <2>6
  <1>2. WhatsInv /\ WhatsInv' /\ [Whats!Next]_(Whats!vars) => [Whats!MarkStep]_(Whats!vars)
    BY <1>1 DEF Whats!MarkStep
  <1> QED  BY WhatsInvariance, <1>2, PTL DEF Whats!Spec, Whats!MarksShown

\* loadWhatsappQueue: switching "every push gets a row" on or off lists no article as waiting again when one of its
\* pushes was handled.
THEOREM WhatsNeverRelisted == ASSUME Whats!QueueOK PROVE Whats!Spec => Whats!NeverRelisted
  <1>1. ASSUME WhatsInv, WhatsInv', Whats!Next, cut' # cut, NEW p \in Whats!OldRule',
               NEW q \in Whats!Sent, ArticleOf[q] = ArticleOf[p], Whats!Shown(Whats!KeyOf(q)) # "TODO"
        PROVE  Whats!Shown(Whats!KeyOf(p))' # "TODO"
    <2> DEFINE a == ArticleOf[p]
               k == <<"article", a>>
    <2>1. UNCHANGED <<sent, mark>>
      BY <1>1 DEF Whats!Next, Whats!Mark, Whats!Nudge, Whats!NudgeSaved, Whats!PushSent, Whats!Time, Whats!Crash, Whats!NewRule
    <2>2. cut' = sent + 1 \/ cut' = Whats!Last + 1
      BY <1>1 DEF Whats!Next, Whats!Mark, Whats!Nudge, Whats!NudgeSaved, Whats!PushSent, Whats!Time, Whats!Crash, Whats!NewRule
    <2>3. WhatsTypes /\ WhatsTypes' /\ sent \in 0 .. Whats!Last /\ Whats!Last \in Nat /\ Whats!Pushes = 1 .. Whats!Last
      BY <1>1, WhatsSizes DEF WhatsInv, WhatsTypes
    <2>4. Whats!OldRule' = Whats!Sent
      BY <2>1, <2>2, <2>3 DEF Whats!OldRule, Whats!Sent
    <2>5. Whats!Group(a)' = {r \in Whats!Sent : ArticleOf[r] = a}
      BY <2>4 DEF Whats!Group
    <2>6. Whats!KeyOf(p)' = k
      BY DEF Whats!OldRule, Whats!KeyOf
    <2>7. mark[k] # "TODO" \/ \E r \in Whats!Sent : ArticleOf[r] = a /\ mark[<<"push", r>>] # "TODO"
      <3>1. CASE q < cut
        <4>1. Whats!KeyOf(q) = k
          BY <1>1, <3>1 DEF Whats!KeyOf
        <4>2. Whats!Group(a) \subseteq {r \in Whats!Sent : ArticleOf[r] = a}
          BY DEF Whats!Group, Whats!OldRule
        <4> QED  BY <1>1, <2>3, <4>1, <4>2, ArticleShows
      <3>2. CASE ~(q < cut)
        <4>1. Whats!KeyOf(q) = <<"push", q>>
          BY <3>2 DEF Whats!KeyOf
        <4> QED  BY <1>1, <4>1 DEF Whats!Shown
      <3> QED  BY <3>1, <3>2
    <2>8. Whats!Shown(k)' # "TODO"
      <3> DEFINE via == {r \in Whats!Sent : ArticleOf[r] = a /\ mark[<<"push", r>>] # "TODO"}
      <3>1. k[1] # "push" /\ k[2] = a
        OBVIOUS
      <3>2. {r \in Whats!Group(a)' : mark'[<<"push", r>>] # "TODO"} = via
        BY <2>1, <2>5
      <3>3. Whats!Shown(k)' = IF mark[k] # "TODO" THEN mark[k] ELSE IF via = {} THEN "TODO" ELSE mark[<<"push", Whats!Max(via)>>]
        BY <2>1, <3>1, <3>2 DEF Whats!Shown
      <3>4. via # {} => Whats!Max(via) \in via
        <4>1. via \subseteq 0 .. Whats!Last
          BY <2>3 DEF Whats!Sent
        <4> HIDE DEF via
        <4> QED  BY <2>3, <4>1, MaxIs
      <3> QED  BY <2>7, <3>3, <3>4
    <2> QED  BY <2>6, <2>8
  <1>2. WhatsInv /\ WhatsInv' /\ [Whats!Next]_(Whats!vars) => [Whats!RuleStep]_(Whats!vars)
    BY <1>1 DEF Whats!RuleStep
  <1> QED  BY WhatsInvariance, <1>2, PTL DEF Whats!Spec, Whats!NeverRelisted


-----------------------------------------------------------------------------
(* Whom a send reaches                                                     *)

CONSTANTS Readers, Campaigns, Lanes, Batch, Cap, MaxForced, MaxNights
VARIABLES send, events, today, warm, got, together, unheard, forced, nights

Fan == INSTANCE Reach

\* A batch with an outcome of reader s; a send that has one still to write; one that has a push to write.
Has(B, s)        == <<s, "SENT">> \in B \/ <<s, "FAILED">> \in B
Waits(row, s)    == Has(row.pending, s) \/ \E B \in row.writes : Has(B, s)
SentWaits(row, s) == <<s, "SENT">> \in row.pending \/ \E B \in row.writes : <<s, "SENT">> \in B
Busy(row)        == row.pc \in {"counting", "fanout", "last"}

\* The outcome of a reader is in one batch at a time; what ended left nothing behind.
RowOK(row) ==
    /\ \A s \in Readers, B \in row.writes : Has(B, s) => ~Has(row.pending, s)
    /\ \A s \in Readers : \A B, D \in row.writes : Has(B, s) /\ Has(D, s) => B = D
    /\ \A s \in Readers : (Waits(row, s) => s \in row.reached) /\ ~(s \in row.left /\ s \in row.reached)
    /\ row.pc # "fanout" => row.pending = {}
    /\ row.pc \notin {"fanout", "last"} => row.writes = {}
    /\ row.pc = "last" => row.left = {} /\ \A B, D \in row.writes : B = D
    /\ row.pc \in {"draft", "counting"} => row.reached = {}

\* A reader's event is written once, when the outcome waits no more, and once more for each of the u writes unheard.
Written(row, s, e, u) ==
    /\ e \in Nat /\ e <= 1 + u /\ (s \notin row.reached \/ Waits(row, s) => e <= u)
    /\ row.pc \in {"fanout", "last", "SENT"} /\ s \in row.reached /\ ~Waits(row, s) => e >= 1

\* The sends with a push to reader s that is no event yet; those that may still add one to the day.
Owes(s) == {c \in Campaigns : SentWaits(send[c], s)}
May(s)  == {c \in Campaigns : Busy(send[c]) /\ (s \in send[c].left \/ SentWaits(send[c], s))}
Spare   == IF together = 0 THEN 0 ELSE together - 1

FanTypes ==
    /\ send \in [Campaigns -> Fan!Send] /\ events \in [Fan!Rows -> Nat]
    /\ today \in [Readers -> Nat] /\ got \in [Readers -> Nat] /\ warm \subseteq Readers
    /\ together \in 0 .. Cardinality(Campaigns) /\ forced \in 0 .. MaxForced
    /\ faults \in 0 .. MaxFaults /\ unheard \in 0 .. faults /\ nights \in 0 .. MaxNights

Abreast  == Cardinality(Fan!UnderWay) <= together
Unforced == forced = 0 => \A c \in Campaigns : ~send[c].force
InDay   == faults = 0 => \A s \in Readers : /\ today[s] + Cardinality(May(s)) <= Cap + forced + Spare
                                           /\ got[s] <= today[s] + Cardinality(Owes(s))
Apart   == forced = 0 /\ together <= 1 =>
             \A c \in Campaigns : send[c].pc = "fanout" => \A s \in warm : s \notin send[c].left

FanInv ==
    /\ FanTypes /\ Abreast /\ Unforced /\ InDay /\ Apart
    /\ \A c \in Campaigns : RowOK(send[c]) /\ \A s \in Readers : Written(send[c], s, events[<<c, s>>], unheard)

LEMMA FanCount ==
    /\ \A S : Fan!Cardinality(S) = Cardinality(S)
    /\ Fan!ReachOK => IsFiniteSet(Campaigns)
  BY DEF Fan!Cardinality, Cardinality, Fan!IsFiniteSet, IsFiniteSet, Fan!ReachOK

\* The larger of two numbers.
LEMMA FanMax ==
    ASSUME NEW a \in Int, NEW b \in Int
    PROVE  Fan!Max({a, b}) = IF a >= b THEN a ELSE b
  <1>1. \E e \in {a, b} : \A d \in {a, b} : e >= d
    OBVIOUS
  <1>2. Fan!Max({a, b}) \in {a, b} /\ \A d \in {a, b} : Fan!Max({a, b}) >= d
    BY <1>1 DEF Fan!Max
  <1> QED  BY <1>2

\* Sets of sends and their sizes.
LEMMA FanSmaller ==
    ASSUME Fan!ReachOK, NEW S \in SUBSET Campaigns, NEW T \in SUBSET S
    PROVE  Cardinality(T) <= Cardinality(S) /\ Cardinality(T) \in Nat /\ Cardinality(S) \in Nat
  BY FanCount, FS_Subset, FS_CardinalityType

LEMMA FanOneMore ==
    ASSUME Fan!ReachOK, NEW S \in SUBSET Campaigns, NEW c \in Campaigns, c \notin S
    PROVE  /\ Cardinality(S \cup {c}) = Cardinality(S) + 1
           /\ Cardinality(S \cup {c}) \in Nat /\ Cardinality(S) \in Nat
  BY FanCount, FS_Subset, FS_CardinalityType, FS_AddElement

LEMMA FanTwo ==
    ASSUME Fan!ReachOK, NEW S \in SUBSET Campaigns, NEW c \in S, NEW d \in S, c # d
    PROVE  Cardinality(S) >= 2
  <1>1. /\ Cardinality({c}) = 1 /\ d \notin {c}
    BY FS_Singleton
  <1>2. Cardinality({c} \cup {d}) = 2
    BY <1>1, FanOneMore
  <1>3. Cardinality({c} \cup {d}) <= Cardinality(S) /\ Cardinality(S) \in Nat
    BY FanSmaller
  <1> QED  BY <1>2, <1>3

\* One send moves: the sets of sends it may enter or leave.
LEMMA FanSets ==
    ASSUME FanTypes, NEW c \in Campaigns, NEW row \in Fan!Send, send' = [send EXCEPT ![c] = row]
    PROVE  /\ send' \in [Campaigns -> Fan!Send] /\ send'[c] = row /\ \A d \in Campaigns : d # c => send'[d] = send[d]
           /\ Fan!UnderWay = {d \in Campaigns : Busy(send[d])}
           /\ Fan!UnderWay' = {d \in Campaigns : IF d = c THEN Busy(row) ELSE d \in Fan!UnderWay}
           /\ \A s : Owes(s)' = {d \in Campaigns : IF d = c THEN SentWaits(row, s) ELSE d \in Owes(s)}
           /\ \A s : May(s)' = {d \in Campaigns : IF d = c THEN Busy(row) /\ (s \in row.left \/ SentWaits(row, s))
                                                  ELSE d \in May(s)}
  <1>1. send' \in [Campaigns -> Fan!Send] /\ send'[c] = row /\ \A d \in Campaigns : d # c => send'[d] = send[d]
    BY DEF FanTypes
  <1>2. ASSUME NEW s PROVE Owes(s)' = {d \in Campaigns : IF d = c THEN SentWaits(row, s) ELSE d \in Owes(s)}
    BY <1>1 DEF Owes, SentWaits
  <1>3. ASSUME NEW s PROVE May(s)' = {d \in Campaigns : IF d = c THEN Busy(row) /\ (s \in row.left \/ SentWaits(row, s))
                                                        ELSE d \in May(s)}
    BY <1>1 DEF May, SentWaits, Busy
  <1>4. /\ Fan!UnderWay = {d \in Campaigns : Busy(send[d])}
        /\ Fan!UnderWay' = {d \in Campaigns : IF d = c THEN Busy(row) ELSE d \in Fan!UnderWay}
    BY <1>1 DEF Fan!UnderWay, Busy
  <1> QED  BY <1>1, <1>2, <1>3, <1>4

\* The rows of readers whose send did not move keep their events.
LEMMA FanOthers ==
    ASSUME FanInv, NEW c \in Campaigns, NEW row \in Fan!Send, send' = [send EXCEPT ![c] = row], RowOK(row),
           \A d \in Campaigns, s \in Readers : d # c => events'[<<d, s>>] = events[<<d, s>>],
           \A s \in Readers : Written(row, s, events'[<<c, s>>], unheard'), unheard' \in Nat, unheard <= unheard'
    PROVE  \A d \in Campaigns : RowOK(send'[d]) /\ \A s \in Readers : Written(send'[d], s, events'[<<d, s>>], unheard')
  <1>1. send'[c] = row /\ \A d \in Campaigns : d # c => send'[d] = send[d]
    BY FanSets DEF FanInv
  <1>2. ASSUME NEW d \in Campaigns
        PROVE  RowOK(send'[d]) /\ \A s \in Readers : Written(send'[d], s, events'[<<d, s>>], unheard')
    <2>1. CASE d = c
      BY <1>1, <2>1
    <2>2. CASE d # c
      <3>1. send'[d] = send[d] /\ \A s \in Readers : events'[<<d, s>>] = events[<<d, s>>]
        BY <1>1, <2>2
      <3>2. RowOK(send[d]) /\ \A s \in Readers : Written(send[d], s, events[<<d, s>>], unheard)
        BY DEF FanInv
      <3>3. unheard \in Nat
        BY DEF FanInv, FanTypes
      <3> QED  BY <3>1, <3>2, <3>3 DEF Written
    <2> QED  BY <2>1, <2>2
  <1> QED  BY <1>2

\* A step that adds nothing to the day keeps it within its bounds.
LEMMA FanDay ==
    ASSUME Fan!ReachOK, FanInv, UNCHANGED <<today, got, together, forced>>,
           \A s \in Readers : May(s)' \subseteq May(s),
           faults' = 0 => faults = 0 /\ \A s \in Readers : Owes(s) \subseteq Owes(s)'
    PROVE  InDay'
  <1> SUFFICES ASSUME faults' = 0, NEW s \in Readers
               PROVE  /\ today[s] + Cardinality(May(s)') <= Cap + forced + Spare
                      /\ got[s] <= today[s] + Cardinality(Owes(s)')
    BY DEF InDay, Spare
  <1>1. /\ today[s] \in Nat /\ got[s] \in Nat /\ Cap \in Nat /\ forced \in Nat /\ Spare \in Nat
        /\ today[s] + Cardinality(May(s)) <= Cap + forced + Spare
        /\ got[s] <= today[s] + Cardinality(Owes(s))
    <2>1. FanTypes /\ InDay /\ Cardinality(Campaigns) \in Nat /\ Cap \in Nat /\ MaxForced \in Nat
      BY FanCount, FS_CardinalityType DEF FanInv, Fan!ReachOK
    <2>2. together \in Nat /\ Spare \in Nat
      BY <2>1 DEF FanTypes, Spare
    <2> QED  BY <2>1, <2>2 DEF FanTypes, InDay
  <1>2. Cardinality(May(s)') <= Cardinality(May(s)) /\ Cardinality(May(s)') \in Nat /\ Cardinality(May(s)) \in Nat
    BY FanSmaller DEF May
  <1>3. /\ Cardinality(Owes(s)) <= Cardinality(Owes(s)')
        /\ Cardinality(Owes(s)) \in Nat /\ Cardinality(Owes(s)') \in Nat
    <2>1. Owes(s) \subseteq Campaigns /\ Owes(s)' \subseteq Campaigns
      BY DEF Owes
    <2>2. Owes(s) \subseteq Owes(s)'
      OBVIOUS
    <2> HIDE DEF Owes
    <2> QED  BY <2>1, <2>2, FanSmaller
  <1> QED  BY <1>1, <1>2, <1>3

\* A lane pushes to reader s: the outcome goes in the buffer, or with it in a batch.
Pushed(old, row, s, o) ==
    LET p == old.pending \cup {<<s, o>>} IN
    /\ old.pc = "fanout" /\ row.pc = "fanout" /\ s \in old.left /\ o \in {"SENT", "FAILED"}
    /\ row.left = old.left \ {s} /\ row.reached = old.reached \cup {s}
    /\ \/ row.pending = p /\ row.writes = old.writes
       \/ row.pending = {} /\ row.writes = old.writes \cup {p}

LEMMA RowPush ==
    ASSUME NEW old \in Fan!Send, NEW row \in Fan!Send, NEW s, NEW o, RowOK(old), Pushed(old, row, s, o)
    PROVE  /\ RowOK(row) /\ ~Waits(old, s) /\ s \in Readers
           /\ \A r \in Readers : Waits(row, r) <=> Waits(old, r) \/ r = s
           /\ \A r \in Readers : SentWaits(row, r) <=> SentWaits(old, r) \/ (r = s /\ o = "SENT")
  <1> DEFINE p == old.pending \cup {<<s, o>>}
  <1>1. /\ old.pc = "fanout" /\ row.pc = "fanout" /\ s \in old.left /\ o \in {"SENT", "FAILED"}
        /\ row.left = old.left \ {s} /\ row.reached = old.reached \cup {s}
        /\ (row.pending = p /\ row.writes = old.writes) \/ (row.pending = {} /\ row.writes = old.writes \cup {p})
    BY DEF Pushed
  <1>2. s \in Readers /\ s \notin old.reached /\ ~Waits(old, s)
    BY <1>1 DEF RowOK, Fan!Send
  <1>3. \A r : Has(p, r) <=> Has(old.pending, r) \/ r = s
    BY <1>1 DEF Has
  <1>4. ~Has(old.pending, s) /\ \A B \in old.writes : ~Has(B, s)
    BY <1>2 DEF Waits
  <1>5. /\ \A r \in Readers, B \in old.writes : Has(B, r) => ~Has(old.pending, r)
        /\ \A r \in Readers : \A B, D \in old.writes : Has(B, r) /\ Has(D, r) => B = D
    BY DEF RowOK
  <1>6. \A r \in Readers : Waits(row, r) <=> Waits(old, r) \/ r = s
    <2>1. CASE row.pending = p /\ row.writes = old.writes
      BY <1>3, <2>1 DEF Waits
    <2>2. CASE row.pending = {} /\ row.writes = old.writes \cup {p}
      <3>1. \A r : ~Has(row.pending, r)
        BY <2>2 DEF Has
      <3> QED  BY <1>3, <2>2, <3>1 DEF Waits
    <2> QED  BY <1>1, <2>1, <2>2
  <1>7. \A r \in Readers : SentWaits(row, r) <=> SentWaits(old, r) \/ (r = s /\ o = "SENT")
    <2>1. \A r : <<r, "SENT">> \in p <=> <<r, "SENT">> \in old.pending \/ (r = s /\ o = "SENT")
      BY <1>1
    <2> QED  BY <1>1, <2>1 DEF SentWaits
  <1>8. \A r \in Readers, B \in row.writes : Has(B, r) => ~Has(row.pending, r)
    <2>1. CASE row.pending = p /\ row.writes = old.writes
      BY <1>3, <1>4, <1>5, <2>1
    <2>2. CASE row.pending = {}
      BY <2>2 DEF Has
    <2> QED  BY <1>1, <2>1, <2>2
  <1>9. \A r \in Readers : \A B, D \in row.writes : Has(B, r) /\ Has(D, r) => B = D
    <2>1. \A r \in Readers, B \in old.writes : ~(Has(B, r) /\ Has(p, r))
      BY <1>3, <1>4, <1>5
    <2> QED  BY <1>5, <1>1, <2>1
  <1>10. \A r \in Readers : (Waits(row, r) => r \in row.reached) /\ ~(r \in row.left /\ r \in row.reached)
    BY <1>6, <1>1 DEF RowOK
  <1> QED  BY <1>2, <1>1, <1>6, <1>7, <1>8, <1>9, <1>10 DEF RowOK

\* A batch is written.
Wrote(old, row, B) == B \in old.writes /\ row = [old EXCEPT !.writes = @ \ {B}]

LEMMA RowWrite ==
    ASSUME NEW old \in Fan!Send, NEW row \in Fan!Send, NEW B, RowOK(old), Wrote(old, row, B)
    PROVE  /\ RowOK(row) /\ Busy(old) /\ row.pc = old.pc /\ row.left = old.left /\ row.reached = old.reached
           /\ \A s \in Readers : Waits(row, s) <=> Waits(old, s) /\ ~Has(B, s)
           /\ \A s \in Readers : SentWaits(row, s) <=> SentWaits(old, s) /\ <<s, "SENT">> \notin B
           /\ \A s \in Readers : (Has(B, s) => Waits(old, s)) /\ (<<s, "SENT">> \in B => SentWaits(old, s))
  <1>1. /\ row.pc = old.pc /\ row.left = old.left /\ row.reached = old.reached /\ row.pending = old.pending
        /\ row.writes = old.writes \ {B} /\ B \in old.writes
    BY DEF Fan!Send, Wrote
  <1>2. Busy(old)
    BY <1>1 DEF RowOK, Busy
  <1>3. \A s \in Readers : Waits(row, s) <=> Waits(old, s) /\ ~Has(B, s)
    BY <1>1 DEF RowOK, Waits
  <1>4. \A s \in Readers : SentWaits(row, s) <=> SentWaits(old, s) /\ <<s, "SENT">> \notin B
    BY <1>1 DEF RowOK, SentWaits, Has
  <1>5. RowOK(row)
    BY <1>1, <1>3 DEF RowOK
  <1> QED  BY <1>1, <1>2, <1>3, <1>4, <1>5 DEF Waits, SentWaits

\* A write that failed amid the send goes back in the buffer.
LEMMA RowRestore ==
    ASSUME NEW old \in Fan!Send, NEW row \in Fan!Send, NEW B \in old.writes, RowOK(old), old.pc = "fanout",
           row = [old EXCEPT !.writes = @ \ {B}, !.pending = @ \cup B]
    PROVE  /\ RowOK(row) /\ row.pc = old.pc /\ row.left = old.left /\ row.reached = old.reached
           /\ \A s \in Readers : Waits(row, s) <=> Waits(old, s)
           /\ \A s \in Readers : SentWaits(row, s) <=> SentWaits(old, s)
  <1>1. /\ row.pc = old.pc /\ row.left = old.left /\ row.reached = old.reached /\ row.pending = old.pending \cup B
        /\ row.writes = old.writes \ {B}
    BY DEF Fan!Send
  <1>2. \A s : Has(row.pending, s) <=> Has(old.pending, s) \/ Has(B, s)
    BY <1>1 DEF Has
  <1>3. \A s \in Readers : Waits(row, s) <=> Waits(old, s)
    BY <1>1, <1>2 DEF Waits
  <1>4. \A s \in Readers : SentWaits(row, s) <=> SentWaits(old, s)
    BY <1>1 DEF SentWaits
  <1>5. \A s \in Readers, D \in row.writes : Has(D, s) => ~Has(row.pending, s)
    BY <1>1, <1>2 DEF RowOK
  <1>6. RowOK(row)
    BY <1>1, <1>3, <1>5 DEF RowOK
  <1> QED  BY <1>1, <1>3, <1>4, <1>6

\* The last write, of what the lanes left in the buffer.
LEMMA RowLast ==
    ASSUME NEW old \in Fan!Send, NEW row \in Fan!Send, RowOK(old), old.pc = "fanout", old.left = {}, old.writes = {},
           row = [old EXCEPT !.pc = "last", !.pending = {},
                             !.writes = IF old.pending = {} THEN {} ELSE {old.pending}]
    PROVE  /\ RowOK(row) /\ row.pc = "last" /\ row.left = {} /\ row.reached = old.reached
           /\ \A s \in Readers : Waits(row, s) <=> Waits(old, s)
           /\ \A s \in Readers : SentWaits(row, s) <=> SentWaits(old, s)
  <1>1. /\ row.pc = "last" /\ row.left = {} /\ row.reached = old.reached /\ row.pending = {}
        /\ row.writes = IF old.pending = {} THEN {} ELSE {old.pending}
    BY DEF Fan!Send
  <1>2. \A s : ~Has({}, s)
    BY DEF Has
  <1>3. \A s \in Readers : Waits(row, s) <=> Waits(old, s)
    BY <1>1, <1>2 DEF Waits
  <1>4. \A s \in Readers : SentWaits(row, s) <=> SentWaits(old, s)
    BY <1>1 DEF SentWaits
  <1>5. RowOK(row)
    <2>1. \A B \in row.writes : B = old.pending
      BY <1>1
    <2>2. \A s \in Readers : Waits(row, s) => s \in row.reached
      BY <1>1, <1>3 DEF RowOK
    <2> QED  BY <1>1, <1>2, <2>1, <2>2 DEF RowOK
  <1> QED  BY <1>1, <1>3, <1>4, <1>5

\* A send that ended, or has not begun its fan-out, has nothing to write.
LEMMA RowStill ==
    ASSUME NEW row, row.pending = {}, row.writes = {}
    PROVE  \A s : ~Waits(row, s) /\ ~SentWaits(row, s)
  BY DEF Waits, SentWaits, Has

LEMMA FanNumbers ==
    ASSUME Fan!ReachOK, FanInv
    PROVE  /\ together \in Nat /\ Spare \in Nat /\ Cardinality(Campaigns) \in Nat /\ forced \in Nat /\ Cap \in Nat \ {0}
           /\ MaxForced \in Nat /\ faults \in Nat /\ unheard \in Nat /\ MaxFaults \in Nat /\ MaxNights \in Nat
           /\ nights \in Nat /\ unheard <= faults
           /\ \A s \in Readers : today[s] \in Nat /\ got[s] \in Nat
           /\ \A s : May(s) \subseteq Fan!UnderWay /\ Cardinality(May(s)) \in Nat
           /\ \A s : Owes(s) \subseteq Campaigns /\ Cardinality(Owes(s)) \in Nat
           /\ Fan!UnderWay \subseteq Campaigns /\ Cardinality(Fan!UnderWay) \in Nat
  <1>1. FanTypes /\ Cardinality(Campaigns) \in Nat
    BY FanCount, FS_CardinalityType DEF FanInv
  <1>2. Cap \in Nat \ {0} /\ MaxForced \in Nat /\ MaxFaults \in Nat /\ MaxNights \in Nat
    BY DEF Fan!ReachOK
  <1>3. /\ together \in Nat /\ forced \in Nat /\ faults \in Nat /\ nights \in Nat /\ unheard \in Nat /\ unheard <= faults
        /\ \A s \in Readers : today[s] \in Nat /\ got[s] \in Nat
    BY <1>1, <1>2 DEF FanTypes
  <1>4. Spare \in Nat
    BY <1>3 DEF Spare
  <1>5. /\ \A s : May(s) \subseteq Fan!UnderWay /\ Owes(s) \subseteq Campaigns
        /\ Fan!UnderWay \subseteq Campaigns
    BY DEF May, Owes, Busy, Fan!UnderWay
  <1>6. \A S \in SUBSET Campaigns : Cardinality(S) \in Nat
    BY FanSmaller
  <1>7. \A s : May(s) \subseteq Campaigns
    BY <1>5
  <1> HIDE DEF May, Owes
  <1> QED  BY <1>1, <1>2, <1>3, <1>4, <1>5, <1>6, <1>7

\* A send moves, and the day gains nothing: what is left to check.
LEMMA FanQuiet ==
    ASSUME Fan!ReachOK, FanInv, NEW c \in Campaigns, NEW row \in Fan!Send, send' = [send EXCEPT ![c] = row],
           UNCHANGED <<events, today, warm, got, together, unheard, forced, nights>>,
           faults' \in 0 .. MaxFaults, faults <= faults',
           Busy(row) => Busy(send[c]), row.force = send[c].force, RowOK(row),
           \A s \in Readers : /\ (Busy(row) /\ (s \in row.left \/ SentWaits(row, s)))
                                   => s \in send[c].left \/ SentWaits(send[c], s)
                              /\ faults' = 0 /\ SentWaits(send[c], s) => SentWaits(row, s)
                              /\ Written(row, s, events[<<c, s>>], unheard),
           row.pc = "fanout" /\ forced = 0 => \A s \in warm : s \notin row.left \/ together > 1
    PROVE  FanInv'
  <1>1. /\ FanTypes /\ Abreast /\ Unforced /\ InDay /\ Apart
        /\ \A d \in Campaigns : RowOK(send[d]) /\ \A s \in Readers : Written(send[d], s, events[<<d, s>>], unheard)
    BY DEF FanInv
  <1>2. FanTypes'
    <2>1. unheard \in 0 .. faults'
      BY FanNumbers
    <2> QED  BY <1>1, <2>1 DEF FanTypes
  <1>3. send'[c] = row /\ \A d \in Campaigns : d # c => send'[d] = send[d]
    BY <1>1, FanSets
  <1>4. \A s \in Readers : May(s)' \subseteq May(s)
    BY <1>1, FanSets DEF May
  <1>5. faults' = 0 => faults = 0 /\ \A s \in Readers : Owes(s) \subseteq Owes(s)'
    <2>1. faults' = 0 => faults = 0
      BY FanNumbers
    <2> QED  BY <1>1, <2>1, FanSets DEF Owes
  <1>6. InDay'
    BY <1>4, <1>5, FanDay
  <1>7. Abreast'
    <2>1. Fan!UnderWay' \subseteq Fan!UnderWay
      <3>1. /\ Fan!UnderWay = {d \in Campaigns : Busy(send[d])}
            /\ Fan!UnderWay' = {d \in Campaigns : IF d = c THEN Busy(row) ELSE d \in Fan!UnderWay}
        BY <1>1, FanSets
      <3> QED  BY <3>1
    <2> DEFINE U == Fan!UnderWay
               V == Fan!UnderWay'
    <2>2. U \subseteq Campaigns /\ Cardinality(U) \in Nat /\ together \in Nat
      BY FanNumbers
    <2> HIDE DEF U, V
    <2>3. Cardinality(V) <= Cardinality(U) /\ Cardinality(V) \in Nat
      BY <2>1, <2>2, FanSmaller DEF U, V
    <2>4. Cardinality(U) <= together /\ together' = together
      BY <1>1 DEF Abreast, U
    <2> QED  BY <2>2, <2>3, <2>4 DEF Abreast, V
  <1>8. Unforced' /\ Apart'
    <2>1. together \in Nat
      BY FanNumbers
    <2> QED  BY <1>1, <1>3, <2>1 DEF Unforced, Apart
  <1>9. \A d \in Campaigns : RowOK(send'[d]) /\ \A s \in Readers : Written(send'[d], s, events'[<<d, s>>], unheard')
    BY <1>1, <1>3
  <1> QED  BY <1>2, <1>6, <1>7, <1>8, <1>9 DEF FanInv

LEMMA FanCooldown ==
    ASSUME Fan!ReachOK, FanInv, NEW c \in Campaigns, Fan!Cooldown(c)
    PROVE  FanInv'
  <1>1. FanTypes /\ Unforced /\ RowOK(send[c]) /\ \A s \in Readers : Written(send[c], s, events[<<c, s>>], unheard)
    BY DEF FanInv
  <1> DEFINE old == send[c]
             row == [old EXCEPT !.pc = "fanout", !.left = IF old.force THEN @ ELSE @ \ warm]
  <1>2. old \in Fan!Send /\ old.pc = "counting" /\ faults' = faults
        /\ faults \in 0 .. MaxFaults /\ faults <= faults'
    BY <1>1 DEF Fan!Cooldown, Fan!At, FanTypes
  <1>3. row \in Fan!Send /\ send' = [send EXCEPT ![c] = row]
    BY <1>1, <1>2 DEF Fan!Cooldown, FanTypes, Fan!Send, Fan!RestedOf
  <1>4. /\ row.pc = "fanout" /\ row.force = old.force /\ row.reached = old.reached /\ row.pending = old.pending
        /\ row.writes = old.writes /\ row.left \subseteq old.left /\ (~old.force => row.left = old.left \ warm)
    BY <1>2 DEF Fan!Send
  <1>5. old.pending = {} /\ old.writes = {} /\ old.reached = {} /\ Busy(old)
    BY <1>1, <1>2 DEF RowOK, Busy
  <1> HIDE DEF row, old
  <1>6. \A s : ~Waits(old, s) /\ ~SentWaits(old, s) /\ ~Waits(row, s) /\ ~SentWaits(row, s)
    BY <1>4, <1>5, RowStill
  <1>7. RowOK(row)
    BY <1>4, <1>5, <1>6 DEF RowOK
  <1>8. \A s \in Readers : Written(row, s, events[<<c, s>>], unheard)
    BY <1>1, <1>4, <1>5, <1>6 DEF Written, old
  <1>9. forced = 0 => \A s \in warm : s \notin row.left
    BY <1>1, <1>4 DEF Unforced, old
  <1>10. UNCHANGED <<events, today, warm, got, together, unheard, forced, faults, nights>>
    BY DEF Fan!Cooldown
  <1> QED  BY <1>2, <1>3, <1>4, <1>5, <1>6, <1>7, <1>8, <1>9, <1>10, FanQuiet DEF old

LEMMA FanLanesDone ==
    ASSUME Fan!ReachOK, FanInv, NEW c \in Campaigns, Fan!LanesDone(c)
    PROVE  FanInv'
  <1>1. FanTypes /\ RowOK(send[c]) /\ \A s \in Readers : Written(send[c], s, events[<<c, s>>], unheard)
    BY DEF FanInv
  <1> DEFINE old == send[c]
             row == [old EXCEPT !.pc = "last", !.pending = {},
                                !.writes = IF old.pending = {} THEN {} ELSE {old.pending}]
  <1>2. old \in Fan!Send /\ old.pc = "fanout" /\ old.left = {} /\ old.writes = {} /\ faults' = faults
        /\ faults \in 0 .. MaxFaults /\ faults <= faults'
    BY <1>1 DEF Fan!LanesDone, Fan!At, FanTypes
  <1>3. row \in Fan!Send /\ send' = [send EXCEPT ![c] = row]
    BY <1>1, <1>2 DEF Fan!LanesDone, FanTypes, Fan!Send
  <1>4. row.force = old.force
    BY <1>2 DEF Fan!Send
  <1>5. /\ RowOK(row) /\ row.pc = "last" /\ row.left = {} /\ row.reached = old.reached
        /\ \A s \in Readers : Waits(row, s) <=> Waits(old, s)
        /\ \A s \in Readers : SentWaits(row, s) <=> SentWaits(old, s)
    <2>1. row = [old EXCEPT !.pc = "last", !.pending = {}, !.writes = IF old.pending = {} THEN {} ELSE {old.pending}]
      OBVIOUS
    <2>2. RowOK(old)
      BY <1>1
    <2> HIDE DEF row, old
    <2> QED  BY <1>2, <1>3, <2>1, <2>2, RowLast
  <1> HIDE DEF row, old
  <1>6. \A s \in Readers : Written(row, s, events[<<c, s>>], unheard)
    BY <1>1, <1>2, <1>5 DEF Written, old
  <1>7. Busy(old)
    BY <1>2 DEF Busy
  <1>8. UNCHANGED <<events, today, warm, got, together, unheard, forced, faults, nights>>
    BY DEF Fan!LanesDone
  <1> QED  BY <1>2, <1>3, <1>4, <1>5, <1>6, <1>7, <1>8, FanQuiet DEF old

LEMMA FanEnds ==
    ASSUME Fan!ReachOK, FanInv, NEW c \in Campaigns, Fan!Ends(c)
    PROVE  FanInv'
  <1>1. FanTypes /\ RowOK(send[c]) /\ \A s \in Readers : Written(send[c], s, events[<<c, s>>], unheard)
    BY DEF FanInv
  <1> DEFINE old == send[c]
             row == [old EXCEPT !.pc = "SENT"]
  <1>2. old \in Fan!Send /\ old.pc = "last" /\ old.writes = {} /\ faults' = faults
        /\ faults \in 0 .. MaxFaults /\ faults <= faults'
    BY <1>1 DEF Fan!Ends, Fan!At, FanTypes
  <1>3. row \in Fan!Send /\ send' = [send EXCEPT ![c] = row]
    BY <1>1, <1>2 DEF Fan!Ends, FanTypes, Fan!Send
  <1>4. /\ row.pc = "SENT" /\ row.force = old.force /\ row.left = old.left /\ row.reached = old.reached
        /\ row.pending = old.pending /\ row.writes = {}
    BY <1>2 DEF Fan!Send
  <1>5. old.pending = {} /\ old.left = {} /\ Busy(old) /\ ~Busy(row)
    BY <1>1, <1>2, <1>4 DEF RowOK, Busy
  <1> HIDE DEF row, old
  <1>6. \A s : ~Waits(old, s) /\ ~SentWaits(old, s) /\ ~Waits(row, s) /\ ~SentWaits(row, s)
    BY <1>2, <1>4, <1>5, RowStill
  <1>7. RowOK(row)
    BY <1>1, <1>4, <1>5, <1>6 DEF RowOK, old
  <1>8. \A s \in Readers : Written(row, s, events[<<c, s>>], unheard)
    BY <1>1, <1>2, <1>4, <1>6 DEF Written, old
  <1>9. UNCHANGED <<events, today, warm, got, together, unheard, forced, faults, nights>>
    BY DEF Fan!Ends
  <1> QED  BY <1>2, <1>3, <1>4, <1>5, <1>6, <1>7, <1>8, <1>9, FanQuiet DEF old

\* A call that throws: amid the send the rows go back in the buffer, the last one ends the send.
Back(old, row) ==
    /\ old.pc = "fanout" /\ row.pc = "fanout" /\ row.left = old.left
    /\ \A s \in Readers : (Waits(row, s) <=> Waits(old, s)) /\ (SentWaits(row, s) <=> SentWaits(old, s))
Failed(row) == row.pc = "FAILED" /\ row.left = {} /\ \A s \in Readers : ~Waits(row, s) /\ ~SentWaits(row, s)

LEMMA FanThrows ==
    ASSUME Fan!ReachOK, FanInv, NEW c \in Campaigns, NEW B \in send[c].writes, Fan!Throws(c, B)
    PROVE  \E row \in Fan!Send :
             /\ send' = [send EXCEPT ![c] = row] /\ row.force = send[c].force /\ row.reached = send[c].reached
             /\ RowOK(row) /\ Busy(send[c]) /\ (Back(send[c], row) \/ Failed(row))
             /\ faults' \in 0 .. MaxFaults /\ faults' = faults + 1 /\ faults' # 0
  <1>1. FanTypes /\ RowOK(send[c])
    BY DEF FanInv
  <1> DEFINE old == send[c]
             row == [old EXCEPT !.writes = @ \ {B}, !.pc = IF old.pc = "last" THEN "FAILED" ELSE @,
                                !.pending = IF old.pc = "last" THEN @ ELSE @ \cup B]
  <1>2. old \in Fan!Send /\ B \in SUBSET Fan!Outcomes /\ old.pc \in {"fanout", "last"} /\ Busy(old)
    BY <1>1 DEF FanTypes, Fan!Send, RowOK, Busy
  <1>3. send' = [send EXCEPT ![c] = row]
    BY <1>1 DEF Fan!Throws, Fan!At, Fan!Restored, FanTypes
  <1>4. row \in Fan!Send
    BY <1>2 DEF Fan!Send
  <1>5. faults' \in 0 .. MaxFaults /\ faults' = faults + 1 /\ faults' # 0
    <2>1. faults < MaxFaults /\ faults' = faults + 1 /\ faults \in Nat /\ MaxFaults \in Nat
      BY FanNumbers DEF Fan!Throws
    <2> QED  BY <2>1
  <1>6. row.force = old.force /\ row.reached = old.reached
    BY <1>2 DEF Fan!Send
  <1>7. CASE old.pc = "fanout"
    <2>1. row = [old EXCEPT !.writes = @ \ {B}, !.pending = @ \cup B]
      BY <1>2, <1>7 DEF Fan!Send
    <2>2. RowOK(old) /\ B \in old.writes
      BY <1>1
    <2> HIDE DEF row, old
    <2>3. RowOK(row) /\ Back(old, row)
      BY <1>2, <1>4, <1>7, <2>1, <2>2, RowRestore DEF Back
    <2> QED  BY <1>2, <1>3, <1>4, <1>5, <1>6, <2>3 DEF old
  <1>8. CASE old.pc = "last"
    <2>1. row.pc = "FAILED" /\ row.left = {} /\ row.pending = {} /\ row.writes = {}
      <3>1. old.pending = {} /\ old.left = {} /\ old.writes \ {B} = {}
        BY <1>1, <1>8 DEF RowOK
      <3> QED  BY <1>2, <1>8, <3>1 DEF Fan!Send
    <2> HIDE DEF row, old
    <2>2. \A s : ~Waits(row, s) /\ ~SentWaits(row, s)
      BY <2>1, RowStill
    <2>3. RowOK(row) /\ Failed(row)
      BY <2>1, <2>2 DEF RowOK, Failed
    <2> QED  BY <1>2, <1>3, <1>4, <1>5, <1>6, <2>3 DEF old
  <1> QED  BY <1>2, <1>7, <1>8

LEMMA FanWriteFails ==
    ASSUME Fan!ReachOK, FanInv, NEW c \in Campaigns, NEW B \in send[c].writes, Fan!WriteFails(c, B)
    PROVE  FanInv'
  <1>1. FanTypes /\ Apart /\ RowOK(send[c]) /\ \A s \in Readers : Written(send[c], s, events[<<c, s>>], unheard)
    BY DEF FanInv
  <1>2. UNCHANGED <<events, today, warm, got, together, unheard, forced, nights>> /\ Fan!Throws(c, B)
    BY DEF Fan!WriteFails
  <1>3. PICK row \in Fan!Send :
          /\ send' = [send EXCEPT ![c] = row] /\ row.force = send[c].force /\ row.reached = send[c].reached
          /\ RowOK(row) /\ Busy(send[c]) /\ (Back(send[c], row) \/ Failed(row))
          /\ faults' \in 0 .. MaxFaults /\ faults' = faults + 1 /\ faults' # 0
    BY <1>2, FanThrows
  <1> DEFINE old == send[c]
  <1>4. faults <= faults' /\ together \in Nat /\ unheard \in Nat
    BY <1>3, FanNumbers
  <1>5. CASE Back(old, row)
    <2>1. \A s \in Readers : Written(row, s, events[<<c, s>>], unheard)
      BY <1>1, <1>3, <1>5 DEF Back, Written
    <2>2. forced = 0 => \A s \in warm : s \notin row.left \/ together > 1
      BY <1>1, <1>4, <1>5 DEF Back, Apart
    <2> QED  BY <1>2, <1>3, <1>4, <1>5, <2>1, <2>2, FanQuiet DEF Back
  <1>6. CASE Failed(row)
    <2>1. \A s \in Readers : Written(row, s, events[<<c, s>>], unheard)
      BY <1>1, <1>3, <1>4, <1>6 DEF Failed, Written
    <2>2. ~Busy(row) /\ row.pc # "fanout"
      BY <1>6 DEF Failed, Busy
    <2> QED  BY <1>2, <1>3, <1>4, <2>1, <2>2, FanQuiet
  <1> QED  BY <1>3, <1>5, <1>6

LEMMA SpareGrows ==
    ASSUME NEW a \in Nat, NEW b \in Nat, NEW n \in Nat, b >= a, b >= n + 1
    PROVE  LET x == IF a = 0 THEN 0 ELSE a - 1
               y == IF b = 0 THEN 0 ELSE b - 1
           IN  y \in Nat /\ x <= y /\ y >= n
  OBVIOUS

\* A reader below the cap may be pushed to by this send and by those already under way.
LEMMA FanCountToday ==
    ASSUME Fan!ReachOK, FanInv, NEW c \in Campaigns, Fan!CountToday(c)
    PROVE  FanInv'
  <1>1. /\ FanTypes /\ Abreast /\ Unforced /\ InDay /\ Apart
        /\ RowOK(send[c]) /\ \A s \in Readers : Written(send[c], s, events[<<c, s>>], unheard)
    BY DEF FanInv
  <1>2. PICK f \in BOOLEAN, targets \in SUBSET Readers :
          /\ f => forced < MaxForced
          /\ forced' = IF f THEN forced + 1 ELSE forced
          /\ send' = [send EXCEPT ![c].pc = "counting", ![c].force = f,
                                  ![c].left = {s \in targets : f \/ ~Fan!Capped(s)}]
    BY DEF Fan!CountToday
  <1> DEFINE old == send[c]
             kept == {s \in targets : f \/ ~Fan!Capped(s)}
             row == [old EXCEPT !.pc = "counting", !.force = f, !.left = kept]
             U == Fan!UnderWay
             n == Cardinality(U)
             V == U \cup {c}
  <1>3. old \in Fan!Send /\ old.pc = "draft"
    BY <1>1 DEF FanTypes, Fan!CountToday, Fan!At
  <1>4. row \in Fan!Send /\ send' = [send EXCEPT ![c] = row]
    BY <1>1, <1>2, <1>3 DEF Fan!Send, FanTypes
  <1>5. /\ row.pc = "counting" /\ row.force = f /\ row.left = kept /\ row.reached = old.reached
        /\ row.pending = old.pending /\ row.writes = old.writes
    BY <1>3 DEF Fan!Send
  <1>6. old.pending = {} /\ old.writes = {} /\ old.reached = {} /\ ~Busy(old) /\ Busy(row)
    BY <1>1, <1>3, <1>5 DEF RowOK, Busy
  <1>7. \A s \in kept : f \/ today[s] < Cap
    <2>1. \A s \in Readers : today[s] \in Nat /\ Cap \in Nat
      BY FanNumbers
    <2> QED  BY <2>1 DEF Fan!Capped
  <1>8. UNCHANGED <<events, today, warm, got, unheard, faults, nights>>
    BY DEF Fan!CountToday
  <1>9. c \notin U /\ U \subseteq Campaigns /\ n \in Nat /\ together \in Nat /\ n <= together
    BY <1>1, <1>6, FanNumbers DEF Busy, Fan!UnderWay, Abreast
  <1>10. together' = IF together >= n + 1 THEN together ELSE n + 1
    <2>1. together' = Fan!Max({together, n + 1})
      BY FanCount DEF Fan!CountToday
    <2> HIDE DEF n
    <2> QED  BY <1>9, <2>1, FanMax
  <1> HIDE DEF old, kept, row, n, U
  <1>11. Cardinality(V) = n + 1 /\ n + 1 <= Cardinality(Campaigns) /\ V \subseteq Campaigns
    <2>1. Cardinality(V) = n + 1 /\ V \subseteq Campaigns
      BY <1>9, FanOneMore DEF n
    <2> HIDE DEF V
    <2>2. Cardinality(V) <= Cardinality(Campaigns)
      BY <2>1, FanSmaller
    <2> QED  BY <2>1, <2>2 DEF V
  <1>12. Fan!UnderWay' = V
    <2>1. /\ Fan!UnderWay = {d \in Campaigns : Busy(send[d])}
          /\ Fan!UnderWay' = {d \in Campaigns : IF d = c THEN Busy(row) ELSE d \in Fan!UnderWay}
      BY <1>1, <1>4, FanSets
    <2> QED  BY <1>6, <2>1 DEF U
  <1> HIDE DEF V
  <1>13. /\ together' \in 0 .. Cardinality(Campaigns) /\ together <= together' /\ n + 1 <= together'
         /\ together' \in Nat /\ forced' \in 0 .. MaxForced /\ forced' \in Nat /\ forced \in Nat
         /\ (f => forced' = forced + 1) /\ (~f => forced' = forced)
    BY <1>1, <1>2, <1>9, <1>10, <1>11, FanNumbers DEF FanTypes
  <1>14. \A s : ~Waits(old, s) /\ ~SentWaits(old, s) /\ ~Waits(row, s) /\ ~SentWaits(row, s)
    BY <1>5, <1>6, RowStill
  <1>15. RowOK(row) /\ \A s \in Readers : Written(row, s, events[<<c, s>>], unheard)
    <2>1. RowOK(row)
      BY <1>5, <1>6, <1>14 DEF RowOK
    <2> QED  BY <1>1, <1>5, <1>6, <1>14, <2>1 DEF Written, old
  <1>16. FanTypes'
    <2>1. send' \in [Campaigns -> Fan!Send]
      BY <1>1, <1>4 DEF FanTypes
    <2> QED  BY <1>1, <1>8, <1>13, <2>1 DEF FanTypes
  <1>17. Abreast'
    BY <1>11, <1>12, <1>13 DEF Abreast
  <1>18. send'[c] = row /\ \A d \in Campaigns : d # c => send'[d] = send[d]
    BY <1>1, <1>4, FanSets
  <1>19. Unforced' /\ Apart'
    <2>1. Unforced'
      BY <1>1, <1>5, <1>13, <1>18 DEF Unforced
    <2>2. ASSUME forced' = 0, together' <= 1 PROVE forced = 0 /\ together <= 1
      BY <1>9, <1>13, <2>2
    <2> QED  BY <1>1, <1>5, <1>8, <1>18, <2>1, <2>2 DEF Apart
  <1>20. InDay'
    <2> SUFFICES ASSUME faults = 0, NEW s \in Readers
                 PROVE  /\ today[s] + Cardinality(May(s)') <= Cap + forced' + Spare'
                        /\ got[s] <= today[s] + Cardinality(Owes(s)')
      BY <1>8 DEF InDay
    <2> DEFINE m == Cardinality(May(s))
               k == Cardinality(May(s)')
    <2>1. /\ today[s] + m <= Cap + forced + Spare /\ today[s] \in Nat /\ Cap \in Nat /\ Spare \in Nat
          /\ m \in Nat /\ May(s) \subseteq U
      BY <1>1, FanNumbers DEF InDay, U
    <2>2. Spare' \in Nat /\ Spare <= Spare' /\ Spare' >= n
      <3>1. together' \in Nat /\ together' >= n + 1 /\ together' >= together /\ n \in Nat /\ together \in Nat
        BY <1>9, <1>13
      <3> QED  BY <3>1, SpareGrows DEF Spare
    <2>3. /\ May(s)' = {d \in Campaigns : IF d = c THEN Busy(row) /\ (s \in row.left \/ SentWaits(row, s)) ELSE d \in May(s)}
          /\ Owes(s)' = {d \in Campaigns : IF d = c THEN SentWaits(row, s) ELSE d \in Owes(s)}
      BY <1>1, <1>4, FanSets DEF May, Owes
    <2>4. Owes(s)' = Owes(s)
      BY <1>14, <2>3 DEF Owes, old
    <2>5. May(s)' = IF s \in kept THEN May(s) \cup {c} ELSE May(s)
      BY <1>5, <1>6, <1>9, <1>14, <2>1, <2>3
    <2>6. c \notin May(s) /\ May(s) \subseteq Campaigns
      BY <1>9, <2>1
    <2>7. k \in Nat /\ k <= m + 1 /\ k <= n + 1 /\ (s \notin kept => k = m)
      <3>1. s \in kept => k = m + 1
        <4>1. Cardinality(May(s) \cup {c}) = m + 1
          <5> HIDE DEF May
          <5> QED  BY <2>6, FanOneMore
        <4> QED  BY <2>5, <4>1
      <3>2. s \notin kept => k = m
        BY <2>5
      <3>3. m <= n
        <4> HIDE DEF May
        <4> QED  BY <1>9, <2>1, FanSmaller DEF n
      <3> QED  BY <1>9, <2>1, <3>1, <3>2, <3>3
    <2> HIDE DEF m, k
    <2>8. today[s] + k <= Cap + forced' + Spare'
      <3>1. CASE s \notin kept
        BY <1>13, <2>1, <2>2, <2>7, <3>1
      <3>2. CASE s \in kept /\ f
        BY <1>13, <2>1, <2>2, <2>7, <3>2
      <3>3. CASE s \in kept /\ ~f
        <4>1. today[s] < Cap
          BY <1>7, <3>3
        <4> QED  BY <1>9, <1>13, <2>1, <2>2, <2>7, <4>1
      <3> QED  BY <3>1, <3>2, <3>3
    <2> QED  BY <1>1, <2>4, <2>8 DEF k, InDay
  <1>21. \A d \in Campaigns : RowOK(send'[d]) /\ \A s \in Readers : Written(send'[d], s, events'[<<d, s>>], unheard')
    BY <1>8, <1>15, <1>18 DEF FanInv
  <1> QED  BY <1>16, <1>17, <1>19, <1>20, <1>21 DEF FanInv

LEMMA FanPush ==
    ASSUME Fan!ReachOK, FanInv, NEW c \in Campaigns, Fan!Push(c)
    PROVE  FanInv'
  <1>1. /\ FanTypes /\ Abreast /\ Unforced /\ InDay /\ Apart
        /\ RowOK(send[c]) /\ \A s \in Readers : Written(send[c], s, events[<<c, s>>], unheard)
    BY DEF FanInv
  <1> DEFINE old == send[c]
  <1>2. PICK s \in old.left, o \in {"SENT", "FAILED"} :
          /\ got' = IF o = "SENT" THEN [got EXCEPT ![s] = @ + 1] ELSE got
          /\ LET p == old.pending \cup {<<s, o>>} IN
             send' = [send EXCEPT ![c].left = @ \ {s}, ![c].reached = @ \cup {s}, ![c].pending = Fan!Buffer(p),
                                  ![c].writes = IF Fan!Cardinality(p) >= Batch THEN @ \cup {p} ELSE @]
    BY DEF Fan!Push
  <1> DEFINE p == old.pending \cup {<<s, o>>}
             full == Fan!Cardinality(p) >= Batch
             row == [old EXCEPT !.left = @ \ {s}, !.reached = @ \cup {s}, !.pending = IF full THEN {} ELSE p,
                                !.writes = IF full THEN @ \cup {p} ELSE @]
  <1>3. old \in Fan!Send /\ old.pc = "fanout" /\ s \in Readers
    BY <1>1 DEF FanTypes, Fan!Push, Fan!At, Fan!Send
  <1>4. p \in SUBSET Fan!Outcomes
    BY <1>3 DEF Fan!Send, Fan!Outcomes
  <1>5. row \in Fan!Send /\ send' = [send EXCEPT ![c] = row]
    <2>1. send' = [send EXCEPT ![c] = row]
      BY <1>1, <1>2 DEF Fan!Buffer, FanTypes
    <2> HIDE DEF full, p
    <2>2. row \in Fan!Send
      BY <1>3, <1>4 DEF Fan!Send
    <2> QED  BY <2>1, <2>2
  <1>6. /\ row.pc = "fanout" /\ row.force = old.force /\ row.left = old.left \ {s} /\ row.reached = old.reached \cup {s}
        /\ (row.pending = p /\ row.writes = old.writes) \/ (row.pending = {} /\ row.writes = old.writes \cup {p})
    <2> HIDE DEF full, p
    <2> QED  BY <1>3 DEF Fan!Send
  <1>7. p = old.pending \cup {<<s, o>>} /\ RowOK(old) /\ s \in old.left /\ o \in {"SENT", "FAILED"}
    BY <1>1, <1>2
  <1> HIDE DEF row, p, full, old
  <1>8. /\ RowOK(row) /\ ~Waits(old, s)
        /\ \A r \in Readers : Waits(row, r) <=> Waits(old, r) \/ r = s
        /\ \A r \in Readers : SentWaits(row, r) <=> SentWaits(old, r) \/ (r = s /\ o = "SENT")
    <2>1. Pushed(old, row, s, o)
      BY <1>3, <1>6, <1>7 DEF Pushed
    <2> QED  BY <1>3, <1>5, <1>7, <2>1, RowPush
  <1>9. \A r \in Readers : Written(row, r, events[<<c, r>>], unheard)
    <2>1. s \notin old.reached /\ old \in Fan!Send
      BY <1>3, <1>7 DEF RowOK
    <2> QED  BY <1>1, <1>3, <1>6, <1>8, <2>1 DEF Written, old
  <1>10. UNCHANGED <<events, today, warm, together, unheard, forced, faults, nights>>
    BY DEF Fan!Push
  <1>11. send'[c] = row /\ (\A d \in Campaigns : d # c => send'[d] = send[d]) /\ send' \in [Campaigns -> Fan!Send]
    BY <1>1, <1>5, FanSets
  <1>12. got' \in [Readers -> Nat] /\ \A r \in Readers : got'[r] = IF r = s /\ o = "SENT" THEN got[r] + 1 ELSE got[r]
    BY <1>1, <1>2, <1>3 DEF FanTypes
  <1>13. FanTypes'
    BY <1>1, <1>10, <1>11, <1>12 DEF FanTypes
  <1>14. Unforced' /\ Apart'
    <2>1. Unforced'
      BY <1>1, <1>6, <1>10, <1>11 DEF Unforced, old
    <2>2. Apart'
      BY <1>1, <1>3, <1>6, <1>10, <1>11 DEF Apart, old
    <2> QED  BY <2>1, <2>2
  <1>15. Busy(old) /\ Busy(row)
    BY <1>3, <1>6 DEF Busy
  <1>16. Abreast'
    <2>1. /\ Fan!UnderWay = {d \in Campaigns : Busy(send[d])}
          /\ Fan!UnderWay' = {d \in Campaigns : IF d = c THEN Busy(row) ELSE d \in Fan!UnderWay}
      BY <1>1, <1>5, FanSets
    <2>2. Fan!UnderWay' = Fan!UnderWay
      BY <1>15, <2>1 DEF old
    <2> QED  BY <1>1, <1>10, <2>2 DEF Abreast
  <1>17. InDay'
    <2> SUFFICES ASSUME faults = 0, NEW r \in Readers
                 PROVE  /\ today[r] + Cardinality(May(r)') <= Cap + forced + Spare
                        /\ got'[r] <= today[r] + Cardinality(Owes(r)')
      BY <1>10 DEF InDay, Spare
    <2>1. /\ today[r] + Cardinality(May(r)) <= Cap + forced + Spare /\ Cardinality(May(r)) \in Nat /\ May(r) \subseteq Campaigns
          /\ got[r] <= today[r] + Cardinality(Owes(r))
          /\ today[r] \in Nat /\ got[r] \in Nat /\ Cap \in Nat /\ forced \in Nat /\ Spare \in Nat
          /\ Owes(r) \subseteq Campaigns /\ Cardinality(Owes(r)) \in Nat
      <3>1. Fan!UnderWay \subseteq Campaigns /\ May(r) \subseteq Fan!UnderWay
        BY FanNumbers
      <3> QED  BY <1>1, <3>1, FanNumbers DEF InDay
    <2>2. /\ May(r)' = {d \in Campaigns : IF d = c THEN Busy(row) /\ (r \in row.left \/ SentWaits(row, r)) ELSE d \in May(r)}
          /\ Owes(r)' = {d \in Campaigns : IF d = c THEN SentWaits(row, r) ELSE d \in Owes(r)}
      BY <1>1, <1>5, FanSets DEF May, Owes
    <2>3. May(r)' \subseteq May(r)
      <3>1. c \in May(r) <=> r \in old.left \/ SentWaits(old, r)
        BY <1>15 DEF May, old
      <3>2. r \in row.left \/ SentWaits(row, r) => r \in old.left \/ SentWaits(old, r)
        BY <1>6, <1>8
      <3> HIDE DEF May
      <3> QED  BY <2>1, <2>2, <3>1, <3>2
    <2>4. Owes(r)' = IF r = s /\ o = "SENT" THEN Owes(r) \cup {c} ELSE Owes(r)
      <3>1. c \in Owes(r) <=> SentWaits(old, r)
        BY DEF Owes, old
      <3> HIDE DEF Owes
      <3> QED  BY <1>8, <2>1, <2>2, <3>1
    <2>5. r = s => c \notin Owes(r)
      BY <1>8 DEF Owes, old, Waits, SentWaits, Has
    <2> DEFINE m == Cardinality(May(r))
               k == Cardinality(May(r)')
               x == Cardinality(Owes(r))
               y == Cardinality(Owes(r)')
    <2>6. k \in Nat /\ k <= m
      <3> HIDE DEF May
      <3> QED  BY <2>1, <2>3, FanSmaller
    <2>7. y = IF r = s /\ o = "SENT" THEN x + 1 ELSE x
      <3>1. CASE r = s /\ o = "SENT"
        <4>1. Cardinality(Owes(r) \cup {c}) = x + 1
          <5> HIDE DEF Owes
          <5> QED  BY <2>1, <2>5, <3>1, FanOneMore
        <4> QED  BY <2>4, <3>1, <4>1
      <3>2. CASE ~(r = s /\ o = "SENT")
        BY <2>4, <3>2
      <3> QED  BY <3>1, <3>2
    <2> HIDE DEF m, k, x, y
    <2>8. today[r] + m <= Cap + forced + Spare /\ got[r] <= today[r] + x /\ m \in Nat /\ x \in Nat
      BY <2>1 DEF m, x
    <2>9. today[r] + k <= Cap + forced + Spare
      BY <2>1, <2>6, <2>8
    <2>10. got'[r] <= today[r] + y
      BY <1>12, <2>1, <2>7, <2>8
    <2> QED  BY <2>9, <2>10 DEF k, y
  <1>18. \A d \in Campaigns : RowOK(send'[d]) /\ \A r \in Readers : Written(send'[d], r, events'[<<d, r>>], unheard')
    BY <1>8, <1>9, <1>10, <1>11 DEF FanInv
  <1> QED  BY <1>13, <1>14, <1>16, <1>17, <1>18 DEF FanInv

\* What a stored batch changes.
LEMMA FanStores ==
    ASSUME FanTypes, NEW c \in Campaigns, NEW B, Fan!Stores(c, B)
    PROVE  /\ today' \in [Readers -> Nat] /\ events' \in [Fan!Rows -> Nat] /\ warm' \subseteq Readers
           /\ \A s \in Readers : today'[s] = IF <<s, "SENT">> \in B THEN today[s] + 1 ELSE today[s]
           /\ \A s \in Readers : events'[<<c, s>>] = IF Has(B, s) THEN events[<<c, s>>] + 1 ELSE events[<<c, s>>]
           /\ \A d \in Campaigns, s \in Readers : d # c => events'[<<d, s>>] = events[<<d, s>>]
  <1>1. /\ \A s \in Readers : s \in Fan!InBatch(B, "SENT") <=> <<s, "SENT">> \in B
        /\ \A s \in Readers : s \in Fan!InBatch(B, "SENT") \cup Fan!InBatch(B, "FAILED") <=> Has(B, s)
        /\ Fan!InBatch(B, "SENT") \subseteq Readers
    BY DEF Fan!InBatch, Has
  <1>2. /\ today' \in [Readers -> Nat] /\ warm' \subseteq Readers
        /\ \A s \in Readers : today'[s] = IF <<s, "SENT">> \in B THEN today[s] + 1 ELSE today[s]
    <2>1. /\ today' = [s \in Readers |-> IF s \in Fan!InBatch(B, "SENT") THEN today[s] + 1 ELSE today[s]]
          /\ warm' = warm \cup Fan!InBatch(B, "SENT")
      BY DEF Fan!Stores
    <2> QED  BY <1>1, <2>1 DEF FanTypes
  <1>3. events' = [r \in Fan!Rows |-> IF r[1] = c /\ r[2] \in Fan!InBatch(B, "SENT") \cup Fan!InBatch(B, "FAILED")
                                      THEN events[r] + 1 ELSE events[r]]
    BY DEF Fan!Stores
  <1>4. events \in [Fan!Rows -> Nat] /\ \A d \in Campaigns, s \in Readers : <<d, s>> \in Fan!Rows
    BY DEF FanTypes, Fan!Rows
  <1>5. events' \in [Fan!Rows -> Nat]
    BY <1>3, <1>4
  <1>6. ASSUME NEW d \in Campaigns, NEW s \in Readers
        PROVE  events'[<<d, s>>] = IF d = c /\ Has(B, s) THEN events[<<d, s>>] + 1 ELSE events[<<d, s>>]
    <2>1. events'[<<d, s>>] = IF d = c /\ s \in Fan!InBatch(B, "SENT") \cup Fan!InBatch(B, "FAILED")
                              THEN events[<<d, s>>] + 1 ELSE events[<<d, s>>]
      BY <1>3, <1>4
    <2> QED  BY <1>1, <2>1
  <1> QED  BY <1>2, <1>5, <1>6

\* The readers of a stored batch are among those its send has taken; another send under way makes it two.
LEMMA FanApart ==
    ASSUME Fan!ReachOK, FanInv, NEW c \in Campaigns, NEW B \in send[c].writes, NEW row \in Fan!Send,
           send' = [send EXCEPT ![c] = row], row.pc = "fanout" => send[c].pc = "fanout" /\ row.left = send[c].left,
           Busy(send[c]), warm' = warm \cup Fan!InBatch(B, "SENT"), UNCHANGED <<forced, together>>
    PROVE  Apart'
  <1>1. FanTypes /\ Abreast /\ Apart /\ RowOK(send[c])
    BY DEF FanInv
  <1>2. send'[c] = row /\ \A d \in Campaigns : d # c => send'[d] = send[d]
    BY <1>1, FanSets
  <1> SUFFICES ASSUME forced = 0, together <= 1, NEW d \in Campaigns, send'[d].pc = "fanout", NEW s \in warm'
               PROVE  s \notin send'[d].left
    BY DEF Apart
  <1>3. CASE d = c
    <2>1. send'[d].left = send[c].left /\ send[c].pc = "fanout"
      BY <1>2, <1>3
    <2>2. CASE s \in warm
      BY <1>1, <2>1, <2>2 DEF Apart
    <2>3. CASE s \in Fan!InBatch(B, "SENT")
      <3>1. s \in Readers /\ Waits(send[c], s)
        BY <2>3 DEF Fan!InBatch, Waits, Has
      <3> QED  BY <1>1, <2>1, <3>1 DEF RowOK
    <2> QED  BY <2>2, <2>3
  <1>4. CASE d # c
    <2>1. send'[d] = send[d] /\ c \in Fan!UnderWay /\ d \in Fan!UnderWay /\ Fan!UnderWay \subseteq Campaigns
      BY <1>2, <1>4 DEF Fan!UnderWay, Busy
    <2>2. Cardinality(Fan!UnderWay) >= 2
      <3> HIDE DEF Fan!UnderWay
      <3> QED  BY <1>4, <2>1, FanTwo
    <2>3. Cardinality(Fan!UnderWay) <= together /\ Cardinality(Fan!UnderWay) \in Nat /\ together \in Nat
      BY <1>1, FanNumbers DEF Abreast
    <2> QED  BY <2>2, <2>3
  <1> QED  BY <1>3, <1>4

\* A batch of outcomes becomes events, once each.
LEMMA FanWrite ==
    ASSUME Fan!ReachOK, FanInv, NEW c \in Campaigns, NEW B \in send[c].writes, Fan!Write(c, B)
    PROVE  FanInv'
  <1>1. /\ FanTypes /\ Abreast /\ Unforced /\ InDay /\ Apart
        /\ RowOK(send[c]) /\ \A s \in Readers : Written(send[c], s, events[<<c, s>>], unheard)
    BY DEF FanInv
  <1> DEFINE old == send[c]
             row == [old EXCEPT !.writes = @ \ {B}]
  <1>2. old \in Fan!Send /\ B \in SUBSET Fan!Outcomes /\ B \in old.writes /\ RowOK(old)
    BY <1>1 DEF FanTypes, Fan!Send
  <1>3. row \in Fan!Send /\ send' = [send EXCEPT ![c] = row] /\ row = [old EXCEPT !.writes = @ \ {B}]
    BY <1>1, <1>2 DEF Fan!Write, FanTypes, Fan!Send
  <1>4. row.force = old.force
    BY <1>2 DEF Fan!Send
  <1> HIDE DEF row, old
  <1>5. /\ RowOK(row) /\ Busy(old) /\ row.pc = old.pc /\ row.left = old.left /\ row.reached = old.reached
        /\ \A s \in Readers : Waits(row, s) <=> Waits(old, s) /\ ~Has(B, s)
        /\ \A s \in Readers : SentWaits(row, s) <=> SentWaits(old, s) /\ <<s, "SENT">> \notin B
        /\ \A s \in Readers : (Has(B, s) => Waits(old, s)) /\ (<<s, "SENT">> \in B => SentWaits(old, s))
    <2>1. Wrote(old, row, B)
      BY <1>2, <1>3 DEF Wrote
    <2> QED  BY <1>2, <1>3, <2>1, RowWrite
  <1>6. Fan!InBatch(B, "SENT") \subseteq Readers
    BY DEF Fan!InBatch
  <1>7. UNCHANGED <<got, together, unheard, forced, faults, nights>> /\ warm' = warm \cup Fan!InBatch(B, "SENT") /\ Fan!Stores(c, B)
    BY DEF Fan!Write, Fan!Stores
  <1>8. send'[c] = row /\ (\A d \in Campaigns : d # c => send'[d] = send[d]) /\ send' \in [Campaigns -> Fan!Send]
    BY <1>1, <1>3, FanSets
  <1>9. /\ today' \in [Readers -> Nat]
        /\ \A s \in Readers : today'[s] = IF <<s, "SENT">> \in B THEN today[s] + 1 ELSE today[s]
    BY <1>1, <1>7, FanStores
  <1>10. /\ events' \in [Fan!Rows -> Nat]
         /\ \A s \in Readers : events'[<<c, s>>] = IF Has(B, s) THEN events[<<c, s>>] + 1 ELSE events[<<c, s>>]
         /\ \A d \in Campaigns, s \in Readers : d # c => events'[<<d, s>>] = events[<<d, s>>]
    BY <1>1, <1>7, FanStores
  <1>11. \A s \in Readers : Written(row, s, events'[<<c, s>>], unheard')
    <2>1. ASSUME NEW s \in Readers PROVE Written(row, s, events'[<<c, s>>], unheard')
      <3>1. Written(old, s, events[<<c, s>>], unheard) /\ (Waits(old, s) => s \in old.reached)
        BY <1>1, <1>2 DEF old, RowOK
      <3>2. CASE Has(B, s)
        <4>1. events[<<c, s>>] \in Nat /\ events[<<c, s>>] <= unheard /\ unheard \in Nat
          BY <1>5, <3>1, <3>2, FanNumbers DEF Written
        <4>2. events'[<<c, s>>] = events[<<c, s>>] + 1 /\ ~Waits(row, s) /\ s \in row.reached
          BY <1>5, <1>10, <3>1, <3>2
        <4> QED  BY <1>7, <4>1, <4>2 DEF Written
      <3>3. CASE ~Has(B, s)
        <4>1. events'[<<c, s>>] = events[<<c, s>>] /\ (Waits(row, s) <=> Waits(old, s))
          BY <1>5, <1>10, <3>3
        <4> QED  BY <1>5, <1>7, <3>1, <4>1 DEF Written
      <3> QED  BY <3>2, <3>3
    <2> QED  BY <2>1
  <1>12. FanTypes'
    BY <1>1, <1>6, <1>7, <1>8, <1>9, <1>10 DEF FanTypes
  <1>13. Fan!UnderWay' = Fan!UnderWay
    <2>1. /\ Fan!UnderWay = {d \in Campaigns : Busy(send[d])}
          /\ Fan!UnderWay' = {d \in Campaigns : IF d = c THEN Busy(row) ELSE d \in Fan!UnderWay}
      BY <1>1, <1>3, FanSets
    <2>2. Busy(row) <=> Busy(send[c])
      BY <1>5 DEF Busy, old
    <2> QED  BY <2>1, <2>2
  <1>14. Abreast' /\ Unforced'
    BY <1>1, <1>4, <1>7, <1>8, <1>13 DEF Abreast, Unforced, old
  <1>15. Apart'
    BY <1>3, <1>5, <1>7, FanApart DEF old
  <1>16. InDay'
    <2> SUFFICES ASSUME faults = 0, NEW r \in Readers
                 PROVE  /\ today'[r] + Cardinality(May(r)') <= Cap + forced + Spare
                        /\ got[r] <= today'[r] + Cardinality(Owes(r)')
      BY <1>7 DEF InDay, Spare
    <2>1. /\ today[r] + Cardinality(May(r)) <= Cap + forced + Spare /\ Cardinality(May(r)) \in Nat /\ May(r) \subseteq Campaigns
          /\ got[r] <= today[r] + Cardinality(Owes(r))
          /\ today[r] \in Nat /\ got[r] \in Nat /\ Cap \in Nat /\ forced \in Nat /\ Spare \in Nat
          /\ Owes(r) \subseteq Campaigns /\ Cardinality(Owes(r)) \in Nat
      <3>1. Fan!UnderWay \subseteq Campaigns /\ May(r) \subseteq Fan!UnderWay
        BY FanNumbers
      <3> QED  BY <1>1, <3>1, FanNumbers DEF InDay
    <2>2. /\ May(r)' = {d \in Campaigns : IF d = c THEN Busy(row) /\ (r \in row.left \/ SentWaits(row, r)) ELSE d \in May(r)}
          /\ Owes(r)' = {d \in Campaigns : IF d = c THEN SentWaits(row, r) ELSE d \in Owes(r)}
      BY <1>1, <1>3, FanSets DEF May, Owes
    <2>3. Busy(row) /\ (c \in May(r) <=> r \in old.left \/ SentWaits(old, r)) /\ (c \in Owes(r) <=> SentWaits(old, r))
      BY <1>5 DEF May, Owes, old, Busy
    <2> DEFINE m == Cardinality(May(r))
               k == Cardinality(May(r)')
               x == Cardinality(Owes(r))
               y == Cardinality(Owes(r)')
    <2>4. CASE <<r, "SENT">> \in B
      <3>1. SentWaits(old, r) /\ ~SentWaits(row, r) /\ r \notin row.left
        <4>1. SentWaits(old, r) /\ ~SentWaits(row, r) /\ Waits(old, r)
          BY <1>5, <2>4 DEF Has
        <4> QED  BY <1>2, <1>5, <4>1 DEF RowOK
      <3>2. c \in May(r) /\ c \in Owes(r) /\ May(r)' = May(r) \ {c} /\ Owes(r)' = Owes(r) \ {c}
        <4> HIDE DEF May, Owes
        <4> QED  BY <2>1, <2>2, <2>3, <3>1
      <3>3. m = k + 1 /\ k \in Nat
        <4>1. May(r)' \subseteq Campaigns /\ c \notin May(r)' /\ May(r)' \cup {c} = May(r)
          BY <2>1, <3>2
        <4> HIDE DEF May
        <4> QED  BY <4>1, FanOneMore
      <3>4. x = y + 1 /\ y \in Nat
        <4>1. Owes(r)' \subseteq Campaigns /\ c \notin Owes(r)' /\ Owes(r)' \cup {c} = Owes(r)
          BY <2>1, <3>2
        <4> HIDE DEF Owes
        <4> QED  BY <4>1, FanOneMore
      <3>5. today[r] + m <= Cap + forced + Spare /\ got[r] <= today[r] + x
        BY <2>1
      <3> HIDE DEF m, k, x, y
      <3>6. today'[r] = today[r] + 1
        BY <1>9, <2>4
      <3>7. today'[r] + k <= Cap + forced + Spare
        BY <2>1, <3>3, <3>5, <3>6
      <3>8. got[r] <= today'[r] + y
        BY <2>1, <3>4, <3>5, <3>6
      <3> QED  BY <3>7, <3>8 DEF k, y
    <2>5. CASE <<r, "SENT">> \notin B
      <3>1. SentWaits(row, r) <=> SentWaits(old, r)
        BY <1>5, <2>5
      <3>2. May(r)' = May(r) /\ Owes(r)' = Owes(r)
        <4> HIDE DEF May, Owes
        <4> QED  BY <1>5, <2>1, <2>2, <2>3, <3>1
      <3> QED  BY <1>9, <2>1, <2>5, <3>2
    <2> QED  BY <2>4, <2>5
  <1>17. \A d \in Campaigns : RowOK(send'[d]) /\ \A s \in Readers : Written(send'[d], s, events'[<<d, s>>], unheard')
    <2> HIDE DEF FanInv
    <2>1. unheard' \in Nat /\ unheard <= unheard'
      BY <1>7, FanNumbers
    <2> QED  BY <1>3, <1>5, <1>10, <1>11, <2>1, FanOthers
  <1> QED  BY <1>12, <1>14, <1>15, <1>16, <1>17 DEF FanInv

\* A batch is stored, and its send does not hear of it: the rows will be written again.
LEMMA FanWriteUnheard ==
    ASSUME Fan!ReachOK, FanInv, NEW c \in Campaigns, NEW B \in send[c].writes, Fan!WriteUnheard(c, B)
    PROVE  FanInv'
  <1>1. /\ FanTypes /\ Abreast /\ Unforced
        /\ RowOK(send[c]) /\ \A s \in Readers : Written(send[c], s, events[<<c, s>>], unheard)
    BY DEF FanInv
  <1>2. /\ Fan!Throws(c, B) /\ Fan!Stores(c, B) /\ unheard' = unheard + 1
        /\ UNCHANGED <<got, together, forced, nights>> /\ warm' = warm \cup Fan!InBatch(B, "SENT")
    BY DEF Fan!WriteUnheard, Fan!Stores
  <1>3. PICK row \in Fan!Send :
          /\ send' = [send EXCEPT ![c] = row] /\ row.force = send[c].force /\ row.reached = send[c].reached
          /\ RowOK(row) /\ Busy(send[c]) /\ (Back(send[c], row) \/ Failed(row))
          /\ faults' \in 0 .. MaxFaults /\ faults' = faults + 1 /\ faults' # 0
    BY <1>2, FanThrows
  <1>4. /\ today' \in [Readers -> Nat] /\ events' \in [Fan!Rows -> Nat] /\ warm' \subseteq Readers
        /\ \A s \in Readers : events'[<<c, s>>] = IF Has(B, s) THEN events[<<c, s>>] + 1 ELSE events[<<c, s>>]
        /\ \A d \in Campaigns, s \in Readers : d # c => events'[<<d, s>>] = events[<<d, s>>]
    BY <1>1, <1>2, FanStores
  <1>5. unheard \in Nat /\ unheard' \in Nat /\ unheard' \in 0 .. faults' /\ unheard <= unheard'
    BY <1>2, <1>3, FanNumbers
  <1>6. send'[c] = row /\ (\A d \in Campaigns : d # c => send'[d] = send[d]) /\ send' \in [Campaigns -> Fan!Send]
    BY <1>1, <1>3, FanSets
  <1>7. FanTypes'
    BY <1>1, <1>2, <1>3, <1>4, <1>5, <1>6 DEF FanTypes
  <1>8. Abreast'
    <2> DEFINE U == Fan!UnderWay
               V == Fan!UnderWay'
    <2>1. V \subseteq U /\ U \subseteq Campaigns
      <3>1. /\ Fan!UnderWay = {d \in Campaigns : Busy(send[d])}
            /\ Fan!UnderWay' = {d \in Campaigns : IF d = c THEN Busy(row) ELSE d \in Fan!UnderWay}
        BY <1>1, <1>3, FanSets
      <3> QED  BY <1>3, <3>1
    <2>2. Cardinality(U) <= together /\ together \in Nat
      BY <1>1, FanNumbers DEF Abreast
    <2> HIDE DEF U, V
    <2>3. Cardinality(V) <= Cardinality(U) /\ Cardinality(V) \in Nat /\ Cardinality(U) \in Nat
      BY <2>1, FanSmaller
    <2> QED  BY <1>2, <2>2, <2>3 DEF Abreast, V
  <1>9. Unforced' /\ InDay'
    BY <1>1, <1>2, <1>3, <1>6 DEF Unforced, InDay
  <1>10. Apart'
    <2>1. row.pc = "fanout" => send[c].pc = "fanout" /\ row.left = send[c].left
      BY <1>3 DEF Back, Failed
    <2> QED  BY <1>2, <1>3, <2>1, FanApart
  <1>11. ASSUME NEW s \in Readers PROVE Written(row, s, events'[<<c, s>>], unheard')
    <2> DEFINE e == events[<<c, s>>]
    <2>1. Written(send[c], s, e, unheard) /\ (Has(B, s) => Waits(send[c], s))
      BY <1>1 DEF Waits
    <2>2. events'[<<c, s>>] = IF Has(B, s) THEN e + 1 ELSE e
      BY <1>4
    <2>3. e \in Nat /\ e <= 1 + unheard /\ (Has(B, s) => e <= unheard)
      BY <2>1 DEF Written
    <2> HIDE DEF e
    <2>4. /\ events'[<<c, s>>] \in Nat /\ events'[<<c, s>>] <= unheard' /\ unheard' = unheard + 1
          /\ events'[<<c, s>>] >= e
      BY <1>2, <1>5, <2>2, <2>3
    <2>5. row.pc \in {"fanout", "last", "SENT"} /\ s \in row.reached /\ ~Waits(row, s) => e >= 1
      BY <1>3, <2>1 DEF Back, Failed, Written
    <2> QED  BY <1>5, <2>3, <2>4, <2>5 DEF Written
  <1>12. \A d \in Campaigns : RowOK(send'[d]) /\ \A s \in Readers : Written(send'[d], s, events'[<<d, s>>], unheard')
    BY <1>3, <1>4, <1>5, <1>11, FanOthers
  <1> QED  BY <1>7, <1>8, <1>9, <1>10, <1>12 DEF FanInv

\* The container dies: no send is under way, and none owes an event.
LEMMA FanCrash ==
    ASSUME Fan!ReachOK, FanInv, Fan!Crash
    PROVE  FanInv'
  <1>1. /\ FanTypes /\ Abreast /\ Unforced /\ InDay /\ Apart
        /\ \A c \in Campaigns : RowOK(send[c]) /\ \A s \in Readers : Written(send[c], s, events[<<c, s>>], unheard)
    BY DEF FanInv
  <1>2. /\ send' = [c \in Campaigns |-> IF c \in Fan!UnderWay
                      THEN [send[c] EXCEPT !.pc = "FAILED", !.left = {}, !.pending = {}, !.writes = {}] ELSE send[c]]
        /\ UNCHANGED <<events, today, warm, got, together, unheard, forced, nights>>
    BY DEF Fan!Crash
  <1>3. faults' \in 0 .. MaxFaults /\ faults' # 0 /\ faults <= faults'
    <2>1. faults < MaxFaults /\ faults' = faults + 1 /\ faults \in Nat /\ MaxFaults \in Nat
      BY FanNumbers DEF Fan!Crash
    <2> QED  BY <2>1
  <1>4. ASSUME NEW c \in Campaigns
        PROVE  \/ ~Busy(send[c]) /\ send'[c] = send[c]
               \/ /\ send'[c] \in Fan!Send /\ send'[c].pc = "FAILED" /\ send'[c].left = {} /\ send'[c].pending = {}
                  /\ send'[c].writes = {} /\ send'[c].reached = send[c].reached /\ send'[c].force = send[c].force
    <2>1. send[c] \in Fan!Send
      BY <1>1 DEF FanTypes
    <2>2. CASE c \in Fan!UnderWay
      BY <1>2, <2>1, <2>2 DEF Fan!Send
    <2>3. CASE c \notin Fan!UnderWay
      BY <1>2, <2>3 DEF Fan!UnderWay, Busy
    <2> QED  BY <2>2, <2>3
  <1>5. \A c \in Campaigns : ~Busy(send'[c]) /\ send'[c] \in Fan!Send /\ send'[c].force = send[c].force
    <2>1. \A c \in Campaigns : send[c] \in Fan!Send
      BY <1>1 DEF FanTypes
    <2> QED  BY <1>4, <2>1 DEF Busy
  <1>6. FanTypes'
    <2>1. send' \in [Campaigns -> Fan!Send]
      BY <1>2, <1>5
    <2>2. unheard \in 0 .. faults'
      BY <1>3, FanNumbers
    <2> QED  BY <1>1, <1>2, <1>3, <2>1, <2>2 DEF FanTypes
  <1>7. Fan!UnderWay' = {} /\ \A s : May(s)' = {}
    BY <1>5 DEF Fan!UnderWay, May, Busy
  <1>8. Cardinality({}) = 0 /\ together \in Nat
    BY FS_EmptySet, FanNumbers
  <1>9. Abreast'
    <2>1. together' = together
      BY <1>2
    <2> QED  BY <1>7, <1>8, <2>1 DEF Abreast
  <1>10. Unforced' /\ Apart'
    <2>1. \A c \in Campaigns : send'[c].pc # "fanout"
      BY <1>5 DEF Busy
    <2> QED  BY <1>1, <1>2, <1>5, <2>1 DEF Unforced, Apart
  <1>11. InDay'
    <2>1. \A s \in Readers : May(s)' \subseteq May(s)
      BY <1>7
    <2> QED  BY <1>2, <1>3, <2>1, FanDay
  <1>12. ASSUME NEW c \in Campaigns
         PROVE  RowOK(send'[c]) /\ \A s \in Readers : Written(send'[c], s, events'[<<c, s>>], unheard')
    <2>1. CASE send'[c] = send[c]
      BY <1>1, <1>2, <2>1
    <2>2. CASE send'[c] # send[c]
      <3> DEFINE row == send'[c]
      <3>1. row.pc = "FAILED" /\ row.left = {} /\ row.pending = {} /\ row.writes = {} /\ row.reached = send[c].reached
        BY <1>4, <2>2
      <3> HIDE DEF row
      <3>2. \A s : ~Waits(row, s)
        BY <3>1, RowStill
      <3>3. RowOK(row)
        BY <3>1, <3>2 DEF RowOK
      <3>4. \A s \in Readers : Written(row, s, events[<<c, s>>], unheard)
        BY <1>1, <3>1, <3>2 DEF Written
      <3> QED  BY <1>2, <3>3, <3>4 DEF row
    <2> QED  BY <2>1, <2>2
  <1> QED  BY <1>6, <1>9, <1>10, <1>11, <1>12 DEF FanInv

\* At midnight the counts begin again; a send under way may still add one each.
LEMMA FanMidnight ==
    ASSUME Fan!ReachOK, FanInv, Fan!Midnight
    PROVE  FanInv'
  <1>1. FanTypes /\ Abreast /\ Unforced /\ Apart
    BY DEF FanInv
  <1>2. /\ today' = [s \in Readers |-> 0] /\ got' = [s \in Readers |-> 0] /\ nights' \in 0 .. MaxNights
        /\ UNCHANGED <<send, events, warm, together, unheard, forced, faults>>
    BY FanNumbers DEF Fan!Midnight
  <1>3. FanTypes'
    BY <1>1, <1>2 DEF FanTypes
  <1>4. Abreast' /\ Unforced' /\ Apart'
    BY <1>1, <1>2 DEF Abreast, Unforced, Apart, Fan!UnderWay
  <1>5. InDay'
    <2> SUFFICES ASSUME NEW s \in Readers
                 PROVE  0 + Cardinality(May(s)) <= Cap + forced + Spare /\ 0 <= 0 + Cardinality(Owes(s))
      BY <1>2 DEF InDay, May, Owes, Spare
    <2> DEFINE m == Cardinality(May(s))
               n == Cardinality(Fan!UnderWay)
               x == Cardinality(Owes(s))
    <2>1. May(s) \subseteq Fan!UnderWay /\ Fan!UnderWay \subseteq Campaigns /\ m \in Nat /\ n \in Nat /\ x \in Nat /\ n <= together
      BY <1>1, FanNumbers DEF Abreast
    <2>2. m <= n
      <3> HIDE DEF May, Fan!UnderWay
      <3> QED  BY <2>1, FanSmaller
    <2>3. Cap \in Nat \ {0} /\ forced \in Nat /\ together \in Nat /\ Spare \in Nat /\ together <= Spare + 1
      BY FanNumbers DEF Spare
    <2> HIDE DEF m, n, x
    <2>4. m <= Cap + forced + Spare /\ 0 <= x
      BY <2>1, <2>2, <2>3
    <2> QED  BY <2>1, <2>4 DEF m, x
  <1> QED  BY <1>2, <1>3, <1>4, <1>5 DEF FanInv

LEMMA FanNext ==
    ASSUME Fan!ReachOK, FanInv, [Fan!Next]_(Fan!vars)
    PROVE  FanInv'
  <1>1. CASE Fan!GapPasses
    <2>1. /\ FanTypes /\ Abreast /\ Unforced /\ InDay /\ Apart
          /\ \A c \in Campaigns : RowOK(send[c]) /\ \A s \in Readers : Written(send[c], s, events[<<c, s>>], unheard)
      BY DEF FanInv
    <2>2. warm' = {} /\ UNCHANGED <<send, events, today, got, together, unheard, forced, faults, nights>>
      BY <1>1 DEF Fan!GapPasses
    <2> QED  BY <2>1, <2>2 DEF FanInv, FanTypes, Abreast, Unforced, InDay, Apart, May, Owes, Spare, Fan!UnderWay
  <1>2. CASE UNCHANGED Fan!vars
    BY <1>2 DEF Fan!vars, FanInv, FanTypes, Abreast, Unforced, InDay, Apart, May, Owes, Spare, Fan!UnderWay
  <1> QED  BY <1>1, <1>2, FanCountToday, FanCooldown, FanPush, FanLanesDone, FanEnds, FanWrite, FanWriteFails,
              FanWriteUnheard, FanCrash, FanMidnight DEF Fan!Next

LEMMA FanInit == ASSUME Fan!ReachOK PROVE Fan!Init => FanInv
  <1> SUFFICES ASSUME Fan!Init PROVE FanInv
    OBVIOUS
  <1>1. /\ send = [c \in Campaigns |-> Fan!Draft] /\ events = [r \in Fan!Rows |-> 0] /\ today = [s \in Readers |-> 0]
        /\ warm = {} /\ got = [s \in Readers |-> 0] /\ together = 0 /\ unheard = 0
        /\ forced = 0 /\ faults = 0 /\ nights = 0
    BY DEF Fan!Init
  <1>2. /\ Fan!Draft.pc = "draft" /\ ~Fan!Draft.force /\ Fan!Draft.left = {} /\ Fan!Draft.reached = {}
        /\ Fan!Draft.pending = {} /\ Fan!Draft.writes = {} /\ Fan!Draft \in Fan!Send
    BY DEF Fan!Draft, Fan!Send
  <1> HIDE DEF Fan!Draft
  <1>3. \A s : ~Waits(Fan!Draft, s) /\ ~SentWaits(Fan!Draft, s)
    BY <1>2, RowStill
  <1>4. Cardinality(Campaigns) \in Nat /\ MaxForced \in Nat /\ MaxFaults \in Nat /\ MaxNights \in Nat /\ Cap \in Nat
    BY FanCount, FS_CardinalityType DEF Fan!ReachOK
  <1>5. FanTypes
    BY <1>1, <1>2, <1>4 DEF FanTypes
  <1>6. Fan!UnderWay = {} /\ \A s : May(s) = {} /\ Owes(s) = {}
    BY <1>1, <1>2, <1>3 DEF Fan!UnderWay, May, Owes, Busy
  <1>7. Cardinality({}) = 0
    BY FS_EmptySet
  <1>8. Abreast /\ Unforced /\ Apart
    BY <1>1, <1>2, <1>6, <1>7 DEF Abreast, Unforced, Apart
  <1>9. InDay
    BY <1>1, <1>4, <1>6, <1>7 DEF InDay, Spare
  <1>10. RowOK(Fan!Draft)
    BY <1>2, <1>3 DEF RowOK
  <1>11. \A c \in Campaigns, s \in Readers : events[<<c, s>>] = 0
    BY <1>1 DEF Fan!Rows
  <1>12. \A c \in Campaigns : RowOK(send[c]) /\ \A s \in Readers : Written(send[c], s, events[<<c, s>>], unheard)
    BY <1>1, <1>2, <1>10, <1>11 DEF Written
  <1> QED  BY <1>5, <1>8, <1>9, <1>12 DEF FanInv

THEOREM FanInvariance == ASSUME Fan!ReachOK PROVE Fan!Spec => []FanInv
  BY FanInit, FanNext, PTL DEF Fan!Spec

\* Every variable of a send holds a value of its kind, for any number of readers, campaigns and lanes.
THEOREM ReachTypeCorrect == ASSUME Fan!ReachOK PROVE Fan!Spec => []Fan!TypeOK
  <1>1. FanInv => Fan!TypeOK
    BY FanCount DEF FanInv, FanTypes, Fan!TypeOK
  <1> QED  BY FanInvariance, <1>1, PTL

\* filterByCap: the pushes of a reader's day stay within FREQ_CAP_PER_DAY, but for the forced sends and one for
\* each other send that was under way at once.
THEOREM ReachWithinCap == ASSUME Fan!ReachOK PROVE Fan!Spec => []Fan!WithinCap
  <1>1. FanInv => Fan!WithinCap
    <2> SUFFICES ASSUME FanInv, faults = 0, NEW s \in Readers
                 PROVE  got[s] <= Cap + forced + Fan!Max({together - 1, 0})
      BY DEF Fan!WithinCap
    <2> DEFINE m == Cardinality(May(s))
               x == Cardinality(Owes(s))
    <2>1. /\ today[s] + m <= Cap + forced + Spare /\ got[s] <= today[s] + x
          /\ today[s] \in Nat /\ got[s] \in Nat /\ Cap \in Nat /\ forced \in Nat /\ Spare \in Nat /\ together \in Nat
          /\ m \in Nat /\ x \in Nat /\ May(s) \subseteq Campaigns
      <3>1. May(s) \subseteq Fan!UnderWay /\ Fan!UnderWay \subseteq Campaigns
        BY FanNumbers
      <3> QED  BY <3>1, FanNumbers DEF FanInv, InDay
    <2>2. Owes(s) \subseteq May(s)
      <3>1. ASSUME NEW c \in Campaigns, SentWaits(send[c], s) PROVE Busy(send[c])
        <4>1. send[c].pending = {} /\ send[c].writes = {} => ~SentWaits(send[c], s)
          BY RowStill
        <4>2. RowOK(send[c])
          BY DEF FanInv
        <4> QED  BY <3>1, <4>1, <4>2 DEF RowOK, Busy
      <3> QED  BY <3>1 DEF Owes, May
    <2>3. x <= m
      <3> HIDE DEF May, Owes
      <3> QED  BY <2>1, <2>2, FanSmaller
    <2>4. Fan!Max({together - 1, 0}) = Spare
      <3>1. Fan!Max({together - 1, 0}) = IF together - 1 >= 0 THEN together - 1 ELSE 0
        BY <2>1, FanMax
      <3> QED  BY <2>1, <3>1 DEF Spare
    <2> HIDE DEF m, x
    <2> QED  BY <2>1, <2>3, <2>4
  <1> QED  BY FanInvariance, <1>1, PTL

\* executeCampaign: a delivery's event is written once, and once more for each write whose answer was lost, however
\* the lanes overlap; a campaign that ends as SENT has the event of every reader it was pushed to, although writes failed.
THEOREM ReachEventOnce == ASSUME Fan!ReachOK PROVE Fan!Spec => []Fan!EventOnce
  <1>1. FanInv => Fan!EventOnce
    <2> SUFFICES ASSUME FanInv, NEW c \in Campaigns, NEW s \in Readers
                 PROVE  /\ events[<<c, s>>] <= 1 + unheard
                        /\ Fan!At(c, "SENT") /\ s \in send[c].reached => events[<<c, s>>] >= 1
      BY DEF Fan!EventOnce
    <2>1. RowOK(send[c]) /\ Written(send[c], s, events[<<c, s>>], unheard)
      BY DEF FanInv
    <2>2. send[c].pc = "SENT" => ~Waits(send[c], s)
      BY <2>1, RowStill DEF RowOK
    <2> QED  BY <2>1, <2>2 DEF Written, Fan!At
  <1> QED  BY FanInvariance, <1>1, PTL

\* filterByCap: a reader who got a push within MIN_GAP_MINUTES gets another only by a forced send or by one that
\* was under way at the same time.
THEOREM ReachRested == ASSUME Fan!ReachOK PROVE Fan!Spec => [][Fan!RestStep]_(Fan!vars)
  <1>1. ASSUME FanInv, Fan!Next, NEW s \in warm, got'[s] > got[s] PROVE forced > 0 \/ together > 1
    <2>1. /\ FanTypes /\ Apart /\ got[s] \in Nat /\ forced \in Nat /\ together \in Nat /\ s \in Readers
      BY <1>1, FanNumbers DEF FanInv, FanTypes
    <2>2. got' # got /\ ~Fan!Midnight
      BY <1>1, <2>1 DEF Fan!Midnight
    <2>3. PICK c \in Campaigns : Fan!Push(c)
      BY <1>1, <2>2 DEF Fan!Next, Fan!CountToday, Fan!Cooldown, Fan!LanesDone, Fan!Ends, Fan!Write, Fan!WriteFails,
                        Fan!WriteUnheard, Fan!Crash, Fan!GapPasses
    <2>4. send[c].pc = "fanout" /\ \E r \in send[c].left : \A q \in Readers : q # r => got'[q] = got[q]
      BY <2>1, <2>3 DEF Fan!Push, Fan!At, FanTypes
    <2>5. s \in send[c].left
      BY <1>1, <2>1, <2>4
    <2> QED  BY <2>1, <2>4, <2>5 DEF Apart
  <1>2. FanInv /\ [Fan!Next]_(Fan!vars) => [Fan!RestStep]_(Fan!vars)
    BY <1>1 DEF Fan!RestStep
  <1> QED  BY FanInvariance, <1>2, PTL DEF Fan!Spec

\* send.ts: a reader's daily cap, one record of each delivery, and a rest after each push.
THEOREM ReachIsFair == ASSUME Fan!ReachOK PROVE Fan!Spec => Fan!ReachFair
  BY ReachRested, ReachWithinCap, ReachEventOnce, PTL DEF Fan!ReachFair, Fan!FairStep
-----------------------------------------------------------------------------
(* The browsers on which staff are notified                                *)

CONSTANTS Browsers, Users, Standard, MaxDevices, MaxUses
VARIABLES login, sub, older, active, req, chosen, turned, uses

Desk == INSTANCE StaffDevices

DeviceRow == [id : Nat, ep : 1 .. made, user : Users, kinds : (SUBSET Kinds) \ {{}}]
Steps     == {"idle", "remove", "replace", "look", "store", "count", "evict"}
Request   == [pc : Steps, user : Users \cup {None}, kind : Kinds, ep : 0 .. made, old : 0 .. made, kinds : SUBSET Kinds,
              ids : SUBSET Nat, replaces : BOOLEAN, alone : BOOLEAN]

DeskTypes ==
    /\ login \in [Browsers -> Users] /\ active \subseteq Users /\ made \in 0 .. MaxEndpoints
    /\ sub \in [Browsers -> [ep : 0 .. made, good : BOOLEAN]] /\ dead \subseteq 1 .. made
    /\ rows \subseteq DeviceRow /\ IsFiniteSet(rows)
    /\ req \in [Browsers -> Request] /\ \A b \in Browsers : IsFiniteSet(req[b].ids)
    /\ IsFiniteSet(send) /\ \A d \in send : d.id \in Nat
    /\ chosen \in [Browsers -> [Users -> SUBSET Kinds]] /\ turned \subseteq Browsers
    /\ uses \in 0 .. MaxUses /\ crashes \in 0 .. MaxCrashes

\* A row has an id and an endpoint of its own, and an endpoint a browser of its own. A request is of who is signed in
\* there and about the subscription the browser has.
OneRow  == \A r, q \in rows : r.ep = q.ep \/ r.id = q.id => r = q
OneHome == \A b, c \in Browsers : sub[b].ep = sub[c].ep /\ sub[b].ep # 0 => b = c
Asks(b) == req[b].pc # "idle" => req[b].user = login[b] /\ req[b].ep = sub[b].ep /\ req[b].ep # 0

\* What a request stores or leaves on is chosen, unless the browser's subscription was rotated.
Chosen(b) ==
    /\ \A r \in rows : r.ep = sub[b].ep => r.kinds \subseteq chosen[b][r.user]
    /\ req[b].pc \in {"replace", "look", "store"} => req[b].kind \in chosen[b][req[b].user]
    /\ req[b].pc = "store" => \A r \in rows : r.ep = req[b].ep =>
          req[b].kinds \subseteq chosen[b][req[b].user] /\ (r.user # req[b].user => req[b].kinds = {req[b].kind})
Stored(b) == req[b].pc = "store" => req[b].kinds # {}
Removes(b) ==
    req[b].pc = "remove" => \A r \in rows :
        /\ r.id \in req[b].ids <=> r.ep = req[b].ep
        /\ r.ep = req[b].ep => r.user = req[b].user /\ req[b].kinds = r.kinds \ {req[b].kind}

\* A user's rows; the requests that stored one and have not looked, or not yet turned off what they saw.
IdsOf(u)   == {r.id : r \in Desk!OwnedBy(u)}
Flying(u)  == {b \in Browsers : req[b].user = u /\ req[b].pc \in {"count", "evict"}}
Evicting(u) == {b \in Browsers : req[b].user = u /\ req[b].pc = "evict"}
Kept(u, S) == IdsOf(u) \ UNION {req[b].ids : b \in S}

\* Whichever of the evictions are carried out, what is left is over the limit by the others at most.
InLimit(u) == \A S \in SUBSET Evicting(u) :
    Cardinality(Kept(u, S)) <= MaxDevices + crashes + Cardinality(Flying(u) \ S)

\* A request that replaces a row, with no other of its user beside it, makes room for its own.
Rest(u, e) == {r.id : r \in {q \in Desk!OwnedBy(u) : q.ep # e}}
MakesRoom(b) ==
    req[b].replaces /\ req[b].alone /\ crashes = 0 =>
        /\ req[b].pc = "replace" => Cardinality(Rest(req[b].user, req[b].old)) < MaxDevices
        /\ req[b].pc \in {"look", "store"} => Cardinality(IdsOf(req[b].user)) < MaxDevices
        /\ req[b].pc = "count" => Cardinality(IdsOf(req[b].user)) <= MaxDevices
        /\ req[b].pc # "evict"

BrowserOK(b) == Asks(b) /\ (b \notin turned => Chosen(b)) /\ Stored(b) /\ Removes(b) /\ MakesRoom(b)
DeskInv == DeskTypes /\ OneRow /\ OneHome /\ (\A b \in Browsers : BrowserOK(b)) /\ (\A u \in Users : InLimit(u))

LEMMA DeskCount ==
    /\ \A S : Desk!Cardinality(S) = Cardinality(S) /\ (Desk!IsFiniteSet(S) <=> IsFiniteSet(S))
    /\ Desk!StaffOK => IsFiniteSet(Browsers)
  BY DEF Desk!Cardinality, Cardinality, Desk!IsFiniteSet, IsFiniteSet, Desk!StaffOK

LEMMA DeskInit == ASSUME Desk!StaffOK PROVE Desk!Init => DeskInv
  <1> SUFFICES ASSUME Desk!Init PROVE DeskInv
    OBVIOUS
  <1>1. IsFiniteSet({}) /\ Cardinality({}) = 0
    BY FS_EmptySet
  <1>2. DeskTypes
    <2>1. Desk!Idle \in Request /\ Desk!Idle.ids = {}
      BY DEF Desk!Init, Desk!StaffOK, Desk!Idle, Request, Steps
    <2>2. req \in [Browsers -> Request] /\ \A b \in Browsers : IsFiniteSet(req[b].ids)
      BY <1>1, <2>1 DEF Desk!Init
    <2>3. sub \in [Browsers -> [ep : 0 .. made, good : BOOLEAN]]
      BY DEF Desk!Init
    <2>4. rows \subseteq DeviceRow /\ IsFiniteSet(rows) /\ IsFiniteSet(send) /\ \A d \in send : d.id \in Nat
      BY <1>1 DEF Desk!Init
    <2>5. chosen \in [Browsers -> [Users -> SUBSET Kinds]]
      BY DEF Desk!Init
    <2> QED  BY <2>2, <2>3, <2>4, <2>5 DEF Desk!Init, DeskTypes, Desk!StaffOK
  <1>3. OneRow /\ OneHome
    BY DEF Desk!Init, OneRow, OneHome
  <1>4. ASSUME NEW b \in Browsers PROVE BrowserOK(b)
    BY <1>4 DEF Desk!Init, Desk!Idle, BrowserOK, Asks, Chosen, Stored, Removes, MakesRoom
  <1>5. ASSUME NEW u \in Users PROVE InLimit(u)
    <2>1. Evicting(u) = {} /\ IdsOf(u) = {} /\ Flying(u) = {}
      BY DEF Desk!Init, Desk!Idle, Evicting, Flying, IdsOf, Desk!OwnedBy
    <2>2. ASSUME NEW S \in SUBSET Evicting(u) PROVE Kept(u, S) = {} /\ Flying(u) \ S = {}
      BY <2>1 DEF Kept
    <2>3. MaxDevices \in Nat /\ crashes = 0
      BY DEF Desk!StaffOK, Desk!Init
    <2> QED  BY <1>1, <2>2, <2>3 DEF InLimit
  <1> QED  BY <1>2, <1>3, <1>4, <1>5 DEF DeskInv

-----------------------------------------------------------------------------
(* What most steps leave as it was                                         *)

LEMMA FewIds ==
    ASSUME DeskTypes, NEW u, NEW e
    PROVE  /\ IsFiniteSet(Desk!OwnedBy(u)) /\ IsFiniteSet(IdsOf(u)) /\ IdsOf(u) \subseteq Nat
           /\ IsFiniteSet(Rest(u, e)) /\ Cardinality(IdsOf(u)) \in Nat /\ Cardinality(Rest(u, e)) \in Nat
           /\ Cardinality(IdsOf(u)) <= Cardinality(Desk!OwnedBy(u))
  <1>1. IsFiniteSet(Desk!OwnedBy(u))
    BY FS_Subset DEF DeskTypes, Desk!OwnedBy
  <1> DEFINE O == Desk!OwnedBy(u)
             f == [r \in O |-> r.id]
  <1>2. IdsOf(u) = {f[r] : r \in O}
    BY DEF IdsOf
  <1>3. f \in Surjection(O, IdsOf(u))
    BY <1>2 DEF Surjection
  <1>4. IsFiniteSet(IdsOf(u)) /\ Cardinality(IdsOf(u)) <= Cardinality(O)
    <2> HIDE DEF O, f
    <2> QED  BY <1>1, <1>3, FS_Surjection DEF O
  <1>5. IdsOf(u) \subseteq Nat
    BY DEF DeskTypes, IdsOf, Desk!OwnedBy, DeviceRow
  <1>6. Rest(u, e) \subseteq IdsOf(u)
    BY DEF Rest, IdsOf
  <1> QED  BY <1>1, <1>4, <1>5, <1>6, FS_Subset, FS_CardinalityType

\* Rows go, or change in nothing but the kinds.
Sheds == \A r \in rows' : \E q \in rows : q.id = r.id /\ q.user = r.user /\ q.ep = r.ep

LEMMA FewerIds ==
    ASSUME DeskTypes, Sheds, NEW u, NEW e
    PROVE  /\ IdsOf(u)' \subseteq IdsOf(u) /\ Rest(u, e)' \subseteq Rest(u, e)
           /\ IsFiniteSet(IdsOf(u)') /\ Cardinality(IdsOf(u)') \in Nat /\ Cardinality(IdsOf(u)') <= Cardinality(IdsOf(u))
           /\ Cardinality(Rest(u, e)') \in Nat /\ Cardinality(Rest(u, e)') <= Cardinality(Rest(u, e))
  <1>1. IdsOf(u)' \subseteq IdsOf(u) /\ Rest(u, e)' \subseteq Rest(u, e)
    BY DEF Sheds, IdsOf, Rest, Desk!OwnedBy
  <1> QED  BY <1>1, FewIds, FS_Subset, FS_CardinalityType

LEMMA RowsGo ==
    ASSUME DeskTypes, OneRow, rows' \subseteq rows
    PROVE  Sheds /\ OneRow' /\ IsFiniteSet(rows')
  BY FS_Subset DEF DeskTypes, OneRow, Sheds

\* A browser at which nothing happens: the rows of its subscription are as before or gone.
LEMMA BrowserElsewhere ==
    ASSUME Desk!StaffOK, DeskTypes, NEW c \in Browsers, BrowserOK(c), Sheds, \A r \in rows' : r.ep = sub[c].ep => r \in rows,
           req'[c] = req[c], sub'[c].ep = sub[c].ep, login'[c] = login[c], chosen'[c] = chosen[c], turned \subseteq turned',
           crashes' \in Nat, crashes <= crashes'
    PROVE  BrowserOK(c)'
  <1>2. crashes \in Nat /\ (crashes' = 0 => crashes = 0) /\ MaxDevices \in Nat
    BY DEF DeskTypes, Desk!StaffOK
  <1>3. Asks(c)' /\ Stored(c)' /\ (c \notin turned' => Chosen(c)')
    BY DEF BrowserOK, Asks, Stored, Chosen
  <1>4. Removes(c)'
    <2> SUFFICES ASSUME req[c].pc = "remove", NEW r \in rows'
                 PROVE  /\ r.id \in req[c].ids <=> r.ep = req[c].ep
                        /\ r.ep = req[c].ep => r.user = req[c].user /\ req[c].kinds = r.kinds \ {req[c].kind}
      BY DEF Removes
    <2>1. PICK q \in rows : q.id = r.id /\ q.ep = r.ep
      BY DEF Sheds
    <2>2. r.ep = req[c].ep => r \in rows
      BY DEF BrowserOK, Asks
    <2> QED  BY <2>1, <2>2 DEF BrowserOK, Removes
  <1>5. MakesRoom(c)'
    <2> DEFINE u == req[c].user
               e == req[c].old
    <2>1. /\ Cardinality(IdsOf(u)') \in Nat /\ Cardinality(IdsOf(u)') <= Cardinality(IdsOf(u)) /\ Cardinality(IdsOf(u)) \in Nat
          /\ Cardinality(Rest(u, e)') \in Nat /\ Cardinality(Rest(u, e)') <= Cardinality(Rest(u, e)) /\ Cardinality(Rest(u, e)) \in Nat
      BY FewerIds, FewIds
    <2>2. IdsOf(req[c].user)' = IdsOf(u)' /\ Rest(req[c].user, req[c].old)' = Rest(u, e)'
      BY DEF IdsOf, Rest, Desk!OwnedBy
    <2> HIDE DEF u, e
    <2> QED  BY <1>2, <2>1, <2>2 DEF BrowserOK, MakesRoom, u, e
  <1> QED  BY <1>3, <1>4, <1>5 DEF BrowserOK

LEMMA BrowserKeeps ==
    ASSUME Desk!StaffOK, DeskTypes, OneRow, NEW c \in Browsers, BrowserOK(c), rows' \subseteq rows, req'[c] = req[c],
           sub'[c].ep = sub[c].ep, login'[c] = login[c], chosen'[c] = chosen[c], turned \subseteq turned',
           crashes' \in Nat, crashes <= crashes'
    PROVE  BrowserOK(c)'
  BY RowsGo, BrowserElsewhere

\* A browser with no request under way.
LEMMA BrowserIdle ==
    ASSUME NEW b \in Browsers, req'[b].pc = "idle",
           b \notin turned' => \A r \in rows' : r.ep = sub'[b].ep => r.kinds \subseteq chosen'[b][r.user]
    PROVE  BrowserOK(b)'
  BY DEF BrowserOK, Asks, Chosen, Stored, Removes, MakesRoom

\* Who stored a row and has not looked, or not yet turned off what it saw, is as before.
Trimming(b) == req[b].pc \in {"count", "evict"}
SameFlight ==
    \A b \in Browsers : /\ Trimming(b)' <=> Trimming(b)
                        /\ Trimming(b) => req'[b].pc = req[b].pc /\ req'[b].user = req[b].user /\ req'[b].ids = req[b].ids

LEMMA LimitStays ==
    ASSUME Desk!StaffOK, DeskTypes, Sheds, SameFlight, crashes' = crashes, \A u \in Users : InLimit(u)
    PROVE  \A u \in Users : InLimit(u)'
  <1> TAKE u \in Users
  <1>1. Flying(u)' = Flying(u) /\ Evicting(u)' = Evicting(u)
    BY DEF SameFlight, Trimming, Flying, Evicting
  <1>2. ASSUME NEW S \in SUBSET Evicting(u)
        PROVE  Cardinality(Kept(u, S)') <= MaxDevices + crashes + Cardinality(Flying(u) \ S)
    <2>1. ASSUME NEW b \in S PROVE req'[b].ids = req[b].ids
      BY <2>1 DEF Evicting, SameFlight, Trimming
    <2>2. UNION {req'[b].ids : b \in S} = UNION {req[b].ids : b \in S}
      BY <2>1
    <2>3. Kept(u, S)' = IdsOf(u)' \ UNION {req'[b].ids : b \in S}
      BY DEF Kept, IdsOf, Desk!OwnedBy
    <2>4. IdsOf(u)' \subseteq IdsOf(u) /\ IsFiniteSet(IdsOf(u))
      BY FewerIds, FewIds
    <2>5. Kept(u, S)' \subseteq Kept(u, S) /\ IsFiniteSet(Kept(u, S))
      BY <2>2, <2>3, <2>4, FS_Subset DEF Kept
    <2>6. Cardinality(Kept(u, S)') <= Cardinality(Kept(u, S)) /\ Cardinality(Kept(u, S)) \in Nat
          /\ Cardinality(Kept(u, S)') \in Nat
      BY <2>5, FS_Subset, FS_CardinalityType
    <2>7. Cardinality(Kept(u, S)) <= MaxDevices + crashes + Cardinality(Flying(u) \ S)
      BY DEF InLimit
    <2>8. IsFiniteSet(Flying(u) \ S) /\ Cardinality(Flying(u) \ S) \in Nat /\ MaxDevices \in Nat /\ crashes \in Nat
      BY DeskCount, FS_Subset, FS_CardinalityType DEF Flying, Desk!StaffOK, DeskTypes
    <2> QED  BY <2>6, <2>7, <2>8
  <1>3. \A S \in SUBSET Evicting(u) : (Flying(u) \ S)' = Flying(u) \ S
    BY <1>1
  <1> QED  BY <1>1, <1>2, <1>3 DEF InLimit

-----------------------------------------------------------------------------
(* The steps of a browser                                                  *)

LEMMA Wider ==
    ASSUME made \in Nat, made' \in Nat, made <= made'
    PROVE  /\ DeviceRow \subseteq DeviceRow' /\ Request \subseteq Request'
           /\ [ep : 0 .. made, good : BOOLEAN] \subseteq [ep : 0 .. made', good : BOOLEAN]
  <1>1. 1 .. made \subseteq 1 .. made' /\ 0 .. made \subseteq 0 .. made'
    OBVIOUS
  <1> QED  BY <1>1 DEF DeviceRow, Request, Steps

\* A step of browser b that deletes rows at most, and begins or ends no look at who is over the limit.
LEMMA OneBrowser ==
    ASSUME Desk!StaffOK, DeskInv, NEW b \in Browsers, rows' \subseteq rows, DeskTypes', OneHome', BrowserOK(b)',
           \A c \in Browsers \ {b} : req'[c] = req[c] /\ sub'[c].ep = sub[c].ep /\ login'[c] = login[c] /\ chosen'[c] = chosen[c],
           turned \subseteq turned', crashes' = crashes, ~Trimming(b), ~Trimming(b)'
    PROVE  DeskInv'
  <1>1. Sheds /\ OneRow'
    BY RowsGo DEF DeskInv
  <1>2. ASSUME NEW c \in Browsers PROVE BrowserOK(c)'
    <2>1. crashes \in Nat
      BY DEF DeskInv, DeskTypes
    <2> QED  BY <2>1, BrowserKeeps DEF DeskInv
  <1>3. SameFlight
    BY DEF SameFlight, Trimming
  <1>4. \A u \in Users : InLimit(u)'
    BY <1>1, <1>3, LimitStays DEF DeskInv
  <1> QED  BY <1>1, <1>2, <1>4 DEF DeskInv

\* A person signs in at a browser where nobody waits for an answer.
LEMMA SignInKeeps ==
    ASSUME Desk!StaffOK, DeskInv, NEW b \in Browsers, NEW u \in Users, Desk!SignIn(b, u)
    PROVE  DeskInv'
  <1>1. /\ req[b].pc = "idle" /\ login' = [login EXCEPT ![b] = u] /\ uses' \in 0 .. MaxUses
        /\ UNCHANGED <<sub, rows, older, active, req, send, made, dead, chosen, turned, crashes>>
    BY DEF Desk!SignIn, Desk!Use, DeskInv, DeskTypes, Desk!StaffOK
  <1>2. DeskTypes'
    BY <1>1 DEF DeskInv, DeskTypes, DeviceRow, Request
  <1>3. OneHome' /\ ~Trimming(b) /\ ~Trimming(b)'
    BY <1>1 DEF DeskInv, OneHome, Trimming
  <1>4. BrowserOK(b)'
    BY <1>1, BrowserIdle DEF DeskInv, BrowserOK, Chosen
  <1>5. \A c \in Browsers \ {b} : login'[c] = login[c]
    BY <1>1 DEF DeskInv, DeskTypes
  <1> QED  BY <1>1, <1>2, <1>3, <1>4, <1>5, OneBrowser

\* Where nobody trims the user's rows, they are within the limit.
LEMMA Roomy ==
    ASSUME Desk!StaffOK, DeskInv, NEW u \in Users, crashes = 0, ~Desk!Trims(u)
    PROVE  Cardinality(IdsOf(u)) <= MaxDevices
  <1>1. Flying(u) = {}
    BY DEF Flying, Desk!Trims
  <1>2. {} \in SUBSET Evicting(u) /\ Kept(u, {}) = IdsOf(u) /\ Flying(u) \ {} = {}
    BY <1>1 DEF Kept
  <1>3. Cardinality(IdsOf(u)) <= MaxDevices + crashes + Cardinality({})
    BY <1>2 DEF DeskInv, InLimit
  <1> QED  BY <1>3, FS_EmptySet DEF Desk!StaffOK

\* A new request of the person signed in, for a kind that is chosen and a subscription the browser now has.
LEMMA NewRequest ==
    ASSUME Desk!StaffOK, DeskInv, NEW b \in Browsers, NEW k \in Kinds, NEW new \in 1 .. made', NEW old \in 0 .. made,
           Desk!Stores(b, k, new, old), sub'[b].ep = new, login'[b] = login[b], rows' = rows, crashes' = crashes,
           req[b].pc = "idle", made' \in Nat, made <= made',
           b \notin turned' => k \in chosen'[b][login[b]] /\ \A r \in rows : r.ep = new => r.kinds \subseteq chosen'[b][r.user]
    PROVE  /\ req' \in [Browsers -> Request'] /\ (\A c \in Browsers : IsFiniteSet(req'[c].ids)) /\ BrowserOK(b)'
           /\ (\A c \in Browsers \ {b} : req'[c] = req[c]) /\ ~Trimming(b) /\ ~Trimming(b)'
  <1> DEFINE n == [Desk!Idle EXCEPT !.pc = IF old # 0 THEN "replace" ELSE "look", !.user = login[b], !.kind = k, !.ep = new,
                     !.old = old, !.replaces = Desk!Owns(login[b], old), !.alone = ~Desk!Trims(login[b])]
  <1>1. req' = [req EXCEPT ![b] = n]
    BY DEF Desk!Stores
  <1>2. /\ n.pc = (IF old # 0 THEN "replace" ELSE "look") /\ n.user = login[b] /\ n.kind = k /\ n.ep = new
        /\ n.old = old /\ n.kinds = {} /\ n.ids = {} /\ n.replaces = Desk!Owns(login[b], old)
        /\ n.alone = ~Desk!Trims(login[b])
    BY DEF Desk!Idle
  <1>3. login[b] \in Users /\ made \in Nat /\ req \in [Browsers -> Request]
    BY DEF DeskInv, DeskTypes
  <1>4. n \in Request'
    <2>1. old \in 0 .. made' /\ new \in 0 .. made' /\ Desk!Owns(login[b], old) \in BOOLEAN /\ Desk!Trims(login[b]) \in BOOLEAN
      BY <1>3 DEF Desk!Owns, Desk!Trims
    <2> QED  BY <1>3, <2>1 DEF Desk!Idle, Request, Steps
  <1> HIDE DEF n
  <1>5. req'[b] = n
    BY <1>1, <1>3
  <1>6. req' \in [Browsers -> Request'] /\ \A c \in Browsers : IsFiniteSet(req'[c].ids)
    <2>1. Request \subseteq Request' /\ IsFiniteSet({})
      BY <1>3, Wider, FS_EmptySet
    <2> QED  BY <1>1, <1>2, <1>3, <1>4, <2>1 DEF DeskInv, DeskTypes
  <1>7. MakesRoom(b)'
    <2> SUFFICES ASSUME Desk!Owns(login[b], old), ~Desk!Trims(login[b]), crashes = 0
                 PROVE  old # 0 /\ Cardinality(Rest(login[b], old)) < MaxDevices
      BY <1>2, <1>5 DEF MakesRoom, Rest, IdsOf, Desk!OwnedBy
    <2>1. PICK r \in Desk!OwnedBy(login[b]) : r.ep = old
      BY DEF Desk!Owns
    <2>2. r \in rows /\ r.user = login[b] /\ old # 0
      BY <2>1 DEF Desk!OwnedBy, DeskInv, DeskTypes, DeviceRow
    <2>3. r.id \in IdsOf(login[b]) /\ r.id \notin Rest(login[b], old)
      BY <2>1, <2>2 DEF IdsOf, Rest, Desk!OwnedBy, DeskInv, OneRow
    <2>4. Cardinality(IdsOf(login[b])) <= MaxDevices /\ IsFiniteSet(IdsOf(login[b])) /\ Cardinality(IdsOf(login[b])) \in Nat
      BY <1>3, Roomy, FewIds DEF DeskInv
    <2>5. Rest(login[b], old) \subseteq IdsOf(login[b]) \ {r.id}
      BY <2>3 DEF IdsOf, Rest
    <2>6. /\ Cardinality(IdsOf(login[b]) \ {r.id}) = Cardinality(IdsOf(login[b])) - 1
          /\ IsFiniteSet(IdsOf(login[b]) \ {r.id})
      BY <2>3, <2>4, FS_RemoveElement
    <2>7. Cardinality(Rest(login[b], old)) <= Cardinality(IdsOf(login[b]) \ {r.id}) /\ Cardinality(Rest(login[b], old)) \in Nat
      BY <2>5, <2>6, FS_Subset, FS_CardinalityType
    <2> QED  BY <2>2, <2>4, <2>6, <2>7 DEF Desk!StaffOK
  <1>8. Asks(b)' /\ Stored(b)' /\ Removes(b)'
    BY <1>2, <1>5 DEF Asks, Stored, Removes
  <1>9. b \notin turned' => Chosen(b)'
    BY <1>2, <1>5 DEF Chosen
  <1>10. (\A c \in Browsers \ {b} : req'[c] = req[c]) /\ ~Trimming(b) /\ ~Trimming(b)'
    BY <1>1, <1>2, <1>3, <1>5 DEF Trimming
  <1> QED  BY <1>6, <1>7, <1>8, <1>9, <1>10 DEF BrowserOK

\* A person turns a kind on.
LEMMA EnableKeeps ==
    ASSUME Desk!StaffOK, DeskInv, NEW b \in Browsers, NEW k \in Kinds, Desk!Enable(b, k)
    PROVE  DeskInv'
  <1>1. /\ req[b].pc = "idle" /\ uses' \in 0 .. MaxUses
        /\ chosen' = [chosen EXCEPT ![b][login[b]] = @ \cup {k}]
        /\ UNCHANGED <<login, rows, older, active, send, dead, turned, crashes>>
    BY DEF Desk!Enable, Desk!Use, DeskInv, DeskTypes, Desk!StaffOK
  <1>2. login[b] \in Users /\ made \in 0 .. MaxEndpoints /\ made \in Nat /\ MaxEndpoints \in Nat
        /\ chosen \in [Browsers -> [Users -> SUBSET Kinds]] /\ sub \in [Browsers -> [ep : 0 .. made, good : BOOLEAN]]
    BY DEF DeskInv, DeskTypes, Desk!StaffOK
  <1>3. PICK new, old : /\ new \in 1 .. made' /\ old \in 0 .. made /\ Desk!Stores(b, k, new, old) /\ sub'[b].ep = new
                        /\ made' \in 0 .. MaxEndpoints /\ made <= made' /\ sub' \in [Browsers -> [ep : 0 .. made', good : BOOLEAN]]
                        /\ (\A c \in Browsers \ {b} : sub'[c] = sub[c]) /\ (new = sub[b].ep \/ new = made + 1)
    <2>1. CASE sub[b].ep # 0 /\ sub[b].good
      <3>1. UNCHANGED <<sub, made>> /\ Desk!Stores(b, k, sub[b].ep, 0)
        BY <2>1 DEF Desk!Enable
      <3>2. sub[b].ep \in 1 .. made
        BY <1>2, <2>1
      <3> QED  BY <1>2, <3>1, <3>2
    <2>2. CASE ~(sub[b].ep # 0 /\ sub[b].good)
      <3>1. Desk!Subscribes(b) /\ Desk!Stores(b, k, made + 1, sub[b].ep)
        BY <2>2 DEF Desk!Enable
      <3>2. /\ made' = made + 1 /\ made < MaxEndpoints
            /\ sub' = [sub EXCEPT ![b] = [ep |-> made + 1, good |-> TRUE]]
        BY <3>1 DEF Desk!Subscribes
      <3>3. sub' \in [Browsers -> [ep : 0 .. made', good : BOOLEAN]] /\ sub'[b].ep = made + 1
        BY <1>2, <3>2, Wider
      <3>4. made' \in 0 .. MaxEndpoints /\ made + 1 \in 1 .. made' /\ sub[b].ep \in 0 .. made
        BY <1>2, <3>2
      <3> QED  BY <1>2, <3>1, <3>2, <3>3, <3>4
    <2> QED  BY <2>1, <2>2
  <1>4. chosen' \in [Browsers -> [Users -> SUBSET Kinds]] /\ chosen'[b] = [chosen[b] EXCEPT ![login[b]] = @ \cup {k}]
        /\ \A c \in Browsers \ {b} : chosen'[c] = chosen[c]
    BY <1>1, <1>2
  <1>5. k \in chosen'[b][login[b]] /\ \A u \in Users : chosen[b][u] \subseteq chosen'[b][u]
    BY <1>2, <1>4
  <1>6. b \notin turned' => \A r \in rows : r.ep = new => r.kinds \subseteq chosen'[b][r.user]
    <2>1. \A r \in rows : r.user \in Users /\ r.ep \in 1 .. made
      BY DEF DeskInv, DeskTypes, DeviceRow
    <2>2. made + 1 \notin 1 .. made
      BY <1>2
    <2>3. b \notin turned => \A r \in rows : r.ep = sub[b].ep => r.kinds \subseteq chosen[b][r.user]
      BY DEF DeskInv, BrowserOK, Chosen
    <2> QED  BY <1>1, <1>3, <1>5, <2>1, <2>2, <2>3
  <1>7. /\ req' \in [Browsers -> Request'] /\ (\A c \in Browsers : IsFiniteSet(req'[c].ids)) /\ BrowserOK(b)'
        /\ (\A c \in Browsers \ {b} : req'[c] = req[c]) /\ ~Trimming(b) /\ ~Trimming(b)'
    <2>1. made' \in Nat /\ login'[b] = login[b] /\ rows' = rows /\ crashes' = crashes
      BY <1>1, <1>2, <1>3
    <2> QED  BY <1>1, <1>3, <1>5, <1>6, <2>1, NewRequest
  <1>8. DeskTypes'
    <2>1. made' \in Nat
      BY <1>2, <1>3
    <2>2. DeviceRow \subseteq DeviceRow' /\ 1 .. made \subseteq 1 .. made'
      BY <1>2, <1>3, <2>1, Wider
    <2> QED  BY <1>1, <1>3, <1>4, <1>7, <2>2 DEF DeskInv, DeskTypes
  <1>9. OneHome'
    <2>1. \A c \in Browsers : sub[c].ep \in 0 .. made /\ made + 1 \notin 0 .. made
      BY <1>2
    <2> QED  BY <1>3, <2>1 DEF DeskInv, OneHome
  <1> QED  BY <1>1, <1>3, <1>4, <1>7, <1>8, <1>9, OneBrowser

\* The push service rotates a browser's subscription, and its worker asks for the new one.
LEMMA RotateKeeps ==
    ASSUME Desk!StaffOK, DeskInv, NEW b \in Browsers, Desk!Rotate(b)
    PROVE  DeskInv'
  <1>1. /\ req[b].pc = "idle" /\ uses' \in 0 .. MaxUses /\ sub[b].ep # 0 /\ made' = made + 1 /\ made < MaxEndpoints
        /\ sub' = [sub EXCEPT ![b] = [ep |-> made + 1, good |-> TRUE]]
        /\ dead' = dead \cup {sub[b].ep} /\ turned' = turned \cup {b}
        /\ UNCHANGED <<login, rows, older, active, send, chosen, crashes>>
    BY DEF Desk!Rotate, Desk!Subscribes, Desk!Use, DeskInv, DeskTypes, Desk!StaffOK
  <1>2. made \in Nat /\ made' \in 0 .. MaxEndpoints /\ made' \in Nat /\ made <= made' /\ made + 1 \in 1 .. made'
        /\ sub \in [Browsers -> [ep : 0 .. made, good : BOOLEAN]] /\ sub[b].ep \in 1 .. made
    BY <1>1 DEF DeskInv, DeskTypes, Desk!StaffOK
  <1>3. sub' \in [Browsers -> [ep : 0 .. made', good : BOOLEAN]] /\ sub'[b].ep = made + 1
        /\ \A c \in Browsers \ {b} : sub'[c] = sub[c]
    BY <1>1, <1>2, Wider
  <1>4. /\ req' \in [Browsers -> Request'] /\ (\A c \in Browsers : IsFiniteSet(req'[c].ids)) /\ BrowserOK(b)'
        /\ (\A c \in Browsers \ {b} : req'[c] = req[c]) /\ ~Trimming(b) /\ ~Trimming(b)'
    <2>1. b \in turned'
      BY <1>1
    <2>2. ASSUME NEW old \in {0, sub[b].ep}, Desk!Stores(b, Standard, made + 1, old) PROVE <1>4!:
      <3>1. old \in 0 .. made /\ Standard \in Kinds /\ login'[b] = login[b] /\ rows' = rows /\ crashes' = crashes
        BY <1>1, <1>2, <2>2 DEF Desk!StaffOK
      <3> QED  BY <1>1, <1>2, <1>3, <2>1, <2>2, <3>1, NewRequest
    <2>3. ASSUME UNCHANGED req PROVE <1>4!:
      <3>1. BrowserOK(b)'
        BY <1>1, <2>1, <2>3, BrowserIdle
      <3>2. req \in [Browsers -> Request'] /\ \A c \in Browsers : IsFiniteSet(req[c].ids)
        BY <1>2, Wider DEF DeskInv, DeskTypes
      <3> QED  BY <1>1, <2>3, <3>1, <3>2 DEF Trimming
    <2> QED  BY <2>2, <2>3 DEF Desk!Rotate
  <1>5. DeskTypes'
    <2>1. DeviceRow \subseteq DeviceRow' /\ 1 .. made \subseteq 1 .. made'
      BY <1>2, Wider
    <2> QED  BY <1>1, <1>2, <1>3, <1>4, <2>1 DEF DeskInv, DeskTypes
  <1>6. OneHome'
    <2>1. \A c \in Browsers : sub[c].ep \in 0 .. made /\ made + 1 \notin 0 .. made
      BY <1>2
    <2> QED  BY <1>3, <2>1 DEF DeskInv, OneHome
  <1> QED  BY <1>1, <1>3, <1>4, <1>5, <1>6, OneBrowser

\* A person turns a kind off.
LEMMA DisableKeeps ==
    ASSUME Desk!StaffOK, DeskInv, NEW b \in Browsers, NEW k \in Kinds, Desk!Disable(b, k)
    PROVE  DeskInv'
  <1> DEFINE O == Desk!Owns(login[b], sub[b].ep)
             r == Desk!RowAt(sub[b].ep)
             n == [Desk!Idle EXCEPT !.pc = "remove", !.user = r.user, !.kind = k, !.ep = r.ep, !.ids = {r.id},
                                    !.kinds = r.kinds \ {k}]
  <1>1. /\ req[b].pc = "idle" /\ uses' \in 0 .. MaxUses /\ sub[b].ep # 0
        /\ UNCHANGED <<login, rows, older, active, send, made, dead, turned, crashes>>
    BY DEF Desk!Disable, Desk!Use, DeskInv, DeskTypes, Desk!StaffOK
  <1>2. O => req' = [req EXCEPT ![b] = n] /\ UNCHANGED <<sub, chosen>>
    BY DEF Desk!Disable
  <1>3. ~O => sub' = [sub EXCEPT ![b].ep = 0] /\ chosen' = [chosen EXCEPT ![b][login[b]] = @ \ {k}] /\ UNCHANGED req
    BY DEF Desk!Disable
  <1>4. /\ login[b] \in Users /\ req \in [Browsers -> Request] /\ \A c \in Browsers : IsFiniteSet(req[c].ids)
        /\ chosen \in [Browsers -> [Users -> SUBSET Kinds]] /\ sub \in [Browsers -> [ep : 0 .. made, good : BOOLEAN]]
        /\ made \in Nat
    BY DEF DeskInv, DeskTypes
  <1>5. CASE O
    <2>1. r \in rows /\ r.ep = sub[b].ep /\ r.user = login[b]
      <3>1. PICK q \in rows : q.ep = sub[b].ep /\ q.user = login[b]
        BY <1>5 DEF Desk!Owns, Desk!OwnedBy
      <3>2. r \in rows /\ r.ep = sub[b].ep
        BY <3>1 DEF Desk!RowAt
      <3> QED  BY <3>1, <3>2 DEF DeskInv, OneRow
    <2>2. r.id \in Nat /\ r.user \in Users /\ r.ep \in 0 .. made /\ r.kinds \in SUBSET Kinds
      BY <2>1 DEF DeskInv, DeskTypes, DeviceRow
    <2> HIDE DEF r
    <2>3. n.pc = "remove" /\ n.user = r.user /\ n.kind = k /\ n.ep = r.ep /\ n.ids = {r.id}
          /\ n.kinds = r.kinds \ {k} /\ n.replaces = FALSE
      BY DEF Desk!Idle
    <2>10. r.kinds \ {k} \in SUBSET Kinds /\ {r.id} \in SUBSET Nat /\ 0 \in 0 .. made /\ r.user \in Users \cup {None}
      BY <2>2, <1>4
    <2>11. n \in Request
      BY <2>2, <2>10 DEF Desk!Idle, Request, Steps
    <2> HIDE DEF n
    <2>4. req'[b] = n /\ req' \in [Browsers -> Request] /\ \A c \in Browsers \ {b} : req'[c] = req[c]
      BY <1>2, <1>4, <1>5, <2>11
    <2>5. IsFiniteSet(n.ids)
      <3>1. IsFiniteSet({r.id})
        BY FS_Singleton
      <3> QED  BY <2>3, <3>1
    <2>6. DeskTypes'
      BY <1>1, <1>2, <1>4, <1>5, <2>4, <2>5 DEF DeskInv, DeskTypes, DeviceRow, Request
    <2>7. \A q \in rows : (q.id = r.id <=> q.ep = r.ep) /\ (q.ep = r.ep => q = r)
      BY <2>1 DEF DeskInv, OneRow
    <2>8. BrowserOK(b)'
      <3>1. Asks(b)' /\ Stored(b)' /\ MakesRoom(b)'
        BY <1>1, <1>2, <1>5, <2>1, <2>3, <2>4 DEF Asks, Stored, MakesRoom
      <3>2. Removes(b)'
        BY <1>1, <2>3, <2>4, <2>7 DEF Removes
      <3>3. b \notin turned' => Chosen(b)'
        BY <1>1, <1>2, <1>5, <2>3, <2>4 DEF Chosen, DeskInv, BrowserOK
      <3> QED  BY <3>1, <3>2, <3>3 DEF BrowserOK
    <2>9. ~Trimming(b) /\ ~Trimming(b)' /\ OneHome'
      BY <1>1, <1>2, <1>5, <2>3, <2>4 DEF Trimming, OneHome, DeskInv
    <2> QED  BY <1>1, <1>2, <1>5, <2>4, <2>6, <2>8, <2>9, OneBrowser
  <1>6. CASE ~O
    <2>7. sub' = [sub EXCEPT ![b].ep = 0] /\ chosen' = [chosen EXCEPT ![b][login[b]] = @ \ {k}]
      BY <1>3, <1>6
    <2>8. 0 \in 0 .. made /\ chosen[b][login[b]] \ {k} \in SUBSET Kinds
      BY <1>4
    <2> HIDE DEF O
    <2>1. sub' \in [Browsers -> [ep : 0 .. made, good : BOOLEAN]] /\ sub'[b].ep = 0 /\ \A c \in Browsers \ {b} : sub'[c] = sub[c]
      BY <1>4, <2>7, <2>8
    <2>2. chosen' \in [Browsers -> [Users -> SUBSET Kinds]] /\ \A c \in Browsers \ {b} : chosen'[c] = chosen[c]
      BY <1>4, <2>7, <2>8
    <2>3. DeskTypes'
      BY <1>1, <1>3, <1>4, <1>6, <2>1, <2>2 DEF DeskInv, DeskTypes, DeviceRow, Request
    <2>4. OneHome'
      BY <2>1 DEF DeskInv, OneHome
    <2>5. \A q \in rows : q.ep # 0
      BY <1>4 DEF DeskInv, DeskTypes, DeviceRow
    <2>6. BrowserOK(b)' /\ ~Trimming(b) /\ ~Trimming(b)'
      BY <1>1, <1>3, <1>6, <2>1, <2>5, BrowserIdle DEF Trimming
    <2> QED  BY <1>1, <1>3, <1>6, <2>1, <2>2, <2>3, <2>4, <2>6, OneBrowser
  <1> QED  BY <1>5, <1>6

\* A row in which no more than the kinds change, at the browser of the step.
LEMMA OneRowLess ==
    ASSUME Desk!StaffOK, DeskInv, NEW b \in Browsers, NEW r \in rows, NEW K \in (SUBSET Kinds) \ {{}}, r.ep = sub[b].ep,
           rows' = Desk!Without({r.id}) \cup {[r EXCEPT !.kinds = K]}, made' = made
    PROVE  /\ rows' \subseteq DeviceRow' /\ IsFiniteSet(rows') /\ OneRow' /\ Sheds
           /\ \A q \in rows' : (q \in rows /\ q.ep # r.ep) \/ q = [r EXCEPT !.kinds = K]
  <1> DEFINE n == [r EXCEPT !.kinds = K]
  <1>1. rows \subseteq DeviceRow /\ IsFiniteSet(rows) /\ OneRow
    BY DEF DeskInv, DeskTypes
  <1>2. n \in DeviceRow /\ n.id = r.id /\ n.ep = r.ep /\ n.user = r.user
    BY <1>1 DEF DeviceRow
  <1>3. Desk!Without({r.id}) \subseteq rows /\ \A q \in Desk!Without({r.id}) : q.id # r.id /\ q.ep # r.ep
    BY <1>1 DEF Desk!Without, OneRow
  <1> HIDE DEF n
  <1>4. rows' = Desk!Without({r.id}) \cup {n}
    BY DEF n
  <1>5. rows' \subseteq DeviceRow' /\ IsFiniteSet(rows')
    <2>1. IsFiniteSet(Desk!Without({r.id})) /\ IsFiniteSet({n})
      BY <1>1, <1>3, FS_Subset, FS_Singleton
    <2>2. rows' \subseteq DeviceRow
      BY <1>1, <1>2, <1>3, <1>4
    <2>3. IsFiniteSet(Desk!Without({r.id}) \cup {n})
      BY <2>1, FS_Union
    <2> QED  BY <1>4, <2>2, <2>3 DEF DeviceRow
  <1>6. OneRow' /\ Sheds
    BY <1>1, <1>2, <1>3, <1>4 DEF OneRow, Sheds
  <1> QED  BY <1>3, <1>4, <1>5, <1>6 DEF n

\* The server takes the kind away, or the row with the last one.
LEMMA RemoveKeeps ==
    ASSUME Desk!StaffOK, DeskInv, NEW b \in Browsers, Desk!Remove(b)
    PROVE  DeskInv'
  <1> DEFINE k == req[b].kind
             u == req[b].user
  <1>1. /\ req[b].pc = "remove" /\ req' = [req EXCEPT ![b] = Desk!Idle]
        /\ chosen' = [chosen EXCEPT ![b][u] = @ \ {k}]
        /\ UNCHANGED <<login, active, send, made, dead, turned, uses, crashes>>
    BY DEF Desk!Remove
  <1>2. /\ req \in [Browsers -> Request] /\ \A c \in Browsers : IsFiniteSet(req[c].ids)
        /\ chosen \in [Browsers -> [Users -> SUBSET Kinds]] /\ sub \in [Browsers -> [ep : 0 .. made, good : BOOLEAN]]
        /\ login \in [Browsers -> Users] /\ made \in Nat /\ rows \subseteq DeviceRow
    BY DEF DeskInv, DeskTypes
  <1>3. /\ u = login[b] /\ u \in Users /\ req[b].ep = sub[b].ep /\ sub[b].ep # 0 /\ req[b].kinds \in SUBSET Kinds
        /\ \A r \in rows : (r.id \in req[b].ids <=> r.ep = sub[b].ep)
                           /\ (r.ep = sub[b].ep => r.user = u /\ req[b].kinds = r.kinds \ {k})
        /\ (b \notin turned => \A r \in rows : r.ep = sub[b].ep => r.kinds \subseteq chosen[b][r.user])
    BY <1>1, <1>2 DEF DeskInv, BrowserOK, Asks, Removes, Chosen, Request
  <1>4. Desk!Idle \in Request /\ Desk!Idle.ids = {} /\ Desk!Idle.pc = "idle"
    BY <1>2 DEF Desk!Idle, Request, Steps, Desk!StaffOK
  <1>5. /\ req'[b] = Desk!Idle /\ req' \in [Browsers -> Request] /\ (\A c \in Browsers : IsFiniteSet(req'[c].ids))
        /\ (\A c \in Browsers \ {b} : req'[c] = req[c]) /\ ~Trimming(b) /\ ~Trimming(b)'
    BY <1>1, <1>2, <1>4, FS_EmptySet DEF Trimming
  <1>6. /\ chosen' \in [Browsers -> [Users -> SUBSET Kinds]] /\ (\A c \in Browsers \ {b} : chosen'[c] = chosen[c])
        /\ (\A v \in Users : chosen'[b][v] = IF v = u THEN chosen[b][u] \ {k} ELSE chosen[b][v])
    <2>1. chosen[b][u] \ {k} \in SUBSET Kinds
      BY <1>2, <1>3
    <2> HIDE DEF u, k
    <2> QED  BY <1>1, <1>2, <1>3, <2>1
  <1> HIDE DEF u, k
  <1>7. ASSUME rows' \subseteq DeviceRow', IsFiniteSet(rows'), sub' \in [Browsers -> [ep : 0 .. made, good : BOOLEAN]]
        PROVE  DeskTypes'
    BY <1>1, <1>5, <1>6, <1>7 DEF DeskInv, DeskTypes, Request
  <1>8. CASE req[b].kinds = {}
    <2>1. sub' = [sub EXCEPT ![b].ep = 0] /\ rows' = Desk!Without(req[b].ids)
      BY <1>8 DEF Desk!Remove, Desk!Deletes
    <2>2. rows' \subseteq rows
      BY <2>1 DEF Desk!Without
    <2>3. sub' \in [Browsers -> [ep : 0 .. made, good : BOOLEAN]] /\ sub'[b].ep = 0 /\ \A c \in Browsers \ {b} : sub'[c] = sub[c]
      BY <1>2, <2>1
    <2>4. DeskTypes'
      BY <1>1, <1>2, <1>7, <2>2, <2>3, RowsGo DEF DeskInv, DeviceRow
    <2>5. OneHome'
      BY <2>3 DEF DeskInv, OneHome
    <2>6. BrowserOK(b)'
      BY <1>2, <1>4, <1>5, <2>2, <2>3, BrowserIdle DEF DeviceRow
    <2> QED  BY <1>1, <1>5, <1>6, <2>2, <2>3, <2>4, <2>5, <2>6, OneBrowser
  <1>9. CASE req[b].kinds # {} /\ Desk!Gone(req[b].ids) /\ UNCHANGED <<rows, sub>>
    <2>1. \A r \in rows : r.ep # sub[b].ep
      BY <1>3, <1>9 DEF Desk!Gone, Desk!Without
    <2>2. DeskTypes'
      BY <1>1, <1>2, <1>7, <1>9 DEF DeskInv, DeskTypes, DeviceRow
    <2>3. OneHome' /\ BrowserOK(b)'
      BY <1>4, <1>5, <1>9, <2>1, BrowserIdle DEF DeskInv, OneHome
    <2> QED  BY <1>1, <1>5, <1>6, <1>9, <2>2, <2>3, OneBrowser
  <1>10. ASSUME req[b].kinds # {}, UNCHANGED sub, NEW r \in rows, r.id \in req[b].ids, Desk!Writes([r EXCEPT !.kinds = req[b].kinds])
         PROVE  DeskInv'
    <2> DEFINE n == [r EXCEPT !.kinds = req[b].kinds]
    <2>10. r \in rows /\ r.id \in req[b].ids /\ req[b].kinds # {}
      BY <1>10
    <2>1. r.ep = sub[b].ep /\ r.user = u /\ req[b].kinds = r.kinds \ {k} /\ req[b].kinds \in (SUBSET Kinds) \ {{}}
      BY <1>3, <2>10
    <2>2. n.id = r.id /\ n.kinds = req[b].kinds /\ n.ep = r.ep /\ n.user = r.user
      BY <1>2 DEF DeviceRow
    <2>3. rows' = Desk!Without({r.id}) \cup {n}
      BY <1>10, <2>2 DEF Desk!Writes
    <2>4. /\ rows' \subseteq DeviceRow' /\ IsFiniteSet(rows') /\ OneRow' /\ Sheds
          /\ \A q \in rows' : (q \in rows /\ q.ep # r.ep) \/ q = n
      BY <1>1, <2>1, <2>3, OneRowLess
    <2> HIDE DEF n
    <2>5. DeskTypes' /\ OneHome'
      BY <1>2, <1>7, <1>10, <2>4 DEF DeskInv, OneHome
    <2>6. BrowserOK(b)'
      <3>1. ASSUME b \notin turned', NEW q \in rows', q.ep = sub'[b].ep PROVE q.kinds \subseteq chosen'[b][q.user]
        <4>1. q = n
          BY <1>10, <2>1, <2>4, <3>1
        <4>2. r.kinds \subseteq chosen[b][u]
          BY <1>1, <1>3, <2>1, <3>1
        <4> QED  BY <1>3, <1>6, <2>1, <2>2, <4>1, <4>2
      <3> QED  BY <1>4, <1>5, <3>1, BrowserIdle
    <2>7. ASSUME NEW c \in Browsers \ {b} PROVE BrowserOK(c)'
      <3>1. \A q \in rows' : q.ep = sub[c].ep => q \in rows
        BY <1>3, <2>1, <2>2, <2>4 DEF DeskInv, OneHome
      <3>2. crashes' \in Nat /\ crashes <= crashes' /\ sub'[c].ep = sub[c].ep /\ login'[c] = login[c] /\ turned \subseteq turned'
        BY <1>1, <1>10 DEF DeskInv, DeskTypes
      <3> QED  BY <1>5, <1>6, <2>4, <3>1, <3>2, BrowserElsewhere DEF DeskInv
    <2>8. SameFlight
      BY <1>5 DEF SameFlight, Trimming
    <2>9. \A v \in Users : InLimit(v)'
      BY <1>1, <2>4, <2>8, LimitStays DEF DeskInv
    <2> QED  BY <2>4, <2>5, <2>6, <2>7, <2>9 DEF DeskInv
  <1> QED  BY <1>8, <1>9, <1>10 DEF Desk!Remove, Desk!table

\* A request that goes on at its browser.
LEMMA RequestStep ==
    ASSUME DeskInv, NEW b \in Browsers, NEW n \in Request, IsFiniteSet(n.ids), Desk!Goes(b, n), made' = made
    PROVE  /\ req'[b] = n /\ req' \in [Browsers -> Request'] /\ (\A c \in Browsers : IsFiniteSet(req'[c].ids))
           /\ \A c \in Browsers \ {b} : req'[c] = req[c]
  <1>1. req \in [Browsers -> Request] /\ (\A c \in Browsers : IsFiniteSet(req[c].ids)) /\ Request' = Request
    BY DEF DeskInv, DeskTypes, Request
  <1> QED  BY <1>1 DEF Desk!Goes

\* The row of the old endpoint goes.
LEMMA ReplaceKeeps ==
    ASSUME Desk!StaffOK, DeskInv, NEW b \in Browsers, Desk!Replace(b)
    PROVE  DeskInv'
  <1> DEFINE n == [req[b] EXCEPT !.pc = "look"]
             u == req[b].user
             e == req[b].old
  <1>1. /\ req[b].pc = "replace" /\ Desk!Goes(b, n)
        /\ UNCHANGED <<login, sub, active, send, made, dead, chosen, turned, uses, crashes>>
    BY DEF Desk!Replace, Desk!At
  <1>2. req[b] \in Request /\ IsFiniteSet(req[b].ids)
    BY DEF DeskInv, DeskTypes
  <1>3. n \in Request /\ n.pc = "look" /\ n.user = req[b].user /\ n.kind = req[b].kind /\ n.ep = req[b].ep /\ n.ids = req[b].ids
        /\ n.kinds = req[b].kinds /\ n.replaces = req[b].replaces /\ n.alone = req[b].alone
    BY <1>2 DEF Request, Steps
  <1> HIDE DEF n
  <1>4. /\ req'[b] = n /\ req' \in [Browsers -> Request'] /\ (\A c \in Browsers : IsFiniteSet(req'[c].ids))
        /\ \A c \in Browsers \ {b} : req'[c] = req[c]
    BY <1>1, <1>2, <1>3, RequestStep
  <1>5. rows' \subseteq rows
    BY DEF Desk!Replace, Desk!Deletes, Desk!Without, Desk!table
  <1>6. IdsOf(u)' \subseteq Rest(u, e)
    <2> SUFFICES ASSUME NEW r \in rows', r.user = u, r.ep = e PROVE FALSE
      <3>1. req'[b].user = u
        BY <1>3, <1>4
      <3>2. IdsOf(u)' = {r.id : r \in {q \in rows' : q.user = u}}
        BY <3>1 DEF IdsOf, Desk!OwnedBy
      <3> HIDE DEF u, e
      <3> QED  BY <1>5, <3>2 DEF Rest, Desk!OwnedBy
    <2>1. r \in rows /\ Desk!Owns(u, e)
      BY <1>5 DEF Desk!Owns, Desk!OwnedBy
    <2>2. rows' = Desk!Without({Desk!RowAt(e).id})
      BY <2>1 DEF Desk!Replace, Desk!Deletes
    <2>3. Desk!RowAt(e) \in rows /\ Desk!RowAt(e).ep = e
      BY <2>1 DEF Desk!RowAt
    <2>4. Desk!RowAt(e) = r
      BY <2>1, <2>3 DEF DeskInv, OneRow
    <2> QED  BY <2>2, <2>4 DEF Desk!Without
  <1>7. DeskTypes'
    BY <1>1, <1>4, <1>5, RowsGo DEF DeskInv, DeskTypes, DeviceRow
  <1>8. BrowserOK(b)'
    <2>1. Asks(b)' /\ Stored(b)' /\ Removes(b)' /\ (b \notin turned' => Chosen(b)')
      BY <1>1, <1>3, <1>4, <1>5 DEF DeskInv, BrowserOK, Asks, Stored, Removes, Chosen
    <2>2. MakesRoom(b)'
      <3>1. Cardinality(Rest(u, e)) \in Nat /\ Cardinality(IdsOf(u)') <= Cardinality(Rest(u, e)) /\ Cardinality(IdsOf(u)') \in Nat
        BY <1>6, FewIds, FS_Subset, FS_CardinalityType DEF DeskInv
      <3>3. req[b].replaces /\ req[b].alone /\ crashes = 0 => Cardinality(Rest(u, e)) < MaxDevices
        BY <1>1 DEF DeskInv, BrowserOK, MakesRoom
      <3>4. IdsOf(req[b].user)' = IdsOf(u)'
        BY <1>3, <1>4 DEF IdsOf, Desk!OwnedBy
      <3> HIDE DEF u, e
      <3> QED  BY <1>1, <1>3, <1>4, <3>1, <3>3, <3>4 DEF MakesRoom, Desk!StaffOK
    <2> QED  BY <2>1, <2>2 DEF BrowserOK
  <1>9. OneHome' /\ ~Trimming(b) /\ ~Trimming(b)'
    BY <1>1, <1>3, <1>4 DEF DeskInv, OneHome, Trimming
  <1> QED  BY <1>1, <1>4, <1>5, <1>7, <1>8, <1>9, OneBrowser

\* The server looks which kinds the device has.
LEMMA LookKeeps ==
    ASSUME Desk!StaffOK, DeskInv, NEW b \in Browsers, Desk!Look(b)
    PROVE  DeskInv'
  <1> DEFINE u == req[b].user
             e == req[b].ep
             k == req[b].kind
             K == Desk!KindsOf(e, u, k)
             n == [req[b] EXCEPT !.pc = "store", !.kinds = K]
  <1>1. /\ req[b].pc = "look" /\ Desk!Goes(b, n)
        /\ UNCHANGED <<login, sub, rows, older, active, send, made, dead, chosen, turned, uses, crashes>>
    BY DEF Desk!Look, Desk!At
  <1>2. req[b] \in Request /\ IsFiniteSet(req[b].ids) /\ rows \subseteq DeviceRow /\ k \in Kinds
    BY DEF DeskInv, DeskTypes, Request
  <1>3. /\ K \in SUBSET Kinds /\ K # {}
        /\ \A r \in rows : r.ep = e => K = IF r.user = u THEN r.kinds \cup {k} ELSE {k}
    <2>1. ASSUME NEW r \in rows, r.ep = e PROVE Desk!RowAt(e) = r /\ (Desk!Owns(u, e) <=> r.user = u)
      <3>1. Desk!RowAt(e) \in rows /\ Desk!RowAt(e).ep = e
        BY <2>1 DEF Desk!RowAt
      <3>2. \A q \in rows : q.ep = e => q = r
        BY <2>1 DEF DeskInv, OneRow
      <3> QED  BY <2>1, <3>1, <3>2 DEF Desk!Owns, Desk!OwnedBy
    <2>2. \A r \in rows : r.ep = e => K = IF r.user = u THEN r.kinds \cup {k} ELSE {k}
      BY <2>1 DEF Desk!KindsOf
    <2>3. Desk!Owns(u, e) => \E r \in rows : r.ep = e
      BY DEF Desk!Owns, Desk!OwnedBy
    <2>4. ~Desk!Owns(u, e) => K = {k}
      BY DEF Desk!KindsOf
    <2>5. \A r \in rows : r.kinds \in SUBSET Kinds
      BY <1>2 DEF DeviceRow
    <2> HIDE DEF K, k
    <2> QED  BY <1>2, <2>2, <2>3, <2>4, <2>5
  <1> HIDE DEF K
  <1>4. n \in Request /\ n.pc = "store" /\ n.user = u /\ n.kind = k /\ n.ep = e /\ n.ids = req[b].ids
        /\ n.kinds = K /\ n.replaces = req[b].replaces /\ n.alone = req[b].alone
    BY <1>2, <1>3 DEF Request, Steps
  <1> HIDE DEF n
  <1>5. /\ req'[b] = n /\ req' \in [Browsers -> Request'] /\ (\A c \in Browsers : IsFiniteSet(req'[c].ids))
        /\ \A c \in Browsers \ {b} : req'[c] = req[c]
    BY <1>1, <1>2, <1>4, RequestStep
  <1>6. DeskTypes'
    BY <1>1, <1>5 DEF DeskInv, DeskTypes, DeviceRow
  <1>7. BrowserOK(b)'
    <2>1. Asks(b)' /\ Stored(b)' /\ Removes(b)' 
      BY <1>1, <1>3, <1>4, <1>5 DEF DeskInv, BrowserOK, Asks, Stored, Removes
    <2>2. MakesRoom(b)'
      BY <1>1, <1>4, <1>5 DEF DeskInv, BrowserOK, MakesRoom, IdsOf, Desk!OwnedBy
    <2>3. b \notin turned => Chosen(b)'
      <3> SUFFICES ASSUME b \notin turned PROVE Chosen(b)'
        OBVIOUS
      <3>1. Chosen(b) /\ e = sub[b].ep
        BY <1>1 DEF DeskInv, BrowserOK, Asks
      <3>2. k \in chosen[b][u] /\ \A r \in rows : r.ep = e => r.kinds \subseteq chosen[b][r.user]
        BY <1>1, <3>1 DEF Chosen
      <3>3. \A r \in rows : r.ep = e => K \subseteq chosen[b][u] /\ (r.user # u => K = {k})
        BY <1>3, <3>2
      <3> HIDE DEF u, e, k
      <3>4. req'[b].user = u /\ req'[b].ep = e /\ req'[b].kind = k /\ req'[b].kinds = K /\ req'[b].pc = "store"
        BY <1>4, <1>5
      <3> QED  BY <1>1, <3>1, <3>2, <3>3, <3>4 DEF Chosen
    <2> QED  BY <1>1, <2>1, <2>2, <2>3 DEF BrowserOK
  <1>8. OneHome' /\ ~Trimming(b) /\ ~Trimming(b)'
    BY <1>1, <1>4, <1>5 DEF DeskInv, OneHome, Trimming
  <1> QED  BY <1>1, <1>5, <1>6, <1>7, <1>8, OneBrowser

-----------------------------------------------------------------------------
(* Steps beside the browsers                                               *)

\* Rows go at most, and the browsers and their requests are as they were.
LEMMA NoBrowser ==
    ASSUME Desk!StaffOK, DeskInv, DeskTypes', rows' \subseteq rows, \A b \in Browsers : sub'[b].ep = sub[b].ep,
           UNCHANGED <<req, login, chosen, turned, crashes>>
    PROVE  DeskInv'
  <1>1. Sheds /\ OneRow' /\ OneHome'
    BY RowsGo DEF DeskInv, OneHome
  <1>2. ASSUME NEW c \in Browsers PROVE BrowserOK(c)'
    <2>1. crashes \in Nat
      BY DEF DeskInv, DeskTypes
    <2> QED  BY <2>1, BrowserKeeps DEF DeskInv
  <1>3. SameFlight
    BY DEF SameFlight, Trimming
  <1>4. \A u \in Users : InLimit(u)'
    BY <1>1, <1>3, LimitStays DEF DeskInv
  <1> QED  BY <1>1, <1>2, <1>4 DEF DeskInv

LEMMA ReactivateKeeps ==
    ASSUME Desk!StaffOK, DeskInv, NEW u \in Users, Desk!Reactivate(u)
    PROVE  DeskInv'
  <1>1. /\ uses' \in 0 .. MaxUses /\ active' = active \cup {u}
        /\ UNCHANGED <<login, sub, rows, older, req, send, made, dead, chosen, turned, crashes>>
    BY DEF Desk!Reactivate, Desk!Use, DeskInv, DeskTypes, Desk!StaffOK
  <1>2. DeskTypes'
    BY <1>1 DEF DeskInv, DeskTypes, DeviceRow, Request
  <1> QED  BY <1>1, <1>2, NoBrowser

LEMMA NewKeyKeeps ==
    ASSUME Desk!StaffOK, DeskInv, Desk!NewKey
    PROVE  DeskInv'
  <1>1. /\ uses' \in 0 .. MaxUses /\ sub' = [b \in Browsers |-> [sub[b] EXCEPT !.good = FALSE]]
        /\ UNCHANGED <<login, rows, older, active, req, send, made, dead, chosen, turned, crashes>>
    BY DEF Desk!NewKey, Desk!Use, DeskInv, DeskTypes, Desk!StaffOK
  <1>2. sub' \in [Browsers -> [ep : 0 .. made, good : BOOLEAN]] /\ \A b \in Browsers : sub'[b].ep = sub[b].ep
    BY <1>1 DEF DeskInv, DeskTypes
  <1>3. DeskTypes'
    BY <1>1, <1>2 DEF DeskInv, DeskTypes, DeviceRow, Request
  <1> QED  BY <1>1, <1>2, <1>3, NoBrowser

\* A fan-out takes the devices of the day, and tells one after the other.
LEMMA NotifyKeeps ==
    ASSUME Desk!StaffOK, DeskInv, NEW k \in Kinds, Desk!Notify(k)
    PROVE  DeskInv'
  <1> DEFINE R == {q \in rows : k \in q.kinds /\ q.user \in active}
             f == [r \in R |-> [id |-> r.id, ep |-> r.ep]]
  <1>1. /\ send' = {[id |-> r.id, ep |-> r.ep] : r \in R}
        /\ UNCHANGED <<login, sub, rows, older, active, req, made, dead, chosen, turned, uses, crashes>>
    BY DEF Desk!Notify
  <1>2. IsFiniteSet(send')
    <2>1. IsFiniteSet(R)
      BY FS_Subset DEF DeskInv, DeskTypes
    <2>2. f \in Surjection(R, send')
      BY <1>1 DEF Surjection
    <2> HIDE DEF R, f
    <2> QED  BY <2>1, <2>2, FS_Surjection
  <1>3. \A d \in send' : d.id \in Nat
    BY <1>1 DEF DeskInv, DeskTypes, DeviceRow
  <1>4. DeskTypes'
    BY <1>1, <1>2, <1>3 DEF DeskInv, DeskTypes, DeviceRow, Request
  <1> QED  BY <1>1, <1>4, NoBrowser

LEMMA DeliverKeeps ==
    ASSUME Desk!StaffOK, DeskInv, Desk!Deliver
    PROVE  DeskInv'
  <1>1. PICK d \in send :
          /\ send' = send \ {d}
          /\ IF d.ep \in dead THEN Desk!Deletes({d.id})
             ELSE (\E r \in rows : r.id = d.id /\ Desk!Writes(r)) \/ (Desk!Gone({d.id}) /\ UNCHANGED Desk!table)
          /\ UNCHANGED <<login, sub, active, req, made, dead, chosen, turned, uses, crashes>>
    BY DEF Desk!Deliver
  <1>2. rows' \subseteq rows
    BY <1>1 DEF Desk!Deletes, Desk!Writes, Desk!Without, Desk!table
  <1>3. IsFiniteSet(send') /\ (\A s \in send' : s.id \in Nat) /\ IsFiniteSet(rows')
    BY <1>1, <1>2, FS_Subset DEF DeskInv, DeskTypes
  <1>4. DeskTypes'
    BY <1>1, <1>2, <1>3 DEF DeskInv, DeskTypes, DeviceRow, Request
  <1> QED  BY <1>1, <1>2, <1>4, NoBrowser

\* All the devices of a person go: turned on is then only what a request under way still stores.
LEMMA DevicesGoKeeps ==
    ASSUME Desk!StaffOK, DeskInv, NEW u \in Users, Desk!DevicesGo(u), active' \subseteq active, uses' \in 0 .. MaxUses,
           UNCHANGED <<login, sub, req, send, made, dead, turned, crashes>>
    PROVE  DeskInv'
  <1>1. /\ rows' = Desk!Without({r.id : r \in Desk!OwnedBy(u)})
        /\ chosen' = [b \in Browsers |-> [chosen[b] EXCEPT ![u] = Desk!Asking(b, u)]]
    BY DEF Desk!DevicesGo, Desk!Deletes
  <1>2. rows' \subseteq rows /\ \A r \in rows' : r.user # u
    BY <1>1 DEF Desk!Without, Desk!OwnedBy
  <1>3. Sheds /\ OneRow' /\ IsFiniteSet(rows') /\ OneHome'
    BY <1>2, RowsGo DEF DeskInv, OneHome
  <1>4. \A b \in Browsers : chosen'[b] \in [Users -> SUBSET Kinds] /\ chosen'[b][u] = Desk!Asking(b, u)
                            /\ \A v \in Users \ {u} : chosen'[b][v] = chosen[b][v]
    <2>1. \A b \in Browsers : Desk!Asking(b, u) \in SUBSET Kinds
      BY DEF Desk!Asking
    <2> QED  BY <1>1, <2>1 DEF DeskInv, DeskTypes
  <1>5. DeskTypes'
    <2>1. chosen' \in [Browsers -> [Users -> SUBSET Kinds]]
      BY <1>1, <1>4
    <2> QED  BY <1>2, <1>3, <2>1 DEF DeskInv, DeskTypes, DeviceRow, Request
  <1>6. ASSUME NEW c \in Browsers PROVE BrowserOK(c)'
    <2>1. BrowserOK(c)' \/ BrowserOK(c)
      BY DEF DeskInv
    <2>2. req[c] \in Request /\ (req[c].pc # "idle" => req[c].user \in Users) /\ req[c].kind \in Kinds
      BY DEF DeskInv, DeskTypes, BrowserOK, Asks, Request
    <2>3. Asks(c)' /\ Stored(c)' /\ Removes(c)'
      BY <1>2 DEF DeskInv, BrowserOK, Asks, Stored, Removes
    <2>4. c \notin turned => Chosen(c)'
      <3> SUFFICES ASSUME c \notin turned PROVE Chosen(c)'
        OBVIOUS
      <3>1. Chosen(c) /\ Asks(c)
        BY DEF DeskInv, BrowserOK
      <3>2. \A r \in rows' : r \in rows /\ r.user \in Users \ {u}
        BY <1>2 DEF DeskInv, DeskTypes, DeviceRow
      <3>3. req[c].user = u /\ req[c].pc \in {"replace", "look", "store"} => req[c].kind \in Desk!Asking(c, u)
        BY <2>2 DEF Desk!Asking
      <3>4. req[c].pc \in {"replace", "look", "store"} => req[c].kind \in chosen'[c][req[c].user]
        BY <1>4, <2>2, <3>1, <3>3 DEF Chosen
      <3>5. \A r \in rows' : r.ep = sub[c].ep => r.kinds \subseteq chosen'[c][r.user]
        BY <1>4, <3>1, <3>2 DEF Chosen
      <3>6. ASSUME req[c].pc = "store", NEW r \in rows', r.ep = req[c].ep
            PROVE  req[c].kinds \subseteq chosen'[c][req[c].user] /\ (r.user # req[c].user => req[c].kinds = {req[c].kind})
        <4>1. r \in rows /\ r.user \in Users \ {u}
          BY <3>2
        <4>2. req[c].kinds \subseteq chosen[c][req[c].user] /\ (r.user # req[c].user => req[c].kinds = {req[c].kind})
          BY <3>1, <3>6, <4>1 DEF Chosen
        <4>3. req[c].user = u => req[c].kinds = {req[c].kind}
          BY <4>1, <4>2
        <4>4. req[c].user # u => chosen'[c][req[c].user] = chosen[c][req[c].user]
          BY <1>4, <2>2, <3>6
        <4> QED  BY <3>4, <3>6, <4>2, <4>3, <4>4
      <3> QED  BY <3>4, <3>5, <3>6 DEF Chosen
    <2>5. MakesRoom(c)'
      <3> DEFINE v == req[c].user
                 e == req[c].old
      <3>1. /\ Cardinality(IdsOf(v)') \in Nat /\ Cardinality(IdsOf(v)') <= Cardinality(IdsOf(v)) /\ Cardinality(IdsOf(v)) \in Nat
            /\ Cardinality(Rest(v, e)') \in Nat /\ Cardinality(Rest(v, e)') <= Cardinality(Rest(v, e)) /\ Cardinality(Rest(v, e)) \in Nat
        BY <1>3, FewerIds, FewIds DEF DeskInv
      <3>2. IdsOf(req[c].user)' = IdsOf(v)' /\ Rest(req[c].user, req[c].old)' = Rest(v, e)'
        BY DEF IdsOf, Rest, Desk!OwnedBy
      <3>3. MakesRoom(c) /\ req'[c] = req[c] /\ crashes' = crashes /\ MaxDevices \in Nat
        BY DEF DeskInv, BrowserOK, Desk!StaffOK
      <3> HIDE DEF v, e
      <3> QED  BY <3>1, <3>2, <3>3 DEF MakesRoom, v, e
    <2> QED  BY <2>3, <2>4, <2>5 DEF BrowserOK
  <1>7. SameFlight
    BY DEF SameFlight, Trimming
  <1>8. \A v \in Users : InLimit(v)'
    BY <1>3, <1>7, LimitStays DEF DeskInv
  <1> QED  BY <1>3, <1>5, <1>6, <1>8 DEF DeskInv

LEMMA UserGoes ==
    ASSUME Desk!StaffOK, DeskInv, NEW u \in Users, Desk!RemoveAll(u) \/ Desk!Deactivate(u)
    PROVE  DeskInv'
  <1>1. /\ uses' \in 0 .. MaxUses /\ active' \subseteq active /\ Desk!DevicesGo(u)
        /\ UNCHANGED <<login, sub, req, send, made, dead, turned, crashes>>
    BY DEF Desk!RemoveAll, Desk!Deactivate, Desk!Use, DeskInv, DeskTypes, Desk!StaffOK
  <1> QED  BY <1>1, DevicesGoKeeps

-----------------------------------------------------------------------------
(* Ids that nobody has                                                     *)

\* Finitely many finite sets have finitely many members together.
LEMMA FewTogether ==
    ASSUME NEW B, IsFiniteSet(B), NEW f, \A b \in B : IsFiniteSet(f[b])
    PROVE  IsFiniteSet(UNION {f[b] : b \in B})
  <1> DEFINE U(T) == UNION {f[b] : b \in T}
             Bad == {T \in SUBSET B : ~IsFiniteSet(U(T))}
             R == StrictSubsetOrdering(B)
  <1> SUFFICES ASSUME Bad # {} PROVE FALSE
    <2>1. B \in SUBSET B
      OBVIOUS
    <2> QED  BY <2>1
  <1>1. IsWellFoundedOn(R, FiniteSubsetsOf(B)) /\ FiniteSubsetsOf(B) = SUBSET B
    BY FS_StrictSubsetOrderingWellFounded, FS_FiniteSubsetsOfFinite
  <1>2. Bad \subseteq SUBSET B
    OBVIOUS
  <1> HIDE DEF Bad, R
  <1>3. \E T \in Bad : \A S \in Bad : ~(<<S, T>> \in R)
    BY <1>1, <1>2, WFMin
  <1>4. PICK T \in Bad : \A S \in Bad : ~(<<S, T>> \in R)
    BY <1>3
  <1>5. T \in SUBSET B /\ ~IsFiniteSet(U(T))
    BY DEF Bad
  <1>6. T # {}
    <2>1. UNION {f[b] : b \in {}} = {}
      OBVIOUS
    <2> QED  BY <1>5, <2>1, FS_EmptySet
  <1>7. PICK x \in T : TRUE
    BY <1>6
  <1>8. T \ {x} \notin Bad
    <2>1. <<T \ {x}, T>> \in R
      BY <1>5, <1>7 DEF R, StrictSubsetOrdering
    <2> QED  BY <1>4, <2>1
  <1>9. IsFiniteSet(U(T \ {x})) /\ IsFiniteSet(f[x])
    BY <1>5, <1>7, <1>8 DEF Bad
  <1>10. U(T) = U(T \ {x}) \cup f[x]
    BY <1>7
  <1> HIDE DEF U
  <1>11. IsFiniteSet(U(T \ {x}) \cup f[x])
    BY <1>9, FS_Union
  <1> QED  BY <1>5, <1>10, <1>11

LEMMA Fresh ==
    ASSUME Desk!StaffOK, DeskTypes
    PROVE  Desk!NewId \in Nat /\ Desk!NewId \notin Desk!Ids
  <1> DEFINE f == [r \in rows |-> r.id]
             g == [d \in send |-> d.id]
             h == [b \in Browsers |-> req[b].ids]
             A == {r.id : r \in rows}
             D == {d.id : d \in send}
             E == UNION {req[b].ids : b \in Browsers}
  <1>1. IsFiniteSet(A)
    <2>1. f \in Surjection(rows, A)
      BY DEF Surjection
    <2> HIDE DEF f, A
    <2> QED  BY <2>1, FS_Surjection DEF DeskTypes
  <1>2. IsFiniteSet(D)
    <2>1. g \in Surjection(send, D)
      BY DEF Surjection
    <2> HIDE DEF g, D
    <2> QED  BY <2>1, FS_Surjection DEF DeskTypes
  <1>3. IsFiniteSet(E)
    <2>1. IsFiniteSet(Browsers) /\ \A b \in Browsers : IsFiniteSet(h[b])
      BY DeskCount DEF DeskTypes
    <2>2. E = UNION {h[b] : b \in Browsers}
      OBVIOUS
    <2> HIDE DEF h, E
    <2> QED  BY <2>1, <2>2, FewTogether
  <1>4. Desk!Ids = A \cup D \cup E
    BY DEF Desk!Ids
  <1> HIDE DEF A, D, E
  <1>5. IsFiniteSet(A \cup D)
    BY <1>1, <1>2, FS_Union
  <1>6. IsFiniteSet(Desk!Ids)
    BY <1>3, <1>4, <1>5, FS_Union
  <1> DEFINE m == Cardinality(Desk!Ids)
  <1>7. m \in Nat /\ Desk!Cardinality(Desk!Ids) = m
    BY <1>6, FS_CardinalityType, DeskCount
  <1>8. Cardinality(1 .. m + 1) = m + 1
    <2>1. 1 \in Int /\ m + 1 \in Int /\ ~(1 > m + 1) /\ (m + 1) - 1 + 1 = m + 1
      BY <1>7
    <2> HIDE DEF m
    <2> QED  BY <2>1, FS_Interval
  <1>9. \E n \in 1 .. m + 1 : n \notin Desk!Ids
    <2>1. SUFFICES ASSUME (1 .. m + 1) \subseteq Desk!Ids PROVE FALSE
      OBVIOUS
    <2>2. Cardinality(1 .. m + 1) <= m
      BY <1>6, <2>1, FS_Subset
    <2> HIDE DEF m
    <2> QED  BY <1>7, <1>8, <2>2
  <1>10. Desk!NewId \in 1 .. m + 1 /\ Desk!NewId \notin Desk!Ids
    <2> HIDE DEF m
    <2> QED  BY <1>7, <1>9 DEF Desk!NewId
  <1> QED  BY <1>7, <1>10

-----------------------------------------------------------------------------
(* The steps that touch the limit                                          *)

LEMMA FewFly ==
    ASSUME Desk!StaffOK, NEW u, NEW S
    PROVE  IsFiniteSet(Flying(u) \ S) /\ Cardinality(Flying(u) \ S) \in Nat /\ IsFiniteSet(Flying(u)) /\ MaxDevices \in Nat
  BY DeskCount, FS_Subset, FS_CardinalityType DEF Flying, Desk!StaffOK

LEMMA FewKept ==
    ASSUME DeskTypes, NEW u, NEW S
    PROVE  IsFiniteSet(Kept(u, S)) /\ Cardinality(Kept(u, S)) \in Nat /\ Kept(u, S) \subseteq IdsOf(u)
           /\ Cardinality(Kept(u, S)) <= Cardinality(IdsOf(u))
  <1>1. Kept(u, S) \subseteq IdsOf(u) /\ IsFiniteSet(IdsOf(u))
    BY FewIds DEF Kept
  <1> QED  BY <1>1, FS_Subset, FS_CardinalityType

\* A request dies.
LEMMA CrashKeeps ==
    ASSUME Desk!StaffOK, DeskInv, NEW b \in Browsers, Desk!Crash(b)
    PROVE  DeskInv'
  <1>1. /\ req[b].pc # "idle" /\ crashes < MaxCrashes /\ crashes' = crashes + 1 /\ Desk!Goes(b, Desk!Idle)
        /\ UNCHANGED <<login, sub, rows, older, active, send, made, dead, chosen, turned, uses>>
    BY DEF Desk!Crash
  <1>2. crashes \in Nat /\ crashes' \in 0 .. MaxCrashes /\ crashes' \in Nat /\ crashes <= crashes' /\ made \in Nat
    BY <1>1 DEF DeskInv, DeskTypes, Desk!StaffOK
  <1>3. Desk!Idle \in Request /\ Desk!Idle.ids = {} /\ Desk!Idle.pc = "idle"
    BY <1>2 DEF Desk!Idle, Request, Steps, Desk!StaffOK
  <1>4. /\ req'[b] = Desk!Idle /\ req' \in [Browsers -> Request'] /\ (\A c \in Browsers : IsFiniteSet(req'[c].ids))
        /\ \A c \in Browsers \ {b} : req'[c] = req[c]
    BY <1>1, <1>3, FS_EmptySet, RequestStep
  <1>5. DeskTypes' /\ OneRow' /\ OneHome'
    BY <1>1, <1>2, <1>4 DEF DeskInv, DeskTypes, DeviceRow, OneRow, OneHome
  <1>6. BrowserOK(b)'
    BY <1>1, <1>3, <1>4, BrowserIdle DEF DeskInv, BrowserOK, Chosen
  <1>7. ASSUME NEW c \in Browsers \ {b} PROVE BrowserOK(c)'
    BY <1>1, <1>2, <1>4, BrowserKeeps DEF DeskInv
  <1>8. ASSUME NEW u \in Users, NEW S \in SUBSET Evicting(u)'
        PROVE  Cardinality(Kept(u, S)') <= MaxDevices + crashes' + Cardinality(Flying(u)' \ S)
    <2>1. b \notin S /\ S \in SUBSET Evicting(u)
      BY <1>3, <1>4 DEF Evicting
    <2>2. Kept(u, S)' = Kept(u, S)
      <3>1. \A c \in S : req'[c].ids = req[c].ids
        BY <1>4, <2>1 DEF Evicting
      <3>2. UNION {req'[c].ids : c \in S} = UNION {req[c].ids : c \in S}
        BY <3>1
      <3> QED  BY <1>1, <3>2 DEF Kept, IdsOf, Desk!OwnedBy
    <2>3. Flying(u) \ S \subseteq (Flying(u)' \ S) \cup {b}
      BY <1>4 DEF Flying
    <2>4. IsFiniteSet(Flying(u)' \ S)
      BY DeskCount, FS_Subset DEF Flying
    <2>5. Cardinality(Flying(u) \ S) <= Cardinality(Flying(u)' \ S) + 1 /\ Cardinality(Flying(u)' \ S) \in Nat
      <3> DEFINE F == Flying(u)' \ S
                 G == Flying(u) \ S
      <3>0. IsFiniteSet(F) /\ G \subseteq F \cup {b}
        BY <2>3, <2>4
      <3> HIDE DEF F, G
      <3>1. IsFiniteSet(F \cup {b}) /\ Cardinality(F) \in Nat
            /\ Cardinality(F \cup {b}) = IF b \in F THEN Cardinality(F) ELSE Cardinality(F) + 1
        BY <3>0, FS_AddElement, FS_CardinalityType
      <3>2. Cardinality(G) <= Cardinality(F \cup {b}) /\ Cardinality(G) \in Nat
        BY <3>0, <3>1, FS_Subset, FS_CardinalityType
      <3>3. Cardinality(G) <= Cardinality(F) + 1
        BY <3>1, <3>2
      <3> QED  BY <3>1, <3>3 DEF F, G
    <2>6. Cardinality(Kept(u, S)) <= MaxDevices + crashes + Cardinality(Flying(u) \ S) /\ Cardinality(Kept(u, S)) \in Nat
      BY <2>1, FewKept DEF DeskInv, InLimit
    <2>7. Cardinality(Flying(u) \ S) \in Nat /\ MaxDevices \in Nat
      BY FewFly
    <2> QED  BY <1>1, <1>2, <2>2, <2>5, <2>6, <2>7
  <1>9. \A u \in Users : InLimit(u)'
    BY <1>8 DEF InLimit
  <1> QED  BY <1>5, <1>6, <1>7, <1>9 DEF DeskInv

\* What was over the limit goes.
LEMMA EvictKeeps ==
    ASSUME Desk!StaffOK, DeskInv, NEW b \in Browsers, Desk!Evict(b)
    PROVE  DeskInv'
  <1>1. /\ req[b].pc = "evict" /\ rows' = Desk!Without(req[b].ids) /\ Desk!Goes(b, Desk!Idle)
        /\ UNCHANGED <<login, sub, active, send, made, dead, chosen, turned, uses, crashes>>
    BY DEF Desk!Evict, Desk!At, Desk!Deletes
  <1>2. made \in Nat /\ crashes \in Nat
    BY DEF DeskInv, DeskTypes
  <1>3. Desk!Idle \in Request /\ Desk!Idle.ids = {} /\ Desk!Idle.pc = "idle"
    BY <1>2 DEF Desk!Idle, Request, Steps, Desk!StaffOK
  <1>4. /\ req'[b] = Desk!Idle /\ req' \in [Browsers -> Request'] /\ (\A c \in Browsers : IsFiniteSet(req'[c].ids))
        /\ \A c \in Browsers \ {b} : req'[c] = req[c]
    BY <1>1, <1>3, FS_EmptySet, RequestStep
  <1>5. rows' \subseteq rows
    BY <1>1 DEF Desk!Without
  <1>6. DeskTypes' /\ OneRow' /\ OneHome'
    <2>1. OneRow' /\ IsFiniteSet(rows')
      BY <1>5, RowsGo DEF DeskInv
    <2> QED  BY <1>1, <1>4, <1>5, <2>1 DEF DeskInv, DeskTypes, DeviceRow, OneHome
  <1>7. BrowserOK(b)'
    BY <1>1, <1>3, <1>4, <1>5, BrowserIdle DEF DeskInv, BrowserOK, Chosen
  <1>8. ASSUME NEW c \in Browsers \ {b} PROVE BrowserOK(c)'
    BY <1>1, <1>2, <1>4, <1>5, BrowserKeeps DEF DeskInv
  <1>9. ASSUME NEW u \in Users, NEW S \in SUBSET Evicting(u)'
        PROVE  Cardinality(Kept(u, S)') <= MaxDevices + crashes + Cardinality(Flying(u)' \ S)
    <2>1. b \notin S /\ S \in SUBSET Evicting(u) /\ \A c \in S : req'[c] = req[c]
      BY <1>3, <1>4 DEF Evicting
    <2>2. UNION {req'[c].ids : c \in S} = UNION {req[c].ids : c \in S}
      BY <2>1
    <2>3. Kept(u, S)' = {r.id : r \in {q \in rows' : q.user = u}} \ UNION {req[c].ids : c \in S}
      BY <2>2 DEF Kept, IdsOf, Desk!OwnedBy
    <2>4. \E T \in SUBSET Evicting(u) : Kept(u, S)' \subseteq Kept(u, T) /\ Flying(u)' \ S = Flying(u) \ T
      <3>1. CASE req[b].user = u
        <4>1. S \cup {b} \in SUBSET Evicting(u)
          BY <1>1, <2>1, <3>1 DEF Evicting
        <4>2. Kept(u, S)' \subseteq Kept(u, S \cup {b})
          BY <1>1, <2>3 DEF Desk!Without, Kept, IdsOf, Desk!OwnedBy
        <4>3. Flying(u)' \ S = Flying(u) \ (S \cup {b})
          BY <1>3, <1>4 DEF Flying
        <4> QED  BY <4>1, <4>2, <4>3
      <3>2. CASE req[b].user # u
        <4>1. Kept(u, S)' \subseteq Kept(u, S)
          BY <1>5, <2>3 DEF Kept, IdsOf, Desk!OwnedBy
        <4>2. Flying(u)' = Flying(u)
          BY <1>3, <1>4, <3>2 DEF Flying
        <4> QED  BY <2>1, <4>1, <4>2
      <3> QED  BY <3>1, <3>2
    <2>5. PICK T \in SUBSET Evicting(u) : Kept(u, S)' \subseteq Kept(u, T) /\ Flying(u)' \ S = Flying(u) \ T
      BY <2>4
    <2>6. Cardinality(Kept(u, T)) <= MaxDevices + crashes + Cardinality(Flying(u) \ T)
      BY DEF DeskInv, InLimit
    <2>7. IsFiniteSet(Kept(u, T)) /\ Cardinality(Kept(u, T)) \in Nat
      BY FewKept DEF DeskInv
    <2>8. Cardinality(Kept(u, S)') <= Cardinality(Kept(u, T)) /\ Cardinality(Kept(u, S)') \in Nat
      BY <2>5, <2>7, FS_Subset, FS_CardinalityType
    <2>9. Cardinality(Flying(u) \ T) \in Nat /\ MaxDevices \in Nat
      BY FewFly
    <2>10. Cardinality(Flying(u)' \ S) = Cardinality(Flying(u) \ T)
      BY <2>5
    <2> QED  BY <1>2, <2>6, <2>7, <2>8, <2>9, <2>10
  <1>10. \A u \in Users : InLimit(u)'
    BY <1>1, <1>9 DEF InLimit
  <1> QED  BY <1>6, <1>7, <1>8, <1>10 DEF DeskInv

LEMMA EachItsId ==
    ASSUME DeskTypes, OneRow, NEW u
    PROVE  Cardinality(Desk!OwnedBy(u)) <= Cardinality(IdsOf(u)) /\ Cardinality(Desk!OwnedBy(u)) \in Nat
  <1> DEFINE O == Desk!OwnedBy(u)
             I == IdsOf(u)
             f == [r \in O |-> r.id]
  <1>1. IsFiniteSet(O) /\ IsFiniteSet(I)
    BY FewIds
  <1>2. f \in Injection(O, I)
    <2>1. f \in [O -> I]
      BY DEF IdsOf
    <2>2. \A r, q \in O : r.id = q.id => r = q
      BY DEF OneRow, Desk!OwnedBy
    <2> QED  BY <2>1, <2>2 DEF Injection, IsInjective
  <1> HIDE DEF O, I, f
  <1>3. Cardinality(O) <= Cardinality(I) /\ Cardinality(O) \in Nat
    BY <1>1, <1>2, FS_Injection, FS_CardinalityType
  <1> QED  BY <1>3 DEF O, I

\* Who looks, and keeps the rows of K, is through, or has those to turn off that are over the limit.
LEMMA CountKeeps ==
    ASSUME Desk!StaffOK, DeskInv, NEW b \in Browsers, Desk!Count(b)
    PROVE  DeskInv'
  <1> DEFINE u == req[b].user
             O == Desk!OwnedBy(u)
  <1>1. /\ req[b].pc = "count"
        /\ UNCHANGED <<login, sub, rows, older, active, send, made, dead, chosen, turned, uses, crashes>>
    BY DEF Desk!Count, Desk!At
  <1> DEFINE n(K) == IF K = O THEN Desk!Idle ELSE [req[b] EXCEPT !.pc = "evict", !.ids = {r.id : r \in O \ K}]
  <1>2. PICK K \in SUBSET O : Desk!Keeps(u, K) /\ Desk!Goes(b, n(K))
    BY DEF Desk!Count
  <1>3. Cardinality(K) <= MaxDevices /\ (K # O => Cardinality(K) = MaxDevices)
    BY <1>2, DeskCount DEF Desk!Keeps
  <1>4. made \in Nat /\ crashes \in Nat /\ req[b] \in Request /\ u = login[b] /\ u \in Users
    BY <1>1 DEF DeskInv, DeskTypes, BrowserOK, Asks
  <1>5. IsFiniteSet(O) /\ IsFiniteSet(K) /\ Cardinality(K) \in Nat /\ Cardinality(O) \in Nat
    BY FewIds, FS_Subset, FS_CardinalityType DEF DeskInv
  <1> HIDE DEF O
  <1>6. /\ {r.id : r \in O \ K} \in SUBSET Nat /\ IsFiniteSet({r.id : r \in O \ K})
        /\ IdsOf(u) \ {r.id : r \in O \ K} \subseteq {r.id : r \in K}
    <2>1. {r.id : r \in O \ K} \subseteq IdsOf(u)
      BY DEF IdsOf, O
    <2>2. IsFiniteSet({r.id : r \in O \ K})
      BY <2>1, FewIds, FS_Subset DEF DeskInv
    <2> QED  BY <2>1, <2>2, FewIds DEF DeskInv, IdsOf, O
  <1>7. Cardinality({r.id : r \in K}) <= Cardinality(K) /\ IsFiniteSet({r.id : r \in K})
    <2> DEFINE f == [r \in K |-> r.id]
               I == {r.id : r \in K}
    <2>1. f \in Surjection(K, I)
      BY DEF Surjection
    <2> HIDE DEF f, I
    <2>2. Cardinality(I) <= Cardinality(K) /\ IsFiniteSet(I)
      BY <1>5, <2>1, FS_Surjection
    <2> QED  BY <2>2 DEF I
  <1>8. ASSUME NEW new \in Request, IsFiniteSet(new.ids), Desk!Goes(b, new), BrowserOK(b)',
               \A v \in Users : \A S \in SUBSET Evicting(v)' :
                  Cardinality(Kept(v, S)') <= MaxDevices + crashes + Cardinality(Flying(v)' \ S)
        PROVE  DeskInv'
    <2>1. /\ req' \in [Browsers -> Request'] /\ (\A c \in Browsers : IsFiniteSet(req'[c].ids))
          /\ \A c \in Browsers \ {b} : req'[c] = req[c]
      BY <1>1, <1>8, RequestStep
    <2>2. DeskTypes' /\ OneRow' /\ OneHome'
      BY <1>1, <2>1 DEF DeskInv, DeskTypes, DeviceRow, OneRow, OneHome
    <2>3. ASSUME NEW c \in Browsers \ {b} PROVE BrowserOK(c)'
      BY <1>1, <1>4, <2>1, BrowserKeeps DEF DeskInv
    <2>4. \A v \in Users : InLimit(v)'
      BY <1>1, <1>8 DEF InLimit
    <2> QED  BY <1>8, <2>2, <2>3, <2>4 DEF DeskInv
  <1>9. CASE K = O
    <2>1. Desk!Idle \in Request /\ Desk!Idle.ids = {} /\ Desk!Idle.pc = "idle"
      BY <1>4 DEF Desk!Idle, Request, Steps, Desk!StaffOK
    <2>2. Desk!Goes(b, Desk!Idle)
      BY <1>2, <1>9
    <2>3. req'[b] = Desk!Idle /\ \A c \in Browsers \ {b} : req'[c] = req[c]
      BY <1>1, <2>1, <2>2, FS_EmptySet, RequestStep
    <2>4. BrowserOK(b)'
      BY <1>1, <2>1, <2>3, BrowserIdle DEF DeskInv, BrowserOK, Chosen
    <2>5. ASSUME NEW v \in Users, NEW S \in SUBSET Evicting(v)'
          PROVE  Cardinality(Kept(v, S)') <= MaxDevices + crashes + Cardinality(Flying(v)' \ S)
      <3>1. S \in SUBSET Evicting(v) /\ \A c \in S : req'[c] = req[c]
        BY <2>1, <2>3 DEF Evicting
      <3>2. UNION {req'[c].ids : c \in S} = UNION {req[c].ids : c \in S}
        BY <3>1
      <3>3. Kept(v, S)' = Kept(v, S)
        BY <1>1, <3>2 DEF Kept, IdsOf, Desk!OwnedBy
      <3>4. Cardinality(Kept(v, S)) \in Nat /\ Cardinality(Kept(v, S)) <= Cardinality(IdsOf(v)) /\ Cardinality(IdsOf(v)) \in Nat
        BY FewKept, FewIds DEF DeskInv
      <3>5. Flying(v)' \subseteq Flying(v)
        BY <2>1, <2>3 DEF Flying
      <3>6. Cardinality(Flying(v)' \ S) \in Nat /\ MaxDevices \in Nat
        BY <3>5, FewFly, FS_Subset, FS_CardinalityType
      <3>7. CASE v = u
        <4>1. Cardinality(IdsOf(v)) <= MaxDevices
          BY <1>3, <1>5, <1>9, <3>4, <3>6, <3>7, FewIds DEF DeskInv, O
        <4> HIDE DEF u
        <4> QED  BY <1>4, <3>3, <3>4, <3>6, <4>1
      <3>8. CASE v # u
        <4>1. Flying(v)' = Flying(v)
          BY <2>1, <2>3, <3>8 DEF Flying
        <4>2. Cardinality(Kept(v, S)) <= MaxDevices + crashes + Cardinality(Flying(v) \ S)
          BY <3>1 DEF DeskInv, InLimit
        <4> QED  BY <3>3, <4>1, <4>2
      <3> QED  BY <3>7, <3>8
    <2> QED  BY <1>8, <2>1, <2>2, <2>4, <2>5, FS_EmptySet
  <1>10. CASE K # O
    <2> DEFINE I == {r.id : r \in O \ K}
               new == [req[b] EXCEPT !.pc = "evict", !.ids = I]
    <2>1. new \in Request /\ new.ids = I /\ new.pc = "evict" /\ new.user = u /\ new.ep = req[b].ep
          /\ new.replaces = req[b].replaces /\ new.alone = req[b].alone
      BY <1>4, <1>6 DEF Request, Steps
    <2>2. Desk!Goes(b, new)
      BY <1>2, <1>10
    <2> HIDE DEF new, I
    <2>3. req'[b] = new /\ \A c \in Browsers \ {b} : req'[c] = req[c]
      <3>1. IsFiniteSet(new.ids)
        BY <1>6, <2>1 DEF I
      <3> QED  BY <1>1, <2>1, <2>2, <3>1, RequestStep
    <2>4. BrowserOK(b)'
      <3>1. Asks(b)' /\ Stored(b)' /\ Removes(b)' /\ (b \notin turned' => Chosen(b)')
        BY <1>1, <2>1, <2>3 DEF DeskInv, BrowserOK, Asks, Stored, Removes, Chosen
      <3>2. MakesRoom(b)'
        <4> SUFFICES ASSUME req[b].replaces, req[b].alone, crashes = 0 PROVE FALSE
          BY <1>1, <2>1, <2>3 DEF MakesRoom
        <4>1. Cardinality(IdsOf(u)) <= MaxDevices
          BY <1>1 DEF DeskInv, BrowserOK, MakesRoom
        <4>2. Cardinality(O) <= Cardinality(IdsOf(u)) /\ Cardinality(IdsOf(u)) \in Nat
          BY EachItsId, FewIds DEF DeskInv, O
        <4>3. Cardinality(K) <= Cardinality(O) /\ Cardinality(K) # Cardinality(O)
          BY <1>5, <1>10, FS_Subset
        <4> HIDE DEF u
        <4> QED  BY <1>3, <1>5, <1>10, <4>1, <4>2, <4>3 DEF Desk!StaffOK
      <3> QED  BY <3>1, <3>2 DEF BrowserOK
    <2>5. ASSUME NEW v \in Users, NEW S \in SUBSET Evicting(v)'
          PROVE  Cardinality(Kept(v, S)') <= MaxDevices + crashes + Cardinality(Flying(v)' \ S)
      <3>1. Flying(v)' = Flying(v)
        BY <1>1, <2>1, <2>3 DEF Flying
      <3>2. CASE b \notin S
        <4>1. S \in SUBSET Evicting(v) /\ \A c \in S : req'[c] = req[c]
          BY <2>3, <3>2 DEF Evicting
        <4>2. UNION {req'[c].ids : c \in S} = UNION {req[c].ids : c \in S}
          BY <4>1
        <4>3. Kept(v, S)' = Kept(v, S)
          BY <1>1, <4>2 DEF Kept, IdsOf, Desk!OwnedBy
        <4>4. Cardinality(Kept(v, S)) <= MaxDevices + crashes + Cardinality(Flying(v) \ S)
          BY <4>1 DEF DeskInv, InLimit
        <4> QED  BY <3>1, <4>3, <4>4
      <3>3. CASE b \in S
        <4>1. v = u
          BY <2>1, <2>3, <3>3 DEF Evicting
        <4>2. I \subseteq UNION {req'[c].ids : c \in S}
          BY <2>1, <2>3, <3>3
        <4>3. Kept(v, S)' = {r.id : r \in {q \in rows : q.user = v}} \ UNION {req'[c].ids : c \in S}
          BY <1>1 DEF Kept, IdsOf, Desk!OwnedBy
        <4>4. Kept(v, S)' \subseteq {r.id : r \in K}
          BY <1>6, <4>1, <4>2, <4>3 DEF I, IdsOf, Desk!OwnedBy
        <4>5. Cardinality(Kept(v, S)') <= Cardinality({r.id : r \in K}) /\ Cardinality(Kept(v, S)') \in Nat
              /\ Cardinality({r.id : r \in K}) \in Nat
          BY <1>7, <4>4, FS_Subset, FS_CardinalityType
        <4>6. Cardinality(Flying(v) \ S) \in Nat /\ MaxDevices \in Nat
          BY FewFly
        <4>7. Cardinality(Flying(v)' \ S) = Cardinality(Flying(v) \ S)
          BY <3>1
        <4> HIDE DEF u
        <4> QED  BY <1>3, <1>4, <1>5, <1>7, <4>5, <4>6, <4>7
      <3> QED  BY <3>2, <3>3
    <2>6. IsFiniteSet(new.ids)
      BY <1>6, <2>1 DEF I
    <2> QED  BY <1>8, <2>1, <2>2, <2>4, <2>5, <2>6
  <1> QED  BY <1>9, <1>10

\* The row a request stores: the one at the endpoint, of whomever it was, or a new one.
LEMMA StoredRow ==
    ASSUME Desk!StaffOK, DeskInv, NEW b \in Browsers, Desk!Store(b)
    PROVE  \E n \in DeviceRow :
              /\ n.user = req[b].user /\ n.ep = req[b].ep /\ rows' = Desk!Without({n.id}) \cup {n}
              /\ \A q \in rows : q.ep = n.ep <=> q.id = n.id
              /\ \A c \in Browsers : n.id \in req[c].ids => \E q \in rows : q.id = n.id
              /\ b \notin turned => n.kinds \subseteq chosen[b][req[b].user]
  <1> DEFINE u == req[b].user
             e == req[b].ep
             k == req[b].kind
             K == req[b].kinds
  <1>1. /\ req[b].pc = "store" /\ u \in Users /\ e \in 1 .. made /\ k \in Kinds /\ K \in (SUBSET Kinds) \ {{}}
        /\ rows \subseteq DeviceRow
    <2>1. req[b].pc = "store" /\ req[b] \in Request /\ login[b] \in Users /\ made \in Nat /\ rows \subseteq DeviceRow
      BY DEF Desk!Store, Desk!At, DeskInv, DeskTypes
    <2>2. u = login[b] /\ e # 0 /\ K # {}
      BY <2>1 DEF DeskInv, BrowserOK, Asks, Stored
    <2>3. e \in 0 .. made /\ k \in Kinds /\ K \in SUBSET Kinds
      BY <2>1 DEF Request
    <2> QED  BY <2>1, <2>2, <2>3
  <1>2. b \notin turned => k \in chosen[b][u] /\ \A r \in rows : r.ep = e => K \subseteq chosen[b][u]
    BY <1>1 DEF DeskInv, BrowserOK, Chosen
  <1>3. CASE Desk!Has(e)
    <2> DEFINE q == Desk!RowAt(e)
               n == [q EXCEPT !.user = u, !.kinds = K]
    <2>1. q \in rows /\ q.ep = e
      BY <1>3 DEF Desk!Has, Desk!RowAt
    <2>2. Desk!Writes(n)
      BY <1>3 DEF Desk!Store
    <2> HIDE DEF q
    <2>3. n \in DeviceRow /\ n.id = q.id /\ n.ep = e /\ n.user = u /\ n.kinds = K
      BY <1>1, <2>1 DEF DeviceRow
    <2> HIDE DEF n
    <2>4. rows' = Desk!Without({n.id}) \cup {n}
      BY <2>2 DEF Desk!Writes
    <2>5. \A r \in rows : r.ep = n.ep <=> r.id = n.id
      BY <2>1, <2>3 DEF DeskInv, OneRow
    <2> QED  BY <1>2, <2>1, <2>3, <2>4, <2>5
  <1>4. CASE ~Desk!Has(e)
    <2> DEFINE n == [id |-> Desk!NewId, ep |-> e, user |-> u, kinds |-> {k}]
    <2>1. Desk!Writes(n)
      BY <1>4 DEF Desk!Store
    <2>2. Desk!NewId \in Nat /\ Desk!NewId \notin Desk!Ids
      BY Fresh DEF DeskInv
    <2>3. n \in DeviceRow /\ n.id = Desk!NewId /\ n.ep = e /\ n.user = u /\ n.kinds = {k}
      BY <1>1, <2>2 DEF DeviceRow
    <2> HIDE DEF n
    <2>4. rows' = Desk!Without({n.id}) \cup {n}
      BY <2>1 DEF Desk!Writes
    <2>5. (\A r \in rows : r.id # n.id) /\ \A c \in Browsers : n.id \notin req[c].ids
      BY <2>2, <2>3 DEF Desk!Ids
    <2>6. \A r \in rows : r.ep # e
      BY <1>4 DEF Desk!Has
    <2> QED  BY <1>2, <2>3, <2>4, <2>5, <2>6
  <1> QED  BY <1>3, <1>4

LEMMA OneMoreId ==
    ASSUME NEW S, IsFiniteSet(S), NEW x
    PROVE  IsFiniteSet(S \cup {x}) /\ Cardinality(S \cup {x}) \in Nat /\ Cardinality(S \cup {x}) <= Cardinality(S) + 1
  <1>1. IsFiniteSet(S \cup {x}) /\ Cardinality(S) \in Nat
        /\ Cardinality(S \cup {x}) = IF x \in S THEN Cardinality(S) ELSE Cardinality(S) + 1
    BY FS_AddElement, FS_CardinalityType
  <1> QED  BY <1>1

LEMMA StoreKeeps ==
    ASSUME Desk!StaffOK, DeskInv, NEW b \in Browsers, Desk!Store(b)
    PROVE  DeskInv'
  <1> DEFINE u == req[b].user
  <1>1. /\ req[b].pc = "store"
        /\ req' = [o \in Browsers |-> IF o = b THEN [req[b] EXCEPT !.pc = "count"]
                                      ELSE [req[o] EXCEPT !.alone = @ /\ req[o].user # u]]
        /\ UNCHANGED <<login, sub, active, send, made, dead, chosen, turned, uses, crashes>>
    BY DEF Desk!Store, Desk!At
  <1>2. PICK n \in DeviceRow :
              /\ n.user = u /\ n.ep = req[b].ep /\ rows' = Desk!Without({n.id}) \cup {n}
              /\ \A q \in rows : q.ep = n.ep <=> q.id = n.id
              /\ \A c \in Browsers : n.id \in req[c].ids => \E q \in rows : q.id = n.id
              /\ b \notin turned => n.kinds \subseteq chosen[b][u]
    BY StoredRow
  <1>3. made \in Nat /\ crashes \in Nat /\ MaxDevices \in Nat /\ rows \subseteq DeviceRow /\ IsFiniteSet(rows) /\ OneRow /\ OneHome
        /\ u = login[b] /\ u \in Users /\ n.ep = sub[b].ep /\ n.ep # 0
    BY <1>1, <1>2 DEF DeskInv, DeskTypes, BrowserOK, Asks, Desk!StaffOK
  <1>4. /\ req'[b].pc = "count" /\ req'[b].user = u /\ req'[b].ep = req[b].ep /\ req'[b].ids = req[b].ids
        /\ req'[b].replaces = req[b].replaces /\ req'[b].alone = req[b].alone
    BY <1>1 DEF DeskInv, DeskTypes, Request
  <1>5. ASSUME NEW c \in Browsers \ {b}
        PROVE  /\ req'[c].pc = req[c].pc /\ req'[c].user = req[c].user /\ req'[c].kind = req[c].kind /\ req'[c].ep = req[c].ep
               /\ req'[c].old = req[c].old /\ req'[c].kinds = req[c].kinds /\ req'[c].ids = req[c].ids
               /\ req'[c].replaces = req[c].replaces /\ (req'[c].alone => req[c].alone /\ req[c].user # u)
    BY <1>1 DEF DeskInv, DeskTypes, Request
  <1>6. req' \in [Browsers -> Request'] /\ \A c \in Browsers : IsFiniteSet(req'[c].ids)
    <2>1. Request' = Request
      BY <1>1 DEF Request
    <2>2. [req[b] EXCEPT !.pc = "count"] \in Request
      BY DEF DeskInv, DeskTypes, Request, Steps
    <2>3. \A o \in Browsers : (req[o].alone /\ req[o].user # u) \in BOOLEAN
      OBVIOUS
    <2>4. \A o \in Browsers : [req[o] EXCEPT !.alone = req[o].alone /\ req[o].user # u] \in Request
      BY <2>3 DEF DeskInv, DeskTypes, Request
    <2>5. req' \in [Browsers -> Request]
      BY <1>1, <2>2, <2>4
    <2>6. \A c \in Browsers : req'[c].ids = req[c].ids
      BY <1>4, <1>5
    <2> QED  BY <2>1, <2>5, <2>6 DEF DeskInv, DeskTypes
  <1> HIDE DEF u
  <1>7. /\ \A r \in rows' : r = n \/ (r \in rows /\ r.id # n.id /\ r.ep # n.ep)
        /\ \A r \in rows : r.id # n.id => r \in rows'
        /\ n \in rows'
    <2>1. \A r : r \in Desk!Without({n.id}) <=> r \in rows /\ r.id # n.id
      BY DEF Desk!Without
    <2>2. \A r : r \in rows' <=> r \in Desk!Without({n.id}) \/ r = n
      BY <1>2
    <2>3. \A r \in rows : r.id # n.id => r.ep # n.ep
      BY <1>2
    <2>4. ASSUME NEW r \in rows' PROVE r = n \/ (r \in rows /\ r.id # n.id /\ r.ep # n.ep)
      <3>1. r \in Desk!Without({n.id}) \/ r = n
        BY <2>2
      <3>2. ASSUME r \in Desk!Without({n.id}) PROVE r \in rows /\ r.id # n.id
        BY <2>1, <3>2
      <3> QED  BY <2>3, <3>1, <3>2
    <2>5. ASSUME NEW r \in rows, r.id # n.id PROVE r \in rows'
      BY <2>1, <2>2, <2>5
    <2>6. n \in rows'
      BY <2>2
    <2> QED  BY <2>4, <2>5, <2>6
  <1>8. OneRow' /\ OneHome' /\ DeskTypes'
    <2>1. IsFiniteSet(Desk!Without({n.id})) /\ IsFiniteSet({n})
      BY <1>3, FS_Subset, FS_Singleton DEF Desk!Without
    <2>2. IsFiniteSet(Desk!Without({n.id}) \cup {n})
      BY <2>1, FS_Union
    <2>3. rows' \subseteq DeviceRow' /\ IsFiniteSet(rows')
      BY <1>1, <1>2, <1>3, <1>7, <2>2 DEF DeviceRow
    <2>4. OneRow'
      BY <1>3, <1>7 DEF OneRow
    <2> QED  BY <1>1, <1>3, <1>6, <2>3, <2>4 DEF DeskInv, DeskTypes, OneHome
  <1>9. ASSUME NEW v, v # u, NEW e
        PROVE  /\ {r.id : r \in {q \in rows' : q.user = v}} \subseteq IdsOf(v)
               /\ {r.id : r \in {q \in rows' : q.user = v /\ q.ep # e}} \subseteq Rest(v, e)
    BY <1>2, <1>7, <1>9 DEF IdsOf, Rest, Desk!OwnedBy
  <1>10. {r.id : r \in {q \in rows' : q.user = u}} \subseteq IdsOf(u) \cup {n.id}
    BY <1>7 DEF IdsOf, Desk!OwnedBy
  <1>11. BrowserOK(b)'
    <2>1. Asks(b)' /\ Stored(b)' /\ Removes(b)'
      BY <1>1, <1>3, <1>4 DEF DeskInv, BrowserOK, Asks, Stored, Removes
    <2>2. b \notin turned' => Chosen(b)'
      BY <1>1, <1>2, <1>3, <1>4, <1>7 DEF Chosen
    <2>3. MakesRoom(b)'
      <3> SUFFICES ASSUME req[b].replaces, req[b].alone, crashes = 0 PROVE Cardinality(IdsOf(req[b].user)') <= MaxDevices
        BY <1>1, <1>4 DEF MakesRoom, IdsOf, Desk!OwnedBy, u
      <3>1. Cardinality(IdsOf(u)) < MaxDevices /\ IsFiniteSet(IdsOf(u)) /\ Cardinality(IdsOf(u)) \in Nat
        BY <1>1, FewIds DEF DeskInv, BrowserOK, MakesRoom, u
      <3>2. /\ IsFiniteSet(IdsOf(u) \cup {n.id}) /\ Cardinality(IdsOf(u) \cup {n.id}) <= Cardinality(IdsOf(u)) + 1
            /\ Cardinality(IdsOf(u) \cup {n.id}) \in Nat
        BY <3>1, OneMoreId
      <3>3. IdsOf(req[b].user)' \subseteq IdsOf(u) \cup {n.id}
        BY <1>4, <1>10 DEF IdsOf, Desk!OwnedBy
      <3>4. Cardinality(IdsOf(req[b].user)') <= Cardinality(IdsOf(u) \cup {n.id}) /\ Cardinality(IdsOf(req[b].user)') \in Nat
        BY <3>2, <3>3, FS_Subset, FS_CardinalityType
      <3> QED  BY <1>3, <3>1, <3>2, <3>4
    <2> QED  BY <2>1, <2>2, <2>3 DEF BrowserOK
  <1>12. ASSUME NEW c \in Browsers \ {b} PROVE BrowserOK(c)'
    <2>1. BrowserOK(c) /\ (req[c].pc # "idle" => req[c].ep = sub[c].ep) /\ (n.ep # sub[c].ep)
      BY <1>3 DEF DeskInv, BrowserOK, Asks, OneHome
    <2>2. Asks(c)' /\ Stored(c)'
      BY <1>1, <1>5, <2>1 DEF BrowserOK, Asks, Stored
    <2>3. \A r \in rows' : r.ep = sub[c].ep => r \in rows
      BY <1>7, <2>1
    <2>4. c \notin turned' => Chosen(c)'
      <3> SUFFICES ASSUME c \notin turned PROVE Chosen(c)'
        BY <1>1
      <3>1. Chosen(c)
        BY <2>1 DEF BrowserOK
      <3> QED  BY <1>1, <1>5, <2>1, <2>3, <3>1 DEF Chosen
    <2>5. Removes(c)'
      <3> SUFFICES ASSUME req[c].pc = "remove" PROVE Removes(c)'
        BY <1>5 DEF Removes
      <3>1. \A r \in rows : /\ r.id \in req[c].ids <=> r.ep = req[c].ep
                            /\ r.ep = req[c].ep => r.user = req[c].user /\ req[c].kinds = r.kinds \ {req[c].kind}
        BY <2>1 DEF BrowserOK, Removes
      <3>2. n.id \notin req[c].ids /\ n.ep # req[c].ep
        BY <1>2, <2>1, <3>1
      <3> QED  BY <1>5, <1>7, <3>1, <3>2 DEF Removes
    <2>6. MakesRoom(c)'
      <3> DEFINE v == req[c].user
                 e == req[c].old
      <3> SUFFICES ASSUME req[c].replaces, req[c].alone, v # u, crashes = 0 PROVE MakesRoom(c)'
        BY <1>1, <1>5 DEF MakesRoom
      <3>1. IdsOf(req[c].user)' \subseteq IdsOf(v) /\ Rest(req[c].user, req[c].old)' \subseteq Rest(v, e)
        <4>1. IdsOf(req[c].user)' = {r.id : r \in {q \in rows' : q.user = v}}
          BY <1>5 DEF IdsOf, Desk!OwnedBy
        <4>2. Rest(req[c].user, req[c].old)' = {r.id : r \in {q \in rows' : q.user = v /\ q.ep # e}}
          BY <1>5 DEF Rest, Desk!OwnedBy
        <4> QED  BY <1>9, <4>1, <4>2
      <3>2. /\ Cardinality(IdsOf(req[c].user)') <= Cardinality(IdsOf(v)) /\ Cardinality(IdsOf(v)) \in Nat
            /\ Cardinality(IdsOf(req[c].user)') \in Nat
            /\ Cardinality(Rest(req[c].user, req[c].old)') <= Cardinality(Rest(v, e)) /\ Cardinality(Rest(v, e)) \in Nat
            /\ Cardinality(Rest(req[c].user, req[c].old)') \in Nat
        BY <3>1, FewIds, FS_Subset, FS_CardinalityType DEF DeskInv
      <3>3. MakesRoom(c)
        BY <2>1 DEF BrowserOK
      <3>4. /\ req[c].pc = "replace" => Cardinality(Rest(v, e)) < MaxDevices
            /\ req[c].pc \in {"look", "store"} => Cardinality(IdsOf(v)) < MaxDevices
            /\ req[c].pc = "count" => Cardinality(IdsOf(v)) <= MaxDevices
            /\ req[c].pc # "evict"
        BY <3>3 DEF MakesRoom
      <3> HIDE DEF v, e
      <3> QED  BY <1>3, <1>5, <3>2, <3>4 DEF MakesRoom
    <2> QED  BY <2>2, <2>4, <2>5, <2>6 DEF BrowserOK
  <1>13. ASSUME NEW v \in Users, NEW S \in SUBSET Evicting(v)'
         PROVE  Cardinality(Kept(v, S)') <= MaxDevices + crashes + Cardinality(Flying(v)' \ S)
    <2>1. b \notin S /\ S \in SUBSET Evicting(v) /\ \A c \in S : req'[c].ids = req[c].ids
      BY <1>4, <1>5 DEF Evicting
    <2>2. UNION {req'[c].ids : c \in S} = UNION {req[c].ids : c \in S}
      BY <2>1
    <2>3. Kept(v, S)' = {r.id : r \in {q \in rows' : q.user = v}} \ UNION {req[c].ids : c \in S}
      BY <2>2 DEF Kept, IdsOf, Desk!OwnedBy
    <2>4. /\ Cardinality(Kept(v, S)) <= MaxDevices + crashes + Cardinality(Flying(v) \ S)
          /\ Cardinality(Kept(v, S)) \in Nat /\ IsFiniteSet(Kept(v, S))
      BY <2>1, FewKept DEF DeskInv, InLimit
    <2>5. Cardinality(Flying(v) \ S) \in Nat /\ IsFiniteSet(Flying(v) \ S)
      BY FewFly
    <2>6. CASE v = u
      <3>1. Kept(v, S)' \subseteq Kept(v, S) \cup {n.id}
        BY <1>10, <2>3, <2>6 DEF Kept
      <3>2. /\ IsFiniteSet(Kept(v, S) \cup {n.id}) /\ Cardinality(Kept(v, S) \cup {n.id}) <= Cardinality(Kept(v, S)) + 1
            /\ Cardinality(Kept(v, S) \cup {n.id}) \in Nat
        BY <2>4, OneMoreId
      <3>3. Cardinality(Kept(v, S)') <= Cardinality(Kept(v, S) \cup {n.id}) /\ Cardinality(Kept(v, S)') \in Nat
        BY <3>1, <3>2, FS_Subset, FS_CardinalityType
      <3>4. Flying(v)' \ S = (Flying(v) \ S) \cup {b} /\ b \notin Flying(v) \ S
        BY <1>1, <1>4, <1>5, <2>1, <2>6 DEF Flying, u
      <3>5. Cardinality((Flying(v) \ S) \cup {b}) = Cardinality(Flying(v) \ S) + 1
        BY <2>5, <3>4, FS_AddElement
      <3>6. Cardinality(Flying(v)' \ S) = Cardinality(Flying(v) \ S) + 1
        BY <3>4, <3>5
      <3> QED  BY <1>3, <2>4, <2>5, <3>2, <3>3, <3>6
    <2>7. CASE v # u
      <3>1. Kept(v, S)' \subseteq Kept(v, S)
        BY <1>9, <2>3, <2>7 DEF Kept
      <3>2. Cardinality(Kept(v, S)') <= Cardinality(Kept(v, S)) /\ Cardinality(Kept(v, S)') \in Nat
        BY <2>4, <3>1, FS_Subset, FS_CardinalityType
      <3>3. Flying(v)' = Flying(v)
        BY <1>4, <1>5, <2>7 DEF Flying, u
      <3>4. Cardinality(Flying(v)' \ S) = Cardinality(Flying(v) \ S)
        BY <3>3
      <3> QED  BY <1>3, <2>4, <2>5, <3>2, <3>4
    <2> QED  BY <2>6, <2>7
  <1>14. \A v \in Users : InLimit(v)'
    BY <1>1, <1>13 DEF InLimit
  <1> QED  BY <1>8, <1>11, <1>12, <1>14 DEF DeskInv

LEMMA DeskNext == ASSUME Desk!StaffOK, DeskInv, [Desk!Next]_(Desk!vars) PROVE DeskInv'
  <1>1. CASE UNCHANGED Desk!vars
    <2>1. UNCHANGED <<login, sub, rows, older, active, req, send, made, dead, chosen, turned, uses, crashes>>
      BY <1>1 DEF Desk!vars
    <2>2. DeskTypes'
      BY <2>1 DEF DeskInv, DeskTypes, DeviceRow, Request
    <2> QED  BY <2>1, <2>2, NoBrowser
  <1>2. ASSUME NEW b \in Browsers, NEW u \in Users, Desk!SignIn(b, u) PROVE DeskInv'
    BY <1>2, SignInKeeps
  <1>3. ASSUME NEW b \in Browsers, NEW k \in Kinds, Desk!Enable(b, k) \/ Desk!Disable(b, k) PROVE DeskInv'
    BY <1>3, EnableKeeps, DisableKeeps
  <1>4. ASSUME NEW b \in Browsers, Desk!Rotate(b) \/ Desk!Remove(b) PROVE DeskInv'
    BY <1>4, RotateKeeps, RemoveKeeps
  <1>5. ASSUME NEW b \in Browsers, Desk!Replace(b) \/ Desk!Look(b) \/ Desk!Store(b) PROVE DeskInv'
    BY <1>5, ReplaceKeeps, LookKeeps, StoreKeeps
  <1>6. ASSUME NEW b \in Browsers, Desk!Count(b) \/ Desk!Evict(b) \/ Desk!Crash(b) PROVE DeskInv'
    BY <1>6, CountKeeps, EvictKeeps, CrashKeeps
  <1>7. ASSUME NEW u \in Users, Desk!RemoveAll(u) \/ Desk!Deactivate(u) \/ Desk!Reactivate(u) PROVE DeskInv'
    BY <1>7, UserGoes, ReactivateKeeps
  <1>8. ASSUME (\E k \in Kinds : Desk!Notify(k)) \/ Desk!NewKey \/ Desk!Deliver PROVE DeskInv'
    BY <1>8, NotifyKeeps, NewKeyKeeps, DeliverKeeps
  <1> QED  BY <1>1, <1>2, <1>3, <1>4, <1>5, <1>6, <1>7, <1>8 DEF Desk!Next

\* Rows, endpoints, browsers and requests agree, and no eviction that is still to come takes a person below what the
\* limit leaves.
THEOREM DeskInvariance == ASSUME Desk!StaffOK PROVE Desk!Spec => []DeskInv
  <1> USE DEF Desk!Spec
  <1>1. Desk!Init => DeskInv
    BY DeskInit
  <1>2. DeskInv /\ [Desk!Next]_(Desk!vars) => DeskInv'
    BY DeskNext
  <1> QED  BY <1>1, <1>2, PTL

\* Every variable holds values of its kind.
THEOREM DeskTypeCorrect == ASSUME Desk!StaffOK PROVE Desk!Spec => []Desk!TypeOK
  <1>1. DeskInv => Desk!TypeOK
    <2> SUFFICES ASSUME DeskInv PROVE Desk!TypeOK
      OBVIOUS
    <2>1. made \in 0 .. MaxEndpoints /\ MaxEndpoints \in Nat
      BY DEF DeskInv, DeskTypes, Desk!StaffOK
    <2>2. 1 .. made \subseteq Desk!Endpoints /\ 0 .. made \subseteq 0 .. MaxEndpoints
      BY <2>1 DEF Desk!Endpoints
    <2>3. \A b \in Browsers : sub[b].ep \in 0 .. MaxEndpoints /\ sub[b].good \in BOOLEAN
      BY <2>2 DEF DeskInv, DeskTypes
    <2>4. \A r \in rows : r.ep \in Desk!Endpoints /\ r.user \in Users /\ r.kinds \in (SUBSET Kinds) \ {{}}
      BY <2>2 DEF DeskInv, DeskTypes, DeviceRow
    <2>5. \A b \in Browsers : req[b].ep \in 0 .. MaxEndpoints /\ req[b].kinds \subseteq Kinds
      BY <2>2 DEF DeskInv, DeskTypes, Request
    <2>6. login \in [Browsers -> Users] /\ active \subseteq Users /\ uses \in 0 .. MaxUses /\ crashes \in 0 .. MaxCrashes
          /\ dead \subseteq 1 .. made /\ OneRow
      BY DEF DeskInv, DeskTypes
    <2> QED  BY <2>2, <2>3, <2>4, <2>5, <2>6 DEF Desk!TypeOK, OneRow
  <1>2. Desk!Spec => []DeskInv
    BY DeskInvariance
  <1> QED  BY <1>1, <1>2, PTL

\* A browser whose subscription was not rotated is signed up for no kind that its user has not turned on there, or has
\* turned off again.
THEOREM DeskChosenUntilRotated == ASSUME Desk!StaffOK PROVE Desk!Spec => []Desk!ChosenUntilRotated
  <1>1. DeskInv => Desk!ChosenUntilRotated
    BY DEF DeskInv, BrowserOK, Chosen, Desk!ChosenUntilRotated, Desk!Home
  <1>2. Desk!Spec => []DeskInv
    BY DeskInvariance
  <1> QED  BY <1>1, <1>2, PTL

\* Nobody keeps more devices than the limit, but by the requests under way and those that died.
THEOREM DeskLimitKept == ASSUME Desk!StaffOK PROVE Desk!Spec => []Desk!LimitKept
  <1>1. ASSUME DeskInv, NEW u \in Users
        PROVE  Cardinality(Desk!OwnedBy(u)) <= MaxDevices + crashes + Cardinality(Flying(u))
    <2>1. {} \in SUBSET Evicting(u) /\ Kept(u, {}) = IdsOf(u) /\ Flying(u) \ {} = Flying(u)
      BY DEF Kept
    <2>2. Cardinality(IdsOf(u)) <= MaxDevices + crashes + Cardinality(Flying(u))
      BY <1>1, <2>1 DEF DeskInv, InLimit
    <2>3. Cardinality(Desk!OwnedBy(u)) <= Cardinality(IdsOf(u)) /\ Cardinality(Desk!OwnedBy(u)) \in Nat
          /\ Cardinality(IdsOf(u)) \in Nat
      BY <1>1, EachItsId, FewIds DEF DeskInv
    <2>4. Cardinality(Flying(u)) \in Nat /\ MaxDevices \in Nat /\ crashes \in Nat
      <3>1. IsFiniteSet(Flying(u)) /\ MaxDevices \in Nat
        BY DeskCount, FS_Subset DEF Flying, Desk!StaffOK
      <3> QED  BY <1>1, <3>1, FS_CardinalityType DEF DeskInv, DeskTypes
    <2> QED  BY <2>2, <2>3, <2>4
  <1>2. DeskInv => Desk!LimitKept
    BY <1>1, DeskCount DEF Desk!LimitKept, Flying
  <1>3. Desk!Spec => []DeskInv
    BY DeskInvariance
  <1> QED  BY <1>2, <1>3, PTL

\* A request that replaces a row of its user turns off none of the others, where no other request of that user stored
\* one meanwhile and none died.
THEOREM DeskReplaceEvictsNobody == ASSUME Desk!StaffOK PROVE Desk!Spec => []Desk!ReplaceEvictsNobody
  <1>1. DeskInv => Desk!ReplaceEvictsNobody
    BY DEF DeskInv, BrowserOK, MakesRoom, Desk!ReplaceEvictsNobody
  <1>2. Desk!Spec => []DeskInv
    BY DeskInvariance
  <1> QED  BY <1>1, <1>2, PTL

\* A browser is signed up for what its user turned on there, nobody keeps more devices than the limit, and who replaces
\* a device turns off no other.
THEOREM DeskDevicesKept == ASSUME Desk!StaffOK PROVE Desk!Spec => []Desk!DevicesKept
  <1>1. Desk!ChosenUntilRotated /\ Desk!LimitKept /\ Desk!ReplaceEvictsNobody => Desk!DevicesKept
    BY DEF Desk!DevicesKept
  <1>2. Desk!Spec => []Desk!ChosenUntilRotated /\ []Desk!LimitKept /\ []Desk!ReplaceEvictsNobody
    BY DeskChosenUntilRotated, DeskLimitKept, DeskReplaceEvictsNobody
  <1> QED  BY <1>1, <1>2, PTL
=============================================================================
