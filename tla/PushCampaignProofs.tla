-------------------------- MODULE PushCampaignProofs --------------------------
(***************************************************************************)
(* Proofs about PushCampaign for any number of rows, workers, crashes and  *)
(* midnights, where the poller captures and does not dispatch.  A worker's *)
(* step does one of few things to a row: nothing, take it while it can be  *)
(* chosen, give it back unsent, create one, start its fan-out, or close    *)
(* it.  One lemma shows for each that the invariant is kept.               *)
(***************************************************************************)
EXTENDS PushCampaignInv, FiniteSetTheorems, TLAPS

\* A step of worker w leaves the other workers where they were.
Alone(w) ==
    /\ call' \in [Workers -> Call]
    /\ \A v \in Workers : v # w => call'[v] = call[v]

\* A step writes row c only.
OneRow(c) ==
    /\ row' \in [Campaigns -> Row]
    /\ \A d \in Campaigns : d # c => row'[d] = row[d]

\* Worker w is in no row's way after the step.
LetsGo(w) == call'[w].pc \notin Holding

\* Worker w has in hand at most what it had, with no more right to it.
KeepsHand(w) ==
    /\ call'[w].pc \in Holding => call[w].pc \in Holding /\ call'[w].c = call[w].c
    /\ call'[w].pc \in Deciding => call[w].pc \in Deciding

\* Nobody's sends or rejections change.
NoSend == outs' = outs /\ rejected' = rejected
-----------------------------------------------------------------------------
(* Types                                                                   *)

LEMMA NoneIsNone ==
    /\ None \notin Campaigns /\ None \notin Urls /\ None \notin Requests
    /\ None \notin Queues /\ None \notin Statuses /\ None \notin Times
    /\ None \notin Ages
BY ConstantsOK DEF ConstantsOK

LEMMA NoneFacts == /\ NoRow \in Row /\ NoRow.status = None /\ NoRow.queue = None
                   /\ NoRow.scheduledAt = None /\ NoRow.request = None
                   /\ Idle \in Call /\ Idle.pc = "idle" /\ Idle.list = {}
BY DEF NoRow, Row, Idle, Call, Statuses, Queues, Steps

LEMMA DraftTyped ==
    ASSUME NEW u \in Urls \cup {None}, NEW q \in Queues \cup {None},
           NEW r \in Requests \cup {None}
    PROVE  /\ Draft(u, q, r) \in Row
           /\ Draft(u, q, r).status = "DRAFT" /\ Draft(u, q, r).queue = q
           /\ Draft(u, q, r).request = r /\ Draft(u, q, r).scheduledAt = None
           /\ Draft(u, q, r).createdAt = "today"
           /\ ~Draft(u, q, r).reviewed /\ Draft(u, q, r).url = u
BY DEF Draft, NoRow, Row, Statuses, Queues

\* What is typed besides rows and calls.
RestTyped ==
    /\ phase \in {"dawn", "morning", "day", "night"} /\ days \in Nat
    /\ spaced \in BOOLEAN /\ sentToday \subseteq Campaigns
    /\ claimedToday \subseteq Campaigns /\ outToday \subseteq Campaigns
    /\ reached \subseteq Campaigns /\ outs \in [Campaigns -> 0 .. 2]
    /\ rejected \subseteq Campaigns /\ crashes \in Nat

LEMMA TypeSplit == TypeOK <=> /\ row \in [Campaigns -> Row]
                              /\ call \in [Workers -> Call]
                              /\ RestTyped
BY DEF TypeOK, RestTyped

LEMMA TypeSplitNext == TypeOK' <=> /\ row' \in [Campaigns -> Row]
                                   /\ call' \in [Workers -> Call]
                                   /\ RestTyped'
BY DEF TypeOK, RestTyped

\* Moving worker w on.
LEMMA GotoAlone ==
    ASSUME TypeOK, NEW w \in Workers, NEW n \in Call, Goto(w, n)
    PROVE  Alone(w) /\ call'[w] = n
BY DEF TypeOK, Goto, Alone

\* Writing row c.
LEMMA WriteOne ==
    ASSUME TypeOK, NEW c \in Campaigns, NEW r \in Row, Write(c, r)
    PROVE  OneRow(c) /\ row'[c] = r
BY DEF TypeOK, Write, OneRow

\* Writing a row's status leaves its other fields.
LEMMA StatusWritten ==
    ASSUME TypeOK, NEW c \in Campaigns, NEW s \in Statuses, SetStatus(c, s)
    PROVE  /\ OneRow(c) /\ row'[c].status = s /\ row'[c].queue = row[c].queue
           /\ row'[c].reviewed = row[c].reviewed /\ row'[c].request = row[c].request
           /\ row'[c].scheduledAt = row[c].scheduledAt
           /\ row'[c].createdAt = row[c].createdAt /\ row'[c].event = row[c].event
<1> DEFINE r == [row[c] EXCEPT !.status = s]
<1>1. r \in Row /\ row[c] \in Row BY DEF TypeOK, Row
<1>2. OneRow(c) /\ row'[c] = r BY <1>1, WriteOne DEF SetStatus
<1> QED BY <1>1, <1>2 DEF Row

\* A row put off.
LEMMA PutOff ==
    ASSUME NEW b \in Row
    PROVE  LET r == [b EXCEPT !.status = "SCHEDULED", !.scheduledAt = "later"] IN
              /\ r \in Row /\ r.status = "SCHEDULED" /\ r.scheduledAt = "later"
              /\ r.queue = b.queue /\ r.request = b.request
BY DEF Row, Statuses, Times

\* A claim writes the status and the time of the claim.
LEMMA ClaimWritten ==
    ASSUME TypeOK, NEW c \in Campaigns, Write(c, Claimed(c))
    PROVE  /\ OneRow(c) /\ row'[c].status = "SCHEDULED" /\ row'[c].queue = row[c].queue
           /\ row'[c].reviewed = row[c].reviewed /\ row'[c].request = row[c].request
           /\ row'[c].scheduledAt = row[c].scheduledAt
<1>1. Claimed(c) \in Row /\ row[c] \in Row BY DEF TypeOK, Row, Claimed, Statuses, Ages
<1>2. OneRow(c) /\ row'[c] = Claimed(c) BY <1>1, WriteOne
<1> QED BY <1>1, <1>2 DEF Row, Claimed
-----------------------------------------------------------------------------
(* Steps of the six kinds                                                  *)

\* A step that writes no row and takes nothing into hand.
LEMMA CallKeeps ==
    ASSUME IInv, TypeOK', NEW w \in Workers, UNCHANGED row, NoSend, Alone(w),
           MemoryOf(w, call'[w]), KeepsHand(w)
    PROVE  IInv'
<1>1. ChoosableUnsent'
  BY DEF IInv, ChoosableUnsent, Choosable, Queued, Awaiting, Exists, Held, NoSend, Alone, KeepsHand
<1>2. DecidersAlone'
  BY DEF IInv, DecidersAlone, NoSend, Alone, KeepsHand, Deciding
<1>3. MemoriesHold'
  BY DEF IInv, MemoriesHold, MemoryOf, Alone
<1>4. RejectedApart'
  BY DEF IInv, RejectedApart, Held, NoSend, Alone, KeepsHand
<1>5. OneFanOut' /\ RequestsUnique' /\ TimedUnqueued' /\ FreeBlank'
  BY DEF IInv, OneFanOut, RequestsUnique, TimedUnqueued, FreeBlank, Exists, NoSend
<1> QED BY <1>1, <1>2, <1>3, <1>4, <1>5 DEF IInv

\* Worker w writes row c, or none does, and the row does not become choosable.
LEMMA RowKeeps ==
    ASSUME IInv, TypeOK', NEW w \in Workers, NEW c \in Campaigns,
           NoSend, Alone(w), OneRow(c), KeepsHand(w), MemoryOf(w, call[w])',
           row'[c].queue = row[c].queue, row'[c].reviewed = row[c].reviewed,
           row'[c].request = row[c].request,
           row'[c].scheduledAt # None <=> row[c].scheduledAt # None,
           Exists(c), Exists(c)', Choosable(c)' => Choosable(c),
           \A v \in Workers : call[v].pc = "defer" /\ call[v].c = c => v = w
    PROVE  IInv'
<1>1. ChoosableUnsent'
  BY DEF IInv, ChoosableUnsent, Choosable, Queued, Awaiting, Exists, Held, NoSend, Alone,
         OneRow, KeepsHand
<1>2. DecidersAlone'
  BY DEF IInv, DecidersAlone, NoSend, Alone, KeepsHand, Deciding
<1>3. MemoriesHold'
  <2> SUFFICES ASSUME NEW v \in Workers, v # w PROVE MemoryOf(v, call[v])'
    BY DEF MemoriesHold
  <2>1. MemoryOf(v, call[v]) /\ call[v].list \subseteq Campaigns /\ call'[v] = call[v]
    BY DEF IInv, MemoriesHold, TypeOK, Call, Alone
  <2> QED BY <2>1 DEF MemoryOf, Holding, OneRow
<1>4. RejectedApart'
  BY DEF IInv, TypeOK, RejectedApart, Held, NoSend, Alone, KeepsHand, OneRow
<1>5. OneFanOut' /\ RequestsUnique' /\ TimedUnqueued' /\ FreeBlank'
  BY DEF IInv, NoSend, OneFanOut, RequestsUnique, TimedUnqueued, FreeBlank, Exists, OneRow
<1> QED BY <1>1, <1>2, <1>3, <1>4, <1>5 DEF IInv

\* A step in which no worker moves and rows change without becoming choosable.
LEMMA RowsKeep ==
    ASSUME IInv, TypeOK', UNCHANGED call, NoSend,
           \A c \in Campaigns :
              /\ row'[c].queue = row[c].queue /\ row'[c].reviewed = row[c].reviewed
              /\ row'[c].request = row[c].request
              /\ row'[c].scheduledAt # None <=> row[c].scheduledAt # None
              /\ Exists(c)' <=> Exists(c)
              /\ ~Exists(c) => row'[c] = row[c]
              /\ Choosable(c)' => Choosable(c)
              /\ (\E w \in Workers : call[w].pc = "defer" /\ call[w].c = c) =>
                    row'[c].status = row[c].status /\ row'[c].createdAt = row[c].createdAt
    PROVE  IInv'
<1>1. ChoosableUnsent'
  BY DEF IInv, ChoosableUnsent, Held, NoSend
<1>2. DecidersAlone'
  BY DEF IInv, DecidersAlone, NoSend
<1>3. MemoriesHold'
  <2> SUFFICES ASSUME NEW w \in Workers PROVE MemoryOf(w, call[w])'
    BY DEF MemoriesHold
  <2>1. MemoryOf(w, call[w]) /\ call[w].list \subseteq Campaigns
    BY DEF IInv, MemoriesHold, TypeOK, Call
  <2> QED BY <2>1 DEF MemoryOf, Holding
<1>4. RejectedApart' /\ OneFanOut' /\ RequestsUnique' /\ TimedUnqueued' /\ FreeBlank'
  BY DEF IInv, RejectedApart, Held, NoSend, OneFanOut, RequestsUnique, TimedUnqueued,
         TypeOK, FreeBlank
<1> QED BY <1>1, <1>2, <1>3, <1>4 DEF IInv

\* A rejected item cannot be chosen, and exists.
LEMMA RejectedNotChoosable ==
    ASSUME IInv, NEW c \in rejected
    PROVE  ~Choosable(c) /\ Exists(c) /\ ~Held(c) /\ c \in Campaigns
BY NoneIsNone DEF IInv, TypeOK, RejectedApart, TimedUnqueued, FreeBlank, Choosable, Queued,
   Awaiting, AutoQueues, Exists, NoRow, Queues

\* Worker w takes row c, which could be chosen or is new, and may decide on it.
LEMMA TakeKeeps ==
    ASSUME IInv, TypeOK', NEW w \in Workers, NEW c \in Campaigns,
           NoSend, Alone(w), OneRow(c), MemoryOf(w, call[w])',
           Choosable(c) \/ ~Exists(c), ~Choosable(c)', Exists(c)',
           call'[w].pc \in Deciding, call'[w].c = c,
           row[c].queue \in AutoQueues => row'[c].queue \in AutoQueues,
           row[c].scheduledAt # None => row'[c].scheduledAt # None,
           row'[c].scheduledAt # None => row'[c].queue = None,
           row'[c].request = row[c].request \/ ~Taken(row'[c].request)
    PROVE  IInv'
<1>0. ~Held(c) /\ outs[c] = 0
  BY DEF IInv, ChoosableUnsent
<1>1. ChoosableUnsent'
  BY DEF IInv, ChoosableUnsent, Choosable, Queued, Awaiting, Exists, Held, NoSend, Alone, OneRow
<1>2. DecidersAlone'
  BY <1>0 DEF IInv, DecidersAlone, NoSend, Alone, Deciding, Held
<1>3. MemoriesHold'
  <2> SUFFICES ASSUME NEW v \in Workers, v # w PROVE MemoryOf(v, call[v])'
    BY DEF MemoriesHold
  <2>1. /\ MemoryOf(v, call[v]) /\ call[v].list \subseteq Campaigns /\ call'[v] = call[v]
        /\ call[v].pc \in Holding => call[v].c # c
    BY <1>0 DEF IInv, MemoriesHold, TypeOK, Call, Alone, Held
  <2> QED BY <2>1 DEF MemoryOf, Holding, OneRow
<1>4. RejectedApart'
  <2>1. c \notin rejected
    BY RejectedNotChoosable
  <2> QED BY <2>1 DEF IInv, TypeOK, RejectedApart, Held, NoSend, Alone, OneRow
<1>5. OneFanOut' /\ TimedUnqueued' /\ FreeBlank'
  BY DEF IInv, NoSend, OneFanOut, TimedUnqueued, FreeBlank, Exists, OneRow
<1>6. RequestsUnique'
  BY DEF IInv, RequestsUnique, OneRow, Taken
<1> QED BY <1>1, <1>2, <1>3, <1>4, <1>5, <1>6 DEF IInv

\* Worker w, alone with row c and before any send of it, gives it back.
LEMMA GiveKeeps ==
    ASSUME IInv, TypeOK', NEW w \in Workers, NEW c \in Campaigns,
           NoSend, Alone(w), OneRow(c), MemoryOf(w, call[w])',
           call[w].pc \in Deciding, call[w].c = c, LetsGo(w), Exists(c)',
           row[c].queue \in AutoQueues => row'[c].queue \in AutoQueues,
           row[c].scheduledAt # None => row'[c].scheduledAt # None,
           row'[c].scheduledAt # None => row'[c].queue = None,
           row'[c].request = row[c].request
    PROVE  IInv'
<1>0. /\ outs[c] = 0 /\ Held(c) /\ Deciding \subseteq Holding
      /\ \A v \in Workers : call[v].pc \in Holding /\ call[v].c = c => v = w
  BY DEF IInv, DecidersAlone, Held, Deciding
<1>1. ChoosableUnsent'
  BY <1>0 DEF IInv, ChoosableUnsent, Choosable, Queued, Awaiting, Exists, Held, NoSend, Alone,
     OneRow, LetsGo
<1>2. DecidersAlone'
  BY <1>0 DEF IInv, DecidersAlone, NoSend, Alone, LetsGo
<1>3. MemoriesHold'
  <2> SUFFICES ASSUME NEW v \in Workers, v # w PROVE MemoryOf(v, call[v])'
    BY DEF MemoriesHold
  <2>1. /\ MemoryOf(v, call[v]) /\ call[v].list \subseteq Campaigns /\ call'[v] = call[v]
        /\ call[v].pc \in Holding => call[v].c # c
    BY <1>0 DEF IInv, MemoriesHold, TypeOK, Call, Alone
  <2> QED BY <2>1 DEF MemoryOf, Holding, OneRow
<1>4. RejectedApart'
  <2>1. c \notin rejected
    BY <1>0 DEF IInv, RejectedApart
  <2> QED BY <2>1 DEF IInv, TypeOK, RejectedApart, Held, NoSend, Alone, OneRow, LetsGo
<1>5. OneFanOut' /\ TimedUnqueued' /\ FreeBlank' /\ RequestsUnique'
  BY DEF IInv, NoSend, OneFanOut, TimedUnqueued, FreeBlank, Exists, OneRow, RequestsUnique
<1> QED BY <1>1, <1>2, <1>3, <1>4, <1>5 DEF IInv

\* A row is created in a free slot for others to choose.
LEMMA BirthKeeps ==
    ASSUME IInv, TypeOK', NEW c \in Campaigns, NoSend, OneRow(c), ~Exists(c), Exists(c)',
           \A v \in Workers : KeepsHand(v) /\ (call'[v] = call[v] \/ MemoryOf(v, call[v])'),
           row'[c].scheduledAt # None => row'[c].queue = None,
           row'[c].request = None \/ ~Taken(row'[c].request)
    PROVE  IInv'
<1>0. /\ ~Held(c) /\ outs[c] = 0 /\ row[c].queue = None /\ row[c].scheduledAt = None
      /\ row[c].request = None
  BY DEF IInv, ChoosableUnsent, FreeBlank, NoRow
<1>1. ChoosableUnsent'
  BY <1>0 DEF IInv, ChoosableUnsent, Choosable, Queued, Awaiting, Exists, Held, NoSend,
     OneRow, KeepsHand
<1>2. DecidersAlone'
  BY DEF IInv, DecidersAlone, NoSend, KeepsHand, Deciding
<1>3. MemoriesHold'
  <2> SUFFICES ASSUME NEW v \in Workers, call'[v] = call[v] PROVE MemoryOf(v, call[v])'
    BY DEF MemoriesHold
  <2>1. /\ MemoryOf(v, call[v]) /\ call[v].list \subseteq Campaigns
        /\ call[v].pc \in Holding => call[v].c # c
    BY <1>0 DEF IInv, MemoriesHold, TypeOK, Call, Held
  <2>2. None \notin AutoQueues
    BY NoneIsNone DEF Queues, AutoQueues
  <2> QED BY <1>0, <2>1, <2>2 DEF MemoryOf, Holding, OneRow
<1>4. RejectedApart'
  <2>1. c \notin rejected
    BY RejectedNotChoosable
  <2> QED BY <2>1 DEF IInv, TypeOK, RejectedApart, Held, NoSend, OneRow, KeepsHand
<1>5. OneFanOut' /\ TimedUnqueued' /\ FreeBlank'
  BY DEF IInv, NoSend, OneFanOut, TimedUnqueued, FreeBlank, Exists, OneRow
<1>6. RequestsUnique'
  BY DEF IInv, RequestsUnique, OneRow, Taken
<1> QED BY <1>1, <1>2, <1>3, <1>4, <1>5, <1>6 DEF IInv
-----------------------------------------------------------------------------
(* The pacer                                                               *)

\* Worker w in hand, with its memory and type.
LEMMA CallFacts ==
    ASSUME IInv, NEW w \in Workers
    PROVE  /\ call[w] \in Call /\ MemoryOf(w, call[w]) /\ TypeOK
           /\ Deciding \subseteq Holding
           /\ call[w].pc \in Holding => call[w].c \in Campaigns /\ Exists(call[w].c)
BY DEF IInv, TypeOK, MemoriesHold, MemoryOf, Deciding, ChoosableUnsent, Held

LEMMA PacerKinds ==
    /\ \A p \in Pacers : p \in Workers /\ p \notin Sweepers /\ p \notin Desks
    /\ \A s \in Sweepers : s \in Workers /\ s \notin Pacers /\ s \notin Desks
    /\ \A d \in Desks : d \in Workers /\ d \notin Sweepers /\ d \notin Pacers
BY ConstantsOK DEF Workers, ConstantsOK

LEMMA TickKeeps ==
    ASSUME IInv, NEW p \in Pacers, Tick(p)
    PROVE  IInv'
<1> DEFINE n == [Idle EXCEPT !.pc = "recover", !.list = Stranded]
<1>1. n \in Call /\ n.pc = "recover" /\ p \in Workers
  BY NoneFacts, PacerKinds DEF Call, Idle, Stranded, Steps
<1>2. Goto(p, n) BY DEF Tick
<1>3. Alone(p) /\ call'[p] = n BY <1>1, <1>2, GotoAlone DEF IInv
<1>4. TypeOK'
  BY <1>3, TypeSplit, TypeSplitNext DEF IInv, Tick, RestTyped, Alone, clock, day
<1>5. MemoryOf(p, n) BY <1>1, PacerKinds DEF MemoryOf, Holding
<1>6. KeepsHand(p) BY <1>1, <1>3 DEF KeepsHand, Holding, Deciding
<1>7. UNCHANGED row /\ NoSend BY DEF Tick, NoSend
<1> QED BY <1>1, <1>3, <1>4, <1>5, <1>6, <1>7, CallKeeps

LEMMA RecoverReadKeeps ==
    ASSUME IInv, NEW p \in Pacers, RecoverRead(p)
    PROVE  IInv'
<1>1. PICK c \in call[p].list :
         Goto(p, [call[p] EXCEPT !.pc = "close", !.c = c, !.list = @ \ {c},
                                 !.delivered = row[c].event])
  BY DEF RecoverRead
<1> DEFINE n == [call[p] EXCEPT !.pc = "close", !.c = c, !.list = @ \ {c},
                                !.delivered = row[c].event]
<1>2. p \in Workers /\ p \notin Sweepers BY PacerKinds
<1>3. call[p] \in Call /\ TypeOK BY <1>2, CallFacts
<1>4. c \in Campaigns /\ row[c].event \in BOOLEAN BY <1>3 DEF Call, TypeOK, Row
<1>5. n \in Call /\ n.pc = "close" /\ n.c = c BY <1>3, <1>4 DEF Call, Steps
<1>6. Alone(p) /\ call'[p] = n BY <1>1, <1>2, <1>3, <1>5, GotoAlone
<1>7. TypeOK'
  BY <1>6, TypeSplit, TypeSplitNext DEF IInv, RecoverRead, RestTyped, Alone, clock, day
<1>8. MemoryOf(p, n) BY <1>2, <1>4, <1>5 DEF MemoryOf, Holding
<1>9. KeepsHand(p) BY <1>5, <1>6 DEF KeepsHand, Holding, Deciding
<1>10. UNCHANGED row /\ NoSend BY DEF RecoverRead, NoSend
<1> QED BY <1>2, <1>6, <1>7, <1>8, <1>9, <1>10, CallKeeps

LEMMA RecoverCloseKeeps ==
    ASSUME IInv, NEW p \in Pacers, RecoverClose(p)
    PROVE  IInv'
<1> PICK c : c = call[p].c OBVIOUS
<1> DEFINE n == [call[p] EXCEPT !.pc = "recover", !.c = None]
<1>1. p \in Workers /\ p \notin Sweepers BY PacerKinds
<1>2. call[p] \in Call /\ TypeOK /\ c \in Campaigns
  BY <1>1, CallFacts DEF MemoryOf, RecoverClose, At
<1>3. n \in Call /\ n.pc = "recover" BY <1>2 DEF Call, Steps
<1>4. Alone(p) /\ call'[p] = n BY <1>1, <1>2, <1>3, GotoAlone DEF RecoverClose
<1>5. MemoryOf(p, call'[p]) /\ MemoryOf(p, call[p])'
  BY <1>1, <1>3, <1>4 DEF MemoryOf, Holding
<1>6. KeepsHand(p) /\ NoSend
  BY <1>3, <1>4 DEF KeepsHand, Holding, Deciding, RecoverClose, NoSend
<1>7. CASE row' = row
  <2>1. TypeOK'
    BY <1>4, <1>7, TypeSplit, TypeSplitNext DEF IInv, RecoverClose, RestTyped, Alone, clock, day
  <2> QED BY <1>1, <1>4, <1>5, <1>6, <1>7, <2>1, CallKeeps
<1>8. CASE row[c].status = "SCHEDULED" /\ row[c].scheduledAt = None
  <2> DEFINE st == IF call[p].delivered THEN "SENT" ELSE "FAILED"
  <2>1. st \in {"SENT", "FAILED"} /\ st \in Statuses /\ SetStatus(c, st)
    BY <1>8 DEF Statuses, RecoverClose
  <2> HIDE DEF st
  <2>2. OneRow(c) /\ row'[c].status = st
    BY <1>2, <2>1, StatusWritten
  <2>4. TypeOK'
    BY <1>4, <2>2, TypeSplit, TypeSplitNext
    DEF IInv, RecoverClose, RestTyped, Alone, OneRow, clock, day
  <2>5. Exists(c) /\ Exists(c)' /\ ~Choosable(c)'
    BY <1>8, <2>1, <2>2, NoneIsNone DEF Exists, Choosable, Queued, Awaiting, Statuses
  <2>6. \A v \in Workers : call[v].pc = "defer" /\ call[v].c = c => v = p
    BY <1>8 DEF IInv, MemoriesHold, MemoryOf
  <2>7. /\ row'[c].queue = row[c].queue /\ row'[c].reviewed = row[c].reviewed
        /\ row'[c].request = row[c].request /\ row'[c].scheduledAt = row[c].scheduledAt
    BY <1>2, <2>1, StatusWritten
  <2> HIDE DEF n
  <2> QED BY <1>1, <1>2, <1>4, <1>5, <1>6, <2>2, <2>4, <2>5, <2>6, <2>7, RowKeeps
<1> QED BY <1>7, <1>8 DEF RecoverClose

LEMMA GateKeeps ==
    ASSUME IInv, NEW p \in Pacers, Gate(p)
    PROVE  IInv'
<1>1. PICK n \in {[call[p] EXCEPT !.pc = "select"], Idle} : Goto(p, n)
  BY DEF Gate
<1>2. p \in Workers /\ p \notin Sweepers BY PacerKinds
<1>3. call[p] \in Call /\ TypeOK BY <1>2, CallFacts
<1>4. n \in Call /\ n.pc \in {"select", "idle"} /\ n.list = {}
  <2>1. CASE n = Idle BY <2>1, NoneFacts
  <2>2. CASE n = [call[p] EXCEPT !.pc = "select"]
    BY <1>3, <2>2 DEF Call, Steps, Gate
  <2> QED BY <1>1, <2>1, <2>2
<1>5. Alone(p) /\ call'[p] = n BY <1>1, <1>2, <1>3, <1>4, GotoAlone
<1>6. TypeOK'
  BY <1>5, TypeSplit, TypeSplitNext DEF IInv, Gate, RestTyped, Alone, clock, day
<1>7. MemoryOf(p, n) BY <1>2, <1>4 DEF MemoryOf, Holding
<1>8. KeepsHand(p) BY <1>4, <1>5 DEF KeepsHand, Holding, Deciding
<1>9. UNCHANGED row /\ NoSend BY DEF Gate, NoSend
<1> QED BY <1>2, <1>5, <1>6, <1>7, <1>8, <1>9, CallKeeps

\* A choice of selectNext among what waits.
LEMMA CarryoverPicks ==
    ASSUME IInv, NEW p \in Pacers, Carryover(p)
    PROVE  \/ Goto(p, Idle)
           \/ \E c \in Campaigns : row[c].queue \in AutoQueues /\ Pick(p, c, FALSE)
BY DEF Carryover, Best, Waiting, AutoQueues

\* The worker's record after a pick.
LEMMA PickMoves ==
    ASSUME IInv, NEW p \in Pacers, call[p].list = {}, NEW c \in Campaigns,
           Pick(p, c, TRUE) \/ Pick(p, c, FALSE)
    PROVE  /\ Alone(p) /\ call'[p] \in Call
           /\ call'[p].pc = "claim" /\ call'[p].c = c /\ call'[p].list = {}
<1> DEFINE N == {[call[p] EXCEPT !.pc = "claim", !.c = c, !.backfill = TRUE],
                  [call[p] EXCEPT !.pc = "claim", !.c = c, !.backfill = FALSE]}
<1>1. p \in Workers BY PacerKinds
<1>2. call[p] \in Call /\ TypeOK BY <1>1, CallFacts
<1>3. PICK n \in N : Goto(p, n) BY DEF Pick
<1>4. n \in Call /\ n.pc = "claim" /\ n.c = c /\ n.list = {}
  <2>1. ASSUME NEW b \in BOOLEAN, n = [call[p] EXCEPT !.pc = "claim", !.c = c, !.backfill = b]
        PROVE  n \in Call /\ n.pc = "claim" /\ n.c = c /\ n.list = {}
    <3>1. call[p] \in Call /\ call[p].list = {} BY <1>2
    <3> HIDE DEF N
    <3> QED BY <2>1, <3>1 DEF Call, Steps
  <2> QED BY <2>1
<1> QED BY <1>1, <1>2, <1>3, <1>4, GotoAlone

LEMMA PickKeeps ==
    ASSUME IInv, NEW p \in Pacers, call[p].list = {},
           UNCHANGED <<row, clock, spaced, day, reached, outs, rejected, crashes>>,
           \/ Goto(p, Idle)
           \/ \E c \in Campaigns : /\ row[c].queue \in AutoQueues
                                   /\ Pick(p, c, TRUE) \/ Pick(p, c, FALSE)
           \/ \E u \in SUBSET (Urls \cup {None}) :
                 Goto(p, [call[p] EXCEPT !.pc = "backfill", !.used = u])
    PROVE  IInv'
<1>1. p \in Workers /\ p \notin Sweepers BY PacerKinds
<1>2. call[p] \in Call /\ TypeOK BY <1>1, CallFacts
<1>3. /\ Alone(p) /\ call'[p] \in Call /\ call'[p].list = {}
      /\ \/ call'[p].pc \in {"idle", "backfill"}
         \/ /\ call'[p].pc = "claim" /\ call'[p].c \in Campaigns
            /\ row[call'[p].c].queue \in AutoQueues
  <2>1. CASE Goto(p, Idle) BY <1>1, <1>2, <2>1, NoneFacts, GotoAlone
  <2>2. ASSUME NEW c \in Campaigns,
               row[c].queue \in AutoQueues, Pick(p, c, TRUE) \/ Pick(p, c, FALSE)
        PROVE  /\ Alone(p) /\ call'[p] \in Call /\ call'[p].list = {}
               /\ call'[p].pc = "claim" /\ call'[p].c = c
    BY <2>2, PickMoves
  <2>3. ASSUME NEW u \in SUBSET (Urls \cup {None}), Goto(p, [call[p] EXCEPT !.pc = "backfill", !.used = u])
        PROVE  Alone(p) /\ call'[p] \in Call /\ call'[p].list = {} /\ call'[p].pc = "backfill"
    <3> DEFINE n == [call[p] EXCEPT !.pc = "backfill", !.used = u]
    <3>1. n \in Call /\ n.pc = "backfill" /\ n.list = {} BY <1>2 DEF Call, Steps
    <3> QED BY <1>1, <1>2, <2>3, <3>1, GotoAlone
  <2> QED BY <2>1, <2>2, <2>3
<1>4. TypeOK'
  BY <1>3, TypeSplit, TypeSplitNext DEF IInv, RestTyped, Alone, clock, day
<1>5. MemoryOf(p, call'[p]) BY <1>1, <1>3 DEF MemoryOf, Holding
<1>6. KeepsHand(p) BY <1>3 DEF KeepsHand, Holding, Deciding
<1> QED BY <1>1, <1>3, <1>4, <1>5, <1>6, CallKeeps DEF NoSend

LEMMA SelectKeeps ==
    ASSUME IInv, NEW p \in Pacers, Select(p)
    PROVE  IInv'
<1>1. p \in Workers /\ p \notin Sweepers /\ call[p].list = {}
  BY PacerKinds, CallFacts DEF MemoryOf, Select, At
<1>2. \/ Goto(p, Idle)
      \/ \E c \in Campaigns : /\ row[c].queue \in AutoQueues
                              /\ Pick(p, c, TRUE) \/ Pick(p, c, FALSE)
      \/ \E u \in SUBSET (Urls \cup {None}) :
            Goto(p, [call[p] EXCEPT !.pc = "backfill", !.used = u])
  <2>1. CASE FreshQualified # {}
    BY <2>1 DEF Select, FreshQualified, Waiting, AutoQueues
  <2>2. CASE FreshQualified = {} /\ MorningOpen
    <3>1. UsedToday \in SUBSET (Urls \cup {None})
      BY DEF UsedToday, IInv, TypeOK, Row
    <3> QED BY <2>2, <3>1 DEF Select
  <2>3. CASE FreshQualified = {} /\ ~MorningOpen
    BY <2>3, CarryoverPicks DEF Select
  <2> QED BY <2>1, <2>2, <2>3
<1> QED BY <1>1, <1>2, PickKeeps DEF Select

LEMMA BackfillSelectKeeps ==
    ASSUME IInv, NEW p \in Pacers, BackfillSelect(p)
    PROVE  IInv'
<1>1. p \in Workers /\ p \notin Sweepers /\ call[p].list = {} /\ TypeOK
  BY PacerKinds, CallFacts DEF MemoryOf, BackfillSelect, At
<1> DEFINE picks == Backfillable(call[p].used)
<1>0. \A c \in picks : c \in Campaigns /\ row[c].queue \in AutoQueues
  BY DEF Backfillable, Yesterdays
<1>2. CASE Carryover(p) /\ UNCHANGED row
  BY <1>1, <1>2, CarryoverPicks, PickKeeps DEF BackfillSelect
<1>3. CASE \E c \in picks : row[c].status = "DRAFT" /\ Pick(p, c, TRUE) /\ UNCHANGED row
  BY <1>0, <1>1, <1>3, PickKeeps DEF BackfillSelect
<1>4. ASSUME NEW c \in picks, NEW m \in Free, Write(m, CloneForResend(c)), Pick(p, m, TRUE)
      PROVE  IInv'
  <2> DEFINE r == CloneForResend(c)
  <2>1. row[c] \in Row /\ c \in Campaigns /\ m \in Campaigns /\ ~Exists(m)
    BY <1>0, <1>1 DEF TypeOK, Free
  <2>2. /\ r \in Row /\ r.status = "DRAFT" /\ r.queue = row[c].queue
        /\ r.request = None /\ r.scheduledAt = None
    <3> DEFINE dr == Draft(row[c].url, row[c].queue, None)
    <3>1. /\ dr \in Row /\ dr.status = "DRAFT" /\ dr.queue = row[c].queue
          /\ dr.request = None /\ dr.scheduledAt = None
      BY <2>1, DraftTyped DEF Row
    <3>2. row[c].createdAt \in {"today", "yesterday", "earlier"}
      BY <2>1 DEF Row
    <3> HIDE DEF dr
    <3>3. r = [dr EXCEPT !.createdAt = row[c].createdAt]
      BY DEF CloneForResend, dr
    <3> QED BY <3>1, <3>2, <3>3 DEF Row
  <2> HIDE DEF r
  <2>3. OneRow(m) /\ row'[m] = r
    BY <1>1, <1>4, <2>1, <2>2, WriteOne DEF r
  <2>4. /\ Alone(p) /\ call'[p] \in Call
        /\ call'[p].pc = "claim" /\ call'[p].c = m /\ call'[p].list = {}
    BY <1>1, <1>4, <2>1, PickMoves
  <2>5. TypeOK'
    BY <2>3, <2>4, TypeSplit, TypeSplitNext
    DEF IInv, BackfillSelect, RestTyped, Alone, OneRow, clock, day
  <2>6. MemoryOf(p, call[p])'
    BY <1>0, <1>1, <2>1, <2>2, <2>3, <2>4 DEF MemoryOf, Holding
  <2>7. \A v \in Workers : KeepsHand(v) /\ (call'[v] = call[v] \/ MemoryOf(v, call[v])')
    BY <2>4, <2>6 DEF KeepsHand, Alone, Holding, Deciding
  <2>8. Exists(m)' BY <2>2, <2>3, NoneIsNone DEF Exists, Statuses
  <2>9. NoSend BY DEF BackfillSelect, NoSend
  <2> QED BY <2>1, <2>2, <2>3, <2>5, <2>7, <2>8, <2>9, BirthKeeps
<1> QED BY <1>2, <1>3, <1>4 DEF BackfillSelect

LEMMA ClaimKeeps ==
    ASSUME IInv, NEW p \in Pacers, Claim(p)
    PROVE  IInv'
<1> PICK c : c = call[p].c OBVIOUS
<1>1. p \in Workers /\ p \notin Sweepers BY PacerKinds
<1>2. /\ call[p] \in Call /\ TypeOK /\ c \in Campaigns
      /\ row[c].queue \in AutoQueues /\ call[p].list = {} /\ row[c] \in Row
  BY <1>1, CallFacts DEF MemoryOf, Claim, At, TypeOK
<1>3. row[c].scheduledAt = None
  BY <1>2, NoneIsNone DEF IInv, TimedUnqueued, AutoQueues, Queues
<1>4. NoSend BY DEF Claim, NoSend
<1>5. CASE Goto(p, Idle) /\ UNCHANGED <<row, claimedToday>>
  <2>1. Alone(p) /\ call'[p] = Idle BY <1>1, <1>2, <1>5, NoneFacts, GotoAlone
  <2>2. TypeOK'
    BY <1>5, <2>1, TypeSplit, TypeSplitNext DEF IInv, Claim, RestTyped, Alone, clock
  <2>3. MemoryOf(p, call'[p]) /\ KeepsHand(p)
    BY <2>1, NoneFacts DEF MemoryOf, KeepsHand, Holding, Deciding
  <2> QED BY <1>1, <1>4, <1>5, <2>1, <2>2, <2>3, CallKeeps
<1>6. CASE Claimable(c)
  <2> DEFINE n == [call[p] EXCEPT !.pc = "link"]
  <2>1. n \in Call /\ n.pc = "link" /\ n.c = c /\ n.list = {} BY <1>2 DEF Call, Steps
  <2>2. Alone(p) /\ call'[p] = n BY <1>1, <1>2, <1>6, <2>1, GotoAlone DEF Claim
  <2>3. /\ OneRow(c) /\ row'[c].status = "SCHEDULED" /\ row'[c].queue = row[c].queue
        /\ row'[c].request = row[c].request /\ row'[c].scheduledAt = None
    BY <1>2, <1>3, <1>6, ClaimWritten DEF Claim
  <2>4. TypeOK'
    BY <1>2, <1>6, <2>2, <2>3, TypeSplit, TypeSplitNext
    DEF IInv, Claim, RestTyped, Alone, OneRow, clock
  <2> HIDE DEF n
  <2>5. call'[p].pc \in Deciding /\ call'[p].c = c /\ MemoryOf(p, call[p])'
    BY <1>1, <1>2, <2>1, <2>2 DEF MemoryOf, Holding, Deciding
  <2>6. Choosable(c) /\ ~Choosable(c)' /\ Exists(c)'
    BY <1>2, <1>6, <2>3, NoneIsNone
    DEF Claimable, Choosable, Queued, Awaiting, Exists, Statuses
  <2> QED BY <1>1, <1>2, <1>3, <1>4, <2>2, <2>3, <2>4, <2>5, <2>6, TakeKeeps
<1> QED BY <1>5, <1>6 DEF Claim
-----------------------------------------------------------------------------
(* executeCampaign                                                         *)

\* A worker that is done with its campaign.
LEMMA DoneMoves ==
    ASSUME IInv, NEW w \in Workers, call[w].pc \in Holding, Done(w)
    PROVE  /\ Alone(w) /\ call'[w] \in Call /\ call'[w].pc \in {"idle", "sweep"}
           /\ call'[w].pc = "sweep" => w \in Sweepers
           /\ call'[w].list = call[w].list /\ LetsGo(w) /\ KeepsHand(w)
<1>1. call[w] \in Call /\ MemoryOf(w, call[w]) /\ TypeOK BY CallFacts
<1> DEFINE n == [call[w] EXCEPT !.pc = "sweep", !.c = None]
<1>2. n \in Call /\ n.pc = "sweep" /\ n.list = call[w].list BY <1>1 DEF Call, Steps
<1>3. /\ Alone(w) /\ call'[w] \in Call /\ call'[w].list = call[w].list
      /\ \/ call'[w].pc = "idle"
         \/ call'[w].pc = "sweep" /\ call[w].list # {}
  <2>1. CASE call[w].list = {} BY <1>1, <2>1, NoneFacts, GotoAlone DEF Done
  <2>2. CASE call[w].list # {} BY <1>1, <1>2, <2>2, GotoAlone DEF Done
  <2> QED BY <2>1, <2>2
<1>4. call[w].list # {} => w \in Sweepers
  BY <1>1 DEF MemoryOf, Holding
<1> QED BY <1>3, <1>4 DEF LetsGo, KeepsHand, Holding, Deciding

\* A worker closes the campaign in its hands.
LEMMA CloseKeeps ==
    ASSUME IInv, NEW w \in Workers, call[w].pc \in Holding, NEW s \in Final,
           SetStatus(call[w].c, s), Done(w),
           UNCHANGED <<clock, spaced, day, reached, outs, rejected, crashes>>
    PROVE  IInv'
<1> PICK c : c = call[w].c OBVIOUS
<1>1. /\ call[w] \in Call /\ MemoryOf(w, call[w]) /\ TypeOK /\ c \in Campaigns /\ Exists(c)
      /\ s \in Statuses
  BY CallFacts DEF Final, Statuses
<1>2. /\ Alone(w) /\ call'[w] \in Call /\ call'[w].pc \in {"idle", "sweep"}
      /\ call'[w].pc = "sweep" => w \in Sweepers
      /\ call'[w].list = call[w].list /\ LetsGo(w) /\ KeepsHand(w)
  BY DoneMoves
<1>3. /\ OneRow(c) /\ row'[c].status = s /\ row'[c].queue = row[c].queue
      /\ row'[c].reviewed = row[c].reviewed /\ row'[c].request = row[c].request
      /\ row'[c].scheduledAt = row[c].scheduledAt
  BY <1>1, StatusWritten
<1>4. TypeOK'
  BY <1>2, <1>3, TypeSplit, TypeSplitNext DEF IInv, RestTyped, Alone, OneRow, clock, day
<1>5. Exists(c)' /\ ~Choosable(c)'
  BY <1>1, <1>3, NoneIsNone DEF Exists, Final, Choosable, Queued, Awaiting
<1>6. \A v \in Workers : call[v].pc = "defer" /\ call[v].c = c => v = w
  BY DEF IInv, DecidersAlone, Deciding, Holding
<1>7. MemoryOf(w, call[w])'
  BY <1>1, <1>2, <1>3 DEF MemoryOf, Holding, OneRow, Call
<1> QED BY <1>1, <1>2, <1>3, <1>4, <1>5, <1>6, <1>7, RowKeeps DEF NoSend

LEMMA CheckLinkKeeps ==
    ASSUME IInv, NEW w \in Workers, CheckLink(w)
    PROVE  IInv'
<1>1. CASE SetStatus(call[w].c, "EXPIRED") /\ Done(w)
  BY <1>1, CloseKeeps DEF CheckLink, At, Holding, Final
<1>2. CASE Goto(w, [call[w] EXCEPT !.pc = "send"]) /\ UNCHANGED row
  <2> DEFINE n == [call[w] EXCEPT !.pc = "send"]
  <2>1. call[w] \in Call /\ MemoryOf(w, call[w]) /\ TypeOK BY CallFacts
  <2>2. n \in Call /\ n.pc = "send" /\ n.c = call[w].c /\ n.list = call[w].list
    BY <2>1 DEF Call, Steps
  <2>3. Alone(w) /\ call'[w] = n BY <1>2, <2>1, <2>2, GotoAlone
  <2>4. TypeOK'
    BY <1>2, <2>3, TypeSplit, TypeSplitNext
    DEF IInv, CheckLink, RestTyped, Alone, clock, day
  <2>5. MemoryOf(w, n) BY <2>1, <2>2 DEF MemoryOf, CheckLink, At, Holding
  <2>6. KeepsHand(w) BY <2>2, <2>3 DEF KeepsHand, CheckLink, At, Holding, Deciding
  <2>7. NoSend BY DEF CheckLink, NoSend
  <2> QED BY <1>2, <2>3, <2>4, <2>5, <2>6, <2>7, CallKeeps
<1> QED BY <1>1, <1>2 DEF CheckLink

LEMMA SentKeeps ==
    ASSUME IInv, NEW w \in Workers, Sent(w) \/ Fails(w)
    PROVE  IInv'
<1>1. CASE Sent(w) BY <1>1, CloseKeeps DEF Sent, At, Holding, Final
<1>2. CASE Fails(w) BY <1>2, CloseKeeps DEF Fails, Holding, Final
<1> QED BY <1>1, <1>2

LEMMA FanOutKeeps ==
    ASSUME IInv, NEW w \in Workers, FanOut(w)
    PROVE  IInv'
<1> PICK c : c = call[w].c OBVIOUS
<1> DEFINE n == [call[w] EXCEPT !.pc = "sending"]
<1>1. /\ call[w] \in Call /\ MemoryOf(w, call[w]) /\ TypeOK /\ c \in Campaigns /\ Exists(c)
      /\ call[w].pc = "send"
  BY CallFacts DEF FanOut, At, Holding
<1>2. n \in Call /\ n.pc = "sending" /\ n.c = c /\ n.list = call[w].list
  BY <1>1 DEF Call, Steps
<1>3. Alone(w) /\ call'[w] = n /\ row' = row /\ rejected' = rejected
  BY <1>1, <1>2, GotoAlone DEF FanOut
<1> HIDE DEF n
<1>4. outs[c] = 0 /\ Held(c)
      /\ \A v \in Workers : call[v].pc \in Holding /\ call[v].c = c => v = w
  BY <1>1 DEF IInv, DecidersAlone, Deciding, Holding, Held
<1>5. outs' = [outs EXCEPT ![c] = 1] /\ outs \in [Campaigns -> 0 .. 2]
  BY <1>1, <1>4 DEF FanOut, TypeOK
<1>6. TypeOK'
  BY <1>1, <1>3, <1>5, TypeSplit, TypeSplitNext
  DEF IInv, FanOut, RestTyped, Alone, clock
<1>7. OneFanOut' BY <1>5 DEF IInv, OneFanOut
<1>8. ChoosableUnsent'
  BY <1>1, <1>2, <1>3, <1>4, <1>5
  DEF IInv, ChoosableUnsent, Held, Alone, Choosable, Queued, Awaiting, Exists, Holding
<1>9. DecidersAlone'
  <2> SUFFICES ASSUME NEW v \in Workers, call'[v].pc \in Deciding
               PROVE  /\ outs'[call'[v].c] = 0
                      /\ \A u \in Workers :
                            call'[u].pc \in Holding /\ call'[u].c = call'[v].c => u = v
    BY DEF DecidersAlone
  <2>1. v # w /\ call'[v] = call[v] BY <1>2, <1>3 DEF Deciding, Alone
  <2>2. call[v].c # c BY <1>4, <2>1 DEF Deciding
  <2>3. call'[w].c = c /\ \A u \in Workers : u # w => call'[u] = call[u]
    BY <1>2, <1>3 DEF Alone
  <2> QED BY <1>1, <1>2, <1>3, <1>5, <2>1, <2>2, <2>3 DEF IInv, DecidersAlone
<1>10. MemoriesHold'
  <2>1. MemoryOf(w, call[w])' BY <1>1, <1>2, <1>3 DEF MemoryOf, Holding
  <2> QED BY <1>3, <2>1 DEF IInv, MemoriesHold, MemoryOf, Alone
<1>11. RejectedApart'
  BY <1>2, <1>3, <1>4, <1>5 DEF IInv, TypeOK, RejectedApart, Held, Alone
<1>12. RequestsUnique' /\ TimedUnqueued' /\ FreeBlank'
  BY <1>3 DEF IInv, RequestsUnique, TimedUnqueued, FreeBlank, Exists
<1> QED BY <1>6, <1>7, <1>8, <1>9, <1>10, <1>11, <1>12 DEF IInv

LEMMA PushKeeps ==
    ASSUME IInv, NEW w \in Workers, Push(w)
    PROVE  IInv'
<1>1. call[w].c \in Campaigns /\ call'[w] = call[w] /\ MemoryOf(w, call[w]) /\ TypeOK
  BY CallFacts DEF Push, At, Holding
<1>2. Alone(w) BY <1>1 DEF Alone, Push, TypeOK
<1>3. TypeOK' BY <1>1, TypeSplit, TypeSplitNext DEF IInv, Push, RestTyped, clock, day
<1>4. NoSend /\ KeepsHand(w) BY <1>1 DEF NoSend, Push, KeepsHand
<1> QED BY <1>1, <1>2, <1>3, <1>4, CallKeeps DEF Push

LEMMA FlushKeeps ==
    ASSUME IInv, NEW w \in Workers, Flush(w)
    PROVE  IInv'
<1> PICK c : c = call[w].c OBVIOUS
<1> DEFINE r == [row[c] EXCEPT !.event = TRUE]
<1>1. c \in Campaigns /\ TypeOK /\ row[c] \in Row
  BY CallFacts DEF Flush, At, Holding, TypeOK
<1>2. /\ r \in Row /\ r.status = row[c].status /\ r.queue = row[c].queue
      /\ r.reviewed = row[c].reviewed /\ r.request = row[c].request
      /\ r.scheduledAt = row[c].scheduledAt /\ r.createdAt = row[c].createdAt
  BY <1>1 DEF Row
<1>3. OneRow(c) /\ row'[c] = r BY <1>1, <1>2, WriteOne DEF Flush
<1>4. TypeOK'
  BY <1>1, <1>3, TypeSplit, TypeSplitNext DEF IInv, Flush, RestTyped, OneRow, clock
<1> HIDE DEF r
<1>5. ASSUME NEW d \in Campaigns
      PROVE  /\ row'[d].queue = row[d].queue /\ row'[d].reviewed = row[d].reviewed
             /\ row'[d].request = row[d].request /\ row'[d].scheduledAt = row[d].scheduledAt
             /\ row'[d].status = row[d].status /\ row'[d].createdAt = row[d].createdAt
  BY <1>2, <1>3 DEF OneRow
<1>6. Exists(c) BY <1>1, CallFacts DEF Flush, At, Holding
<1>7. NoSend /\ UNCHANGED call BY DEF NoSend, Flush
<1>8. \A d \in Campaigns :
         /\ Exists(d)' <=> Exists(d)
         /\ Choosable(d)' => Choosable(d)
         /\ ~Exists(d) => row'[d] = row[d]
  BY <1>3, <1>5, <1>6 DEF Exists, Choosable, Queued, Awaiting, OneRow
<1> QED BY <1>4, <1>5, <1>7, <1>8, RowsKeep
-----------------------------------------------------------------------------
(* The sweeper                                                             *)

LEMMA SweepKeeps ==
    ASSUME IInv, NEW s \in Sweepers, Sweep(s)
    PROVE  IInv'
<1> DEFINE n == [Idle EXCEPT !.pc = "sweep", !.list = Due, !.quiet = Quiet]
<1>0. Quiet \in BOOLEAN BY DEF Quiet
<1>1. n \in Call /\ n.pc = "sweep" /\ n.list = Due /\ s \in Workers
  BY <1>0, NoneFacts, PacerKinds DEF Call, Idle, Due, Steps
<1>2. Goto(s, n) BY DEF Sweep
<1>3. Alone(s) /\ call'[s] = n BY <1>1, <1>2, GotoAlone DEF IInv
<1>4. TypeOK'
  BY <1>3, TypeSplit, TypeSplitNext DEF IInv, Sweep, RestTyped, Alone, clock, day
<1>5. MemoryOf(s, n) BY <1>1, NoneIsNone DEF MemoryOf, Holding, Due, Times
<1>6. KeepsHand(s) BY <1>1, <1>3 DEF KeepsHand, Holding, Deciding
<1>7. UNCHANGED row /\ NoSend BY DEF Sweep, NoSend
<1> QED BY <1>1, <1>3, <1>4, <1>5, <1>6, <1>7, CallKeeps

LEMMA SweepNextKeeps ==
    ASSUME IInv, NEW s \in Sweepers, SweepNext(s)
    PROVE  IInv'
<1>1. s \in Workers BY PacerKinds
<1>2. /\ call[s] \in Call /\ MemoryOf(s, call[s]) /\ TypeOK /\ call[s].pc = "sweep"
      /\ row \in [Campaigns -> Row]
  BY <1>1, CallFacts DEF SweepNext, At, TypeOK
<1>3. NoSend BY DEF SweepNext, NoSend
<1>4. CASE Goto(s, Idle) /\ UNCHANGED row
  <2>1. Alone(s) /\ call'[s] = Idle BY <1>1, <1>2, <1>4, NoneFacts, GotoAlone
  <2>2. TypeOK'
    BY <1>4, <2>1, TypeSplit, TypeSplitNext DEF IInv, SweepNext, RestTyped, Alone, clock, day
  <2>3. MemoryOf(s, call'[s]) /\ KeepsHand(s)
    BY <2>1, NoneFacts DEF MemoryOf, KeepsHand, Holding, Deciding
  <2> QED BY <1>1, <1>3, <1>4, <2>1, <2>2, <2>3, CallKeeps
<1>5. ASSUME NEW c \in call[s].list
      PROVE  /\ c \in Campaigns /\ row[c].scheduledAt # None /\ row[c].queue = None
             /\ Exists(c) /\ row[c] \in Row /\ call[s].list \subseteq Campaigns
  <2>1. c \in Campaigns /\ row[c].scheduledAt # None /\ call[s].list \subseteq Campaigns
    BY <1>2 DEF MemoryOf, Call
  <2> QED BY <1>2, <2>1 DEF IInv, TimedUnqueued, FreeBlank, NoRow, Exists
<1>6. ASSUME NEW c \in call[s].list, call[s].quiet,
             Write(c, [row[c] EXCEPT !.scheduledAt = "later"]),
             Goto(s, [call[s] EXCEPT !.list = @ \ {c}])
      PROVE  IInv'
  <2> DEFINE n == [call[s] EXCEPT !.list = @ \ {c}]
             r == [row[c] EXCEPT !.scheduledAt = "later"]
  <2>1. n \in Call /\ n.pc = "sweep" /\ n.list = call[s].list \ {c} BY <1>2 DEF Call
  <2>2. Alone(s) /\ call'[s] = n BY <1>1, <1>2, <1>6, <2>1, GotoAlone
  <2>3. /\ r \in Row /\ r.status = row[c].status /\ r.queue = row[c].queue
        /\ r.reviewed = row[c].reviewed /\ r.request = row[c].request
        /\ r.scheduledAt = "later" /\ r.createdAt = row[c].createdAt
    BY <1>5 DEF Row, Times
  <2>4. OneRow(c) /\ row'[c] = r BY <1>2, <1>5, <1>6, <2>3, WriteOne
  <2>5. TypeOK'
    BY <2>2, <2>4, TypeSplit, TypeSplitNext
    DEF IInv, SweepNext, RestTyped, Alone, OneRow, clock, day
  <2> HIDE DEF n, r
  <2>6. "later" # None BY NoneIsNone DEF Times
  <2>7. Exists(c) /\ Exists(c)' /\ (Choosable(c)' => Choosable(c))
    BY <1>5, <2>3, <2>4 DEF Exists, Choosable, Queued, Awaiting
  <2>8. \A v \in Workers : ~(call[v].pc = "defer" /\ call[v].c = c)
    BY <1>5 DEF IInv, MemoriesHold, MemoryOf
  <2>9. MemoryOf(s, call[s])'
    BY <1>2, <1>5, <2>1, <2>2, <2>3, <2>4, <2>6 DEF MemoryOf, Holding, OneRow
  <2>10. KeepsHand(s) BY <2>1, <2>2 DEF KeepsHand, Holding, Deciding
  <2> QED BY <1>1, <1>3, <1>5, <2>2, <2>3, <2>4, <2>5, <2>6, <2>7, <2>8, <2>9, <2>10, RowKeeps
<1>7. ASSUME NEW c \in call[s].list, Sweepable(c), SetStatus(c, "DRAFT"),
             Goto(s, [call[s] EXCEPT !.list = @ \ {c}, !.pc = "send", !.c = c])
      PROVE  IInv'
  <2> DEFINE n == [call[s] EXCEPT !.list = @ \ {c}, !.pc = "send", !.c = c]
  <2>1. n \in Call /\ n.pc = "send" /\ n.c = c /\ n.list = call[s].list \ {c}
    BY <1>2, <1>5 DEF Call, Steps
  <2>2. Alone(s) /\ call'[s] = n BY <1>1, <1>2, <1>7, <2>1, GotoAlone
  <2>3. /\ OneRow(c) /\ row'[c].status = "DRAFT" /\ row'[c].queue = None
        /\ row'[c].request = row[c].request /\ row'[c].scheduledAt = row[c].scheduledAt
    BY <1>2, <1>5, <1>7, StatusWritten DEF Statuses
  <2>4. TypeOK'
    BY <2>2, <2>3, TypeSplit, TypeSplitNext
    DEF IInv, SweepNext, RestTyped, Alone, OneRow, clock, day
  <2> HIDE DEF n
  <2>5. call'[s].pc \in Deciding /\ call'[s].c = c /\ MemoryOf(s, call[s])'
    BY <1>2, <1>5, <2>1, <2>2, <2>3 DEF MemoryOf, Holding, Deciding, OneRow
  <2>6. Choosable(c) /\ ~Choosable(c)' /\ Exists(c)'
    BY <1>5, <1>7, <2>3, NoneIsNone
    DEF Sweepable, Choosable, Queued, Awaiting, Exists, Statuses, AutoQueues, Queues
  <2>7. row[c].queue \notin AutoQueues BY <1>5, NoneIsNone DEF AutoQueues, Queues
  <2> QED BY <1>1, <1>3, <1>5, <2>2, <2>3, <2>4, <2>5, <2>6, <2>7, TakeKeeps
<1>8. ASSUME NEW c \in call[s].list, Goto(s, [call[s] EXCEPT !.list = @ \ {c}]), UNCHANGED row
      PROVE  IInv'
  <2> DEFINE n == [call[s] EXCEPT !.list = @ \ {c}]
  <2>1. n \in Call /\ n.pc = "sweep" /\ n.list = call[s].list \ {c} BY <1>2 DEF Call
  <2>2. Alone(s) /\ call'[s] = n BY <1>1, <1>2, <1>8, <2>1, GotoAlone
  <2>3. TypeOK'
    BY <1>8, <2>2, TypeSplit, TypeSplitNext
    DEF IInv, SweepNext, RestTyped, Alone, clock, day
  <2>4. MemoryOf(s, n) BY <1>2, <2>1 DEF MemoryOf, Holding
  <2>5. KeepsHand(s) BY <2>1, <2>2 DEF KeepsHand, Holding, Deciding
  <2> QED BY <1>1, <1>3, <1>8, <2>2, <2>3, <2>4, <2>5, CallKeeps
<1> QED BY <1>4, <1>6, <1>7, <1>8 DEF SweepNext
-----------------------------------------------------------------------------
(* Requests                                                                *)

\* A worker turns to nothing.
LEMMA GoesIdle ==
    ASSUME IInv, NEW w \in Workers, Goto(w, Idle)
    PROVE  /\ Alone(w) /\ call'[w] = Idle /\ call'[w] \in Call
           /\ LetsGo(w) /\ KeepsHand(w) /\ MemoryOf(w, call'[w]) /\ MemoryOf(w, call[w])'
<1>1. Alone(w) /\ call'[w] = Idle BY NoneFacts, GotoAlone DEF IInv
<1> QED BY <1>1, NoneFacts DEF LetsGo, KeepsHand, MemoryOf, Holding, Deciding

LEMMA PostSendKeeps ==
    ASSUME IInv, NEW d \in Desks, PostSend(d)
    PROVE  IInv'
<1>1. PICK u \in Urls, r \in Requests \cup {None}, later \in BOOLEAN, breaking \in Breaking :
         Goto(d, [Idle EXCEPT !.pc = "create", !.body = Draft(u, None, r),
                              !.later = later, !.breaking = breaking])
  BY DEF PostSend
<1> DEFINE n == [Idle EXCEPT !.pc = "create", !.body = Draft(u, None, r),
                             !.later = later, !.breaking = breaking]
<1>2. d \in Workers /\ breaking \in BOOLEAN BY PacerKinds DEF Breaking
<1>3. Draft(u, None, r) \in Row BY DraftTyped
<1>4. n \in Call /\ n.pc = "create" /\ n.list = {} /\ n.body = Draft(u, None, r)
  BY <1>2, <1>3 DEF Call, Idle, Steps
<1>5. Alone(d) /\ call'[d] = n BY <1>1, <1>2, <1>4, GotoAlone DEF IInv
<1>6. TypeOK'
  BY <1>5, TypeSplit, TypeSplitNext DEF IInv, PostSend, RestTyped, Alone, clock, day
<1>7. MemoryOf(d, n) BY <1>4 DEF MemoryOf, Holding
<1>8. KeepsHand(d) BY <1>4, <1>5 DEF KeepsHand, Holding, Deciding
<1>9. UNCHANGED row /\ NoSend BY DEF PostSend, NoSend
<1> QED BY <1>2, <1>5, <1>6, <1>7, <1>8, <1>9, CallKeeps

LEMMA CreateKeeps ==
    ASSUME IInv, NEW d \in Desks, Create(d)
    PROVE  IInv'
<1> PICK b : b = call[d].body OBVIOUS
<1>1. d \in Workers BY PacerKinds
<1>2. /\ call[d] \in Call /\ MemoryOf(d, call[d]) /\ TypeOK /\ call[d].list = {}
      /\ \E u \in Urls, r \in Requests \cup {None} : b = Draft(u, None, r)
  BY <1>1, CallFacts, PacerKinds DEF Create, At, MemoryOf
<1>3. /\ b \in Row /\ b.status = "DRAFT" /\ b.queue = None /\ b.scheduledAt = None
      /\ b.createdAt = "today"
  BY <1>2, DraftTyped
<1>4. NoSend BY DEF Create, NoSend
<1>5. CASE Goto(d, Idle) /\ UNCHANGED row
  <2>1. TypeOK'
    BY <1>1, <1>5, GoesIdle, TypeSplit, TypeSplitNext
    DEF IInv, Create, RestTyped, Alone, clock, day
  <2> QED BY <1>1, <1>4, <1>5, <2>1, GoesIdle, CallKeeps
<1>6. ASSUME NEW c \in Free, ~Taken(b.request), Goto(d, Idle),
             Write(c, [b EXCEPT !.status = "SCHEDULED", !.scheduledAt = "later"])
      PROVE  IInv'
  <2> DEFINE r == [b EXCEPT !.status = "SCHEDULED", !.scheduledAt = "later"]
  <2>1. /\ r \in Row /\ r.status = "SCHEDULED" /\ r.scheduledAt = "later"
        /\ r.queue = None /\ r.request = b.request
    BY <1>3 DEF Row, Statuses, Times
  <2>2. c \in Campaigns /\ ~Exists(c) BY DEF Free
  <2>3. OneRow(c) /\ row'[c] = r BY <1>2, <1>6, <2>1, <2>2, WriteOne
  <2> HIDE DEF r
  <2>4. TypeOK'
    BY <1>1, <1>6, <2>3, GoesIdle, TypeSplit, TypeSplitNext
    DEF IInv, Create, RestTyped, Alone, OneRow, clock, day
  <2>5. Exists(c)' BY <2>1, <2>3, NoneIsNone DEF Exists, Statuses
  <2>6. \A v \in Workers : KeepsHand(v) /\ (call'[v] = call[v] \/ MemoryOf(v, call[v])')
    BY <1>1, <1>6, GoesIdle DEF KeepsHand, Alone
  <2> QED BY <1>4, <1>6, <2>1, <2>2, <2>3, <2>4, <2>5, <2>6, BirthKeeps
<1>7. ASSUME NEW c \in Free, ~Taken(b.request), Write(c, b),
             NEW to \in {"defer", "send"},
             Goto(d, [call[d] EXCEPT !.c = c, !.pc = to])
      PROVE  IInv'
  <2> DEFINE n == [call[d] EXCEPT !.c = c, !.pc = to]
  <2>1. c \in Campaigns /\ ~Exists(c) BY DEF Free
  <2>2. n \in Call /\ n.pc = to /\ n.c = c /\ n.list = {} BY <1>2, <2>1 DEF Call, Steps
  <2>3. Alone(d) /\ call'[d] = n BY <1>1, <1>2, <1>7, <2>2, GotoAlone
  <2>4. OneRow(c) /\ row'[c] = b BY <1>2, <1>3, <1>7, <2>1, WriteOne
  <2>5. TypeOK'
    BY <2>3, <2>4, TypeSplit, TypeSplitNext
    DEF IInv, Create, RestTyped, Alone, OneRow, clock, day
  <2> HIDE DEF n
  <2>6. call'[d].pc \in Deciding /\ call'[d].c = c /\ MemoryOf(d, call[d])'
    BY <1>1, <1>3, <2>1, <2>2, <2>3, <2>4 DEF MemoryOf, Holding, Deciding
  <2>7. ~Choosable(c)' /\ Exists(c)'
    BY <1>3, <2>4, NoneIsNone
    DEF Choosable, Queued, Awaiting, Exists, Statuses, AutoQueues, Queues
  <2>8. row[c].queue \notin AutoQueues /\ row[c].scheduledAt = None
    BY <2>1, NoneIsNone DEF IInv, FreeBlank, NoRow, AutoQueues, Queues
  <2> QED BY <1>1, <1>3, <1>4, <1>7, <2>1, <2>3, <2>4, <2>5, <2>6, <2>7, <2>8, TakeKeeps
<1> QED BY <1>5, <1>6, <1>7 DEF Create, Refused

LEMMA DeferKeeps ==
    ASSUME IInv, NEW d \in Desks, Defer(d)
    PROVE  IInv'
<1> PICK c : c = call[d].c OBVIOUS
<1> PICK b : b = row[c] OBVIOUS
<1> DEFINE r == [b EXCEPT !.status = "SCHEDULED", !.scheduledAt = "later"]
<1>1. d \in Workers BY PacerKinds
<1>2. /\ TypeOK /\ c \in Campaigns /\ b.queue = None /\ b \in Row
      /\ call[d].pc = "defer"
  BY <1>1, CallFacts DEF MemoryOf, Defer, At, Holding, TypeOK
<1>3. /\ r \in Row /\ r.status = "SCHEDULED" /\ r.scheduledAt = "later"
      /\ r.queue = None /\ r.request = b.request
  BY <1>2, PutOff
<1>4. OneRow(c) /\ row'[c] = r BY <1>2, <1>3, WriteOne DEF Defer
<1> HIDE DEF r
<1>5. TypeOK'
  BY <1>1, <1>4, GoesIdle, TypeSplit, TypeSplitNext
  DEF IInv, Defer, RestTyped, Alone, OneRow, clock, day
<1>6. Exists(c)' /\ "later" # None /\ row[c].queue \notin AutoQueues
  BY <1>2, <1>3, <1>4, NoneIsNone DEF Exists, Statuses, Times, AutoQueues, Queues
<1>7. NoSend /\ call[d].pc \in Deciding BY <1>2 DEF NoSend, Defer, Deciding, Holding
<1> QED BY <1>1, <1>2, <1>3, <1>4, <1>5, <1>6, <1>7, GoesIdle, GiveKeeps DEF Defer

LEMMA PromoteKeeps ==
    ASSUME IInv, NEW d \in Desks, Promote(d)
    PROVE  IInv'
<1> PICK c : c = call[d].c OBVIOUS
<1> DEFINE r == [row[c] EXCEPT !.queue = "QUALIFIED"]
<1>1. d \in Workers BY PacerKinds
<1>2. /\ TypeOK /\ c \in Campaigns /\ row[c].queue = "REVIEW" /\ row[c] \in Row
      /\ call[d].pc = "promote" /\ Exists(c)
  BY <1>1, CallFacts DEF MemoryOf, Promote, At, Holding, TypeOK
<1>3. /\ r \in Row /\ r.status = row[c].status /\ r.scheduledAt = row[c].scheduledAt
      /\ r.queue = "QUALIFIED" /\ r.request = row[c].request
  BY <1>2 DEF Row, Queues
<1>4. OneRow(c) /\ row'[c] = r BY <1>2, <1>3, WriteOne DEF Promote
<1> HIDE DEF r
<1>5. TypeOK'
  BY <1>1, <1>4, GoesIdle, TypeSplit, TypeSplitNext
  DEF IInv, Promote, RestTyped, Alone, OneRow, clock, day
<1>6. Exists(c)' /\ row[c].queue \notin AutoQueues /\ row[c].scheduledAt = None
  BY <1>2, <1>3, <1>4, NoneIsNone DEF Exists, AutoQueues, IInv, TimedUnqueued, Queues
<1>7. NoSend /\ call[d].pc \in Deciding BY <1>2 DEF NoSend, Promote, Deciding, Holding
<1> QED BY <1>1, <1>2, <1>3, <1>4, <1>5, <1>6, <1>7, GoesIdle, GiveKeeps DEF Promote

LEMMA PollCaptureKeeps ==
    ASSUME IInv, PollCapture
    PROVE  IInv'
<1>1. PICK c \in Free, u \in Urls, q \in Queues : Write(c, Draft(u, q, None))
  BY DEF PollCapture
<1> DEFINE r == Draft(u, q, None)
<1>2. r \in Row /\ r.status = "DRAFT" /\ r.request = None /\ r.scheduledAt = None
  BY DraftTyped
<1>3. c \in Campaigns /\ ~Exists(c) /\ TypeOK BY DEF Free, IInv
<1> HIDE DEF r
<1>4. OneRow(c) /\ row'[c] = r BY <1>1, <1>2, <1>3, WriteOne DEF r
<1>5. TypeOK'
  BY <1>4, TypeSplit, TypeSplitNext DEF IInv, PollCapture, RestTyped, OneRow, clock, day
<1>6. Exists(c)' BY <1>2, <1>4, NoneIsNone DEF Exists, Statuses
<1>7. NoSend /\ \A v \in Workers : KeepsHand(v) /\ call'[v] = call[v]
  BY DEF NoSend, PollCapture, KeepsHand
<1> QED BY <1>2, <1>3, <1>4, <1>5, <1>6, <1>7, BirthKeeps

\* Marking an item handled leaves its other fields.
LEMMA ReviewedWritten ==
    ASSUME TypeOK, NEW c \in Campaigns, Write(c, [row[c] EXCEPT !.reviewed = TRUE])
    PROVE  /\ OneRow(c) /\ row'[c].reviewed /\ row'[c].queue = row[c].queue
           /\ row'[c].status = row[c].status /\ row'[c].request = row[c].request
           /\ row'[c].scheduledAt = row[c].scheduledAt
<1> DEFINE r == [row[c] EXCEPT !.reviewed = TRUE]
<1>1. r \in Row /\ row[c] \in Row BY DEF TypeOK, Row
<1>2. OneRow(c) /\ row'[c] = r BY <1>1, WriteOne
<1> QED BY <1>1, <1>2 DEF Row

LEMMA ReviewClaimKeeps ==
    ASSUME IInv, NEW d \in Desks, ReviewClaim(d)
    PROVE  IInv'
<1>1. d \in Workers BY PacerKinds
<1>2. PICK c \in Campaigns :
         /\ Awaiting(c) /\ Write(c, [row[c] EXCEPT !.reviewed = TRUE])
         /\ \/ rejected' = rejected \cup {c} /\ UNCHANGED call
            \/ /\ rejected' = rejected
               /\ \E to \in {"promote", "link"} : Goto(d, [Idle EXCEPT !.pc = to, !.c = c])
  BY DEF ReviewClaim
<1>3. /\ OneRow(c) /\ row'[c].reviewed /\ row'[c].queue = "REVIEW" /\ row[c].queue = "REVIEW"
      /\ row'[c].status = "DRAFT" /\ row'[c].request = row[c].request
      /\ row'[c].scheduledAt = row[c].scheduledAt /\ TypeOK
  BY <1>2, ReviewedWritten DEF IInv, Awaiting
<1>4. row[c].scheduledAt = None
  BY <1>3, NoneIsNone DEF IInv, TimedUnqueued, Queues
<1>5. Choosable(c) /\ ~Choosable(c)' /\ Exists(c)' /\ Exists(c)
  BY <1>2, <1>3, NoneIsNone DEF Choosable, Awaiting, Queued, AutoQueues, Exists, Statuses
<1>6. ASSUME NEW to \in {"promote", "link"}, Goto(d, [Idle EXCEPT !.pc = to, !.c = c]),
             rejected' = rejected
      PROVE  IInv'
  <2> DEFINE n == [Idle EXCEPT !.pc = to, !.c = c]
  <2>1. n \in Call /\ n.pc = to /\ n.c = c /\ n.list = {} BY NoneFacts DEF Call, Idle, Steps
  <2>2. Alone(d) /\ call'[d] = n BY <1>1, <1>3, <1>6, <2>1, GotoAlone
  <2>3. TypeOK'
    BY <1>3, <1>6, <2>2, TypeSplit, TypeSplitNext
    DEF IInv, ReviewClaim, RestTyped, Alone, OneRow, clock, day
  <2> HIDE DEF n
  <2>4. call'[d].pc \in Deciding /\ call'[d].c = c /\ MemoryOf(d, call[d])'
    BY <1>3, <2>1, <2>2 DEF MemoryOf, Holding, Deciding
  <2>5. NoSend BY <1>6 DEF NoSend, ReviewClaim
  <2>6. row[c].queue \notin AutoQueues BY <1>3 DEF AutoQueues
  <2> QED BY <1>1, <1>3, <1>4, <1>5, <2>2, <2>3, <2>4, <2>5, <2>6, TakeKeeps
<1>7. CASE rejected' = rejected \cup {c} /\ UNCHANGED call
  <2>1. TypeOK'
    BY <1>3, <1>7, TypeSplit, TypeSplitNext
    DEF IInv, ReviewClaim, RestTyped, OneRow, clock, day
  <2>2. outs' = outs /\ call' = call BY <1>7 DEF ReviewClaim
  <2>3. outs[c] = 0 /\ ~Held(c) BY <1>5 DEF IInv, ChoosableUnsent
  <2>4. ChoosableUnsent'
    BY <1>3, <1>5, <2>2
    DEF IInv, ChoosableUnsent, Choosable, Queued, Awaiting, Exists, Held, OneRow
  <2>5. DecidersAlone' /\ OneFanOut' BY <2>2 DEF IInv, DecidersAlone, OneFanOut
  <2>6. MemoriesHold'
    <3> SUFFICES ASSUME NEW v \in Workers PROVE MemoryOf(v, call[v])'
      BY DEF MemoriesHold
    <3>1. /\ MemoryOf(v, call[v]) /\ call[v].list \subseteq Campaigns
          /\ call[v].pc \in Holding => call[v].c # c
      BY <2>3 DEF IInv, MemoriesHold, TypeOK, Call, Held
    <3> QED BY <1>3, <2>2, <3>1 DEF MemoryOf, Holding, OneRow
  <2>7. RejectedApart'
    BY <1>3, <1>7, <2>2, <2>3 DEF IInv, TypeOK, RejectedApart, Held, OneRow
  <2>8. RequestsUnique' /\ TimedUnqueued' /\ FreeBlank'
    BY <1>3, <1>4, <1>5 DEF IInv, RequestsUnique, TimedUnqueued, FreeBlank, Exists, OneRow
  <2> QED BY <2>1, <2>4, <2>5, <2>6, <2>7, <2>8 DEF IInv
<1> QED BY <1>2, <1>6, <1>7

LEMMA QueuePushKeeps ==
    ASSUME IInv, NEW d \in Desks, QueuePush(d)
    PROVE  IInv'
<1>1. d \in Workers BY PacerKinds
<1>2. PICK c \in Campaigns :
         /\ Queued(c) /\ Write(c, Claimed(c)) /\ claimedToday' = claimedToday \cup {c}
         /\ Goto(d, [Idle EXCEPT !.pc = "link", !.c = c])
  BY DEF QueuePush
<1> DEFINE n == [Idle EXCEPT !.pc = "link", !.c = c]
<1>3. n \in Call /\ n.pc = "link" /\ n.c = c /\ n.list = {} BY NoneFacts DEF Call, Idle, Steps
<1>4. Alone(d) /\ call'[d] = n /\ TypeOK BY <1>1, <1>2, <1>3, GotoAlone DEF IInv
<1>5. row[c].scheduledAt = None
  BY <1>2, NoneIsNone DEF IInv, TimedUnqueued, Queued, AutoQueues, Queues
<1>6. /\ OneRow(c) /\ row'[c].status = "SCHEDULED" /\ row'[c].queue = row[c].queue
      /\ row'[c].request = row[c].request /\ row'[c].scheduledAt = None
  BY <1>2, <1>4, <1>5, ClaimWritten
<1>7. TypeOK'
  BY <1>2, <1>4, <1>6, TypeSplit, TypeSplitNext
  DEF IInv, QueuePush, RestTyped, Alone, OneRow, clock
<1> HIDE DEF n
<1>8. call'[d].pc \in Deciding /\ call'[d].c = c /\ MemoryOf(d, call[d])'
  BY <1>3, <1>4 DEF MemoryOf, Holding, Deciding
<1>9. Choosable(c) /\ ~Choosable(c)' /\ Exists(c)'
  BY <1>2, <1>6, NoneIsNone DEF Choosable, Queued, Awaiting, Exists, Statuses
<1>10. NoSend BY DEF QueuePush, NoSend
<1> QED BY <1>1, <1>4, <1>5, <1>6, <1>7, <1>8, <1>9, <1>10, TakeKeeps
-----------------------------------------------------------------------------
(* Retention, the clock, process deaths                                    *)

LEMMA ExpireKeeps ==
    ASSUME IInv, Expire
    PROVE  IInv'
<1>1. ASSUME NEW c \in Campaigns
      PROVE  /\ row'[c] \in Row
             /\ row'[c].queue = row[c].queue /\ row'[c].reviewed = row[c].reviewed
             /\ row'[c].request = row[c].request /\ row'[c].scheduledAt = row[c].scheduledAt
             /\ row'[c].createdAt = row[c].createdAt
             /\ \/ row'[c] = row[c]
                \/ /\ row[c].status = "DRAFT" /\ row[c].createdAt = "earlier"
                   /\ row'[c].status = "EXPIRED"
  <2>0. row[c] \in Row BY DEF IInv, TypeOK
  <2>1. CASE row[c].status = "DRAFT" /\ row[c].createdAt = "earlier"
    <3> DEFINE r == [row[c] EXCEPT !.status = "EXPIRED"]
    <3>1. row'[c] = r BY <2>1 DEF Expire
    <3> QED BY <2>0, <2>1, <3>1 DEF Row, Statuses
  <2>2. CASE ~(row[c].status = "DRAFT" /\ row[c].createdAt = "earlier")
    BY <2>0, <2>2 DEF Expire
  <2> QED BY <2>1, <2>2
<1>2. row' \in [Campaigns -> Row] BY <1>1 DEF Expire
<1>3. TypeOK' BY <1>2, TypeSplit, TypeSplitNext DEF IInv, Expire, RestTyped, clock, day
<1>4. UNCHANGED call /\ NoSend BY DEF Expire, NoSend
<1>5. ASSUME NEW c \in Campaigns
      PROVE  /\ Exists(c)' <=> Exists(c)
             /\ ~Exists(c) => row'[c] = row[c]
             /\ Choosable(c)' => Choosable(c)
             /\ (\E w \in Workers : call[w].pc = "defer" /\ call[w].c = c) =>
                   row'[c].status = row[c].status /\ row'[c].createdAt = row[c].createdAt
  BY <1>1, NoneIsNone
  DEF Exists, Choosable, Queued, Awaiting, Statuses, IInv, MemoriesHold, MemoryOf
<1> QED BY <1>1, <1>3, <1>4, <1>5, RowsKeep

\* A new time on one row, of the kind it had.
LEMMA TimeKeeps ==
    ASSUME IInv, UNCHANGED call, NoSend, RestTyped', NEW c \in Campaigns, OneRow(c),
           row'[c].queue = row[c].queue, row'[c].reviewed = row[c].reviewed,
           row'[c].request = row[c].request, row'[c].status = row[c].status,
           row'[c].createdAt = row[c].createdAt, Exists(c),
           row'[c].scheduledAt # None <=> row[c].scheduledAt # None
    PROVE  IInv'
<1>1. TypeOK' BY TypeSplit, TypeSplitNext DEF IInv, OneRow
<1>2. ASSUME NEW d \in Campaigns
      PROVE  /\ row'[d].queue = row[d].queue /\ row'[d].reviewed = row[d].reviewed
             /\ row'[d].request = row[d].request /\ row'[d].status = row[d].status
             /\ row'[d].createdAt = row[d].createdAt
             /\ row'[d].scheduledAt # None <=> row[d].scheduledAt # None
             /\ ~Exists(d) => row'[d] = row[d]
  BY DEF OneRow
<1>3. \A d \in Campaigns : (Exists(d)' <=> Exists(d)) /\ (Choosable(d)' => Choosable(d))
  BY <1>2 DEF Exists, Choosable, Queued, Awaiting
<1> QED BY <1>1, <1>2, <1>3, RowsKeep

LEMMA TimeComesKeeps ==
    ASSUME IInv, NEW c \in Campaigns, TimeComes(c)
    PROVE  IInv'
<1> PICK b : b = row[c] OBVIOUS
<1> DEFINE r == [b EXCEPT !.scheduledAt = "due"]
<1>1. TypeOK /\ b \in Row /\ b.scheduledAt = "later" BY DEF IInv, TypeOK, TimeComes
<1>2. /\ r \in Row /\ r.status = b.status /\ r.queue = b.queue
      /\ r.reviewed = b.reviewed /\ r.request = b.request
      /\ r.scheduledAt = "due" /\ r.createdAt = b.createdAt
  BY <1>1 DEF Row, Times
<1>3. OneRow(c) /\ row'[c] = r BY <1>1, <1>2, WriteOne DEF TimeComes
<1> HIDE DEF r
<1>4. "due" # None /\ "later" # None BY NoneIsNone DEF Times
<1>5. Exists(c) BY <1>1, <1>4 DEF IInv, FreeBlank, NoRow, Exists
<1>6. RestTyped' /\ NoSend /\ UNCHANGED call
  BY TypeSplit DEF IInv, RestTyped, NoSend, TimeComes, clock, day
<1> QED BY <1>1, <1>2, <1>3, <1>4, <1>5, <1>6, TimeKeeps

LEMMA ClaimAgesKeeps ==
    ASSUME IInv, NEW c \in Campaigns, ClaimAges(c)
    PROVE  IInv'
<1> PICK b : b = row[c] OBVIOUS
<1> DEFINE r == [b EXCEPT !.claimedAt = "stale"]
<1>1. TypeOK /\ b \in Row /\ b.claimedAt = "fresh" BY DEF IInv, TypeOK, ClaimAges
<1>2. /\ r \in Row /\ r.status = b.status /\ r.queue = b.queue
      /\ r.reviewed = b.reviewed /\ r.request = b.request
      /\ r.scheduledAt = b.scheduledAt /\ r.createdAt = b.createdAt
  BY <1>1 DEF Row, Ages
<1>3. OneRow(c) /\ row'[c] = r BY <1>1, <1>2, WriteOne DEF ClaimAges
<1> HIDE DEF r
<1>5. Exists(c) BY <1>1, NoneIsNone DEF IInv, FreeBlank, NoRow, Exists, Ages
<1>6. RestTyped' /\ NoSend /\ UNCHANGED call
  BY TypeSplit DEF IInv, RestTyped, NoSend, ClaimAges, clock, day
<1> QED BY <1>1, <1>2, <1>3, <1>5, <1>6, TimeKeeps

LEMMA MidnightKeeps ==
    ASSUME IInv, Midnight
    PROVE  IInv'
<1>1. ASSUME NEW c \in Campaigns
      PROVE  /\ row'[c] \in Row
             /\ row'[c].queue = row[c].queue /\ row'[c].reviewed = row[c].reviewed
             /\ row'[c].request = row[c].request /\ row'[c].scheduledAt = row[c].scheduledAt
             /\ row'[c].status = row[c].status
             /\ ~Exists(c) => row'[c] = row[c]
  <2> PICK b : b = row[c] OBVIOUS
  <2>0. b \in Row BY DEF IInv, TypeOK
  <2>1. CASE ~Exists(c)
    <3>1. row'[c] = b BY <2>1 DEF Midnight
    <3> QED BY <2>0, <2>1, <3>1
  <2>2. CASE Exists(c)
    <3>1. PICK a \in {"yesterday", "earlier"} : row'[c] = [b EXCEPT !.createdAt = a]
      <4>1. CASE b.createdAt = "today" BY <2>2, <4>1 DEF Midnight
      <4>2. CASE b.createdAt # "today" BY <2>2, <4>2 DEF Midnight
      <4> QED BY <4>1, <4>2
    <3> QED BY <2>0, <2>2, <3>1 DEF Row
  <2> QED BY <2>1, <2>2
<1>2. row' \in [Campaigns -> Row] BY <1>1 DEF Midnight
<1>3. TypeOK'
  <2>1. RestTyped' BY TypeSplit DEF IInv, Midnight, RestTyped
  <2>2. call' \in [Workers -> Call] BY DEF IInv, TypeOK, Midnight
  <2> QED BY <1>2, <2>1, <2>2, TypeSplitNext
<1>4. UNCHANGED call /\ NoSend BY DEF Midnight, NoSend
<1>5. ASSUME NEW c \in Campaigns
      PROVE  /\ Exists(c)' <=> Exists(c)
             /\ Choosable(c)' => Choosable(c)
  BY <1>1 DEF Exists, Choosable, Queued, Awaiting
<1>6. \A w \in Workers : call[w].pc # "defer"
  BY DEF Midnight, IInv, MemoriesHold, MemoryOf, At
<1> QED BY <1>1, <1>3, <1>4, <1>5, <1>6, RowsKeep

LEMMA ClockKeeps ==
    ASSUME IInv, SpacingPasses \/ HoursPass \/ UNCHANGED vars
    PROVE  IInv'
<1>1. UNCHANGED <<row, call>> /\ NoSend
  BY DEF SpacingPasses, HoursPass, vars, NoSend
<1>2. TypeOK'
  BY TypeSplit, TypeSplitNext DEF IInv, RestTyped, SpacingPasses, HoursPass, vars, clock, day
<1>3. \A c \in Campaigns : (Exists(c)' <=> Exists(c)) /\ (Choosable(c)' => Choosable(c))
  BY <1>1 DEF Exists, Choosable, Queued, Awaiting
<1> QED BY <1>1, <1>2, <1>3, RowsKeep

LEMMA CrashKeeps ==
    ASSUME IInv, NEW w \in Workers, Crash(w)
    PROVE  IInv'
<1>1. TypeOK'
  BY GoesIdle, TypeSplit, TypeSplitNext DEF IInv, Crash, RestTyped, Alone, clock, day
<1>2. UNCHANGED row /\ NoSend BY DEF Crash, NoSend
<1> QED BY <1>1, <1>2, GoesIdle, CallKeeps DEF Crash
-----------------------------------------------------------------------------
(* Theorems                                                                *)

\* While the poller only captures, no request of its kind starts a dispatch.
LEMMA NoDispatch ==
    ASSUME Captures, NEW d \in Desks
    PROVE  ~PollDispatch(d)
BY DEF Captures, PollDispatch

\* In the empty table nobody holds anything.
LEMMA InitHolds == Init => IInv
<1> SUFFICES ASSUME Init PROVE IInv OBVIOUS
<1>1. TypeOK BY NoneFacts DEF Init, TypeOK
<1>2. \A c \in Campaigns : ~Exists(c) /\ row[c] = NoRow /\ outs[c] = 0
  BY NoneFacts DEF Init, Exists
<1>3. \A w \in Workers : call[w].pc = "idle" /\ call[w].list = {}
  BY NoneFacts DEF Init
<1>4. OneFanOut /\ RequestsUnique /\ TimedUnqueued /\ FreeBlank
  BY <1>2, NoneFacts DEF OneFanOut, RequestsUnique, TimedUnqueued, FreeBlank
<1>5. ChoosableUnsent /\ DecidersAlone /\ MemoriesHold
  BY <1>2, <1>3
  DEF ChoosableUnsent, DecidersAlone, MemoriesHold, MemoryOf, Held, Holding, Deciding
<1>6. RejectedApart BY DEF Init, RejectedApart
<1> QED BY <1>1, <1>4, <1>5, <1>6 DEF IInv

\* Every step keeps the invariant.
LEMMA NextHolds ==
    ASSUME Captures, IInv, [Next]_vars
    PROVE  IInv'
<1>1. ASSUME NEW p \in Pacers, Tick(p) \/ PacerStep(p) PROVE IInv'
  BY <1>1, TickKeeps, RecoverReadKeeps, RecoverCloseKeeps, GateKeeps, SelectKeeps,
     BackfillSelectKeeps, ClaimKeeps DEF PacerStep
<1>2. ASSUME NEW s \in Sweepers, Sweep(s) \/ SweepNext(s) PROVE IInv'
  BY <1>2, SweepKeeps, SweepNextKeeps
<1>3. ASSUME NEW d \in Desks,
             PostSend(d) \/ PollDispatch(d) \/ ReviewClaim(d) \/ QueuePush(d) \/ DeskStep(d)
      PROVE  IInv'
  BY <1>3, NoDispatch, PostSendKeeps, ReviewClaimKeeps, QueuePushKeeps, CreateKeeps,
     DeferKeeps, PromoteKeeps DEF DeskStep
<1>4. ASSUME NEW w \in Workers, SendStep(w) \/ Push(w) \/ Flush(w) \/ Crash(w) PROVE IInv'
  BY <1>4, CheckLinkKeeps, FanOutKeeps, SentKeeps, PushKeeps, FlushKeeps, CrashKeeps
  DEF SendStep
<1>5. ASSUME DayStep PROVE IInv'
  BY <1>5, ExpireKeeps, ClockKeeps, MidnightKeeps, TimeComesKeeps, ClaimAgesKeeps DEF DayStep
<1> QED BY <1>1, <1>2, <1>3, <1>4, <1>5, PollCaptureKeeps, ClockKeeps DEF Next

\* For any number of rows, pacers, sweepers, requests, crashes and midnights,
\* where the poller captures and does not dispatch: the invariant that every
\* claim of pacer.ts, sweeper.ts and api.ts relies on always holds.
THEOREM Invariance ==
    ASSUME Captures
    PROVE  Spec => []IInv
<1>1. IInv /\ [Next]_vars => IInv' BY NextHolds
<1> QED BY <1>1, InitHolds, PTL DEF Spec

\* A campaign goes out to its audience at most once.
THEOREM FansOutOnce ==
    ASSUME Captures
    PROVE  Spec => []OneFanOut
<1>1. IInv => OneFanOut BY DEF IInv
<1> QED BY <1>1, Invariance, PTL

\* An item an editor rejected is never sent and never enters the queue.
THEOREM RejectedStaysUnsent ==
    ASSUME Captures
    PROVE  Spec => []RejectedNeverSent
<1>1. IInv => RejectedNeverSent BY DEF IInv, RejectedApart, RejectedNeverSent
<1> QED BY <1>1, Invariance, PTL

\* Requests with one id push their message once.
THEOREM RequestPushesOnce ==
    ASSUME Captures
    PROVE  Spec => []RequestSentOnce
<1>1. ASSUME IInv, NEW c \in Campaigns, outs[c] > 0 PROVE outs[c] = 1
  BY <1>1 DEF IInv, OneFanOut, TypeOK
<1>2. IInv => RequestSentOnce
  BY <1>1 DEF IInv, RequestsUnique, RequestSentOnce
<1> QED BY <1>2, Invariance, PTL

\* A write to another row, or one that leaves the status final, keeps a final row final.
LEMMA WriteFinal ==
    ASSUME TypeOK, NEW c \in Campaigns, row[c].status \in Final, NEW d, NEW r, Write(d, r),
           d = c => r.status \in Final
    PROVE  row'[c].status \in Final
BY DEF TypeOK, Write

\* No step takes a final row back.
LEMMA FinalStep ==
    ASSUME Captures, IInv, Next, NEW c \in Campaigns, row[c].status \in Final
    PROVE  row'[c].status \in Final
<1>0. TypeOK /\ row \in [Campaigns -> Row] /\ row[c] \in Row BY DEF IInv, TypeOK
<1>1. /\ Exists(c) /\ row[c].status # "DRAFT" /\ row[c].status # "SCHEDULED"
  BY NoneIsNone DEF Exists, Final, Statuses
<1>2. ASSUME NEW d, NEW s \in Final, SetStatus(d, s) PROVE row'[c].status \in Final
  <2>1. d = c => [row[d] EXCEPT !.status = s].status \in Final BY <1>0 DEF Row
  <2> QED BY <1>0, <1>2, <2>1, WriteFinal DEF SetStatus
<1>3. CASE UNCHANGED row BY <1>3
<1>4. ASSUME NEW p \in Pacers, PacerStep(p), row' # row PROVE row'[c].status \in Final
  <2>1. ASSUME RecoverClose(p) PROVE row'[c].status \in Final
    <3> PICK d : d = call[p].c OBVIOUS
    <3> DEFINE st == IF call[p].delivered THEN "SENT" ELSE "FAILED"
    <3>1. st \in Final BY DEF Final
    <3> HIDE DEF st
    <3>2. SetStatus(d, st) BY <1>4, <2>1 DEF RecoverClose, st
    <3> QED BY <1>2, <3>1, <3>2
  <2>2. ASSUME BackfillSelect(p) PROVE row'[c].status \in Final
    <3>1. PICK m \in Free, d \in Backfillable(call[p].used) : Write(m, CloneForResend(d))
          BY <1>4, <2>2 DEF BackfillSelect
    <3>2. m # c BY <1>1 DEF Free
    <3> QED BY <1>0, <3>1, <3>2, WriteFinal
  <2>3. ASSUME Claim(p) PROVE row'[c].status \in Final
    <3>1. PICK d : d = call[p].c OBVIOUS
    <3>2. Claimable(d) /\ Write(d, Claimed(d)) BY <1>4, <2>3, <3>1 DEF Claim
    <3>3. d # c BY <1>1, <3>2 DEF Claimable
    <3> QED BY <1>0, <3>2, <3>3, WriteFinal
  <2> QED BY <1>4, <2>1, <2>2, <2>3
      DEF PacerStep, RecoverRead, Gate, Select
<1>5. ASSUME NEW s \in Sweepers, SweepNext(s), row' # row PROVE row'[c].status \in Final
  <2>1. PICK d \in call[s].list :
           \/ Write(d, [row[d] EXCEPT !.scheduledAt = "later"])
           \/ Sweepable(d) /\ SetStatus(d, "DRAFT")
    BY <1>5 DEF SweepNext
  <2>2. CASE Write(d, [row[d] EXCEPT !.scheduledAt = "later"])
    <3>1. d = c => [row[d] EXCEPT !.scheduledAt = "later"].status \in Final BY <1>0 DEF Row
    <3> QED BY <1>0, <2>2, <3>1, WriteFinal
  <2>3. CASE Sweepable(d) /\ SetStatus(d, "DRAFT")
    <3>1. d # c BY <1>1, <2>3 DEF Sweepable
    <3> QED BY <1>0, <2>3, <3>1, WriteFinal DEF SetStatus
  <2> QED BY <2>1, <2>2, <2>3
<1>6. ASSUME NEW d \in Desks, ReviewClaim(d) \/ QueuePush(d) PROVE row'[c].status \in Final
  <2>1. PICK e \in Campaigns : row[e].status = "DRAFT" /\ \E r : Write(e, r)
    BY <1>6 DEF ReviewClaim, Awaiting, QueuePush, Queued
  <2>2. e # c BY <1>1, <2>1
  <2> QED BY <1>0, <2>1, <2>2, WriteFinal
<1>7. ASSUME NEW d \in Desks, DeskStep(d), row' # row PROVE row'[c].status \in Final
  <2>1. ASSUME Create(d) PROVE row'[c].status \in Final
    <3>1. PICK m \in Free : \E r : Write(m, r) BY <1>7, <2>1 DEF Create
    <3>2. m # c BY <1>1 DEF Free
    <3> QED BY <1>0, <3>1, <3>2, WriteFinal
  <2>2. ASSUME Defer(d) PROVE row'[c].status \in Final
    <3>1. PICK e, r : e = call[d].c /\ Write(e, r) BY <2>2 DEF Defer
    <3>2. row[e].status = "DRAFT"
      BY <2>2, <3>1, CallFacts, PacerKinds DEF MemoryOf, Defer, At
    <3>3. e # c BY <1>1, <3>2
    <3> QED BY <1>0, <3>1, <3>3, WriteFinal
  <2>3. ASSUME Promote(d) PROVE row'[c].status \in Final
    <3>1. PICK e : e = call[d].c OBVIOUS
    <3>2. Write(e, [row[e] EXCEPT !.queue = "QUALIFIED"]) BY <2>3, <3>1 DEF Promote
    <3>3. e = c => [row[e] EXCEPT !.queue = "QUALIFIED"].status \in Final BY <1>0 DEF Row
    <3> QED BY <1>0, <3>2, <3>3, WriteFinal
  <2> QED BY <1>7, <2>1, <2>2, <2>3 DEF DeskStep
<1>8. CASE PollCapture
  <2>1. PICK m \in Free : \E r : Write(m, r) BY <1>8 DEF PollCapture
  <2>2. m # c BY <1>1 DEF Free
  <2> QED BY <1>0, <2>1, <2>2, WriteFinal
<1>9. ASSUME NEW w \in Workers, SendStep(w), row' # row PROVE row'[c].status \in Final
  <2>1. \E s \in Final : SetStatus(call[w].c, s)
    BY <1>9 DEF SendStep, CheckLink, FanOut, Sent, Fails, Final
  <2> QED BY <1>2, <2>1
<1>10. ASSUME NEW w \in Workers, Flush(w) PROVE row'[c].status \in Final
  <2>1. PICK e : e = call[w].c OBVIOUS
  <2>2. Write(e, [row[e] EXCEPT !.event = TRUE]) BY <1>10, <2>1 DEF Flush
  <2>3. e = c => [row[e] EXCEPT !.event = TRUE].status \in Final BY <1>0 DEF Row
  <2> QED BY <1>0, <2>2, <2>3, WriteFinal
<1>11. ASSUME NEW d \in Campaigns, TimeComes(d) \/ ClaimAges(d) PROVE row'[c].status \in Final
  <2>1. CASE TimeComes(d)
    <3>1. d = c => [row[d] EXCEPT !.scheduledAt = "due"].status \in Final BY <1>0 DEF Row
    <3> QED BY <1>0, <2>1, <3>1, WriteFinal DEF TimeComes
  <2>2. CASE ClaimAges(d)
    <3>1. d = c => [row[d] EXCEPT !.claimedAt = "stale"].status \in Final BY <1>0 DEF Row
    <3> QED BY <1>0, <2>2, <3>1, WriteFinal DEF ClaimAges
  <2> QED BY <1>11, <2>1, <2>2
<1>12. CASE Expire BY <1>1, <1>12 DEF Expire
<1>13. CASE Midnight BY <1>0, <1>13 DEF Midnight, Row
<1>14. ASSUME NEW p \in Pacers, Tick(p) PROVE UNCHANGED row BY <1>14 DEF Tick
<1>15. ASSUME NEW s \in Sweepers, Sweep(s) PROVE UNCHANGED row BY <1>15 DEF Sweep
<1>16. ASSUME NEW d \in Desks, PostSend(d) PROVE UNCHANGED row BY <1>16 DEF PostSend
<1>17. ASSUME NEW w \in Workers, Push(w) \/ Crash(w) PROVE UNCHANGED row
  BY <1>17 DEF Push, Crash
<1>18. ASSUME SpacingPasses \/ HoursPass PROVE UNCHANGED row
  BY <1>18 DEF SpacingPasses, HoursPass
<1> QED
  BY <1>3, <1>4, <1>5, <1>6, <1>7, <1>8, <1>9, <1>10, <1>11, <1>12, <1>13, <1>14, <1>15,
     <1>16, <1>17, <1>18, NoDispatch DEF Next, DayStep

\* A campaign that was sent, failed or archived is never queued or scheduled again.
THEOREM FinalForGood ==
    ASSUME Captures
    PROVE  Spec => FinalStays
<1>1. IInv /\ [Next]_vars
         => [FinalKept]_vars
  BY FinalStep DEF vars, FinalKept
<1> QED BY <1>1, Invariance, PTL DEF Spec, FinalStays

-----------------------------------------------------------------------------
(***************************************************************************)
(* While sends end within recovery's half hour: a claimed row stays as its *)
(* claimer wrote it, and recovery never closes what somebody is sending.   *)
(* A second layer on the invariant above: a fresh claim is a live          *)
(* worker's, a stale one is nobody's.                                      *)
(***************************************************************************)

\* A row stays within the auto queues if claimed; an old claim is left as it was read.
RowSafe(d) ==
    /\ row'[d].claimedAt # None => row'[d].queue \in AutoQueues
    /\ Aged(row[d]) => Aged(row'[d]) /\ row'[d].event = row[d].event

\* A worker that does not move, and whose claimed row nobody writes to.
Undisturbed(v) ==
    /\ call'[v] = call[v]
    /\ call[v].pc \in Sending /\ row'[call[v].c].claimedAt # None =>
          /\ row'[call[v].c].claimedAt = row[call[v].c].claimedAt
          /\ row'[call[v].c].status = row[call[v].c].status

\* A worker that moves: what it has in hand or listed is as it should be.
Proper(v) ==
    /\ call'[v].pc = "sending" => call[v].pc \in Sending /\ call'[v].c = call[v].c
    /\ HandFresh(call'[v], row')
    /\ v \in Pacers => RecoveryRight(call'[v], row')

\* A row without a queue is not of the auto queues.
LEMMA NoneUnqueued == None \notin AutoQueues
BY NoneIsNone DEF AutoQueues, Queues

\* A row that is not written to.
LEMMA SameRowSafe ==
    ASSUME ClaimInv, NEW d \in Campaigns, row'[d] = row[d]
    PROVE  RowSafe(d)
BY DEF ClaimInv, ClaimedQueued, RowSafe

\* The layer is kept when every worker is undisturbed or moves properly.
LEMMA LayerKeeps ==
    ASSUME IInv, IInv', ClaimInv, \A d \in Campaigns : RowSafe(d),
           \A v \in Workers : Undisturbed(v) \/ Proper(v)
    PROVE  ClaimInv'
<1>1. HoldersAlone'
  <2> SUFFICES ASSUME NEW v \in Workers, NEW u \in Workers,
                      call'[v].pc \in Holding, call'[u].pc \in Holding,
                      call'[v].c = call'[u].c
               PROVE  v = u
    BY DEF HoldersAlone
  <2>1. CASE call'[v].pc \in Deciding BY <2>1 DEF IInv, DecidersAlone
  <2>2. CASE call'[u].pc \in Deciding BY <2>2 DEF IInv, DecidersAlone
  <2>3. CASE call'[v].pc = "sending" /\ call'[u].pc = "sending"
    <3>1. /\ call[v].pc \in Holding /\ call'[v].c = call[v].c
          /\ call[u].pc \in Holding /\ call'[u].c = call[u].c
      BY <2>3 DEF Undisturbed, Proper, Sending, Holding
    <3> QED BY <3>1 DEF ClaimInv, HoldersAlone
  <2> QED BY <2>1, <2>2, <2>3 DEF Deciding
<1>2. ClaimedQueued' BY DEF ClaimedQueued, RowSafe
<1>3. ASSUME NEW v \in Workers PROVE HandFresh(call'[v], row')
  <2>1. CASE Proper(v) BY <2>1 DEF Proper
  <2>2. CASE Undisturbed(v) BY <2>2 DEF Undisturbed, ClaimInv, HandFresh
  <2> QED BY <2>1, <2>2
<1>4. ASSUME NEW p \in Pacers PROVE RecoveryRight(call'[p], row')
  <2>0. p \in Workers BY PacerKinds
  <2>1. CASE Proper(p) BY <2>1 DEF Proper
  <2>2. CASE Undisturbed(p)
    <3>1. /\ call'[p] = call[p] /\ RecoveryRight(call[p], row)
          /\ call[p].list \subseteq Campaigns
          /\ call[p].pc = "close" => call[p].c \in Campaigns
      BY <2>0, <2>2, CallFacts DEF Undisturbed, ClaimInv, Call, MemoryOf
    <3> QED BY <3>1 DEF RecoveryRight, RowSafe
  <2> QED BY <2>0, <2>1, <2>2
<1> QED BY <1>1, <1>2, <1>3, <1>4 DEF ClaimInv

\* A worker with an empty list that is not closing anything.
LEMMA NothingListed ==
    ASSUME NEW m, NEW r, m.list = {}, m.pc # "close"
    PROVE  RecoveryRight(m, r)
BY DEF RecoveryRight

\* A worker moves and nobody writes a row.
LEMMA MoveSafe ==
    ASSUME IInv, IInv', ClaimInv, UNCHANGED row, NEW w \in Workers,
           \A v \in Workers : v # w => call'[v] = call[v],
           call'[w].pc = "sending" => call[w].pc \in Sending /\ call'[w].c = call[w].c,
           call'[w].pc \in Sending => call[w].pc \in Sending /\ call'[w].c = call[w].c,
           w \in Pacers => RecoveryRight(call'[w], row)
    PROVE  ClaimInv'
<1>1. HandFresh(call'[w], row') BY DEF ClaimInv, HandFresh
<1>2. Proper(w) BY <1>1 DEF Proper
<1>3. \A v \in Workers : v # w => Undisturbed(v) BY DEF Undisturbed
<1>4. \A d \in Campaigns : RowSafe(d) BY SameRowSafe
<1> QED BY <1>2, <1>3, <1>4, LayerKeeps

\* One row is written, and nobody but the worker that moves has it in hand.
LEMMA OwnRowSafe ==
    ASSUME IInv, IInv', ClaimInv, NEW c \in Campaigns, OneRow(c), RowSafe(c), NEW w \in Workers,
           \A v \in Workers : v # w => call'[v] = call[v],
           \A v \in Workers : v # w => ~(call[v].pc \in Sending /\ call[v].c = c),
           Proper(w)
    PROVE  ClaimInv'
<1>1. \A v \in Workers : v # w => Undisturbed(v)
  <2> SUFFICES ASSUME NEW v \in Workers, v # w PROVE Undisturbed(v) OBVIOUS
  <2>1. call[v].pc \in Sending => call[v].c \in Campaigns /\ call[v].c # c
    BY CallFacts DEF Sending, Holding
  <2> QED BY <2>1 DEF Undisturbed, OneRow
<1>2. \A d \in Campaigns : RowSafe(d) BY SameRowSafe DEF OneRow
<1> QED BY <1>1, <1>2, LayerKeeps
-----------------------------------------------------------------------------
(* The pacer                                                               *)

\* What recovery lists is old.
LEMMA TickClaims ==
    ASSUME IInv, IInv', ClaimInv, NEW p \in Pacers, Tick(p)
    PROVE  ClaimInv'
<1> DEFINE n == [Idle EXCEPT !.pc = "recover", !.list = Stranded]
<1>1. n \in Call /\ n.pc = "recover" /\ n.list = Stranded /\ p \in Workers
  BY NoneFacts, PacerKinds DEF Call, Idle, Stranded, Steps
<1>2. Alone(p) /\ call'[p] = n BY <1>1, GotoAlone DEF IInv, Tick
<1>3. RecoveryRight(n, row) BY <1>1 DEF RecoveryRight, Stranded, Aged
<1> HIDE DEF n
<1> QED BY <1>1, <1>2, <1>3, MoveSafe DEF Tick, Alone, Sending

\* The deliveries it reads are those of an old row.
LEMMA RecoverReadClaims ==
    ASSUME IInv, IInv', ClaimInv, NEW p \in Pacers, RecoverRead(p)
    PROVE  ClaimInv'
<1>1. PICK c \in call[p].list :
         Goto(p, [call[p] EXCEPT !.pc = "close", !.c = c, !.list = @ \ {c},
                                 !.delivered = row[c].event])
  BY DEF RecoverRead
<1> DEFINE n == [call[p] EXCEPT !.pc = "close", !.c = c, !.list = @ \ {c},
                                !.delivered = row[c].event]
<1>2. p \in Workers /\ call[p] \in Call /\ TypeOK BY PacerKinds, CallFacts
<1>3. c \in Campaigns /\ row[c].event \in BOOLEAN BY <1>2 DEF Call, TypeOK, Row
<1>4. /\ n \in Call /\ n.pc = "close" /\ n.c = c /\ n.list = call[p].list \ {c}
      /\ n.delivered = row[c].event
  BY <1>2, <1>3 DEF Call, Steps
<1>5. Alone(p) /\ call'[p] = n BY <1>1, <1>2, <1>4, GotoAlone
<1>6. RecoveryRight(n, row) BY <1>4 DEF ClaimInv, RecoveryRight
<1> HIDE DEF n
<1> QED BY <1>2, <1>4, <1>5, <1>6, MoveSafe DEF RecoverRead, Alone, Sending

\* Recovery writes to an old row only, which no live sender has.
LEMMA RecoverCloseClaims ==
    ASSUME IInv, IInv', ClaimInv, NEW p \in Pacers, RecoverClose(p)
    PROVE  ClaimInv'
<1> PICK c : c = call[p].c OBVIOUS
<1> DEFINE n == [call[p] EXCEPT !.pc = "recover", !.c = None]
<1>1. p \in Workers /\ call[p] \in Call /\ TypeOK /\ c \in Campaigns /\ row[c] \in Row
  BY PacerKinds, CallFacts DEF MemoryOf, RecoverClose, At, TypeOK
<1>2. n \in Call /\ n.pc = "recover" /\ n.list = call[p].list BY <1>1 DEF Call, Steps
<1>3. Alone(p) /\ call'[p] = n BY <1>1, <1>2, GotoAlone DEF RecoverClose
<1>4. Aged(row[c]) /\ \A d \in call[p].list : Aged(row[d])
  BY DEF ClaimInv, RecoveryRight, RecoverClose, At
<1>5. RecoveryRight(n, row) BY <1>2, <1>4 DEF RecoveryRight
<1> HIDE DEF n
<1>6. CASE UNCHANGED row
  BY <1>1, <1>2, <1>3, <1>5, <1>6, MoveSafe DEF Alone, Sending
<1>7. CASE SetStatus(c, IF call[p].delivered THEN "SENT" ELSE "FAILED")
  <2>1. PICK st \in {"SENT", "FAILED"} : SetStatus(c, st) BY <1>7
  <2>2. Write(c, [row[c] EXCEPT !.status = st]) BY <2>1 DEF SetStatus
  <2> DEFINE r == [row[c] EXCEPT !.status = st]
  <2>3. /\ r \in Row /\ r.status = st /\ r.claimedAt = row[c].claimedAt
        /\ r.queue = row[c].queue /\ r.event = row[c].event
    BY <1>1 DEF Row, Statuses
  <2>4. OneRow(c) /\ row'[c] = r BY <1>1, <2>2, <2>3, WriteOne
  <2> HIDE DEF r
  <2>5. RowSafe(c)
    BY <1>1, <1>4, <2>3, <2>4 DEF RowSafe, Aged, ClaimInv, ClaimedQueued
  <2>6. \A v \in Workers : ~(call[v].pc \in Sending /\ call[v].c = c)
    BY <1>4, NoneIsNone DEF ClaimInv, HandFresh, Aged, Ages
  <2>7. \A d \in Campaigns : Aged(row[d]) => Aged(row'[d])
    BY <2>4, <2>5 DEF OneRow, RowSafe
  <2>8. RecoveryRight(n, row')
    BY <1>1, <1>2, <1>4, <2>7 DEF RecoveryRight, Call
  <2>9. Proper(p) BY <1>2, <1>3, <2>8 DEF Proper, HandFresh, Sending
  <2> QED BY <1>1, <1>3, <2>4, <2>5, <2>6, <2>9, OwnRowSafe DEF Alone
<1> QED BY <1>6, <1>7 DEF RecoverClose

\* A worker that turns to other things, or to nothing, and writes nothing.
LEMMA TurnSafe ==
    ASSUME IInv, IInv', ClaimInv, NEW w \in Workers, NEW n \in Call, Goto(w, n), UNCHANGED row,
           n.pc \notin Sending \cup {"close"}, n.list = {} \/ w \notin Pacers
    PROVE  ClaimInv'
<1>1. Alone(w) /\ call'[w] = n BY GotoAlone DEF IInv
<1> QED BY <1>1, NothingListed, MoveSafe DEF Alone, Sending

LEMMA GateClaims ==
    ASSUME IInv, IInv', ClaimInv, NEW p \in Pacers, Gate(p)
    PROVE  ClaimInv'
<1>1. PICK n \in {[call[p] EXCEPT !.pc = "select"], Idle} : Goto(p, n)
  BY DEF Gate
<1>2. p \in Workers /\ call[p] \in Call BY PacerKinds, CallFacts
<1>3. n \in Call /\ n.pc \in {"select", "idle"} /\ n.list = {}
  <2>1. CASE n = Idle BY <2>1, NoneFacts
  <2>2. CASE n = [call[p] EXCEPT !.pc = "select"]
    BY <1>2, <2>2 DEF Call, Steps, Gate
  <2> QED BY <1>1, <2>1, <2>2
<1> QED BY <1>1, <1>2, <1>3, TurnSafe DEF Gate, Sending

\* A pick writes nothing.
LEMMA PickClaims ==
    ASSUME IInv, IInv', ClaimInv, NEW p \in Pacers, call[p].list = {}, UNCHANGED row,
           Carryover(p) \/ \E c \in Campaigns : Pick(p, c, TRUE) \/ Pick(p, c, FALSE)
    PROVE  ClaimInv'
<1>1. p \in Workers BY PacerKinds
<1>2. CASE Goto(p, Idle)
  BY <1>1, <1>2, NoneFacts, TurnSafe DEF Sending
<1>3. ASSUME NEW c \in Campaigns, Pick(p, c, TRUE) \/ Pick(p, c, FALSE) PROVE ClaimInv'
  <2>1. Alone(p) /\ call'[p].pc = "claim" /\ call'[p].list = {} BY <1>3, PickMoves
  <2>2. RecoveryRight(call'[p], row) BY <2>1, NothingListed
  <2> QED BY <1>1, <2>1, <2>2, MoveSafe DEF Alone, Sending
<1> QED BY <1>2, <1>3, CarryoverPicks

LEMMA SelectClaims ==
    ASSUME IInv, IInv', ClaimInv, NEW p \in Pacers, Select(p)
    PROVE  ClaimInv'
<1>1. p \in Workers /\ call[p].list = {} /\ call[p] \in Call /\ UNCHANGED row
  BY PacerKinds, CallFacts DEF MemoryOf, Select, At
<1>2. CASE FreshQualified # {}
  BY <1>1, <1>2, PickClaims DEF Select, FreshQualified, Waiting
<1>3. CASE FreshQualified = {} /\ MorningOpen
  <2> DEFINE n == [call[p] EXCEPT !.pc = "backfill", !.used = UsedToday]
  <2>1. UsedToday \in SUBSET (Urls \cup {None}) BY DEF UsedToday, IInv, TypeOK, Row
  <2>2. n \in Call /\ n.pc = "backfill" /\ n.list = {} BY <1>1, <2>1 DEF Call, Steps
  <2>3. Goto(p, n) BY <1>3 DEF Select
  <2> HIDE DEF n
  <2> QED BY <1>1, <2>2, <2>3, TurnSafe DEF Sending
<1>4. CASE FreshQualified = {} /\ ~MorningOpen
  BY <1>1, <1>4, PickClaims DEF Select
<1> QED BY <1>2, <1>3, <1>4

\* A new row is nobody's, and not claimed yet.
LEMMA BirthSafe ==
    ASSUME IInv, IInv', ClaimInv, NEW m \in Free, NEW r \in Row, r.claimedAt = None,
           Write(m, r), NEW w \in Workers, Alone(w),
           call'[w].pc \notin {"sending", "close"}, call'[w].pc \in Sending => call'[w].c = m,
           w \in Pacers => call'[w].list = {}
    PROVE  ClaimInv'
<1>1. m \in Campaigns /\ ~Exists(m) /\ row[m] = NoRow /\ ~Held(m)
  BY DEF Free, IInv, FreeBlank, ChoosableUnsent
<1>2. OneRow(m) /\ row'[m] = r BY <1>1, WriteOne DEF IInv
<1>3. RowSafe(m)
  <2>1. NoRow.claimedAt = None /\ None # "stale" BY NoneIsNone DEF NoRow, Ages
  <2> QED BY <1>1, <1>2, <2>1 DEF RowSafe, Aged
<1>4. \A v \in Workers : ~(call[v].pc \in Sending /\ call[v].c = m)
  BY <1>1 DEF Held, Sending, Holding
<1>5. Proper(w)
  BY <1>2, NothingListed DEF Proper, HandFresh
<1> QED BY <1>1, <1>2, <1>3, <1>4, <1>5, OwnRowSafe DEF Alone

LEMMA BackfillSelectClaims ==
    ASSUME IInv, IInv', ClaimInv, NEW p \in Pacers, BackfillSelect(p)
    PROVE  ClaimInv'
<1>1. p \in Workers /\ call[p].list = {} /\ TypeOK
  BY PacerKinds, CallFacts DEF MemoryOf, BackfillSelect, At
<1>0. \A c \in Backfillable(call[p].used) : c \in Campaigns
  BY DEF Backfillable, Yesterdays
<1>2. CASE Carryover(p) /\ UNCHANGED row
  BY <1>1, <1>2, PickClaims
<1>3. ASSUME NEW c \in Campaigns, Pick(p, c, TRUE), UNCHANGED row PROVE ClaimInv'
  BY <1>1, <1>3, PickClaims
<1>4. ASSUME NEW c \in Campaigns, NEW m \in Free, Write(m, CloneForResend(c)), Pick(p, m, TRUE)
      PROVE  ClaimInv'
  <2> DEFINE b == Draft(row[c].url, row[c].queue, None)
             r == CloneForResend(c)
  <2>1. row[c] \in Row /\ m \in Campaigns BY <1>1 DEF TypeOK, Free
  <2>2. b \in Row /\ b.claimedAt = None
    BY <2>1, DraftTyped DEF Row, Draft, NoRow
  <2>3. r = [b EXCEPT !.createdAt = row[c].createdAt] BY DEF CloneForResend
  <2> HIDE DEF b
  <2>4. r \in Row /\ r.claimedAt = None BY <2>1, <2>2, <2>3 DEF Row
  <2> HIDE DEF r
  <2>5. Alone(p) /\ call'[p].pc = "claim" /\ call'[p].list = {}
    BY <1>1, <1>4, <2>1, PickMoves
  <2> QED BY <1>1, <1>4, <2>4, <2>5, BirthSafe DEF r, Sending
<1> QED BY <1>0, <1>2, <1>3, <1>4 DEF BackfillSelect

\* A claim: the row was a draft of the auto queues, and is its claimer's alone.
LEMMA ClaimSafe ==
    ASSUME IInv, IInv', ClaimInv, NEW w \in Workers, NEW c \in Campaigns,
           row[c].status = "DRAFT", row[c].queue \in AutoQueues, Write(c, Claimed(c)),
           Alone(w), call'[w].pc = "link", call'[w].c = c, call'[w].list = {}
    PROVE  ClaimInv'
<1>1. TypeOK /\ row[c] \in Row BY DEF IInv, TypeOK
<1>2. /\ Claimed(c) \in Row /\ Claimed(c).status = "SCHEDULED" /\ Claimed(c).claimedAt = "fresh"
      /\ Claimed(c).queue = row[c].queue
  BY <1>1 DEF Claimed, Row, Statuses, Ages
<1>3. OneRow(c) /\ row'[c] = Claimed(c) BY <1>1, <1>2, WriteOne
<1>4. RowSafe(c) BY <1>2, <1>3 DEF RowSafe, Aged
<1>5. ~Held(c) BY DEF IInv, ChoosableUnsent, Choosable, Queued
<1>6. \A v \in Workers : ~(call[v].pc \in Sending /\ call[v].c = c)
  BY <1>5 DEF Held, Sending, Holding
<1>7. Proper(w) BY <1>2, <1>3, NothingListed DEF Proper, HandFresh
<1> QED BY <1>3, <1>4, <1>6, <1>7, OwnRowSafe DEF Alone

LEMMA ClaimClaims ==
    ASSUME IInv, IInv', ClaimInv, NEW p \in Pacers, Claim(p)
    PROVE  ClaimInv'
<1> PICK c : c = call[p].c OBVIOUS
<1>1. /\ p \in Workers /\ call[p] \in Call /\ TypeOK /\ c \in Campaigns
      /\ row[c].queue \in AutoQueues /\ call[p].list = {}
  BY PacerKinds, CallFacts DEF MemoryOf, Claim, At
<1>2. CASE Goto(p, Idle) /\ UNCHANGED row
  BY <1>1, <1>2, NoneFacts, TurnSafe DEF Sending
<1>3. CASE Claimable(c)
  <2> DEFINE n == [call[p] EXCEPT !.pc = "link"]
  <2>1. n \in Call /\ n.pc = "link" /\ n.c = c /\ n.list = {} BY <1>1 DEF Call, Steps
  <2>2. Alone(p) /\ call'[p] = n BY <1>1, <1>3, <2>1, GotoAlone DEF Claim
  <2>3. Write(c, Claimed(c)) /\ row[c].status = "DRAFT" BY <1>3 DEF Claim, Claimable
  <2> HIDE DEF n
  <2> QED BY <1>1, <2>1, <2>2, <2>3, ClaimSafe
<1> QED BY <1>2, <1>3 DEF Claim
-----------------------------------------------------------------------------
(* executeCampaign                                                         *)

\* The row in a sender's hands is nobody else's and not old.
LEMMA OwnRow ==
    ASSUME IInv, ClaimInv, NEW w \in Workers, call[w].pc \in Sending
    PROVE  /\ call[w] \in Call /\ call[w].c \in Campaigns /\ row[call[w].c] \in Row /\ TypeOK
           /\ ~Aged(row[call[w].c])
           /\ w \in Pacers => call[w].list = {}
           /\ \A v \in Workers : v # w => ~(call[v].pc \in Sending /\ call[v].c = call[w].c)
<1>1. call[w] \in Call /\ call[w].c \in Campaigns /\ TypeOK /\ call[w].pc \in Holding
  BY CallFacts DEF Sending, Holding
<1>2. row[call[w].c] \in Row BY <1>1 DEF TypeOK
<1>3. ~Aged(row[call[w].c])
  BY NoneIsNone DEF ClaimInv, HandFresh, Aged, Ages
<1>4. w \in Pacers => call[w].list = {}
  BY <1>1, CallFacts, PacerKinds DEF MemoryOf, Sending
<1> QED BY <1>1, <1>2, <1>3, <1>4 DEF ClaimInv, HoldersAlone, Sending, Holding

\* A sender closes its row.
LEMMA CloseClaims ==
    ASSUME IInv, IInv', ClaimInv, NEW w \in Workers, call[w].pc \in Sending, NEW s \in Statuses,
           SetStatus(call[w].c, s), Done(w)
    PROVE  ClaimInv'
<1> PICK c : c = call[w].c OBVIOUS
<1>1. c \in Campaigns /\ TypeOK /\ row[c] \in Row BY OwnRow
<1> DEFINE r == [row[c] EXCEPT !.status = s]
<1>2. r \in Row /\ r.claimedAt = row[c].claimedAt /\ r.queue = row[c].queue
  BY <1>1 DEF Row
<1>3. OneRow(c) /\ row'[c] = r BY <1>1, <1>2, WriteOne DEF SetStatus
<1> HIDE DEF r
<1>4. RowSafe(c) BY <1>1, <1>2, <1>3, OwnRow DEF RowSafe, ClaimInv, ClaimedQueued
<1>5. /\ Alone(w) /\ call'[w].pc \in {"idle", "sweep"} /\ call'[w].list = call[w].list
  BY DoneMoves DEF Sending, Holding
<1>6. Proper(w) BY <1>5, OwnRow, NothingListed DEF Proper, HandFresh, Sending
<1> QED BY <1>1, <1>3, <1>4, <1>5, <1>6, OwnRow, OwnRowSafe DEF Alone

LEMMA SendStepClaims ==
    ASSUME IInv, IInv', ClaimInv, NEW w \in Workers, SendStep(w)
    PROVE  ClaimInv'
<1>1. CASE \/ CheckLink(w) /\ SetStatus(call[w].c, "EXPIRED") /\ Done(w)
           \/ Sent(w) \/ Fails(w)
  BY <1>1, CloseClaims DEF CheckLink, Sent, Fails, At, Sending, Statuses
<1>2. ASSUME NEW pc \in {"send", "sending"}, call[w].pc \in Sending, UNCHANGED row,
             Goto(w, [call[w] EXCEPT !.pc = pc])
      PROVE  ClaimInv'
  <2> DEFINE n == [call[w] EXCEPT !.pc = pc]
  <2>1. n \in Call /\ n.pc = pc /\ n.c = call[w].c /\ n.list = call[w].list
    BY <1>2, OwnRow DEF Call, Steps
  <2>2. Alone(w) /\ call'[w] = n BY <1>2, <2>1, GotoAlone DEF IInv
  <2> HIDE DEF n
  <2>3. w \in Pacers => RecoveryRight(call'[w], row)
    BY <1>2, <2>1, <2>2, OwnRow, NothingListed
  <2> QED BY <1>2, <2>1, <2>2, <2>3, MoveSafe DEF Alone
<1> QED BY <1>1, <1>2 DEF SendStep, CheckLink, FanOut, At, Sending

LEMMA FlushClaims ==
    ASSUME IInv, IInv', ClaimInv, NEW w \in Workers, Flush(w)
    PROVE  ClaimInv'
<1> PICK c : c = call[w].c OBVIOUS
<1>1. c \in Campaigns /\ TypeOK /\ row[c] \in Row /\ call[w].pc \in Sending /\ UNCHANGED call
  BY OwnRow DEF Flush, At, Sending
<1> DEFINE r == [row[c] EXCEPT !.event = TRUE]
<1>2. /\ r \in Row /\ r.claimedAt = row[c].claimedAt /\ r.queue = row[c].queue
      /\ r.status = row[c].status
  BY <1>1 DEF Row
<1>3. OneRow(c) /\ row'[c] = r BY <1>1, <1>2, WriteOne DEF Flush
<1> HIDE DEF r
<1>4. \A d \in Campaigns : RowSafe(d)
  <2>1. RowSafe(c) BY <1>1, <1>2, <1>3, OwnRow DEF RowSafe, ClaimInv, ClaimedQueued
  <2> QED BY <1>3, <2>1, SameRowSafe DEF OneRow
<1>5. \A v \in Workers : Undisturbed(v)
  <2> SUFFICES ASSUME NEW v \in Workers PROVE Undisturbed(v) OBVIOUS
  <2>1. call[v].pc \in Sending => call[v].c \in Campaigns BY CallFacts DEF Sending, Holding
  <2> QED BY <1>1, <1>2, <1>3, <2>1 DEF Undisturbed, OneRow
<1> QED BY <1>4, <1>5, LayerKeeps

LEMMA StopClaims ==
    ASSUME IInv, IInv', ClaimInv, NEW w \in Workers, Push(w) \/ Crash(w)
    PROVE  ClaimInv'
<1>1. CASE Crash(w)
  BY <1>1, NoneFacts, TurnSafe DEF Crash, Sending
<1>2. CASE Push(w)
  <2>1. UNCHANGED <<row, call>> BY <1>2 DEF Push
  <2>2. \A v \in Workers : Undisturbed(v) BY <2>1 DEF Undisturbed
  <2>3. \A d \in Campaigns : RowSafe(d) BY <2>1, SameRowSafe
  <2> QED BY <2>2, <2>3, LayerKeeps
<1> QED BY <1>1, <1>2
-----------------------------------------------------------------------------
(* The sweeper and the requests: rows that were never claimed              *)

\* A row outside the auto queues is not claimed.
LEMMA Unqueued ==
    ASSUME ClaimInv, NEW c \in Campaigns, row[c].queue \notin AutoQueues
    PROVE  row[c].claimedAt = None
BY DEF ClaimInv, ClaimedQueued

\* Writing to such a row disturbs no claim; only the worker that moves has it in hand.
LEMMA UnclaimedSafe ==
    ASSUME IInv, IInv', ClaimInv, NEW c \in Campaigns, row[c].queue \notin AutoQueues,
           NEW r \in Row, r.claimedAt = None, Write(c, r), NEW w \in Workers, Alone(w),
           call'[w].pc \notin {"sending", "close"}, call'[w].pc \in Sending => call'[w].c = c,
           w \in Pacers => call'[w].list = {},
           call[w].c = c \/ ~Held(c)
    PROVE  ClaimInv'
<1>1. OneRow(c) /\ row'[c] = r BY WriteOne DEF IInv
<1>2. row[c].claimedAt = None /\ None # "stale" BY Unqueued, NoneIsNone DEF Ages
<1>3. RowSafe(c) BY <1>1, <1>2 DEF RowSafe, Aged
<1>4. Proper(w) BY <1>1, NothingListed DEF Proper, HandFresh
<1>5. \A d \in Campaigns : RowSafe(d) BY <1>1, <1>3, SameRowSafe DEF OneRow
<1>6. ASSUME NEW v \in Workers, v # w PROVE Undisturbed(v)
  <2>1. call[v].pc \in Sending => call[v].c \in Campaigns BY CallFacts DEF Sending, Holding
  <2> QED BY <1>1, <1>6, <2>1 DEF Undisturbed, OneRow, Alone
<1> QED BY <1>4, <1>5, <1>6, LayerKeeps

LEMMA SweepClaims ==
    ASSUME IInv, IInv', ClaimInv, NEW s \in Sweepers, Sweep(s) \/ SweepNext(s)
    PROVE  ClaimInv'
<1>0. s \in Workers /\ s \notin Pacers BY PacerKinds
<1>1. call[s] \in Call /\ TypeOK /\ call[s].list \subseteq Campaigns BY <1>0, CallFacts DEF Call
<1>2. CASE Sweep(s)
  <2> DEFINE n == [Idle EXCEPT !.pc = "sweep", !.list = Due, !.quiet = Quiet]
  <2>0. Quiet \in BOOLEAN BY DEF Quiet
  <2>1. n \in Call /\ n.pc = "sweep"
    BY <2>0, NoneFacts DEF Call, Idle, Due, Steps
  <2>2. Goto(s, n) BY <1>2 DEF Sweep
  <2> HIDE DEF n
  <2> QED BY <1>0, <1>2, <2>1, <2>2, TurnSafe DEF Sweep, Sending
<1>3. CASE Goto(s, Idle) /\ UNCHANGED row
  BY <1>0, <1>3, NoneFacts, TurnSafe DEF Sending
<1>4. ASSUME NEW c \in call[s].list, call[s].pc = "sweep"
      PROVE  /\ c \in Campaigns /\ row[c].queue \notin AutoQueues /\ row[c] \in Row
             /\ row[c].status = "SCHEDULED" => ~Held(c)
  <2>1. c \in Campaigns /\ row[c].scheduledAt # None
    BY <1>0, <1>1, <1>4, CallFacts DEF MemoryOf
  <2>2. row[c].queue = None BY <2>1 DEF IInv, TimedUnqueued
  <2>3. row[c].status = "SCHEDULED" => ~Held(c)
    BY <2>1 DEF IInv, ChoosableUnsent, Choosable
  <2> QED BY <1>1, <2>1, <2>2, <2>3, Unqueued, NoneUnqueued DEF TypeOK
<1>5. ASSUME NEW c \in call[s].list, call[s].pc = "sweep",
             Goto(s, [call[s] EXCEPT !.list = @ \ {c}])
      PROVE  Alone(s) /\ call'[s].pc = "sweep"
  <2> DEFINE n == [call[s] EXCEPT !.list = @ \ {c}]
  <2>1. n \in Call /\ n.pc = "sweep" BY <1>1, <1>5 DEF Call
  <2> QED BY <1>0, <1>1, <1>5, <2>1, GotoAlone
<1>6. ASSUME NEW c \in call[s].list, call[s].pc = "sweep",
             Goto(s, [call[s] EXCEPT !.list = @ \ {c}]), UNCHANGED row
      PROVE  ClaimInv'
  BY <1>0, <1>5, <1>6, MoveSafe DEF Alone, Sending
<1>7. ASSUME NEW c \in call[s].list, call[s].pc = "sweep",
             Goto(s, [call[s] EXCEPT !.list = @ \ {c}]),
             Write(c, [row[c] EXCEPT !.scheduledAt = "later"])
      PROVE  ClaimInv'
  <2> DEFINE r == [row[c] EXCEPT !.scheduledAt = "later"]
  <2>1. /\ r \in Row /\ r.claimedAt = row[c].claimedAt /\ r.queue = row[c].queue
        /\ r.status = row[c].status
    BY <1>4, <1>7 DEF Row, Times
  <2>2. OneRow(c) /\ row'[c] = r /\ c \in Campaigns BY <1>1, <1>4, <1>7, <2>1, WriteOne
  <2> HIDE DEF r
  <2>3. Alone(s) /\ call'[s].pc = "sweep" BY <1>5, <1>7
  <2>4. RowSafe(c)
    BY <1>4, <1>7, <2>1, <2>2, Unqueued, NoneIsNone DEF RowSafe, Aged, Ages
  <2>5. \A d \in Campaigns : RowSafe(d) BY <2>2, <2>4, SameRowSafe DEF OneRow
  <2>6. ASSUME NEW v \in Workers, v # s PROVE Undisturbed(v)
    <3>1. call[v].pc \in Sending => call[v].c \in Campaigns BY CallFacts DEF Sending, Holding
    <3> QED BY <2>1, <2>2, <2>3, <2>6, <3>1 DEF Undisturbed, OneRow, Alone
  <2>7. Proper(s) BY <1>0, <2>3 DEF Proper, HandFresh, Sending
  <2> QED BY <2>5, <2>6, <2>7, LayerKeeps
<1>8. ASSUME NEW c \in call[s].list, call[s].pc = "sweep", Sweepable(c), SetStatus(c, "DRAFT"),
             Goto(s, [call[s] EXCEPT !.list = @ \ {c}, !.pc = "send", !.c = c])
      PROVE  ClaimInv'
  <2> DEFINE n == [call[s] EXCEPT !.list = @ \ {c}, !.pc = "send", !.c = c]
             r == [row[c] EXCEPT !.status = "DRAFT"]
  <2>1. n \in Call /\ n.pc = "send" /\ n.c = c BY <1>1, <1>4, <1>8 DEF Call, Steps
  <2>2. Alone(s) /\ call'[s] = n BY <1>0, <1>1, <1>8, <2>1, GotoAlone
  <2>3. r \in Row /\ r.claimedAt = row[c].claimedAt BY <1>4, <1>8 DEF Row, Statuses
  <2>4. Write(c, r) BY <1>8 DEF SetStatus
  <2>5. ~Held(c) /\ row[c].claimedAt = None /\ c \in Campaigns /\ row[c].queue \notin AutoQueues
    BY <1>4, <1>8, Unqueued DEF Sweepable
  <2> HIDE DEF n, r
  <2> QED BY <1>0, <2>1, <2>2, <2>3, <2>4, <2>5, UnclaimedSafe
<1> QED BY <1>2, <1>3, <1>6, <1>7, <1>8 DEF SweepNext, At

\* A new draft is not claimed.
LEMMA DraftUnclaimed ==
    ASSUME NEW u \in Urls \cup {None}, NEW q \in Queues \cup {None},
           NEW r \in Requests \cup {None}
    PROVE  Draft(u, q, r) \in Row /\ Draft(u, q, r).claimedAt = None
<1>1. Draft(u, q, r).claimedAt = None BY DEF Draft, NoRow
<1> QED BY <1>1, DraftTyped

LEMMA CreateClaims ==
    ASSUME IInv, IInv', ClaimInv, NEW d \in Desks, Create(d)
    PROVE  ClaimInv'
<1> PICK b : b = call[d].body OBVIOUS
<1>1. d \in Workers /\ d \notin Pacers BY PacerKinds
<1>2. /\ call[d] \in Call /\ MemoryOf(d, call[d]) /\ TypeOK
      /\ \E u \in Urls, q \in Requests \cup {None} : b = Draft(u, None, q)
  BY <1>1, CallFacts DEF Create, At, MemoryOf
<1>3. b \in Row /\ b.claimedAt = None BY <1>2, DraftUnclaimed
<1>4. CASE Goto(d, Idle) /\ UNCHANGED row
  BY <1>1, <1>4, NoneFacts, TurnSafe DEF Sending
<1>5. ASSUME NEW c \in Free, Goto(d, Idle),
             Write(c, [b EXCEPT !.status = "SCHEDULED", !.scheduledAt = "later"])
      PROVE  ClaimInv'
  <2> DEFINE r == [b EXCEPT !.status = "SCHEDULED", !.scheduledAt = "later"]
  <2>1. r \in Row BY <1>3, PutOff
  <2>2. r.claimedAt = None BY <1>3 DEF Row
  <2> HIDE DEF r
  <2> QED BY <1>1, <1>5, <2>2, <2>1, NoneFacts, GoesIdle, BirthSafe DEF r, Sending
<1>6. ASSUME NEW c \in Free, Write(c, b), NEW to \in {"defer", "send"},
             Goto(d, [call[d] EXCEPT !.c = c, !.pc = to])
      PROVE  ClaimInv'
  <2> DEFINE n == [call[d] EXCEPT !.c = c, !.pc = to]
  <2>1. n \in Call /\ n.pc = to /\ n.c = c BY <1>2 DEF Call, Steps, Free
  <2>2. Alone(d) /\ call'[d] = n BY <1>1, <1>2, <1>6, <2>1, GotoAlone
  <2> HIDE DEF n
  <2> QED BY <1>1, <1>3, <1>6, <2>1, <2>2, BirthSafe
<1> QED BY <1>4, <1>5, <1>6 DEF Create

LEMMA DeskClaims ==
    ASSUME IInv, IInv', ClaimInv, NEW d \in Desks, Defer(d) \/ Promote(d)
    PROVE  ClaimInv'
<1> PICK c : c = call[d].c OBVIOUS
<1>1. d \in Workers /\ d \notin Pacers BY PacerKinds
<1>2. c \in Campaigns /\ row[c] \in Row /\ row[c].queue \in {None, "REVIEW"}
  BY <1>1, CallFacts DEF Defer, Promote, At, MemoryOf, Holding, TypeOK
<1>3. row[c].queue \notin AutoQueues BY <1>2, NoneUnqueued DEF AutoQueues
<1>4. PICK r \in Row : Write(c, r) /\ r.claimedAt = row[c].claimedAt
  <2> DEFINE put == [row[c] EXCEPT !.status = "SCHEDULED", !.scheduledAt = "later"]
             up  == [row[c] EXCEPT !.queue = "QUALIFIED"]
  <2>1. put \in Row /\ put.claimedAt = row[c].claimedAt BY <1>2, PutOff DEF Row
  <2>2. up \in Row /\ up.claimedAt = row[c].claimedAt BY <1>2 DEF Row, Queues
  <2>3. Write(c, put) \/ Write(c, up) BY DEF Defer, Promote
  <2> HIDE DEF put, up
  <2> QED BY <2>1, <2>2, <2>3
<1>5. Goto(d, Idle) BY DEF Defer, Promote
<1> QED
  BY <1>1, <1>2, <1>3, <1>4, <1>5, NoneFacts, GoesIdle, Unqueued, UnclaimedSafe DEF Sending

LEMMA ReviewClaimClaims ==
    ASSUME IInv, IInv', ClaimInv, NEW d \in Desks, ReviewClaim(d)
    PROVE  ClaimInv'
<1>1. PICK c \in Campaigns :
         /\ Awaiting(c) /\ Write(c, [row[c] EXCEPT !.reviewed = TRUE])
         /\ \/ UNCHANGED call
            \/ \E pc \in {"promote", "link"} : Goto(d, [Idle EXCEPT !.pc = pc, !.c = c])
  BY DEF ReviewClaim
<1>2. d \in Workers /\ d \notin Pacers /\ TypeOK /\ row[c] \in Row
  BY PacerKinds DEF IInv, TypeOK
<1> DEFINE r == [row[c] EXCEPT !.reviewed = TRUE]
<1>3. r \in Row /\ r.claimedAt = row[c].claimedAt /\ r.queue = row[c].queue
      /\ r.status = row[c].status
  BY <1>2 DEF Row
<1>4. OneRow(c) /\ row'[c] = r BY <1>1, <1>2, <1>3, WriteOne
<1> HIDE DEF r
<1>5. row[c].queue \notin AutoQueues BY <1>1 DEF Awaiting, AutoQueues
<1>6. ~Held(c) BY <1>1 DEF IInv, ChoosableUnsent, Choosable
<1>7. CASE UNCHANGED call
  <2>1. \A e \in Campaigns : RowSafe(e)
    <3>1. RowSafe(c)
      BY <1>3, <1>4, <1>5, Unqueued, NoneIsNone DEF RowSafe, Aged, Ages
    <3> QED BY <1>4, <3>1, SameRowSafe DEF OneRow
  <2>2. ASSUME NEW v \in Workers PROVE Undisturbed(v)
    <3>1. call[v].pc \in Sending => call[v].c \in Campaigns BY CallFacts DEF Sending, Holding
    <3> QED BY <1>3, <1>4, <1>7, <3>1 DEF Undisturbed, OneRow
  <2> QED BY <2>1, <2>2, LayerKeeps
<1>8. ASSUME NEW pc \in {"promote", "link"}, Goto(d, [Idle EXCEPT !.pc = pc, !.c = c])
      PROVE  ClaimInv'
  <2> DEFINE n == [Idle EXCEPT !.pc = pc, !.c = c]
  <2>1. n \in Call /\ n.pc = pc /\ n.c = c BY NoneFacts DEF Call, Idle, Steps
  <2>2. Alone(d) /\ call'[d] = n BY <1>2, <1>8, <2>1, GotoAlone
  <2> HIDE DEF n
  <2> QED BY <1>1, <1>2, <1>3, <1>5, <1>6, <2>1, <2>2, Unqueued, UnclaimedSafe DEF r
<1> QED BY <1>1, <1>7, <1>8

LEMMA QueuePushClaims ==
    ASSUME IInv, IInv', ClaimInv, NEW d \in Desks, QueuePush(d)
    PROVE  ClaimInv'
<1>1. PICK c \in Campaigns :
         Queued(c) /\ Write(c, Claimed(c)) /\ Goto(d, [Idle EXCEPT !.pc = "link", !.c = c])
  BY DEF QueuePush
<1> DEFINE n == [Idle EXCEPT !.pc = "link", !.c = c]
<1>2. n \in Call /\ n.pc = "link" /\ n.c = c /\ n.list = {} /\ d \in Workers
  BY NoneFacts, PacerKinds DEF Call, Idle, Steps
<1>3. Alone(d) /\ call'[d] = n BY <1>1, <1>2, GotoAlone DEF IInv
<1> HIDE DEF n
<1> QED BY <1>1, <1>2, <1>3, ClaimSafe DEF Queued

LEMMA PostSendClaims ==
    ASSUME IInv, IInv', ClaimInv, NEW d \in Desks, PostSend(d)
    PROVE  ClaimInv'
<1>1. PICK u \in Urls, r \in Requests \cup {None}, later \in BOOLEAN, breaking \in Breaking :
         Goto(d, [Idle EXCEPT !.pc = "create", !.body = Draft(u, None, r),
                              !.later = later, !.breaking = breaking])
  BY DEF PostSend
<1> DEFINE n == [Idle EXCEPT !.pc = "create", !.body = Draft(u, None, r),
                             !.later = later, !.breaking = breaking]
<1>2. d \in Workers /\ breaking \in BOOLEAN BY PacerKinds DEF Breaking
<1>3. Draft(u, None, r) \in Row BY DraftTyped
<1>4. n \in Call /\ n.pc = "create" /\ n.list = {} BY <1>2, <1>3 DEF Call, Idle, Steps
<1>5. Goto(d, n) /\ UNCHANGED row BY <1>1 DEF PostSend
<1> HIDE DEF n
<1> QED BY <1>2, <1>4, <1>5, TurnSafe DEF Sending

LEMMA CaptureClaims ==
    ASSUME IInv, IInv', ClaimInv, PollCapture
    PROVE  ClaimInv'
<1>1. PICK m \in Free, u \in Urls, q \in Queues : Write(m, Draft(u, q, None))
  BY DEF PollCapture
<1> DEFINE r == Draft(u, q, None)
<1>2. r \in Row /\ r.claimedAt = None BY DraftUnclaimed
<1> HIDE DEF r
<1>3. m \in Campaigns /\ row[m] = NoRow /\ ~Held(m)
  BY DEF Free, IInv, FreeBlank, ChoosableUnsent
<1>4. OneRow(m) /\ row'[m] = r /\ UNCHANGED call
  BY <1>1, <1>2, <1>3, WriteOne DEF IInv, r, PollCapture
<1>5. \A d \in Campaigns : RowSafe(d)
  <2>1. NoRow.claimedAt = None /\ None # "stale" BY NoneIsNone DEF NoRow, Ages
  <2>2. RowSafe(m) BY <1>2, <1>3, <1>4, <2>1 DEF RowSafe, Aged
  <2> QED BY <1>4, <2>2, SameRowSafe DEF OneRow
<1>6. ASSUME NEW v \in Workers PROVE Undisturbed(v)
  <2>1. call[v].pc \in Sending => call[v].c \in Campaigns BY CallFacts DEF Sending, Holding
  <2> QED BY <1>2, <1>4, <2>1 DEF Undisturbed, OneRow
<1> QED BY <1>5, <1>6, LayerKeeps
-----------------------------------------------------------------------------
(* Retention and the clock: no worker moves                                *)

\* Rows change in what neither a claim nor recovery looks at.
LEMMA StillSafe ==
    ASSUME IInv, IInv', ClaimInv, UNCHANGED call,
           \A c \in Campaigns : /\ row'[c].claimedAt = row[c].claimedAt
                                /\ row'[c].queue = row[c].queue
                                /\ row'[c].event = row[c].event
                                /\ row'[c].status = row[c].status
                                   \/ (row[c].status = "DRAFT" /\ row'[c].status # "DRAFT")
    PROVE  ClaimInv'
<1>1. \A d \in Campaigns : RowSafe(d)
  BY DEF RowSafe, Aged, ClaimInv, ClaimedQueued
<1>2. ASSUME NEW v \in Workers PROVE Undisturbed(v)
  <2>1. call[v].pc \in Sending => call[v].c \in Campaigns BY CallFacts DEF Sending, Holding
  <2> QED BY <2>1 DEF Undisturbed, ClaimInv, HandFresh
<1> QED BY <1>1, <1>2, LayerKeeps

\* A claim grows old only when nobody has its row in hand.
LEMMA ClaimAgesClaims ==
    ASSUME ~SlowSends, IInv, IInv', ClaimInv, NEW c \in Campaigns, ClaimAges(c)
    PROVE  ClaimInv'
<1>1. TypeOK /\ row[c] \in Row /\ ~InHand(c) /\ UNCHANGED call BY DEF IInv, TypeOK, ClaimAges
<1> DEFINE r == [row[c] EXCEPT !.claimedAt = "stale"]
<1>2. r \in Row /\ r.queue = row[c].queue BY <1>1 DEF Row, Ages
<1>3. OneRow(c) /\ row'[c] = r BY <1>1, <1>2, WriteOne DEF ClaimAges
<1> HIDE DEF r
<1>4. row[c].claimedAt = "fresh" /\ "fresh" # None BY NoneIsNone DEF ClaimAges, Ages
<1>5. RowSafe(c) BY <1>2, <1>3, <1>4 DEF RowSafe, Aged, ClaimInv, ClaimedQueued
<1>6. \A d \in Campaigns : RowSafe(d) BY <1>3, <1>5, SameRowSafe DEF OneRow
<1>7. ASSUME NEW v \in Workers PROVE Undisturbed(v)
  <2>1. call[v].pc \in Sending => call[v].c \in Campaigns /\ call[v].c # c
    BY <1>1, CallFacts DEF Sending, Holding, InHand
  <2> QED BY <1>1, <1>3, <2>1 DEF Undisturbed, OneRow
<1> QED BY <1>6, <1>7, LayerKeeps

LEMMA DayClaims ==
    ASSUME ~SlowSends, IInv, IInv', ClaimInv, DayStep \/ UNCHANGED vars
    PROVE  ClaimInv'
<1>0. row \in [Campaigns -> Row] BY DEF IInv, TypeOK
<1>1. CASE Expire
  <2>1. UNCHANGED call /\ \A c \in Campaigns :
           \/ row'[c] = row[c]
           \/ row[c].status = "DRAFT" /\ row'[c] = [row[c] EXCEPT !.status = "EXPIRED"]
    BY <1>1 DEF Expire
  <2>2. ASSUME NEW c \in Campaigns
        PROVE  /\ row'[c].claimedAt = row[c].claimedAt /\ row'[c].queue = row[c].queue
               /\ row'[c].event = row[c].event
               /\ row'[c].status = row[c].status
                  \/ (row[c].status = "DRAFT" /\ row'[c].status # "DRAFT")
    <3>1. row[c] \in Row BY <1>0
    <3> QED BY <2>1, <3>1 DEF Row
  <2> QED BY <2>1, <2>2, StillSafe
<1>2. CASE SpacingPasses \/ HoursPass \/ UNCHANGED vars
  <2>1. UNCHANGED <<row, call>> BY <1>2 DEF SpacingPasses, HoursPass, vars
  <2> QED BY <2>1, StillSafe
<1>3. CASE Midnight
  <2>1. UNCHANGED call BY <1>3 DEF Midnight
  <2>2. ASSUME NEW c \in Campaigns
        PROVE  /\ row'[c].claimedAt = row[c].claimedAt /\ row'[c].queue = row[c].queue
               /\ row'[c].event = row[c].event /\ row'[c].status = row[c].status
    <3>1. row[c] \in Row BY <1>0
    <3>2. row'[c] = row[c] \/ \E a \in {"yesterday", "earlier"} :
             row'[c] = [row[c] EXCEPT !.createdAt = a]
      <4>1. CASE ~Exists(c) BY <1>3, <4>1 DEF Midnight
      <4>2. CASE Exists(c) BY <1>3, <4>2 DEF Midnight
      <4> QED BY <4>1, <4>2
    <3> QED BY <3>1, <3>2 DEF Row
  <2> QED BY <2>1, <2>2, StillSafe
<1>4. ASSUME NEW c \in Campaigns, TimeComes(c) PROVE ClaimInv'
  <2>1. UNCHANGED call /\ \A d \in Campaigns :
           row'[d] \in {row[d], [row[d] EXCEPT !.scheduledAt = "due"]}
    BY <1>0, <1>4 DEF TimeComes, Write
  <2>2. ASSUME NEW d \in Campaigns
        PROVE  /\ row'[d].claimedAt = row[d].claimedAt /\ row'[d].queue = row[d].queue
               /\ row'[d].event = row[d].event /\ row'[d].status = row[d].status
    <3>1. row[d] \in Row BY <1>0
    <3> QED BY <2>1, <3>1 DEF Row
  <2> QED BY <2>1, <2>2, StillSafe
<1> QED BY <1>1, <1>2, <1>3, <1>4, ClaimAgesClaims DEF DayStep
-----------------------------------------------------------------------------
(* Theorems                                                                *)

LEMMA InitClaims == Init => ClaimInv
<1> SUFFICES ASSUME Init PROVE ClaimInv OBVIOUS
<1>1. \A w \in Workers : call[w].pc = "idle" /\ call[w].list = {} BY NoneFacts DEF Init
<1>2. \A c \in Campaigns : row[c].claimedAt = None BY DEF Init, NoRow
<1>3. \A p \in Pacers : p \in Workers BY PacerKinds
<1> QED BY <1>1, <1>2, <1>3
    DEF ClaimInv, HoldersAlone, ClaimedQueued, HandFresh, RecoveryRight, Holding, Sending

LEMMA NextClaims ==
    ASSUME Captures, ~SlowSends, IInv, ClaimInv, [Next]_vars
    PROVE  ClaimInv'
<1>0. IInv' BY NextHolds
<1>1. ASSUME NEW p \in Pacers, Tick(p) \/ PacerStep(p) PROVE ClaimInv'
  BY <1>0, <1>1, TickClaims, RecoverReadClaims, RecoverCloseClaims, GateClaims, SelectClaims,
     BackfillSelectClaims, ClaimClaims DEF PacerStep
<1>2. ASSUME NEW s \in Sweepers, Sweep(s) \/ SweepNext(s) PROVE ClaimInv'
  BY <1>0, <1>2, SweepClaims
<1>3. ASSUME NEW d \in Desks,
             PostSend(d) \/ PollDispatch(d) \/ ReviewClaim(d) \/ QueuePush(d) \/ DeskStep(d)
      PROVE  ClaimInv'
  BY <1>0, <1>3, NoDispatch, PostSendClaims, ReviewClaimClaims, QueuePushClaims, CreateClaims,
     DeskClaims DEF DeskStep
<1>4. ASSUME NEW w \in Workers, SendStep(w) \/ Push(w) \/ Flush(w) \/ Crash(w) PROVE ClaimInv'
  BY <1>0, <1>4, SendStepClaims, FlushClaims, StopClaims
<1>5. ASSUME DayStep \/ UNCHANGED vars PROVE ClaimInv'
  BY <1>0, <1>5, DayClaims
<1> QED BY <1>0, <1>1, <1>2, <1>3, <1>4, <1>5, CaptureClaims DEF Next

\* For any number of rows, pacers, sweepers, requests, crashes and midnights, where the
\* poller captures and sends end within the half hour: fresh claims are live workers',
\* stale ones nobody's.
THEOREM ClaimsHold ==
    ASSUME Captures, ~SlowSends
    PROVE  Spec => []ClaimInv
<1>1. IInv /\ ClaimInv /\ [Next]_vars => ClaimInv' BY NextClaims
<1> QED BY <1>1, InitClaims, Invariance, PTL DEF Spec

\* A row claimed by the pacer or by Push now stays SCHEDULED in its claimer's hands, so
\* no recovery, sweeper, retention or second claim touches it.
THEOREM ClaimIsKept ==
    ASSUME Captures
    PROVE  Spec => []ClaimedIsKept
<1>1. CASE SlowSends
  <2>1. ClaimedIsKept BY <1>1 DEF ClaimedIsKept
  <2> QED BY <2>1, PTL
<1>2. CASE ~SlowSends
  <2>1. ClaimInv => ClaimedIsKept BY DEF ClaimInv, HandFresh, Sending, ClaimedIsKept
  <2>2. Spec => []ClaimInv BY <1>2, ClaimsHold
  <2> QED BY <2>1, <2>2, PTL
<1> QED BY <1>1, <1>2

\* Recovery calls a stranded campaign FAILED only if no delivery is on record.
THEOREM FailedNeverDelivered ==
    ASSUME Captures, ~SlowSends
    PROVE  Spec => FailedIsUndelivered
<1>1. ASSUME IInv, ClaimInv, NEW p \in Pacers, NEW c \in Campaigns, RecoverClose(p),
             row[c].status = "SCHEDULED", row'[c].status = "FAILED"
      PROVE  ~row[c].event
  <2> PICK d : d = call[p].c OBVIOUS
  <2>1. TypeOK /\ d \in Campaigns
    BY <1>1, PacerKinds, CallFacts DEF MemoryOf, RecoverClose, At
  <2>2. SetStatus(d, IF call[p].delivered THEN "SENT" ELSE "FAILED")
    BY <1>1 DEF RecoverClose
  <2>3. c = d BY <1>1, <2>1, <2>2 DEF SetStatus, Write, TypeOK
  <2>4. CASE call[p].delivered
    <3>1. row'[d].status = "SENT" BY <2>1, <2>2, <2>4, StatusWritten DEF Statuses
    <3> QED BY <1>1, <2>3, <3>1
  <2>5. CASE ~call[p].delivered
    BY <1>1, <2>3, <2>5 DEF ClaimInv, RecoveryRight, RecoverClose, At
  <2> QED BY <2>4, <2>5
<1>2. IInv /\ ClaimInv /\ [Next]_vars
         => [\A p \in Pacers, c \in Campaigns :
                RecoverClose(p) /\ row[c].status = "SCHEDULED" /\ row'[c].status = "FAILED"
                    => ~row[c].event]_vars
  BY <1>1
<1> QED BY <1>2, Invariance, ClaimsHold, PTL DEF Spec, FailedIsUndelivered, FailedStep

-----------------------------------------------------------------------------
(***************************************************************************)
(* One pacer, while nobody but it sends: the day's ceiling is kept, and    *)
(* the morning backfill uses no article that went out today.  Both rest on *)
(* what the pacer read before it claimed, which stays true because rows    *)
(* keep their article, and because claims and events since midnight are    *)
(* its own.                                                                *)
(***************************************************************************)

\* Rows keep existing, with their article and without a time.
Calm ==
    \A c \in Campaigns :
        /\ row'[c].scheduledAt = None
        /\ Exists(c) => row'[c].status # None /\ row'[c].url = row[c].url

\* One row is written.
LEMMA CalmWrite ==
    ASSUME TypeOK, OthersQuiet, NEW d \in Campaigns, NEW r \in Row, Write(d, r),
           r.scheduledAt = None, Exists(d) => r.status # None /\ r.url = row[d].url
    PROVE  Calm
<1>1. OneRow(d) /\ row'[d] = r BY WriteOne
<1> QED BY <1>1 DEF Calm, OneRow, OthersQuiet, Exists

LEMMA CalmStatus ==
    ASSUME TypeOK, OthersQuiet, NEW d \in Campaigns, NEW s \in Statuses, SetStatus(d, s)
    PROVE  Calm
<1> DEFINE r == [row[d] EXCEPT !.status = s]
<1>1. row[d] \in Row BY DEF TypeOK
<1>2. /\ r \in Row /\ r.status = s /\ r.url = row[d].url /\ s # None
      /\ r.scheduledAt = row[d].scheduledAt
  BY <1>1, NoneIsNone DEF Row
<1>3. Write(d, r) BY DEF SetStatus
<1> HIDE DEF r
<1> QED BY <1>2, <1>3, CalmWrite DEF OthersQuiet

LEMMA CalmSame ==
    ASSUME OthersQuiet, UNCHANGED row
    PROVE  Calm
BY DEF Calm, OthersQuiet, Exists

\* A claim, by the pacer.
LEMMA CalmClaim ==
    ASSUME TypeOK, OthersQuiet, NEW c \in Campaigns, Write(c, Claimed(c))
    PROVE  Calm
<1>1. row[c] \in Row BY DEF TypeOK
<1>2. /\ Claimed(c) \in Row /\ Claimed(c).status = "SCHEDULED" /\ Claimed(c).url = row[c].url
      /\ Claimed(c).scheduledAt = row[c].scheduledAt
  BY <1>1 DEF Claimed, Row, Statuses, Ages
<1> QED BY <1>2, NoneIsNone, CalmWrite DEF OthersQuiet, Statuses

\* A row is born.
LEMMA CalmBirth ==
    ASSUME TypeOK, OthersQuiet, NEW m \in Free, NEW r \in Row, r.scheduledAt = None, Write(m, r)
    PROVE  Calm
BY CalmWrite DEF Free

\* Who sends is the pacer.
LEMMA OnlyPacersSend ==
    ASSUME OthersQuiet, NEW w \in Workers, call[w].pc \in {"link", "send", "sending"}
    PROVE  w \in Pacers
BY DEF OthersQuiet, Workers

\* The clone of a row is a row without a time.
LEMMA CloneTyped ==
    ASSUME TypeOK, NEW c \in Campaigns
    PROVE  /\ CloneForResend(c) \in Row /\ CloneForResend(c).scheduledAt = None
           /\ CloneForResend(c).url = row[c].url /\ CloneForResend(c).status = "DRAFT"
<1> DEFINE b == Draft(row[c].url, row[c].queue, None)
<1>1. row[c] \in Row BY DEF TypeOK
<1>2. b \in Row /\ b.scheduledAt = None /\ b.url = row[c].url /\ b.status = "DRAFT"
  BY <1>1, DraftTyped DEF Row
<1>3. CloneForResend(c) = [b EXCEPT !.createdAt = row[c].createdAt] BY DEF CloneForResend
<1> HIDE DEF b
<1> QED BY <1>1, <1>2, <1>3 DEF Row

\* Steps of the pacer.
LEMMA CalmPacer ==
    ASSUME IInv, OthersQuiet, NEW p \in Pacers, Tick(p) \/ PacerStep(p)
    PROVE  Calm
<1>1. TypeOK /\ p \in Workers /\ call[p] \in Call BY PacerKinds, CallFacts
<1>2. CASE RecoverClose(p)
  <2> PICK c : c = call[p].c OBVIOUS
  <2>1. c \in Campaigns BY <1>1, <1>2, CallFacts DEF MemoryOf, RecoverClose, At
  <2>2. UNCHANGED row \/ \E s \in {"SENT", "FAILED"} : SetStatus(c, s)
    BY <1>2 DEF RecoverClose
  <2> QED BY <1>1, <2>1, <2>2, CalmSame, CalmStatus DEF Statuses
<1>3. CASE BackfillSelect(p)
  <2>1. UNCHANGED row \/ \E c \in Campaigns, m \in Free : Write(m, CloneForResend(c))
    BY <1>3 DEF BackfillSelect, Backfillable, Yesterdays
  <2> QED BY <1>1, <2>1, CloneTyped, CalmBirth, CalmSame
<1>4. CASE Claim(p)
  <2> PICK c : c = call[p].c OBVIOUS
  <2>1. c \in Campaigns BY <1>1, <1>4, CallFacts DEF MemoryOf, Claim, At
  <2>2. UNCHANGED row \/ Write(c, Claimed(c)) BY <1>4 DEF Claim
  <2> QED BY <1>1, <2>1, <2>2, CalmSame, CalmClaim
<1>5. CASE Tick(p) \/ RecoverRead(p) \/ Gate(p) \/ Select(p)
  BY <1>5, CalmSame DEF Tick, RecoverRead, Gate, Select
<1> QED BY <1>2, <1>3, <1>4, <1>5 DEF PacerStep

\* Steps of editors and of the poller.
LEMMA CalmDesk ==
    ASSUME IInv, OthersQuiet, NEW d \in Desks, ReviewClaim(d) \/ Promote(d)
    PROVE  Calm
<1>1. TypeOK /\ d \in Workers BY PacerKinds DEF IInv
<1>2. CASE ReviewClaim(d)
  <2>1. PICK c \in Campaigns : Write(c, [row[c] EXCEPT !.reviewed = TRUE])
    BY <1>2 DEF ReviewClaim
  <2> DEFINE r == [row[c] EXCEPT !.reviewed = TRUE]
  <2>2. row[c] \in Row BY <1>1 DEF TypeOK
  <2>3. /\ r \in Row /\ r.status = row[c].status /\ r.url = row[c].url
        /\ r.scheduledAt = row[c].scheduledAt
    BY <2>2 DEF Row
  <2> HIDE DEF r
  <2> QED BY <1>1, <2>1, <2>3, CalmWrite DEF r, OthersQuiet, Exists
<1>3. CASE Promote(d)
  <2> PICK c : c = call[d].c OBVIOUS
  <2>1. c \in Campaigns /\ Write(c, [row[c] EXCEPT !.queue = "QUALIFIED"])
    BY <1>1, <1>3, CallFacts DEF MemoryOf, Promote, At, Holding
  <2> DEFINE r == [row[c] EXCEPT !.queue = "QUALIFIED"]
  <2>2. row[c] \in Row BY <1>1, <2>1 DEF TypeOK
  <2>3. /\ r \in Row /\ r.status = row[c].status /\ r.url = row[c].url
        /\ r.scheduledAt = row[c].scheduledAt
    BY <2>2 DEF Row, Queues
  <2> HIDE DEF r
  <2> QED BY <1>1, <2>1, <2>3, CalmWrite DEF r, OthersQuiet, Exists
<1> QED BY <1>2, <1>3

LEMMA CalmCapture ==
    ASSUME IInv, OthersQuiet, PollCapture
    PROVE  Calm
<1>1. PICK m \in Free, u \in Urls, q \in Queues : Write(m, Draft(u, q, None))
  BY DEF PollCapture
<1>2. Draft(u, q, None) \in Row /\ Draft(u, q, None).scheduledAt = None BY DraftTyped
<1> QED BY <1>1, <1>2, CalmBirth DEF IInv

\* Steps of a send.
LEMMA CalmSend ==
    ASSUME IInv, OthersQuiet, NEW w \in Workers, SendStep(w) \/ Push(w) \/ Flush(w) \/ Crash(w)
    PROVE  Calm
<1>1. TypeOK BY DEF IInv
<1>2. ASSUME UNCHANGED row PROVE Calm BY <1>2, CalmSame
<1>3. ASSUME call[w].pc \in Holding, NEW s \in Statuses, SetStatus(call[w].c, s) PROVE Calm
  BY <1>1, <1>3, CallFacts, CalmStatus
<1>4. CASE Flush(w)
  <2> PICK c : c = call[w].c OBVIOUS
  <2>1. c \in Campaigns /\ Write(c, [row[c] EXCEPT !.event = TRUE])
    BY <1>4, CallFacts DEF Flush, At, Holding
  <2> DEFINE r == [row[c] EXCEPT !.event = TRUE]
  <2>2. row[c] \in Row BY <1>1, <2>1 DEF TypeOK
  <2>3. /\ r \in Row /\ r.status = row[c].status /\ r.url = row[c].url
        /\ r.scheduledAt = row[c].scheduledAt
    BY <2>2 DEF Row
  <2> HIDE DEF r
  <2> QED BY <1>1, <2>1, <2>3, CalmWrite DEF r, OthersQuiet, Exists
<1> QED
  BY <1>2, <1>3, <1>4
  DEF SendStep, CheckLink, FanOut, Sent, Fails, Push, Crash, At, Holding, Statuses

\* The clock and retention.
LEMMA CalmDay ==
    ASSUME IInv, OthersQuiet, DayStep \/ UNCHANGED vars
    PROVE  Calm
<1>1. row \in [Campaigns -> Row] /\ TypeOK BY DEF IInv, TypeOK
<1>2. CASE Expire
  <2>1. ASSUME NEW c \in Campaigns
        PROVE  row'[c] = row[c] \/ row'[c] = [row[c] EXCEPT !.status = "EXPIRED"]
    BY <1>2 DEF Expire
  <2>2. ASSUME NEW c \in Campaigns
        PROVE  /\ row'[c].scheduledAt = None
               /\ Exists(c) => row'[c].status # None /\ row'[c].url = row[c].url
    <3>1. row[c] \in Row BY <1>1
    <3> QED BY <2>1, <3>1, NoneIsNone DEF Row, OthersQuiet, Exists, Statuses
  <2> QED BY <2>2 DEF Calm
<1>3. CASE Midnight
  <2>1. ASSUME NEW c \in Campaigns
        PROVE  row'[c] = row[c] \/ \E a \in {"yesterday", "earlier"} :
                  row'[c] = [row[c] EXCEPT !.createdAt = a]
    <3>1. CASE ~Exists(c) BY <1>3, <3>1 DEF Midnight
    <3>2. CASE Exists(c) BY <1>3, <3>2 DEF Midnight
    <3> QED BY <3>1, <3>2
  <2>2. ASSUME NEW c \in Campaigns
        PROVE  /\ row'[c].scheduledAt = None
               /\ Exists(c) => row'[c].status # None /\ row'[c].url = row[c].url
    <3>1. row[c] \in Row BY <1>1
    <3> QED BY <2>1, <3>1 DEF Row, OthersQuiet, Exists
  <2> QED BY <2>2 DEF Calm
<1>4. ASSUME NEW c \in Campaigns, ClaimAges(c) PROVE Calm
  <2> DEFINE r == [row[c] EXCEPT !.claimedAt = "stale"]
  <2>1. /\ r \in Row /\ r.status = row[c].status /\ r.url = row[c].url
        /\ r.scheduledAt = row[c].scheduledAt
    BY <1>1 DEF Row, Ages
  <2>2. Write(c, r) BY <1>4 DEF ClaimAges
  <2> HIDE DEF r
  <2> QED BY <1>1, <2>1, <2>2, CalmWrite DEF OthersQuiet, Exists
<1>5. ASSUME NEW c \in Campaigns PROVE ~TimeComes(c)
  BY NoneIsNone DEF TimeComes, OthersQuiet, Times
<1>6. CASE SpacingPasses \/ HoursPass \/ UNCHANGED vars
  BY <1>6, CalmSame DEF SpacingPasses, HoursPass, vars
<1> QED BY <1>2, <1>3, <1>4, <1>5, <1>6 DEF DayStep
-----------------------------------------------------------------------------
(* Who moves                                                               *)

\* A worker moves, the others do not.
LEMMA GotoOthers ==
    ASSUME TypeOK, NEW w \in Workers, NEW n, Goto(w, n)
    PROVE  call'[w] = n /\ \A v \in Workers : v # w => call'[v] = call[v]
BY DEF TypeOK, Goto

\* A step of the pacer, in its cron or in its send.
PacerMoves(p) == \/ Tick(p) \/ PacerStep(p) \/ SendStep(p) \/ Flush(p) \/ Crash(p)

\* A step of another party leaves the pacer and the day's counts alone.
Elsewhere ==
    /\ \A p \in Pacers : call'[p] = call[p]
    /\ UNCHANGED <<sentToday, claimedToday, outToday, outs>>

LEMMA PacerGoes ==
    ASSUME TypeOK, NEW p \in Pacers, PacerMoves(p)
    PROVE  \A v \in Workers : v # p => call'[v] = call[v]
<1>1. UNCHANGED call \/ \E n : Goto(p, n)
  BY DEF PacerMoves, PacerStep, SendStep, Tick, RecoverRead, RecoverClose, Gate, Select,
     BackfillSelect, Claim, Pick, Carryover, CheckLink, FanOut, Sent, Fails, Done, Flush, Crash
<1> QED BY <1>1, PacerKinds, GotoOthers

\* What is possible while nobody but the pacer sends.
LEMMA WhoMoves ==
    ASSUME PacerAlone, Captures, IInv, OthersQuiet, [Next]_vars
    PROVE  Calm /\ OthersQuiet' /\ (Elsewhere \/ Midnight \/ \E p \in Pacers : PacerMoves(p))
<1>0. TypeOK BY DEF IInv
<1>a. ASSUME Calm, \A v \in Workers \ Pacers : call'[v] = call[v] PROVE OthersQuiet'
  BY <1>a, PacerKinds DEF Calm, OthersQuiet
<1>1. ASSUME NEW p \in Pacers, PacerMoves(p)
      PROVE  Calm /\ OthersQuiet' /\ \E q \in Pacers : PacerMoves(q)
  <2>1. Calm BY <1>1, CalmPacer, CalmSend, PacerKinds DEF PacerMoves
  <2> QED BY <1>0, <1>1, <1>a, <2>1, PacerGoes
<1>2. ASSUME NEW s \in Sweepers, Sweep(s) \/ SweepNext(s) PROVE Calm /\ OthersQuiet' /\ Elsewhere
  <2>1. s \in Workers /\ s \notin Pacers /\ s \notin Desks BY PacerKinds
  <2>2. Due = {} BY NoneIsNone DEF Due, OthersQuiet, Times
  <2>3. PICK n : Goto(s, n) /\ n.pc \in {"idle", "sweep"} /\ n.list = {}
    <3>1. CASE Sweep(s)
      <4> DEFINE n == [Idle EXCEPT !.pc = "sweep", !.list = Due, !.quiet = Quiet]
      <4>1. n.pc = "sweep" /\ n.list = {} BY <2>2 DEF Idle
      <4> QED BY <3>1, <4>1 DEF Sweep
    <3>2. CASE SweepNext(s) BY <3>2, NoneFacts DEF SweepNext, OthersQuiet
    <3> QED BY <1>2, <3>1, <3>2
  <2>4. UNCHANGED <<row, day, outs>> BY <1>2, <2>2 DEF Sweep, SweepNext, OthersQuiet
  <2>5. call'[s] = n /\ \A v \in Workers : v # s => call'[v] = call[v]
    BY <1>0, <2>1, <2>3, GotoOthers
  <2>6. Elsewhere BY <2>1, <2>4, <2>5, PacerKinds DEF Elsewhere, day
  <2>7. Calm BY <2>4, CalmSame
  <2> QED BY <2>3, <2>5, <2>6, <2>7, PacerKinds DEF OthersQuiet, Calm
<1>3. ASSUME NEW d \in Desks,
             PostSend(d) \/ PollDispatch(d) \/ ReviewClaim(d) \/ QueuePush(d) \/ DeskStep(d)
      PROVE  Calm /\ OthersQuiet' /\ Elsewhere
  <2>1. d \in Workers /\ d \notin Pacers /\ d \notin Sweepers BY PacerKinds
  <2>2. ReviewClaim(d) \/ Promote(d)
    BY <1>3, NoDispatch
    DEF PacerAlone, PostSend, QueuePush, DeskStep, Create, Defer, At, OthersQuiet
  <2>3. Calm BY <2>2, CalmDesk
  <2>4. UNCHANGED call \/ \E n : Goto(d, n) /\ n.pc \in {"idle", "promote"}
    <3>1. CASE Promote(d) BY <3>1, NoneFacts DEF Promote
    <3>2. CASE ReviewClaim(d)
      <4>1. UNCHANGED call \/ \E c \in Campaigns : Goto(d, [Idle EXCEPT !.pc = "promote", !.c = c])
        BY <3>2 DEF ReviewClaim, PacerAlone
      <4>2. \A c : [Idle EXCEPT !.pc = "promote", !.c = c].pc = "promote" BY DEF Idle
      <4> QED BY <4>1, <4>2
    <3> QED BY <2>2, <3>1, <3>2
  <2>5. UNCHANGED <<day, outs>> BY <2>2 DEF ReviewClaim, Promote
  <2>6. /\ call'[d] = call[d] \/ call'[d].pc \in {"idle", "promote"}
        /\ \A v \in Workers : v # d => call'[v] = call[v]
    BY <1>0, <2>1, <2>4, GotoOthers
  <2>7. Elsewhere BY <2>1, <2>5, <2>6, PacerKinds DEF Elsewhere, day
  <2> QED BY <2>3, <2>6, <2>7, PacerKinds DEF OthersQuiet, Calm
<1>4. ASSUME PollCapture PROVE Calm /\ OthersQuiet' /\ Elsewhere
  <2>1. UNCHANGED <<call, day, outs>> BY <1>4 DEF PollCapture
  <2> QED BY <1>4, <2>1, <1>a, CalmCapture, PacerKinds DEF Elsewhere, day
<1>5. ASSUME NEW w \in Workers, SendStep(w) \/ Flush(w)
      PROVE  w \in Pacers /\ PacerMoves(w)
  BY <1>5, OnlyPacersSend
  DEF PacerMoves, SendStep, CheckLink, FanOut, Sent, Fails, Flush, At
<1>6. ASSUME NEW w \in Workers, Push(w) PROVE Calm /\ OthersQuiet' /\ Elsewhere
  <2>1. UNCHANGED <<row, call, day, outs>> BY <1>6 DEF Push
  <2> QED BY <2>1, <1>a, CalmSame, PacerKinds DEF Elsewhere, day
<1>7. ASSUME NEW w \in Workers \ Pacers, Crash(w) PROVE Calm /\ OthersQuiet' /\ Elsewhere
  <2>1. UNCHANGED <<row, day, outs>> /\ Goto(w, Idle) BY <1>7 DEF Crash
  <2>2. call'[w] = Idle /\ \A v \in Workers : v # w => call'[v] = call[v]
    BY <1>0, <2>1, GotoOthers
  <2>3. Elsewhere BY <2>1, <2>2, PacerKinds DEF Elsewhere, day
  <2>4. Calm BY <2>1, CalmSame
  <2> QED BY <2>1, <2>2, <2>3, <2>4, NoneFacts, PacerKinds DEF OthersQuiet
<1>8. ASSUME DayStep \/ UNCHANGED vars PROVE Calm /\ OthersQuiet' /\ (Elsewhere \/ Midnight)
  <2>1. UNCHANGED call
    BY <1>8 DEF DayStep, vars, Expire, SpacingPasses, HoursPass, Midnight, TimeComes, ClaimAges
  <2>2. Midnight \/ UNCHANGED <<day, outs>>
    BY <1>8 DEF DayStep, vars, Expire, SpacingPasses, HoursPass, TimeComes, ClaimAges, day
  <2> QED BY <1>8, <1>a, <2>1, <2>2, CalmDay, PacerKinds DEF Elsewhere, day
<1>9. ASSUME NEW p \in Pacers, Crash(p) PROVE PacerMoves(p) BY <1>9 DEF PacerMoves
<1>10. ASSUME NEW p \in Pacers, Tick(p) \/ PacerStep(p) PROVE PacerMoves(p)
  BY <1>10 DEF PacerMoves
<1> QED
  BY <1>1, <1>2, <1>3, <1>4, <1>5, <1>6, <1>7, <1>8, <1>9, <1>10 DEF Next
-----------------------------------------------------------------------------
(* The ceiling                                                             *)

\* Where the pacer's steps lead: it releases only past an open gate, and sends what it
\* has in hand.
LEMMA PacerPath ==
    ASSUME IInv, NEW p \in Pacers, PacerMoves(p)
    PROVE  /\ call'[p].pc \in Releasing =>
                 call[p].pc \in Releasing \/ Cardinality(sentToday) < Ceiling
           /\ call'[p].pc = "sending" => call[p].pc \in {"send", "sending"} /\ call'[p].c = call[p].c
<1>0. TypeOK /\ p \in Workers /\ call[p] \in Call BY PacerKinds, CallFacts
<1>1. CASE UNCHANGED call BY <1>1 DEF Releasing
<1>3. ASSUME NEW n, Goto(p, n), n.pc \in Steps \ (Releasing \cup {"sending"})
      PROVE  call'[p].pc \notin Releasing \cup {"sending"}
  BY <1>0, <1>3, GotoOthers
<1>4. CASE Tick(p)
  <2>1. [Idle EXCEPT !.pc = "recover", !.list = Stranded].pc = "recover" BY DEF Idle
  <2> QED BY <1>3, <1>4, <2>1 DEF Tick, Steps, Releasing
<1>5. CASE RecoverRead(p)
  <2>1. PICK c \in call[p].list :
           Goto(p, [call[p] EXCEPT !.pc = "close", !.c = c, !.list = @ \ {c},
                                   !.delivered = row[c].event])
    BY <1>5 DEF RecoverRead
  <2> DEFINE n == [call[p] EXCEPT !.pc = "close", !.c = c, !.list = @ \ {c},
                                  !.delivered = row[c].event]
  <2>2. n.pc = "close" BY <1>0 DEF Call
  <2> QED BY <1>3, <2>1, <2>2 DEF Steps, Releasing
<1>6. CASE RecoverClose(p)
  <2> DEFINE n == [call[p] EXCEPT !.pc = "recover", !.c = None]
  <2>1. n.pc = "recover" BY <1>0 DEF Call
  <2>2. Goto(p, n) BY <1>6 DEF RecoverClose
  <2> QED BY <1>3, <2>1, <2>2 DEF Steps, Releasing
<1>7. CASE Gate(p)
  <2>1. CASE GateOpen
    <3>1. call'[p] = [call[p] EXCEPT !.pc = "select"] BY <1>0, <1>7, <2>1, GotoOthers DEF Gate
    <3> QED BY <1>0, <2>1, <3>1 DEF GateOpen, Call
  <2>2. CASE ~GateOpen BY <1>3, <1>7, <2>2, NoneFacts DEF Gate, Steps, Releasing
  <2> QED BY <2>1, <2>2
<1>9. CASE Select(p) \/ BackfillSelect(p) \/ Claim(p)
  <2>1. call[p].pc \in Releasing BY <1>9 DEF Select, BackfillSelect, Claim, At, Releasing
  <2>2. \/ Goto(p, Idle) \/ Goto(p, [call[p] EXCEPT !.pc = "link"])
        \/ \E c, b : Goto(p, [call[p] EXCEPT !.pc = "claim", !.c = c, !.backfill = b])
        \/ Goto(p, [call[p] EXCEPT !.pc = "backfill", !.used = UsedToday])
    BY <1>9 DEF Select, BackfillSelect, Claim, Pick, Carryover
  <2>3. ASSUME NEW n, Goto(p, n), n.pc # "sending" PROVE call'[p].pc # "sending"
    BY <1>0, <2>3, GotoOthers
  <2>4. \A c, b : [call[p] EXCEPT !.pc = "claim", !.c = c, !.backfill = b].pc = "claim"
    BY <1>0 DEF Call
  <2>5. /\ [call[p] EXCEPT !.pc = "link"].pc = "link" /\ Idle.pc = "idle"
        /\ [call[p] EXCEPT !.pc = "backfill", !.used = UsedToday].pc = "backfill"
    BY <1>0, NoneFacts DEF Call
  <2> QED BY <2>1, <2>2, <2>3, <2>4, <2>5
<1>10. CASE CheckLink(p)
  <2>1. call[p].pc \in Releasing BY <1>10 DEF CheckLink, At, Releasing
  <2>2. CASE Done(p) BY <1>0, <1>10, <2>1, <2>2, DoneMoves DEF CheckLink, At, Holding
  <2>3. CASE Goto(p, [call[p] EXCEPT !.pc = "send"])
    <3>1. call'[p] = [call[p] EXCEPT !.pc = "send"] BY <1>0, <2>3, GotoOthers
    <3> QED BY <1>0, <2>1, <3>1 DEF Call
  <2> QED BY <1>10, <2>2, <2>3 DEF CheckLink
<1>11. CASE FanOut(p)
  <2>1. call'[p] = [call[p] EXCEPT !.pc = "sending"] BY <1>0, <1>11, GotoOthers DEF FanOut
  <2> QED BY <1>0, <1>11, <2>1 DEF FanOut, At, Call, Releasing
<1>12. CASE Sent(p) \/ Fails(p)
  <2>1. call[p].pc \in Holding /\ Done(p) BY <1>12 DEF Sent, Fails, At, Holding
  <2> QED BY <1>0, <2>1, DoneMoves DEF Releasing
<1>13. CASE Crash(p) BY <1>3, <1>13, NoneFacts DEF Crash, Steps, Releasing
<1>14. CASE Flush(p)
  <2>1. UNCHANGED call /\ call[p].pc = "sending" BY <1>14 DEF Flush, At
  <2> QED BY <2>1 DEF Releasing
<1> QED
  BY <1>4, <1>5, <1>6, <1>7, <1>9, <1>10, <1>11, <1>12, <1>13, <1>14
  DEF PacerMoves, PacerStep, SendStep

\* The events of a batch count the campaign in hand, once.
LEMMA PacerCounts ==
    ASSUME PacerAlone, IInv, CeilingInv, NEW p \in Pacers, PacerMoves(p)
    PROVE  CeilingInv'
<1>0. /\ Cardinality(sentToday) \in Nat /\ Ceiling \in Nat /\ \A q \in Pacers : q = p
      /\ IsFiniteSet(sentToday) /\ Cardinality(sentToday) <= Ceiling /\ Counted(call[p])
  BY ConstantsOK, FS_CardinalityType DEF CeilingInv, ConstantsOK, PacerAlone
<1>1. CASE Flush(p)
  <2> PICK c : c = call[p].c OBVIOUS
  <2>1. /\ call[p].pc = "sending" /\ UNCHANGED call /\ sentToday' = sentToday \cup {c}
        /\ Ceiling > 0 /\ (c \in sentToday \/ Cardinality(sentToday) < Ceiling)
    BY <1>0, <1>1 DEF Flush, At, Counted
  <2>2. /\ IsFiniteSet(sentToday')
        /\ Cardinality(sentToday') =
              IF c \in sentToday THEN Cardinality(sentToday) ELSE Cardinality(sentToday) + 1
    BY <1>0, <2>1, FS_AddElement
  <2>3. Cardinality(sentToday') <= Ceiling BY <1>0, <2>1, <2>2
  <2>4. Counted(call[p])' BY <2>1 DEF Counted, Releasing
  <2> QED BY <1>0, <2>2, <2>3, <2>4 DEF CeilingInv
<1>2. CASE ~Flush(p)
  <2>1. sentToday' = sentToday
    BY <1>2 DEF PacerMoves, PacerStep, SendStep, Tick, RecoverRead, RecoverClose, Gate, Select,
       BackfillSelect, Claim, CheckLink, FanOut, Sent, Fails, Crash, day
  <2>2. CASE call'[p].pc \in Releasing
    BY <1>0, <2>1, <2>2, PacerPath DEF CeilingInv, Counted, Releasing
  <2>3. CASE call'[p].pc = "sending"
    BY <1>0, <2>1, <2>3, PacerPath DEF CeilingInv, Counted, Releasing
  <2>4. CASE call'[p].pc \notin Releasing \cup {"sending"}
    BY <1>0, <2>1, <2>4 DEF CeilingInv, Counted
  <2> QED BY <2>2, <2>3, <2>4
<1> QED BY <1>1, <1>2

\* Midnight starts the count afresh while at most a send is under way.
LEMMA MidnightCounts ==
    ASSUME CeilingInv, Midnight
    PROVE  CeilingInv'
<1>1. sentToday' = {} /\ UNCHANGED call BY DEF Midnight
<1>2. IsFiniteSet({}) /\ Cardinality({}) = 0 /\ Ceiling \in Nat
  BY FS_EmptySet, ConstantsOK DEF ConstantsOK
<1>3. ASSUME NEW p \in Pacers PROVE Counted(call[p])'
  BY <1>1, <1>2 DEF CeilingInv, Counted, Midnight, Releasing
<1> QED BY <1>1, <1>2, <1>3 DEF CeilingInv

\* One pacer alone keeps the channel's daily ceiling.
THEOREM CeilingKept ==
    ASSUME Captures, PacerAlone
    PROVE  Spec => []WithinCeiling
<1> DEFINE J == IInv /\ OthersQuiet /\ CeilingInv
<1>1. Init => J
  <2> SUFFICES ASSUME Init PROVE J OBVIOUS
  <2>1. IInv BY InitHolds
  <2>2. \A w \in Workers : call[w] = Idle BY DEF Init
  <2>3. OthersQuiet BY <2>2, NoneFacts, PacerKinds DEF Init, OthersQuiet
  <2>4. sentToday = {} /\ IsFiniteSet({}) /\ Cardinality({}) = 0 /\ Ceiling \in Nat
    BY FS_EmptySet, ConstantsOK DEF ConstantsOK, Init
  <2>5. CeilingInv BY <2>2, <2>4, NoneFacts, PacerKinds DEF CeilingInv, Counted, Releasing
  <2> QED BY <2>1, <2>3, <2>5
<1>2. J /\ [Next]_vars => J'
  <2> SUFFICES ASSUME J, [Next]_vars PROVE J' OBVIOUS
  <2>1. IInv' BY NextHolds
  <2>2. Calm /\ OthersQuiet' /\ (Elsewhere \/ Midnight \/ \E p \in Pacers : PacerMoves(p)) BY WhoMoves
  <2>3. ASSUME Elsewhere PROVE CeilingInv'
    <3>1. sentToday' = sentToday /\ \A p \in Pacers : call'[p] = call[p] BY <2>3 DEF Elsewhere
    <3> QED BY <3>1 DEF CeilingInv, Counted
  <2>4. CeilingInv' BY <2>2, <2>3, PacerCounts, MidnightCounts
  <2> QED BY <2>1, <2>2, <2>4
<1>3. J => WithinCeiling BY DEF CeilingInv, WithinCeiling
<1> QED BY <1>1, <1>2, <1>3, PTL DEF Spec
-----------------------------------------------------------------------------
(* Re-sends                                                                *)

\* The day's claims and sends are as before, and the pacer holds no pick.
LEMMA NoPick ==
    ASSUME PacerAlone, IInv, ResendInv, Calm, NEW p \in Pacers,
           UNCHANGED <<claimedToday, outToday, outs>>,
           call'[p].pc \notin {"backfill", "claim", "link", "send"}
    PROVE  ResendInv'
<1>1. Unused(call[p])' BY DEF Unused
<1>2. \A q \in Pacers : q = p BY DEF PacerAlone
<1>3. \A c \in claimedToday : c \in Campaigns BY DEF IInv, TypeOK
<1> QED BY <1>1, <1>2, <1>3 DEF ResendInv, Calm, Exists, Unused

\* What was used today is not what is picked now.
LEMMA NewPick ==
    ASSUME PacerAlone, IInv, ResendInv, Calm, NEW p \in Pacers,
           UNCHANGED <<claimedToday, outToday, outs>>, call'[p].pc = "claim",
           call'[p].backfill => \A d \in claimedToday : row[d].url # row'[call'[p].c].url
    PROVE  ResendInv'
<1>1. \A c \in claimedToday : c \in Campaigns /\ Exists(c) BY DEF IInv, TypeOK, ResendInv
<1>2. Unused(call[p])' BY <1>1 DEF Unused, Calm
<1>3. \A q \in Pacers : q = p BY DEF PacerAlone
<1> QED BY <1>1, <1>2, <1>3 DEF ResendInv, Calm, Exists

\* The record of a pick.
LEMMA PickRecord ==
    ASSUME IInv, NEW p \in Pacers, NEW c, NEW b \in BOOLEAN, Pick(p, c, b)
    PROVE  call'[p].pc = "claim" /\ call'[p].c = c /\ (call'[p].backfill <=> b)
<1>1. TypeOK /\ p \in Workers /\ call[p] \in Call BY PacerKinds, CallFacts
<1>2. call'[p] = [call[p] EXCEPT !.pc = "claim", !.c = c, !.backfill = b]
  BY <1>1, GotoOthers DEF Pick
<1> QED BY <1>1, <1>2 DEF Call

LEMMA IdleAgain ==
    ASSUME IInv, NEW w \in Workers, Goto(w, Idle)
    PROVE  call'[w].pc = "idle"
BY NoneFacts, GotoOthers DEF IInv

\* A choice of selectNext is no re-send.
LEMMA CarryoverUnused ==
    ASSUME PacerAlone, IInv, ResendInv, Calm, NEW p \in Pacers,
           UNCHANGED <<claimedToday, outToday, outs>>,
           Carryover(p) \/ \E c \in Campaigns : Pick(p, c, FALSE)
    PROVE  ResendInv'
<1>1. p \in Workers BY PacerKinds
<1>2. CASE Goto(p, Idle) BY <1>1, <1>2, IdleAgain, NoPick
<1>3. ASSUME NEW c \in Campaigns, Pick(p, c, FALSE) PROVE ResendInv'
  BY <1>3, PickRecord, NewPick
<1> QED BY <1>2, <1>3, CarryoverPicks

\* What it reads as used is all that was claimed today.
LEMMA SelectUnused ==
    ASSUME PacerAlone, IInv, ResendInv, Calm, NEW p \in Pacers, Select(p)
    PROVE  ResendInv'
<1>1. UNCHANGED row /\ UNCHANGED <<claimedToday, outToday, outs>> BY DEF Select, day
<1>2. CASE FreshQualified # {}
  BY <1>1, <1>2, CarryoverUnused DEF Select, FreshQualified, Waiting
<1>3. CASE FreshQualified = {} /\ MorningOpen
  <2>1. TypeOK /\ p \in Workers /\ call[p] \in Call BY PacerKinds, CallFacts
  <2>2. call'[p] = [call[p] EXCEPT !.pc = "backfill", !.used = UsedToday]
    BY <1>3, <2>1, GotoOthers DEF Select
  <2>3. call'[p].pc = "backfill" /\ call'[p].used = UsedToday BY <2>1, <2>2 DEF Call
  <2>4. Unused(call[p])' BY <1>1, <2>3 DEF Unused, UsedToday
  <2>5. \A q \in Pacers : q = p BY DEF PacerAlone
  <2> QED BY <1>1, <2>4, <2>5 DEF ResendInv, Exists
<1>4. CASE FreshQualified = {} /\ ~MorningOpen
  BY <1>1, <1>4, CarryoverUnused DEF Select
<1> QED BY <1>2, <1>3, <1>4

\* A row of yesterday, or its clone, has an article that is not used yet.
LEMMA BackfillUnused ==
    ASSUME PacerAlone, IInv, ResendInv, Calm, NEW p \in Pacers, BackfillSelect(p)
    PROVE  ResendInv'
<1>1. UNCHANGED <<claimedToday, outToday, outs>> BY DEF BackfillSelect, day
<1>2. call[p].pc = "backfill" /\ \A d \in claimedToday : row[d].url \in call[p].used
  BY DEF BackfillSelect, At, ResendInv, Unused
<1>3. \A c \in Backfillable(call[p].used) : c \in Campaigns /\ row[c].url \notin call[p].used
  BY DEF Backfillable, Yesterdays
<1>4. CASE Carryover(p) BY <1>1, <1>4, CarryoverUnused
<1>5. ASSUME NEW c \in Backfillable(call[p].used), Pick(p, c, TRUE), UNCHANGED row
      PROVE  ResendInv'
  BY <1>1, <1>2, <1>3, <1>5, PickRecord, NewPick
<1>6. ASSUME NEW c \in Backfillable(call[p].used), NEW m \in Free,
             Write(m, CloneForResend(c)), Pick(p, m, TRUE)
      PROVE  ResendInv'
  <2>1. TypeOK /\ m \in Campaigns BY DEF IInv, Free
  <2>2. row'[m].url = row[c].url
    <3>1. row'[m] = CloneForResend(c) BY <1>6, <2>1 DEF Write, TypeOK
    <3> QED BY <1>3, <2>1, <3>1, CloneTyped
  <2>3. call'[p].pc = "claim" /\ call'[p].c = m BY <1>6, PickRecord
  <2>4. \A d \in claimedToday : row[d].url # row'[m].url BY <1>2, <1>3, <2>2
  <2> QED BY <1>1, <2>3, <2>4, NewPick
<1> QED BY <1>4, <1>5, <1>6 DEF BackfillSelect

\* The pick joins what is used when it is claimed.
LEMMA ClaimUnused ==
    ASSUME PacerAlone, IInv, ResendInv, Calm, NEW p \in Pacers, Claim(p)
    PROVE  ResendInv'
<1> PICK c : c = call[p].c OBVIOUS
<1>1. /\ TypeOK /\ p \in Workers /\ call[p] \in Call /\ call[p].pc = "claim"
      /\ c \in Campaigns /\ row[c].queue \in AutoQueues
  BY PacerKinds, CallFacts DEF MemoryOf, Claim, At
<1>2. UNCHANGED <<outToday, outs>> BY DEF Claim
<1>3. CASE Goto(p, Idle) /\ UNCHANGED <<row, claimedToday>>
  BY <1>1, <1>2, <1>3, IdleAgain, NoPick
<1>4. CASE Claimable(c)
  <2>1. call'[p] = [call[p] EXCEPT !.pc = "link"] /\ claimedToday' = claimedToday \cup {c}
    BY <1>1, <1>4, GotoOthers DEF Claim
  <2>2. call'[p].pc = "link" /\ call'[p].c = c /\ call'[p].backfill = call[p].backfill
    BY <1>1, <2>1 DEF Call
  <2>3. \A d \in claimedToday' : d \in Campaigns /\ Exists(d)
    BY <1>1, <1>4, <2>1, NoneIsNone DEF TypeOK, ResendInv, Claimable, Exists, Statuses
  <2>4. call[p].backfill => \A d \in claimedToday : row[d].url # row[c].url
    BY <1>1 DEF ResendInv, Unused
  <2>5. \A d \in claimedToday' : row'[d].url = row[d].url /\ Exists(d)'
    BY <2>3 DEF Calm, Exists
  <2>6. Unused(call[p])' BY <2>1, <2>2, <2>4, <2>5 DEF Unused
  <2>7. \A q \in Pacers : q = p BY DEF PacerAlone
  <2> QED BY <1>2, <2>1, <2>5, <2>6, <2>7 DEF ResendInv
<1> QED BY <1>3, <1>4 DEF Claim

\* The fan-out of what was claimed.
LEMMA SendUnused ==
    ASSUME PacerAlone, IInv, ResendInv, Calm, NEW p \in Pacers, SendStep(p)
    PROVE  ResendInv'
<1>1. TypeOK /\ p \in Workers /\ call[p] \in Call BY PacerKinds, CallFacts
<1>2. \A q \in Pacers : q = p BY DEF PacerAlone
<1>3. CASE FanOut(p)
  <2> PICK c : c = call[p].c OBVIOUS
  <2>1. c \in claimedToday /\ call[p].pc = "send" /\ UNCHANGED <<row, claimedToday>>
    BY <1>3 DEF FanOut, At, ResendInv, Unused
  <2>2. call'[p].pc = "sending"
    <3>1. call'[p] = [call[p] EXCEPT !.pc = "sending"] BY <1>1, <1>3, GotoOthers DEF FanOut
    <3> QED BY <1>1, <3>1 DEF Call
  <2>3. outToday' = outToday \cup {c} /\ \A d \in outToday' : outs'[d] > 0
    <3>1. /\ outToday' = outToday \cup {c} /\ c \in Campaigns /\ outs \in [Campaigns -> 0 .. 2]
          /\ outs' = [outs EXCEPT ![c] = IF @ = 0 THEN 1 ELSE 2]
          /\ \A d \in outToday : d \in Campaigns /\ outs[d] > 0
      BY <1>1, <1>3, <2>1 DEF FanOut, TypeOK, ResendInv
    <3> QED BY <3>1
  <2>4. Unused(call[p])' BY <2>2 DEF Unused
  <2> QED BY <1>2, <2>1, <2>3, <2>4 DEF ResendInv, Exists
<1>4. CASE CheckLink(p) /\ Goto(p, [call[p] EXCEPT !.pc = "send"])
  <2>1. call'[p] = [call[p] EXCEPT !.pc = "send"] BY <1>1, <1>4, GotoOthers
  <2>2. /\ call'[p].pc = "send" /\ call'[p].c = call[p].c
        /\ call'[p].backfill = call[p].backfill /\ call[p].pc = "link"
    BY <1>1, <1>4, <2>1 DEF Call, CheckLink, At
  <2>3. UNCHANGED <<claimedToday, outToday, outs>> BY <1>4 DEF CheckLink, day
  <2>4. \A d \in claimedToday : d \in Campaigns /\ row'[d].url = row[d].url /\ Exists(d)'
    BY <1>1 DEF TypeOK, ResendInv, Calm, Exists
  <2>5. Unused(call[p]) BY DEF ResendInv
  <2>6. Unused(call[p])' BY <2>2, <2>3, <2>4, <2>5 DEF Unused
  <2> QED BY <1>2, <2>3, <2>4, <2>6 DEF ResendInv
<1>5. CASE UNCHANGED <<claimedToday, outToday, outs>> /\ call[p].pc \in Holding /\ Done(p)
  BY <1>1, <1>5, DoneMoves, NoPick
<1> QED BY <1>3, <1>4, <1>5 DEF SendStep, CheckLink, Sent, Fails, At, Holding, day

\* The pacer's other steps hold no pick.
LEMMA PacerUnused ==
    ASSUME PacerAlone, IInv, ResendInv, Calm, NEW p \in Pacers, PacerMoves(p)
    PROVE  ResendInv'
<1>1. TypeOK /\ p \in Workers /\ call[p] \in Call BY PacerKinds, CallFacts
<1>2. ASSUME NEW n, Goto(p, n), n.pc \in {"recover", "close", "select", "idle"}
      PROVE  call'[p].pc \notin {"backfill", "claim", "link", "send"}
  BY <1>1, <1>2, GotoOthers
<1>3. CASE Tick(p)
  <2>1. [Idle EXCEPT !.pc = "recover", !.list = Stranded].pc = "recover" BY DEF Idle
  <2> QED BY <1>2, <1>3, <2>1, NoPick DEF Tick, day
<1>4. CASE RecoverRead(p)
  <2>1. PICK c \in call[p].list :
           Goto(p, [call[p] EXCEPT !.pc = "close", !.c = c, !.list = @ \ {c},
                                   !.delivered = row[c].event])
    BY <1>4 DEF RecoverRead
  <2> DEFINE n == [call[p] EXCEPT !.pc = "close", !.c = c, !.list = @ \ {c},
                                  !.delivered = row[c].event]
  <2>2. n.pc = "close" BY <1>1 DEF Call
  <2> QED BY <1>2, <1>4, <2>1, <2>2, NoPick DEF RecoverRead, day
<1>5. CASE RecoverClose(p)
  <2> DEFINE n == [call[p] EXCEPT !.pc = "recover", !.c = None]
  <2>1. n.pc = "recover" BY <1>1 DEF Call
  <2>2. Goto(p, n) BY <1>5 DEF RecoverClose
  <2> QED BY <1>2, <1>5, <2>1, <2>2, NoPick DEF RecoverClose, day
<1>6. CASE Gate(p)
  <2>1. PICK n \in {[call[p] EXCEPT !.pc = "select"], Idle} : Goto(p, n) BY <1>6 DEF Gate
  <2>2. [call[p] EXCEPT !.pc = "select"].pc = "select" BY <1>1 DEF Call
  <2> QED BY <1>2, <1>6, <2>1, <2>2, NoneFacts, NoPick DEF Gate, day
<1>7. CASE Crash(p) BY <1>1, <1>7, IdleAgain, NoPick DEF Crash, day
<1>8. CASE Flush(p) BY <1>8, NoPick DEF Flush, At
<1> QED
  BY <1>3, <1>4, <1>5, <1>6, <1>7, <1>8, SelectUnused, BackfillUnused, ClaimUnused, SendUnused
  DEF PacerMoves, PacerStep

\* The backfill uses an article at most once a day: not if any of its rows went out today.
THEOREM ResentOnce ==
    ASSUME Captures, PacerAlone
    PROVE  Spec => ResentOncePerDay
<1> DEFINE J == IInv /\ OthersQuiet /\ ResendInv
<1>1. Init => J
  <2> SUFFICES ASSUME Init PROVE J OBVIOUS
  <2>1. IInv BY InitHolds
  <2>2. \A w \in Workers : call[w] = Idle BY DEF Init
  <2>3. OthersQuiet BY <2>2, NoneFacts, PacerKinds DEF Init, OthersQuiet
  <2>4. ResendInv BY <2>2, NoneFacts, PacerKinds DEF Init, ResendInv, Unused
  <2> QED BY <2>1, <2>3, <2>4
<1>2. J /\ [Next]_vars => J'
  <2> SUFFICES ASSUME J, [Next]_vars PROVE J' OBVIOUS
  <2>1. IInv' BY NextHolds
  <2>2. Calm /\ OthersQuiet' /\ (Elsewhere \/ Midnight \/ \E p \in Pacers : PacerMoves(p))
    BY WhoMoves
  <2>3. ASSUME Elsewhere PROVE ResendInv'
    <3>1. /\ \A p \in Pacers : call'[p] = call[p] /\ Unused(call[p])
          /\ claimedToday' = claimedToday /\ outToday' = outToday /\ outs' = outs
      BY <2>3 DEF Elsewhere, ResendInv
    <3>2. \A d \in claimedToday : row'[d].url = row[d].url /\ Exists(d)'
      BY <2>2 DEF IInv, TypeOK, ResendInv, Calm, Exists
    <3>3. \A p \in Pacers : call[p].pc = "claim" => row'[call[p].c].url = row[call[p].c].url
      <4>1. \A p \in Pacers : call[p].pc = "claim" =>
               call[p].c \in Campaigns /\ row[call[p].c].queue \in AutoQueues
        BY PacerKinds, CallFacts DEF MemoryOf
      <4>2. \A c \in Campaigns : row[c].queue \in AutoQueues => Exists(c)
        BY NoneIsNone, NoneFacts DEF IInv, FreeBlank, AutoQueues, Queues
      <4> QED BY <2>2, <4>1, <4>2 DEF Calm
    <3>4. ASSUME NEW p \in Pacers PROVE Unused(call[p])'
      BY <3>1, <3>2, <3>3 DEF Unused
    <3> QED BY <3>1, <3>2, <3>4 DEF ResendInv
  <2>4. ASSUME Midnight PROVE ResendInv'
    <3>1. claimedToday' = {} /\ outToday' = {} /\ UNCHANGED call BY <2>4 DEF Midnight
    <3>2. ASSUME NEW p \in Pacers PROVE Unused(call[p])' BY <2>4, <3>1 DEF Midnight, Unused
    <3> QED BY <3>1, <3>2 DEF ResendInv
  <2>5. ResendInv' BY <2>2, <2>3, <2>4, PacerUnused
  <2> QED BY <2>1, <2>2, <2>5
<1>3. J => ResentStep
  <2> SUFFICES ASSUME J, NEW p \in Pacers, NEW c \in Campaigns, FanOut(p), call[p].backfill,
                      call[p].c = c, NEW d \in outToday
               PROVE  row[d].url # row[c].url
    BY DEF ResentStep
  <2>1. call[p].pc = "send" /\ p \in Workers BY PacerKinds DEF FanOut, At
  <2>2. outs[c] = 0 BY <2>1 DEF IInv, DecidersAlone, Deciding, Holding
  <2>3. d \in claimedToday /\ d # c BY <2>2 DEF ResendInv
  <2> QED BY <2>1, <2>3 DEF ResendInv, Unused
<1>4. J /\ [Next]_vars => [ResentStep]_vars BY <1>3
<1> QED BY <1>1, <1>2, <1>4, PTL DEF Spec, ResentOncePerDay

=============================================================================
