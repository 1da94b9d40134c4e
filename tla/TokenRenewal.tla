----------------------------- MODULE TokenRenewal -----------------------------
(***************************************************************************)
(* The daily renewal of the LinkedIn access token                          *)
(* (src/src/services/linkedin/token.ts) of one page, and the token each    *)
(* container posts with. The owner pastes a new token by redeploying; for  *)
(* a while the old container and the new one share the LinkedInToken row.  *)
(***************************************************************************)
EXTENDS Naturals, Integers, FiniteSets

CONSTANTS
    Containers,   \* containers that may run
    Ttl,          \* days an access token lives (60)
    Window,       \* RENEW_WITHIN_DAYS (14)
    MaxPaste,     \* bound: tokens the owner pastes after the first
    MaxRenewals   \* bound: renewals of one pasted token

TokenOK ==
    /\ Ttl \in Nat /\ Window \in 0 .. Ttl - 1 /\ {MaxPaste, MaxRenewals} \subseteq Nat

VARIABLES
    runs,     \* which pasted token each container was started with; 0 = not running
    row,      \* the LinkedInToken row; its `id` tells a row from one created later
    ids,      \* rows created so far
    cache,    \* the token each container last resolved
    check,    \* what each container's daily check is doing
    checked,  \* containers whose check of today is over
    left,     \* days each access token still lives, at LinkedIn
    blocked,  \* blockedFp: the pasted token whose refresh token was refused; 0 = none
    missed    \* days in a row on which the newest token was due and not renewed

vars == <<runs, row, ids, cache, check, checked, left, blocked, missed>>

Pastes == 0 .. 1 + MaxPaste
Tokens == (1 .. 1 + MaxPaste) \X (0 .. MaxRenewals)   \* <<pasted, renewals>>
MaxIds == 2 * (1 + MaxPaste)    \* bound: rows created

NoRow == [id |-> 0, fp |-> 0, tok |-> <<1, 0>>, left |-> 0, source |-> "estimate",
          age |-> 0, late |-> FALSE]
Row == [id: 0 .. MaxIds, fp: Pastes, tok: Tokens, left: -1 .. Ttl,
        source: {"linkedin", "renewal", "estimate"}, age: 0 .. Ttl + 1,
        late: BOOLEAN]   \* created on a later day than its token was pasted
Idle == [pc |-> "idle", id |-> 0, tok |-> <<1, 0>>]
Live == {c \in Containers : runs[c] # 0}
Newest == CHOOSE e \in Pastes : /\ \E c \in Live : runs[c] = e
                                /\ \A c \in Live : runs[c] <= e

Init ==
    /\ \E c \in Containers : runs = [d \in Containers |-> IF d = c THEN 1 ELSE 0]
    /\ row = NoRow /\ ids = 0
    /\ cache = [c \in Containers |-> <<1, 0>>]
    /\ check = [c \in Containers |-> Idle] /\ checked = {}
    /\ left = [t \in Tokens |-> Ttl] /\ blocked = 0 /\ missed = 0

-----------------------------------------------------------------------------
(* Which token is in use                                                   *)

Pasted(c) == <<runs[c], 0>>
Matches(c) == row.id # 0 /\ row.fp = runs[c]
Active(c) == IF Matches(c) THEN row.tok ELSE Pasted(c)

\* The worker's tick resolves the token: a stored row of another pasted token is dropped.
Resolve(c) ==
    /\ runs[c] # 0
    /\ cache' = [cache EXCEPT ![c] = Active(c)]
    /\ row' = IF Matches(c) THEN row ELSE NoRow
    /\ UNCHANGED <<runs, ids, check, checked, left, blocked, missed>>

-----------------------------------------------------------------------------
(* The daily check                                                         *)

EnsureRow(c) ==
    /\ runs[c] # 0 /\ check[c].pc = "idle" /\ c \notin checked
    /\ IF Matches(c) THEN UNCHANGED <<row, ids>>
       ELSE /\ ids < MaxIds /\ ids' = ids + 1
            /\ row' = [NoRow EXCEPT !.id = ids + 1, !.fp = runs[c], !.tok = Pasted(c),
                              !.late = left[Pasted(c)] < Ttl]
    /\ check' = [check EXCEPT ![c] = [pc |-> "inspect", id |-> row'.id, tok |-> row'.tok]]
    /\ UNCHANGED <<runs, cache, checked, left, blocked, missed>>

\* An update by id throws when the row is gone, and ends the check.
SameRow_AnyRow(c) == row.id # 0
SameRow(c) == row.id = check[c].id
Over(c) == /\ check' = [check EXCEPT ![c] = Idle] /\ checked' = checked \cup {c}

\* LinkedIn's date wins, then a stored one, then the estimate from the row's age.
Believed(r, said) == IF said # Ttl + 1 THEN said
                     ELSE IF r.source # "estimate" THEN r.left ELSE Ttl - r.age
Due(n) == n <= Window

\* The inspector says how long the token lives, or (Ttl + 1) nothing at all.
Inspect(c) ==
    /\ check[c].pc = "inspect"
    /\ \E said \in {left[check[c].tok], Ttl + 1} :
         IF ~SameRow(c) THEN Over(c) /\ UNCHANGED row
         ELSE /\ row' = [row EXCEPT !.left = Believed(row, said),
                            !.source = IF said # Ttl + 1 THEN "linkedin" ELSE @]
              /\ IF Due(row'.left)
                 THEN /\ check' = [check EXCEPT ![c].pc = "renew"]
                      /\ UNCHANGED checked
                 ELSE Over(c)
    /\ UNCHANGED <<runs, ids, cache, left, blocked, missed>>

\* The refresh call succeeds: the row, the cache, the banner and the block are written.
Renewed(c) ==
    /\ check[c].pc = "renew" /\ blocked # runs[c]
    /\ LET t == <<check[c].tok[1], check[c].tok[2] + 1>> IN
       /\ t \in Tokens
       /\ IF SameRow(c)
          THEN /\ row' = [row EXCEPT !.tok = t, !.left = Ttl, !.source = "renewal"]
               /\ cache' = [cache EXCEPT ![c] = t]
               /\ blocked' = 0
               /\ missed' = IF runs[c] = Newest THEN 0 ELSE missed
          ELSE UNCHANGED <<row, cache, blocked, missed>>
       /\ left' = [left EXCEPT ![t] = Ttl]
    /\ Over(c)
    /\ UNCHANGED <<runs, ids>>

\* Refused for good, refused before, or no answer: the check of tomorrow tries again.
NotRenewed(c) ==
    /\ check[c].pc = "renew"
    /\ \E permanent \in BOOLEAN :
         blocked' = IF SameRow(c) /\ (permanent \/ blocked = runs[c]) THEN runs[c] ELSE blocked
    /\ missed' = IF runs[c] = Newest /\ missed <= Window THEN missed + 1 ELSE missed
    /\ Over(c)
    /\ UNCHANGED <<runs, row, ids, cache, left>>

-----------------------------------------------------------------------------
(* Deploys and days                                                        *)

\* The owner pastes a new token: a second container starts with it.
Paste(c) ==
    /\ runs[c] = 0 /\ Newest < 1 + MaxPaste
    /\ runs' = [runs EXCEPT ![c] = Newest + 1]
    /\ cache' = [cache EXCEPT ![c] = <<Newest + 1, 0>>]
    /\ left' = [left EXCEPT ![<<Newest + 1, 0>>] = Ttl]
    /\ checked' = checked \ {c} /\ missed' = 0
    /\ UNCHANGED <<row, ids, check, blocked>>

\* The container that was replaced stops, in the middle of a check or not.
Retire(c) ==
    /\ runs[c] # 0 /\ runs[c] # Newest
    /\ runs' = [runs EXCEPT ![c] = 0] /\ check' = [check EXCEPT ![c] = Idle]
    /\ UNCHANGED <<row, ids, cache, checked, left, blocked, missed>>

\* The container dies and restarts: it checks again two minutes after boot.
Restart(c) ==
    /\ runs[c] # 0 /\ check[c].pc # "idle"
    /\ check' = [check EXCEPT ![c] = Idle] /\ cache' = [cache EXCEPT ![c] = Pasted(c)]
    /\ UNCHANGED <<runs, row, ids, checked, left, blocked, missed>>

\* A deploy's overlap is over within the day, and the check has run.
Day ==
    /\ Cardinality(Live) = 1 /\ Live \subseteq checked
    /\ checked' = {}
    /\ left' = [t \in Tokens |-> IF left[t] > -1 THEN left[t] - 1 ELSE -1]
    /\ row' = [row EXCEPT !.left = IF @ > -1 THEN @ - 1 ELSE -1,
                          !.age = IF @ <= Ttl THEN @ + 1 ELSE @]
    /\ UNCHANGED <<runs, ids, cache, check, blocked, missed>>

Next ==
    \/ \E c \in Containers :
          \/ Resolve(c) \/ EnsureRow(c) \/ Inspect(c) \/ Renewed(c) \/ NotRenewed(c)
          \/ Paste(c) \/ Retire(c) \/ Restart(c)
    \/ Day

Spec == Init /\ [][Next]_vars

-----------------------------------------------------------------------------
(* Properties                                                              *)

\* Every variable holds a value of its kind.
TypeOK ==
    /\ runs \in [Containers -> Pastes] /\ row \in Row /\ ids \in 0 .. MaxIds
    /\ cache \in [Containers -> Tokens] /\ checked \subseteq Containers
    /\ check \in [Containers -> [pc: {"idle", "inspect", "renew"}, id: 0 .. MaxIds,
                                 tok: Tokens]]
    /\ left \in [Tokens -> -1 .. Ttl] /\ blocked \in Pastes /\ missed \in 0 .. Window + 1

\* A container posts with the token it was started with or one renewed from it: a check
\* of the other container, slow or of a row dropped meanwhile, never mixes the two.
TokenOfItsPaste == \A c \in Live : cache[c][1] = runs[c]

\* The token in use does not expire while renewal fails on at most RENEW_WITHIN_DAYS
\* days in a row, whether or not the inspector answers. (Not so when the container it
\* replaces drops its row and the row made the next day, on an estimate, starts afresh.)
NeverExpires ==
    missed <= Window /\ ~row.late => \A c \in Live : runs[c] = Newest => left[Active(c)] >= 0

\* A container posts with tokens that stem from the one it was started with, and the token of a page that is checked
\* every day never expires.
TokenKept == TokenOfItsPaste /\ NeverExpires
=============================================================================
