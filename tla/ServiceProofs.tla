---------------------------- MODULE ServiceProofs ----------------------------
(***************************************************************************)
(* Theorems about the smaller services, each for every value of its        *)
(* constants: the console's accounts, the writer of Mailercloud contacts,  *)
(* LinkedIn's token, the sweepers of the event logs, and the choice of the *)
(* stories of a digest. Each is an INSTANCE of its module; the variables   *)
(* below are those of the five modules, and one that two of them name is   *)
(* in each section that of its service.                                    *)
(***************************************************************************)
EXTENDS Integers, Sequences, FiniteSets, FiniteSetTheorems, WellFoundedInduction, TLAPS

CONSTANT None

-----------------------------------------------------------------------------
(* The console's accounts                                                  *)

CONSTANTS People, Admins, Handlers, Ops, MaxInvites, MaxCrashes
VARIABLES user, invites, req, made, issued, crashes

Console == INSTANCE Accounts

Account == [role : Console!Roles, active : BOOLEAN]

\* Accounts are made once each and never go; a request past its checks is about an
\* address it may write, and a change about an account that is there.
InviteOK(i) == i.id \in 1 .. issued /\ i.email \in People /\ i.role \in Console!Roles
RequestOK(h) ==
    /\ Console!At(h, "patch") => /\ req[h].who \in People /\ Console!Exists(req[h].who)
                                 /\ req[h].change \in Console!Changes
    /\ Console!At(h, "create") \/ Console!At(h, "issue") =>
          req[h].who \in People /\ req[h].role \in Console!Roles
ConsoleInv ==
    /\ user \in [People -> Account \cup {None}] /\ made \in [People -> Nat] /\ issued \in Nat
    /\ \A e \in People : made[e] = IF Console!Exists(e) THEN 1 ELSE 0
    /\ req = [h \in Handlers |-> req[h]]
    /\ \A i \in invites : InviteOK(i)
    /\ \A h \in Handlers : RequestOK(h)

LEMMA ConsoleInit == ASSUME Console!AccountsOK, Console!Init PROVE ConsoleInv
<1>1. \A e \in People : user[e] = IF e \in Admins THEN [role |-> "ADMIN", active |-> TRUE] ELSE None
  BY DEF Console!Init
<1>2. [role |-> "ADMIN", active |-> TRUE] \in Account /\ None \notin Account
  BY DEF Account, Console!Roles, Console!AccountsOK
<1>3. user \in [People -> Account \cup {None}]
  BY <1>1, <1>2 DEF Console!Init
<1>4. \A e \in People : made[e] = IF Console!Exists(e) THEN 1 ELSE 0
  BY <1>1, <1>2 DEF Console!Init, Console!Exists
<1> QED BY <1>3, <1>4 DEF ConsoleInv, RequestOK, Console!Init, Console!At

\* A changed account is an account.
LEMMA AfterIsAccount ==
    ASSUME NEW u \in Account, NEW c \in Console!Changes
    PROVE  Console!After(u, c) \in Account
BY DEF Account, Console!Changes, Console!After

\* A step that writes no account, and leaves only requests and invites that are right.
LEMMA ConsoleQuiet ==
    ASSUME ConsoleInv, user' = user, made' = made, issued' = issued,
           \A i \in invites' : i \in invites,
           req' = [h \in Handlers |-> req'[h]],
           \A h \in Handlers : req'[h] = req[h] \/ RequestOK(h)'
    PROVE  ConsoleInv'
<1>1. \A h \in Handlers : RequestOK(h)'
  BY DEF ConsoleInv, RequestOK, Console!At, Console!Exists
<1> QED BY <1>1 DEF ConsoleInv, InviteOK, Console!Exists

\* A handler's request is replaced.
LEMMA Replaced ==
    ASSUME ConsoleInv, NEW h \in Handlers, NEW r, req' = [req EXCEPT ![h] = r]
    PROVE  /\ req' = [g \in Handlers |-> req'[g]] /\ req'[h] = r
           /\ \A g \in Handlers : g # h => req'[g] = req[g]
BY DEF ConsoleInv

LEMMA ConsoleKeeps ==
    ASSUME Console!AccountsOK, ConsoleInv, [Console!Next]_(Console!vars) PROVE ConsoleInv'
<1> USE DEF Console!At, Console!Begin, Console!End
<1>1. CASE UNCHANGED Console!vars
  BY <1>1, ConsoleQuiet DEF Console!vars, ConsoleInv
<1>2. ASSUME NEW h \in Handlers, NEW e \in People, Console!Patch(h, e) PROVE ConsoleInv'
  <2>1. PICK c \in Console!Changes :
            req' = [req EXCEPT ![h] = [op |-> "patch", who |-> e, change |-> c]]
    BY <1>2 DEF Console!Patch
  <2>2. RequestOK(h)' /\ \A g \in Handlers : g # h => req'[g] = req[g]
    BY <1>2, <2>1, Replaced DEF RequestOK, Console!Patch, Console!Exists
  <2> QED BY <1>2, <2>1, <2>2, Replaced, ConsoleQuiet DEF Console!Patch
<1>3. ASSUME NEW h \in Handlers, NEW e \in People, Console!CreateUser(h, e) PROVE ConsoleInv'
  <2>1. PICK role \in Console!Roles :
            req' = [req EXCEPT ![h] = [op |-> "create", who |-> e, role |-> role, invite |-> None]]
    BY <1>3 DEF Console!CreateUser
  <2>2. RequestOK(h)' /\ \A g \in Handlers : g # h => req'[g] = req[g]
    BY <2>1, Replaced DEF RequestOK
  <2> QED BY <1>3, <2>1, <2>2, Replaced, ConsoleQuiet DEF Console!CreateUser
<1>4. ASSUME NEW h \in Handlers, NEW e \in People, NEW role \in Console!Roles,
             Console!Supersede(h, e, role)
      PROVE  ConsoleInv'
  <2>1. req' = [req EXCEPT ![h] = [op |-> "issue", who |-> e, role |-> role]]
    BY <1>4 DEF Console!Supersede
  <2>2. RequestOK(h)' /\ \A g \in Handlers : g # h => req'[g] = req[g]
    BY <2>1, Replaced DEF RequestOK
  <2> QED BY <1>4, <2>1, <2>2, Replaced, ConsoleQuiet DEF Console!Supersede
<1>5. ASSUME NEW h \in Handlers, NEW i \in invites, Console!Accept(h, i) PROVE ConsoleInv'
  <2>1. req' = [req EXCEPT ![h] = [op |-> "create", who |-> i.email, role |-> i.role, invite |-> i]]
    BY <1>5 DEF Console!Accept
  <2>2. InviteOK(i)
    BY DEF ConsoleInv
  <2>3. RequestOK(h)' /\ \A g \in Handlers : g # h => req'[g] = req[g]
    BY <2>1, <2>2, Replaced DEF RequestOK, InviteOK
  <2> QED BY <1>5, <2>1, <2>3, Replaced, ConsoleQuiet DEF Console!Accept
<1>6. ASSUME NEW i \in invites, Console!RevokeInvite(i) PROVE ConsoleInv'
  BY <1>6, ConsoleQuiet DEF Console!RevokeInvite, ConsoleInv
<1>7. ASSUME Console!Crash PROVE ConsoleInv'
  <2>1. \A h \in Handlers : req'[h] = None
    BY <1>7 DEF Console!Crash
  <2>2. \A h \in Handlers : RequestOK(h)'
    BY <2>1 DEF RequestOK
  <2> QED BY <1>7, <2>2, ConsoleQuiet DEF Console!Crash
<1>8. ASSUME NEW h \in Handlers, Console!Mark(h) PROVE ConsoleInv'
  <2>1. req' = [req EXCEPT ![h] = None] /\ UNCHANGED <<user, made, issued>>
    BY <1>8 DEF Console!Mark
  <2>2. \A g \in Handlers : RequestOK(g)'
    BY <2>1, Replaced DEF RequestOK, ConsoleInv, Console!Exists
  <2>3. \A i \in invites' : InviteOK(i)'
    <3>1. ASSUME NEW i \in invites' PROVE InviteOK(i)'
      <4> DEFINE j == req[h].invite
      <4>1. CASE i \in invites
        BY <2>1, <4>1 DEF ConsoleInv, InviteOK
      <4>2. CASE i \notin invites
        <5>1. j \in invites /\ i = [j EXCEPT !.accepted = TRUE]
          BY <1>8, <3>1, <4>2 DEF Console!Mark
        <5>2. InviteOK(j)
          BY <5>1 DEF ConsoleInv
        <5>3. i.id = j.id /\ i.email = j.email /\ i.role = j.role
          BY <5>1
        <5> QED BY <2>1, <5>2, <5>3 DEF InviteOK
      <4> QED BY <4>1, <4>2
    <3> QED BY <3>1
  <2> QED BY <2>1, <2>2, <2>3, Replaced DEF ConsoleInv, Console!Exists
<1>9. ASSUME NEW h \in Handlers, Console!Issue(h) PROVE ConsoleInv'
  <2>1. /\ req' = [req EXCEPT ![h] = None] /\ UNCHANGED <<user, made>> /\ issued' = issued + 1
        /\ issued \in Nat
        /\ invites' = invites \cup {[id |-> issued + 1, email |-> req[h].who,
                                     role |-> req[h].role, accepted |-> FALSE]}
    BY <1>9 DEF Console!Issue, ConsoleInv
  <2>2. \A g \in Handlers : RequestOK(g)'
    BY <2>1, Replaced DEF RequestOK, ConsoleInv, Console!Exists
  <2>3. req[h].who \in People /\ req[h].role \in Console!Roles
    BY <1>9 DEF Console!Issue, ConsoleInv, RequestOK
  <2>4. \A i \in invites' : InviteOK(i)'
    BY <2>1, <2>3 DEF ConsoleInv, InviteOK
  <2> QED BY <2>1, <2>2, <2>4, Replaced DEF ConsoleInv, Console!Exists
<1>10. ASSUME NEW h \in Handlers, Console!PatchWrites(h) PROVE ConsoleInv'
  <2> DEFINE e == req[h].who
             u == Console!After(user[e], req[h].change)
  <2>1. e \in People /\ user[e] \in Account /\ u \in Account /\ None \notin Account
    BY <1>10, AfterIsAccount
    DEF Console!PatchWrites, ConsoleInv, RequestOK, Console!Exists, Console!AccountsOK, Account
  <2>2. /\ user' = [user EXCEPT ![e] = u] /\ req' = [req EXCEPT ![h] = None]
        /\ UNCHANGED <<invites, made, issued>>
    BY <1>10 DEF Console!PatchWrites
  <2> HIDE DEF u
  <2>3. user' \in [People -> Account \cup {None}] /\ \A p \in People : user'[p] = None <=> user[p] = None
    BY <2>1, <2>2 DEF ConsoleInv
  <2>4. \A g \in Handlers : RequestOK(g)'
    BY <2>2, <2>3, Replaced DEF RequestOK, ConsoleInv, Console!Exists
  <2> QED BY <2>2, <2>3, <2>4, Replaced DEF ConsoleInv, Console!Exists, InviteOK
<1>11. ASSUME NEW h \in Handlers, Console!Creates(h) PROVE ConsoleInv'
  <2> DEFINE r == req[h]
  <2>1. r.who \in People /\ r.role \in Console!Roles
    BY <1>11 DEF Console!Creates, ConsoleInv, RequestOK
  <2>2. CASE Console!Taken(r.who)
    <3>1. req' = [req EXCEPT ![h] = None] /\ UNCHANGED <<user, made, invites, issued>>
      BY <1>11, <2>2 DEF Console!Creates
    <3>2. RequestOK(h)' /\ \A g \in Handlers : g # h => req'[g] = req[g]
      BY <3>1, Replaced DEF RequestOK
    <3> QED BY <3>1, <3>2, Replaced, ConsoleQuiet
  <2>3. CASE ~Console!Taken(r.who)
    <3> DEFINE u == [role |-> r.role, active |-> TRUE]
    <3>1. /\ user' = [user EXCEPT ![r.who] = u] /\ made' = [made EXCEPT ![r.who] = @ + 1]
          /\ UNCHANGED <<invites, issued>>
      BY <1>11, <2>3 DEF Console!Creates, Console!Made
    <3>2. u \in Account /\ u # None /\ user[r.who] = None
      <4>1. u \in Account /\ None \notin Account
        BY <2>1 DEF Account, Console!AccountsOK
      <4>2. user[r.who] = None
        BY <2>3 DEF Console!Taken, Console!Exists
      <4> QED BY <4>1, <4>2
    <3>3. PICK m : req' = [req EXCEPT ![h] = m] /\ (m = None \/ m = [op |-> "mark", invite |-> r.invite])
      BY <1>11, <2>3 DEF Console!Creates
    <3> HIDE DEF u
    <3>4. /\ user' \in [People -> Account \cup {None}]
          /\ \A p \in People : p # r.who => user'[p] = user[p]
          /\ user'[r.who] = u
      BY <2>1, <3>1, <3>2 DEF ConsoleInv
    <3>5. \A g \in Handlers : RequestOK(g)'
      <4>1. req'[h] = m
        BY <3>3, Replaced
      <4>2. m # None => m.op = "mark"
        BY <3>3
      <4>3. RequestOK(h)'
        BY <4>1, <4>2 DEF RequestOK
      <4>4. ASSUME NEW g \in Handlers, g # h PROVE RequestOK(g)'
        BY <3>2, <3>3, <3>4, <4>4, Replaced DEF RequestOK, ConsoleInv, Console!Exists
      <4> QED BY <4>3, <4>4
    <3>6. made' \in [People -> Nat] /\ \A e \in People : made'[e] = IF user'[e] # None THEN 1 ELSE 0
      BY <2>1, <3>1, <3>2, <3>4 DEF ConsoleInv, Console!Exists
    <3> QED BY <3>1, <3>3, <3>4, <3>5, <3>6, Replaced DEF ConsoleInv, InviteOK, Console!Exists
  <2> QED BY <2>2, <2>3
<1>12. ASSUME NEW h \in Handlers, NEW e \in People, Console!Invite(h, e) PROVE ConsoleInv'
  BY <1>4, <1>12 DEF Console!Invite
<1>13. ASSUME NEW h \in Handlers, NEW i \in invites, Console!Resend(h, i) PROVE ConsoleInv'
  <2>1. InviteOK(i) /\ Console!Supersede(h, i.email, i.role)
    BY <1>13 DEF Console!Resend, ConsoleInv
  <2> QED BY <1>4, <2>1 DEF InviteOK
<1> QED BY <1>1, <1>2, <1>3, <1>5, <1>6, <1>7, <1>8, <1>9, <1>10, <1>11, <1>12, <1>13
        DEF Console!Next

\* A person has one account: however many links were sent and however many requests
\* make it at once, it is made once, and never made over.
THEOREM OneAccount == ASSUME Console!AccountsOK PROVE Console!Spec => []Console!OneAccountPerPerson
<1>1. Console!Init => ConsoleInv
  BY ConsoleInit
<1>2. ConsoleInv /\ [Console!Next]_(Console!vars) => ConsoleInv'
  BY ConsoleKeeps
<1>3. ConsoleInv => Console!OneAccountPerPerson
  BY DEF ConsoleInv, Console!OneAccountPerPerson
<1> QED BY <1>1, <1>2, <1>3, PTL DEF Console!Spec

\* Accounts and invites hold values of their kind.
THEOREM ConsoleTypes == ASSUME Console!AccountsOK PROVE Console!Spec => []Console!TypeOK
<1>1. Console!Init => ConsoleInv
  BY ConsoleInit
<1>2. ConsoleInv /\ [Console!Next]_(Console!vars) => ConsoleInv'
  BY ConsoleKeeps
<1>3. ConsoleInv => Console!TypeOK
  <2> SUFFICES ASSUME ConsoleInv PROVE Console!TypeOK
    OBVIOUS
  <2>1. \A e \in People : Console!Exists(e) => user[e] \in [role : Console!Roles, active : BOOLEAN]
    BY DEF ConsoleInv, Console!Exists, Account
  <2> QED BY <2>1 DEF ConsoleInv, InviteOK, Console!TypeOK
<1> QED BY <1>1, <1>2, <1>3, PTL DEF Console!Spec

-----------------------------------------------------------------------------
(* The writer of Mailercloud contacts                                      *)

CONSTANTS Writers, Faults, ResubscribeOn, MaxChanges, MaxFaults
VARIABLES member, blocked, consent, contact, w, unseen, changes, faults

Writer == INSTANCE AudienceWriter

Tags    == SUBSET {"premium", "exclude"}
Member  == [role : {"PREMIUM", "NONE"}, bar : BOOLEAN, held : BOOLEAN, mail : BOOLEAN,
            resub : BOOLEAN, tags : Tags, mc : {"UNKNOWN", "PRESENT", "ABSENT"},
            due : BOOLEAN, refused : BOOLEAN]
Contact == [tags : Tags, active : BOOLEAN]
Writing == [pc : {"get", "create", "put", "remove", "resub", "finish"}, seen : Member,
            adds : Tags, removes : Tags, read : Contact \cup {None, Writer!Unread},
            tags : Tags, mc : {"UNKNOWN", "PRESENT", "ABSENT"}, resubDone : BOOLEAN,
            moved : BOOLEAN, kind : {"ok", "FATAL", "RETRYABLE"}]

WritingOK(s) == s # None => s \in Writing /\ (s.pc = "put" => s.read \in Contact)
RowOK(m)     == m # None => m \in Member
ContactOK(c) == c # None => c \in Contact

\* A change that no recorded write has read, nor a refused one missed, keeps the row due.
StillDue == unseen = "new" /\ member # None /\ member.mail => member.due

WriterInv ==
    /\ blocked \in BOOLEAN /\ consent \in BOOLEAN /\ unseen \in {"no", "new", "refused"}
    /\ RowOK(member) /\ ContactOK(contact)
    /\ w = [x \in Writers |-> w[x]] /\ \A x \in Writers : WritingOK(w[x])
    /\ StillDue

\* Writes in flight notice that the row moved, and are what they were otherwise.
LEMMA MovedOK ==
    ASSUME WriterInv
    PROVE  /\ Writer!Moved = [x \in Writers |-> Writer!Moved[x]]
           /\ \A x \in Writers : WritingOK(Writer!Moved[x])
<1>1. ASSUME NEW x \in Writers PROVE WritingOK(Writer!Moved[x])
  <2>1. WritingOK(w[x])
    BY DEF WriterInv
  <2>2. CASE w[x] = None
    BY <2>2 DEF Writer!Moved, WritingOK
  <2>3. CASE w[x] # None
    <3> DEFINE s == [w[x] EXCEPT !.moved = TRUE]
    <3>1. s \in Writing /\ s.pc = w[x].pc /\ s.read = w[x].read
      BY <2>1, <2>3 DEF WritingOK, Writing
    <3>2. Writer!Moved[x] = s
      BY <2>3 DEF Writer!Moved
    <3> QED BY <2>1, <2>3, <3>1, <3>2 DEF WritingOK
  <2> QED BY <2>2, <2>3
<1> QED BY <1>1 DEF Writer!Moved

\* What recomputeMembers leaves of the row is due when it differs from what was there.
LEMMA RecomputeKeeps ==
    ASSUME WriterInv, NEW role \in {"PREMIUM", "NONE"}, NEW bar \in BOOLEAN, NEW held \in BOOLEAN,
           NEW resub \in BOOLEAN, Writer!Recompute(role, bar, held, resub),
           blocked' \in BOOLEAN, consent' \in BOOLEAN, contact' = contact
    PROVE  WriterInv'
<1> DEFINE tags == IF member = None THEN {} ELSE member.tags
           mc   == IF member = None THEN "UNKNOWN" ELSE member.mc
           ref  == member # None /\ member.refused
           new  == [role |-> role, bar |-> bar, held |-> held, mail |-> TRUE, resub |-> resub,
                    tags |-> tags, mc |-> mc, due |-> TRUE, refused |-> ref]
<1>1. tags \in Tags /\ mc \in {"UNKNOWN", "PRESENT", "ABSENT"} /\ ref \in BOOLEAN
  BY DEF WriterInv, RowOK, Member, Tags
<1>2. new \in Member /\ new.due
  BY <1>1 DEF Member
<1>3. member' = None \/ member' = member \/ member' = new
  BY DEF Writer!Recompute
<1>4. CASE member' = member
  <2>1. w' = w /\ unseen' = unseen
    BY <1>4 DEF Writer!Recompute
  <2> QED BY <1>4, <2>1 DEF WriterInv, RowOK, ContactOK, StillDue
<1>5. CASE member' # member
  <2>1. w' = Writer!Moved /\ unseen' = IF member' = None THEN "no" ELSE "new"
    BY <1>5 DEF Writer!Recompute
  <2>2. /\ w' = [x \in Writers |-> w'[x]]
        /\ \A x \in Writers : WritingOK(w'[x])
    BY <2>1, MovedOK
  <2> HIDE DEF new
  <2>3. RowOK(member') /\ (member' # None => member'.due)
    BY <1>2, <1>3, <1>5 DEF RowOK
  <2>4. ContactOK(contact') /\ unseen' \in {"no", "new", "refused"}
    BY <2>1 DEF WriterInv
  <2> QED BY <2>2, <2>3, <2>4 DEF WriterInv, RowOK, ContactOK, WritingOK, StillDue
<1> QED BY <1>4, <1>5

\* A call leaves the row alone, whether it took effect and whether it was answered.
LEMMA CallKeeps ==
    ASSUME WriterInv, NEW x \in Writers, w[x] # None, NEW o, NEW effect, NEW answered,
           ContactOK(effect), WritingOK(answered), Writer!Call(x, o, effect, answered)
    PROVE  WriterInv'
<1>1. w[x] \in Writing
  BY DEF WriterInv, WritingOK
<1> DEFINE ended == [w[x] EXCEPT !.pc = "finish", !.kind = IF o = "refused" THEN "FATAL" ELSE "RETRYABLE"]
<1>2. ended \in Writing /\ ended.pc = "finish"
  BY <1>1 DEF Writing
<1>3. PICK s : (s = answered \/ s = ended) /\ w' = [w EXCEPT ![x] = s]
  BY DEF Writer!Call
<1>4. WritingOK(s)
  BY <1>2, <1>3 DEF WritingOK
<1>5. w' = [y \in Writers |-> w'[y]] /\ \A y \in Writers : WritingOK(w'[y])
  BY <1>3, <1>4 DEF WriterInv
<1>6. UNCHANGED <<member, blocked, consent, unseen>> /\ ContactOK(contact')
  BY DEF Writer!Call, WriterInv
<1> QED BY <1>5, <1>6 DEF WriterInv, RowOK, ContactOK, WritingOK, StillDue

\* A write in flight goes on without a call.
LEMMA GoesOnKeeps ==
    ASSUME WriterInv, NEW x \in Writers, NEW s, WritingOK(s), w' = [w EXCEPT ![x] = s],
           UNCHANGED <<member, blocked, consent, contact, unseen>>
    PROVE  WriterInv'
<1>1. w' = [y \in Writers |-> w'[y]] /\ \A y \in Writers : WritingOK(w'[y])
  BY DEF WriterInv
<1> QED BY <1>1 DEF WriterInv, RowOK, ContactOK, WritingOK, StillDue

LEMMA GetKeeps == ASSUME WriterInv, NEW x \in Writers, NEW o, Writer!Get(x, o) PROVE WriterInv'
<1> DEFINE s == w[x]
           pc == IF s.adds = {} THEN Writer!AfterAdd(s) ELSE IF contact = None THEN "create" ELSE "put"
           n  == [s EXCEPT !.read = contact, !.mc = IF contact = None THEN "ABSENT" ELSE "PRESENT", !.pc = pc]
<1>1. s # None /\ s \in Writing /\ ContactOK(contact)
  BY DEF Writer!Get, WriterInv, WritingOK
<1>2. pc \in {"create", "put", "remove", "resub", "finish"} /\ (pc = "put" => contact # None)
  BY DEF Writer!AfterAdd, Writer!AfterRemove
<1>3. Writer!Call(x, o, contact, n)
  BY DEF Writer!Get
<1> HIDE DEF pc
<1>4. contact \in Contact \cup {None, Writer!Unread}
  BY <1>1 DEF ContactOK
<1>5. n \in Writing /\ n.pc = pc /\ n.read = contact
  BY <1>1, <1>2, <1>4 DEF Writing
<1> HIDE DEF n
<1>6. WritingOK(n)
  BY <1>1, <1>2, <1>5 DEF WritingOK, ContactOK
<1> QED BY <1>1, <1>3, <1>6, CallKeeps

LEMMA CreateKeeps == ASSUME WriterInv, NEW x \in Writers, NEW o, Writer!Create(x, o) PROVE WriterInv'
<1> DEFINE s == w[x]
           n == [s EXCEPT !.tags = @ \cup s.adds, !.mc = "PRESENT", !.pc = Writer!AfterAdd(s)]
           g == [s EXCEPT !.pc = "get"]
           c == [tags |-> s.adds, active |-> TRUE]
<1>1. s # None /\ s \in Writing /\ ContactOK(contact)
  BY DEF Writer!Create, WriterInv, WritingOK
<1>2. Writer!AfterAdd(s) \in {"remove", "resub", "finish"}
  BY DEF Writer!AfterAdd, Writer!AfterRemove
<1>3. n \in Writing /\ n.pc # "put"
  BY <1>1, <1>2 DEF Writing, Tags
<1>4. g \in Writing /\ g.pc = "get"
  BY <1>1 DEF Writing
<1>5. c \in Contact
  BY <1>1 DEF Writing, Contact
<1>6. Writer!Call(x, o, c, n) \/ Writer!Call(x, o, contact, g)
  BY DEF Writer!Create
<1> HIDE DEF n, g, c
<1>7. WritingOK(n) /\ WritingOK(g) /\ ContactOK(c)
  BY <1>3, <1>4, <1>5 DEF WritingOK, ContactOK
<1> QED BY <1>1, <1>6, <1>7, CallKeeps

LEMMA PutKeeps == ASSUME WriterInv, NEW x \in Writers, NEW o, Writer!Put(x, o) PROVE WriterInv'
<1> DEFINE s == [w[x] EXCEPT !.tags = @ \cup w[x].read.tags]
           n == [s EXCEPT !.tags = @ \cup s.adds, !.pc = Writer!AfterAdd(s)]
           c == IF contact = None THEN None ELSE [contact EXCEPT !.tags = s.read.tags \cup s.adds]
<1>1. w[x] # None /\ w[x] \in Writing /\ w[x].read \in Contact /\ ContactOK(contact)
  BY DEF Writer!Put, WriterInv, WritingOK
<1>2. w[x].read.tags \in Tags
  BY <1>1 DEF Contact
<1>3. s \in Writing /\ s.read = w[x].read /\ s.adds = w[x].adds
  BY <1>1, <1>2 DEF Writing, Tags
<1>4. Writer!Call(x, o, c, n)
  BY DEF Writer!Put
<1> HIDE DEF s
<1>5. Writer!AfterAdd(s) \in {"remove", "resub", "finish"}
  BY DEF Writer!AfterAdd, Writer!AfterRemove
<1>6. n \in Writing /\ n.pc # "put"
  BY <1>3, <1>5 DEF Writing, Tags
<1>7. ContactOK(c)
  <2>1. s.read.tags \cup s.adds \in Tags
    BY <1>2, <1>3 DEF Writing, Tags
  <2> QED BY <1>1, <2>1 DEF ContactOK, Contact
<1> HIDE DEF n, c
<1>8. WritingOK(n)
  BY <1>6 DEF WritingOK
<1> QED BY <1>1, <1>4, <1>7, <1>8, CallKeeps

LEMMA RemoveKeeps == ASSUME WriterInv, NEW x \in Writers, NEW o, Writer!Remove(x, o) PROVE WriterInv'
<1> DEFINE s == [w[x] EXCEPT !.tags = @ \ w[x].removes, !.pc = Writer!AfterRemove(w[x])]
           n == IF contact = None THEN [s EXCEPT !.mc = "ABSENT"] ELSE s
           c == IF contact = None THEN None ELSE [contact EXCEPT !.tags = @ \ s.removes]
<1>1. w[x] # None /\ w[x] \in Writing /\ ContactOK(contact)
  BY DEF Writer!Remove, WriterInv, WritingOK
<1>2. Writer!AfterRemove(w[x]) \in {"resub", "finish"}
  BY DEF Writer!AfterRemove
<1>3. s \in Writing /\ s.pc # "put"
  BY <1>1, <1>2 DEF Writing, Tags
<1>4. \/ Writer!Call(x, o, c, n)
      \/ w' = [w EXCEPT ![x] = s] /\ UNCHANGED <<member, blocked, consent, contact, unseen>>
  BY DEF Writer!Remove
<1> HIDE DEF s
<1>5. n \in Writing /\ n.pc # "put"
  BY <1>3 DEF Writing
<1>6. ContactOK(c)
  BY <1>1 DEF ContactOK, Contact, Tags
<1> HIDE DEF n, c
<1>7. WritingOK(n) /\ WritingOK(s)
  BY <1>3, <1>5 DEF WritingOK
<1> QED BY <1>1, <1>4, <1>6, <1>7, CallKeeps, GoesOnKeeps

LEMMA ResubscribeKeeps ==
    ASSUME WriterInv, NEW x \in Writers, NEW o, Writer!Resubscribe(x, o) PROVE WriterInv'
<1> DEFINE s == [w[x] EXCEPT !.resubDone = TRUE, !.pc = "finish"]
           c == IF contact = None THEN None ELSE [contact EXCEPT !.active = TRUE]
<1>1. w[x] # None /\ w[x] \in Writing /\ ContactOK(contact)
  BY DEF Writer!Resubscribe, WriterInv, WritingOK
<1>2. s \in Writing /\ s.pc # "put"
  BY <1>1 DEF Writing
<1>3. ContactOK(c)
  BY <1>1 DEF ContactOK, Contact
<1>4. \/ Writer!Call(x, o, c, s)
      \/ w' = [w EXCEPT ![x] = s] /\ UNCHANGED <<member, blocked, consent, contact, unseen>>
  BY DEF Writer!Resubscribe
<1> HIDE DEF s, c
<1>5. WritingOK(s)
  BY <1>2 DEF WritingOK
<1> QED BY <1>1, <1>3, <1>4, <1>5, CallKeeps, GoesOnKeeps

LEMMA BeginKeeps == ASSUME WriterInv, NEW x \in Writers, Writer!Begin(x) PROVE WriterInv'
<1> DEFINE pc == IF Writer!Adds(member) # {} \/ member.resub THEN "get"
                 ELSE IF Writer!Removes(member) # {} THEN "remove" ELSE "finish"
           n  == [pc |-> pc, seen |-> member, adds |-> Writer!Adds(member),
                  removes |-> Writer!Removes(member), read |-> Writer!Unread, tags |-> member.tags,
                  mc |-> member.mc, resubDone |-> FALSE, moved |-> FALSE, kind |-> "ok"]
<1>1. member \in Member
  BY DEF Writer!Begin, WriterInv, RowOK
<1>2. Writer!Adds(member) \in Tags /\ Writer!Removes(member) \in Tags
  BY <1>1 DEF Writer!Adds, Writer!Removes, Writer!DesiredTags, Member, Tags
<1>3. pc \in {"get", "remove", "finish"}
  OBVIOUS
<1>4. w' = [w EXCEPT ![x] = n] /\ UNCHANGED <<member, blocked, consent, contact, unseen>>
  BY DEF Writer!Begin
<1> HIDE DEF pc
<1>5. n \in Writing /\ n.pc # "put"
  BY <1>1, <1>2, <1>3 DEF Writing, Member
<1> HIDE DEF n
<1> QED BY <1>4, <1>5, GoesOnKeeps DEF WritingOK

\* The write is recorded: what it did not read stays due.
LEMMA FinishKeeps == ASSUME WriterInv, NEW x \in Writers, Writer!Finish(x) PROVE WriterInv'
<1> DEFINE s == w[x]
           resub == IF s.resubDone /\ Writer!Untouched(x) THEN FALSE ELSE member.resub
           ok == [member EXCEPT !.tags = s.tags, !.mc = s.mc, !.resub = resub, !.refused = FALSE,
                                !.due = ~Writer!Untouched(x)]
           no == [member EXCEPT !.tags = s.tags, !.mc = s.mc, !.refused = s.kind = "FATAL",
                                !.due = s.kind # "FATAL"]
<1>1. s # None /\ s \in Writing
  BY DEF Writer!Finish, WriterInv, WritingOK
<1>2. /\ UNCHANGED <<blocked, consent, contact>>
      /\ unseen' = IF ~s.moved THEN "no" ELSE IF unseen = "new" /\ s.kind = "FATAL" THEN "refused" ELSE unseen
  BY DEF Writer!Finish
<1>3. /\ unseen' \in {"no", "new", "refused"}
      /\ unseen' = "new" => ~Writer!Untouched(x) /\ s.kind # "FATAL"
  BY <1>1, <1>2 DEF WriterInv, Writing, Writer!Untouched
<1>4. w' = [y \in Writers |-> w'[y]] /\ \A y \in Writers : WritingOK(w'[y])
  <2>1. CASE member = None
    <3>1. w' = [w EXCEPT ![x] = None]
      BY <2>1 DEF Writer!Finish
    <3> QED BY <3>1 DEF WriterInv, WritingOK
  <2>2. CASE member # None
    <3>1. w' = [y \in Writers |-> IF y = x THEN None ELSE Writer!Moved[y]]
      BY <2>2 DEF Writer!Finish
    <3> QED BY <3>1, MovedOK DEF WritingOK
  <2> QED BY <2>1, <2>2
<1>5. ASSUME member # None
      PROVE  /\ ok \in Member /\ ok.due = ~Writer!Untouched(x)
             /\ no \in Member /\ (s.kind # "FATAL" => no.due)
  <2>1. member \in Member /\ s.tags \in Tags /\ s.mc \in {"UNKNOWN", "PRESENT", "ABSENT"}
    BY <1>1, <1>5 DEF WriterInv, RowOK, Writing
  <2>2. resub \in BOOLEAN /\ (~Writer!Untouched(x)) \in BOOLEAN
    BY <2>1 DEF Member
  <2> HIDE DEF resub
  <2>3. ok \in Member /\ ok.due = ~Writer!Untouched(x)
    BY <2>1, <2>2 DEF Member
  <2>4. no \in Member /\ (s.kind # "FATAL" => no.due)
    BY <2>1 DEF Member
  <2> QED BY <2>3, <2>4
<1>6. member' = None \/ (member # None /\ (member' = ok \/ member' = no))
  BY DEF Writer!Finish
<1> HIDE DEF ok, no
<1>7. RowOK(member') /\ (member' # None /\ unseen' = "new" => member'.due)
  BY <1>3, <1>5, <1>6 DEF RowOK
<1> QED BY <1>2, <1>3, <1>4, <1>7 DEF WriterInv, RowOK, ContactOK, WritingOK, StillDue

LEMMA WriterKeeps ==
    ASSUME WriterInv, [Writer!Next]_(Writer!vars) PROVE WriterInv'
<1>1. CASE UNCHANGED Writer!vars
  BY <1>1 DEF Writer!vars, WriterInv, RowOK, ContactOK, WritingOK, StillDue
<1>2. CASE Writer!Ingest
  <2>1. PICK role \in {"PREMIUM", "NONE"}, bar \in BOOLEAN, agreed \in BOOLEAN :
            consent' = agreed /\ Writer!Recompute(role, bar, blocked, member # None /\ member.resub)
    BY <1>2 DEF Writer!Ingest
  <2>2. (member # None /\ member.resub) \in BOOLEAN /\ blocked \in BOOLEAN
    BY DEF WriterInv
  <2>3. blocked' \in BOOLEAN /\ consent' \in BOOLEAN /\ contact' = contact
    BY <1>2, <2>1, <2>2 DEF Writer!Ingest
  <2> HIDE DEF WriterInv
  <2> QED BY <2>1, <2>2, <2>3, RecomputeKeeps
<1>3. CASE Writer!Lift
  <2>1. /\ member.role \in {"PREMIUM", "NONE"} /\ Writer!Recompute(member.role, FALSE, FALSE, TRUE)
        /\ blocked' \in BOOLEAN /\ consent' \in BOOLEAN /\ contact' = contact
    BY <1>3 DEF Writer!Lift, WriterInv, RowOK, Member
  <2> QED BY <2>1, RecomputeKeeps
<1>4. CASE Writer!Erase
  <2>1. /\ w' = Writer!Moved /\ unseen' = "no" /\ contact' = None /\ consent' = FALSE
        /\ blocked' = blocked
        /\ member' = [role |-> "NONE", bar |-> TRUE, held |-> TRUE, mail |-> FALSE, resub |-> FALSE,
                      tags |-> {}, mc |-> "ABSENT", due |-> FALSE, refused |-> member.refused]
    BY <1>4 DEF Writer!Erase
  <2>2. member.refused \in BOOLEAN
    BY <1>4 DEF Writer!Erase, WriterInv, RowOK, Member
  <2>3. member' \in Member
    BY <2>1, <2>2 DEF Member, Tags
  <2> QED BY <2>1, <2>3, MovedOK DEF WriterInv, RowOK, ContactOK, WritingOK, StillDue
<1>5. CASE Writer!OptOut
  <2>1. contact \in Contact /\ contact' = [contact EXCEPT !.active = FALSE]
        /\ blocked' = TRUE /\ consent' = consent
    BY <1>5 DEF Writer!OptOut, WriterInv, ContactOK
  <2>2. contact' \in Contact
    BY <2>1 DEF Contact
  <2>3. CASE member # None /\ ~member.held
    <3>1. /\ member' = [member EXCEPT !.held = TRUE, !.due = TRUE]
          /\ w' = Writer!Moved /\ unseen' = "new" /\ member \in Member
      BY <1>5, <2>3 DEF Writer!OptOut, WriterInv, RowOK
    <3>2. member' \in Member /\ member'.due
      BY <3>1 DEF Member
    <3> QED BY <2>1, <2>2, <3>1, <3>2, MovedOK DEF WriterInv, RowOK, ContactOK, WritingOK, StillDue
  <2>4. CASE ~(member # None /\ ~member.held)
    <3>1. UNCHANGED <<member, w, unseen>>
      BY <1>5, <2>4 DEF Writer!OptOut
    <3> QED BY <2>1, <2>2, <3>1 DEF WriterInv, RowOK, ContactOK, WritingOK, StillDue
  <2> QED BY <2>3, <2>4
<1>6. CASE Writer!RetryRefused
  <2>1. /\ member' = [member EXCEPT !.due = TRUE, !.refused = FALSE]
        /\ w' = Writer!Moved /\ UNCHANGED <<blocked, consent, contact, unseen>> /\ member \in Member
    BY <1>6 DEF Writer!RetryRefused, WriterInv, RowOK
  <2>2. member' \in Member /\ member'.due
    BY <2>1 DEF Member
  <2> QED BY <2>1, <2>2, MovedOK DEF WriterInv, RowOK, ContactOK, WritingOK, StillDue
<1>7. CASE Writer!Drift
  <2> DEFINE tags == IF contact = None THEN {} ELSE contact.tags
             mc == IF contact = None THEN "ABSENT" ELSE "PRESENT"
  <2>1. /\ member' = [member EXCEPT !.tags = tags, !.mc = mc, !.due = TRUE] /\ member \in Member
        /\ UNCHANGED <<blocked, consent, contact, w, unseen>>
    BY <1>7 DEF Writer!Drift, WriterInv, RowOK
  <2>2. tags \in Tags
    BY DEF WriterInv, ContactOK, Contact, Tags
  <2>3. member' \in Member /\ member'.due
    BY <2>1, <2>2 DEF Member
  <2> QED BY <2>1, <2>3 DEF WriterInv, RowOK, ContactOK, WritingOK, StillDue
<1>8. ASSUME NEW x \in Writers, Writer!Crash(x) PROVE WriterInv'
  BY <1>8, GoesOnKeeps DEF Writer!Crash, WritingOK
<1> QED BY <1>1, <1>2, <1>3, <1>4, <1>5, <1>6, <1>7, <1>8, BeginKeeps, FinishKeeps, GetKeeps,
           CreateKeeps, PutKeeps, RemoveKeeps, ResubscribeKeeps DEF Writer!Next

\* What ingest or an opt-out changed while a write was on its way is never taken for
\* written, whatever was lost or crashed: the row stays due until a write has read the
\* change, or until Mailercloud refuses one that had not.
THEOREM ChangesStayDue == Writer!Spec => []Writer!ChangeStaysDue
<1>1. Writer!Init => WriterInv
  BY DEF Writer!Init, WriterInv, RowOK, ContactOK, WritingOK, StillDue
<1>2. WriterInv /\ [Writer!Next]_(Writer!vars) => WriterInv'
  BY WriterKeeps
<1>3. WriterInv => Writer!ChangeStaysDue
  BY DEF WriterInv, StillDue, Writer!ChangeStaysDue
<1> QED BY <1>1, <1>2, <1>3, PTL DEF Writer!Spec

\* The row, the contact and the writes in flight hold values of their kind.
THEOREM WriterTypes == Writer!Spec => []Writer!TypeOK
<1>1. Writer!Init => WriterInv
  BY DEF Writer!Init, WriterInv, RowOK, ContactOK, WritingOK, StillDue
<1>2. WriterInv /\ [Writer!Next]_(Writer!vars) => WriterInv'
  BY WriterKeeps
<1>3. WriterInv => Writer!TypeOK
  BY DEF WriterInv, RowOK, ContactOK, WritingOK, Member, Contact, Writing, Tags, Writer!TypeOK
<1> QED BY <1>1, <1>2, <1>3, PTL DEF Writer!Spec

-----------------------------------------------------------------------------
(* LinkedIn's token                                                        *)

CONSTANTS Containers, Ttl, Window, MaxPaste, MaxRenewals
VARIABLES runs, row, ids, cache, check, checked, left, missed

Token == INSTANCE TokenRenewal

\* The stored row is of one pasted token, and believes no more days than its token has,
\* unless it was made on a later day than the token was pasted.
RowKnown ==
    row.id # 0 => /\ row.id <= ids /\ row.fp \in 1 .. Token!Newest /\ row.tok[1] = row.fp
                  /\ ~row.late => IF row.source = "estimate" THEN Ttl - row.age <= left[row.tok]
                                  ELSE row.left <= left[row.tok]

\* A check is of a container that runs, of its own token, and knows its row by its id.
CheckKnown(c) ==
    check[c].pc # "idle" =>
        /\ runs[c] # 0 /\ c \notin checked /\ check[c].id \in 1 .. ids
        /\ check[c].tok[1] = runs[c]
        /\ Token!SameRow(c) => row.fp = runs[c] /\ row.tok = check[c].tok
        /\ Token!Matches(c) => Token!SameRow(c)

\* The newest container without a row has its pasted token, and a day of it at most went by.
AtRest(c) ==
    ~Token!Matches(c) =>
        /\ left[Token!Pasted(c)] >= Ttl - 1
        /\ c \in checked \/ check[c].pc # "idle" => left[Token!Pasted(c)] = Ttl

\* While an older container runs beside it, no day has gone by.
Beside == (\E d \in Token!Live : runs[d] # Token!Newest) => left[<<Token!Newest, 0>>] = Ttl

\* Its token has a day left for each failed renewal that may still follow, and the day of
\* a check that is over.
Ahead(c) ==
    missed <= Window /\ ~(Token!Matches(c) /\ row.late) =>
        left[Token!Active(c)] >= (IF c \in checked THEN Window + 1 ELSE Window) - missed

Front(c) == runs[c] = Token!Newest => AtRest(c) /\ Ahead(c)

TokenInv ==
    /\ Token!TypeOK /\ Token!Live # {}
    /\ \A c, d \in Token!Live : runs[c] = runs[d] => c = d
    /\ RowKnown /\ Beside
    /\ \A c \in Containers : CheckKnown(c)
    /\ \A c \in Token!Live : cache[c][1] = runs[c] /\ Front(c)

\* A set of numbers has a least one.
LEMMA LeastOf ==
    ASSUME NEW S \in SUBSET Nat, S # {}
    PROVE  \E x \in S : \A y \in S : x <= y
<1> DEFINE R == OpToRel(<, Nat)
<1>1. IsWellFoundedOn(R, Nat)
  BY NatLessThanWellFounded
<1>2. \A x, y \in S : y < x => <<y, x>> \in R
  BY DEF OpToRel
<1> HIDE DEF R
<1>3. PICK x \in S : \A y \in S : ~ (<<y, x>> \in R)
  BY <1>1, WFMin
<1>4. \A y \in S : ~(y < x)
  BY <1>2, <1>3
<1>5. x \in Nat /\ \A y \in S : y \in Nat
  OBVIOUS
<1>6. \A y \in S : x <= y
  BY <1>4, <1>5
<1> QED BY <1>6

\* The newest of the tokens that containers run with.
LEMMA NewestRuns ==
    ASSUME Token!TokenOK, runs \in [Containers -> Token!Pastes], Token!Live # {}
    PROVE  /\ Token!Newest \in 1 .. 1 + MaxPaste
           /\ \E c \in Token!Live : runs[c] = Token!Newest
           /\ \A c \in Token!Live : runs[c] <= Token!Newest
<1> DEFINE S == {n \in Nat : \E c \in Token!Live : runs[c] + n = 1 + MaxPaste}
<1>1. MaxPaste \in Nat /\ \A c \in Token!Live : c \in Containers /\ runs[c] \in 1 .. 1 + MaxPaste
  BY DEF Token!TokenOK, Token!Live, Token!Pastes
<1>2. \A c \in Token!Live : (1 + MaxPaste) - runs[c] \in S
  BY <1>1
<1>3. PICK x \in S : \A y \in S : x <= y
  BY <1>2, LeastOf
<1>4. PICK c \in Token!Live : runs[c] + x = 1 + MaxPaste
  BY <1>3
<1>5. \A d \in Token!Live : runs[d] <= runs[c]
  BY <1>1, <1>2, <1>3, <1>4
<1> HIDE DEF S
<1>6. \E e \in Token!Pastes : /\ \E d \in Token!Live : runs[d] = e
                              /\ \A d \in Token!Live : runs[d] <= e
  BY <1>1, <1>5 DEF Token!Live
<1>7. /\ Token!Newest \in Token!Pastes /\ \E d \in Token!Live : runs[d] = Token!Newest
      /\ \A d \in Token!Live : runs[d] <= Token!Newest
  BY <1>6 DEF Token!Newest
<1> QED BY <1>1, <1>7

\* There is only one newest token.
LEMMA NewestIs ==
    ASSUME MaxPaste \in Nat, NEW e \in Token!Pastes, runs' \in [Containers -> Token!Pastes],
           \E c \in Token!Live' : runs'[c] = e, \A c \in Token!Live' : runs'[c] <= e
    PROVE  Token!Newest' = e
<1>1. \A c \in Token!Live' : runs'[c] \in Int
  BY DEF Token!Live, Token!Pastes
<1>2. \A f \in Token!Pastes : /\ \E c \in Token!Live' : runs'[c] = f
                              /\ \A c \in Token!Live' : runs'[c] <= f
                              => f = e
  BY <1>1 DEF Token!Pastes
<1> QED BY <1>2 DEF Token!Newest

\* What every step relies on.
LEMMA TokenFacts ==
    ASSUME Token!TokenOK, TokenInv
    PROVE  /\ Ttl \in Nat /\ Window \in Nat /\ Window + 1 <= Ttl /\ MaxPaste \in Nat /\ MaxRenewals \in Nat
           /\ Token!Newest \in 1 .. 1 + MaxPaste
           /\ \A c \in Token!Live : c \in Containers /\ runs[c] \in 1 .. Token!Newest
           /\ \A n \in 1 .. 1 + MaxPaste : <<n, 0>> \in Token!Tokens
           /\ \A t \in Token!Tokens : left[t] \in -1 .. Ttl
           /\ row \in Token!Row /\ row.tok \in Token!Tokens /\ ids \in Nat /\ missed \in 0 .. Window + 1
           /\ \A c \in Containers : check[c].tok \in Token!Tokens /\ check[c].id \in Nat
<1>1. /\ Ttl \in Nat /\ Window \in Nat /\ Window + 1 <= Ttl /\ MaxPaste \in Nat /\ MaxRenewals \in Nat
  BY DEF Token!TokenOK
<1>2. /\ Token!Newest \in 1 .. 1 + MaxPaste
      /\ \A c \in Token!Live : runs[c] <= Token!Newest
  BY NewestRuns DEF TokenInv, Token!TypeOK
<1>3. \A c \in Token!Live : c \in Containers /\ runs[c] \in 1 .. Token!Newest
  BY <1>1, <1>2 DEF TokenInv, Token!TypeOK, Token!Live, Token!Pastes
<1>4. \A n \in 1 .. 1 + MaxPaste : <<n, 0>> \in Token!Tokens
  BY <1>1 DEF Token!Tokens
<1>5. /\ \A t \in Token!Tokens : left[t] \in -1 .. Ttl
      /\ row \in Token!Row /\ row.tok \in Token!Tokens /\ missed \in 0 .. Window + 1
  BY DEF TokenInv, Token!TypeOK, Token!Row
<1>6. ids \in Nat /\ \A c \in Containers : check[c].tok \in Token!Tokens /\ check[c].id \in Nat
  BY <1>1 DEF TokenInv, Token!TypeOK, Token!MaxIds
<1> QED BY <1>1, <1>2, <1>3, <1>4, <1>5, <1>6

\* A container without a row is ahead.
LEMMA RestIsAhead ==
    ASSUME Token!TokenOK, TokenInv,
           NEW c \in Token!Live', left' \in [Token!Tokens -> -1 .. Ttl], missed' \in 0 .. Window + 1,
           Token!Pasted(c)' \in Token!Tokens, AtRest(c)', ~Token!Matches(c)'
    PROVE  Front(c)'
<1>1. Token!Active(c)' = Token!Pasted(c)'
  BY DEF Token!Active
<1>2. left'[Token!Pasted(c)'] \in -1 .. Ttl
  OBVIOUS
<1>3. Window \in Nat /\ Ttl \in Nat /\ Window + 1 <= Ttl
  BY DEF Token!TokenOK
<1>4. /\ left'[Token!Pasted(c)'] >= Ttl - 1
      /\ c \in checked' => left'[Token!Pasted(c)'] = Ttl
  BY DEF AtRest
<1>5. left'[Token!Pasted(c)'] >= (IF c \in checked' THEN Window + 1 ELSE Window) - missed'
  BY <1>2, <1>3, <1>4
<1> QED BY <1>1, <1>5 DEF Front, Ahead

\* A container that a step touches only to give its tokens more days stays ahead.
LEMMA FrontKept ==
    ASSUME Token!TokenOK, TokenInv, NEW d \in Token!Live,
           left' \in [Token!Tokens -> -1 .. Ttl], \A t \in Token!Tokens : left'[t] >= left[t],
           runs'[d] = runs[d], Token!Newest' = Token!Newest, missed' = missed,
           row'.id = row.id, row'.fp = row.fp, row'.tok = row.tok, row'.late = row.late,
           d \in checked' => d \in checked, check'[d].pc # "idle" => check[d].pc # "idle"
    PROVE  Front(d)'
<1> SUFFICES ASSUME runs[d] = Token!Newest PROVE AtRest(d)' /\ Ahead(d)'
  BY DEF Front
<1>1. AtRest(d) /\ Ahead(d)
  BY DEF TokenInv, Front
<1>2. /\ Token!Matches(d)' = Token!Matches(d) /\ Token!Active(d)' = Token!Active(d)
      /\ Token!Pasted(d)' = Token!Pasted(d)
  BY DEF Token!Matches, Token!Active, Token!Pasted
<1>3. Token!Pasted(d) \in Token!Tokens /\ Token!Active(d) \in Token!Tokens
  BY TokenFacts DEF Token!Pasted, Token!Active
<1>4. /\ left[Token!Pasted(d)] \in -1 .. Ttl /\ left[Token!Active(d)] \in -1 .. Ttl
      /\ Ttl \in Nat /\ Window \in Nat /\ missed \in 0 .. Window + 1
  BY <1>3, TokenFacts
<1>5. /\ left'[Token!Pasted(d)'] >= left[Token!Pasted(d)]
      /\ left'[Token!Active(d)'] >= left[Token!Active(d)]
      /\ left'[Token!Pasted(d)'] \in -1 .. Ttl /\ left'[Token!Active(d)'] \in -1 .. Ttl
  BY <1>2, <1>3
<1>6. AtRest(d)'
  BY <1>1, <1>2, <1>4, <1>5 DEF AtRest
<1>7. Ahead(d)'
  BY <1>1, <1>2, <1>4, <1>5 DEF Ahead
<1> QED BY <1>6, <1>7

\* A container whose row another one dropped or replaced: its token is of today.
LEMMA RestAfterDrop ==
    ASSUME Token!TokenOK, TokenInv, NEW c \in Token!Live, NEW d \in Token!Live, runs[d] = Token!Newest,
           ~Token!Matches(c), runs' = runs, left' = left, missed' = missed, checked' = checked,
           check'[d] = check[d], ~Token!Matches(d)'
    PROVE  Front(d)'
<1>1. Token!Newest' = Token!Newest /\ Token!Live' = Token!Live /\ Token!Pasted(d)' = Token!Pasted(d)
  BY DEF Token!Newest, Token!Live, Token!Pasted
<1>2. Token!Pasted(d) \in Token!Tokens /\ left[Token!Pasted(d)] \in -1 .. Ttl /\ Ttl \in Nat
  BY TokenFacts DEF Token!Pasted
<1>3. CASE ~Token!Matches(d)
  <2>1. AtRest(d)
    BY DEF TokenInv, Front
  <2>2. AtRest(d)'
    BY <1>1, <1>3, <2>1 DEF AtRest
  <2> QED BY <1>1, <1>2, <2>2, RestIsAhead DEF TokenInv, Token!TypeOK
<1>4. CASE Token!Matches(d)
  <2>1. runs[c] # Token!Newest
    BY <1>4 DEF TokenInv
  <2>2. left[Token!Pasted(d)] = Ttl
    BY <2>1 DEF TokenInv, Beside, Token!Pasted
  <2>3. AtRest(d)'
    BY <1>1, <1>2, <2>2 DEF AtRest
  <2> QED BY <1>1, <1>2, <2>3, RestIsAhead DEF TokenInv, Token!TypeOK
<1> QED BY <1>3, <1>4

LEMMA ResolveKeeps ==
    ASSUME Token!TokenOK, TokenInv, NEW c \in Containers, Token!Resolve(c) PROVE TokenInv'
<1>1. /\ runs' = runs /\ ids' = ids /\ check' = check /\ checked' = checked /\ left' = left
      /\ missed' = missed /\ blocked' = blocked /\ c \in Token!Live
  BY DEF Token!Resolve, Token!Live
<1>2. Token!Newest' = Token!Newest /\ Token!Live' = Token!Live
  BY <1>1 DEF Token!Newest, Token!Live
<1>3. row' = row \/ (~Token!Matches(c) /\ row' = Token!NoRow)
  BY DEF Token!Resolve
<1>4. Token!Active(c) \in Token!Tokens /\ Token!Active(c)[1] = runs[c]
  BY <1>1, TokenFacts DEF Token!Active, Token!Pasted, Token!Matches, TokenInv, RowKnown
<1>5. cache' = [cache EXCEPT ![c] = Token!Active(c)]
  BY DEF Token!Resolve
<1>6. cache' \in [Containers -> Token!Tokens] /\ \A d \in Token!Live : cache'[d][1] = runs[d]
  BY <1>4, <1>5 DEF TokenInv, Token!TypeOK, Token!Live
<1>7. Token!NoRow \in Token!Row
  BY TokenFacts DEF Token!NoRow, Token!Row, Token!Tokens, Token!Pastes, Token!MaxIds
<1>8. Token!TypeOK'
  BY <1>1, <1>3, <1>6, <1>7 DEF TokenInv, Token!TypeOK
<1>9. RowKnown'
  BY <1>1, <1>2, <1>3 DEF TokenInv, RowKnown, Token!NoRow
<1>10. Beside'
  BY <1>1, <1>2 DEF TokenInv, Beside
<1>11. \A d \in Containers : CheckKnown(d)'
  BY <1>1, <1>3, TokenFacts DEF TokenInv, CheckKnown, Token!SameRow, Token!Matches, Token!NoRow
<1>12. ASSUME NEW d \in Token!Live PROVE Front(d)'
  <2>1. CASE row' = row
    BY <1>1, <1>2, <2>1, FrontKept, TokenFacts DEF TokenInv, Token!TypeOK
  <2>2. CASE (~Token!Matches(c)) /\ row' = Token!NoRow
    <3>1. ~Token!Matches(d)'
      BY <2>2 DEF Token!Matches, Token!NoRow
    <3>2. CASE runs[d] = Token!Newest
      BY <1>1, <2>2, <3>1, <3>2, RestAfterDrop
    <3>3. CASE runs[d] # Token!Newest
      BY <1>1, <1>2, <3>3 DEF Front
    <3> QED BY <3>2, <3>3
  <2> QED BY <1>3, <2>1, <2>2
<1>13. /\ Token!Live' # {} /\ \A a, b \in Token!Live' : runs'[a] = runs'[b] => a = b
  BY <1>1, <1>2 DEF TokenInv
<1>14. \A d \in Token!Live' : cache'[d][1] = runs'[d] /\ Front(d)'
  BY <1>1, <1>2, <1>6, <1>12
<1> QED BY <1>8, <1>9, <1>10, <1>11, <1>13, <1>14 DEF TokenInv

LEMMA EnsureRowKeeps ==
    ASSUME Token!TokenOK, TokenInv, NEW c \in Containers, Token!EnsureRow(c) PROVE TokenInv'
<1> DEFINE late == left[Token!Pasted(c)] < Ttl
           new == [Token!NoRow EXCEPT !.id = ids + 1, !.fp = runs[c], !.tok = Token!Pasted(c),
                                      !.late = late]
<1>1. /\ runs' = runs /\ cache' = cache /\ checked' = checked /\ left' = left
      /\ missed' = missed /\ blocked' = blocked /\ c \in Token!Live /\ c \notin checked
      /\ check[c].pc = "idle"
  BY DEF Token!EnsureRow, Token!Live
<1>2. Token!Newest' = Token!Newest /\ Token!Live' = Token!Live
  BY <1>1 DEF Token!Newest, Token!Live
<1>3. \/ Token!Matches(c) /\ row' = row /\ ids' = ids
      \/ (~Token!Matches(c)) /\ ids < Token!MaxIds /\ ids' = ids + 1 /\ row' = new
  BY DEF Token!EnsureRow
<1>4. check' = [check EXCEPT ![c] = [pc |-> "inspect", id |-> row'.id, tok |-> row'.tok]]
  BY DEF Token!EnsureRow
<1>5. /\ Token!Pasted(c) \in Token!Tokens /\ runs[c] \in 1 .. Token!Newest
      /\ left[Token!Pasted(c)] \in -1 .. Ttl /\ Token!Pasted(c)[1] = runs[c]
      /\ Ttl \in Nat /\ Window \in Nat /\ Window + 1 <= Ttl /\ MaxPaste \in Nat
      /\ Token!Newest \in 1 .. 1 + MaxPaste /\ ids \in Nat /\ Token!MaxIds \in Nat
  BY <1>1, TokenFacts DEF Token!Pasted, Token!MaxIds
<1>6. /\ new.id = ids + 1 /\ new.fp = runs[c] /\ new.tok = Token!Pasted(c) /\ new.age = 0
      /\ new.source = "estimate" /\ new.left = 0
  BY DEF Token!NoRow
<1>0. late \in BOOLEAN /\ (late = TRUE \/ left[Token!Pasted(c)] = Ttl)
  BY <1>5
<1> HIDE DEF late
<1>7. ids < Token!MaxIds => new \in Token!Row /\ new.late = late
  <2>1. Token!NoRow \in Token!Row
    BY TokenFacts DEF Token!NoRow, Token!Row, Token!Tokens, Token!Pastes, Token!MaxIds
  <2>2. runs[c] \in Token!Pastes /\ (ids < Token!MaxIds => ids + 1 \in 0 .. Token!MaxIds)
    BY <1>5 DEF Token!Pastes
  <2>3. late \in BOOLEAN /\ Token!Pasted(c) \in Token!Tokens
    BY <1>5, <1>0
  <2> QED BY <2>1, <2>2, <2>3 DEF Token!Row
<1> HIDE DEF new
<1>8. /\ row' \in Token!Row /\ ids' \in 0 .. Token!MaxIds /\ ids <= ids'
      /\ row'.id \in 1 .. ids' /\ row'.fp = runs[c] /\ row'.tok[1] = runs[c]
  <2>1. CASE Token!Matches(c) /\ row' = row /\ ids' = ids
    BY <2>1, <1>5, TokenFacts DEF TokenInv, Token!TypeOK, RowKnown, Token!Matches, Token!Row
  <2>2. CASE (~Token!Matches(c)) /\ ids < Token!MaxIds /\ ids' = ids + 1 /\ row' = new
    BY <2>2, <1>5, <1>6, <1>7
  <2> QED BY <1>3, <2>1, <2>2
<1>9. row'.tok \in Token!Tokens /\ row'.id \in 0 .. Token!MaxIds
  BY <1>8 DEF Token!Row
<1>10. /\ check'[c] = [pc |-> "inspect", id |-> row'.id, tok |-> row'.tok]
       /\ \A d \in Containers : d # c => check'[d] = check[d]
  BY <1>4 DEF TokenInv, Token!TypeOK
<1>11. check' \in [Containers -> [pc: {"idle", "inspect", "renew"}, id: 0 .. Token!MaxIds,
                                  tok: Token!Tokens]]
  BY <1>4, <1>9 DEF TokenInv, Token!TypeOK
<1>12. Token!TypeOK'
  BY <1>1, <1>8, <1>11 DEF TokenInv, Token!TypeOK
<1>13. RowKnown'
  <2>1. CASE Token!Matches(c) /\ row' = row /\ ids' = ids
    BY <1>1, <1>2, <2>1 DEF TokenInv, RowKnown
  <2>2. CASE (~Token!Matches(c)) /\ ids < Token!MaxIds /\ ids' = ids + 1 /\ row' = new
    <3>1. /\ row'.id = ids + 1 /\ row'.fp = runs[c] /\ row'.tok = Token!Pasted(c) /\ row'.age = 0
          /\ row'.source = "estimate" /\ (row'.late = TRUE \/ left[Token!Pasted(c)] = Ttl)
      BY <2>2, <1>6, <1>0, <1>7
    <3> QED BY <3>1, <2>2, <1>1, <1>2, <1>5 DEF RowKnown
  <2> QED BY <1>3, <2>1, <2>2
<1>14. Beside'
  BY <1>1, <1>2 DEF TokenInv, Beside
<1>15. ASSUME NEW d \in Containers PROVE CheckKnown(d)'
  <2>1. CASE d = c
    BY <2>1, <1>1, <1>8, <1>10 DEF CheckKnown, Token!SameRow, Token!Matches, Token!Live
  <2>2. CASE d # c /\ row' = row
    BY <2>2, <1>1, <1>8, <1>10, TokenFacts DEF TokenInv, CheckKnown, Token!SameRow, Token!Matches
  <2>3. CASE d # c /\ ids' = ids + 1 /\ row' = new
    <3> SUFFICES ASSUME check'[d].pc # "idle" PROVE CheckKnown(d)'
      BY DEF CheckKnown
    <3>1. check'[d] = check[d] /\ check[d].pc # "idle"
      BY <2>3, <1>10
    <3>2. /\ runs[d] # 0 /\ d \notin checked /\ check[d].id \in 1 .. ids /\ check[d].tok[1] = runs[d]
      BY <3>1 DEF TokenInv, CheckKnown
    <3>3. ~Token!SameRow(d)'
      BY <3>1, <3>2, <2>3, <1>5, <1>6 DEF Token!SameRow
    <3>4. ~Token!Matches(d)'
      BY <3>2, <2>3, <1>1, <1>6 DEF Token!Matches, TokenInv, Token!Live
    <3> QED BY <3>1, <3>2, <3>3, <3>4, <1>1, <1>5, <2>3 DEF CheckKnown
  <2> QED BY <1>3, <2>1, <2>2, <2>3
<1>16. ASSUME NEW d \in Token!Live PROVE Front(d)'
  <2>1. CASE runs[d] # Token!Newest
    BY <2>1, <1>1, <1>2 DEF Front
  <2>2. CASE d # c /\ row' = row
    <3>1. check'[d] = check[d]
      BY <2>2, <1>10 DEF Token!Live
    <3> QED BY <3>1, <2>2, <1>1, <1>2, FrontKept, TokenFacts DEF TokenInv, Token!TypeOK
  <2>3. CASE d # c /\ (~Token!Matches(c)) /\ row' = new /\ runs[d] = Token!Newest
    <3>1. check'[d] = check[d]
      BY <2>3, <1>10 DEF Token!Live
    <3>2. ~Token!Matches(d)'
      BY <2>3, <1>1, <1>6 DEF Token!Matches, TokenInv
    <3> QED BY <3>1, <3>2, <2>3, <1>1, RestAfterDrop
  <2>4. CASE d = c /\ row' = row /\ Token!Matches(c)
    <3>1. Token!Matches(c)' /\ Token!Active(c)' = Token!Active(c)
      BY <2>4, <1>1 DEF Token!Matches, Token!Active, Token!Pasted
    <3>2. Ahead(c) \/ runs[c] # Token!Newest
      BY <1>1 DEF TokenInv, Front
    <3> QED BY <3>1, <3>2, <2>4, <1>1, <1>2 DEF Front, AtRest, Ahead
  <2>5. CASE d = c /\ row' = new /\ ids < Token!MaxIds
    <3>1. Token!Matches(c)' /\ Token!Active(c)' = Token!Pasted(c)
      BY <2>5, <1>1, <1>5, <1>6, <1>8 DEF Token!Matches, Token!Active
    <3>2. row'.late = TRUE \/ left[Token!Pasted(c)] = Ttl
      BY <2>5, <1>0, <1>7
    <3>3. missed \in Nat /\ missed' = missed /\ left' = left /\ c \notin checked'
      BY <1>1, TokenFacts
    <3>4. AtRest(c)'
      BY <3>1 DEF AtRest
    <3>5. Ahead(c)'
      BY <3>1, <3>2, <3>3, <1>5 DEF Ahead
    <3> QED BY <3>4, <3>5, <2>5 DEF Front
  <2> QED BY <1>3, <2>1, <2>2, <2>3, <2>4, <2>5
<1>17. /\ Token!Live' # {} /\ \A a, b \in Token!Live' : runs'[a] = runs'[b] => a = b
  BY <1>1, <1>2 DEF TokenInv
<1>18. \A d \in Token!Live' : cache'[d][1] = runs'[d] /\ Front(d)'
  BY <1>1, <1>2, <1>16 DEF TokenInv
<1> QED BY <1>12, <1>13, <1>14, <1>15, <1>17, <1>18 DEF TokenInv

\* What the end of a check does to the others, and to a container without a row.
LEMMA OverFacts ==
    ASSUME Token!TokenOK, TokenInv, NEW c \in Containers, Token!Over(c)
    PROVE  /\ check' \in [Containers -> [pc: {"idle", "inspect", "renew"}, id: 0 .. Token!MaxIds,
                                         tok: Token!Tokens]]
           /\ checked' \subseteq Containers /\ check'[c].pc = "idle"
           /\ \A d \in Containers : d # c => /\ check'[d] = check[d]
                                             /\ d \in checked' => d \in checked
<1>1. check' = [check EXCEPT ![c] = Token!Idle] /\ checked' = checked \cup {c}
  BY DEF Token!Over
<1>2. Token!Idle \in [pc: {"idle", "inspect", "renew"}, id: 0 .. Token!MaxIds, tok: Token!Tokens]
  BY TokenFacts DEF Token!Idle, Token!Tokens, Token!MaxIds
<1>3. Token!Idle.pc = "idle"
  BY DEF Token!Idle
<1> QED BY <1>1, <1>2, <1>3 DEF TokenInv, Token!TypeOK

\* The row a check has in hand is of its container.
LEMMA RowInHand ==
    ASSUME TokenInv, NEW c \in Containers, check[c].pc # "idle"
    PROVE  /\ c \in Token!Live /\ c \notin checked /\ check[c].tok[1] = runs[c]
           /\ Token!SameRow(c) => /\ Token!Matches(c) /\ row.tok = check[c].tok /\ row.id # 0
                                  /\ Token!Active(c) = row.tok
           /\ ~Token!SameRow(c) => ~Token!Matches(c)
BY DEF TokenInv, CheckKnown, Token!SameRow, Token!Matches, Token!Active, Token!Live

LEMMA InspectKeeps ==
    ASSUME Token!TokenOK, TokenInv, NEW c \in Containers, Token!Inspect(c) PROVE TokenInv'
<1>1. /\ runs' = runs /\ ids' = ids /\ cache' = cache /\ left' = left /\ missed' = missed
      /\ blocked' = blocked /\ check[c].pc = "inspect"
  BY DEF Token!Inspect
<1>2. Token!Newest' = Token!Newest /\ Token!Live' = Token!Live
  BY <1>1 DEF Token!Newest, Token!Live
<1>3. /\ c \in Token!Live /\ c \notin checked /\ check[c].tok[1] = runs[c]
      /\ Token!SameRow(c) => /\ Token!Matches(c) /\ row.tok = check[c].tok /\ row.id # 0
                             /\ Token!Active(c) = row.tok
      /\ ~Token!SameRow(c) => ~Token!Matches(c)
  BY <1>1, RowInHand
<1>4. PICK said \in {left[check[c].tok], Ttl + 1} :
         IF ~Token!SameRow(c) THEN Token!Over(c) /\ UNCHANGED row
         ELSE /\ row' = [row EXCEPT !.left = Token!Believed(row, said),
                            !.source = IF said # Ttl + 1 THEN "linkedin" ELSE @]
              /\ IF Token!Due(row'.left)
                 THEN /\ check' = [check EXCEPT ![c].pc = "renew"]
                      /\ UNCHANGED checked
                 ELSE Token!Over(c)
  BY DEF Token!Inspect
<1>5. Beside' /\ Token!Live' # {} /\ \A a, b \in Token!Live' : runs'[a] = runs'[b] => a = b
  BY <1>1, <1>2 DEF TokenInv, Beside
<1>6. CASE ~Token!SameRow(c)
  <2>1. Token!Over(c) /\ row' = row
    BY <1>4, <1>6
  <2>2. Token!TypeOK'
    BY <1>1, <2>1, OverFacts DEF TokenInv, Token!TypeOK
  <2>3. RowKnown'
    BY <1>1, <1>2, <2>1 DEF TokenInv, RowKnown
  <2>4. \A d \in Containers : CheckKnown(d)'
    BY <1>1, <2>1, OverFacts DEF TokenInv, CheckKnown, Token!SameRow, Token!Matches
  <2>5. AtRest(c)' \/ runs[c] # Token!Newest
    BY <1>1, <1>3, <1>6, <2>1 DEF TokenInv, Front, AtRest, Token!Matches, Token!Pasted
  <2>6. ~Token!Matches(c)' /\ Token!Pasted(c)' \in Token!Tokens
    BY <1>1, <1>3, <1>6, <2>1, TokenFacts DEF Token!Matches, Token!Pasted
  <2>7. ASSUME NEW d \in Token!Live PROVE Front(d)'
    <3>1. CASE d = c /\ runs[c] = Token!Newest
      BY <3>1, <1>1, <1>2, <2>2, <2>5, <2>6, RestIsAhead DEF Token!TypeOK
    <3>2. CASE d = c /\ runs[c] # Token!Newest
      BY <3>2, <1>1, <1>2 DEF Front
    <3>3. CASE d # c
      <4>1. check'[d] = check[d] /\ (d \in checked' => d \in checked)
        BY <2>1, <3>3, OverFacts DEF Token!Live
      <4> QED BY <4>1, <1>1, <1>2, <2>1, FrontKept, TokenFacts DEF TokenInv, Token!TypeOK
    <3> QED BY <3>1, <3>2, <3>3
  <2>8. \A d \in Token!Live' : cache'[d][1] = runs'[d] /\ Front(d)'
    BY <1>1, <1>2, <2>7 DEF TokenInv
  <2> QED BY <1>5, <2>2, <2>3, <2>4, <2>8 DEF TokenInv
<1>7. CASE Token!SameRow(c)
  <2>1. row' = [row EXCEPT !.left = Token!Believed(row, said),
                           !.source = IF said # Ttl + 1 THEN "linkedin" ELSE @]
    BY <1>4, <1>7
  <2>2. row \in Token!Row /\ said \in -1 .. Ttl + 1 /\ Ttl \in Nat /\ Window \in Nat
    BY <1>4, TokenFacts
  <2>3. /\ row.age \in 0 .. Ttl + 1 /\ row.left \in -1 .. Ttl
        /\ row.source \in {"linkedin", "renewal", "estimate"} /\ row.tok \in Token!Tokens
    BY <2>2 DEF Token!Row
  <2>4. /\ Token!Believed(row, said) \in -1 .. Ttl
        /\ said # Ttl + 1 => Token!Believed(row, said) = left[row.tok] /\ said \in -1 .. Ttl
        /\ said = Ttl + 1 => Token!Believed(row, said) = IF row.source # "estimate" THEN row.left
                                                        ELSE Ttl - row.age
    BY <1>3, <1>4, <1>7, <2>2, <2>3 DEF Token!Believed
  <2>5. /\ row' \in Token!Row /\ row'.id = row.id /\ row'.fp = row.fp /\ row'.tok = row.tok
        /\ row'.late = row.late /\ row'.age = row.age /\ row'.left = Token!Believed(row, said)
        /\ row'.source = IF said # Ttl + 1 THEN "linkedin" ELSE row.source
    BY <2>1, <2>2, <2>4 DEF Token!Row
  <2>6. ~row.late => /\ Token!Believed(row, said) <= left[row.tok]
                     /\ row.source = "estimate" => Ttl - row.age <= left[row.tok]
    BY <1>3, <1>7, <2>2, <2>3, <2>4, TokenFacts DEF TokenInv, RowKnown
  <2>7. RowKnown'
    BY <1>1, <1>2, <1>3, <1>7, <2>5, <2>6 DEF TokenInv, RowKnown
  <2>8. /\ check' \in [Containers -> [pc: {"idle", "inspect", "renew"}, id: 0 .. Token!MaxIds,
                                      tok: Token!Tokens]]
        /\ checked' \subseteq Containers
        /\ \A d \in Containers : d # c => /\ check'[d] = check[d]
                                          /\ d \in checked' => d \in checked
        /\ check'[c].pc = "idle" \/ /\ check'[c].pc = "renew" /\ check'[c].id = check[c].id
                                    /\ check'[c].tok = check[c].tok /\ checked' = checked
        /\ checked' # checked => Token!Believed(row, said) > Window
    <3>1. CASE Token!Due(row'.left)
      BY <3>1, <1>4, <1>7 DEF TokenInv, Token!TypeOK
    <3>2. CASE ~Token!Due(row'.left)
      BY <3>2, <1>4, <1>7, <2>2, <2>4, <2>5, OverFacts DEF Token!Due
    <3> QED BY <3>1, <3>2
  <2>9. Token!TypeOK'
    BY <1>1, <2>5, <2>8 DEF TokenInv, Token!TypeOK
  <2>10. \A d \in Containers : CheckKnown(d)'
    BY <1>1, <1>3, <1>7, <2>5, <2>8 DEF TokenInv, CheckKnown, Token!SameRow, Token!Matches
  <2>11. ASSUME NEW d \in Token!Live PROVE Front(d)'
    <3>1. CASE d \in checked' => d \in checked
      <4>1. check'[d].pc # "idle" => check[d].pc # "idle"
        BY <1>1, <2>8 DEF Token!Live
      <4> QED BY <3>1, <4>1, <1>1, <1>2, <2>5, FrontKept, TokenFacts DEF TokenInv, Token!TypeOK
    <3>2. CASE d = c /\ checked' # checked
      <4>1. Token!Matches(c)' /\ Token!Active(c)' = row.tok
        BY <1>1, <1>3, <1>7, <2>5 DEF Token!Matches, Token!Active
      <4>2. left[row.tok] \in -1 .. Ttl /\ missed \in 0 .. Window + 1
        BY TokenFacts
      <4>3. ~row.late => left[row.tok] >= Window + 1
        BY <2>2, <2>4, <2>6, <2>8, <3>2, <4>2
      <4>4. Ahead(c)'
        BY <1>1, <2>2, <2>5, <4>1, <4>2, <4>3 DEF Ahead
      <4> QED BY <3>2, <4>1, <4>4 DEF Front, AtRest
    <3> QED BY <3>1, <3>2, <2>8 DEF Token!Live
  <2>12. \A d \in Token!Live' : cache'[d][1] = runs'[d] /\ Front(d)'
    BY <1>1, <1>2, <2>11 DEF TokenInv
  <2> QED BY <1>5, <2>7, <2>9, <2>10, <2>12 DEF TokenInv
<1> QED BY <1>6, <1>7

LEMMA RenewedKeeps ==
    ASSUME Token!TokenOK, TokenInv, NEW c \in Containers, Token!Renewed(c) PROVE TokenInv'
<1> DEFINE t == <<check[c].tok[1], check[c].tok[2] + 1>>
<1>1. runs' = runs /\ ids' = ids /\ check[c].pc = "renew" /\ t \in Token!Tokens
  BY DEF Token!Renewed
<1>2. Token!Newest' = Token!Newest /\ Token!Live' = Token!Live
  BY <1>1 DEF Token!Newest, Token!Live
<1>3. /\ c \in Token!Live /\ c \notin checked /\ check[c].tok[1] = runs[c]
      /\ Token!SameRow(c) => /\ Token!Matches(c) /\ row.tok = check[c].tok /\ row.id # 0
                             /\ Token!Active(c) = row.tok
      /\ ~Token!SameRow(c) => ~Token!Matches(c)
  BY <1>1, RowInHand
<1>4. left' = [left EXCEPT ![t] = Ttl] /\ Token!Over(c)
  BY DEF Token!Renewed
<1>5. /\ Token!SameRow(c) =>
           /\ row' = [row EXCEPT !.tok = t, !.left = Ttl, !.source = "renewal"]
           /\ cache' = [cache EXCEPT ![c] = t] /\ blocked' = 0
           /\ missed' = IF runs[c] = Token!Newest THEN 0 ELSE missed
      /\ ~Token!SameRow(c) => row' = row /\ cache' = cache /\ blocked' = blocked /\ missed' = missed
  BY DEF Token!Renewed
<1>6. t[1] = runs[c]
  BY <1>3
<1> HIDE DEF t
<1>7. /\ Ttl \in Nat /\ Window \in Nat /\ Window + 1 <= Ttl /\ missed \in 0 .. Window + 1
      /\ row \in Token!Row /\ \A u \in Token!Tokens : left[u] \in -1 .. Ttl
  BY TokenFacts
<1>8. /\ left' \in [Token!Tokens -> -1 .. Ttl] /\ left'[t] = Ttl
      /\ \A u \in Token!Tokens : left'[u] >= left[u] /\ (left[u] = Ttl => left'[u] = Ttl)
  BY <1>1, <1>4, <1>7 DEF TokenInv, Token!TypeOK
<1>9. Token!SameRow(c) => /\ row' \in Token!Row /\ row'.id = row.id /\ row'.fp = row.fp /\ row'.tok = t
                          /\ row'.late = row.late /\ row'.left = Ttl /\ row'.source = "renewal"
  <2> SUFFICES ASSUME Token!SameRow(c)
               PROVE  /\ row' \in Token!Row /\ row'.id = row.id /\ row'.fp = row.fp /\ row'.tok = t
                      /\ row'.late = row.late /\ row'.left = Ttl /\ row'.source = "renewal"
    OBVIOUS
  <2>1. row' = [row EXCEPT !.tok = t, !.left = Ttl, !.source = "renewal"]
    BY <1>5
  <2>2. row \in Token!Row /\ t \in Token!Tokens /\ Ttl \in -1 .. Ttl
    BY <1>1, <1>7
  <2> QED BY <2>1, <2>2 DEF Token!Row
<1>10. missed' \in 0 .. Window + 1 /\ 0 \in Token!Pastes
  BY <1>5, <1>7, TokenFacts DEF Token!Pastes
<1>11. cache' \in [Containers -> Token!Tokens] /\ \A d \in Token!Live : cache'[d][1] = runs[d]
  BY <1>1, <1>5, <1>6 DEF TokenInv, Token!TypeOK, Token!Live
<1>12. Token!TypeOK'
  BY <1>1, <1>4, <1>5, <1>7, <1>8, <1>9, <1>10, <1>11, OverFacts DEF TokenInv, Token!TypeOK
<1>13. RowKnown'
  <2>1. CASE Token!SameRow(c)
    BY <2>1, <1>1, <1>2, <1>3, <1>6, <1>7, <1>8, <1>9 DEF TokenInv, RowKnown, Token!Matches
  <2>2. CASE ~Token!SameRow(c)
    <3>1. row' = row /\ row.tok \in Token!Tokens /\ row.age \in Nat /\ row.left \in Int
          /\ left[row.tok] \in Int /\ left'[row.tok] \in Int
      BY <2>2, <1>5, <1>7, <1>8 DEF Token!Row
    <3> QED BY <3>1, <1>1, <1>2, <1>7, <1>8 DEF TokenInv, RowKnown
  <2> QED BY <2>1, <2>2
<1>14. Beside'
  <2>1. <<Token!Newest, 0>> \in Token!Tokens
    BY TokenFacts
  <2> QED BY <2>1, <1>1, <1>2, <1>8 DEF TokenInv, Beside
<1>15. ASSUME NEW d \in Containers PROVE CheckKnown(d)'
  <2>1. CASE d = c
    BY <2>1, <1>4, OverFacts DEF CheckKnown
  <2>2. CASE d # c /\ ~Token!SameRow(c)
    BY <2>2, <1>1, <1>4, <1>5, OverFacts DEF TokenInv, CheckKnown, Token!SameRow, Token!Matches
  <2>3. CASE d # c /\ Token!SameRow(c)
    <3> SUFFICES ASSUME check'[d].pc # "idle" PROVE CheckKnown(d)'
      BY DEF CheckKnown
    <3>1. check'[d] = check[d] /\ d \notin checked' /\ check[d].pc # "idle" /\ d \in Token!Live
      BY <2>3, <1>4, OverFacts DEF TokenInv, CheckKnown, Token!Live
    <3>2. runs[d] # runs[c] /\ row.fp = runs[c]
      BY <2>3, <3>1, <1>3 DEF TokenInv, Token!Matches
    <3>3. (~Token!SameRow(d)') /\ ~Token!Matches(d)'
      BY <2>3, <3>1, <3>2, <1>1, <1>9 DEF TokenInv, CheckKnown, Token!SameRow, Token!Matches
    <3> QED BY <3>1, <3>3, <1>1 DEF TokenInv, CheckKnown
  <2> QED BY <2>1, <2>2, <2>3
<1>16. ASSUME NEW d \in Token!Live PROVE Front(d)'
  <2>1. CASE runs[d] # Token!Newest
    BY <2>1, <1>1, <1>2 DEF Front
  <2>2. CASE d # c /\ ~Token!SameRow(c)
    <3>1. check'[d] = check[d] /\ (d \in checked' => d \in checked)
      BY <1>4, <2>2, OverFacts DEF Token!Live
    <3> QED BY <2>2, <3>1, <1>1, <1>2, <1>5, <1>8, FrontKept
  <2>3. CASE d # c /\ Token!SameRow(c) /\ runs[d] = Token!Newest
    <3>1. check'[d] = check[d] /\ (d \in checked' => d \in checked)
      BY <1>4, <2>3, OverFacts DEF Token!Live
    <3>2. runs[c] # runs[d] /\ row.fp = runs[c]
      BY <2>3, <1>3 DEF TokenInv, Token!Matches
    <3>3. (~Token!Matches(d)) /\ ~Token!Matches(d)'
      BY <2>3, <3>2, <1>1, <1>9 DEF Token!Matches
    <3>4. Token!Pasted(d) \in Token!Tokens /\ Token!Pasted(d)' = Token!Pasted(d)
      BY <1>1, TokenFacts DEF Token!Pasted
    <3>5. AtRest(d)
      BY <2>3 DEF TokenInv, Front
    <3>6. AtRest(d)'
      BY <3>1, <3>3, <3>4, <3>5, <1>7, <1>8 DEF AtRest
    <3> QED BY <3>3, <3>4, <3>6, <1>2, <1>8, <1>10, RestIsAhead
  <2>4. CASE d = c /\ ~Token!SameRow(c) /\ runs[d] = Token!Newest
    <3>1. (~Token!Matches(c)) /\ ~Token!Matches(c)'
      BY <2>4, <1>1, <1>3, <1>5 DEF Token!Matches
    <3>2. Token!Pasted(c) \in Token!Tokens /\ Token!Pasted(c)' = Token!Pasted(c)
      BY <1>1, <1>3, TokenFacts DEF Token!Pasted
    <3>3. AtRest(c)
      BY <2>4 DEF TokenInv, Front
    <3>4. AtRest(c)'
      BY <3>1, <3>2, <3>3, <1>1, <1>7, <1>8 DEF AtRest
    <3> QED BY <2>4, <3>1, <3>2, <3>4, <1>2, <1>8, <1>10, RestIsAhead
  <2>5. CASE d = c /\ Token!SameRow(c) /\ runs[d] = Token!Newest
    <3>1. Token!Matches(c)' /\ Token!Active(c)' = t
      BY <2>5, <1>1, <1>3, <1>9 DEF Token!Matches, Token!Active
    <3>2. PICK m \in 0 .. Window + 1 : m = missed'
      BY <1>10
    <3>3. Ttl >= (Window + 1) - m /\ Ttl >= Window - m
      BY <1>7
    <3>4. left'[Token!Active(c)'] = Ttl
      BY <3>1, <1>8
    <3>5. Ahead(c)'
      BY <3>2, <3>3, <3>4 DEF Ahead
    <3> QED BY <2>5, <3>1, <3>5 DEF Front, AtRest
  <2> QED BY <2>1, <2>2, <2>3, <2>4, <2>5
<1>17. /\ Token!Live' # {} /\ \A a, b \in Token!Live' : runs'[a] = runs'[b] => a = b
  BY <1>1, <1>2 DEF TokenInv
<1>18. \A d \in Token!Live' : cache'[d][1] = runs'[d] /\ Front(d)'
  BY <1>1, <1>2, <1>11, <1>16
<1> QED BY <1>12, <1>13, <1>14, <1>15, <1>17, <1>18 DEF TokenInv

LEMMA NotRenewedKeeps ==
    ASSUME Token!TokenOK, TokenInv, NEW c \in Containers, Token!NotRenewed(c) PROVE TokenInv'
<1>1. /\ runs' = runs /\ ids' = ids /\ row' = row /\ cache' = cache /\ left' = left
      /\ check[c].pc = "renew" /\ Token!Over(c)
      /\ missed' = IF runs[c] = Token!Newest /\ missed <= Window THEN missed + 1 ELSE missed
  BY DEF Token!NotRenewed
<1>2. Token!Newest' = Token!Newest /\ Token!Live' = Token!Live
  BY <1>1 DEF Token!Newest, Token!Live
<1>3. /\ c \in Token!Live /\ c \notin checked
  BY <1>1, RowInHand
<1>4. blocked' = runs[c] \/ blocked' = blocked
  BY DEF Token!NotRenewed
<1>5. /\ Ttl \in Nat /\ Window \in Nat /\ missed \in 0 .. Window + 1 /\ missed' \in 0 .. Window + 1
      /\ \A u \in Token!Tokens : left[u] \in -1 .. Ttl
  BY <1>1, TokenFacts
<1>6. Token!TypeOK'
  BY <1>1, <1>4, <1>5, OverFacts DEF TokenInv, Token!TypeOK
<1>7. RowKnown' /\ Beside'
  BY <1>1, <1>2 DEF TokenInv, RowKnown, Beside
<1>8. \A d \in Containers : CheckKnown(d)'
  BY <1>1, OverFacts DEF TokenInv, CheckKnown, Token!SameRow, Token!Matches
<1>9. ASSUME NEW d \in Token!Live PROVE Front(d)'
  <2>1. CASE runs[d] # Token!Newest
    BY <2>1, <1>1, <1>2 DEF Front
  <2>2. CASE d # c /\ runs[d] = Token!Newest
    <3>1. check'[d] = check[d] /\ (d \in checked' => d \in checked)
      BY <1>1, <2>2, OverFacts DEF Token!Live
    <3>2. missed' = missed
      BY <2>2, <1>1, <1>3 DEF TokenInv
    <3> QED BY <3>1, <3>2, <1>1, <1>2, FrontKept, TokenFacts DEF TokenInv, Token!TypeOK
  <2>3. CASE d = c /\ runs[c] = Token!Newest
    <3>1. AtRest(c) /\ Ahead(c)
      BY <2>3 DEF TokenInv, Front
    <3>2. /\ Token!Matches(c)' = Token!Matches(c) /\ Token!Active(c)' = Token!Active(c)
          /\ Token!Pasted(c)' = Token!Pasted(c)
      BY <1>1 DEF Token!Matches, Token!Active, Token!Pasted
    <3>3. Token!Active(c) \in Token!Tokens
      BY <1>3, TokenFacts DEF Token!Active, Token!Pasted
    <3>4. AtRest(c)'
      BY <3>1, <3>2, <1>1 DEF AtRest
    <3>5. Ahead(c)'
      BY <3>1, <3>2, <3>3, <2>3, <1>1, <1>3, <1>5 DEF Ahead
    <3> QED BY <2>3, <3>4, <3>5 DEF Front
  <2> QED BY <2>1, <2>2, <2>3
<1>10. /\ Token!Live' # {} /\ \A a, b \in Token!Live' : runs'[a] = runs'[b] => a = b
  BY <1>1, <1>2 DEF TokenInv
<1>11. \A d \in Token!Live' : cache'[d][1] = runs'[d] /\ Front(d)'
  BY <1>1, <1>2, <1>9 DEF TokenInv
<1> QED BY <1>6, <1>7, <1>8, <1>10, <1>11 DEF TokenInv

LEMMA RestartKeeps ==
    ASSUME Token!TokenOK, TokenInv, NEW c \in Containers, Token!Restart(c) PROVE TokenInv'
<1>1. /\ runs' = runs /\ ids' = ids /\ row' = row /\ checked' = checked /\ left' = left
      /\ missed' = missed /\ blocked' = blocked /\ c \in Token!Live
      /\ check' = [check EXCEPT ![c] = Token!Idle] /\ cache' = [cache EXCEPT ![c] = Token!Pasted(c)]
  BY DEF Token!Restart, Token!Live
<1>2. Token!Newest' = Token!Newest /\ Token!Live' = Token!Live
  BY <1>1 DEF Token!Newest, Token!Live
<1>3. Token!Idle \in [pc: {"idle", "inspect", "renew"}, id: 0 .. Token!MaxIds, tok: Token!Tokens]
  BY TokenFacts DEF Token!Idle, Token!Tokens, Token!MaxIds
<1>4. Token!Idle.pc = "idle"
  BY DEF Token!Idle
<1>5. Token!Pasted(c) \in Token!Tokens /\ Token!Pasted(c)[1] = runs[c]
  BY <1>1, TokenFacts DEF Token!Pasted
<1>6. /\ cache' \in [Containers -> Token!Tokens]
      /\ \A d \in Token!Live : cache'[d][1] = runs[d]
  BY <1>1, <1>5 DEF TokenInv, Token!TypeOK, Token!Live
<1>7. \A d \in Containers : check'[d] = check[d] \/ check'[d].pc = "idle"
  BY <1>1, <1>4 DEF TokenInv, Token!TypeOK
<1>8. Token!TypeOK'
  BY <1>1, <1>3, <1>6 DEF TokenInv, Token!TypeOK
<1>9. RowKnown' /\ Beside'
  BY <1>1, <1>2 DEF TokenInv, RowKnown, Beside
<1>10. \A d \in Containers : CheckKnown(d)'
  BY <1>1, <1>7 DEF TokenInv, CheckKnown, Token!SameRow, Token!Matches
<1>11. ASSUME NEW d \in Token!Live PROVE Front(d)'
  BY <1>1, <1>2, <1>7, FrontKept, TokenFacts DEF TokenInv, Token!TypeOK, Token!Live
<1>12. /\ Token!Live' # {} /\ \A a, b \in Token!Live' : runs'[a] = runs'[b] => a = b
  BY <1>1, <1>2 DEF TokenInv
<1>13. \A d \in Token!Live' : cache'[d][1] = runs'[d] /\ Front(d)'
  BY <1>1, <1>2, <1>6, <1>11
<1> QED BY <1>8, <1>9, <1>10, <1>12, <1>13 DEF TokenInv

LEMMA PasteKeeps ==
    ASSUME Token!TokenOK, TokenInv, NEW c \in Containers, Token!Paste(c) PROVE TokenInv'
<1> DEFINE n == Token!Newest + 1
<1>1. /\ row' = row /\ ids' = ids /\ check' = check /\ blocked' = blocked /\ missed' = 0
      /\ checked' = checked \ {c} /\ runs[c] = 0 /\ runs' = [runs EXCEPT ![c] = n]
      /\ cache' = [cache EXCEPT ![c] = <<n, 0>>] /\ left' = [left EXCEPT ![<<n, 0>>] = Ttl]
  BY DEF Token!Paste
<1>2. /\ Ttl \in Nat /\ Window \in Nat /\ MaxPaste \in Nat /\ n \in 1 .. 1 + MaxPaste
      /\ <<n, 0>> \in Token!Tokens /\ \A u \in Token!Tokens : left[u] \in -1 .. Ttl
  BY TokenFacts DEF Token!Paste
<1>3. \A d \in Token!Live : d \in Containers /\ d # c /\ runs[d] \in 1 .. Token!Newest /\ runs[d] < n
  BY <1>1, TokenFacts DEF Token!Live
<1>4. Token!Newest < n /\ n \in Token!Pastes /\ Token!Newest \in Nat
  BY <1>2, TokenFacts DEF Token!Pastes
<1> HIDE DEF n
<1>5. /\ runs' \in [Containers -> Token!Pastes] /\ runs'[c] = n
      /\ \A d \in Containers : d # c => runs'[d] = runs[d]
  BY <1>1, <1>4 DEF TokenInv, Token!TypeOK
<1>6. c \in Token!Live' /\ \A d \in Token!Live' : d = c \/ (d \in Token!Live /\ d # c)
  BY <1>1, <1>2, <1>5 DEF Token!Live
<1>7. Token!Newest' = n
  <2>1. \A d \in Token!Live' : runs'[d] <= n
    BY <1>2, <1>3, <1>5, <1>6
  <2> QED BY <1>2, <1>4, <1>5, <1>6, <2>1, NewestIs
<1>8. /\ left' \in [Token!Tokens -> -1 .. Ttl] /\ left'[<<n, 0>>] = Ttl
      /\ \A u \in Token!Tokens : left'[u] >= left[u]
  BY <1>1, <1>2 DEF TokenInv, Token!TypeOK
<1>9. /\ cache' \in [Containers -> Token!Tokens]
      /\ \A d \in Token!Live' : cache'[d][1] = runs'[d]
  BY <1>1, <1>2, <1>5, <1>6 DEF TokenInv, Token!TypeOK, Token!Live
<1>10. Token!TypeOK'
  BY <1>1, <1>2, <1>5, <1>8, <1>9 DEF TokenInv, Token!TypeOK
<1>11. row.id # 0 => row.fp \in 1 .. Token!Newest /\ row.fp # n
  BY <1>4 DEF TokenInv, RowKnown
<1>12. RowKnown'
  <2>1. row.tok \in Token!Tokens /\ row.age \in Nat /\ row.left \in Int
        /\ left[row.tok] \in Int /\ left'[row.tok] \in Int /\ left'[row.tok] >= left[row.tok]
    BY <1>2, <1>8, TokenFacts DEF Token!Row
  <2>2. row.id # 0 => row.fp \in 1 .. n
    BY <1>2, <1>4, <1>11
  <2> QED BY <2>1, <2>2, <1>1, <1>2, <1>7 DEF TokenInv, RowKnown
<1>13. Beside'
  BY <1>7, <1>8 DEF Beside
<1>14. \A d \in Containers : CheckKnown(d)'
  BY <1>1, <1>5 DEF TokenInv, CheckKnown, Token!SameRow, Token!Matches
<1>15. Front(c)'
  <2>1. ~Token!Matches(c)'
    BY <1>1, <1>5, <1>11 DEF Token!Matches
  <2>2. Token!Pasted(c)' = <<n, 0>>
    BY <1>5 DEF Token!Pasted
  <2>3. AtRest(c)'
    BY <1>2, <1>8, <2>2 DEF AtRest
  <2>4. missed' \in 0 .. Window + 1
    BY <1>1, <1>2
  <2> QED BY <1>2, <1>6, <1>8, <2>1, <2>2, <2>3, <2>4, RestIsAhead
<1>16. \A d \in Token!Live' : Front(d)'
  BY <1>3, <1>5, <1>6, <1>7, <1>15 DEF Front
<1>17. \A a, b \in Token!Live' : runs'[a] = runs'[b] => a = b
  BY <1>2, <1>3, <1>5, <1>6 DEF TokenInv
<1> QED BY <1>6, <1>9, <1>10, <1>12, <1>13, <1>14, <1>16, <1>17 DEF TokenInv

LEMMA RetireKeeps ==
    ASSUME Token!TokenOK, TokenInv, NEW c \in Containers, Token!Retire(c) PROVE TokenInv'
<1>1. /\ row' = row /\ ids' = ids /\ cache' = cache /\ checked' = checked /\ left' = left
      /\ blocked' = blocked /\ missed' = missed /\ runs[c] # Token!Newest
      /\ runs' = [runs EXCEPT ![c] = 0] /\ check' = [check EXCEPT ![c] = Token!Idle]
  BY DEF Token!Retire
<1>2. Token!Idle \in [pc: {"idle", "inspect", "renew"}, id: 0 .. Token!MaxIds, tok: Token!Tokens]
  BY TokenFacts DEF Token!Idle, Token!Tokens, Token!MaxIds
<1>3. Token!Idle.pc = "idle"
  BY DEF Token!Idle
<1>4. /\ check'[c].pc = "idle"
      /\ \A d \in Containers : d # c => check'[d] = check[d] /\ runs'[d] = runs[d]
  BY <1>1, <1>3 DEF TokenInv, Token!TypeOK
<1>5. MaxPaste \in Nat /\ Token!Newest \in Token!Pastes
  BY TokenFacts DEF Token!Pastes
<1>6. runs' \in [Containers -> Token!Pastes]
  BY <1>1, <1>5 DEF TokenInv, Token!TypeOK, Token!Pastes
<1>7. \A d : d \in Token!Live' <=> d \in Token!Live /\ d # c
  BY <1>1, <1>4 DEF Token!Live, TokenInv, Token!TypeOK
<1>8. \A d \in Token!Live' : runs'[d] = runs[d] /\ d \in Token!Live
  BY <1>4, <1>7 DEF Token!Live
<1>9. \E d \in Token!Live' : runs'[d] = Token!Newest
  <2>1. PICK d \in Token!Live : runs[d] = Token!Newest
    BY NewestRuns DEF TokenInv, Token!TypeOK
  <2> QED BY <2>1, <1>1, <1>7, <1>8
<1>10. \A d \in Token!Live' : runs'[d] <= Token!Newest
  BY <1>8, NewestRuns DEF TokenInv, Token!TypeOK
<1>11. Token!Newest' = Token!Newest
  BY <1>5, <1>6, <1>9, <1>10, NewestIs
<1>12. Token!TypeOK'
  BY <1>1, <1>2, <1>6 DEF TokenInv, Token!TypeOK
<1>13. RowKnown' /\ Beside'
  BY <1>1, <1>8, <1>11 DEF TokenInv, RowKnown, Beside
<1>14. \A d \in Containers : CheckKnown(d)'
  BY <1>1, <1>4 DEF TokenInv, CheckKnown, Token!SameRow, Token!Matches
<1>15. ASSUME NEW d \in Token!Live' PROVE Front(d)'
  <2>1. d \in Token!Live /\ runs'[d] = runs[d] /\ check'[d] = check[d]
    BY <1>4, <1>7, <1>8 DEF Token!Live
  <2> QED BY <1>1, <1>11, <2>1, FrontKept, TokenFacts DEF TokenInv, Token!TypeOK
<1>16. /\ Token!Live' # {} /\ \A a, b \in Token!Live' : runs'[a] = runs'[b] => a = b
  BY <1>8, <1>9 DEF TokenInv
<1>17. \A d \in Token!Live' : cache'[d][1] = runs'[d] /\ Front(d)'
  BY <1>1, <1>8, <1>15 DEF TokenInv
<1> QED BY <1>12, <1>13, <1>14, <1>16, <1>17 DEF TokenInv

\* Over a day a stored estimate falls as fast as the token's life.
LEMMA DayKeeps == ASSUME Token!TokenOK, TokenInv, Token!Day PROVE TokenInv'
<1>1. /\ runs' = runs /\ ids' = ids /\ cache' = cache /\ check' = check /\ blocked' = blocked
      /\ missed' = missed /\ checked' = {} /\ Token!Live \subseteq checked
  BY DEF Token!Day
<1>2. Token!Newest' = Token!Newest /\ Token!Live' = Token!Live
  BY <1>1 DEF Token!Newest, Token!Live
<1>3. PICK c : Token!Live = {c}
  <2> DEFINE f == [d \in Token!Live |-> runs[d]]
  <2>1. f \in Injection(Token!Live, 1 .. 1 + MaxPaste)
    BY TokenFacts DEF TokenInv, Injection, IsInjective
  <2>2. IsFiniteSet(Token!Live)
    BY <2>1, FS_Interval, FS_Injection, TokenFacts
  <2>3. Cardinality(Token!Live) = 1
    BY DEF Token!Day, Token!Cardinality, Cardinality
  <2> QED BY <2>2, <2>3, FS_Singleton
<1>4. c \in checked /\ c \in Containers /\ runs[c] = Token!Newest /\ runs[c] # 0
  BY <1>1, <1>3, NewestRuns DEF TokenInv, Token!TypeOK, Token!Live
<1>5. \A d \in Containers : check[d].pc = "idle"
  BY <1>1 DEF TokenInv, CheckKnown, Token!Live
<1>6. /\ Ttl \in Nat /\ Window \in Nat /\ Window + 1 <= Ttl /\ missed \in 0 .. Window + 1
      /\ row \in Token!Row /\ \A u \in Token!Tokens : left[u] \in -1 .. Ttl
  BY TokenFacts
<1>7. left' = [t \in Token!Tokens |-> IF left[t] > -1 THEN left[t] - 1 ELSE -1]
  BY DEF Token!Day
<1>8. left' \in [Token!Tokens -> -1 .. Ttl]
  BY <1>6, <1>7
<1>9. /\ row.left \in -1 .. Ttl /\ row.age \in 0 .. Ttl + 1 /\ row.tok \in Token!Tokens
      /\ row.source \in {"linkedin", "renewal", "estimate"}
  BY <1>6 DEF Token!Row
<1>10. /\ row' = [row EXCEPT !.left = IF @ > -1 THEN @ - 1 ELSE -1,
                             !.age = IF @ <= Ttl THEN @ + 1 ELSE @]
  BY DEF Token!Day
<1>11. /\ (IF row.left > -1 THEN row.left - 1 ELSE -1) \in -1 .. Ttl
       /\ (IF row.age <= Ttl THEN row.age + 1 ELSE row.age) \in 0 .. Ttl + 1
  BY <1>6, <1>9
<1>12. /\ row' \in Token!Row /\ row'.id = row.id /\ row'.fp = row.fp /\ row'.tok = row.tok
       /\ row'.source = row.source /\ row'.late = row.late
       /\ row'.left = IF row.left > -1 THEN row.left - 1 ELSE -1
       /\ row'.age = IF row.age <= Ttl THEN row.age + 1 ELSE row.age
  BY <1>6, <1>10, <1>11 DEF Token!Row
<1>13. Token!TypeOK'
  BY <1>1, <1>8, <1>12 DEF TokenInv, Token!TypeOK
<1>14. RowKnown'
  <2> SUFFICES ASSUME row'.id # 0
               PROVE  /\ row'.id <= ids' /\ row'.fp \in 1 .. Token!Newest' /\ row'.tok[1] = row'.fp
                      /\ ~row'.late => IF row'.source = "estimate" THEN Ttl - row'.age <= left'[row'.tok]
                                       ELSE row'.left <= left'[row'.tok]
    BY DEF RowKnown
  <2>1. /\ row.id <= ids /\ row.fp \in 1 .. Token!Newest /\ row.tok[1] = row.fp
        /\ ~row.late => IF row.source = "estimate" THEN Ttl - row.age <= left[row.tok]
                        ELSE row.left <= left[row.tok]
    BY <1>12 DEF TokenInv, RowKnown
  <2>2. /\ left'[row.tok] = IF left[row.tok] > -1 THEN left[row.tok] - 1 ELSE -1
        /\ left[row.tok] \in -1 .. Ttl
    BY <1>6, <1>7, <1>9
  <2>3. Ttl - row.age <= left[row.tok] => Ttl - row'.age <= left'[row.tok]
    BY <1>6, <1>9, <1>12, <2>2
  <2>4. row.left <= left[row.tok] => row'.left <= left'[row.tok]
    BY <1>9, <1>12, <2>2
  <2> QED BY <1>1, <1>2, <1>12, <2>1, <2>3, <2>4
<1>15. Beside'
  BY <1>1, <1>2, <1>3, <1>4 DEF Beside
<1>16. \A d \in Containers : CheckKnown(d)'
  BY <1>1, <1>5 DEF CheckKnown
<1>17. Front(c)'
  <2>1. AtRest(c) /\ Ahead(c)
    BY <1>3, <1>4 DEF TokenInv, Front
  <2>2. /\ Token!Matches(c)' = Token!Matches(c) /\ Token!Active(c)' = Token!Active(c)
        /\ Token!Pasted(c)' = Token!Pasted(c)
    BY <1>1, <1>12 DEF Token!Matches, Token!Active, Token!Pasted
  <2>3. Token!Pasted(c) \in Token!Tokens /\ Token!Active(c) \in Token!Tokens
    BY <1>3, TokenFacts DEF Token!Pasted, Token!Active
  <2>4. /\ left'[Token!Pasted(c)] = IF left[Token!Pasted(c)] > -1 THEN left[Token!Pasted(c)] - 1 ELSE -1
        /\ left'[Token!Active(c)] = IF left[Token!Active(c)] > -1 THEN left[Token!Active(c)] - 1 ELSE -1
        /\ left[Token!Active(c)] \in -1 .. Ttl /\ left[Token!Pasted(c)] \in -1 .. Ttl
    BY <1>6, <1>7, <2>3
  <2>5. AtRest(c)'
    BY <1>1, <1>4, <1>5, <1>6, <2>1, <2>2, <2>4 DEF AtRest
  <2>6. Ahead(c)'
    BY <1>1, <1>4, <1>6, <1>12, <2>1, <2>2, <2>4 DEF Ahead
  <2> QED BY <2>5, <2>6 DEF Front
<1>18. /\ Token!Live' # {} /\ \A a, b \in Token!Live' : runs'[a] = runs'[b] => a = b
  BY <1>1, <1>2 DEF TokenInv
<1>19. \A d \in Token!Live' : cache'[d][1] = runs'[d] /\ Front(d)'
  BY <1>1, <1>2, <1>3, <1>17 DEF TokenInv
<1> QED BY <1>13, <1>14, <1>15, <1>16, <1>18, <1>19 DEF TokenInv

LEMMA TokenStarts == ASSUME Token!TokenOK, Token!Init PROVE TokenInv
<1>1. PICK c \in Containers : runs = [d \in Containers |-> IF d = c THEN 1 ELSE 0]
  BY DEF Token!Init
<1>2. /\ Ttl \in Nat /\ Window \in Nat /\ Window + 1 <= Ttl /\ MaxPaste \in Nat /\ MaxRenewals \in Nat
  BY DEF Token!TokenOK
<1>3. Token!Live = {c} /\ runs[c] = 1
  BY <1>1 DEF Token!Live
<1>4. runs \in [Containers -> Token!Pastes]
  BY <1>1, <1>2 DEF Token!Pastes
<1>5. Token!Newest = 1
  BY <1>3, <1>4, NewestRuns
<1>6. <<1, 0>> \in Token!Tokens
  BY <1>2 DEF Token!Tokens
<1>7. /\ row = Token!NoRow /\ ids = 0 /\ cache = [d \in Containers |-> <<1, 0>>]
      /\ check = [d \in Containers |-> Token!Idle] /\ checked = {}
      /\ left = [t \in Token!Tokens |-> Ttl] /\ blocked = 0 /\ missed = 0
  BY DEF Token!Init
<1>8. Token!Idle \in [pc: {"idle", "inspect", "renew"}, id: 0 .. Token!MaxIds, tok: Token!Tokens]
  BY <1>2, <1>6 DEF Token!Idle, Token!MaxIds
<1>9. Token!NoRow \in Token!Row /\ Token!NoRow.id = 0
  BY <1>2, <1>6 DEF Token!NoRow, Token!Row, Token!Pastes, Token!MaxIds
<1>10. Token!TypeOK
  BY <1>2, <1>4, <1>6, <1>7, <1>8, <1>9 DEF Token!TypeOK, Token!MaxIds, Token!Pastes
<1>11. RowKnown /\ \A d \in Containers : CheckKnown(d)
  BY <1>7, <1>9 DEF RowKnown, CheckKnown, Token!Idle
<1>12. Beside
  BY <1>3, <1>5 DEF Beside
<1>13. Token!Pasted(c) = <<1, 0>> /\ left[<<1, 0>>] = Ttl /\ ~Token!Matches(c)
  BY <1>3, <1>6, <1>7, <1>9 DEF Token!Pasted, Token!Matches
<1>14. Front(c)
  BY <1>2, <1>7, <1>13 DEF Front, AtRest, Ahead, Token!Active
<1>15. cache[c][1] = runs[c]
  BY <1>3, <1>7
<1> QED BY <1>3, <1>10, <1>11, <1>12, <1>14, <1>15 DEF TokenInv

LEMMA TokenKeeps == ASSUME Token!TokenOK, TokenInv, [Token!Next]_(Token!vars) PROVE TokenInv'
<1>1. CASE Token!Day
  BY <1>1, DayKeeps
<1>2. ASSUME NEW c \in Containers,
             \/ Token!Resolve(c) \/ Token!EnsureRow(c) \/ Token!Inspect(c) \/ Token!Renewed(c)
             \/ Token!NotRenewed(c) \/ Token!Paste(c) \/ Token!Retire(c) \/ Token!Restart(c)
      PROVE  TokenInv'
  BY <1>2, ResolveKeeps, EnsureRowKeeps, InspectKeeps, RenewedKeeps, NotRenewedKeeps, PasteKeeps,
     RetireKeeps, RestartKeeps
<1>3. CASE UNCHANGED Token!vars
  <2>1. /\ runs' = runs /\ row' = row /\ ids' = ids /\ cache' = cache /\ check' = check
        /\ checked' = checked /\ left' = left /\ blocked' = blocked /\ missed' = missed
    BY <1>3 DEF Token!vars
  <2>2. /\ Token!TypeOK' = Token!TypeOK /\ Token!Live' = Token!Live /\ Token!Newest' = Token!Newest
    BY <2>1 DEF Token!TypeOK, Token!Live, Token!Newest
  <2>3. /\ RowKnown' /\ Beside' /\ \A c \in Containers : CheckKnown(c)'
    BY <2>1, <2>2 DEF TokenInv, RowKnown, Beside, CheckKnown, Token!SameRow, Token!Matches
  <2>4. \A c \in Token!Live : Front(c)'
    BY <2>1, <2>2 DEF TokenInv, Front, AtRest, Ahead, Token!Matches, Token!Pasted, Token!Active
  <2> QED BY <2>1, <2>2, <2>3, <2>4 DEF TokenInv
<1> QED BY <1>1, <1>2, <1>3 DEF Token!Next

\* A container posts with its own token, or one renewed from it, whatever the container
\* beside it does to the row they share (worker.ts resolveToken, token.ts).
THEOREM TokenIsOfItsPaste ==
    ASSUME Token!TokenOK PROVE Token!Spec => []Token!TokenOfItsPaste
<1>1. Token!Init => TokenInv
  BY TokenStarts
<1>2. TokenInv /\ [Token!Next]_(Token!vars) => TokenInv'
  BY TokenKeeps
<1>3. TokenInv => Token!TokenOfItsPaste
  BY DEF TokenInv, Token!TokenOfItsPaste
<1> QED BY <1>1, <1>2, <1>3, PTL DEF Token!Spec

\* The token in use lives on while renewal fails on at most RENEW_WITHIN_DAYS days in a
\* row (token.ts runDailyCheck), for every life of a token longer than that.
THEOREM TokenLivesOn ==
    ASSUME Token!TokenOK PROVE Token!Spec => []Token!NeverExpires
<1>1. Token!Init => TokenInv
  BY TokenStarts
<1>2. TokenInv /\ [Token!Next]_(Token!vars) => TokenInv'
  BY TokenKeeps
<1>3. ASSUME TokenInv PROVE Token!NeverExpires
  <2> SUFFICES ASSUME missed <= Window, ~row.late, NEW c \in Token!Live, runs[c] = Token!Newest
               PROVE  left[Token!Active(c)] >= 0
    BY DEF Token!NeverExpires
  <2>1. Ahead(c)
    BY <1>3 DEF TokenInv, Front
  <2>2. Window \in Nat /\ missed \in 0 .. Window + 1
    BY <1>3, TokenFacts
  <2>3. Token!Active(c) \in Token!Tokens
    BY <1>3, TokenFacts DEF Token!Active, Token!Pasted
  <2>4. left[Token!Active(c)] \in -1 .. Ttl /\ Ttl \in Nat
    BY <1>3, <2>3, TokenFacts
  <2> QED BY <2>1, <2>2, <2>4 DEF Ahead
<1> QED BY <1>1, <1>2, <1>3, PTL DEF Token!Spec

\* The nine variables hold values of their kinds.
THEOREM TokenTypes == ASSUME Token!TokenOK PROVE Token!Spec => []Token!TypeOK
<1>1. Token!Init => TokenInv
  BY TokenStarts
<1>2. TokenInv /\ [Token!Next]_(Token!vars) => TokenInv'
  BY TokenKeeps
<1>3. TokenInv => Token!TypeOK
  BY DEF TokenInv
<1> QED BY <1>1, <1>2, <1>3, PTL DEF Token!Spec

-----------------------------------------------------------------------------
(* The sweepers of the event logs                                          *)

CONSTANTS Log, Sweepers, Table, BatchSize, MaxBatches
VARIABLES written, aged, live, rolled, first, lifetime, proof, sw, twice

Sweeps == INSTANCE Retention

Counters == Sweeps!Windowed \cup Sweeps!Feedback
Sweeping == [pc: {"idle", "select", "fold"}, cutoff: Nat, left: Int, batch: SUBSET (1 .. written)]

\* The rows of a set that count for an owner, and those of a type.
OwnRows(S, o, k) == {r \in S : Log[r].of = o /\ Log[r].type = k}
KindRows(S, k) == {r \in S : Log[r].type = k}

SweepTyped ==
    /\ written \in 0 .. Len(Log) /\ aged \in 0 .. written /\ live \subseteq 1 .. written
    /\ rolled \in [Sweeps!Owners -> [Counters -> Nat]]
    /\ first \in [Sweeps!Owners -> 0 .. Len(Log)] /\ lifetime \in [Sweeps!Types -> Nat]
    /\ proof \subseteq Sweeps!Owners /\ sw \in [Sweepers -> Sweeping]
    /\ twice \in BOOLEAN /\ faults \in 0 .. MaxFaults

\* Rows of other types stay in the table for ever.
OnlyPurged ==
    Table = "Event" => \A s \in Sweepers : \A r \in sw[s].batch : Log[r].type \in Sweeps!Purged

\* What a sweeper has in hand is in the table, and in its hands only.
HandsApart ==
    ~twice => /\ \A s \in Sweepers : sw[s].batch \subseteq live
              /\ \A s, z \in Sweepers : s # z => sw[s].batch \cap sw[z].batch = {}

\* Rolled up or in the table, no row is left out; and none counts twice.
AtLeast ==
    /\ \A o \in Sweeps!Owners, k \in Counters :
          rolled[o][k] + Cardinality(OwnRows(live, o, k)) >= Cardinality(OwnRows(1 .. written, o, k))
    /\ \A k \in Sweeps!Types \cap Sweeps!Purged :
          lifetime[k] + Cardinality(KindRows(live, k)) >= Cardinality(KindRows(1 .. written, k))
Precisely ==
    ~twice =>
      /\ \A o \in Sweeps!Owners, k \in Counters :
            rolled[o][k] + Cardinality(OwnRows(live, o, k)) = Cardinality(OwnRows(1 .. written, o, k))
      /\ \A k \in Sweeps!Types \cap Sweeps!Purged :
            lifetime[k] + Cardinality(KindRows(live, k)) = Cardinality(KindRows(1 .. written, k))
      /\ \A o \in Sweeps!Owners :
            Sweeps!Earliest(first[o], OwnRows(live, o, "SENT"))
              = Sweeps!Earliest(0, OwnRows(1 .. written, o, "SENT"))

SweepInv ==
    SweepTyped /\ OnlyPurged /\ HandsApart /\ AtLeast /\ Precisely /\ Sweeps!StaysProved

LEMMA SameCount == \A S : Sweeps!Cardinality(S) = Cardinality(S)
BY DEF Sweeps!Cardinality, Cardinality

\* The rows that go and the rows that stay are at least the rows there were, and exactly
\* those when all that go were there.
LEMMA FoldCounts ==
    ASSUME NEW L, NEW B, IsFiniteSet(L), IsFiniteSet(B)
    PROVE  /\ Cardinality(L) \in Nat /\ Cardinality(B) \in Nat /\ Cardinality(L \ B) \in Nat
           /\ Cardinality(L \ B) + Cardinality(B) >= Cardinality(L)
           /\ B \subseteq L => Cardinality(L \ B) + Cardinality(B) = Cardinality(L)
<1>1. IsFiniteSet(L \ B) /\ IsFiniteSet(L \cap B)
  BY FS_Subset
<1>2. Cardinality(L) \in Nat /\ Cardinality(B) \in Nat /\ Cardinality(L \ B) \in Nat
      /\ Cardinality(L \cap B) \in Nat
  BY <1>1, FS_CardinalityType
<1>3. L = (L \ B) \cup (L \cap B) /\ (L \ B) \cap (L \cap B) = {}
  OBVIOUS
<1>4. Cardinality(L) = Cardinality(L \ B) + Cardinality(L \cap B) - Cardinality({})
  BY <1>1, <1>3, FS_Union
<1>5. Cardinality({}) = 0
  BY FS_EmptySet
<1>6. Cardinality(L \cap B) <= Cardinality(B)
  BY FS_Subset
<1>7. Cardinality(L \ B) + Cardinality(B) >= Cardinality(L)
  BY <1>2, <1>4, <1>5, <1>6
<1>8. ASSUME B \subseteq L PROVE Cardinality(L \ B) + Cardinality(B) = Cardinality(L)
  <2>1. L \cap B = B
    BY <1>8
  <2>2. Cardinality(L \cap B) = Cardinality(B)
    BY <2>1
  <2> QED BY <1>2, <1>4, <1>5, <2>2
<1> QED BY <1>2, <1>7, <1>8

\* Sets of rows are finite, and so are their counts.
LEMMA RowCounts ==
    ASSUME written \in Nat, NEW S \in SUBSET (1 .. written)
    PROVE  /\ IsFiniteSet(S) /\ Cardinality(S) \in Nat
           /\ \A o, k : /\ IsFiniteSet(OwnRows(S, o, k)) /\ Cardinality(OwnRows(S, o, k)) \in Nat
                        /\ Sweeps!OfType(S, o, k) = Cardinality(OwnRows(S, o, k))
           /\ \A k : IsFiniteSet(KindRows(S, k)) /\ Cardinality(KindRows(S, k)) \in Nat
<1>1. IsFiniteSet(1 .. written)
  BY FS_Interval
<1>2. \A T \in SUBSET S : IsFiniteSet(T) /\ Cardinality(T) \in Nat
  BY <1>1, FS_Subset, FS_CardinalityType
<1>3. \A o, k : OwnRows(S, o, k) \in SUBSET S /\ KindRows(S, k) \in SUBSET S
  BY DEF OwnRows, KindRows
<1>4. \A o, k : Sweeps!OfType(S, o, k) = Cardinality(OwnRows(S, o, k))
  BY SameCount DEF Sweeps!OfType, OwnRows
<1> QED BY <1>2, <1>3, <1>4

\* The earliest of a set of rows, 0 when there is none.
IsFirst(e, T) == IF T = {} THEN e = 0 ELSE e \in T /\ \A q \in T : e <= q
With(a, S) == S \cup ({a} \ {0})

LEMMA EarliestIs ==
    ASSUME NEW a \in Nat, NEW S \in SUBSET (Nat \ {0})
    PROVE  IsFirst(Sweeps!Earliest(a, S), With(a, S))
<1>1. CASE S = {}
  BY <1>1 DEF Sweeps!Earliest, IsFirst, With
<1>2. CASE S # {}
  <2> DEFINE m == CHOOSE r \in S : \A q \in S : r <= q
  <2>1. \E x \in S : \A q \in S : x <= q
    BY <1>2, LeastOf
  <2>2. m \in S /\ \A q \in S : m <= q
    BY <2>1
  <2>3. Sweeps!Earliest(a, S) = IF a = 0 \/ m < a THEN m ELSE a
    BY <1>2 DEF Sweeps!Earliest
  <2> HIDE DEF m
  <2>4. m \in Nat /\ m # 0 /\ \A q \in S : q \in Nat
    BY <2>2
  <2>5. CASE a = 0 \/ m < a
    <3>1. m \in With(a, S) /\ \A q \in With(a, S) : m <= q
      BY <2>2, <2>4, <2>5 DEF With
    <3> QED BY <2>3, <2>5, <3>1 DEF IsFirst
  <2>6. CASE ~(a = 0 \/ m < a)
    <3>1. a \in With(a, S) /\ \A q \in With(a, S) : a <= q
      BY <2>2, <2>4, <2>6 DEF With
    <3> QED BY <2>3, <2>6, <3>1 DEF IsFirst
  <2> QED BY <2>5, <2>6
<1> QED BY <1>1, <1>2

LEMMA FirstOnce ==
    ASSUME NEW T \in SUBSET Nat, NEW e, NEW f, IsFirst(e, T), IsFirst(f, T) PROVE e = f
<1>1. CASE T = {}
  BY <1>1 DEF IsFirst
<1>2. CASE T # {}
  <2>1. e \in T /\ f \in T /\ e <= f /\ f <= e
    BY <1>2 DEF IsFirst
  <2>2. e \in Nat /\ f \in Nat
    BY <2>1
  <2> QED BY <2>1, <2>2
<1> QED BY <1>1, <1>2

\* Looking at one batch after another finds the earliest of all.
LEMMA EarliestTwice ==
    ASSUME NEW a \in Nat, NEW S \in SUBSET (Nat \ {0}), NEW T \in SUBSET (Nat \ {0})
    PROVE  /\ Sweeps!Earliest(a, S) \in Nat
           /\ Sweeps!Earliest(Sweeps!Earliest(a, S), T) = Sweeps!Earliest(a, S \cup T)
<1> DEFINE e == Sweeps!Earliest(a, S)
           g == Sweeps!Earliest(e, T)
           h == Sweeps!Earliest(a, S \cup T)
<1>1. IsFirst(e, With(a, S)) /\ IsFirst(h, With(a, S \cup T))
  BY EarliestIs
<1>2. e \in Nat
  <2>1. With(a, S) \in SUBSET Nat
    BY DEF With
  <2> HIDE DEF e
  <2> QED BY <1>1, <2>1 DEF IsFirst
<1>3. IsFirst(g, With(e, T))
  BY <1>2, EarliestIs
<1> HIDE DEF e, g, h
<1>4. IsFirst(g, With(a, S \cup T))
  <2>1. CASE With(a, S) = {}
    <3>1. e = 0 /\ S = {} /\ a = 0
      BY <1>1, <2>1 DEF IsFirst, With
    <3>2. With(a, S \cup T) = With(e, T)
      BY <3>1 DEF With
    <3> QED BY <1>3, <3>2
  <2>2. CASE With(a, S) # {}
    <3>1. e \in With(a, S) /\ e # 0 /\ \A q \in With(a, S) : e <= q
      BY <1>1, <2>2 DEF IsFirst, With
    <3>2. e \in With(e, T)
      BY <3>1 DEF With
    <3>3. g \in With(e, T) /\ \A q \in With(e, T) : g <= q
      BY <1>3, <3>2 DEF IsFirst
    <3>4. With(a, S \cup T) = With(a, S) \cup T /\ With(e, T) = T \cup {e}
      BY <3>1 DEF With
    <3>5. g \in With(a, S \cup T)
      BY <3>1, <3>3, <3>4
    <3>6. g <= e /\ g \in Nat /\ \A q \in With(a, S) : q \in Nat
      BY <1>2, <3>2, <3>3, <3>4 DEF With
    <3>7. \A q \in With(a, S \cup T) : g <= q
      BY <1>2, <3>1, <3>3, <3>4, <3>6
    <3> QED BY <3>5, <3>7 DEF IsFirst
  <2> QED BY <2>1, <2>2
<1>5. g = h
  BY <1>1, <1>4, FirstOnce DEF With
<1> QED BY <1>2, <1>5 DEF e, g, h

\* What is kept says what the screens show.
LEMMA KeptIsShown ==
    ASSUME SweepInv PROVE Sweeps!NothingLost /\ Sweeps!Exact /\ Sweeps!StaysProved
<1>1. written \in Nat /\ live \in SUBSET (1 .. written) /\ (1 .. written) \in SUBSET (1 .. written)
  BY DEF SweepInv, SweepTyped
<1>2. /\ \A o, k : Sweeps!Ever(o, k) = Cardinality(OwnRows(1 .. written, o, k))
      /\ \A o, k : Sweeps!Total(o, k) = rolled[o][k] + Cardinality(OwnRows(live, o, k))
  BY <1>1, RowCounts DEF Sweeps!Ever, Sweeps!Total
<1>3. /\ \A k : Sweeps!Lifetime(k) = lifetime[k] + Cardinality(KindRows(live, k))
      /\ \A k : Sweeps!Cardinality({r \in 1 .. written : Log[r].type = k})
                  = Cardinality(KindRows(1 .. written, k))
  BY SameCount DEF Sweeps!Lifetime, KindRows
<1>4. \A S, o : {r \in S : Log[r].of = o /\ Log[r].type = "SENT"} = OwnRows(S, o, "SENT")
  BY DEF OwnRows
<1>5. Sweeps!NothingLost
  BY <1>2, <1>3 DEF SweepInv, AtLeast, Counters, Sweeps!NothingLost
<1>6. Sweeps!Exact
  BY <1>2, <1>3, <1>4 DEF SweepInv, Precisely, Counters, Sweeps!Exact
<1> QED BY <1>5, <1>6 DEF SweepInv

\* A row more in a set that did not hold it.
LEMMA RowMore ==
    ASSUME written \in Nat, written' = written + 1, NEW S \in SUBSET (1 .. written)
    PROVE  /\ \A o, k : Cardinality(OwnRows(S \cup {written'}, o, k))
                          = Cardinality(OwnRows(S, o, k)) + Cardinality(OwnRows({written'}, o, k))
           /\ \A k : Cardinality(KindRows(S \cup {written'}, k))
                       = Cardinality(KindRows(S, k)) + Cardinality(KindRows({written'}, k))
           /\ \A o, k : Cardinality(OwnRows({written'}, o, k)) \in Nat
           /\ \A k : Cardinality(KindRows({written'}, k)) \in Nat
<1>1. written' \notin S
  OBVIOUS
<1>8. IsFiniteSet({written'}) /\ Cardinality({}) = 0
  BY FS_Singleton, FS_EmptySet
<1>2. \A T \in SUBSET {written'} : IsFiniteSet(T) /\ Cardinality(T) \in Nat
  BY <1>8, FS_Subset, FS_CardinalityType
<1>3. \A o, k : OwnRows({written'}, o, k) \in SUBSET {written'} /\ KindRows({written'}, k) \in SUBSET {written'}
  BY DEF OwnRows, KindRows
<1>4. ASSUME NEW T \in SUBSET S, IsFiniteSet(T), NEW U \in SUBSET {written'}
      PROVE  Cardinality(T \cup U) = Cardinality(T) + Cardinality(U)
  <2>1. T \cap U = {}
    BY <1>1
  <2>2. Cardinality(T \cup U) = Cardinality(T) + Cardinality(U) - Cardinality(T \cap U)
    BY <1>2, <1>4, FS_Union
  <2>3. Cardinality(T) \in Nat /\ Cardinality(U) \in Nat
    BY <1>2, <1>4, FS_CardinalityType
  <2>4. Cardinality(T \cap U) = 0
    BY <1>8, <2>1
  <2> QED BY <2>2, <2>3, <2>4
<1>5. \A o, k : /\ OwnRows(S \cup {written'}, o, k) = OwnRows(S, o, k) \cup OwnRows({written'}, o, k)
                /\ KindRows(S \cup {written'}, k) = KindRows(S, k) \cup KindRows({written'}, k)
                /\ OwnRows(S, o, k) \in SUBSET S /\ KindRows(S, k) \in SUBSET S
  BY DEF OwnRows, KindRows
<1>6. ASSUME NEW o, NEW k
      PROVE  Cardinality(OwnRows(S \cup {written'}, o, k))
               = Cardinality(OwnRows(S, o, k)) + Cardinality(OwnRows({written'}, o, k))
  <2>1. IsFiniteSet(OwnRows(S, o, k)) /\ OwnRows(S, o, k) \in SUBSET S
    BY <1>5, RowCounts
  <2>2. OwnRows({written'}, o, k) \in SUBSET {written'}
    BY <1>3
  <2>3. Cardinality(OwnRows(S, o, k) \cup OwnRows({written'}, o, k))
          = Cardinality(OwnRows(S, o, k)) + Cardinality(OwnRows({written'}, o, k))
    BY <1>4, <2>1, <2>2
  <2> QED BY <1>5, <2>3
<1>7. ASSUME NEW k
      PROVE  Cardinality(KindRows(S \cup {written'}, k))
               = Cardinality(KindRows(S, k)) + Cardinality(KindRows({written'}, k))
  <2>1. IsFiniteSet(KindRows(S, k)) /\ KindRows(S, k) \in SUBSET S
    BY <1>5, RowCounts
  <2>2. KindRows({written'}, k) \in SUBSET {written'}
    BY <1>3
  <2>3. Cardinality(KindRows(S, k) \cup KindRows({written'}, k))
          = Cardinality(KindRows(S, k)) + Cardinality(KindRows({written'}, k))
    BY <1>4, <2>1, <2>2
  <2> QED BY <1>5, <2>3
<1> QED BY <1>2, <1>3, <1>6, <1>7

LEMMA SweepStarts == ASSUME Sweeps!RetentionOK, Sweeps!Init PROVE SweepInv
<1>1. /\ written = 0 /\ aged = 0 /\ live = {} /\ proof = {} /\ twice = FALSE /\ faults = 0
      /\ rolled = [o \in Sweeps!Owners |-> [k \in Sweeps!Windowed \cup Sweeps!Feedback |-> 0]]
      /\ first = [o \in Sweeps!Owners |-> 0] /\ lifetime = [k \in Sweeps!Types |-> 0]
      /\ sw = [s \in Sweepers |-> Sweeps!Asleep]
  BY DEF Sweeps!Init
<1>2. 1 .. written = {}
  BY <1>1
<1>3. Sweeps!Asleep \in Sweeping /\ Sweeps!Asleep.batch = {}
  BY DEF Sweeps!Asleep, Sweeping
<1>4. SweepTyped
  <2>1. Len(Log) \in Nat /\ MaxFaults \in Nat
    BY DEF Sweeps!RetentionOK
  <2>2. sw \in [Sweepers -> Sweeping] /\ lifetime \in [Sweeps!Types -> Nat]
        /\ first \in [Sweeps!Owners -> 0 .. Len(Log)]
        /\ rolled \in [Sweeps!Owners -> [Counters -> Nat]]
    BY <1>1, <1>3, <2>1 DEF Counters
  <2>3. twice \in BOOLEAN /\ live \subseteq 1 .. written /\ proof \subseteq Sweeps!Owners
    BY <1>1
  <2>4. written \in 0 .. Len(Log) /\ aged \in 0 .. written /\ faults \in 0 .. MaxFaults
    BY <1>1, <2>1
  <2> QED BY <2>2, <2>3, <2>4 DEF SweepTyped
<1>5. OnlyPurged /\ HandsApart
  BY <1>1, <1>3 DEF OnlyPurged, HandsApart
<1>6. /\ \A o, k : OwnRows(live, o, k) = {} /\ OwnRows(1 .. written, o, k) = {}
      /\ \A k : KindRows(live, k) = {} /\ KindRows(1 .. written, k) = {}
  BY <1>1, <1>2 DEF OwnRows, KindRows
<1>7. Cardinality({}) = 0
  BY FS_EmptySet
<1>8. /\ \A o \in Sweeps!Owners, k \in Counters : rolled[o][k] = 0
      /\ \A k \in Sweeps!Types : lifetime[k] = 0
      /\ \A o \in Sweeps!Owners : first[o] = 0
  BY <1>1 DEF Counters
<1>9. AtLeast /\ Precisely
  <2>1. /\ \A o, k : /\ Cardinality(OwnRows(live, o, k)) = 0
                     /\ Cardinality(OwnRows(1 .. written, o, k)) = 0
                     /\ OwnRows(live, o, k) = OwnRows(1 .. written, o, k)
        /\ \A k : Cardinality(KindRows(live, k)) = 0 /\ Cardinality(KindRows(1 .. written, k)) = 0
    BY <1>6, <1>7
  <2>2. AtLeast
    BY <1>8, <2>1 DEF AtLeast
  <2>3. Precisely
    BY <1>8, <2>1 DEF Precisely
  <2> QED BY <2>2, <2>3
<1>10. Sweeps!StaysProved
  BY <1>2 DEF Sweeps!StaysProved
<1> QED BY <1>4, <1>5, <1>9, <1>10 DEF SweepInv

\* A sweeper's record stays of its kind as the log grows.
LEMMA SweepingGrows ==
    ASSUME SweepTyped, written' \in Nat, written <= written'
    PROVE  sw \in [Sweepers -> Sweeping']
<1>1. 1 .. written \subseteq 1 .. written'
  BY DEF SweepTyped
<1>2. Sweeping \subseteq Sweeping'
  BY <1>1 DEF Sweeping
<1> QED BY <1>2 DEF SweepTyped

LEMMA WriteKeeps ==
    ASSUME Sweeps!RetentionOK, SweepInv, Sweeps!Write PROVE SweepInv'
<1>1. /\ written < Len(Log) /\ written' = written + 1 /\ live' = live \cup {written'} /\ aged' = aged
      /\ rolled' = rolled /\ first' = first /\ lifetime' = lifetime /\ proof' = proof /\ sw' = sw
      /\ twice' = twice /\ faults' = faults
  BY DEF Sweeps!Write
<1>2. /\ Len(Log) \in Nat /\ written \in 0 .. Len(Log) /\ written' \in 0 .. Len(Log)
      /\ live \in SUBSET (1 .. written) /\ (1 .. written) \in SUBSET (1 .. written)
      /\ aged \in 0 .. written
  BY <1>1 DEF Sweeps!RetentionOK, SweepInv, SweepTyped
<1>3. 1 .. written' = (1 .. written) \cup {written'}
  BY <1>1, <1>2
<1>4. SweepTyped'
  <2>1. sw' \in [Sweepers -> Sweeping']
    BY <1>1, <1>2, SweepingGrows DEF SweepInv
  <2>2. live' \subseteq 1 .. written' /\ aged' \in 0 .. written'
    BY <1>1, <1>2, <1>3
  <2> QED BY <1>1, <1>2, <2>1, <2>2 DEF SweepInv, SweepTyped
<1>5. OnlyPurged' /\ HandsApart'
  BY <1>1 DEF SweepInv, OnlyPurged, HandsApart
<1>6. /\ \A o, k : /\ Cardinality(OwnRows(live, o, k)) \in Nat
                   /\ Cardinality(OwnRows(1 .. written, o, k)) \in Nat
      /\ \A k : Cardinality(KindRows(live, k)) \in Nat /\ Cardinality(KindRows(1 .. written, k)) \in Nat
  <2>1. written \in Nat
    BY <1>2
  <2>2. /\ \A o, k : Cardinality(OwnRows(live, o, k)) \in Nat
        /\ \A k : Cardinality(KindRows(live, k)) \in Nat
    BY <1>2, <2>1, RowCounts
  <2>3. /\ \A o, k : Cardinality(OwnRows(1 .. written, o, k)) \in Nat
        /\ \A k : Cardinality(KindRows(1 .. written, k)) \in Nat
    BY <1>2, <2>1, RowCounts
  <2> QED BY <2>2, <2>3
<1>7. /\ \A o, k : /\ Cardinality(OwnRows({written'}, o, k)) \in Nat
                   /\ Cardinality(OwnRows(live', o, k))
                        = Cardinality(OwnRows(live, o, k)) + Cardinality(OwnRows({written'}, o, k))
                   /\ Cardinality(OwnRows(1 .. written', o, k))
                        = Cardinality(OwnRows(1 .. written, o, k)) + Cardinality(OwnRows({written'}, o, k))
      /\ \A k : /\ Cardinality(KindRows({written'}, k)) \in Nat
                /\ Cardinality(KindRows(live', k))
                     = Cardinality(KindRows(live, k)) + Cardinality(KindRows({written'}, k))
                /\ Cardinality(KindRows(1 .. written', k))
                     = Cardinality(KindRows(1 .. written, k)) + Cardinality(KindRows({written'}, k))
  <2>1. written \in Nat /\ written' = written + 1 /\ live' = live \cup {written'}
    BY <1>1, <1>2
  <2>2. /\ \A o, k : Cardinality(OwnRows(live \cup {written'}, o, k))
                       = Cardinality(OwnRows(live, o, k)) + Cardinality(OwnRows({written'}, o, k))
        /\ \A k : Cardinality(KindRows(live \cup {written'}, k))
                    = Cardinality(KindRows(live, k)) + Cardinality(KindRows({written'}, k))
    BY <1>2, <2>1, RowMore
  <2>4. /\ \A o, k : Cardinality(OwnRows({written'}, o, k)) \in Nat
        /\ \A k : Cardinality(KindRows({written'}, k)) \in Nat
    BY <1>2, <2>1, RowMore
  <2>3. /\ \A o, k : Cardinality(OwnRows((1 .. written) \cup {written'}, o, k))
                       = Cardinality(OwnRows(1 .. written, o, k)) + Cardinality(OwnRows({written'}, o, k))
        /\ \A k : Cardinality(KindRows((1 .. written) \cup {written'}, k))
                    = Cardinality(KindRows(1 .. written, k)) + Cardinality(KindRows({written'}, k))
    BY <1>2, <2>1, RowMore
  <2> QED BY <1>3, <2>1, <2>2, <2>3, <2>4
<1>8. /\ \A o \in Sweeps!Owners, k \in Counters : rolled[o][k] \in Nat
      /\ \A k \in Sweeps!Types : lifetime[k] \in Nat
      /\ \A o \in Sweeps!Owners : first[o] \in Nat
  BY <1>2 DEF SweepInv, SweepTyped
<1>9. AtLeast'
  <2>1. ASSUME NEW o \in Sweeps!Owners, NEW k \in Counters
        PROVE  rolled'[o][k] + Cardinality(OwnRows(live', o, k)) >= Cardinality(OwnRows(1 .. written', o, k))
    <3>1. rolled[o][k] + Cardinality(OwnRows(live, o, k)) >= Cardinality(OwnRows(1 .. written, o, k))
      BY DEF SweepInv, AtLeast
    <3>2. /\ rolled[o][k] \in Nat /\ Cardinality(OwnRows(live, o, k)) \in Nat
          /\ Cardinality(OwnRows(1 .. written, o, k)) \in Nat
          /\ Cardinality(OwnRows({written'}, o, k)) \in Nat
      BY <1>6, <1>7, <1>8
    <3>3. rolled[o][k] + (Cardinality(OwnRows(live, o, k)) + Cardinality(OwnRows({written'}, o, k)))
            >= Cardinality(OwnRows(1 .. written, o, k)) + Cardinality(OwnRows({written'}, o, k))
      BY <3>1, <3>2
    <3> QED BY <3>3, <1>1, <1>7
  <2>2. ASSUME NEW k \in Sweeps!Types \cap Sweeps!Purged
        PROVE  lifetime'[k] + Cardinality(KindRows(live', k)) >= Cardinality(KindRows(1 .. written', k))
    <3>1. lifetime[k] + Cardinality(KindRows(live, k)) >= Cardinality(KindRows(1 .. written, k))
      BY DEF SweepInv, AtLeast
    <3>2. /\ lifetime[k] \in Nat /\ Cardinality(KindRows(live, k)) \in Nat
          /\ Cardinality(KindRows(1 .. written, k)) \in Nat
          /\ Cardinality(KindRows({written'}, k)) \in Nat
      BY <1>6, <1>7, <1>8
    <3>3. lifetime[k] + (Cardinality(KindRows(live, k)) + Cardinality(KindRows({written'}, k)))
            >= Cardinality(KindRows(1 .. written, k)) + Cardinality(KindRows({written'}, k))
      BY <3>1, <3>2
    <3> QED BY <3>3, <1>1, <1>7
  <2> QED BY <2>1, <2>2 DEF AtLeast
<1>10. ASSUME NEW o \in Sweeps!Owners,
              Sweeps!Earliest(first[o], OwnRows(live, o, "SENT"))
                = Sweeps!Earliest(0, OwnRows(1 .. written, o, "SENT"))
       PROVE  Sweeps!Earliest(first'[o], OwnRows(live', o, "SENT"))
                = Sweeps!Earliest(0, OwnRows(1 .. written', o, "SENT"))
  <2> DEFINE L == OwnRows(live, o, "SENT")
             W == OwnRows(1 .. written, o, "SENT")
             N == OwnRows({written'}, o, "SENT")
  <2>1. L \in SUBSET (Nat \ {0}) /\ W \in SUBSET (Nat \ {0}) /\ N \in SUBSET (Nat \ {0})
    <3>1. (1 .. written) \in SUBSET (Nat \ {0}) /\ live \in SUBSET (1 .. written)
          /\ written' \in Nat \ {0}
      BY <1>1, <1>2
    <3> QED BY <3>1 DEF OwnRows
  <2>2. OwnRows(live', o, "SENT") = L \cup N /\ OwnRows(1 .. written', o, "SENT") = W \cup N
    BY <1>1, <1>3 DEF OwnRows
  <2> HIDE DEF L, W, N
  <2>3. Sweeps!Earliest(Sweeps!Earliest(first[o], L), N) = Sweeps!Earliest(first[o], L \cup N)
    BY <1>8, <2>1, EarliestTwice
  <2>4. Sweeps!Earliest(Sweeps!Earliest(0, W), N) = Sweeps!Earliest(0, W \cup N)
    BY <2>1, EarliestTwice
  <2>5. Sweeps!Earliest(first[o], L) = Sweeps!Earliest(0, W)
    BY <1>10 DEF L, W
  <2> QED BY <1>1, <2>2, <2>3, <2>4, <2>5
<1>11. Precisely'
  <2> SUFFICES ASSUME ~twice'
               PROVE  /\ \A o \in Sweeps!Owners, k \in Counters :
                            rolled'[o][k] + Cardinality(OwnRows(live', o, k))
                              = Cardinality(OwnRows(1 .. written', o, k))
                      /\ \A k \in Sweeps!Types \cap Sweeps!Purged :
                            lifetime'[k] + Cardinality(KindRows(live', k))
                              = Cardinality(KindRows(1 .. written', k))
                      /\ \A o \in Sweeps!Owners :
                            Sweeps!Earliest(first'[o], OwnRows(live', o, "SENT"))
                              = Sweeps!Earliest(0, OwnRows(1 .. written', o, "SENT"))
    BY DEF Precisely
  <2>1. ~twice
    BY <1>1
  <2>2. ASSUME NEW o \in Sweeps!Owners, NEW k \in Counters
        PROVE  rolled'[o][k] + Cardinality(OwnRows(live', o, k)) = Cardinality(OwnRows(1 .. written', o, k))
    <3>1. rolled[o][k] + Cardinality(OwnRows(live, o, k)) = Cardinality(OwnRows(1 .. written, o, k))
      BY <2>1 DEF SweepInv, Precisely
    <3>2. /\ rolled[o][k] \in Nat /\ Cardinality(OwnRows(live, o, k)) \in Nat
          /\ Cardinality(OwnRows(1 .. written, o, k)) \in Nat
          /\ Cardinality(OwnRows({written'}, o, k)) \in Nat
      BY <1>6, <1>7, <1>8
    <3>3. rolled[o][k] + (Cardinality(OwnRows(live, o, k)) + Cardinality(OwnRows({written'}, o, k)))
            = Cardinality(OwnRows(1 .. written, o, k)) + Cardinality(OwnRows({written'}, o, k))
      BY <3>1, <3>2
    <3> QED BY <3>3, <1>1, <1>7
  <2>3. ASSUME NEW k \in Sweeps!Types \cap Sweeps!Purged
        PROVE  lifetime'[k] + Cardinality(KindRows(live', k)) = Cardinality(KindRows(1 .. written', k))
    <3>1. lifetime[k] + Cardinality(KindRows(live, k)) = Cardinality(KindRows(1 .. written, k))
      BY <2>1 DEF SweepInv, Precisely
    <3>2. /\ lifetime[k] \in Nat /\ Cardinality(KindRows(live, k)) \in Nat
          /\ Cardinality(KindRows(1 .. written, k)) \in Nat
          /\ Cardinality(KindRows({written'}, k)) \in Nat
      BY <1>6, <1>7, <1>8
    <3>3. lifetime[k] + (Cardinality(KindRows(live, k)) + Cardinality(KindRows({written'}, k)))
            = Cardinality(KindRows(1 .. written, k)) + Cardinality(KindRows({written'}, k))
      BY <3>1, <3>2
    <3> QED BY <3>3, <1>1, <1>7
  <2>4. \A o \in Sweeps!Owners : Sweeps!Earliest(first[o], OwnRows(live, o, "SENT"))
                                  = Sweeps!Earliest(0, OwnRows(1 .. written, o, "SENT"))
    BY <2>1 DEF SweepInv, Precisely
  <2> QED BY <1>10, <2>2, <2>3, <2>4
<1>12. Sweeps!StaysProved'
  BY <1>1, <1>3 DEF SweepInv, Sweeps!StaysProved, Sweeps!Proved
<1> QED BY <1>4, <1>5, <1>9, <1>11, <1>12 DEF SweepInv

\* A step that touches no table, and puts nothing new in a sweeper's hands.
LEMMA SweepQuiet ==
    ASSUME SweepInv, written' = written, live' = live, rolled' = rolled, first' = first,
           lifetime' = lifetime, proof' = proof, twice' = twice, aged' \in 0 .. written,
           faults' \in 0 .. MaxFaults, sw' \in [Sweepers -> Sweeping],
           \A s \in Sweepers : sw'[s].batch = sw[s].batch \/ sw'[s].batch = {}
    PROVE  SweepInv'
<1>1. SweepTyped'
  <2>1. Sweeping' = Sweeping
    BY DEF Sweeping
  <2> QED BY <2>1 DEF SweepInv, SweepTyped
<1>2. OnlyPurged' /\ HandsApart'
  <2>1. \A s \in Sweepers : sw'[s].batch \subseteq sw[s].batch
    OBVIOUS
  <2> QED BY <2>1 DEF SweepInv, OnlyPurged, HandsApart
<1>3. AtLeast' /\ Precisely'
  BY DEF SweepInv, AtLeast, Precisely
<1>4. Sweeps!StaysProved'
  BY DEF SweepInv, Sweeps!StaysProved, Sweeps!Proved
<1> QED BY <1>1, <1>2, <1>3, <1>4 DEF SweepInv

LEMMA AsleepSweeps == Sweeps!Asleep \in Sweeping /\ Sweeps!Asleep.batch = {}
BY DEF Sweeps!Asleep, Sweeping

LEMMA QuietSteps ==
    ASSUME Sweeps!RetentionOK, SweepInv,
           \/ Sweeps!Age \/ UNCHANGED Sweeps!vars
           \/ \E s \in Sweepers : Sweeps!Sweep(s) \/ Sweeps!Stops(s)
    PROVE  SweepInv'
<1>1. /\ aged \in 0 .. written /\ written \in Nat /\ faults \in 0 .. MaxFaults
      /\ MaxFaults \in Nat /\ MaxBatches \in Nat /\ sw \in [Sweepers -> Sweeping]
  BY DEF SweepInv, SweepTyped, Sweeps!RetentionOK
<1>2. CASE Sweeps!Age
  BY <1>1, <1>2, SweepQuiet DEF Sweeps!Age
<1>3. CASE UNCHANGED Sweeps!vars
  BY <1>1, <1>3, SweepQuiet DEF Sweeps!vars
<1>4. ASSUME NEW s \in Sweepers, Sweeps!Sweep(s) PROVE SweepInv'
  <2> DEFINE x == [pc |-> "select", cutoff |-> aged, left |-> MaxBatches, batch |-> {}]
  <2>1. x \in Sweeping /\ x.batch = {}
    BY <1>1 DEF Sweeping
  <2> HIDE DEF x
  <2>2. sw' = [sw EXCEPT ![s] = x]
    BY <1>4 DEF Sweeps!Sweep, x
  <2>3. sw' \in [Sweepers -> Sweeping] /\ \A z \in Sweepers : sw'[z] = sw[z] \/ sw'[z] = x
    BY <1>1, <2>1, <2>2
  <2>4. /\ written' = written /\ live' = live /\ rolled' = rolled /\ first' = first /\ aged' = aged
        /\ lifetime' = lifetime /\ proof' = proof /\ twice' = twice /\ faults' = faults
    BY <1>4 DEF Sweeps!Sweep
  <2> QED BY <1>1, <2>1, <2>3, <2>4, SweepQuiet
<1>5. ASSUME NEW s \in Sweepers, Sweeps!Stops(s) PROVE SweepInv'
  <2>1. sw' = [sw EXCEPT ![s] = Sweeps!Asleep] /\ faults' = faults + 1 /\ faults < MaxFaults
    BY <1>5 DEF Sweeps!Stops
  <2>2. sw' \in [Sweepers -> Sweeping] /\ \A z \in Sweepers : sw'[z] = sw[z] \/ sw'[z] = Sweeps!Asleep
    BY <1>1, <2>1, AsleepSweeps
  <2>3. /\ written' = written /\ live' = live /\ rolled' = rolled /\ first' = first /\ aged' = aged
        /\ lifetime' = lifetime /\ proof' = proof /\ twice' = twice /\ faults' \in 0 .. MaxFaults
    BY <1>1, <1>5, <2>1 DEF Sweeps!Stops
  <2> QED BY <1>1, <2>2, <2>3, AsleepSweeps, SweepQuiet
<1> QED BY <1>2, <1>3, <1>4, <1>5

\* A batch is of rows that are in the table; of the browser's, only of the types that go.
LEMMA BatchFacts ==
    ASSUME NEW n
    PROVE  /\ Sweeps!NextBatch(n) \subseteq live
           /\ Table = "Event" => \A r \in Sweeps!NextBatch(n) : Log[r].type \in Sweeps!Purged
<1>1. Sweeps!NextBatch(n) \subseteq live
  BY DEF Sweeps!NextBatch, Sweeps!Oldest
<1>2. Table # "Event" \/ \A r \in Sweeps!NextBatch(n) : Log[r].type \in Sweeps!Purged
  BY DEF Sweeps!NextBatch, Sweeps!Oldest, Sweeps!Purged
<1> QED BY <1>1, <1>2

LEMMA SelectKeeps ==
    ASSUME Sweeps!RetentionOK, SweepInv, NEW s \in Sweepers, Sweeps!Select(s) PROVE SweepInv'
<1> DEFINE b == IF sw[s].left = 0 THEN {} ELSE Sweeps!NextBatch(sw[s].cutoff)
<1>1. /\ written' = written /\ aged' = aged /\ live' = live /\ rolled' = rolled /\ first' = first
      /\ lifetime' = lifetime /\ proof' = proof /\ faults' = faults
  BY DEF Sweeps!Select
<1>2. sw' = [sw EXCEPT ![s] = IF b = {} THEN Sweeps!Asleep
                              ELSE [sw[s] EXCEPT !.pc = "fold", !.batch = b]]
  BY DEF Sweeps!Select
<1>3. twice' = (twice \/ \E z \in Sweepers \ {s} : sw[z].batch \cap b # {})
  BY DEF Sweeps!Select
<1>4. b \subseteq live /\ (Table = "Event" => \A r \in b : Log[r].type \in Sweeps!Purged)
  BY BatchFacts
<1> HIDE DEF b
<1>5. /\ sw \in [Sweepers -> Sweeping] /\ live \subseteq 1 .. written /\ twice \in BOOLEAN
  BY DEF SweepInv, SweepTyped
<1>6. /\ [sw[s] EXCEPT !.pc = "fold", !.batch = b] \in Sweeping
      /\ [sw[s] EXCEPT !.pc = "fold", !.batch = b].batch = b
  BY <1>4, <1>5 DEF Sweeping
<1>7. /\ sw' \in [Sweepers -> Sweeping] /\ sw'[s].batch = b
      /\ \A z \in Sweepers : z # s => sw'[z] = sw[z]
  BY <1>2, <1>5, <1>6, AsleepSweeps
<1>8. SweepTyped'
  <2>1. Sweeping' = Sweeping
    BY <1>1 DEF Sweeping
  <2>2. twice' \in BOOLEAN
    BY <1>3
  <2> QED BY <1>1, <1>7, <2>1, <2>2 DEF SweepInv, SweepTyped
<1>9. OnlyPurged'
  BY <1>4, <1>7 DEF SweepInv, OnlyPurged
<1>10. ~twice' => (~twice) /\ \A z \in Sweepers : z # s => sw[z].batch \cap b = {}
  BY <1>3
<1>11. HandsApart'
  BY <1>1, <1>4, <1>7, <1>10 DEF SweepInv, HandsApart
<1>12. AtLeast' /\ Precisely'
  BY <1>1, <1>10 DEF SweepInv, AtLeast, Precisely
<1>13. Sweeps!StaysProved'
  BY <1>1 DEF SweepInv, Sweeps!StaysProved, Sweeps!Proved
<1> QED BY <1>8, <1>9, <1>11, <1>12, <1>13 DEF SweepInv

\* What a batch adds to the counts is the number of its rows, of every type it may hold.
LEMMA FoldAdds ==
    ASSUME Sweeps!RetentionOK, SweepInv, NEW s \in Sweepers, Sweeps!Fold(s)
    PROVE  /\ \A o \in Sweeps!Owners, k \in Counters :
                 rolled'[o][k] = rolled[o][k] + Cardinality(OwnRows(sw[s].batch, o, k))
           /\ \A k \in Sweeps!Types \cap Sweeps!Purged :
                 lifetime'[k] = lifetime[k] + Cardinality(KindRows(sw[s].batch, k))
<1> DEFINE b == sw[s].batch
<1>1. /\ rolled' = [o \in Sweeps!Owners |-> [k \in Counters |->
                       rolled[o][k] + IF k \in Sweeps!Counted THEN Sweeps!OfType(b, o, k) ELSE 0]]
      /\ lifetime' = [k \in Sweeps!Types |-> lifetime[k] +
                         IF Table = "Event" THEN Sweeps!Cardinality({r \in b : Log[r].type = k}) ELSE 0]
  BY DEF Sweeps!Fold, Counters
<1>2. written \in Nat /\ written <= Len(Log) /\ b \in SUBSET (1 .. written) /\ Len(Log) \in Nat
  BY DEF SweepInv, SweepTyped, Sweeping, Sweeps!RetentionOK
<1>3. Table \in {"Event", "EmailEvent"} /\ (Table = "EmailEvent" => Sweeps!Purged \cap Sweeps!Types = {})
  BY DEF Sweeps!RetentionOK
<1>4. Table = "Event" => \A r \in b : Log[r].type \in Sweeps!Purged
  BY DEF SweepInv, OnlyPurged
<1> HIDE DEF b
<1>5. \A r \in b : Log[r].type \in Sweeps!Types
  BY <1>2 DEF Sweeps!Types, Sweeps!Rows
<1>6. ASSUME NEW o, NEW k \in Counters, k \notin Sweeps!Counted PROVE OwnRows(b, o, k) = {}
  <2>1. CASE Table = "Event"
    <3>1. k \notin Sweeps!Purged
      BY <1>6, <2>1 DEF Counters, Sweeps!Counted, Sweeps!Purged, Sweeps!Windowed, Sweeps!Feedback
    <3> QED BY <1>4, <2>1, <3>1 DEF OwnRows
  <2>2. CASE Table = "EmailEvent"
    <3>1. k \in Sweeps!Purged
      BY <1>6, <2>2 DEF Counters, Sweeps!Counted, Sweeps!Purged
    <3> QED BY <1>3, <1>5, <2>2, <3>1 DEF OwnRows
  <2> QED BY <1>3, <2>1, <2>2
<1>7. ASSUME NEW o \in Sweeps!Owners, NEW k \in Counters
      PROVE  rolled'[o][k] = rolled[o][k] + Cardinality(OwnRows(b, o, k))
  <2>1. rolled'[o][k] = rolled[o][k] + IF k \in Sweeps!Counted THEN Sweeps!OfType(b, o, k) ELSE 0
    BY <1>1
  <2>2. CASE k \in Sweeps!Counted
    <3>1. Sweeps!OfType(b, o, k) = Cardinality(OwnRows(b, o, k))
      BY <1>2, RowCounts
    <3> QED BY <2>1, <2>2, <3>1
  <2>3. CASE k \notin Sweeps!Counted
    <3>1. Cardinality(OwnRows(b, o, k)) = 0
      BY <1>6, <2>3, FS_EmptySet
    <3> QED BY <2>1, <2>3, <3>1
  <2> QED BY <2>2, <2>3
<1>8. ASSUME NEW k \in Sweeps!Types \cap Sweeps!Purged
      PROVE  lifetime'[k] = lifetime[k] + Cardinality(KindRows(b, k))
  <2>1. Table = "Event"
    BY <1>3
  <2>2. Sweeps!Cardinality({r \in b : Log[r].type = k}) = Cardinality(KindRows(b, k))
    BY SameCount DEF KindRows
  <2> QED BY <1>1, <2>1, <2>2
<1> QED BY <1>7, <1>8 DEF b

LEMMA FoldKeeps ==
    ASSUME Sweeps!RetentionOK, SweepInv, NEW s \in Sweepers, Sweeps!Fold(s) PROVE SweepInv'
<1> DEFINE b == sw[s].batch
<1>1. /\ written' = written /\ aged' = aged /\ twice' = twice /\ faults' = faults
      /\ live' = live \ b /\ proof' = proof \cup Sweeps!Stamped(b)
  BY DEF Sweeps!Fold
<1>2. first' = [o \in Sweeps!Owners |->
                   Sweeps!Earliest(first[o], {r \in b : Log[r].of = o /\ Log[r].type = "SENT"})]
  BY DEF Sweeps!Fold
<1>3. /\ DOMAIN rolled' = Sweeps!Owners /\ \A o \in Sweeps!Owners : rolled'[o] = [k \in Counters |-> rolled'[o][k]]
      /\ rolled' = [o \in Sweeps!Owners |-> rolled'[o]]
      /\ lifetime' = [k \in Sweeps!Types |-> lifetime'[k]]
  BY DEF Sweeps!Fold, Counters
<1>4. /\ \A o \in Sweeps!Owners, k \in Counters :
            rolled'[o][k] = rolled[o][k] + Cardinality(OwnRows(b, o, k))
      /\ \A k \in Sweeps!Types \cap Sweeps!Purged :
            lifetime'[k] = lifetime[k] + Cardinality(KindRows(b, k))
  BY FoldAdds
<1>5. \A k \in Sweeps!Types : lifetime'[k] \in Nat
  <2>1. /\ written \in Nat /\ b \in SUBSET (1 .. written) /\ \A k \in Sweeps!Types : lifetime[k] \in Nat
    BY DEF SweepInv, SweepTyped, Sweeping
  <2>2. \A k : Sweeps!Cardinality({r \in b : Log[r].type = k}) \in Nat
    BY <2>1, RowCounts, SameCount DEF KindRows
  <2>3. lifetime' = [k \in Sweeps!Types |-> lifetime[k] +
                        IF Table = "Event" THEN Sweeps!Cardinality({r \in b : Log[r].type = k}) ELSE 0]
    BY DEF Sweeps!Fold
  <2> DEFINE n(k) == IF Table = "Event" THEN Sweeps!Cardinality({r \in b : Log[r].type = k}) ELSE 0
  <2>4. \A k : n(k) \in Nat
    BY <2>2
  <2>5. \A k \in Sweeps!Types : lifetime'[k] = lifetime[k] + n(k)
    BY <2>3
  <2> HIDE DEF n
  <2> QED BY <2>1, <2>4, <2>5
<1>6. /\ sw' \in [Sweepers -> Sweeping] /\ sw'[s].batch = {}
      /\ \A z \in Sweepers : z # s => sw'[z] = sw[z]
  <2>1. sw \in [Sweepers -> Sweeping]
    BY DEF SweepInv, SweepTyped
  <2> DEFINE x == [sw[s] EXCEPT !.pc = "select", !.left = @ - 1, !.batch = {}]
  <2>2. sw' = [sw EXCEPT ![s] = IF Sweeps!Cardinality(sw[s].batch) < BatchSize THEN Sweeps!Asleep ELSE x]
    BY DEF Sweeps!Fold
  <2>3. x \in Sweeping /\ x.batch = {}
    <3>1. sw[s] \in Sweeping /\ sw[s].left - 1 \in Int
      BY <2>1 DEF Sweeping
    <3> QED BY <3>1 DEF Sweeping
  <2> HIDE DEF x
  <2> QED BY <2>1, <2>2, <2>3, AsleepSweeps
<1>7. \A o \in Sweeps!Owners : first'[o] = Sweeps!Earliest(first[o], OwnRows(b, o, "SENT"))
  BY <1>2 DEF OwnRows
<1>8. /\ written \in 0 .. Len(Log) /\ Len(Log) \in Nat /\ live \in SUBSET (1 .. written)
      /\ b \in SUBSET (1 .. written) /\ first \in [Sweeps!Owners -> 0 .. Len(Log)]
      /\ rolled \in [Sweeps!Owners -> [Counters -> Nat]] /\ lifetime \in [Sweeps!Types -> Nat]
      /\ proof \subseteq Sweeps!Owners
  BY DEF SweepInv, SweepTyped, Sweeping, Sweeps!RetentionOK
<1>9. ~twice => b \subseteq live /\ \A z \in Sweepers : z # s => sw[z].batch \cap b = {}
  BY DEF SweepInv, HandsApart
<1>10. OnlyPurged'
  BY <1>6 DEF SweepInv, OnlyPurged
<1> HIDE DEF b
<1>11. written \in Nat
  BY <1>8
<1>12. /\ \A o, k : /\ IsFiniteSet(OwnRows(b, o, k)) /\ IsFiniteSet(OwnRows(live, o, k))
       /\ \A k : IsFiniteSet(KindRows(b, k)) /\ IsFiniteSet(KindRows(live, k))
  BY <1>8, <1>11, RowCounts
<1>13. \A o, k : /\ Cardinality(OwnRows(b, o, k)) \in Nat /\ Cardinality(OwnRows(live, o, k)) \in Nat
                 /\ Cardinality(OwnRows(1 .. written, o, k)) \in Nat
  BY <1>8, <1>11, RowCounts
<1>14. \A k : /\ Cardinality(KindRows(b, k)) \in Nat /\ Cardinality(KindRows(live, k)) \in Nat
              /\ Cardinality(KindRows(1 .. written, k)) \in Nat
  BY <1>8, <1>11, RowCounts
<1>15. /\ \A o, k : OwnRows(live', o, k) = OwnRows(live, o, k) \ OwnRows(b, o, k)
       /\ \A k : KindRows(live', k) = KindRows(live, k) \ KindRows(b, k)
       /\ b \subseteq live => /\ \A o, k : OwnRows(b, o, k) \subseteq OwnRows(live, o, k)
                              /\ \A k : KindRows(b, k) \subseteq KindRows(live, k)
  BY <1>1 DEF OwnRows, KindRows
<1>16. ASSUME NEW o, NEW k
       PROVE  /\ Cardinality(OwnRows(live', o, k)) \in Nat
              /\ Cardinality(OwnRows(live', o, k)) + Cardinality(OwnRows(b, o, k))
                   >= Cardinality(OwnRows(live, o, k))
              /\ ~twice => Cardinality(OwnRows(live', o, k)) + Cardinality(OwnRows(b, o, k))
                             = Cardinality(OwnRows(live, o, k))
  <2>1. IsFiniteSet(OwnRows(b, o, k)) /\ IsFiniteSet(OwnRows(live, o, k))
    BY <1>12
  <2>2. ~twice => OwnRows(b, o, k) \subseteq OwnRows(live, o, k)
    BY <1>9, <1>15
  <2> QED BY <2>1, <2>2, <1>15, FoldCounts
<1>17. ASSUME NEW k
       PROVE  /\ Cardinality(KindRows(live', k)) \in Nat
              /\ Cardinality(KindRows(live', k)) + Cardinality(KindRows(b, k))
                   >= Cardinality(KindRows(live, k))
              /\ ~twice => Cardinality(KindRows(live', k)) + Cardinality(KindRows(b, k))
                             = Cardinality(KindRows(live, k))
  <2>1. IsFiniteSet(KindRows(b, k)) /\ IsFiniteSet(KindRows(live, k))
    BY <1>12
  <2>2. ~twice => KindRows(b, k) \subseteq KindRows(live, k)
    BY <1>9, <1>15
  <2> QED BY <2>1, <2>2, <1>15, FoldCounts
<1>18. SweepTyped'
  <2>1. rolled' \in [Sweeps!Owners -> [Counters -> Nat]]
    <3>1. \A o \in Sweeps!Owners, k \in Counters : rolled'[o][k] \in Nat
      BY <1>4, <1>8, <1>13
    <3>2. \A o \in Sweeps!Owners : rolled'[o] \in [Counters -> Nat]
      BY <1>3, <3>1
    <3> QED BY <1>3, <3>2
  <2>2. lifetime' \in [Sweeps!Types -> Nat]
    BY <1>3, <1>5
  <2>3. first' \in [Sweeps!Owners -> 0 .. Len(Log)]
    <3>1. ASSUME NEW o \in Sweeps!Owners PROVE first'[o] \in 0 .. Len(Log)
      <4> DEFINE B == OwnRows(b, o, "SENT")
      <4>1. B \in SUBSET (1 .. written) /\ B \in SUBSET (Nat \ {0}) /\ B \in SUBSET (0 .. Len(Log))
        <5>1. (1 .. written) \in SUBSET (Nat \ {0}) /\ (1 .. written) \in SUBSET (0 .. Len(Log))
          BY <1>8
        <5> QED BY <1>8, <5>1 DEF OwnRows
      <4>2. first[o] \in 0 .. Len(Log) /\ first[o] \in Nat
        BY <1>8
      <4> HIDE DEF B
      <4>3. With(first[o], B) \in SUBSET (0 .. Len(Log))
        BY <4>1, <4>2 DEF With
      <4>4. IsFirst(Sweeps!Earliest(first[o], B), With(first[o], B))
        BY <4>1, <4>2, EarliestIs
      <4>5. Sweeps!Earliest(first[o], B) \in 0 .. Len(Log)
        BY <1>8, <4>3, <4>4 DEF IsFirst
      <4> QED BY <1>7, <4>5 DEF B
    <3> QED BY <1>2, <3>1
  <2>4. proof' \subseteq Sweeps!Owners
    BY <1>1, <1>8 DEF Sweeps!Stamped, Sweeps!Owners, Sweeps!Rows
  <2>5. Sweeping' = Sweeping
    BY <1>1 DEF Sweeping
  <2> QED BY <1>1, <1>6, <2>1, <2>2, <2>3, <2>4, <2>5 DEF SweepInv, SweepTyped
<1>19. HandsApart'
  <2> SUFFICES ASSUME ~twice'
               PROVE  /\ \A z \in Sweepers : sw'[z].batch \subseteq live'
                      /\ \A y, z \in Sweepers : y # z => sw'[y].batch \cap sw'[z].batch = {}
    BY DEF HandsApart
  <2>1. ~twice
    BY <1>1
  <2>2. /\ \A z \in Sweepers : sw[z].batch \subseteq live
        /\ \A y, z \in Sweepers : y # z => sw[y].batch \cap sw[z].batch = {}
    BY <2>1 DEF SweepInv, HandsApart
  <2> QED BY <1>1, <1>6, <1>9, <2>1, <2>2
<1>20. AtLeast'
  <2>1. ASSUME NEW o \in Sweeps!Owners, NEW k \in Counters
        PROVE  rolled'[o][k] + Cardinality(OwnRows(live', o, k)) >= Cardinality(OwnRows(1 .. written, o, k))
    <3>1. rolled[o][k] + Cardinality(OwnRows(live, o, k)) >= Cardinality(OwnRows(1 .. written, o, k))
      BY DEF SweepInv, AtLeast
    <3>2. rolled[o][k] \in Nat
      BY <1>8
    <3>3. (rolled[o][k] + Cardinality(OwnRows(b, o, k))) + Cardinality(OwnRows(live', o, k))
            >= Cardinality(OwnRows(1 .. written, o, k))
      BY <3>1, <3>2, <1>13, <1>16
    <3> QED BY <3>3, <1>4
  <2>2. ASSUME NEW k \in Sweeps!Types \cap Sweeps!Purged
        PROVE  lifetime'[k] + Cardinality(KindRows(live', k)) >= Cardinality(KindRows(1 .. written, k))
    <3>1. lifetime[k] + Cardinality(KindRows(live, k)) >= Cardinality(KindRows(1 .. written, k))
      BY DEF SweepInv, AtLeast
    <3>2. lifetime[k] \in Nat
      BY <1>8
    <3>3. (lifetime[k] + Cardinality(KindRows(b, k))) + Cardinality(KindRows(live', k))
            >= Cardinality(KindRows(1 .. written, k))
      BY <3>1, <3>2, <1>14, <1>17
    <3> QED BY <3>3, <1>4
  <2> QED BY <1>1, <2>1, <2>2 DEF AtLeast
<1>21. ASSUME ~twice PROVE Precisely'
  <2>1. ASSUME NEW o \in Sweeps!Owners, NEW k \in Counters
        PROVE  rolled'[o][k] + Cardinality(OwnRows(live', o, k)) = Cardinality(OwnRows(1 .. written, o, k))
    <3>1. rolled[o][k] + Cardinality(OwnRows(live, o, k)) = Cardinality(OwnRows(1 .. written, o, k))
      BY <1>21 DEF SweepInv, Precisely
    <3>2. rolled[o][k] \in Nat
      BY <1>8
    <3>3. (rolled[o][k] + Cardinality(OwnRows(b, o, k))) + Cardinality(OwnRows(live', o, k))
            = Cardinality(OwnRows(1 .. written, o, k))
      BY <3>1, <3>2, <1>13, <1>16, <1>21
    <3> QED BY <3>3, <1>4
  <2>2. ASSUME NEW k \in Sweeps!Types \cap Sweeps!Purged
        PROVE  lifetime'[k] + Cardinality(KindRows(live', k)) = Cardinality(KindRows(1 .. written, k))
    <3>1. lifetime[k] + Cardinality(KindRows(live, k)) = Cardinality(KindRows(1 .. written, k))
      BY <1>21 DEF SweepInv, Precisely
    <3>2. lifetime[k] \in Nat
      BY <1>8
    <3>3. (lifetime[k] + Cardinality(KindRows(b, k))) + Cardinality(KindRows(live', k))
            = Cardinality(KindRows(1 .. written, k))
      BY <3>1, <3>2, <1>14, <1>17, <1>21
    <3> QED BY <3>3, <1>4
  <2>3. ASSUME NEW o \in Sweeps!Owners
        PROVE  Sweeps!Earliest(first'[o], OwnRows(live', o, "SENT"))
                 = Sweeps!Earliest(0, OwnRows(1 .. written, o, "SENT"))
    <3> DEFINE B == OwnRows(b, o, "SENT")
               L == OwnRows(live, o, "SENT")
    <3>1. first[o] \in Nat /\ B \in SUBSET (Nat \ {0}) /\ (L \ B) \in SUBSET (Nat \ {0})
      <4>1. (1 .. written) \in SUBSET (Nat \ {0}) /\ first[o] \in Nat
        BY <1>8
      <4> QED BY <1>8, <4>1 DEF OwnRows
    <3>2. B \cup (L \ B) = L
      BY <1>9, <1>15, <1>21
    <3> HIDE DEF B, L
    <3>3. Sweeps!Earliest(Sweeps!Earliest(first[o], B), L \ B) = Sweeps!Earliest(first[o], B \cup (L \ B))
      BY <3>1, EarliestTwice
    <3>4. Sweeps!Earliest(first[o], L) = Sweeps!Earliest(0, OwnRows(1 .. written, o, "SENT"))
      BY <1>21 DEF SweepInv, Precisely, L
    <3>5. first'[o] = Sweeps!Earliest(first[o], B) /\ OwnRows(live', o, "SENT") = L \ B
      BY <1>7, <1>15 DEF B, L
    <3> QED BY <3>2, <3>3, <3>4, <3>5
  <2> QED BY <1>1, <2>1, <2>2, <2>3 DEF Precisely
<1>22. Precisely'
  BY <1>1, <1>21 DEF Precisely
<1>23. Sweeps!StaysProved'
  BY <1>1 DEF SweepInv, Sweeps!StaysProved, Sweeps!Proved, Sweeps!Stamped
<1> QED BY <1>10, <1>18, <1>19, <1>20, <1>22, <1>23 DEF SweepInv

LEMMA SweepKeeps ==
    ASSUME Sweeps!RetentionOK, SweepInv, [Sweeps!Next]_(Sweeps!vars) PROVE SweepInv'
BY WriteKeeps, QuietSteps, SelectKeeps, FoldKeeps DEF Sweeps!Next

\* No sweep loses a count of a campaign, of a send, or of the lifetime totals, whatever
\* rolls back, dies, or runs twice (eventRetention.ts and digestRetention.ts foldAndDelete).
THEOREM SweepsLoseNothing ==
    ASSUME Sweeps!RetentionOK PROVE Sweeps!Spec => []Sweeps!NothingLost
<1>1. Sweeps!Init => SweepInv
  BY SweepStarts
<1>2. SweepInv /\ [Sweeps!Next]_(Sweeps!vars) => SweepInv'
  BY SweepKeeps
<1>3. SweepInv => Sweeps!NothingLost
  BY KeptIsShown
<1> QED BY <1>1, <1>2, <1>3, PTL DEF Sweeps!Spec

\* While no row is in the hands of two sweepers every count is exact, and so is the time
\* of a campaign's first push (eventRetention.ts foldAndDelete, rolledFirstSentAt).
THEOREM SweepsCountExactly ==
    ASSUME Sweeps!RetentionOK PROVE Sweeps!Spec => []Sweeps!Exact
<1>1. Sweeps!Init => SweepInv
  BY SweepStarts
<1>2. SweepInv /\ [Sweeps!Next]_(Sweeps!vars) => SweepInv'
  BY SweepKeeps
<1>3. SweepInv => Sweeps!Exact
  BY KeptIsShown
<1> QED BY <1>1, <1>2, <1>3, PTL DEF Sweeps!Spec

\* A send whose webhook was heard of stays covered when the rows that prove it go
\* (digestRetention.ts foldAndDelete, webhookProofAt).
THEOREM SweepsKeepProof ==
    ASSUME Sweeps!RetentionOK PROVE Sweeps!Spec => []Sweeps!StaysProved
<1>1. Sweeps!Init => SweepInv
  BY SweepStarts
<1>2. SweepInv /\ [Sweeps!Next]_(Sweeps!vars) => SweepInv'
  BY SweepKeeps
<1>3. SweepInv => Sweeps!StaysProved
  BY KeptIsShown
<1> QED BY <1>1, <1>2, <1>3, PTL DEF Sweeps!Spec

\* The ten variables hold values of their kinds.
THEOREM SweepTypes == ASSUME Sweeps!RetentionOK PROVE Sweeps!Spec => []Sweeps!TypeOK
<1>1. Sweeps!Init => SweepInv
  BY SweepStarts
<1>2. SweepInv /\ [Sweeps!Next]_(Sweeps!vars) => SweepInv'
  BY SweepKeeps
<1>3. SweepInv => Sweeps!TypeOK
  BY DEF SweepInv, SweepTyped, Sweeping, Counters, Sweeps!TypeOK
<1> QED BY <1>1, <1>2, <1>3, PTL DEF Sweeps!Spec

\* token.ts: a container posts with tokens that stem from the one it was started with, and the token of a page that is
\* checked every day never expires.
THEOREM TokenIsKept == ASSUME Token!TokenOK PROVE Token!Spec => []Token!TokenKept
  BY TokenIsOfItsPaste, TokenLivesOn, PTL DEF Token!TokenKept

\* foldAndDelete: a sweep that fails or is repeated loses no count, a row swept once is counted once, and a send that was
\* proved stays proved.
THEOREM SweepsKeepCounts == ASSUME Sweeps!RetentionOK PROVE Sweeps!Spec => []Sweeps!CountsKept
  BY SweepsLoseNothing, SweepsCountExactly, SweepsKeepProof, PTL DEF Sweeps!CountsKept

-----------------------------------------------------------------------------
(* The stories of a digest                                                 *)

CONSTANTS
    Keys, Tier, Dying, Pushable, Arrives, Audiences, Runners, MaxItems, MinItems, RollforwardItems,
    PerDay, WindowCap, FirstWindow, MaxTime, MaxCaptures
VARIABLES now, captured, run, work, news, aside

Stories == INSTANCE DigestStories

LEMMA DivUp ==
    ASSUME NEW a \in Nat, NEW b \in Nat, NEW p \in Nat \ {0}, a <= b
    PROVE  a \div p \in Nat /\ a \div p <= b \div p
  OBVIOUS

LEMMA StoryCount ==
    \A S : Stories!Cardinality(S) = Cardinality(S) /\ (Stories!IsFiniteSet(S) <=> IsFiniteSet(S))
  BY DEF Stories!Cardinality, Cardinality, Stories!IsFiniteSet, IsFiniteSet

\* A set of numbers that is bounded has a greatest one.
LEMMA GreatestOf ==
    ASSUME NEW n \in Nat, NEW T \in SUBSET (0 .. n), T # {}
    PROVE  \E e \in T : \A d \in T : d <= e
  <1> DEFINE U == {n - d : d \in T}
  <1>1. \A d \in T : d \in Nat /\ d <= n /\ n - d \in Nat
    OBVIOUS
  <1>2. U \in SUBSET Nat /\ U # {}
    BY <1>1
  <1>3. PICK u \in U : \A v \in U : u <= v
    <2> HIDE DEF U
    <2> QED  BY <1>2, LeastOf
  <1>4. PICK e \in T : u = n - e
    BY <1>3
  <1>5. ASSUME NEW d \in T PROVE d <= e
    <2>1. n - e <= n - d
      BY <1>3, <1>4
    <2> QED  BY <1>1, <2>1
  <1> QED  BY <1>5

LEMMA StoryMin ==
    ASSUME NEW T \in SUBSET Nat, T # {}
    PROVE  Stories!Min(T) \in T /\ \A d \in T : Stories!Min(T) <= d
  BY LeastOf DEF Stories!Min

LEMMA StoryLatest ==
    ASSUME NEW n \in Nat, NEW T \in SUBSET (0 .. n), T # {}
    PROVE  Stories!Max(T) \in T /\ \A d \in T : d <= Stories!Max(T)
  BY GreatestOf DEF Stories!Max

LEMMA OfTwo ==
    ASSUME NEW a \in Int, NEW b \in Int
    PROVE  /\ Stories!Min({a, b}) = IF a <= b THEN a ELSE b
           /\ Stories!Max({a, b}) = IF a <= b THEN b ELSE a
  BY DEF Stories!Min, Stories!Max

-----------------------------------------------------------------------------
(* The stories of one list                                                 *)

LEMMA FewerThan ==
    ASSUME NEW S, IsFiniteSet(S), NEW T \in SUBSET S, NEW x \in S \ T
    PROVE  IsFiniteSet(T) /\ Cardinality(T) \in Nat /\ Cardinality(S) \in Nat /\ Cardinality(T) < Cardinality(S)
  <1>1. IsFiniteSet(T) /\ Cardinality(T) <= Cardinality(S) /\ Cardinality(S) # Cardinality(T)
    BY FS_Subset
  <1> QED  BY <1>1, FS_CardinalityType

\* The first n of a set in some order are n at most.
LEMMA FirstFew ==
    ASSUME NEW L, IsFiniteSet(L), NEW place, NEW n \in Nat,
           \A k \in L : place[k] \in Nat,
           \A i, j \in L : place[i] = place[j] => i = j
    PROVE  LET T == {k \in L : Cardinality({j \in L : place[j] < place[k]}) < n}
           IN IsFiniteSet(T) /\ Cardinality(T) \in Nat /\ Cardinality(T) <= n
  <1> DEFINE B(k) == {j \in L : place[j] < place[k]}
             T == {k \in L : Cardinality(B(k)) < n}
             f == [k \in T |-> Cardinality(B(k))]
  <1>1. ASSUME NEW i \in L, NEW j \in L, place[i] < place[j]
        PROVE  Cardinality(B(i)) < Cardinality(B(j))
    <2>1. B(i) \in SUBSET B(j) /\ i \in B(j) \ B(i)
      BY <1>1
    <2>2. IsFiniteSet(B(j))
      BY FS_Subset
    <2> HIDE DEF B
    <2> QED  BY <2>1, <2>2, FewerThan
  <1>2. \A k \in L : Cardinality(B(k)) \in Nat
    BY FS_Subset, FS_CardinalityType
  <1>3. f \in Injection(T, 0 .. n - 1)
    <2>1. f \in [T -> 0 .. n - 1]
      <3> HIDE DEF B
      <3> QED  BY <1>2
    <2>2. ASSUME NEW i \in T, NEW j \in T, f[i] = f[j] PROVE i = j
      <3>1. i \in L /\ j \in L /\ Cardinality(B(i)) = Cardinality(B(j)) /\ Cardinality(B(i)) \in Nat
        <4> HIDE DEF B
        <4> QED  BY <1>2, <2>2
      <3>2. ~(place[i] < place[j]) /\ ~(place[j] < place[i])
        <4> HIDE DEF B, T, f
        <4> QED  BY <1>1, <3>1
      <3> QED  BY <3>1, <3>2
    <2> HIDE DEF f, T
    <2> QED  BY <2>1, <2>2 DEF Injection, IsInjective
  <1>4. IsFiniteSet(0 .. n - 1) /\ Cardinality(0 .. n - 1) = n
    BY FS_Interval
  <1>5. IsFiniteSet(T) /\ Cardinality(T) <= n
    <2> HIDE DEF T, f
    <2> QED  BY <1>3, <1>4, FS_Injection
  <1> QED  BY <1>5, FS_CardinalityType

\* The place of an element among a set: no two have the same.
LEMMA RankOf ==
    ASSUME NEW L, IsFiniteSet(L), NEW place,
           \A k \in L : place[k] \in Nat,
           \A i, j \in L : place[i] = place[j] => i = j
    PROVE  LET R(k) == Cardinality({j \in L : place[j] <= place[k]})
           IN /\ \A k \in L : R(k) \in 1 .. Cardinality(L)
              /\ \A i, j \in L : R(i) = R(j) => i = j
  <1> DEFINE B(k) == {j \in L : place[j] <= place[k]}
  <1>1. ASSUME NEW i \in L, NEW j \in L, place[i] < place[j]
        PROVE  Cardinality(B(i)) < Cardinality(B(j))
    <2>1. B(i) \in SUBSET B(j) /\ j \in B(j) \ B(i)
      BY <1>1
    <2>2. IsFiniteSet(B(j))
      BY FS_Subset
    <2> HIDE DEF B
    <2> QED  BY <2>1, <2>2, FewerThan
  <1>2. ASSUME NEW k \in L PROVE Cardinality(B(k)) \in 1 .. Cardinality(L)
    <2>1. B(k) \in SUBSET L /\ k \in B(k)
      OBVIOUS
    <2> HIDE DEF B
    <2>2. IsFiniteSet(B(k)) /\ Cardinality(B(k)) <= Cardinality(L)
      BY <2>1, FS_Subset
    <2>3. Cardinality(B(k)) \in Nat /\ Cardinality(L) \in Nat /\ Cardinality(B(k)) # 0
      BY <2>1, <2>2, FS_CardinalityType, FS_EmptySet
    <2> QED  BY <2>2, <2>3
  <1>3. ASSUME NEW i \in L, NEW j \in L, Cardinality(B(i)) = Cardinality(B(j)) PROVE i = j
    <2>1. ~(place[i] < place[j]) /\ ~(place[j] < place[i])
      <3> HIDE DEF B
      <3> QED  BY <1>1, <1>2, <1>3
    <2> QED  BY <2>1
  <1> QED  BY <1>2, <1>3

-----------------------------------------------------------------------------
(* The digest's stories                                                    *)

StoryRow   == [id : Nat, key : Keys, at : Nat, queue : Stories!Queues \cup {"REVIEW"},
               status : {"DRAFT", "SCHEDULED", "SENT"}]
StoryEntry == [key : Keys, section : {"MAIN", "ICYMI"}, rank : 1 .. MaxItems]
StoryItem  == [key : Keys, section : {"MAIN", "ICYMI"}, rank : 1 .. MaxItems, aud : Audiences \cup {None}]
StoryDay   == [build : {"none", "BUILDING", "BUILT", "SKIPPED"}, builtAt : 0 .. MaxTime \cup {None},
               items : SUBSET StoryItem,
               sends : [Audiences -> {"none", "open", "SENT", "PARTIALLY_SENT", "FAILED", "SKIPPED"}]]
StoryWork  == [pc : {"idle", "freeze"}, day : Stories!Days, at : 0 .. MaxTime, lists : [Audiences -> SUBSET StoryEntry],
               found : SUBSET Keys]

StoryTypes ==
    /\ now \in 0 .. MaxTime
    /\ captured \subseteq StoryRow /\ IsFiniteSet(captured) /\ Cardinality(captured) <= MaxCaptures
    /\ \A x \in captured : x.at <= now
    /\ run \in [Stories!Days -> StoryDay] /\ work \in [Runners -> StoryWork]
    /\ news \in [Stories!Days -> SUBSET Keys] /\ aside \subseteq Keys

\* A list has a story once, and a place for each.
GoodList(L) ==
    /\ IsFiniteSet(L) /\ Cardinality(L) <= MaxItems
    /\ \A x, y \in L : x.key = y.key \/ x.rank = y.rank => x = y

\* A story was sent to a version's readers on a day. What a list of day d may have: in its main part what no earlier day
\* sent, below that what the last day with a run left, when it fell short and no other sent the story.
Went(e, a, k) == run[e].sends[a] \in Stories!WentOut /\ \E y \in Stories!OfVersion(e, a) : y.key = k
Missed(d, a, k) ==
    \E p \in Stories!Days :
        /\ p < d /\ run[p].build # "none" /\ Stories!RollsForward(p, a)
        /\ \A e \in Stories!Days : p < e /\ e < d => run[e].build = "none"
        /\ \A e \in Stories!Days : e < d /\ Went(e, a, k) => e = p
Fits(d, a, k, section) ==
    /\ section = "MAIN" => \A e \in Stories!Days : e < d => ~Went(e, a, k)
    /\ section = "ICYMI" => Missed(d, a, k)

RowsGood == \A e \in Stories!Days, a \in Audiences : GoodList(Stories!OfVersion(e, a))

LEMMA DaysAre ==
    ASSUME Stories!StoriesOK
    PROVE  /\ MaxTime \in Nat /\ PerDay \in Nat \ {0} /\ MaxTime \div PerDay \in Nat
           /\ Stories!Days \subseteq Nat /\ Stories!Days = 0 .. MaxTime \div PerDay
           /\ \A t \in 0 .. MaxTime : t \div PerDay \in Stories!Days
  <1>1. MaxTime \in Nat /\ PerDay \in Nat \ {0}
    BY DEF Stories!StoriesOK
  <1>2. ASSUME NEW t \in 0 .. MaxTime PROVE t \div PerDay \in Nat /\ t \div PerDay <= MaxTime \div PerDay
    BY <1>1, DivUp
  <1>3. MaxTime \div PerDay \in Nat
    BY <1>1, DivUp
  <1> QED  BY <1>1, <1>2, <1>3 DEF Stories!Days

\* What the run before leaves.
LEMMA PoolIs ==
    ASSUME Stories!StoriesOK, StoryTypes, RowsGood,
           NEW d \in Stories!Days, NEW t \in 0 .. MaxTime, NEW a \in Audiences, NEW ours
    PROVE  LET P == Stories!Pool(d, t, a, ours)
           IN /\ IsFiniteSet(DOMAIN P) /\ DOMAIN P \subseteq Keys \ ours
              /\ \A k \in DOMAIN P : P[k] \in Nat /\ Missed(d, a, k)
              /\ \A i, j \in DOMAIN P : P[i] = P[j] => i = j
  <1> DEFINE E == {e \in Stories!Days : e < d /\ run[e].build # "none"}
             p == Stories!Latest(E)
             falls == p # None /\ run[p].builtAt # None /\ t - run[p].builtAt <= WindowCap /\ Stories!RollsForward(p, a)
             rem == IF falls THEN {x \in Stories!OfVersion(p, a) : x.key \notin ours /\ Stories!MayRepeat(x.key, a, d, p)}
                     ELSE {}
             D == {x.key : x \in rem}
             P == Stories!Pool(d, t, a, ours)
  <1>1. P = [k \in D |-> Stories!Min({Stories!Standing(x) : x \in {y \in rem : y.key = k}})]
    BY DEF Stories!Pool
  <1>2. CASE ~falls
    <2>1. rem = {}
      BY <1>2
    <2>2. D = {} /\ DOMAIN P = {}
      BY <1>1, <2>1
    <2> QED  BY <2>2, FS_EmptySet
  <1>3. CASE falls
    <2>1. p \in Stories!Days /\ p < d /\ run[p].build # "none"
          /\ \A e \in Stories!Days : p < e /\ e < d => run[e].build = "none"
      <3>1. E # {}
        BY <1>3 DEF Stories!Latest
      <3>2. E \in SUBSET (0 .. MaxTime \div PerDay) /\ MaxTime \div PerDay \in Nat
        BY DaysAre
      <3>3. p = Stories!Max(E)
        BY <3>1 DEF Stories!Latest
      <3>4. p \in E /\ \A e \in E : e <= p
        <4> HIDE DEF E, p
        <4> QED  BY <3>1, <3>2, <3>3, StoryLatest
      <3> HIDE DEF p
      <3>5. \A e \in Stories!Days : p < e /\ e < d => run[e].build = "none"
        BY <3>4, DaysAre
      <3> QED  BY <3>4, <3>5
    <2>2. rem = {x \in Stories!OfVersion(p, a) : x.key \notin ours /\ Stories!MayRepeat(x.key, a, d, p)}
      BY <1>3
    <2>3. Stories!RollsForward(p, a)
      BY <1>3
    <2> HIDE DEF p, falls, rem
    <2>4. GoodList(Stories!OfVersion(p, a)) /\ Stories!OfVersion(p, a) \subseteq StoryItem
      BY <2>1 DEF RowsGood, Stories!OfVersion, StoryTypes, StoryDay
    <2>5. rem \subseteq Stories!OfVersion(p, a) /\ IsFiniteSet(rem)
          /\ \A x \in rem : x.key \notin ours /\ Stories!MayRepeat(x.key, a, d, p)
      BY <2>2, <2>4, FS_Subset DEF GoodList
    <2>6. \A x, y \in rem : x.key = y.key \/ x.rank = y.rank => x = y
      BY <2>4, <2>5 DEF GoodList
    <2>7. \A x \in rem : x.key \in Keys /\ x.rank \in 1 .. MaxItems /\ x.section \in {"MAIN", "ICYMI"} /\ MaxItems \in Nat
      BY <2>4, <2>5 DEF StoryItem, Stories!StoriesOK
    <2>8. ASSUME NEW x \in rem PROVE P[x.key] = Stories!Standing(x) /\ Stories!Standing(x) \in Nat
      <3>1. {y \in rem : y.key = x.key} = {x}
        BY <2>6
      <3>2. {Stories!Standing(z) : z \in {y \in rem : y.key = x.key}} = {Stories!Standing(x)}
        BY <3>1
      <3>3. Stories!Standing(x) \in Nat
        BY <2>7 DEF Stories!Standing
      <3>4. Stories!Min({Stories!Standing(x)}) = Stories!Standing(x)
        BY <3>3, StoryMin
      <3> QED  BY <1>1, <3>2, <3>3, <3>4
    <2>9. DOMAIN P = {x.key : x \in rem}
      BY <1>1
    <2>10. IsFiniteSet(DOMAIN P)
      <3> DEFINE f == [x \in rem |-> x.key]
      <3>1. f \in Surjection(rem, DOMAIN P)
        BY <2>9 DEF Surjection
      <3> HIDE DEF f, P
      <3> QED  BY <2>5, <3>1, FS_Surjection
    <2>11. ASSUME NEW k \in DOMAIN P PROVE k \in Keys \ ours /\ P[k] \in Nat /\ Missed(d, a, k)
      <3>1. PICK x \in rem : k = x.key
        BY <2>9
      <3>2. Stories!SentIn(k, a, d) \subseteq {p}
        BY <2>5, <3>1 DEF Stories!MayRepeat
      <3>3. ASSUME NEW e \in Stories!Days, e < d, Went(e, a, k) PROVE e = p
        <4>1. e # d
          BY <3>3, DaysAre
        <4>2. e \in Stories!SentIn(k, a, d)
          BY <3>3, <4>1 DEF Went, Stories!SentIn
        <4> QED  BY <3>2, <4>2
      <3>4. Missed(d, a, k)
        BY <2>1, <2>3, <3>3 DEF Missed
      <3> HIDE DEF P
      <3> QED  BY <2>5, <2>7, <2>8, <3>1, <3>4
    <2>12. ASSUME NEW i \in DOMAIN P, NEW j \in DOMAIN P, P[i] = P[j] PROVE i = j
      <3>1. PICK x \in rem, y \in rem : i = x.key /\ j = y.key
        BY <2>9
      <3>2. Stories!Standing(x) = Stories!Standing(y)
        <4> HIDE DEF P
        <4> QED  BY <2>8, <2>12, <3>1
      <3>3. x.rank = y.rank
        BY <2>7, <3>2 DEF Stories!Standing
      <3> QED  BY <2>6, <3>1, <3>3
    <2> QED  BY <2>10, <2>11, <2>12
  <1> QED  BY <1>2, <1>3

\* The rows of one part of a list: each at its place, after the others.
LEMMA EntriesAre ==
    ASSUME NEW keys, IsFiniteSet(keys), keys \subseteq Keys, NEW place,
           \A k \in keys : place[k] \in Nat,
           \A i, j \in keys : place[i] = place[j] => i = j,
           NEW section \in {"MAIN", "ICYMI"}, NEW above \in Nat, MaxItems \in Nat,
           above + Cardinality(keys) <= MaxItems
    PROVE  LET E == Stories!Entries(place, keys, section, above)
           IN /\ E \subseteq StoryEntry /\ IsFiniteSet(E) /\ Cardinality(E) <= Cardinality(keys)
              /\ \A x \in E : x.key \in keys /\ x.section = section /\ above < x.rank /\ x.rank <= above + Cardinality(keys)
              /\ \A x, y \in E : x.key = y.key \/ x.rank = y.rank => x = y
  <1> DEFINE R(k) == Cardinality({j \in keys : place[j] <= place[k]})
             entry(k) == [key |-> k, section |-> section, rank |-> above + R(k)]
             E == {entry(k) : k \in keys}
             f == [k \in keys |-> entry(k)]
  <1>1. Stories!Entries(place, keys, section, above) = E
    BY StoryCount DEF Stories!Entries
  <1>2. (\A k \in keys : R(k) \in 1 .. Cardinality(keys)) /\ \A i, j \in keys : R(i) = R(j) => i = j
    BY RankOf
  <1>3. Cardinality(keys) \in Nat
    BY FS_CardinalityType
  <1> HIDE DEF R
  <1>4. ASSUME NEW k \in keys
        PROVE  entry(k) \in StoryEntry /\ entry(k).key = k /\ entry(k).section = section /\ entry(k).rank = above + R(k)
               /\ above < entry(k).rank /\ entry(k).rank <= above + Cardinality(keys)
    <2>1. R(k) \in 1 .. Cardinality(keys)
      BY <1>2
    <2>2. above + R(k) \in 1 .. MaxItems /\ above < above + R(k) /\ above + R(k) <= above + Cardinality(keys)
      BY <1>3, <2>1
    <2> QED  BY <2>2 DEF StoryEntry
  <1>5. f \in Surjection(keys, E)
    <2> HIDE DEF entry
    <2> QED  BY DEF Surjection
  <1> HIDE DEF f
  <1>6. IsFiniteSet(E) /\ Cardinality(E) <= Cardinality(keys)
    <2> HIDE DEF E
    <2> QED  BY <1>5, FS_Surjection
  <1>7. ASSUME NEW x \in E, NEW y \in E, x.key = y.key \/ x.rank = y.rank PROVE x = y
    <2>1. PICK i \in keys, j \in keys : x = entry(i) /\ y = entry(j)
      OBVIOUS
    <2> HIDE DEF entry, E
    <2>2. i = j
      BY <1>2, <1>4, <1>7, <2>1
    <2> QED  BY <2>1, <2>2
  <1>8. E \subseteq StoryEntry
        /\ \A x \in E : x.key \in keys /\ x.section = section /\ above < x.rank /\ x.rank <= above + Cardinality(keys)
    <2> HIDE DEF entry
    <2> QED  BY <1>4
  <1> HIDE DEF E
  <1> QED  BY <1>1, <1>6, <1>7, <1>8

\* The first of those that are live are so many at most, and keep their places.
LEMMA LiveAre ==
    ASSUME NEW keys, IsFiniteSet(keys), NEW place,
           \A k \in keys : place[k] \in Nat,
           \A i, j \in keys : place[i] = place[j] => i = j,
           NEW n \in Nat, NEW gone
    PROVE  LET T == Stories!TakeLive(place, keys, n, gone)
           IN T \subseteq keys /\ IsFiniteSet(T) /\ Cardinality(T) \in Nat /\ Cardinality(T) <= n
  <1> DEFINE alive == keys \ gone
             T == {k \in alive : Cardinality({j \in alive : place[j] < place[k]}) < n}
  <1>1. Stories!TakeLive(place, keys, n, gone) = T
    BY StoryCount DEF Stories!TakeLive
  <1>2. IsFiniteSet(alive) /\ alive \subseteq keys
    BY FS_Subset
  <1> HIDE DEF alive
  <1>3. IsFiniteSet(T) /\ Cardinality(T) \in Nat /\ Cardinality(T) <= n
    BY <1>2, FirstFew
  <1>4. T \subseteq keys
    BY <1>2
  <1> HIDE DEF T
  <1> QED  BY <1>1, <1>3, <1>4

\* selectDigest: a list of its size, with what may stand in each part.
LEMMA ListIs ==
    ASSUME Stories!StoriesOK, StoryTypes, RowsGood,
           NEW d \in Stories!Days, NEW t \in 0 .. MaxTime, NEW a \in Audiences,
           NEW F, IsFiniteSet(F), F \subseteq Keys, NEW order \in [F -> Nat],
           \A i, j \in F : order[i] = order[j] => i = j,
           NEW gone
    PROVE  LET L == Stories!List(d, t, a, order, gone)
           IN L \in SUBSET StoryEntry /\ GoodList(L) /\ \A x \in L : Fits(d, a, x.key, x.section)
  <1> DEFINE el == {k \in F : Stories!SentIn(k, a, d) = {}}
             P == Stories!Pool(d, t, a, el)
             m == Stories!Min({RollforwardItems, MaxItems})
             ic == Stories!TakeLive(P, DOMAIN P, m, gone)
             rest == MaxItems - Cardinality(ic)
             mn == Stories!TakeLive(order, el, rest, gone)
             EM == Stories!Entries(order, mn, "MAIN", 0)
             EI == Stories!Entries(P, ic, "ICYMI", Cardinality(mn))
  <1>1. Stories!List(d, t, a, order, gone) = EM \cup EI
    <2>1. DOMAIN order = F
      OBVIOUS
    <2> QED  BY <2>1, StoryCount DEF Stories!List
  <1>2. MaxItems \in Nat /\ RollforwardItems \in Nat
    BY DEF Stories!StoriesOK
  <1>3. m \in Nat /\ m <= MaxItems
    BY <1>2, OfTwo
  <1>4. IsFiniteSet(el) /\ el \subseteq F /\ \A k \in el : Stories!SentIn(k, a, d) = {}
    BY FS_Subset
  <1> HIDE DEF el, m
  <1>5. /\ IsFiniteSet(DOMAIN P) /\ DOMAIN P \subseteq Keys \ el
        /\ \A k \in DOMAIN P : P[k] \in Nat /\ Missed(d, a, k)
        /\ \A i, j \in DOMAIN P : P[i] = P[j] => i = j
    BY PoolIs
  <1> HIDE DEF P
  <1>6. ic \subseteq DOMAIN P /\ IsFiniteSet(ic) /\ Cardinality(ic) \in Nat /\ Cardinality(ic) <= m
    BY <1>3, <1>5, LiveAre
  <1> HIDE DEF ic
  <1>7. rest \in Nat
    BY <1>2, <1>3, <1>6
  <1>8. (\A k \in el : order[k] \in Nat) /\ \A i, j \in el : order[i] = order[j] => i = j
    BY <1>4
  <1>9. mn \subseteq el /\ IsFiniteSet(mn) /\ Cardinality(mn) \in Nat /\ Cardinality(mn) <= rest
    <2> HIDE DEF rest
    <2> QED  BY <1>4, <1>7, <1>8, LiveAre
  <1>10. Cardinality(mn) + Cardinality(ic) <= MaxItems
    <2> HIDE DEF mn
    <2> QED  BY <1>2, <1>6, <1>9
  <1> HIDE DEF mn
  <1>11. /\ EM \subseteq StoryEntry /\ IsFiniteSet(EM) /\ Cardinality(EM) <= Cardinality(mn)
         /\ \A x \in EM : x.key \in mn /\ x.section = "MAIN" /\ 0 < x.rank /\ x.rank <= 0 + Cardinality(mn)
         /\ \A x, y \in EM : x.key = y.key \/ x.rank = y.rank => x = y
    <2>1. 0 + Cardinality(mn) <= MaxItems
      BY <1>2, <1>6, <1>9, <1>10
    <2>2. mn \subseteq Keys
      BY <1>4, <1>9
    <2> QED  BY <1>2, <1>8, <1>9, <2>1, <2>2, EntriesAre
  <1>12. /\ EI \subseteq StoryEntry /\ IsFiniteSet(EI) /\ Cardinality(EI) <= Cardinality(ic)
         /\ \A x \in EI : /\ x.key \in ic /\ x.section = "ICYMI" /\ Cardinality(mn) < x.rank
                          /\ x.rank <= Cardinality(mn) + Cardinality(ic)
         /\ \A x, y \in EI : x.key = y.key \/ x.rank = y.rank => x = y
    <2>1. ic \subseteq Keys /\ (\A k \in ic : P[k] \in Nat) /\ \A i, j \in ic : P[i] = P[j] => i = j
      BY <1>5, <1>6
    <2> QED  BY <1>2, <1>6, <1>9, <1>10, <2>1, EntriesAre
  <1> DEFINE L == EM \cup EI
  <1> HIDE DEF EM, EI
  <1>13. L \in SUBSET StoryEntry
    BY <1>11, <1>12
  <1>14. IsFiniteSet(L) /\ Cardinality(L) <= MaxItems
    <2>1. IsFiniteSet(L) /\ Cardinality(L) = Cardinality(EM) + Cardinality(EI) - Cardinality(EM \cap EI)
      BY <1>11, <1>12, FS_Union
    <2>2. Cardinality(EM) \in Nat /\ Cardinality(EI) \in Nat /\ Cardinality(EM \cap EI) \in Nat
      BY <1>11, <1>12, FS_Intersection, FS_CardinalityType
    <2> QED  BY <1>2, <1>6, <1>9, <1>10, <1>11, <1>12, <2>1, <2>2
  <1>15. ASSUME NEW x \in EM, NEW y \in EI PROVE x.key # y.key /\ x.rank # y.rank
    <2>1. x.key \in el /\ y.key \notin el
      BY <1>5, <1>6, <1>9, <1>11, <1>12
    <2>2. x.rank \in Nat /\ y.rank \in Nat
      BY <1>2, <1>11, <1>12 DEF StoryEntry
    <2>3. x.rank <= Cardinality(mn) /\ Cardinality(mn) < y.rank
      BY <1>9, <1>11, <1>12
    <2> QED  BY <1>9, <2>1, <2>2, <2>3
  <1>16. ASSUME NEW x \in L, NEW y \in L, x.key = y.key \/ x.rank = y.rank PROVE x = y
    BY <1>11, <1>12, <1>15, <1>16
  <1>17. ASSUME NEW x \in L PROVE Fits(d, a, x.key, x.section)
    <2>1. CASE x \in EM
      <3>1. Stories!SentIn(x.key, a, d) = {} /\ x.section = "MAIN"
        BY <1>4, <1>9, <1>11, <2>1
      <3>2. \A e \in Stories!Days : e < d => ~Went(e, a, x.key)
        BY <3>1, DaysAre DEF Went, Stories!SentIn
      <3> QED  BY <3>1, <3>2 DEF Fits
    <2>2. CASE x \in EI
      <3>1. Missed(d, a, x.key) /\ x.section = "ICYMI"
        BY <1>5, <1>6, <1>12, <2>2
      <3> QED  BY <3>1 DEF Fits
    <2> QED  BY <2>1, <2>2
  <1>18. GoodList(L)
    BY <1>14, <1>16 DEF GoodList
  <1> HIDE DEF L
  <1>19. Stories!List(d, t, a, order, gone) = L
    BY <1>1 DEF L
  <1> QED  BY <1>13, <1>17, <1>18, <1>19

Strip(x) == [key |-> x.key, section |-> x.section, rank |-> x.rank]

\* collapseRows: what is stored is read back as it was, for each version.
LEMMA CollapseIs ==
    ASSUME None \notin Audiences, NEW lists \in [Audiences -> SUBSET StoryEntry], NEW a \in Audiences
    PROVE  LET V == {x \in Stories!Collapse(lists) : x.aud = None \/ x.aud = a}
           IN /\ Stories!Collapse(lists) \subseteq StoryItem
              /\ {Strip(x) : x \in V} = lists[a]
              /\ \A x, y \in V : Strip(x) = Strip(y) => x = y
  <1> DEFINE aud(e, b) == IF Stories!SamePlace(lists, e) THEN None ELSE b
             C == Stories!Collapse(lists)
             V == {x \in C : x.aud = None \/ x.aud = a}
  <1>1. \A x : x \in C <=> \E b \in Audiences : \E e \in lists[b] : x = Stories!ItemRow(e, aud(e, b))
    BY DEF Stories!Collapse
  <1> HIDE DEF C
  <1>2. ASSUME NEW b \in Audiences, NEW e \in lists[b], NEW v \in Audiences \cup {None}
        PROVE  /\ Stories!ItemRow(e, v) \in StoryItem /\ Stories!ItemRow(e, v).aud = v
               /\ Strip(Stories!ItemRow(e, v)) = e
    <2>1. e \in StoryEntry
      OBVIOUS
    <2> QED  BY <2>1 DEF Stories!ItemRow, Strip, StoryItem, StoryEntry
  <1>3. \A e : \A b \in Audiences : aud(e, b) \in Audiences \cup {None}
    OBVIOUS
  <1>4. C \subseteq StoryItem
    <2> HIDE DEF aud
    <2> QED  BY <1>1, <1>2, <1>3
  <1>5. ASSUME NEW x \in V PROVE Strip(x) \in lists[a] /\ x = Stories!ItemRow(Strip(x), aud(Strip(x), a))
    <2>1. x \in C
      OBVIOUS
    <2>2. PICK b \in Audiences : \E e \in lists[b] : x = Stories!ItemRow(e, aud(e, b))
      BY <1>1, <2>1
    <2>3. PICK e \in lists[b] : x = Stories!ItemRow(e, aud(e, b))
      BY <2>2
    <2>4. Strip(x) = e /\ x.aud = aud(e, b)
      <3> HIDE DEF aud
      <3> QED  BY <1>2, <1>3, <2>3
    <2>5. x.aud = None \/ x.aud = a
      OBVIOUS
    <2>6. CASE Stories!SamePlace(lists, e)
      BY <2>3, <2>4, <2>6 DEF Stories!SamePlace
    <2>7. CASE ~Stories!SamePlace(lists, e)
      <3>1. b = a
        BY <2>4, <2>5, <2>7
      <3> QED  BY <2>3, <2>4, <3>1
    <2> QED  BY <2>6, <2>7
  <1>6. ASSUME NEW e \in lists[a] PROVE \E x \in V : Strip(x) = e
    <2> DEFINE x == Stories!ItemRow(e, aud(e, a))
    <2>1. x \in C
      BY <1>1
    <2>2. Strip(x) = e /\ x.aud = aud(e, a)
      <3> HIDE DEF aud
      <3> QED  BY <1>2, <1>3
    <2>3. aud(e, a) = None \/ aud(e, a) = a
      OBVIOUS
    <2> HIDE DEF x, aud
    <2> QED  BY <2>1, <2>2, <2>3
  <1>7. {Strip(x) : x \in V} = lists[a]
    <2> HIDE DEF V
    <2> QED  BY <1>5, <1>6
  <1>8. ASSUME NEW x \in V, NEW y \in V, Strip(x) = Strip(y) PROVE x = y
    <2> HIDE DEF V, aud
    <2> QED  BY <1>5, <1>8
  <1> QED  BY <1>4, <1>7, <1>8 DEF C

\* A stored list is as long as the one it was made of, and so is its main part.
LEMMA SameLength ==
    ASSUME NEW V, V \subseteq StoryItem, NEW L, L \subseteq StoryEntry, GoodList(L), {Strip(x) : x \in V} = L,
           \A x, y \in V : Strip(x) = Strip(y) => x = y
    PROVE  GoodList(V) /\ Stories!Mains(V) = Stories!Mains(L)
  <1>1. \A x \in V : Strip(x) \in L /\ Strip(x).key = x.key /\ Strip(x).rank = x.rank /\ Strip(x).section = x.section
    BY DEF Strip
  <1>2. \A e \in L : \E x \in V : Strip(x) = e
    OBVIOUS
  <1> DEFINE f == [e \in L |-> CHOOSE x \in V : Strip(x) = e]
  <1>3. \A e \in L : f[e] \in V /\ Strip(f[e]) = e
    BY <1>2
  <1>4. \A x \in V : f[Strip(x)] = x
    BY <1>1, <1>3
  <1>5. f \in [L -> V]
    BY <1>3
  <1> HIDE DEF f
  <1>6. ASSUME NEW M \in SUBSET L, NEW W \in SUBSET V, \A x \in V : x \in W <=> Strip(x) \in M
        PROVE  IsFiniteSet(W) /\ Cardinality(W) = Cardinality(M)
    <2> DEFINE g == [e \in M |-> f[e]]
    <2>1. g \in [M -> W]
      BY <1>3, <1>6
    <2>2. \A i, j \in M : g[i] = g[j] => i = j
      BY <1>3
    <2>3. \A x \in W : Strip(x) \in M /\ g[Strip(x)] = x
      BY <1>4, <1>6
    <2> HIDE DEF g
    <2>4. g \in Injection(M, W) /\ g \in Surjection(M, W)
      <3>1. g \in Injection(M, W)
        BY <2>1, <2>2 DEF Injection, IsInjective
      <3>2. g \in Surjection(M, W)
        BY <2>1, <2>3 DEF Surjection
      <3> QED  BY <3>1, <3>2
    <2>5. IsFiniteSet(M)
      BY FS_Subset DEF GoodList
    <2> QED  BY <2>4, <2>5, FS_Surjection
  <1>7. IsFiniteSet(V) /\ Cardinality(V) = Cardinality(L)
    BY <1>1, <1>6
  <1>8. Cardinality({x \in V : x.section = "MAIN"}) = Cardinality({x \in L : x.section = "MAIN"})
    <2> DEFINE W == {x \in V : x.section = "MAIN"}
               M == {x \in L : x.section = "MAIN"}
    <2>1. W \in SUBSET V /\ M \in SUBSET L /\ \A x \in V : x \in W <=> Strip(x) \in M
      BY <1>1
    <2> HIDE DEF W, M
    <2>2. Cardinality(W) = Cardinality(M)
      BY <1>6, <2>1
    <2> QED  BY <2>2 DEF W, M
  <1>9. GoodList(V)
    BY <1>1, <1>7 DEF GoodList
  <1> QED  BY <1>8, <1>9, StoryCount DEF Stories!Mains

-----------------------------------------------------------------------------
(* The digest's days                                                       *)

\* A day that nothing changes any more. When each article was seen, and first.
Closed(e)   == e < Stories!Today /\ run[e].build # "BUILDING" /\ Stories!Settled(e)
Earlier(d)  == \A e \in Stories!Days : e < d => Closed(e)
Times       == {<<x.key, x.at>> : x \in captured}
First(k, u) == <<k, u>> \in Times /\ \A v \in Nat : <<k, v>> \in Times => u <= v

\* A build of day d that looked at t and found the articles K: none is older than what an earlier one saw, none is missing.
Before(p, d) == p < d /\ run[p].builtAt # None
NewsOf(d, t, K) ==
    /\ \A k \in K : \E u \in Nat : <<k, u>> \in Times /\ u <= t
    /\ \A k \in K, u \in Nat, p \in Stories!Days : <<k, u>> \in Times /\ Before(p, d) => run[p].builtAt < u
    /\ \A p \in Stories!Days :
         Before(p, d) /\ (\A e \in Stories!Days : p < e /\ e < d => run[e].builtAt = None) /\ t - run[p].builtAt <= WindowCap =>
           \A k \in Keys \ aside, u \in Nat : First(k, u) /\ run[p].builtAt < u /\ u <= t => k \in K
Made(d, t, K) == t <= now /\ d = t \div PerDay /\ Earlier(d) /\ NewsOf(d, t, K)

Looked(d, t, K) ==
    \/ \E r \in Runners : work[r].pc = "freeze" /\ work[r].day = d /\ work[r].at = t /\ work[r].found = K
    \/ run[d].builtAt = t /\ news[d] = K
AllMade == \A d \in Stories!Days, t \in 0 .. MaxTime, K \in SUBSET Keys : Looked(d, t, K) => Made(d, t, K)

\* The lists that are made, and those that are stored.
Picked(d, a, L) == GoodList(L) /\ \A x \in L : Fits(d, a, x.key, x.section)
Listed(d, a, L) ==
    \/ \E r \in Runners : work[r].pc = "freeze" /\ work[r].day = d /\ work[r].lists[a] = L
    \/ Stories!OfVersion(d, a) = L
AllPicked == \A d \in Stories!Days, a \in Audiences : \A L : Listed(d, a, L) => Picked(d, a, L)

DayOK(d) ==
    /\ run[d].build # "none" => d <= Stories!Today
    /\ run[d].build \in {"none", "BUILDING"} => run[d].builtAt = None
    /\ run[d].build = "BUILT" =>
         run[d].builtAt # None /\ \A a \in Audiences : Stories!Mains(Stories!OfVersion(d, a)) >= MinItems
    /\ run[d].build # "BUILT" => \A a \in Audiences : run[d].sends[a] = "none"
    /\ run[d].builtAt = None => run[d].items = {} /\ news[d] = {}
AllDays   == \A d \in Stories!Days : DayOK(d)
InReview  == \A x \in captured : x.queue = "REVIEW" => x.key \in aside

StoryInv == StoryTypes /\ AllMade /\ AllPicked /\ AllDays /\ InReview

LEMMA NoStories == GoodList({}) <=> 0 <= MaxItems
  BY FS_EmptySet DEF GoodList

LEMMA StoryInit == ASSUME Stories!StoriesOK PROVE Stories!Init => StoryInv
  <1> SUFFICES ASSUME Stories!Init PROVE StoryInv
    OBVIOUS
  <1>1. /\ now = 0 /\ captured = {} /\ aside = {} /\ news = [d \in Stories!Days |-> {}]
        /\ \A d \in Stories!Days : run[d] = Stories!Unborn
        /\ \A r \in Runners : work[r] = Stories!Resting
    BY DEF Stories!Init
  <1>2. MaxItems \in Nat /\ MaxCaptures \in Nat /\ None \notin Nat /\ 0 \in 0 .. MaxTime /\ 0 \in Stories!Days
    BY DaysAre DEF Stories!StoriesOK
  <1>3. StoryTypes
    <2>1. Stories!Unborn \in StoryDay
      BY DEF Stories!Unborn, StoryDay
    <2>2. Stories!Resting \in StoryWork
      BY <1>2 DEF Stories!Resting, Stories!NoPicks, StoryWork
    <2>3. run \in [Stories!Days -> StoryDay] /\ work \in [Runners -> StoryWork]
      BY <2>1, <2>2 DEF Stories!Init
    <2>4. IsFiniteSet(captured) /\ Cardinality(captured) <= MaxCaptures
      BY <1>1, <1>2, FS_EmptySet
    <2> QED  BY <1>1, <1>2, <2>3, <2>4 DEF StoryTypes
  <1>4. AllMade
    BY <1>1, <1>2 DEF AllMade, Looked, Stories!Unborn, Stories!Resting
  <1>5. AllPicked
    <2>1. \A d \in Stories!Days, a \in Audiences : Stories!OfVersion(d, a) = {}
      BY <1>1 DEF Stories!OfVersion, Stories!Unborn
    <2>2. \A r \in Runners : work[r].pc # "freeze"
      BY <1>1 DEF Stories!Resting
    <2>3. ASSUME NEW d \in Stories!Days, NEW a \in Audiences, NEW L, Listed(d, a, L) PROVE Picked(d, a, L)
      <3>1. L = {}
        BY <2>1, <2>2, <2>3 DEF Listed
      <3> QED  BY <1>2, <3>1, NoStories DEF Picked
    <2> QED  BY <2>3 DEF AllPicked
  <1>6. AllDays
    BY <1>1 DEF AllDays, DayOK, Stories!Unborn
  <1>7. InReview
    BY <1>1 DEF InReview
  <1> QED  BY <1>3, <1>4, <1>5, <1>6, <1>7 DEF StoryInv

-----------------------------------------------------------------------------
(* What a step leaves of the days before                                   *)

\* Time passes, closed days stay, and what is captured is later than all that was looked at.
Onward ==
    /\ now' \in Nat /\ now <= now' /\ now' <= MaxTime /\ aside \subseteq aside'
    /\ \A e \in Stories!Days : Closed(e) => run'[e] = run[e]
    /\ \/ Times' = Times
       \/ \E k \in Keys :
            /\ Times' = Times \cup {<<k, now>>}
            /\ \A r \in Runners : work[r].pc = "freeze" => work[r].at < now
            /\ \A d \in Stories!Days : run[d].builtAt # None => run[d].builtAt < now

LEMMA EarlierStays ==
    ASSUME Stories!StoriesOK, StoryTypes, Onward, NEW d \in Stories!Days, Earlier(d)
    PROVE  Earlier(d)' /\ \A e \in Stories!Days : e < d => run'[e] = run[e]
  <1>1. \A e \in Stories!Days : e < d => Closed(e) /\ run'[e] = run[e]
    BY DEF Earlier, Onward
  <1>2. Stories!Today \in Nat /\ Stories!Today' \in Nat /\ Stories!Today <= Stories!Today'
    <2>1. now \in Nat /\ now' \in Nat /\ now <= now' /\ PerDay \in Nat \ {0}
      BY DaysAre DEF StoryTypes, Onward
    <2>2. \A a, b \in Nat : a <= b => a \div PerDay \in Nat /\ a \div PerDay <= b \div PerDay
      BY <2>1, DivUp
    <2>3. Stories!Today = now \div PerDay /\ Stories!Today' = now' \div PerDay
      BY DEF Stories!Today
    <2>4. now <= now /\ now' <= now'
      BY <2>1
    <2> HIDE DEF Stories!Today
    <2> QED  BY <2>1, <2>2, <2>3, <2>4
  <1>3. ASSUME NEW e \in Stories!Days, e < d PROVE Closed(e)'
    <2>1. Closed(e) /\ run'[e] = run[e] /\ e \in Nat
      BY <1>1, <1>3, DaysAre
    <2>2. e < Stories!Today /\ run[e].build # "BUILDING" /\ Stories!Settled(e)
      BY <2>1 DEF Closed
    <2>3. e < Stories!Today'
      BY <1>2, <2>1, <2>2
    <2>4. Stories!Settled(e)'
      BY <2>1, <2>2 DEF Stories!Settled
    <2> QED  BY <2>1, <2>2, <2>3, <2>4 DEF Closed
  <1> QED  BY <1>1, <1>3 DEF Earlier

LEMMA FitsStays ==
    ASSUME Stories!StoriesOK, NEW d \in Stories!Days, NEW a \in Audiences, NEW k, NEW section,
           \A e \in Stories!Days : e < d => run'[e] = run[e],
           Fits(d, a, k, section)
    PROVE  Fits(d, a, k, section)'
  <1>1. \A e \in Stories!Days : e < d =>
          /\ Went(e, a, k)' <=> Went(e, a, k)
          /\ Stories!RollsForward(e, a)' <=> Stories!RollsForward(e, a)
          /\ run'[e].build = run[e].build
    BY DEF Went, Stories!OfVersion, Stories!RollsForward
  <1>2. Missed(d, a, k) => Missed(d, a, k)'
    BY <1>1 DEF Missed
  <1> QED  BY <1>1, <1>2 DEF Fits

LEMMA MadeStays ==
    ASSUME Stories!StoriesOK, StoryInv, Onward,
           NEW d \in Stories!Days, NEW t \in 0 .. MaxTime, NEW K \in SUBSET Keys, Looked(d, t, K)
    PROVE  Made(d, t, K)'
  <1>1. Made(d, t, K) /\ now \in Nat /\ now' \in Nat /\ now <= now'
    BY DEF StoryInv, AllMade, StoryTypes, Onward
  <1>2. Earlier(d)' /\ \A e \in Stories!Days : e < d => run'[e] = run[e]
    BY <1>1, EarlierStays DEF Made, StoryInv
  <1>3. t <= now'
    BY <1>1 DEF Made
  <1>4. Times \subseteq Times'
        /\ \A k, u : <<k, u>> \in Times' /\ <<k, u>> \notin Times =>
             u = now /\ t < now /\ \A p \in Stories!Days : run[p].builtAt # None => run[p].builtAt < now
    <2>1. CASE Times' = Times
      BY <2>1
    <2>2. CASE Times' # Times
      <3>1. PICK j \in Keys :
                 /\ Times' = Times \cup {<<j, now>>}
                 /\ \A r \in Runners : work[r].pc = "freeze" => work[r].at < now
                 /\ \A p \in Stories!Days : run[p].builtAt # None => run[p].builtAt < now
        BY <2>2 DEF Onward
      <3>2. t < now
        <4>1. t # None
          BY DEF Stories!StoriesOK
        <4> QED  BY <3>1, <4>1 DEF Looked
      <3>3. \A k, u : <<k, u>> \in Times' /\ <<k, u>> \notin Times => u = now
        BY <3>1
      <3>4. Times \subseteq Times'
        BY <3>1
      <3> HIDE DEF Times
      <3> QED  BY <3>1, <3>2, <3>3, <3>4
    <2> QED  BY <2>1, <2>2
  <1>5. NewsOf(d, t, K)'
    <2>1. \A k \in K : \E u \in Nat : <<k, u>> \in Times' /\ u <= t
      BY <1>1, <1>4 DEF Made, NewsOf
    <2>2. ASSUME NEW k \in K, NEW u \in Nat, NEW p \in Stories!Days, <<k, u>> \in Times', p < d, run'[p].builtAt # None
          PROVE  run'[p].builtAt < u
      <3>1. run'[p] = run[p] /\ Before(p, d)
        BY <1>2, <2>2 DEF Before
      <3>2. CASE <<k, u>> \in Times
        BY <1>1, <3>1, <3>2 DEF Made, NewsOf
      <3>3. CASE <<k, u>> \notin Times
        BY <1>4, <2>2, <3>1, <3>3
      <3> QED  BY <3>2, <3>3
    <2>3. ASSUME NEW p \in Stories!Days, p < d, run'[p].builtAt # None,
                 \A e \in Stories!Days : p < e /\ e < d => run'[e].builtAt = None, t - run'[p].builtAt <= WindowCap,
                 NEW k \in Keys \ aside', NEW u \in Nat, First(k, u)', run'[p].builtAt < u, u <= t
          PROVE  k \in K
      <3>1. run'[p] = run[p] /\ Before(p, d) /\ \A e \in Stories!Days : p < e /\ e < d => run[e].builtAt = None
        BY <1>2, <2>3 DEF Before
      <3>2. <<k, u>> \in Times' /\ \A v \in Nat : <<k, v>> \in Times' => u <= v
        BY <2>3 DEF First
      <3>3. <<k, u>> \in Times
        BY <1>1, <1>4, <2>3, <3>2
      <3>4. First(k, u)
        BY <1>4, <3>2, <3>3 DEF First
      <3>5. k \in Keys \ aside
        BY DEF Onward
      <3> QED  BY <1>1, <2>3, <3>1, <3>4, <3>5 DEF Made, NewsOf
    <2> HIDE DEF Times
    <2> QED  BY <2>1, <2>2, <2>3 DEF NewsOf, Before
  <1> QED  BY <1>1, <1>2, <1>3, <1>5 DEF Made

LEMMA PickedStays ==
    ASSUME Stories!StoriesOK, StoryInv, Onward,
           NEW d \in Stories!Days, NEW a \in Audiences, NEW L, Listed(d, a, L)
    PROVE  Picked(d, a, L)'
  <1>1. Picked(d, a, L)
    BY DEF StoryInv, AllPicked
  <1>2. CASE L = {}
    BY <1>1, <1>2 DEF Picked, GoodList
  <1>3. CASE L # {}
    <2>1. \E t \in 0 .. MaxTime, K \in SUBSET Keys : Looked(d, t, K)
      <3>1. CASE Stories!OfVersion(d, a) = L
        <4>1. run[d].items # {} /\ run[d] \in StoryDay /\ news[d] \in SUBSET Keys
          BY <1>3, <3>1 DEF Stories!OfVersion, StoryInv, StoryTypes
        <4>2. run[d].builtAt # None
          BY <4>1 DEF StoryInv, AllDays, DayOK
        <4>3. run[d].builtAt \in 0 .. MaxTime
          BY <4>1, <4>2 DEF StoryDay
        <4> QED  BY <4>1, <4>3 DEF Looked
      <3>2. CASE Stories!OfVersion(d, a) # L
        <4>1. PICK r \in Runners : work[r].pc = "freeze" /\ work[r].day = d
          BY <3>2 DEF Listed
        <4>2. work[r] \in StoryWork
          BY DEF StoryInv, StoryTypes
        <4>3. work[r].at \in 0 .. MaxTime /\ work[r].found \in SUBSET Keys
          BY <4>2 DEF StoryWork
        <4> QED  BY <4>1, <4>3 DEF Looked
      <3> QED  BY <3>1, <3>2
    <2>2. Earlier(d)
      BY <2>1 DEF StoryInv, AllMade, Made
    <2>3. \A e \in Stories!Days : e < d => run'[e] = run[e]
      BY <2>2, EarlierStays DEF StoryInv
    <2>4. \A x \in L : Fits(d, a, x.key, x.section)'
      BY <1>1, <2>3, FitsStays DEF Picked
    <2>5. GoodList(L)'
      BY <1>1 DEF Picked, GoodList
    <2> QED  BY <2>4, <2>5 DEF Picked
  <1> QED  BY <1>2, <1>3

LEMMA StoryStays ==
    ASSUME Stories!StoriesOK, StoryInv, Onward, StoryTypes', AllDays', InReview',
           \A d \in Stories!Days, t \in 0 .. MaxTime, K \in SUBSET Keys : Looked(d, t, K)' => Looked(d, t, K),
           \A d \in Stories!Days, a \in Audiences : \A L : Listed(d, a, L)' => Listed(d, a, L)
    PROVE  StoryInv'
  <1>1. AllMade'
    BY MadeStays DEF AllMade
  <1>2. AllPicked'
    BY PickedStays DEF AllPicked
  <1> QED  BY <1>1, <1>2 DEF StoryInv

-----------------------------------------------------------------------------
(* Captures, and what becomes of them                                      *)

LEMMA NothingBuilt ==
    ASSUME Stories!StoriesOK, StoryInv, UNCHANGED <<run, work, news>>, now' \in Nat, now <= now'
    PROVE  /\ \A e \in Stories!Days : Closed(e) => run'[e] = run[e]
           /\ AllDays'
           /\ \A d \in Stories!Days, t \in 0 .. MaxTime, K \in SUBSET Keys : Looked(d, t, K)' => Looked(d, t, K)
           /\ \A d \in Stories!Days, a \in Audiences : \A L : Listed(d, a, L)' => Listed(d, a, L)
  <1>1. Stories!Today <= Stories!Today' /\ Stories!Today \in Nat /\ Stories!Today' \in Nat
    <2>1. now \in Nat /\ now' \in Nat /\ now <= now' /\ PerDay \in Nat \ {0}
      BY DaysAre DEF StoryInv, StoryTypes
    <2>2. \A a, b \in Nat : a <= b => a \div PerDay \in Nat /\ a \div PerDay <= b \div PerDay
      BY <2>1, DivUp
    <2>3. Stories!Today = now \div PerDay /\ Stories!Today' = now' \div PerDay
      BY DEF Stories!Today
    <2>4. now <= now /\ now' <= now'
      BY <2>1
    <2> HIDE DEF Stories!Today
    <2> QED  BY <2>1, <2>2, <2>3, <2>4
  <1>2. ASSUME NEW d \in Stories!Days PROVE DayOK(d)'
    <2>1. DayOK(d) /\ d \in Nat
      BY DaysAre DEF StoryInv, AllDays
    <2>2. \A a \in Audiences : Stories!Mains(Stories!OfVersion(d, a))' = Stories!Mains(Stories!OfVersion(d, a))
      BY DEF Stories!Mains, Stories!OfVersion
    <2>3. d <= Stories!Today => d <= Stories!Today'
      BY <1>1, <2>1
    <2> HIDE DEF Stories!Today
    <2> QED  BY <2>1, <2>2, <2>3 DEF DayOK
  <1>3. \A d \in Stories!Days, t \in 0 .. MaxTime, K \in SUBSET Keys : Looked(d, t, K)' => Looked(d, t, K)
    BY DEF Looked
  <1>4. \A d \in Stories!Days, a \in Audiences : \A L : Listed(d, a, L)' => Listed(d, a, L)
    BY DEF Listed, Stories!OfVersion
  <1> QED  BY <1>2, <1>3, <1>4 DEF AllDays

LEMMA StoryClock == ASSUME Stories!StoriesOK, StoryInv, Stories!Clock PROVE StoryInv'
  <1>1. now \in Nat /\ now' \in 0 .. MaxTime /\ now <= now' /\ UNCHANGED <<captured, run, work, news, aside>>
    BY DaysAre DEF Stories!Clock, StoryInv, StoryTypes
  <1>2. Times' = Times
    BY <1>1 DEF Times
  <1>3. Onward
    BY <1>1, <1>2, NothingBuilt, DaysAre DEF Onward
  <1>4. StoryTypes' /\ InReview'
    <2>1. \A x \in captured : x.at <= now'
      BY <1>1 DEF StoryInv, StoryTypes, StoryRow
    <2> QED  BY <1>1, <2>1 DEF StoryInv, StoryTypes, InReview
  <1> QED  BY <1>1, <1>3, <1>4, NothingBuilt, StoryStays

LEMMA StoryCapture ==
    ASSUME Stories!StoriesOK, StoryInv, NEW k \in Keys, NEW q \in Arrives, Stories!Capture(k, q)
    PROVE  StoryInv'
  <1> DEFINE x == [id |-> Cardinality(captured), key |-> k, at |-> now, queue |-> q, status |-> "DRAFT"]
  <1>1. /\ Cardinality(captured) < MaxCaptures /\ captured' = captured \cup {x} /\ UNCHANGED <<now, run, work, news>>
        /\ \A r \in Runners : work[r].pc = "idle" \/ work[r].at < now
        /\ run[Stories!Today].builtAt # now
        /\ aside' = IF q = "REVIEW" THEN aside \cup {k} ELSE aside
    BY StoryCount DEF Stories!Capture
  <1>2. now \in 0 .. MaxTime /\ now \in Nat /\ MaxCaptures \in Nat /\ IsFiniteSet(captured) /\ Cardinality(captured) \in Nat
    BY FS_CardinalityType, DaysAre DEF StoryInv, StoryTypes, Stories!StoriesOK
  <1>3. x \in StoryRow /\ x.at = now /\ x.key = k /\ x.queue = q
    BY <1>2 DEF StoryRow, Stories!StoriesOK
  <1> HIDE DEF x
  <1>4. StoryTypes'
    <2>1. IsFiniteSet(captured') /\ Cardinality(captured') <= MaxCaptures
      <3>1. IsFiniteSet(captured \cup {x})
            /\ Cardinality(captured \cup {x}) = IF x \in captured THEN Cardinality(captured) ELSE Cardinality(captured) + 1
        BY <1>2, FS_AddElement
      <3> QED  BY <1>1, <1>2, <3>1
    <2>2. captured' \subseteq StoryRow /\ \A y \in captured' : y.at <= now'
      BY <1>1, <1>2, <1>3 DEF StoryInv, StoryTypes
    <2>3. aside' \subseteq Keys
      BY <1>1 DEF StoryInv, StoryTypes
    <2> QED  BY <1>1, <2>1, <2>2, <2>3 DEF StoryInv, StoryTypes
  <1>5. InReview'
    BY <1>1, <1>3 DEF StoryInv, InReview
  <1>6. Times' = Times \cup {<<k, now>>}
    BY <1>1, <1>3 DEF Times
  <1>7. \A r \in Runners : work[r].pc = "freeze" => work[r].at < now
    BY <1>1
  <1>8. ASSUME NEW d \in Stories!Days, run[d].builtAt # None PROVE run[d].builtAt < now
    <2>1. run[d].builtAt \in 0 .. MaxTime /\ news[d] \in SUBSET Keys
      BY <1>8 DEF StoryInv, StoryTypes, StoryDay
    <2>2. Made(d, run[d].builtAt, news[d])
      BY <2>1 DEF StoryInv, AllMade, Looked
    <2>3. run[d].builtAt <= now /\ d = run[d].builtAt \div PerDay
      BY <2>2 DEF Made
    <2>4. run[d].builtAt # now
      BY <1>1, <2>3 DEF Stories!Today
    <2> QED  BY <1>2, <2>1, <2>3, <2>4
  <1>9. Onward
    <2>1. aside \subseteq aside'
      BY <1>1
    <2>2. \A e \in Stories!Days : Closed(e) => run'[e] = run[e]
      BY <1>1
    <2> HIDE DEF Times
    <2> QED  BY <1>1, <1>2, <1>6, <1>7, <1>8, <2>1, <2>2 DEF Onward
  <1> QED  BY <1>1, <1>2, <1>4, <1>5, <1>9, NothingBuilt, StoryStays

\* A capture changes in nothing that was looked at.
LEMMA StoryBecomes ==
    ASSUME Stories!StoriesOK, StoryInv, NEW x \in captured, NEW y \in StoryRow, Stories!Becomes(x, y),
           y.key = x.key, y.at = x.at, y.queue = "REVIEW" => x.queue = "REVIEW", UNCHANGED <<now, run, work, news, aside>>
    PROVE  StoryInv'
  <1>1. captured' = (captured \ {x}) \cup {y} /\ now \in Nat /\ now \in 0 .. MaxTime
    BY DaysAre DEF Stories!Becomes, StoryInv, StoryTypes
  <1>2. Times' = Times
    BY <1>1 DEF Times
  <1>3. Onward
    BY <1>1, <1>2 DEF Onward
  <1>4. IsFiniteSet(captured') /\ Cardinality(captured') <= MaxCaptures
    <2>1. IsFiniteSet(captured) /\ Cardinality(captured) <= MaxCaptures /\ MaxCaptures \in Nat
      BY DEF StoryInv, StoryTypes, Stories!StoriesOK
    <2>2. IsFiniteSet(captured \ {x}) /\ Cardinality(captured \ {x}) = Cardinality(captured) - 1
          /\ Cardinality(captured) \in Nat
      BY <2>1, FS_RemoveElement, FS_CardinalityType
    <2>3. IsFiniteSet(captured') /\ Cardinality(captured') \in {Cardinality(captured \ {x}), Cardinality(captured \ {x}) + 1}
      BY <1>1, <2>2, FS_AddElement
    <2> QED  BY <2>1, <2>2, <2>3
  <1>5. StoryTypes' /\ InReview'
    BY <1>1, <1>4 DEF StoryInv, StoryTypes, InReview
  <1> QED  BY <1>1, <1>3, <1>5, NothingBuilt, StoryStays

LEMMA StoryReviewed ==
    ASSUME Stories!StoriesOK, StoryInv, NEW x \in captured, Stories!Reviewed(x) PROVE StoryInv'
  <1> DEFINE y == [x EXCEPT !.queue = "QUALIFIED"]
  <1>1. x \in StoryRow
    BY DEF StoryInv, StoryTypes
  <1>2. y \in StoryRow /\ y.key = x.key /\ y.at = x.at /\ y.queue = "QUALIFIED"
    BY <1>1 DEF StoryRow, Stories!Queues
  <1>3. Stories!Becomes(x, y) /\ UNCHANGED <<now, run, work, news, aside>>
    BY DEF Stories!Reviewed
  <1> HIDE DEF y
  <1> QED  BY <1>2, <1>3, StoryBecomes

LEMMA StoryPushed ==
    ASSUME Stories!StoriesOK, StoryInv, NEW x \in captured, NEW st \in {"SCHEDULED", "SENT"}, Stories!Pushed(x, st)
    PROVE  StoryInv'
  <1> DEFINE y == [x EXCEPT !.status = st]
  <1>1. x \in StoryRow
    BY DEF StoryInv, StoryTypes
  <1>2. y \in StoryRow /\ y.key = x.key /\ y.at = x.at /\ y.queue = x.queue
    BY <1>1 DEF StoryRow
  <1>3. Stories!Becomes(x, y) /\ UNCHANGED <<now, run, work, news, aside>>
    BY DEF Stories!Pushed
  <1> HIDE DEF y
  <1> QED  BY <1>2, <1>3, StoryBecomes

-----------------------------------------------------------------------------
(* A run opens, is skipped, is resolved                                    *)

LEMMA DayChanges ==
    ASSUME Stories!StoriesOK, StoryInv, NEW d \in Stories!Days, NEW entry \in StoryDay, ~Closed(d),
           run' = [run EXCEPT ![d] = entry], UNCHANGED <<now, captured, work, news, aside>>,
           entry.builtAt = run[d].builtAt, entry.items = run[d].items,
           entry.build # "none" => d <= Stories!Today,
           entry.build \in {"none", "BUILDING"} => run[d].builtAt = None,
           entry.build = "BUILT" => run[d].build = "BUILT",
           entry.build # "BUILT" => \A a \in Audiences : entry.sends[a] = "none"
    PROVE  StoryInv'
  <1>1. /\ \A e \in Stories!Days : e # d => run'[e] = run[e]
        /\ run'[d] = entry /\ run' \in [Stories!Days -> StoryDay]
    BY DEF StoryInv, StoryTypes
  <1>2. \A e \in Stories!Days : run'[e].builtAt = run[e].builtAt /\ run'[e].items = run[e].items
    BY <1>1
  <1>3. StoryTypes' /\ InReview'
    BY <1>1 DEF StoryInv, StoryTypes, InReview
  <1>4. Times' = Times
    BY DEF Times
  <1>5. Onward
    <2>1. \A e \in Stories!Days : Closed(e) => run'[e] = run[e]
      BY <1>1
    <2>2. now' \in Nat /\ now <= now' /\ now' <= MaxTime
      BY DaysAre DEF StoryInv, StoryTypes
    <2> QED  BY <1>4, <2>1, <2>2 DEF Onward
  <1>6. \A e \in Stories!Days, a \in Audiences : Stories!OfVersion(e, a)' = Stories!OfVersion(e, a)
    BY <1>2 DEF Stories!OfVersion
  <1>7. \A e \in Stories!Days, t \in 0 .. MaxTime, K \in SUBSET Keys : Looked(e, t, K)' => Looked(e, t, K)
    BY <1>2 DEF Looked
  <1>8. \A e \in Stories!Days, a \in Audiences : \A L : Listed(e, a, L)' => Listed(e, a, L)
    BY <1>6 DEF Listed
  <1>9. ASSUME NEW e \in Stories!Days PROVE DayOK(e)'
    <2>1. DayOK(e) /\ DayOK(d)
      BY DEF StoryInv, AllDays
    <2>2. \A a \in Audiences : Stories!Mains(Stories!OfVersion(e, a))' = Stories!Mains(Stories!OfVersion(e, a))
      BY <1>6 DEF Stories!Mains
    <2>3. Stories!Today' = Stories!Today
      BY DEF Stories!Today
    <2>4. CASE e # d
      <3>1. run'[e] = run[e]
        BY <1>1, <2>4
      <3> HIDE DEF Stories!Today
      <3> QED  BY <2>1, <2>2, <2>3, <3>1 DEF DayOK
    <2>5. CASE e = d
      <3>1. run'[e] = entry
        BY <1>1, <2>5
      <3> HIDE DEF Stories!Today
      <3> QED  BY <2>1, <2>2, <2>3, <2>5, <3>1 DEF DayOK
    <2> QED  BY <2>4, <2>5
  <1>10. AllDays'
    BY <1>9 DEF AllDays
  <1> QED  BY <1>3, <1>5, <1>7, <1>8, <1>10, StoryStays

LEMMA StoryOpen == ASSUME Stories!StoriesOK, StoryInv, Stories!Open PROVE StoryInv'
  <1> DEFINE d == Stories!Today
             entry == [run[d] EXCEPT !.build = "BUILDING"]
  <1>1. run[d].build = "none" /\ run' = [run EXCEPT ![d] = entry] /\ UNCHANGED <<now, captured, work, news, aside>>
    BY DEF Stories!Open
  <1>2. d \in Stories!Days /\ d \in Nat
    BY DaysAre DEF StoryInv, StoryTypes, Stories!Today
  <1>3. run[d] \in StoryDay
    BY <1>2 DEF StoryInv, StoryTypes
  <1>4. entry \in StoryDay /\ entry.build = "BUILDING" /\ entry.builtAt = run[d].builtAt /\ entry.items = run[d].items
        /\ entry.sends = run[d].sends
    BY <1>3 DEF StoryDay
  <1>5. DayOK(d)
    BY <1>2 DEF StoryInv, AllDays
  <1>6. run[d].builtAt = None /\ \A a \in Audiences : run[d].sends[a] = "none"
    BY <1>1, <1>5 DEF DayOK
  <1>7. ~Closed(d) /\ d <= Stories!Today
    BY <1>2 DEF Closed
  <1> HIDE DEF entry, d
  <1> QED  BY <1>1, <1>2, <1>4, <1>6, <1>7, DayChanges

LEMMA StorySkipped ==
    ASSUME Stories!StoriesOK, StoryInv, NEW d \in Stories!Days, Stories!SkipRun(d) PROVE StoryInv'
  <1> DEFINE entry == [run[d] EXCEPT !.build = "SKIPPED"]
  <1>1. run[d].build = "BUILDING" /\ run' = [run EXCEPT ![d] = entry] /\ UNCHANGED <<now, captured, work, news, aside>>
    BY DEF Stories!SkipRun
  <1>2. run[d] \in StoryDay
    BY DEF StoryInv, StoryTypes
  <1>3. entry \in StoryDay /\ entry.build = "SKIPPED" /\ entry.builtAt = run[d].builtAt /\ entry.items = run[d].items
        /\ entry.sends = run[d].sends
    BY <1>2 DEF StoryDay
  <1>4. DayOK(d)
    BY DEF StoryInv, AllDays
  <1>5. d <= Stories!Today /\ \A a \in Audiences : run[d].sends[a] = "none"
    BY <1>1, <1>4 DEF DayOK
  <1>6. ~Closed(d)
    BY <1>1 DEF Closed
  <1> HIDE DEF entry
  <1> QED  BY <1>1, <1>3, <1>5, <1>6, DayChanges

LEMMA StoryResolved ==
    ASSUME Stories!StoriesOK, StoryInv, NEW d \in Stories!Days, NEW a \in Audiences,
           NEW st \in Stories!WentOut \cup {"FAILED", "SKIPPED"}, Stories!Resolve(d, a, st)
    PROVE  StoryInv'
  <1> DEFINE entry == [run[d] EXCEPT !.sends[a] = st]
  <1>1. run[d].sends[a] = "open" /\ run' = [run EXCEPT ![d] = entry] /\ UNCHANGED <<now, captured, work, news, aside>>
    BY DEF Stories!Resolve
  <1>2. run[d] \in StoryDay
    BY DEF StoryInv, StoryTypes
  <1>3. entry.build = run[d].build /\ entry.builtAt = run[d].builtAt /\ entry.items = run[d].items
        /\ entry.sends = [run[d].sends EXCEPT ![a] = st]
    BY <1>2 DEF StoryDay
  <1>4. entry \in StoryDay
    BY <1>2 DEF StoryDay, Stories!WentOut
  <1>5. DayOK(d)
    BY DEF StoryInv, AllDays
  <1>6. run[d].build = "BUILT" /\ d <= Stories!Today
    BY <1>1, <1>5 DEF DayOK
  <1>7. ~Closed(d)
    BY <1>1 DEF Closed, Stories!Settled
  <1> HIDE DEF entry
  <1> QED  BY <1>1, <1>3, <1>4, <1>6, <1>7, DayChanges

-----------------------------------------------------------------------------
(* A build fails, or freezes what it chose                                 *)

LEMMA RestingIs == ASSUME Stories!StoriesOK PROVE Stories!Resting \in StoryWork /\ Stories!Resting.pc = "idle"
  <1>1. 0 \in 0 .. MaxTime /\ 0 \in Stories!Days
    BY DaysAre
  <1> QED  BY <1>1 DEF Stories!Resting, Stories!NoPicks, StoryWork

LEMMA StoryDropped ==
    ASSUME Stories!StoriesOK, StoryInv, NEW r \in Runners,
           work' = [work EXCEPT ![r] = Stories!Resting], UNCHANGED <<now, captured, run, news, aside>>
    PROVE  StoryInv'
  <1>1. work' = [work EXCEPT ![r] = Stories!Resting] /\ UNCHANGED <<now, captured, run, news, aside>>
    OBVIOUS
  <1>2. work' \in [Runners -> StoryWork] /\ \A q \in Runners : work'[q] = work[q] \/ work'[q].pc = "idle"
    BY <1>1, RestingIs DEF StoryInv, StoryTypes
  <1>3. StoryTypes' /\ InReview'
    BY <1>1, <1>2 DEF StoryInv, StoryTypes, InReview
  <1>4. Onward
    <2>1. Times' = Times
      BY <1>1 DEF Times
    <2>2. now' \in Nat /\ now <= now' /\ now' <= MaxTime
      BY <1>1, DaysAre DEF StoryInv, StoryTypes
    <2> QED  BY <1>1, <2>1, <2>2 DEF Onward
  <1>5. \A d \in Stories!Days, t \in 0 .. MaxTime, K \in SUBSET Keys : Looked(d, t, K)' => Looked(d, t, K)
    BY <1>1, <1>2 DEF Looked
  <1>6. \A d \in Stories!Days, a \in Audiences : \A L : Listed(d, a, L)' => Listed(d, a, L)
    BY <1>1, <1>2 DEF Listed, Stories!OfVersion
  <1>7. AllDays'
    BY <1>1 DEF StoryInv, AllDays, DayOK, Stories!Today, Stories!Mains, Stories!OfVersion
  <1> QED  BY <1>3, <1>4, <1>5, <1>6, <1>7, StoryStays

LEMMA StoryFails ==
    ASSUME Stories!StoriesOK, StoryInv, NEW r \in Runners, Stories!BuildFails(r) PROVE StoryInv'
  BY StoryDropped DEF Stories!BuildFails

\* What a build that still counts writes.
Short(r) == \E a \in Audiences : Stories!Mains(work[r].lists[a]) < MinItems
Frozen(r) == [build |-> IF Short(r) THEN "SKIPPED" ELSE "BUILT", builtAt |-> work[r].at,
              items |-> Stories!Collapse(work[r].lists),
              sends |-> [a \in Audiences |-> IF Short(r) THEN "none" ELSE "open"]]

LEMMA FrozenIs ==
    ASSUME Stories!StoriesOK, StoryInv, NEW r \in Runners, work[r].pc = "freeze"
    PROVE  /\ Frozen(r) \in StoryDay /\ work[r] \in StoryWork
           /\ \A a \in Audiences :
                LET L == work[r].lists[a]
                    V == {x \in Frozen(r).items : x.aud = None \/ x.aud = a}
                IN /\ {Strip(x) : x \in V} = L /\ Listed(work[r].day, a, L)
                   /\ GoodList(V) /\ Stories!Mains(V) = Stories!Mains(L) /\ Stories!Mains(L) \in Nat
  <1>1. work[r] \in StoryWork /\ None \notin Audiences
    BY DEF StoryInv, StoryTypes, Stories!StoriesOK
  <1>2. work[r].at \in 0 .. MaxTime /\ work[r].lists \in [Audiences -> SUBSET StoryEntry] /\ work[r].day \in Stories!Days
    BY <1>1 DEF StoryWork
  <1>3. Stories!Collapse(work[r].lists) \subseteq StoryItem
    <2>1. CASE Audiences = {}
      BY <2>1 DEF Stories!Collapse
    <2>2. CASE Audiences # {}
      BY <1>1, <1>2, <2>2, CollapseIs
    <2> QED  BY <2>1, <2>2
  <1>4. Frozen(r).items = Stories!Collapse(work[r].lists)
    BY DEF Frozen
  <1>5. Frozen(r) \in StoryDay
    BY <1>2, <1>3 DEF Frozen, StoryDay
  <1>6. ASSUME NEW a \in Audiences
        PROVE  LET L == work[r].lists[a]
                   V == {x \in Frozen(r).items : x.aud = None \/ x.aud = a}
               IN /\ {Strip(x) : x \in V} = L /\ Listed(work[r].day, a, L)
                  /\ GoodList(V) /\ Stories!Mains(V) = Stories!Mains(L) /\ Stories!Mains(L) \in Nat
    <2> DEFINE L == work[r].lists[a]
               V == {x \in Frozen(r).items : x.aud = None \/ x.aud = a}
    <2>1. V = {x \in Stories!Collapse(work[r].lists) : x.aud = None \/ x.aud = a}
      BY <1>4
    <2>2. {Strip(x) : x \in V} = L /\ \A x, y \in V : Strip(x) = Strip(y) => x = y
      <3> HIDE DEF V
      <3> QED  BY <1>1, <1>2, <2>1, CollapseIs
    <2>3. Listed(work[r].day, a, L)
      BY DEF Listed
    <2>4. V \subseteq StoryItem /\ L \subseteq StoryEntry
      BY <1>2, <1>3, <1>4
    <2>5. GoodList(L)
      BY <1>2, <2>3 DEF StoryInv, AllPicked, Picked
    <2>6. Stories!Mains(L) \in Nat
      <3>1. IsFiniteSet({x \in L : x.section = "MAIN"})
        BY <2>5, FS_Subset DEF GoodList
      <3> QED  BY <3>1, FS_CardinalityType, StoryCount DEF Stories!Mains
    <2> HIDE DEF L, V
    <2>7. GoodList(V) /\ Stories!Mains(V) = Stories!Mains(L)
      BY <2>2, <2>4, <2>5, SameLength
    <2> QED  BY <2>2, <2>3, <2>6, <2>7 DEF L, V
  <1> QED  BY <1>1, <1>5, <1>6

LEMMA StoryFreeze ==
    ASSUME Stories!StoriesOK, StoryInv, NEW r \in Runners, Stories!Freeze(r) PROVE StoryInv'
  <1>1. /\ work[r].pc = "freeze" /\ work' = [work EXCEPT ![r] = Stories!Resting] /\ UNCHANGED <<now, captured, aside>>
        /\ IF run[work[r].day].build = "BUILDING"
           THEN run' = [run EXCEPT ![work[r].day] = Frozen(r)] /\ news' = [news EXCEPT ![work[r].day] = work[r].found]
           ELSE UNCHANGED <<run, news>>
    BY DEF Stories!Freeze, Frozen, Short
  <1>2. CASE run[work[r].day].build # "BUILDING"
    BY <1>1, <1>2, StoryDropped
  <1>3. CASE run[work[r].day].build = "BUILDING"
    <2>1. PICK d, f, t, K : d = work[r].day /\ f = Frozen(r) /\ t = work[r].at /\ K = work[r].found
      OBVIOUS
    <2>2. /\ f \in StoryDay /\ d \in Stories!Days /\ t \in 0 .. MaxTime /\ K \in SUBSET Keys
          /\ work[r].lists \in [Audiences -> SUBSET StoryEntry]
      <3>1. work[r] \in StoryWork /\ Frozen(r) \in StoryDay
        BY <1>1, FrozenIs
      <3> QED  BY <2>1, <3>1 DEF StoryWork
    <2>3. f.build # "BUILT" => \A a \in Audiences : f.sends[a] = "none"
      BY <2>1 DEF Frozen
    <2>4. f.builtAt = t /\ f.build \in {"SKIPPED", "BUILT"}
          /\ (f.build = "BUILT" => \A a \in Audiences : ~(Stories!Mains(work[r].lists[a]) < MinItems))
      BY <2>1 DEF Frozen, Short
    <2>5. /\ run' = [run EXCEPT ![d] = f] /\ news' = [news EXCEPT ![d] = K] /\ run[d].build = "BUILDING"
      BY <1>1, <1>3, <2>1
    <2>6. /\ \A e \in Stories!Days : e # d => run'[e] = run[e] /\ news'[e] = news[e]
          /\ run'[d] = f /\ news'[d] = K /\ run' \in [Stories!Days -> StoryDay] /\ news' \in [Stories!Days -> SUBSET Keys]
      BY <2>2, <2>5 DEF StoryInv, StoryTypes
    <2>7. work' \in [Runners -> StoryWork] /\ \A q \in Runners : work'[q] = work[q] \/ work'[q].pc = "idle"
      BY <1>1, RestingIs DEF StoryInv, StoryTypes
    <2>8. StoryTypes' /\ InReview'
      BY <1>1, <2>6, <2>7 DEF StoryInv, StoryTypes, InReview
    <2>9. Onward
      <3>1. Times' = Times
        BY <1>1 DEF Times
      <3>2. now' \in Nat /\ now <= now' /\ now' <= MaxTime
        BY <1>1, DaysAre DEF StoryInv, StoryTypes
      <3>3. \A e \in Stories!Days : Closed(e) => run'[e] = run[e]
        BY <2>5, <2>6 DEF Closed
      <3> QED  BY <1>1, <3>1, <3>2, <3>3 DEF Onward
    <2>10. Looked(d, t, K)
      BY <1>1, <2>1 DEF Looked
    <2>11. ASSUME NEW e \in Stories!Days, NEW u \in 0 .. MaxTime, NEW M \in SUBSET Keys, Looked(e, u, M)'
           PROVE  Looked(e, u, M)
      <3>1. CASE e = d /\ run'[d].builtAt = u /\ news'[d] = M
        BY <2>4, <2>6, <2>10, <3>1
      <3>2. CASE ~(e = d /\ run'[d].builtAt = u /\ news'[d] = M)
        BY <2>6, <2>7, <2>11, <3>2 DEF Looked
      <3> QED  BY <3>1, <3>2
    <2>12. AllMade'
      BY <2>9, <2>11, MadeStays DEF AllMade
    <2>13. ASSUME NEW a \in Audiences
           PROVE  Picked(d, a, Stories!OfVersion(d, a))'
                  /\ Stories!Mains(Stories!OfVersion(d, a))' = Stories!Mains(work[r].lists[a])
                  /\ Stories!Mains(work[r].lists[a]) \in Nat
      <3>1. PICK V, L : V = {x \in f.items : x.aud = None \/ x.aud = a} /\ L = work[r].lists[a]
        OBVIOUS
      <3>2. /\ {Strip(x) : x \in V} = L /\ Listed(d, a, L)
            /\ GoodList(V) /\ Stories!Mains(V) = Stories!Mains(L) /\ Stories!Mains(L) \in Nat
        BY <1>1, <2>1, <3>1, FrozenIs
      <3>3. Stories!OfVersion(d, a)' = V
        BY <2>6, <3>1 DEF Stories!OfVersion
      <3>4. Picked(d, a, L)'
        BY <2>2, <2>9, <3>2, PickedStays
      <3>5. ASSUME NEW x \in V PROVE Fits(d, a, x.key, x.section)'
        <4>1. Strip(x) \in L /\ Strip(x).key = x.key /\ Strip(x).section = x.section
          BY <3>2 DEF Strip
        <4>2. Fits(d, a, Strip(x).key, Strip(x).section)'
          BY <3>4, <4>1 DEF Picked
        <4> QED  BY <4>1, <4>2
      <3>6. Picked(d, a, V)'
        BY <3>2, <3>5 DEF Picked, GoodList
      <3>7. Picked(d, a, Stories!OfVersion(d, a))'
        BY <3>3, <3>6 DEF Picked
      <3>8. Stories!Mains(Stories!OfVersion(d, a))' = Stories!Mains(V)
        BY <3>3 DEF Stories!Mains
      <3> QED  BY <3>1, <3>2, <3>7, <3>8
    <2>14. ASSUME NEW e \in Stories!Days, NEW a \in Audiences, NEW L, Listed(e, a, L)' PROVE Picked(e, a, L)'
      <3>1. CASE e = d /\ L = Stories!OfVersion(d, a)'
        BY <2>13, <3>1 DEF Picked
      <3>2. CASE ~(e = d /\ L = Stories!OfVersion(d, a)')
        <4>1. Listed(e, a, L)
          BY <2>6, <2>7, <2>14, <3>2 DEF Listed, Stories!OfVersion
        <4> QED  BY <2>9, <4>1, PickedStays
      <3> QED  BY <3>1, <3>2
    <2>15. ASSUME NEW e \in Stories!Days PROVE DayOK(e)'
      <3>1. DayOK(e) /\ Stories!Today' = Stories!Today
        BY <1>1 DEF StoryInv, AllDays, Stories!Today
      <3> HIDE DEF Stories!Today
      <3>2. CASE e # d
        <4>1. run'[e] = run[e] /\ news'[e] = news[e]
          BY <2>6, <3>2
        <4>2. \A a \in Audiences : Stories!Mains(Stories!OfVersion(e, a))' = Stories!Mains(Stories!OfVersion(e, a))
          BY <4>1 DEF Stories!Mains, Stories!OfVersion
        <4> QED  BY <3>1, <4>1, <4>2 DEF DayOK
      <3>3. CASE e = d
        <4>1. run'[e] = f /\ run[e].build = "BUILDING"
          BY <2>5, <2>6, <3>3
        <4>2. e <= Stories!Today'
          BY <3>1, <4>1 DEF DayOK
        <4>3. f.builtAt # None
          BY <2>2, <2>4 DEF Stories!StoriesOK
        <4>4. f.build = "BUILT" => \A a \in Audiences : Stories!Mains(Stories!OfVersion(e, a))' >= MinItems
          BY <2>4, <2>13, <3>3 DEF Stories!StoriesOK
        <4> QED  BY <2>3, <2>4, <4>1, <4>2, <4>3, <4>4 DEF DayOK
      <3> QED  BY <3>2, <3>3
    <2> QED  BY <2>8, <2>12, <2>14, <2>15 DEF StoryInv, AllPicked, AllDays
  <1> QED  BY <1>2, <1>3

-----------------------------------------------------------------------------
(* A build selects                                                         *)

\* A later day's build looked no earlier.
LEMMA BuildsInOrder ==
    ASSUME Stories!StoriesOK, StoryInv, NEW d \in Stories!Days, NEW e \in Stories!Days, d < e,
           run[d].builtAt # None, run[e].builtAt # None
    PROVE  run[d].builtAt \in Nat /\ run[e].builtAt \in Nat /\ run[d].builtAt < run[e].builtAt
  <1>1. ASSUME NEW p \in Stories!Days, run[p].builtAt # None
        PROVE  run[p].builtAt \in Nat /\ p = run[p].builtAt \div PerDay
    <2>1. run[p].builtAt \in 0 .. MaxTime /\ news[p] \in SUBSET Keys
      BY <1>1 DEF StoryInv, StoryTypes, StoryDay
    <2>2. Made(p, run[p].builtAt, news[p])
      BY <2>1 DEF StoryInv, AllMade, Looked
    <2> QED  BY <2>1, <2>2, DaysAre DEF Made
  <1>2. PICK t, u : t = run[d].builtAt /\ u = run[e].builtAt
    OBVIOUS
  <1>3. t \in Nat /\ u \in Nat /\ d = t \div PerDay /\ e = u \div PerDay /\ d \in Nat /\ e \in Nat
    BY <1>1, <1>2, DaysAre
  <1>4. \A a, b \in Nat : a <= b => a \div PerDay <= b \div PerDay
    BY DaysAre, DivUp
  <1>5. ~(u <= t)
    BY <1>3, <1>4
  <1> QED  BY <1>2, <1>3, <1>5

\* digestWindow: it begins where the last build before looked, or later when that is too long ago.
LEMMA StartIs ==
    ASSUME Stories!StoriesOK, StoryInv, NEW d \in Stories!Days, NEW t \in Nat, t = now
    PROVE  /\ Stories!Start(d, t) \in Int
           /\ \A p \in Stories!Days : Before(p, d) =>
                /\ run[p].builtAt \in Nat /\ run[p].builtAt <= Stories!Start(d, t)
                /\ (\A e \in Stories!Days : p < e /\ e < d => run[e].builtAt = None) /\ t - run[p].builtAt <= WindowCap =>
                     Stories!Start(d, t) = run[p].builtAt
  <1>1. WindowCap \in Nat /\ FirstWindow \in Nat /\ None \notin Nat
    BY DEF Stories!StoriesOK
  <1> DEFINE E == {e \in Stories!Days : e < d /\ run[e].builtAt # None}
             p == Stories!Froze(d)
  <1>2. CASE E = {}
    <2>1. p = None
      BY <1>2 DEF Stories!Froze, Stories!Latest
    <2>2. Stories!Start(d, t) = t - FirstWindow
      BY <2>1 DEF Stories!Start
    <2> QED  BY <1>1, <1>2, <2>2 DEF Before
  <1>3. CASE E # {}
    <2>1. E \in SUBSET (0 .. MaxTime \div PerDay) /\ MaxTime \div PerDay \in Nat
      BY DaysAre
    <2>2. p = Stories!Max(E)
      BY <1>3 DEF Stories!Froze, Stories!Latest
    <2>3. p \in E /\ \A e \in E : e <= p
      <3> HIDE DEF E, p
      <3> QED  BY <1>3, <2>1, <2>2, StoryLatest
    <2>4. p \in Nat /\ None \notin Nat /\ p # None
      BY <1>1, <2>3, DaysAre
    <2>5. run[p].builtAt \in 0 .. MaxTime /\ run[p].builtAt <= now
      <3>1. run[p] \in StoryDay /\ news[p] \in SUBSET Keys
        BY <2>3 DEF StoryInv, StoryTypes
      <3>2. run[p].builtAt \in 0 .. MaxTime
        BY <2>3, <3>1 DEF StoryDay
      <3>3. Made(p, run[p].builtAt, news[p])
        BY <2>3, <3>1, <3>2 DEF StoryInv, AllMade, Looked
      <3> QED  BY <3>2, <3>3 DEF Made
    <2>6. PICK b : b = run[p].builtAt /\ b \in Nat /\ b <= t
      BY <2>5
    <2>7. Stories!Start(d, t) = Stories!Min({Stories!Max({b, t - WindowCap}), t})
      BY <2>4, <2>6 DEF Stories!Start
    <2>8. /\ Stories!Start(d, t) \in Int /\ b <= Stories!Start(d, t)
          /\ t - b <= WindowCap => Stories!Start(d, t) = b
      <3> DEFINE c == t - WindowCap
      <3>1. Stories!Max({b, c}) = IF b <= c THEN c ELSE b
        <4>1. c \in Int
          BY <1>1
        <4> HIDE DEF c
        <4>2. b \in Int
          BY <2>6
        <4> QED  BY <4>1, <4>2, OfTwo
      <3>2. PICK m \in Int : m = Stories!Max({b, t - WindowCap}) /\ b <= m /\ m <= t /\ (t - b <= WindowCap => m = b)
        BY <1>1, <2>6, <3>1
      <3>3. Stories!Min({m, t}) = m
        BY <3>2, OfTwo
      <3> QED  BY <2>7, <3>2, <3>3
    <2>9. ASSUME NEW q \in Stories!Days, Before(q, d)
          PROVE  /\ run[q].builtAt \in Nat /\ run[q].builtAt <= b
                 /\ (\A e \in Stories!Days : q < e /\ e < d => run[e].builtAt = None) => run[q].builtAt = b
      <3>1. q \in E /\ q <= p /\ q \in Nat
        BY <2>3, <2>9, DaysAre DEF Before
      <3>2. CASE q = p
        BY <2>6, <3>2
      <3>3. CASE q # p
        <4>1. q < p /\ p < d /\ p \in Stories!Days /\ run[p].builtAt # None
          BY <2>3, <2>4, <3>1, <3>3
        <4> HIDE DEF p
        <4>2. run[q].builtAt \in Nat /\ run[q].builtAt < b
          BY <2>6, <2>9, <4>1, BuildsInOrder DEF Before
        <4> QED  BY <2>6, <4>1, <4>2
      <3> QED  BY <3>2, <3>3
    <2> HIDE DEF E, p
    <2> QED  BY <2>6, <2>8, <2>9
  <1> QED  BY <1>2, <1>3

\* What a build finds new.
LEMMA FreshIs ==
    ASSUME Stories!StoriesOK, StoryTypes, NEW s \in Int, NEW t \in Nat, t = now
    PROVE  /\ IsFiniteSet(Stories!Fresh(s, t)) /\ Stories!Fresh(s, t) \subseteq Keys
           /\ \A k \in Stories!Fresh(s, t) :
                (\E u \in Nat : <<k, u>> \in Times /\ u <= t) /\ \A u \in Nat : <<k, u>> \in Times => s < u
           /\ \A x \in captured : First(x.key, x.at) /\ s < x.at /\ x.queue \in Stories!Queues /\ x.status # "SCHEDULED" =>
                x.key \in Stories!Fresh(s, t)
  <1> DEFINE C == Stories!Candidates(s, t)
             N == {x.key : x \in C}
             F == Stories!Fresh(s, t)
             Seen(k) == {x.at : x \in {y \in captured : y.key = k /\ y.at <= t}}
  <1>1. \A x \in captured : x \in StoryRow /\ x.key \in Keys /\ x.at \in Nat /\ x.at <= t /\ <<x.key, x.at>> \in Times
    BY DEF StoryTypes, StoryRow, Times
  <1>2. F = {k \in N : Stories!Min(Seen(k)) > s}
    BY DEF Stories!Fresh, Stories!FirstSeen
  <1>3. IsFiniteSet(C) /\ C \subseteq captured
    BY FS_Subset DEF StoryTypes, Stories!Candidates
  <1>4. IsFiniteSet(F)
    <2> DEFINE f == [x \in C |-> x.key]
    <2>1. f \in Surjection(C, N)
      BY DEF Surjection
    <2>2. IsFiniteSet(N)
      <3> HIDE DEF f, N, C
      <3> QED  BY <1>3, <2>1, FS_Surjection
    <2>3. F \in SUBSET N
      BY <1>2
    <2> HIDE DEF F, N
    <2> QED  BY <2>2, <2>3, FS_Subset
  <1>5. ASSUME NEW k, NEW x \in captured, x.key = k
        PROVE  /\ Stories!Min(Seen(k)) \in Nat
               /\ \A u \in Nat : <<k, u>> \in Times => Stories!Min(Seen(k)) <= u
               /\ <<k, Stories!Min(Seen(k))>> \in Times
    <2>1. Seen(k) \in SUBSET Nat /\ x.at \in Seen(k)
      BY <1>1, <1>5
    <2>2. \A u : u \in Seen(k) <=> <<k, u>> \in Times
      BY <1>1 DEF Times
    <2> HIDE DEF Seen, Times
    <2>3. Stories!Min(Seen(k)) \in Seen(k) /\ \A u \in Seen(k) : Stories!Min(Seen(k)) <= u
      BY <2>1, StoryMin
    <2> QED  BY <2>1, <2>2, <2>3
  <1> HIDE DEF Seen
  <1>6. ASSUME NEW k \in F
        PROVE  k \in Keys /\ (\E u \in Nat : <<k, u>> \in Times /\ u <= t) /\ \A u \in Nat : <<k, u>> \in Times => s < u
    <2>1. PICK x \in captured : x.key = k
      BY <1>2, <1>3
    <2>2. Stories!Min(Seen(k)) > s
      BY <1>2
    <2>3. /\ Stories!Min(Seen(k)) \in Nat
          /\ \A u \in Nat : <<k, u>> \in Times => Stories!Min(Seen(k)) <= u
      BY <1>5, <2>1
    <2>4. x.key \in Keys /\ x.at \in Nat /\ x.at <= t /\ <<x.key, x.at>> \in Times
      BY <1>1
    <2> HIDE DEF F, Times
    <2> QED  BY <2>1, <2>2, <2>3, <2>4
  <1>7. ASSUME NEW x \in captured, First(x.key, x.at), s < x.at, x.queue \in Stories!Queues, x.status # "SCHEDULED"
        PROVE  x.key \in F
    <2>1. x \in C
      BY <1>1, <1>7 DEF Stories!Candidates
    <2>2. x.key \in N
      BY <2>1
    <2>3. Stories!Min(Seen(x.key)) \in Nat /\ <<x.key, Stories!Min(Seen(x.key))>> \in Times
      BY <1>5
    <2>4. x.at <= Stories!Min(Seen(x.key))
      BY <1>7, <2>3 DEF First
    <2>5. x.at \in Nat
      BY <1>1
    <2>6. Stories!Min(Seen(x.key)) > s
      BY <1>7, <2>3, <2>4, <2>5
    <2> HIDE DEF N
    <2> QED  BY <1>2, <2>2, <2>6
  <1> HIDE DEF F
  <1>8. F \subseteq Keys
    BY <1>6
  <1> QED  BY <1>4, <1>6, <1>7, <1>8 DEF F

\* The order of the new articles gives each its place.
LEMMA OrderIs ==
    ASSUME NEW s, NEW t, NEW order \in Stories!Orders(s, t), IsFiniteSet(Stories!Fresh(s, t))
    PROVE  /\ order \in [Stories!Fresh(s, t) -> Nat]
           /\ \A i, j \in Stories!Fresh(s, t) : order[i] = order[j] => i = j
  <1>1. Stories!Cardinality(Stories!Fresh(s, t)) \in Nat
    BY FS_CardinalityType, StoryCount
  <1>2. order \in [Stories!Fresh(s, t) -> 1 .. Stories!Cardinality(Stories!Fresh(s, t))]
        /\ \A i, j \in Stories!Fresh(s, t) : i # j => order[i] # order[j]
    BY DEF Stories!Orders
  <1> QED  BY <1>1, <1>2

LEMMA StorySelect ==
    ASSUME Stories!StoriesOK, StoryInv, NEW r \in Runners, Stories!Select(r) PROVE StoryInv'
  <1>1. PICK d, t, s : d = Stories!Today /\ t = now /\ s = Stories!Start(d, t)
    OBVIOUS
  <1>2. PICK order \in Stories!Orders(Stories!Start(Stories!Today, now), now), gone \in SUBSET Dying :
          work' = [work EXCEPT ![r] = [pc |-> "freeze", day |-> Stories!Today, at |-> now,
                     lists |-> [a \in Audiences |-> Stories!List(Stories!Today, now, a, order, gone)],
                     found |-> Stories!Fresh(Stories!Start(Stories!Today, now), now)]]
    BY DEF Stories!Select
  <1>3. /\ run[d].build = "BUILDING" /\ \A e \in Stories!Days : e < d => run[e].build # "BUILDING" /\ Stories!Settled(e)
        /\ aside' = aside \cup Stories!BeingPushed /\ UNCHANGED <<now, captured, run, news>>
    BY <1>1 DEF Stories!Select
  <1>4. d \in Stories!Days /\ t \in 0 .. MaxTime /\ t \in Nat
    BY <1>1, DaysAre DEF StoryInv, StoryTypes, Stories!Today
  <1>5. s \in Int
    BY <1>1, <1>4, StartIs
  <1>6. PICK F : F = Stories!Fresh(s, t)
    OBVIOUS
  <1>7. /\ IsFiniteSet(F) /\ F \subseteq Keys
        /\ \A k \in F : (\E u \in Nat : <<k, u>> \in Times /\ u <= t) /\ \A u \in Nat : <<k, u>> \in Times => s < u
        /\ \A x \in captured : First(x.key, x.at) /\ s < x.at /\ x.queue \in Stories!Queues /\ x.status # "SCHEDULED" =>
             x.key \in F
    <2> HIDE DEF Times
    <2> QED  BY <1>1, <1>4, <1>5, <1>6, FreshIs DEF StoryInv
  <1>8. order \in [F -> Nat] /\ \A i, j \in F : order[i] = order[j] => i = j
    <2>1. order \in Stories!Orders(s, t)
      BY <1>1
    <2> QED  BY <1>6, <1>7, <2>1, OrderIs
  <1>9. RowsGood
    BY DEF StoryInv, AllPicked, Listed, Picked, RowsGood
  <1> DEFINE L(a) == Stories!List(d, t, a, order, gone)
  <1>10. ASSUME NEW a \in Audiences
         PROVE  L(a) \in SUBSET StoryEntry /\ GoodList(L(a)) /\ \A x \in L(a) : Fits(d, a, x.key, x.section)
    <2> HIDE DEF L
    <2>1. StoryTypes
      BY DEF StoryInv
    <2> QED  BY <1>4, <1>7, <1>8, <1>9, <2>1, ListIs DEF L
  <1> HIDE DEF L
  <1>11. PICK job : job = [pc |-> "freeze", day |-> Stories!Today, at |-> now,
                       lists |-> [a \in Audiences |-> Stories!List(Stories!Today, now, a, order, gone)],
                       found |-> Stories!Fresh(Stories!Start(Stories!Today, now), now)]
    OBVIOUS
  <1>12. /\ job.pc = "freeze" /\ job.day = d /\ job.at = t /\ job.found = F /\ \A a \in Audiences : job.lists[a] = L(a)
         /\ job \in StoryWork
    <2>1. job.pc = "freeze" /\ job.day = d /\ job.at = t
      BY <1>1, <1>11
    <2>2. job.found = F
      <3>1. job.found = Stories!Fresh(Stories!Start(Stories!Today, now), now)
        BY <1>11
      <3> QED  BY <1>1, <1>6, <3>1
    <2>3. ASSUME NEW a \in Audiences PROVE job.lists[a] = L(a)
      <3>1. job.lists[a] = Stories!List(Stories!Today, now, a, order, gone)
        BY <1>11
      <3> QED  BY <1>1, <3>1 DEF L
    <2>4. job.lists \in [Audiences -> SUBSET StoryEntry]
      <3>1. job.lists = [a \in Audiences |-> job.lists[a]]
        BY <1>11
      <3> QED  BY <1>10, <2>3, <3>1
    <2>5. job = [pc |-> job.pc, day |-> job.day, at |-> job.at, lists |-> job.lists, found |-> job.found]
      BY <1>11
    <2>6. [pc |-> job.pc, day |-> job.day, at |-> job.at, lists |-> job.lists, found |-> job.found] \in StoryWork
      BY <1>4, <1>7, <2>1, <2>2, <2>4 DEF StoryWork
    <2> QED  BY <2>1, <2>2, <2>3, <2>5, <2>6
  <1>13. work' = [work EXCEPT ![r] = job]
    BY <1>2, <1>11, Zenon
  <1>14. work' \in [Runners -> StoryWork] /\ work'[r] = job /\ \A q \in Runners : q # r => work'[q] = work[q]
    BY <1>12, <1>13 DEF StoryInv, StoryTypes
  <1>15. Stories!BeingPushed \subseteq Keys
    BY DEF Stories!BeingPushed, StoryInv, StoryTypes, StoryRow
  <1>16. StoryTypes' /\ InReview'
    BY <1>3, <1>14, <1>15 DEF StoryInv, StoryTypes, InReview
  <1>17. Times' = Times
    BY <1>3 DEF Times
  <1>18. Onward
    <2>1. now' \in Nat /\ now <= now' /\ now' <= MaxTime
      BY <1>1, <1>3, <1>4
    <2> QED  BY <1>3, <1>17, <2>1 DEF Onward
  <1>19. Earlier(d)
    BY <1>1, <1>3 DEF Earlier, Closed
  <1>20. Made(d, t, F)'
    <2>1. Earlier(d)'
      BY <1>4, <1>18, <1>19, EarlierStays DEF StoryInv
    <2>2. d = t \div PerDay /\ t <= now'
      BY <1>1, <1>3, <1>4 DEF Stories!Today
    <2>3. \A p \in Stories!Days : Before(p, d)' <=> Before(p, d)
      BY <1>3 DEF Before
    <2>4. \A p \in Stories!Days : Before(p, d) =>
                /\ run[p].builtAt \in Nat /\ run[p].builtAt <= s
                /\ (\A e \in Stories!Days : p < e /\ e < d => run[e].builtAt = None) /\ t - run[p].builtAt <= WindowCap =>
                     s = run[p].builtAt
      BY <1>1, <1>4, StartIs
    <2>5. \A k \in F : \E u \in Nat : <<k, u>> \in Times' /\ u <= t
      BY <1>7, <1>17
    <2>6. ASSUME NEW k \in F, NEW u \in Nat, NEW p \in Stories!Days, <<k, u>> \in Times', Before(p, d)
          PROVE  run[p].builtAt < u
      <3>1. s < u /\ run[p].builtAt \in Nat /\ run[p].builtAt <= s
        BY <1>7, <1>17, <2>4, <2>6
      <3> QED  BY <1>5, <3>1
    <2>7. ASSUME NEW p \in Stories!Days, Before(p, d), \A e \in Stories!Days : p < e /\ e < d => run[e].builtAt = None,
                 t - run[p].builtAt <= WindowCap,
                 NEW k \in Keys \ aside', NEW u \in Nat, First(k, u)', run[p].builtAt < u, u <= t
          PROVE  k \in F
      <3>1. s = run[p].builtAt
        BY <2>4, <2>7
      <3>2. First(k, u)
        BY <1>17, <2>7 DEF First
      <3>3. PICK x \in captured : x.key = k /\ x.at = u
        BY <3>2 DEF First, Times
      <3>4. x.queue \in Stories!Queues
        BY <1>3, <3>3 DEF StoryInv, InReview, StoryTypes, StoryRow
      <3>5. x.status # "SCHEDULED"
        BY <1>3, <3>3 DEF Stories!BeingPushed
      <3> QED  BY <1>7, <2>7, <3>1, <3>2, <3>3, <3>4, <3>5
    <2>8. NewsOf(d, t, F)'
      <3> HIDE DEF Times
      <3> QED  BY <1>3, <2>3, <2>5, <2>6, <2>7 DEF NewsOf
    <2> QED  BY <2>1, <2>2, <2>8 DEF Made
  <1>21. ASSUME NEW e \in Stories!Days, NEW u \in 0 .. MaxTime, NEW K \in SUBSET Keys, Looked(e, u, K)' PROVE Made(e, u, K)'
    <2>1. CASE e = d /\ u = t /\ K = F
      BY <1>20, <2>1
    <2>2. CASE ~(e = d /\ u = t /\ K = F)
      <3>1. job.day = d /\ job.at = t /\ job.found = F
        BY <1>12
      <3>2. Looked(e, u, K)
        BY <1>3, <1>14, <1>21, <2>2, <3>1 DEF Looked
      <3> QED  BY <1>18, <3>2, MadeStays
    <2> QED  BY <2>1, <2>2
  <1>22. ASSUME NEW e \in Stories!Days, NEW a \in Audiences, NEW M, Listed(e, a, M)' PROVE Picked(e, a, M)'
    <2>1. CASE e = d /\ M = L(a)
      <3>1. \A x \in L(a) : Fits(d, a, x.key, x.section)'
        BY <1>3, <1>4, <1>10, FitsStays
      <3>2. GoodList(M)'
        BY <1>10, <2>1 DEF GoodList
      <3>3. \A x \in M : Fits(e, a, x.key, x.section)'
        BY <2>1, <3>1
      <3> QED  BY <3>2, <3>3 DEF Picked
    <2>2. CASE ~(e = d /\ M = L(a))
      <3>1. job.day = d /\ job.lists[a] = L(a)
        BY <1>12
      <3>2. Listed(e, a, M)
        BY <1>3, <1>14, <1>22, <2>2, <3>1 DEF Listed, Stories!OfVersion
      <3> QED  BY <1>18, <3>2, PickedStays
    <2> QED  BY <2>1, <2>2
  <1>23. AllDays'
    BY <1>3 DEF StoryInv, AllDays, DayOK, Stories!Today, Stories!Mains, Stories!OfVersion
  <1> QED  BY <1>16, <1>21, <1>22, <1>23 DEF StoryInv, AllMade, AllPicked

-----------------------------------------------------------------------------
(* The theorems about a digest's stories                                   *)

LEMMA StoryNext ==
    ASSUME Stories!StoriesOK, StoryInv, [Stories!Next]_(Stories!vars)
    PROVE  StoryInv'
  <1>1. CASE Stories!Clock
    BY <1>1, StoryClock
  <1>2. CASE Stories!Open
    BY <1>2, StoryOpen
  <1>3. ASSUME NEW k \in Keys, NEW q \in Arrives, Stories!Capture(k, q) PROVE StoryInv'
    BY <1>3, StoryCapture
  <1>4. ASSUME NEW x \in captured, Stories!Reviewed(x) PROVE StoryInv'
    BY <1>4, StoryReviewed
  <1>5. ASSUME NEW x \in captured, NEW st \in {"SCHEDULED", "SENT"}, Stories!Pushed(x, st) PROVE StoryInv'
    BY <1>5, StoryPushed
  <1>6. ASSUME NEW r \in Runners, Stories!Select(r) PROVE StoryInv'
    BY <1>6, StorySelect
  <1>7. ASSUME NEW r \in Runners, Stories!Freeze(r) PROVE StoryInv'
    BY <1>7, StoryFreeze
  <1>8. ASSUME NEW r \in Runners, Stories!BuildFails(r) PROVE StoryInv'
    BY <1>8, StoryFails
  <1>9. ASSUME NEW d \in Stories!Days, Stories!SkipRun(d) PROVE StoryInv'
    BY <1>9, StorySkipped
  <1>10. ASSUME NEW d \in Stories!Days, NEW a \in Audiences, NEW st \in Stories!WentOut \cup {"FAILED", "SKIPPED"},
                Stories!Resolve(d, a, st)
         PROVE  StoryInv'
    BY <1>10, StoryResolved
  <1>11. CASE UNCHANGED Stories!vars
    <2>1. UNCHANGED <<now, captured, run, work, news, aside>>
      BY <1>11 DEF Stories!vars
    <2>2. now' \in Nat /\ now <= now' /\ now' <= MaxTime
      BY <2>1, DaysAre DEF StoryInv, StoryTypes
    <2>3. Times' = Times
      BY <2>1 DEF Times
    <2>4. Onward
      BY <2>1, <2>2, <2>3 DEF Onward
    <2>5. StoryTypes' /\ InReview'
      BY <2>1 DEF StoryInv, StoryTypes, InReview
    <2> QED  BY <2>1, <2>2, <2>4, <2>5, NothingBuilt, StoryStays
  <1> QED  BY <1>1, <1>2, <1>3, <1>4, <1>5, <1>6, <1>7, <1>8, <1>9, <1>10, <1>11 DEF Stories!Next

\* The inductive invariant of the digest's stories.
THEOREM StoriesInvariance == ASSUME Stories!StoriesOK PROVE Stories!Spec => []StoryInv
  <1>1. Stories!Init => StoryInv
    BY StoryInit
  <1>2. StoryInv /\ [Stories!Next]_(Stories!vars) => StoryInv'
    BY StoryNext
  <1> QED  BY <1>1, <1>2, PTL DEF Stories!Spec

\* builder.ts, runner.ts: what is captured, frozen and found is of its kind.
THEOREM StoriesTypeCorrect == ASSUME Stories!StoriesOK PROVE Stories!Spec => []Stories!TypeOK
  <1>1. StoryInv => Stories!TypeOK
    <2> SUFFICES ASSUME StoryInv PROVE Stories!TypeOK
      OBVIOUS
    <2>1. StoryTypes /\ Stories!Cardinality(captured) <= MaxCaptures
      BY StoryCount DEF StoryInv, StoryTypes
    <2>2. \A x \in captured : x.key \in Keys /\ x.at \in 0 .. now /\ x.queue \in Stories!Queues \cup {"REVIEW"}
      BY <2>1 DEF StoryTypes, StoryRow
    <2>3. ASSUME NEW d \in Stories!Days
          PROVE  /\ run[d].build \in {"none", "BUILDING", "BUILT", "SKIPPED"} /\ run[d].builtAt \in 0 .. now \cup {None}
                 /\ \A x \in run[d].items : x.key \in Keys /\ x.rank \in 1 .. MaxItems /\ x.aud \in Audiences \cup {None}
      <3>1. run[d] \in StoryDay /\ news[d] \in SUBSET Keys
        BY <2>1 DEF StoryTypes
      <3>2. run[d].builtAt # None => run[d].builtAt \in 0 .. now
        <4>1. run[d].builtAt # None => run[d].builtAt \in 0 .. MaxTime /\ Made(d, run[d].builtAt, news[d])
          BY <3>1 DEF StoryInv, AllMade, Looked, StoryDay
        <4>2. now \in Nat /\ MaxTime \in Nat
          BY <2>1, DaysAre DEF StoryTypes
        <4> QED  BY <4>1, <4>2 DEF Made
      <3>3. \A x \in run[d].items : x \in StoryItem
        BY <3>1 DEF StoryDay
      <3> QED  BY <3>1, <3>2, <3>3 DEF StoryDay, StoryItem
    <2>4. \A r \in Runners : work[r].pc \in {"idle", "freeze"}
      BY <2>1 DEF StoryTypes, StoryWork
    <2> QED  BY <2>1, <2>2, <2>3, <2>4 DEF Stories!TypeOK, StoryTypes
  <1> QED  BY <1>1, StoriesInvariance, PTL

\* selectDigest, alreadySent, the rollforward: no reader is sent a story twice, but by what was sent to a part of them
\* the day before.
THEOREM StoriesNoRepeat == ASSUME Stories!StoriesOK PROVE Stories!Spec => []Stories!NoRepeat
  <1>1. StoryInv => Stories!NoRepeat
    <2> SUFFICES ASSUME StoryInv, NEW a \in Audiences, NEW d \in Stories!Days, NEW e \in Stories!Days, NEW k \in Keys,
                        d < e, Stories!Carries(d, a, k), Stories!Carries(e, a, k),
                        {run[d].sends[a], run[e].sends[a]} \subseteq Stories!WentOut
                 PROVE  /\ run[d].sends[a] = "PARTIALLY_SENT"
                        /\ \A f \in Stories!Days : d < f /\ f < e => run[f].build = "none"
                        /\ \A x \in Stories!OfVersion(e, a) : x.key = k => x.section = "ICYMI"
      BY DEF Stories!NoRepeat
    <2>1. Went(d, a, k)
      BY DEF Went, Stories!Carries
    <2>2. \A x \in Stories!OfVersion(e, a) : Fits(e, a, x.key, x.section)
      BY DEF StoryInv, AllPicked, Listed, Picked
    <2>3. ASSUME NEW x \in Stories!OfVersion(e, a), x.key = k PROVE x.section = "ICYMI" /\ Missed(e, a, k)
      <3>1. x.section \in {"MAIN", "ICYMI"}
        BY DEF Stories!OfVersion, StoryInv, StoryTypes, StoryDay, StoryItem
      <3>2. x.section # "MAIN"
        BY <2>1, <2>2, <2>3 DEF Fits
      <3> QED  BY <2>2, <2>3, <3>1, <3>2 DEF Fits
    <2>4. Missed(e, a, k)
      BY <2>3 DEF Stories!Carries
    <2>5. PICK p \in Stories!Days :
            /\ p < e /\ run[p].build # "none" /\ Stories!RollsForward(p, a)
            /\ \A f \in Stories!Days : p < f /\ f < e => run[f].build = "none"
            /\ \A f \in Stories!Days : f < e /\ Went(f, a, k) => f = p
      BY <2>4 DEF Missed
    <2>6. p = d
      BY <2>1, <2>5
    <2>7. DayOK(d)
      BY DEF StoryInv, AllDays
    <2>8. run[d].sends[a] = "PARTIALLY_SENT"
      BY <2>5, <2>6, <2>7 DEF Stories!RollsForward, Stories!WentOut, DayOK
    <2> QED  BY <2>3, <2>5, <2>6, <2>8
  <1> QED  BY <1>1, StoriesInvariance, PTL

\* digestWindow, captureHistoryQuery: what comes between two builds is new to the later one, and to no other.
THEOREM StoriesNewOnce == ASSUME Stories!StoriesOK PROVE Stories!Spec => []Stories!NewOnce
  <1>1. ASSUME StoryInv, NEW d \in Stories!Days, run[d].builtAt # None
        PROVE  Made(d, run[d].builtAt, news[d]) /\ run[d].builtAt \in Nat
    <2>1. run[d].builtAt \in 0 .. MaxTime /\ news[d] \in SUBSET Keys
      BY <1>1 DEF StoryInv, StoryTypes, StoryDay
    <2> QED  BY <1>1, <2>1 DEF StoryInv, AllMade, Looked
  <1>2. ASSUME StoryInv, NEW d \in Stories!Days, run[d].builtAt # None, Stories!Froze(d) # None,
               run[d].builtAt - run[Stories!Froze(d)].builtAt <= WindowCap,
               NEW k \in Keys \ aside, NEW x \in captured, x.key = k, Stories!FirstSeen(k, now) = x.at,
               run[Stories!Froze(d)].builtAt < x.at, x.at <= run[d].builtAt
        PROVE  k \in news[d]
    <2> DEFINE E == {e \in Stories!Days : e < d /\ run[e].builtAt # None}
               p == Stories!Froze(d)
               seen == {y.at : y \in {z \in captured : z.key = k /\ z.at <= now}}
    <2>1. E # {} /\ p = Stories!Max(E)
      BY <1>2 DEF Stories!Froze, Stories!Latest
    <2>2. E \in SUBSET (0 .. MaxTime \div PerDay) /\ MaxTime \div PerDay \in Nat
      BY DaysAre
    <2>3. p \in E /\ \A e \in E : e <= p
      <3> HIDE DEF E, p
      <3> QED  BY <2>1, <2>2, StoryLatest
    <2>4. p \in Stories!Days /\ Before(p, d) /\ \A e \in Stories!Days : p < e /\ e < d => run[e].builtAt = None
      <3>1. p \in Stories!Days /\ Before(p, d)
        BY <2>3 DEF Before
      <3>2. ASSUME NEW e \in Stories!Days, p < e, e < d, run[e].builtAt # None PROVE FALSE
        <4>1. e \in E
          BY <3>2
        <4> HIDE DEF E, p
        <4> QED  BY <2>3, <3>1, <3>2, <4>1, DaysAre
      <3> QED  BY <3>1, <3>2
    <2>5. \A y \in captured : y.at \in Nat /\ y.at <= now
      BY <1>2 DEF StoryInv, StoryTypes, StoryRow
    <2>6. x.at \in Nat /\ <<k, x.at>> \in Times
      BY <1>2, <2>5 DEF Times
    <2>7. seen \in SUBSET Nat /\ x.at \in seen /\ x.at = Stories!Min(seen)
      BY <1>2, <2>5 DEF Stories!FirstSeen
    <2>8. \A v \in seen : x.at <= v
      <3> HIDE DEF seen
      <3> QED  BY <2>7, StoryMin
    <2>9. First(k, x.at)
      <3>1. ASSUME NEW v \in Nat, <<k, v>> \in Times PROVE x.at <= v
        <4>1. v \in seen
          BY <2>5, <3>1 DEF Times
        <4> HIDE DEF seen
        <4> QED  BY <2>8, <4>1
      <3> QED  BY <2>6, <3>1 DEF First
    <2>10. NewsOf(d, run[d].builtAt, news[d])
      BY <1>1, <1>2 DEF Made
    <2> HIDE DEF p
    <2> QED  BY <1>2, <2>4, <2>6, <2>9, <2>10 DEF NewsOf, p
  <1>3. ASSUME StoryInv, NEW d \in Stories!Days, NEW e \in Stories!Days, d < e PROVE news[d] \cap news[e] = {}
    <2> SUFFICES ASSUME NEW k \in Keys, k \in news[d], k \in news[e] PROVE FALSE
      BY <1>3 DEF StoryInv, StoryTypes
    <2>1. run[d].builtAt # None /\ run[e].builtAt # None
      BY <1>3 DEF StoryInv, AllDays, DayOK
    <2>2. NewsOf(d, run[d].builtAt, news[d]) /\ NewsOf(e, run[e].builtAt, news[e]) /\ run[d].builtAt \in Nat
      BY <1>1, <1>3, <2>1 DEF Made
    <2>3. PICK u \in Nat : <<k, u>> \in Times /\ u <= run[d].builtAt
      BY <2>2 DEF NewsOf
    <2>4. Before(d, e)
      BY <1>3, <2>1 DEF Before
    <2>5. run[d].builtAt < u
      BY <2>2, <2>3, <2>4 DEF NewsOf
    <2> QED  BY <2>2, <2>3, <2>5
  <1>4. StoryInv => Stories!NewOnce
    <2> SUFFICES ASSUME StoryInv PROVE Stories!NewOnce
      OBVIOUS
    <2>1. ASSUME NEW d \in Stories!Days, NEW e \in Stories!Days, d # e PROVE news[d] \cap news[e] = {}
      <3>1. d < e \/ e < d
        BY <2>1, DaysAre
      <3> QED  BY <1>3, <3>1
    <2> QED  BY <1>2, <2>1 DEF Stories!NewOnce
  <1> QED  BY <1>4, StoriesInvariance, PTL

\* A digest has its main stories, is not over its size, and has a story once.
THEOREM StoriesWellFilled == ASSUME Stories!StoriesOK PROVE Stories!Spec => []Stories!WellFilled
  <1>1. StoryInv => Stories!WellFilled
    <2> SUFFICES ASSUME StoryInv, NEW d \in Stories!Days, NEW a \in Audiences, run[d].build = "BUILT"
                 PROVE  /\ Stories!Cardinality({x \in Stories!OfVersion(d, a) : x.section = "MAIN"}) >= MinItems
                        /\ Stories!Cardinality(Stories!OfVersion(d, a)) <= MaxItems
                        /\ \A x, y \in Stories!OfVersion(d, a) : x.key = y.key => x = y
      BY DEF Stories!WellFilled
    <2>1. DayOK(d)
      BY DEF StoryInv, AllDays
    <2>2. Stories!Mains(Stories!OfVersion(d, a)) >= MinItems
      BY <2>1 DEF DayOK
    <2>3. GoodList(Stories!OfVersion(d, a))
      BY DEF StoryInv, AllPicked, Listed, Picked
    <2> QED  BY <2>2, <2>3, StoryCount DEF GoodList, Stories!Mains
  <1> QED  BY <1>1, StoriesInvariance, PTL

\* collapseRows: what is frozen for each version is the list that was made for it.
THEOREM StoriesFrozenAsMade == ASSUME Stories!StoriesOK PROVE Stories!Spec => [][Stories!FreezeStep]_(Stories!vars)
  <1>1. ASSUME StoryInv, NEW r \in Runners, Stories!Freeze(r) PROVE Stories!FreezeStep
    <2> SUFFICES ASSUME NEW d \in Stories!Days, run'[d].items # run[d].items
                 PROVE  work[r].pc = "freeze" /\ work[r].day = d /\ \A a \in Audiences :
                          {[key |-> x.key, section |-> x.section, rank |-> x.rank] : x \in Stories!OfVersion(d, a)'}
                          = work[r].lists[a]
      BY DEF Stories!FreezeStep
    <2>1. work[r].pc = "freeze"
      BY <1>1 DEF Stories!Freeze
    <2>2. run' = [run EXCEPT ![work[r].day] = Frozen(r)]
      BY <1>1 DEF Stories!Freeze, Frozen, Short
    <2>3. work[r].day = d /\ run'[d] = Frozen(r)
      BY <1>1, <2>2 DEF StoryInv, StoryTypes
    <2>4. ASSUME NEW a \in Audiences
          PROVE  {[key |-> x.key, section |-> x.section, rank |-> x.rank] : x \in Stories!OfVersion(d, a)'} = work[r].lists[a]
      <3>1. Stories!OfVersion(d, a)' = {x \in Frozen(r).items : x.aud = None \/ x.aud = a}
        BY <2>3 DEF Stories!OfVersion
      <3>2. {Strip(x) : x \in {y \in Frozen(r).items : y.aud = None \/ y.aud = a}} = work[r].lists[a]
        BY <1>1, <2>1, FrozenIs
      <3> QED  BY <3>1, <3>2 DEF Strip
    <2> QED  BY <2>1, <2>3, <2>4
  <1>2. ASSUME StoryInv, [Stories!Next]_(Stories!vars) PROVE Stories!FreezeStep
    <2>1. CASE \E r \in Runners : Stories!Freeze(r)
      BY <1>1, <1>2, <2>1
    <2>2. CASE ~\E r \in Runners : Stories!Freeze(r)
      <3>1. ASSUME NEW d \in Stories!Days PROVE run'[d].items = run[d].items
        <4>1. CASE UNCHANGED run
          BY <4>1
        <4>2. CASE Stories!Open
          BY <1>2, <4>2 DEF Stories!Open, StoryInv, StoryTypes, StoryDay
        <4>3. ASSUME NEW e \in Stories!Days, Stories!SkipRun(e) PROVE run'[d].items = run[d].items
          BY <1>2, <4>3 DEF Stories!SkipRun, StoryInv, StoryTypes, StoryDay
        <4>4. ASSUME NEW e \in Stories!Days, NEW a \in Audiences, NEW st, Stories!Resolve(e, a, st)
              PROVE  run'[d].items = run[d].items
          BY <1>2, <4>4 DEF Stories!Resolve, StoryInv, StoryTypes, StoryDay
        <4> QED  BY <1>2, <2>2, <4>1, <4>2, <4>3, <4>4
                 DEF Stories!Next, Stories!vars, Stories!Clock, Stories!Capture, Stories!Reviewed, Stories!Pushed,
                     Stories!Select, Stories!BuildFails
      <3> QED  BY <3>1 DEF Stories!FreezeStep
    <2> QED  BY <2>1, <2>2
  <1>3. StoryInv /\ [Stories!Next]_(Stories!vars) => [Stories!FreezeStep]_(Stories!vars)
    BY <1>2
  <1> QED  BY <1>3, StoriesInvariance, PTL DEF Stories!Spec

=============================================================================
