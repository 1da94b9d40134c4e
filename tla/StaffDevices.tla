---------------------------- MODULE StaffDevices ----------------------------
(* The browsers on which staff asked for notices (services/staffPush.ts, routes/staffPush.ts, the console's     *)
(* useStaffPush.ts and its worker sw-staff.js). A browser holds one push subscription for both kinds of notice;  *)
(* the server has a row per endpoint. A person uses one card of a browser at a time, and a rotation comes between *)
(* uses; other browsers, admins and fan-outs go on meanwhile. Labels, counters and the test push are left out,   *)
(* and so is the order in which a fan-out comes to its devices.                                                  *)
EXTENDS Naturals, FiniteSets

CONSTANTS
    Browsers, Users,
    Kinds,            \* STAFF_PUSH_KINDS
    Standard,         \* the kind of a request that names none
    None,
    MaxDevices,       \* MAX_DEVICES_PER_USER
    MaxEndpoints,     \* bound on subscriptions made
    MaxUses,          \* bound on what people do
    MaxCrashes        \* bound on requests that die half-way

VARIABLES
    login,            \* per browser, who is signed in
    sub,              \* per browser, its subscription: endpoint or 0, and whether it is for today's key
    rows,             \* StaffPushSubscription
    older,            \* its order by updatedAt: <<id, id of a row updated later>>
    active,           \* users with isActive
    req,              \* per browser, its request
    send,             \* a fan-out: the devices still to come
    made,             \* endpoints made so far
    dead,             \* endpoints the push service has dropped
    chosen,           \* history: per browser and user, kinds turned on and not off again
    turned,           \* history: browsers whose subscription was rotated
    uses, crashes

table == <<rows, older>>
vars == <<login, sub, rows, older, active, req, send, made, dead, chosen, turned, uses, crashes>>

Endpoints == 1..MaxEndpoints

StaffOK ==
    /\ Standard \in Kinds /\ None \notin Users /\ IsFiniteSet(Browsers)
    /\ MaxDevices > 0 /\ {MaxDevices, MaxEndpoints, MaxUses, MaxCrashes} \subseteq Nat

Idle == [pc |-> "idle", user |-> None, kind |-> Standard, ep |-> 0, old |-> 0,
         kinds |-> {}, ids |-> {}, replaces |-> FALSE, alone |-> TRUE]

Init ==
    /\ login \in [Browsers -> Users]
    /\ sub = [b \in Browsers |-> [ep |-> 0, good |-> TRUE]]
    /\ rows = {} /\ older = {} /\ active = Users
    /\ req = [b \in Browsers |-> Idle]
    /\ send = {}
    /\ made = 0
    /\ dead = {}
    /\ chosen = [b \in Browsers |-> [u \in Users |-> {}]]
    /\ turned = {} /\ uses = 0 /\ crashes = 0

-----------------------------------------------------------------------------
(* The table                                                               *)

Has(e)       == \E r \in rows : r.ep = e
RowAt(e)     == CHOOSE r \in rows : r.ep = e
OwnedBy(u)   == {r \in rows : r.user = u}
Owns(u, e)   == \E r \in OwnedBy(u) : r.ep = e
Without(ids) == {r \in rows : r.id \notin ids}
Gone(ids)    == Without(ids) = rows

Deletes(ids) ==
    /\ rows' = Without(ids)
    /\ older' = {p \in older : p[1] \notin ids /\ p[2] \notin ids}

\* A new or updated row is the latest.
Writes(r) ==
    /\ rows' = Without({r.id}) \cup {r}
    /\ older' = {p \in older : r.id \notin {p[1], p[2]}} \cup {<<q.id, r.id>> : q \in Without({r.id})}

-----------------------------------------------------------------------------
(* The browser                                                             *)

Use == uses < MaxUses /\ uses' = uses + 1

SignIn(b, u) ==
    /\ Use /\ req[b].pc = "idle" /\ u \in active /\ login[b] # u
    /\ login' = [login EXCEPT ![b] = u]
    /\ UNCHANGED <<sub, rows, older, active, req, send, made, dead, chosen, turned, crashes>>

Subscribes(b) ==
    /\ made < MaxEndpoints /\ made' = made + 1
    /\ sub' = [sub EXCEPT ![b] = [ep |-> made + 1, good |-> TRUE]]

\* A request of u has stored a device, and not yet looked who is over the limit.
Trims(u) == \E o \in Browsers : req[o].user = u /\ req[o].pc \in {"count", "evict"}

Stores(b, k, new, old) ==
    req' = [req EXCEPT ![b] = [Idle EXCEPT !.pc = IF old # 0 THEN "replace" ELSE "look",
                                 !.user = login[b], !.kind = k, !.ep = new, !.old = old,
                                 !.replaces = Owns(login[b], old), !.alone = ~Trims(login[b])]]

\* enable(): a subscription for another key is replaced.
Enable(b, k) ==
    /\ Use /\ req[b].pc = "idle" /\ login[b] \in active
    /\ IF sub[b].ep # 0 /\ sub[b].good
       THEN UNCHANGED <<sub, made>> /\ Stores(b, k, sub[b].ep, 0)
       ELSE Subscribes(b) /\ Stores(b, k, made + 1, sub[b].ep)
    /\ chosen' = [chosen EXCEPT ![b][login[b]] = @ \cup {k}]
    /\ UNCHANGED <<login, rows, older, active, send, dead, turned, crashes>>

\* pushsubscriptionchange: the worker's request names no kind, and not always the old endpoint.
Rotate(b) ==
    /\ Use /\ req[b].pc = "idle" /\ sub[b].ep # 0
    /\ Subscribes(b)
    /\ \E old \in {0, sub[b].ep} :
         IF login[b] \in active THEN Stores(b, Standard, made + 1, old) ELSE UNCHANGED req
    /\ dead' = dead \cup {sub[b].ep}
    /\ turned' = turned \cup {b}
    /\ UNCHANGED <<login, rows, older, active, send, chosen, crashes>>

\* disable(), and POST /devices/remove until it has found the device.
Disable(b, k) ==
    /\ Use /\ req[b].pc = "idle" /\ login[b] \in active /\ sub[b].ep # 0
    /\ IF Owns(login[b], sub[b].ep)
       THEN LET r == RowAt(sub[b].ep)
            IN /\ req' = [req EXCEPT ![b] = [Idle EXCEPT !.pc = "remove", !.user = r.user, !.kind = k,
                                                !.ep = r.ep, !.ids = {r.id}, !.kinds = r.kinds \ {k}]]
               /\ UNCHANGED <<sub, chosen>>
       ELSE /\ sub' = [sub EXCEPT ![b].ep = 0]
            /\ chosen' = [chosen EXCEPT ![b][login[b]] = @ \ {k}]
            /\ UNCHANGED req
    /\ UNCHANGED <<login, rows, older, active, send, made, dead, turned, crashes>>

\* One kind off, another still on: the row stays, if it is still there; then so does the subscription.
Remove(b) ==
    /\ req[b].pc = "remove"
    /\ IF req[b].kinds = {} THEN Deletes(req[b].ids) /\ sub' = [sub EXCEPT ![b].ep = 0]
       ELSE /\ \/ \E r \in rows : r.id \in req[b].ids /\ Writes([r EXCEPT !.kinds = req[b].kinds])
               \/ Gone(req[b].ids) /\ UNCHANGED table
            /\ UNCHANGED sub
    /\ req' = [req EXCEPT ![b] = Idle]
    /\ chosen' = [chosen EXCEPT ![b][req[b].user] = @ \ {req[b].kind}]
    /\ UNCHANGED <<login, active, send, made, dead, turned, uses, crashes>>

-----------------------------------------------------------------------------
(* POST /devices                                                           *)

At(b, pc) == req[b].pc = pc
Goes(b, r) == req' = [req EXCEPT ![b] = r]

\* Only a row of its own goes.
Replace(b) ==
    /\ At(b, "replace")
    /\ IF Owns(req[b].user, req[b].old) THEN Deletes({RowAt(req[b].old).id}) ELSE UNCHANGED table
    /\ Goes(b, [req[b] EXCEPT !.pc = "look"])
    /\ UNCHANGED <<login, sub, active, send, made, dead, chosen, turned, uses, crashes>>

\* A device of the same user gains the kind; a browser taken over by another login starts afresh.
KindsOf_Merged(e, u, k) == IF Has(e) THEN RowAt(e).kinds \cup {k} ELSE {k}
KindsOf(e, u, k) == IF Owns(u, e) THEN RowAt(e).kinds \cup {k} ELSE {k}

Look(b) ==
    /\ At(b, "look")
    /\ Goes(b, [req[b] EXCEPT !.pc = "store", !.kinds = KindsOf(req[b].ep, req[b].user, req[b].kind)])
    /\ UNCHANGED <<login, sub, rows, older, active, send, made, dead, chosen, turned, uses, crashes>>

\* An id that no row has and nobody remembers.
Ids   == {r.id : r \in rows} \cup {d.id : d \in send} \cup UNION {req[b].ids : b \in Browsers}
NewId == CHOOSE n \in 1..Cardinality(Ids) + 1 : n \notin Ids

\* A row that went meanwhile is made anew, with the kind of the request only.
Store(b) ==
    /\ At(b, "store")
    /\ LET r == req[b]
           new == [id |-> NewId, ep |-> r.ep, user |-> r.user, kinds |-> {r.kind}]
       IN IF Has(r.ep) THEN Writes([RowAt(r.ep) EXCEPT !.user = r.user, !.kinds = r.kinds]) ELSE Writes(new)
    /\ req' = [o \in Browsers |-> IF o = b THEN [req[b] EXCEPT !.pc = "count"]
                                  ELSE [req[o] EXCEPT !.alone = @ /\ req[o].user # req[b].user]]
    /\ UNCHANGED <<login, sub, active, send, made, dead, chosen, turned, uses, crashes>>

\* "keep the most recently updated MAX_DEVICES_PER_USER": K of u's rows stay, the others go.
Keeps(u, K) ==
    /\ Cardinality(K) <= MaxDevices /\ (K # OwnedBy(u) => Cardinality(K) = MaxDevices)
    /\ \A r \in OwnedBy(u) \ K, k \in K : <<r.id, k.id>> \in older

Count(b) ==
    /\ At(b, "count")
    /\ \E K \in SUBSET OwnedBy(req[b].user) :
         /\ Keeps(req[b].user, K)
         /\ Goes(b, IF K = OwnedBy(req[b].user) THEN Idle
                    ELSE [req[b] EXCEPT !.pc = "evict", !.ids = {r.id : r \in OwnedBy(req[b].user) \ K}])
    /\ UNCHANGED <<login, sub, rows, older, active, send, made, dead, chosen, turned, uses, crashes>>

Evict(b) ==
    /\ At(b, "evict")
    /\ Deletes(req[b].ids)
    /\ Goes(b, Idle)
    /\ UNCHANGED <<login, sub, active, send, made, dead, chosen, turned, uses, crashes>>

Crash(b) ==
    /\ req[b].pc # "idle" /\ crashes < MaxCrashes
    /\ crashes' = crashes + 1 /\ Goes(b, Idle)
    /\ UNCHANGED <<login, sub, rows, older, active, send, made, dead, chosen, turned, uses>>

-----------------------------------------------------------------------------
(* Users, and notices                                                      *)

\* What a request under way still stores for u.
Asking(b, u) == {k \in Kinds : req[b].user = u /\ req[b].kind = k /\ req[b].pc \in {"replace", "look", "store"}}

DevicesGo(u) ==
    /\ Deletes({r.id : r \in OwnedBy(u)})
    /\ chosen' = [b \in Browsers |-> [chosen[b] EXCEPT ![u] = Asking(b, u)]]

\* An admin's "Remove devices".
RemoveAll(u) ==
    /\ Use /\ OwnedBy(u) # {} /\ DevicesGo(u)
    /\ UNCHANGED <<login, sub, active, req, send, made, dead, turned, crashes>>

Deactivate(u) ==
    /\ Use /\ u \in active /\ active' = active \ {u} /\ DevicesGo(u)
    /\ UNCHANGED <<login, sub, req, send, made, dead, turned, crashes>>

Reactivate(u) ==
    /\ Use /\ u \notin active /\ active' = active \cup {u}
    /\ UNCHANGED <<login, sub, rows, older, req, send, made, dead, chosen, turned, crashes>>

\* The VAPID keys were rotated.
NewKey ==
    /\ Use /\ \E b \in Browsers : sub[b].ep # 0 /\ sub[b].good
    /\ sub' = [b \in Browsers |-> [sub[b] EXCEPT !.good = FALSE]]
    /\ UNCHANGED <<login, rows, older, active, req, send, made, dead, chosen, turned, crashes>>

\* activeStaffDevices.
Notify(k) ==
    /\ send = {}
    /\ send' = {[id |-> r.id, ep |-> r.ep] : r \in {q \in rows : k \in q.kinds /\ q.user \in active}}
    /\ send' # {}
    /\ UNCHANGED <<login, sub, rows, older, active, req, made, dead, chosen, turned, uses, crashes>>

\* pushToStaffDevice: a dead row goes, by its id; any other answer is an update.
Deliver == \E d \in send :
    /\ send' = send \ {d}
    /\ IF d.ep \in dead THEN Deletes({d.id})
       ELSE (\E r \in rows : r.id = d.id /\ Writes(r)) \/ (Gone({d.id}) /\ UNCHANGED table)
    /\ UNCHANGED <<login, sub, active, req, made, dead, chosen, turned, uses, crashes>>

Next ==
    \/ \E b \in Browsers, u \in Users : SignIn(b, u)
    \/ \E b \in Browsers, k \in Kinds : Enable(b, k) \/ Disable(b, k)
    \/ \E b \in Browsers : Rotate(b) \/ Remove(b) \/ Replace(b) \/ Look(b) \/ Store(b) \/ Count(b) \/ Evict(b) \/ Crash(b)
    \/ \E u \in Users : RemoveAll(u) \/ Deactivate(u) \/ Reactivate(u)
    \/ \E k \in Kinds : Notify(k)
    \/ NewKey \/ Deliver

Spec == Init /\ [][Next]_vars

-----------------------------------------------------------------------------
(* Properties *)

\* Every variable holds values of its kind.
TypeOK ==
    /\ login \in [Browsers -> Users] /\ active \subseteq Users
    /\ \A b \in Browsers : sub[b].ep \in 0..MaxEndpoints /\ sub[b].good \in BOOLEAN
    /\ \A r \in rows : r.ep \in Endpoints /\ r.user \in Users /\ r.kinds \in (SUBSET Kinds) \ {{}}
    /\ \A r, q \in rows : r.ep = q.ep \/ r.id = q.id => r = q
    /\ \A b \in Browsers : req[b].ep \in 0..MaxEndpoints /\ req[b].kinds \subseteq Kinds
    /\ dead \subseteq Endpoints /\ uses \in 0..MaxUses /\ crashes \in 0..MaxCrashes

\* Where a row's endpoint lives.
Home(r) == {b \in Browsers : sub[b].ep = r.ep}

\* "A device first enabled from the WhatsApp card holds ['whatsapp'] only": while its subscription was never rotated,
\* a device is signed up for what its user turned on there and did not turn off, also after another person signed in,
\* an admin removed the devices, or the key was changed.
ChosenUntilRotated ==
    \A r \in rows : \A b \in Home(r) \ turned : r.kinds \subseteq chosen[b][r.user]

\* Nobody keeps more devices than the limit, except for a request that is still under way or died.
LimitKept ==
    \A u \in Users : Cardinality(OwnedBy(u)) <=
      MaxDevices + crashes + Cardinality({b \in Browsers : req[b].user = u /\ req[b].pc \in {"count", "evict"}})

\* "a user at the device limit doesn't lose another (live) device to eviction for a row that is going anyway": a
\* request that replaces a row turns off no other, unless another request of that user added one meanwhile.
ReplaceEvictsNobody == \A b \in Browsers : req[b].pc = "evict" => ~(req[b].replaces /\ req[b].alone /\ crashes = 0)
\* A browser is signed up for what its user turned on there, nobody keeps more devices than the limit, and who replaces
\* a device turns off no other.
DevicesKept == ChosenUntilRotated /\ LimitKept /\ ReplaceEvictsNobody
=============================================================================
