------------------------------ MODULE Accounts ------------------------------
(* The console's users and invites (routes/users.ts, routes/auth.ts). A handler checks, hashes a password   *)
(* (which takes a while) and then writes; two handlers, of one admin or of several, run side by side, and   *)
(* each query is a step of its own where another may come between. Sessions and passwords are left out: an  *)
(* admin who is deactivated loses the session, so a request needs an active admin when it arrives, not later. *)
EXTENDS Naturals, FiniteSets

CONSTANTS
    People,      \* email addresses
    Admins,      \* those the create-admin script made
    Handlers,    \* requests that may be in flight at once
    Ops,         \* the kinds of request this instance makes: a subset of {"patch", "create", "invite"}
    None,        \* no account, no request
    MaxInvites,  \* bound: invite links issued
    MaxCrashes   \* bound: process deaths

VARIABLES
    user,     \* User, by email
    invites,  \* UserInvite
    req,      \* per handler: the request in flight, past its checks
    made,     \* history: per email, how often an account was made
    issued, crashes

vars == <<user, invites, req, made, issued, crashes>>

Roles == {"ADMIN", "PUBLISHER"}

AccountsOK == Admins \subseteq People /\ None \notin [role : Roles, active : BOOLEAN]

Init ==
    /\ user = [e \in People |-> IF e \in Admins THEN [role |-> "ADMIN", active |-> TRUE] ELSE None]
    /\ invites = {} /\ req = [h \in Handlers |-> None]
    /\ made = [e \in People |-> IF e \in Admins THEN 1 ELSE 0]
    /\ issued = 0 /\ crashes = 0

-----------------------------------------------------------------------------
Exists(e) == user[e] # None
ActiveAdmins == {e \in People : Exists(e) /\ user[e].active /\ user[e].role = "ADMIN"}

\* requireUser(['ADMIN']), on a free handler.
Admitted(h, op) == op \in Ops /\ req[h] = None /\ ActiveAdmins # {}
At(h, op) == req[h] # None /\ req[h].op = op
Begin(h, r) == req' = [req EXCEPT ![h] = r]
End(h)      == req' = [req EXCEPT ![h] = None]

-----------------------------------------------------------------------------
(* Users *)

\* wouldDropLastAdmin, on the rows as they are when it reads them.
WouldDropLastAdmin(e, u) == ~(u.active /\ u.role = "ADMIN") /\ ActiveAdmins \ {e} = {}

\* A change names the role, whether the user is active, or both.
Changes == [role : Roles \cup {None}, active : BOOLEAN \cup {None}] \ {[role |-> None, active |-> None]}
\* As if a role the request does not name were cleared.
After_Overwrites(u, c) == [role |-> c.role, active |-> IF c.active = None THEN u.active ELSE c.active]

After(u, c) == [role   |-> IF c.role = None THEN u.role ELSE c.role,
                active |-> IF c.active = None THEN u.active ELSE c.active]

\* PATCH /users/:id passes its check ...
Patch(h, e) ==
    /\ Admitted(h, "patch") /\ Exists(e)
    /\ \E c \in Changes :
        /\ ~WouldDropLastAdmin(e, After(user[e], c))
        /\ Begin(h, [op |-> "patch", who |-> e, change |-> c])
    /\ UNCHANGED <<user, invites, made, issued, crashes>>

\* ... and updates the row.
PatchWrites(h) ==
    /\ At(h, "patch")
    /\ user' = [user EXCEPT ![req[h].who] = After(@, req[h].change)]
    /\ End(h)
    /\ UNCHANGED <<invites, made, issued, crashes>>

\* POST /users: no account has the address yet ...
CreateUser(h, e) ==
    /\ Admitted(h, "create") /\ ~Exists(e)
    /\ \E role \in Roles : Begin(h, [op |-> "create", who |-> e, role |-> role, invite |-> None])
    /\ UNCHANGED <<user, invites, made, issued, crashes>>

\* As if the row were made or replaced, whichever applies.
Taken_Upsert(e) == FALSE
\* The address is a unique key of the table.
Taken(e) == Exists(e)

Made(e, role) ==
    /\ user' = [user EXCEPT ![e] = [role |-> role, active |-> TRUE]]
    /\ made' = [made EXCEPT ![e] = @ + 1]

\* ... and makes it, for an admin or for the holder of a link; a taken address is an error.
Creates(h) ==
    /\ At(h, "create")
    /\ LET r == req[h] IN
       IF Taken(r.who) THEN End(h) /\ UNCHANGED <<user, made>>
       ELSE /\ Made(r.who, r.role)
            /\ IF r.invite = None THEN End(h) ELSE Begin(h, [op |-> "mark", invite |-> r.invite])
    /\ UNCHANGED <<invites, issued, crashes>>

-----------------------------------------------------------------------------
(* Invites *)

Pending == {i \in invites : ~i.accepted}

\* issueInvite: an earlier pending link of the address goes ...
Supersede(h, e, role) ==
    /\ invites' = {i \in invites : i.email # e \/ i.accepted}
    /\ Begin(h, [op |-> "issue", who |-> e, role |-> role])
    /\ UNCHANGED <<user, made, issued, crashes>>

\* ... for an address without an account, or again for a pending invite,
Invite(h, e) == Admitted(h, "invite") /\ ~Exists(e) /\ \E role \in Roles : Supersede(h, e, role)
Resend(h, i) == Admitted(h, "invite") /\ i \in Pending /\ Supersede(h, i.email, i.role)

\* ... and the new one is made.
Issue(h) ==
    /\ At(h, "issue") /\ issued < MaxInvites
    /\ issued' = issued + 1
    /\ invites' = invites \cup {[id |-> issued + 1, email |-> req[h].who, role |-> req[h].role, accepted |-> FALSE]}
    /\ End(h)
    /\ UNCHANGED <<user, made, crashes>>

RevokeInvite(i) ==
    /\ ActiveAdmins # {} /\ i \in Pending
    /\ invites' = invites \ {i}
    /\ UNCHANGED <<user, req, made, issued, crashes>>

\* accept-invite: the link is pending ...
Acceptable(i) == i \in Pending

\* ... and its address has no account yet.
Accept(h, i) ==
    /\ req[h] = None /\ Acceptable(i) /\ ~Exists(i.email)
    /\ Begin(h, [op |-> "create", who |-> i.email, role |-> i.role, invite |-> i])
    /\ UNCHANGED <<user, invites, made, issued, crashes>>

\* After the account is made the invite is marked; one that was revoked or superseded meanwhile is an error.
Mark(h) ==
    /\ At(h, "mark")
    /\ LET i == req[h].invite IN
       invites' = IF i \in invites THEN (invites \ {i}) \cup {[i EXCEPT !.accepted = TRUE]} ELSE invites
    /\ End(h)
    /\ UNCHANGED <<user, made, issued, crashes>>

\* The container stops: every request in it ends where it is.
Crash ==
    /\ crashes < MaxCrashes /\ crashes' = crashes + 1
    /\ req' = [h \in Handlers |-> None]
    /\ UNCHANGED <<user, invites, made, issued>>

Next ==
    \/ \E h \in Handlers, e \in People : Patch(h, e) \/ CreateUser(h, e) \/ Invite(h, e)
    \/ \E h \in Handlers : PatchWrites(h) \/ Creates(h) \/ Issue(h) \/ Mark(h)
    \/ \E h \in Handlers, i \in invites : Resend(h, i) \/ Accept(h, i)
    \/ \E i \in invites : RevokeInvite(i)
    \/ Crash

Spec == Init /\ [][Next]_vars

-----------------------------------------------------------------------------
(* Properties *)

TypeOK ==
    /\ \A e \in People : Exists(e) => user[e] \in [role : Roles, active : BOOLEAN]
    /\ \A i \in invites : i.id \in 1 .. issued /\ i.email \in People /\ i.role \in Roles

\* However many links a person was sent, and however often one is submitted, also at the same moment as an admin
\* creates the user by hand: one account is made, and none that exists is made over.
OneAccountPerPerson == \A e \in People : made[e] <= 1

\* users.ts: "cannot demote or deactivate the only remaining active admin".
AdminRemains == ActiveAdmins # {}

=============================================================================
