------------------------------ MODULE Accounts ------------------------------
(***************************************************************************)
(* Users, API keys and vendor grants (routes/auth.py), and how a request   *)
(* gets its caller and effective role (core/auth_middleware.py,            *)
(* core/dependencies.py, core/authz.py).                                   *)
(*                                                                         *)
(* The middleware authenticates a request on a session of its own; the     *)
(* handler then reads what its guard needs, and commits later.  Requests   *)
(* interleave at each of these points, so a request is three steps:        *)
(* authenticated, checked, committed.                                      *)
(***************************************************************************)
EXTENDS Naturals, FiniteSets

CONSTANTS
    Users,      \* user ids, each given out once
    Clients,    \* requests that may be in progress at the same time
    Vendors,    \* vendors a non-admin may be granted
    Keys,       \* API key ids, each given out once
    MaxRequests \* authenticated requests (bound)

VARIABLES
    user,   \* the row of each user, {} when there is none
    used,   \* user ids that were given out
    key,    \* the row of each API key, {} when it was never minted
    grant,  \* user_vendor_permissions: <<user, vendor, level>>
    asks,   \* authenticated requests so far
    call,   \* the request of each client, {} when it has none
    peak    \* history: the highest role each user has had

vars == <<user, used, key, grant, asks, call, peak>>

Role == {"read_only", "read_write", "admin"}
Level == [read_only |-> 1, read_write |-> 2, admin |-> 3]
RoleAtLeast(held, required) == Level[held] >= Level[required]
MinRole(a, b) == IF Level[a] <= Level[b] THEN a ELSE b
MaxRole(a, b) == IF Level[a] <= Level[b] THEN b ELSE a

\* The rows.  A key carries a role of its own, and a grant a level for one vendor.
NewUser(role) == [role |-> role, active |-> TRUE]
NewKey(owner, role) == [owner |-> owner, role |-> role, active |-> TRUE]
Grants(u, levels) == {<<u, x[1], x[2]>> : x \in levels}

Row(u) == CHOOSE r \in user[u] : TRUE
Exists(u) == user[u] # {}
ActiveAdmins == {u \in Users : \E r \in user[u] : r.role = "admin" /\ r.active}

Init ==
    /\ user = [u \in Users |-> {}] /\ used = {}
    /\ key = [k \in Keys |-> {}] /\ grant = {}
    /\ call = [c \in Clients |-> {}] /\ asks = 0
    /\ peak = [u \in Users |-> "read_only"]

-----------------------------------------------------------------------------
(* The middleware: who calls, and with which role.                         *)

\* A token is issued to an active user that signed in, and acts with the role
\* its owner has now.
Tokens == {<<u, Row(u).role>> : u \in {v \in Users : Exists(v) /\ Row(v).active}}

\* A key narrows its owner's role, and a revoked one is refused.
KeyCallers ==
    {<<k.owner, MinRole(Row(k.owner).role, k.role)>> :
        k \in {j \in UNION {key[i] : i \in Keys} :
                   j.active /\ Exists(j.owner) /\ Row(j.owner).active}}

Ask(c, caller, role) ==
    /\ call[c] = {} /\ asks < MaxRequests
    /\ asks' = asks + 1
    /\ call' = [call EXCEPT ![c] = {[step |-> "asked", caller |-> caller,
                                     role |-> role]}]
    /\ UNCHANGED <<user, used, key, grant, peak>>

Authenticate(c) == \E cr \in Tokens \cup KeyCallers : Ask(c, cr[1], cr[2])

\* What a handler has decided to write.
Decides(c, write) ==
    /\ call' = [call EXCEPT ![c] = {[step |-> "decided", write |-> write]}]
    /\ UNCHANGED <<user, used, key, grant, asks, peak>>

Asked(c) == {r \in call[c] : r.step = "asked"}
RequireAdmin(c) == {r \in Asked(c) : RoleAtLeast(r.role, "admin")}

-----------------------------------------------------------------------------
(* Reading and checking: the guards of the handlers.                       *)

\* With no user at all anybody registers, as an admin; later an admin does,
\* and chooses the role.
RegisterFirst(c) ==
    /\ call[c] = {} /\ \A u \in Users : ~Exists(u)
    /\ \E u \in Users \ used :
          Decides(c, [op |-> "insert", user |-> u, role |-> "admin"])

Register(c) ==
    /\ RequireAdmin(c) # {}
    /\ \E u \in Users \ used, role \in Role :
          Decides(c, [op |-> "insert", user |-> u, role |-> role])

\* The first sign-in through an external provider makes a user without rights.
\* The provider vouches for the caller: no credential of ours is needed.
OAuthCallback(c) ==
    /\ call[c] = {}
    /\ \E u \in Users \ used :
          Decides(c, [op |-> "insert", user |-> u, role |-> "read_only"])

\* The guard of the last admin, when the target is one: the count is read here,
\* and the write comes later.
KeepsAnAdmin(t) == Row(t).role = "admin" => Cardinality(ActiveAdmins) > 1

\* The columns a patch writes are the ones that differ from the row as read.
UpdateUser(c) ==
    \E r \in RequireAdmin(c), t \in Users, role \in Role, active \in BOOLEAN :
        LET demoting == role # "admin" /\ Row(t).role = "admin"
            deactivating == ~active /\ Row(t).active
        IN  /\ Exists(t)
            /\ role # Row(t).role \/ active # Row(t).active
            /\ (demoting \/ deactivating) => t # r.caller /\ KeepsAnAdmin(t)
            /\ Decides(c, [op |-> "update", user |-> t,
                   role |-> IF role = Row(t).role THEN {} ELSE {role},
                   active |-> IF active = Row(t).active THEN {} ELSE {active}])

DeleteUser(c) ==
    \E r \in RequireAdmin(c), t \in Users :
        /\ Exists(t) /\ t # r.caller /\ KeepsAnAdmin(t)
        /\ Decides(c, [op |-> "delete", user |-> t])

\* A grant's level is capped by the role the user has now.  The old grants go in
\* a statement of its own, which sees what is committed when it runs.
SetVendorPermissions(c) ==
    \E r \in RequireAdmin(c), t \in Users, g \in SUBSET (Vendors \X {"read_only", "read_write"}) :
        /\ Exists(t)
        /\ \A x, y \in g : x[1] = y[1] => x = y
        /\ \A x \in g : x[2] = "read_write" => RoleAtLeast(Row(t).role, "read_write")
        /\ Decides(c, [op |-> "grants", user |-> t, grants |-> Grants(t, g),
                         seen |-> {x \in grant : x[1] = t}])

CreateApiKey(c) ==
    \E r \in Asked(c), role \in Role :
        /\ RoleAtLeast(r.role, role)
        /\ Decides(c, [op |-> "mint", owner |-> r.caller, role |-> role, old |-> {}])

\* One's own keys, or any key for an admin.
Manages(r, k) == \E row \in key[k] : row.owner = r.caller \/ r.role = "admin"

RevokeApiKey(c) ==
    \E r \in Asked(c), k \in Keys : Manages(r, k) /\ Decides(c, [op |-> "revoke", old |-> {k}])

\* Mutant of Replacement: a key of the caller's role.
ReplacementOfCaller(r, row, k) ==
    [op |-> "mint", owner |-> row.owner, role |-> r.role, old |-> {k}]

\* The replacement has the owner and the role of the old key, whoever rotates it.
Replacement(r, row, k) ==
    [op |-> "mint", owner |-> row.owner, role |-> row.role, old |-> {k}]

RotateApiKey(c) ==
    \E r \in Asked(c), k \in Keys :
        /\ Manages(r, k)
        /\ \E row \in key[k] : Decides(c, Replacement(r, row, k))

-----------------------------------------------------------------------------
(* Committing.                                                             *)

Over(c) == call' = [call EXCEPT ![c] = {}] /\ UNCHANGED asks
Decided(c, op) == {r \in call[c] : r.step = "decided" /\ r.write.op = op}

\* The email is unique: a second insert of one user fails.
CommitInsert(c) ==
    \E r \in Decided(c, "insert") :
        LET u == r.write.user IN
        /\ u \notin used
        /\ user' = [user EXCEPT ![u] = {NewUser(r.write.role)}]
        /\ used' = used \cup {u}
        /\ peak' = [peak EXCEPT ![u] = r.write.role]
        /\ Over(c) /\ UNCHANGED <<key, grant>>

\* The columns that changed; none when the row is gone.
CommitUpdate(c) ==
    \E r \in Decided(c, "update") :
        LET w == r.write
            Pick(cell, was) == IF cell = {} THEN was ELSE CHOOSE x \in cell : TRUE
        IN  /\ user' = [user EXCEPT ![w.user] =
                   {[role |-> Pick(w.role, x.role), active |-> Pick(w.active, x.active)] :
                       x \in @}]
            /\ peak' = [peak EXCEPT ![w.user] =
                   IF Exists(w.user) THEN MaxRole(@, Pick(w.role, @)) ELSE @]
            /\ Over(c) /\ UNCHANGED <<used, key, grant>>

\* Keys and grants are deleted with their user.
CommitDelete(c) ==
    \E r \in Decided(c, "delete") :
        LET u == r.write.user IN
        /\ user' = [user EXCEPT ![u] = {}]
        /\ key' = [k \in Keys |-> {x \in key[k] : x.owner # u}]
        /\ grant' = {g \in grant : g[1] # u}
        /\ Over(c) /\ UNCHANGED <<used, peak>>

\* The old grants that were seen go, the new ones come; a vendor granted meanwhile
\* by another request is a duplicate, and the whole request fails.
CommitGrants(c) ==
    \E r \in Decided(c, "grants") :
        LET left == grant \ r.write.seen IN
        /\ Exists(r.write.user)
        /\ \A x \in left, y \in r.write.grants : <<x[1], x[2]>> # <<y[1], y[2]>>
        /\ grant' = left \cup r.write.grants
        /\ Over(c) /\ UNCHANGED <<user, used, key, peak>>

Revoked(old) == [k \in Keys |-> IF k \in old THEN {[x EXCEPT !.active = FALSE] : x \in key[k]}
                                ELSE key[k]]

CommitKey(c) ==
    \E r \in Decided(c, "mint"), k \in Keys :
        /\ key[k] = {} /\ Exists(r.write.owner)
        /\ key' = [Revoked(r.write.old) EXCEPT ![k] =
                      {NewKey(r.write.owner, r.write.role)}]
        /\ Over(c) /\ UNCHANGED <<user, used, grant, peak>>

CommitRevoke(c) ==
    \E r \in Decided(c, "revoke") :
        /\ key' = Revoked(r.write.old)
        /\ Over(c) /\ UNCHANGED <<user, used, grant, peak>>

\* A guard refused, the client went away, or the database did.
Refuse(c) == call[c] # {} /\ Over(c) /\ UNCHANGED <<user, used, key, grant, peak>>

Next ==
    \E c \in Clients :
        \/ Authenticate(c) \/ RegisterFirst(c) \/ Register(c) \/ OAuthCallback(c)
        \/ UpdateUser(c) \/ DeleteUser(c) \/ SetVendorPermissions(c)
        \/ CreateApiKey(c) \/ RevokeApiKey(c) \/ RotateApiKey(c)
        \/ CommitInsert(c) \/ CommitUpdate(c) \/ CommitDelete(c) \/ CommitGrants(c)
        \/ CommitKey(c) \/ CommitRevoke(c) \/ Refuse(c)

Spec == Init /\ [][Next]_vars

-----------------------------------------------------------------------------
(* A key and a grant belong to a user that exists, and give at most what    *)
(* this user was entitled to at some time: they are checked against a role  *)
(* as read (create_api_key, set_vendor_permissions) and committed later,    *)
(* when the user may have been demoted or deleted, and a key may be rotated  *)
(* by an administrator (rotate_api_key, _rotate).                           *)
RightsWereHeld ==
    /\ \A k \in Keys : \A x \in key[k] :
          Exists(x.owner) /\ RoleAtLeast(peak[x.owner], x.role)
    /\ \A g \in grant : Exists(g[1]) /\ RoleAtLeast(peak[g[1]], g[3])
=============================================================================
