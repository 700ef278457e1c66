------------------------------ MODULE Accounts ------------------------------
(* gatekeeper: accounts, the default role, organisations, memberships and    *)
(* invites. Every handler is a request that takes one step per statement;    *)
(* any number of requests run at once over the same rows and the same user   *)
(* cache. Row locks last as long as their transaction; a transaction's writes *)
(* appear at its commit.                                                     *)
EXTENDS Integers, FiniteSets

CONSTANTS
    Users, Orgs, Invites, Requests,
    InviteUser, InviteOrg,  \* whom an invite is for, and to which organisation
    Allowlisted,            \* users whose address is on the signup allowlist
    None,
    MaxCalls,               \* requests in all
    MaxBuilds,              \* default-role builds in all
    MaxVersion,             \* versions of the registry's default grants
    MaxRefreshes,           \* polls of the registry that change the grants
    MaxFaults               \* statements that fail

Signup == "signup"                          \* the key of the advisory lock

ASSUME AccountConstants ==
    /\ InviteUser \in [Invites -> Users] /\ InviteOrg \in [Invites -> Orgs]
    /\ Allowlisted \subseteq Users /\ IsFiniteSet(Users)
    /\ None \notin Users \cup Orgs \cup Invites \cup Requests
    /\ Users \cap Invites = {} /\ Signup \notin Users \cup Invites
    /\ {MaxCalls, MaxBuilds, MaxRefreshes, MaxFaults} \subseteq Nat
    /\ MaxVersion \in Nat \ {0} /\ Cardinality(Users) <= MaxBuilds

VARIABLES
    conf,       \* [seeded, inviteOnly]: an admin from the environment; the policy
    account,    \* account[u]: "none", "active" or "removed"
    admin,      \* admin[u]: the personal role holds the wildcard permission
    grant,      \* grant[u]: organisations the personal role may read
    row,        \* row[u]: [org, role, version], the rest of the user row
    cache,      \* cache[u]: the cached user row, or NoRow
    members,    \* members[u]: the active memberships, [org, at]: joined as the at-th
    org,        \* org[o]: [state, owner]
    invite,     \* invite[i]: [status, active, by]
    locks,      \* locks[x]: the transaction that locks a user, an invite or signup
    role,       \* role[r]: the permissions default role r points at (0: no role)
    perms,      \* perms[g]: [state, version], the permissions of build g
    grants,     \* version of the default grants in memory, 0 when there are none
    req,        \* req[q]: the state of request q
    used        \* [calls, joins, builds, refreshes, faults] so far

roleVars == <<role, perms>>
userVars == <<account, admin, grant, row, cache>>
orgVars  == <<members, org, invite>>
vars == <<conf, userVars, orgVars, locks, roleVars, grants, req, used>>

Builds == 1 .. MaxBuilds
Versions == 0 .. MaxVersion
Rows == [org : Orgs \cup {None}, role : 0 .. MaxBuilds, version : Versions]
NewRow == [org |-> None, role |-> 0, version |-> 0]
NoRow == [NewRow EXCEPT !.version = -1]
Idle == [op |-> "idle", pc |-> "idle", u |-> None, o |-> None, i |-> None, next |-> None,
         row |-> NoRow, build |-> 0, old |-> 0, first |-> FALSE, avail |-> FALSE,
         todo |-> {}, affected |-> {}, ids |-> {}]

Ops == {"idle", "signup", "login", "update", "create", "delete", "switch",
        "leave", "accept", "decline", "cancel"}

\* Every variable holds a value of its type.
TypeOK ==
    /\ conf \in [seeded : BOOLEAN, inviteOnly : BOOLEAN]
    /\ account \in [Users -> {"none", "active", "removed"}]
    /\ admin \in [Users -> BOOLEAN] /\ grant \in [Users -> SUBSET Orgs]
    /\ row \in [Users -> Rows] /\ cache \in [Users -> Rows \cup {NoRow}]
    /\ members \in [Users -> SUBSET [org : Orgs, at : Nat]]
    /\ org \in [Orgs -> [state : {"none", "active", "deleted"}, owner : Users \cup {None}]]
    /\ invite \in [Invites -> [status : {"none", "pending", "accepted", "declined"},
                               active : BOOLEAN, by : Users \cup {None}]]
    /\ locks \in [Users \cup Invites \cup {Signup} -> Requests \cup {None}]
    /\ role \in [Builds -> 0 .. MaxBuilds]
    /\ perms \in [Builds -> [state : {"none", "active", "retired"}, version : Versions]]
    /\ grants \in Versions
    /\ \A q \in Requests : req[q].op \in Ops

----------------------------------------------------------------------------
(* Initial states *)

NoPerms == [state |-> "none", version |-> 0]
NothingUsed == [calls |-> 0, joins |-> 0, builds |-> 0, refreshes |-> 0, faults |-> 0]

\* A fresh instance, with or without an admin from the environment, open or
\* invite-only, the registry reached or not.
FreshInstance ==
    /\ conf \in [seeded : BOOLEAN, inviteOnly : BOOLEAN]
    /\ account = [u \in Users |-> "none"] /\ admin = [u \in Users |-> FALSE]
    /\ row = [u \in Users |-> NewRow]
    /\ members = [u \in Users |-> {}] /\ grant = [u \in Users |-> {}]
    /\ org = [o \in Orgs |-> [state |-> "none", owner |-> None]]
    /\ invite = [i \in Invites |-> [status |-> "none", active |-> TRUE, by |-> None]]
    /\ role = [r \in Builds |-> 0] /\ perms = [g \in Builds |-> NoPerms]
    /\ grants \in {0, 1}
    /\ used = NothingUsed

\* An instance at work: everybody has signed up, one of them first; that one owns
\* an organisation and its invites are out.
RunningInstance ==
    \E boss \in Users, home \in Orgs :
      LET n == Cardinality(Users)
          seat == CHOOSE f \in [Users -> 1 .. n] : \A x, y \in Users : f[x] = f[y] => x = y
      IN /\ conf = [seeded |-> FALSE, inviteOnly |-> FALSE]
         /\ account = [u \in Users |-> "active"] /\ admin = [u \in Users |-> u = boss]
         /\ row = [u \in Users |-> [org |-> IF u = boss THEN home ELSE None,
                                    role |-> seat[u], version |-> 1]]
         /\ members = [u \in Users |-> IF u = boss THEN {[org |-> home, at |-> 0]} ELSE {}]
         /\ grant = [u \in Users |-> IF u = boss THEN {home} ELSE {}]
         /\ org = [o \in Orgs |-> IF o = home THEN [state |-> "active", owner |-> boss]
                                  ELSE [state |-> "none", owner |-> None]]
         /\ invite = [i \in Invites |->
                        [status |-> IF InviteOrg[i] = home THEN "pending" ELSE "none",
                         active |-> TRUE, by |-> boss]]
         /\ role = [r \in Builds |-> IF r <= n THEN r ELSE 0]
         /\ perms = [g \in Builds |-> IF g <= n THEN [state |-> "active", version |-> 1] ELSE NoPerms]
         /\ grants = 1
         /\ used = [NothingUsed EXCEPT !.builds = n]

Init ==
    /\ FreshInstance \/ RunningInstance
    /\ cache = [u \in Users |-> NoRow]
    /\ locks = [x \in Users \cup Invites \cup {Signup} |-> None]
    /\ req = [q \in Requests |-> Idle]

----------------------------------------------------------------------------
(* Requests *)

At(q, op, pc) == req[q].op = op /\ req[q].pc = pc
Go(q, pc) == req' = [req EXCEPT ![q].pc = pc]
Done(q) == req' = [req EXCEPT ![q] = Idle]

Begin(q, op, u, o, i) ==
    /\ req[q].op = "idle" /\ used.calls < MaxCalls
    /\ req' = [req EXCEPT ![q] = [Idle EXCEPT !.op = op, !.pc = "begin", !.u = u, !.o = o, !.i = i]]
    /\ used' = [used EXCEPT !.calls = @ + 1]

Fault == used.faults < MaxFaults /\ used' = [used EXCEPT !.faults = @ + 1]

Free(x, q) == locks[x] \in {None, q}
Release(q) == locks' = [x \in DOMAIN locks |-> IF locks[x] = q THEN None ELSE locks[x]]

\* matchPermission on "gatekeeper/orgs/<o>": the wildcard, or a grant of the
\* personal role; the owner's grant covers every action.
MayRead(u, o) == admin[u] \/ o \in grant[u]
MayManage(u, o) == admin[u] \/ (o \in grant[u] /\ org[o].owner = u)

Start(q) ==
    /\ \/ \E u \in Users :
            \/ account[u] = "none" /\ (\A p \in Requests : ~(req[p].op = "signup" /\ req[p].u = u))
               /\ Begin(q, "signup", u, None, None)
            \/ account[u] = "active"
               /\ \/ Begin(q, "login", u, None, None)
                  \/ Begin(q, "update", u, None, None)
                  \/ \E o \in Orgs :
                       \/ org[o].state = "none" /\ (\A p \in Requests : ~(req[p].op = "create" /\ req[p].o = o))
                          /\ Begin(q, "create", u, o, None)
                       \/ MayManage(u, o) /\ Begin(q, "delete", u, o, None)
                       \/ MayRead(u, o) /\ (Begin(q, "switch", u, o, None) \/ Begin(q, "leave", u, o, None))
                  \/ \E i \in Invites :
                       /\ invite[i].active
                       /\ \/ /\ InviteUser[i] = u /\ invite[i].status = "pending"
                             /\ Begin(q, "accept", u, InviteOrg[i], i) \/ Begin(q, "decline", u, None, i)
                          \/ invite[i].by = u /\ Begin(q, "cancel", u, None, i)
    /\ UNCHANGED <<conf, userVars, orgVars, locks, roleVars, grants>>

----------------------------------------------------------------------------
(* The user row: User.Get through the cache, User.Update *)

\* User.Get: a hit, or a read of the row that is cached in a later step.
GetUser(q) ==
    LET u == req[q].u IN
    /\ req[q].pc = "get"
    /\ \/ cache[u] # NoRow
          /\ req' = [req EXCEPT ![q].row = cache[u], ![q].pc = "have"]
       \/ cache[u] = NoRow /\ account[u] = "active"
          /\ req' = [req EXCEPT ![q].row = row[u], ![q].pc = "fill"]
       \/ cache[u] = NoRow /\ account[u] # "active"
          /\ IF req[q].op = "delete" THEN Go(q, "next") ELSE Done(q)
    /\ UNCHANGED <<conf, userVars, orgVars, locks, roleVars, grants, used>>

FillCache(q) ==
    /\ req[q].pc = "fill"
    /\ cache' = [cache EXCEPT ![req[q].u] = req[q].row]
    /\ Go(q, "have")
    /\ UNCHANGED <<conf, account, admin, grant, row, orgVars, locks, roleVars, grants, used>>

\* The cached row outlives entityTTL.
CacheExpires(u) ==
    /\ cache[u] # NoRow
    /\ cache' = [cache EXCEPT ![u] = NoRow]
    /\ UNCHANGED <<conf, account, admin, grant, row, orgVars, locks, roleVars, grants, req, used>>

\* What a handler does after its User.Update.
AfterSave(q) ==
    CASE req[q].op \in {"signup", "login"} -> Go(q, "retire")
      [] req[q].op = "create" -> Go(q, "member")
      [] req[q].op = "delete" -> Go(q, "next")
      [] OTHER -> Done(q)

\* User.Update writes every column of the copy it was given, but not active,
\* waits for a transaction that holds the row, and evicts the cached row.
SaveUser(q) ==
    LET u == req[q].u IN
    /\ req[q].pc = "save" /\ Free(u, q)
    /\ row' = [row EXCEPT ![u] = req[q].row]
    /\ cache' = [cache EXCEPT ![u] = NoRow]
    /\ AfterSave(q)
    /\ UNCHANGED <<conf, account, admin, grant, orgVars, locks, roleVars, grants, used>>

\* handleUpdateUser: read, change the name or the password, write.
UpdateUser(q) ==
    /\ \/ At(q, "update", "begin") /\ Go(q, "get")
       \/ At(q, "update", "have") /\ Go(q, "save")
    /\ UNCHANGED <<conf, userVars, orgVars, locks, roleVars, grants, used>>

\* handleDeleteUser, by an admin or by the user.
DeleteUser(q, u) ==
    /\ req[q].op = "idle" /\ used.calls < MaxCalls /\ account[u] = "active" /\ Free(u, None)
    /\ used' = [used EXCEPT !.calls = @ + 1]
    /\ account' = [account EXCEPT ![u] = "removed"]
    /\ cache' = [cache EXCEPT ![u] = NoRow]
    /\ UNCHANGED <<conf, admin, grant, row, orgVars, locks, roleVars, grants, req>>

----------------------------------------------------------------------------
(* Signup: handleSignup and createUserWithBootstrapAdmin *)

NoAccounts == ~conf.seeded /\ \A u \in Users : account[u] = "none"

\* The invite-only gate: on the allowlist, or the exempt first signup. The handler
\* then reads whether there are default grants to build a role from.
SignupGate(q) ==
    /\ At(q, "signup", "begin")
    /\ IF conf.inviteOnly /\ req[q].u \notin Allowlisted /\ ~NoAccounts
       THEN Done(q)
       ELSE req' = [req EXCEPT ![q].avail = grants # 0,
                               ![q].pc = IF conf.seeded THEN "insert" ELSE "lock"]
    /\ UNCHANGED <<conf, userVars, orgVars, locks, roleVars, grants, used>>

SkipSignupLock(q) == UNCHANGED locks
\* pg_advisory_xact_lock, waited for.
TakeSignupLock(q) == locks[Signup] = None /\ locks' = [locks EXCEPT ![Signup] = q]

SignupLock(q) ==
    /\ At(q, "signup", "lock")
    /\ TakeSignupLock(q)
    /\ Go(q, "count")
    /\ UNCHANGED <<conf, userVars, orgVars, roleVars, grants, used>>

\* instanceUserCount counts removed accounts too.
InstanceUserCount == Cardinality({u \in Users : account[u] # "none"})

SignupCount(q) ==
    /\ At(q, "signup", "count")
    /\ req' = [req EXCEPT ![q].first = InstanceUserCount = 0, ![q].pc = "insert"]
    /\ UNCHANGED <<conf, userVars, orgVars, locks, roleVars, grants, used>>

\* The commit inserts the roles and the user and ends the lock; a statement that
\* fails, or an account without any grants, rolls back.
SignupCommit(q) ==
    LET u == req[q].u IN
    /\ At(q, "signup", "insert")
    /\ Release(q)
    /\ \/ /\ req[q].first \/ req[q].avail
          /\ account' = [account EXCEPT ![u] = "active"]
          /\ admin' = [admin EXCEPT ![u] = req[q].first]
          /\ Go(q, "get") /\ UNCHANGED used
       \/ /\ ~(req[q].first \/ req[q].avail)
          /\ Done(q) /\ UNCHANGED <<account, admin, used>>
       \/ Fault /\ Done(q) /\ UNCHANGED <<account, admin>>
    /\ UNCHANGED <<conf, grant, row, cache, orgVars, roleVars, grants>>

----------------------------------------------------------------------------
(* rebuildDefaultRole, from signup and from login *)

Rebuilds(q) == req[q].op \in {"signup", "login"}

\* handleLogin compares the versions of the row it read by address.
Login(q) ==
    /\ At(q, "login", "begin")
    /\ IF account[req[q].u] = "active" /\ grants # 0 /\ row[req[q].u].version # grants
       THEN Go(q, "get") ELSE Done(q)
    /\ UNCHANGED <<conf, userVars, orgVars, locks, roleVars, grants, used>>

\* The new permissions are inserted before any role names them; without grants
\* nothing is rebuilt.
Build(q) ==
    /\ Rebuilds(q) /\ req[q].pc = "have"
    /\ \/ grants = 0 /\ Done(q) /\ UNCHANGED <<perms, used>>
       \/ /\ grants # 0
          /\ used.builds < MaxBuilds
          /\ LET g == used.builds + 1 IN
             /\ perms' = [perms EXCEPT ![g] = [state |-> "active", version |-> grants]]
             /\ used' = [used EXCEPT !.builds = g]
             /\ req' = [req EXCEPT ![q].build = g,
                                   ![q].pc = IF req[q].row.role = 0 THEN "add" ELSE "load"]
    /\ UNCHANGED <<conf, userVars, orgVars, locks, role, grants>>

\* First build: a role of its own. The role is named after its first build.
AddRole(q) ==
    /\ Rebuilds(q) /\ req[q].pc = "add"
    /\ role' = [role EXCEPT ![req[q].build] = req[q].build]
    /\ req' = [req EXCEPT ![q].row.role = req[q].build, ![q].pc = "stamp"]
    /\ UNCHANGED <<conf, userVars, orgVars, locks, perms, grants, used>>

\* Role.Get: what the role names now, or a cached row whose permissions another
\* rebuild has replaced already (old = 0).
LoadRole(q) ==
    /\ Rebuilds(q) /\ req[q].pc = "load"
    /\ \E old \in {role[req[q].row.role], 0} :
         req' = [req EXCEPT ![q].old = old, ![q].pc = "swap"]
    /\ UNCHANGED <<conf, userVars, orgVars, locks, roleVars, grants, used>>

RetireThenSwap(q) ==
    /\ Rebuilds(q) /\ req[q].pc = "swap"
    /\ IF req[q].old # 0 /\ perms[req[q].old].state = "active"
       THEN perms' = [perms EXCEPT ![req[q].old].state = "retired"] /\ UNCHANGED <<role, req>>
       ELSE role' = [role EXCEPT ![req[q].row.role] = req[q].build] /\ Go(q, "stamp") /\ UNCHANGED perms
    /\ UNCHANGED <<conf, userVars, orgVars, locks, grants, used>>
SwapRole(q) ==
    /\ Rebuilds(q) /\ req[q].pc = "swap"
    /\ role' = [role EXCEPT ![req[q].row.role] = req[q].build]
    /\ Go(q, "stamp")
    /\ UNCHANGED <<conf, userVars, orgVars, locks, perms, grants, used>>

\* The stamp reads the version anew, after the permissions were built.
Stamp(q) ==
    /\ Rebuilds(q) /\ req[q].pc = "stamp"
    /\ req' = [req EXCEPT ![q].row.version = grants, ![q].pc = "save"]
    /\ UNCHANGED <<conf, userVars, orgVars, locks, roleVars, grants, used>>

Retire(q) ==
    /\ Rebuilds(q) /\ req[q].pc = "retire"
    /\ perms' = IF req[q].old = 0 THEN perms ELSE [perms EXCEPT ![req[q].old].state = "retired"]
    /\ Done(q)
    /\ UNCHANGED <<conf, userVars, orgVars, locks, role, grants, used>>

\* A statement of a rebuild fails. Before the role names them, the new permissions
\* are removed again. A signup that is not the bootstrap admin's removes the user.
RebuildFails(q) ==
    LET u == req[q].u IN
    /\ Rebuilds(q) /\ req[q].pc \in {"get", "add", "load", "swap", "save"}
    /\ Fault
    /\ perms' = IF req[q].pc \in {"add", "load", "swap"}
                THEN [perms EXCEPT ![req[q].build].state = "retired"] ELSE perms
    /\ IF req[q].op = "signup" /\ ~req[q].first
       THEN /\ account' = [account EXCEPT ![u] = "removed"]
            /\ cache' = [cache EXCEPT ![u] = NoRow]
       ELSE UNCHANGED <<account, cache>>
    /\ Done(q)
    /\ UNCHANGED <<conf, admin, grant, row, orgVars, locks, role, grants>>

\* startDefaultGrantPoller: the registry answers with other grants, or with none.
Refresh ==
    /\ used.refreshes < MaxRefreshes
    /\ \E v \in Versions \ {grants} : grants' = v
    /\ used' = [used EXCEPT !.refreshes = @ + 1]
    /\ UNCHANGED <<conf, userVars, orgVars, locks, roleVars, req>>

----------------------------------------------------------------------------
(* Organisations *)

Without(ms, o) == {m \in ms : m.org # o}
IsMember(u, o) == \E m \in members[u] : m.org = o
Oldest(ms) == IF ms = {} THEN None
              ELSE (CHOOSE m \in ms : \A k \in ms : m.at <= k.at).org

\* The row of a new membership, created after every other one.
Join(u, o) ==
    /\ members' = [members EXCEPT ![u] = @ \cup {[org |-> o, at |-> used.joins + 1]}]
    /\ used' = [used EXCEPT !.joins = @ + 1]

\* handleCreateOrg: insert, put the owner in the organisation, add the membership
\* if there is none, grant the owner's permissions by reading and saving the
\* personal role.
AddOrg(q) ==
    /\ At(q, "create", "begin")
    /\ org' = [org EXCEPT ![req[q].o] = [state |-> "active", owner |-> req[q].u]]
    /\ Go(q, "get")
    /\ UNCHANGED <<conf, userVars, members, invite, locks, roleVars, grants, used>>

PutInOrg(q) ==
    /\ At(q, "create", "have")
    /\ req' = [req EXCEPT ![q].row.org = req[q].o, ![q].pc = "save"]
    /\ UNCHANGED <<conf, userVars, orgVars, locks, roleVars, grants, used>>

\* addMembership: a check and an insert.
CheckMembership(q) ==
    /\ At(q, "create", "member")
    /\ Go(q, IF IsMember(req[q].u, req[q].o) THEN "read" ELSE "insert")
    /\ UNCHANGED <<conf, userVars, orgVars, locks, roleVars, grants, used>>

AddMembership(q) ==
    /\ At(q, "create", "insert")
    /\ Join(req[q].u, req[q].o)
    /\ Go(q, "read")
    /\ UNCHANGED <<conf, userVars, org, invite, locks, roleVars, grants>>

\* grantServicePermissions reads the personal role without a lock and saves it.
ReadPersonalRole(q) ==
    /\ req[q].pc = "read"
    /\ IF req[q].op = "create" /\ grants = 0 THEN Done(q)
       ELSE req' = [req EXCEPT ![q].ids = grant[req[q].u],
                               ![q].pc = IF req[q].op = "create" THEN "grant" ELSE "commit"]
    /\ UNCHANGED <<conf, userVars, orgVars, locks, roleVars, grants, used>>

GrantOwner(q) ==
    /\ At(q, "create", "grant")
    /\ grant' = [grant EXCEPT ![req[q].u] = req[q].ids \cup {req[q].o}]
    /\ Done(q)
    /\ UNCHANGED <<conf, account, admin, row, cache, orgVars, locks, roleVars, grants, used>>

\* handleDeleteOrg: remove, then reassignActiveOrgAfterOrgDelete.
RemoveOrg(q) ==
    /\ At(q, "delete", "begin")
    /\ IF org[req[q].o].state = "active"
       THEN org' = [org EXCEPT ![req[q].o].state = "deleted"] /\ Go(q, "affected")
       ELSE Done(q) /\ UNCHANGED org
    /\ UNCHANGED <<conf, userVars, members, invite, locks, roleVars, grants, used>>

FindAffected(q) ==
    LET here == {u \in Users : row[u].org = req[q].o} IN
    /\ At(q, "delete", "affected")
    /\ req' = [req EXCEPT ![q].todo = here, ![q].affected = here, ![q].pc = "empty"]
    /\ UNCHANGED <<conf, userVars, orgVars, locks, roleVars, grants, used>>

DeactivateMemberships(q) ==
    /\ At(q, "delete", "empty")
    /\ members' = [u \in Users |-> Without(members[u], req[q].o)]
    /\ Go(q, "next")
    /\ UNCHANGED <<conf, userVars, org, invite, locks, roleVars, grants, used>>

\* For each affected user: what remains, then the row.
NextAffected(q) ==
    /\ At(q, "delete", "next") /\ req[q].todo # {}
    /\ \E u \in req[q].todo :
         req' = [req EXCEPT ![q].todo = @ \ {u}, ![q].u = u, ![q].pc = "get",
                            ![q].next = Oldest(members[u])]
    /\ UNCHANGED <<conf, userVars, orgVars, locks, roleVars, grants, used>>

Reassign(q) ==
    /\ At(q, "delete", "have")
    /\ req' = [req EXCEPT ![q].row.org = req[q].next, ![q].pc = "save"]
    /\ UNCHANGED <<conf, userVars, orgVars, locks, roleVars, grants, used>>

DeleteOrgReturns(q) ==
    /\ At(q, "delete", "next") /\ req[q].todo = {}
    /\ cache' = [u \in Users |-> IF u \in req[q].affected THEN NoRow ELSE cache[u]]
    /\ Done(q)
    /\ UNCHANGED <<conf, account, admin, grant, row, orgVars, locks, roleVars, grants, used>>

\* handleSwitchOrg.
SwitchOrg(q) ==
    /\ \/ At(q, "switch", "begin")
          /\ IF IsMember(req[q].u, req[q].o) THEN Go(q, "get") ELSE Done(q)
       \/ At(q, "switch", "have")
          /\ IF req[q].row.org = req[q].o THEN Done(q)
             ELSE req' = [req EXCEPT ![q].row.org = req[q].o, ![q].pc = "save"]
    /\ UNCHANGED <<conf, userVars, orgVars, locks, roleVars, grants, used>>

\* handleLeaveOrg: the owner may not, others must be members.
CheckLeave(q) ==
    LET u == req[q].u  o == req[q].o IN
    /\ At(q, "leave", "begin")
    /\ IF org[o].state = "active" /\ org[o].owner # u /\ IsMember(u, o)
       THEN Go(q, "remove") ELSE Done(q)
    /\ UNCHANGED <<conf, userVars, orgVars, locks, roleVars, grants, used>>

RemoveMembership(q) ==
    /\ At(q, "leave", "remove")
    /\ members' = [members EXCEPT ![req[q].u] = Without(@, req[q].o)]
    /\ Go(q, "get")
    /\ UNCHANGED <<conf, userVars, org, invite, locks, roleVars, grants, used>>

\* The active organisation moves on; a failed read of what remains clears it.
LeaveActive(q) ==
    LET u == req[q].u
        MoveTo(o) == req' = [req EXCEPT ![q].row.org = o, ![q].pc = "save"] /\ UNCHANGED cache
    IN
    /\ At(q, "leave", "have")
    /\ \/ req[q].row.org = req[q].o /\ MoveTo(Oldest(members[u])) /\ UNCHANGED used
       \/ req[q].row.org = req[q].o /\ Fault /\ MoveTo(None)
       \/ /\ req[q].row.org # req[q].o /\ Done(q) /\ UNCHANGED used
          /\ cache' = [cache EXCEPT ![u] = NoRow]
    /\ UNCHANGED <<conf, account, admin, grant, row, orgVars, locks, roleVars, grants>>

\* A statement of these handlers fails; none of them undoes what it did, and a
\* deletion still evicts whom it found, skipping a user it cannot read. (A
\* rebuild and an acceptance fail in actions of their own.)
OrgCallFails(q) ==
    /\ req[q].op \in {"create", "delete", "switch", "leave", "update"} /\ req[q].pc # "begin"
    /\ Fault
    /\ IF At(q, "delete", "get")
       THEN Go(q, "next") /\ UNCHANGED cache
       ELSE /\ Done(q)
            /\ cache' = [u \in Users |-> IF u \in req[q].affected THEN NoRow ELSE cache[u]]
    /\ UNCHANGED <<conf, account, admin, grant, row, orgVars, locks, roleVars, grants>>

----------------------------------------------------------------------------
(* Invites *)

\* createInviteBody.
CreateInvite(q, i) ==
    /\ req[q].op = "idle" /\ used.calls < MaxCalls
    /\ invite[i].status = "none" /\ org[InviteOrg[i]].state = "active"
    /\ \E u \in Users :
         /\ account[u] = "active" /\ MayManage(u, InviteOrg[i])
         /\ invite' = [invite EXCEPT ![i].status = "pending", ![i].by = u]
    /\ used' = [used EXCEPT !.calls = @ + 1]
    /\ UNCHANGED <<conf, userVars, members, org, locks, roleVars, grants, req>>

\* acceptInviteAtomic: SELECT ... FOR UPDATE on the invite, which is judged anew.
LockInvite(q) ==
    LET i == req[q].i IN
    /\ At(q, "accept", "begin") /\ Free(i, q)
    /\ IF invite[i].active /\ invite[i].status = "pending"
       THEN locks' = [locks EXCEPT ![i] = q] /\ Go(q, "user")
       ELSE Done(q) /\ UNCHANGED locks
    /\ UNCHANGED <<conf, userVars, orgVars, roleVars, grants, used>>

SkipUserLock(q) == UNCHANGED locks
\* SELECT ... FOR UPDATE on the user.
TakeUserLock(q) == Free(req[q].u, q) /\ locks' = [locks EXCEPT ![req[q].u] = q]

LockUser(q) ==
    /\ At(q, "accept", "user")
    /\ \/ account[req[q].u] = "active" /\ TakeUserLock(q) /\ Go(q, "count")
       \/ account[req[q].u] # "active" /\ Release(q) /\ Done(q)
    /\ UNCHANGED <<conf, userVars, orgVars, roleVars, grants, used>>

\* The count of active memberships in the organisation; one is a conflict.
CountMemberships(q) ==
    /\ At(q, "accept", "count")
    /\ IF IsMember(req[q].u, req[q].o)
       THEN Release(q) /\ Done(q)
       ELSE Go(q, "read") /\ UNCHANGED locks
    /\ UNCHANGED <<conf, userVars, orgVars, roleVars, grants, used>>

\* The commit: the membership, the user row locked since it was read, the invite
\* and the personal role; then the cached user is evicted.
CommitAccept(q) ==
    LET u == req[q].u  o == req[q].o IN
    /\ At(q, "accept", "commit")
    /\ Join(u, o)
    /\ row' = [row EXCEPT ![u].org = IF @ = None THEN o ELSE @]
    /\ invite' = [invite EXCEPT ![req[q].i].status = "accepted"]
    /\ grant' = [grant EXCEPT ![u] = req[q].ids \cup {o}]
    /\ cache' = [cache EXCEPT ![u] = NoRow]
    /\ Release(q) /\ Done(q)
    /\ UNCHANGED <<conf, account, admin, org, roleVars, grants>>

AbortKeeps(q) == UNCHANGED locks
\* A statement of the transaction fails: everything rolls back, the locks end.
AbortReleases(q) == Release(q)
AcceptFails(q) ==
    /\ req[q].op = "accept" /\ req[q].pc # "begin"
    /\ Fault /\ AbortReleases(q) /\ Done(q)
    /\ UNCHANGED <<conf, userVars, orgVars, roleVars, grants>>

\* handleDeclineInvite saves the whole invite it read, once nobody locks the row;
\* handleDeleteInvite clears active.
AnswerInvite(q) ==
    LET i == req[q].i IN
    /\ req[q].op \in {"decline", "cancel"} /\ Free(i, q)
    /\ \/ req[q].op = "decline" /\ invite' = [invite EXCEPT ![i].status = "declined", ![i].active = TRUE]
       \/ req[q].op = "cancel" /\ invite' = [invite EXCEPT ![i].active = FALSE]
    /\ Done(q)
    /\ UNCHANGED <<conf, userVars, members, org, locks, roleVars, grants, used>>

----------------------------------------------------------------------------

RequestStep(q) ==
    \/ GetUser(q) \/ FillCache(q) \/ SaveUser(q) \/ UpdateUser(q)
    \/ SignupGate(q) \/ SignupLock(q) \/ SignupCount(q) \/ SignupCommit(q)
    \/ Login(q) \/ Build(q) \/ AddRole(q) \/ LoadRole(q) \/ SwapRole(q) \/ Stamp(q) \/ Retire(q)
    \/ RebuildFails(q)
    \/ AddOrg(q) \/ PutInOrg(q) \/ CheckMembership(q) \/ AddMembership(q)
    \/ ReadPersonalRole(q) \/ GrantOwner(q)
    \/ RemoveOrg(q) \/ FindAffected(q) \/ DeactivateMemberships(q) \/ NextAffected(q)
    \/ Reassign(q) \/ DeleteOrgReturns(q)
    \/ SwitchOrg(q) \/ CheckLeave(q) \/ RemoveMembership(q) \/ LeaveActive(q) \/ OrgCallFails(q)
    \/ LockInvite(q) \/ LockUser(q) \/ CountMemberships(q) \/ CommitAccept(q) \/ AcceptFails(q)
    \/ AnswerInvite(q)

Next ==
    \/ \E q \in Requests :
         \/ Start(q) \/ RequestStep(q)
         \/ \E u \in Users : DeleteUser(q, u)
         \/ \E i \in Invites : CreateInvite(q, i)
    \/ \E u \in Users : CacheExpires(u)
    \/ Refresh

Spec == Init /\ [][Next]_vars

----------------------------------------------------------------------------
(* Properties *)

\* As soon as an instance has accounts, exactly one of them is the bootstrap
\* admin, and none when the environment names the admin: whatever signups run
\* together, fail, or come after everybody was removed.
OneBootstrapAdmin ==
    (\E u \in Users : account[u] # "none") =>
        Cardinality({u \in Users : admin[u]}) = IF conf.seeded THEN 0 ELSE 1

\* Nobody but its owner holds two active memberships in one organisation, although
\* two invites to it may be accepted at once: "already in org" is judged under
\* the lock of the user row. (handleCreateOrg adds the owner's membership without
\* that lock, and an admin may have invited the owner meanwhile.)
OneMembership ==
    \A u \in Users : \A m, k \in members[u] :
        m.org = k.org /\ org[m.org].owner # u => m = k

\* The default role of a user always names permissions that are active, while
\* signups and logins rebuild it at the same time, fail half-way, or write back
\* a user row they read earlier.
DefaultRoleResolves ==
    \A u \in Users : row[u].role # 0 =>
        /\ role[row[u].role] # 0
        /\ perms[role[row[u].role]].state = "active"

\* A lock is held only by a transaction that is still under way, and whoever
\* holds a user row waits for nobody: of the transactions that wait for each
\* other's rows one can always go on.
WaitsEnd ==
    /\ \A x \in DOMAIN locks : locks[x] # None =>
         \/ req[locks[x]].op = "signup" /\ req[locks[x]].pc \in {"count", "insert"}
         \/ req[locks[x]].op = "accept" /\ req[locks[x]].pc \in {"user", "count", "read", "commit"}
    /\ \A u \in Users : locks[u] # None => req[locks[u]].pc # "user"

\* What the comment on deactivateOrgMembershipsForOrg says of a deletion.
DeletedOrgEmpty ==
    \A o \in Orgs : org[o].state = "deleted" /\ (\A q \in Requests : req[q].op = "idle")
        => \A u \in Users : ~IsMember(u, o)

\* What the stamp of rebuildDefaultRole tells later logins: the role was built
\* from the version of the grants that the user row names.
StampIsTrue ==
    \A u \in Users : row[u].role # 0 /\ (\A q \in Requests : req[q].op = "idle")
        => perms[role[row[u].role]].version = row[u].version
============================================================================
