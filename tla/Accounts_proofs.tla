--------------------------- MODULE Accounts_proofs ---------------------------
(***************************************************************************)
(* Theorems about gatekeeper's accounts, for any sets of users,            *)
(* organisations, invites and concurrent requests.                         *)
(***************************************************************************)
EXTENDS Accounts, FiniteSetTheorems, WellFoundedInduction, TLAPS

Pcs == {"idle", "begin", "get", "fill", "have", "save", "lock", "count", "insert", "add", "load",
        "swap", "stamp", "retire", "member", "read", "grant", "affected", "empty", "next",
        "remove", "user", "commit"}
RequestType ==
    [op : Ops, pc : Pcs, u : Users \cup {None}, o : Orgs \cup {None}, i : Invites \cup {None},
     next : Orgs \cup {None}, row : Rows \cup {NoRow}, build : 0 .. MaxBuilds,
     old : 0 .. MaxBuilds, first : BOOLEAN, avail : BOOLEAN,
     todo : SUBSET Users, affected : SUBSET Users, ids : SUBSET Orgs]
UsedType == [calls : Nat, joins : Nat, builds : 0 .. MaxBuilds, refreshes : Nat, faults : Nat]

Rebuilding(r) == r.op \in {"signup", "login"}

(* A request names what its handler works on, and has read the user row when *)
(* it uses it.                                                               *)
WellFormed(r) ==
    /\ r.op = "idle" => r.pc = "idle"
    /\ r.op # "idle" => r.u \in Users
    /\ r.op \in {"create", "delete", "switch", "leave", "accept"} => r.o \in Orgs
    /\ r.op \in {"accept", "decline", "cancel"} => r.i \in Invites
    /\ r.pc \in {"fill", "have", "add", "load", "swap", "stamp", "save"} => r.row \in Rows
    /\ Rebuilding(r) /\ r.pc \in {"load", "swap"} => r.row.role # 0

RequestsOK ==
    /\ req \in [Requests -> RequestType] /\ used \in UsedType
    /\ \A q \in Requests : WellFormed(req[q])

TypeInv == TypeOK /\ RequestsOK

---------------------------------------------------------------------------
(* Locks *)

Holds(r) ==
    \/ r.op = "signup" /\ r.pc \in {"count", "insert"}
    \/ r.op = "accept" /\ r.pc \in {"user", "count", "read", "commit"}

(* An acceptance has locked its user before it judges the membership ...     *)
UserLocked ==
    \A q \in Requests : req[q].op = "accept" /\ req[q].pc \in {"count", "read", "commit"} =>
        locks[req[q].u] = q

(* ... and a signup the instance before it counts the accounts.              *)
SignupLocked ==
    \A q \in Requests : req[q].op = "signup" /\ req[q].pc \in {"count", "insert"} /\ ~conf.seeded =>
        locks[Signup] = q

LockInv == WaitsEnd /\ UserLocked /\ SignupLocked

---------------------------------------------------------------------------
(* The bootstrap admin *)

Entering(r) == r.op = "signup" /\ r.pc \in {"begin", "lock", "count", "insert"}

(* No two signups are for one address, ... *)
OneSignup ==
    \A p, q \in Requests : req[p].op = "signup" /\ req[q].op = "signup" /\ req[p].u = req[q].u =>
        p = q

(* ... the account exists from the commit on, ... *)
EnteringIsNew ==
    \A q \in Requests : req[q].op = "signup" => (Entering(req[q]) <=> account[req[q].u] = "none")

(* ... only an instance without an admin of its own counts its accounts, ... *)
SeededSkips ==
    \A q \in Requests : conf.seeded /\ req[q].op = "signup" =>
        req[q].pc \notin {"lock", "count"} /\ ~req[q].first

(* ... and what a signup counted still holds when it commits. *)
CountStands ==
    \A q \in Requests : ~conf.seeded /\ req[q].op = "signup" /\ req[q].pc = "insert" =>
        (req[q].first <=> \A u \in Users : account[u] = "none")

AdminHasAccount == \A u \in Users : admin[u] => account[u] # "none"

TheAdmin ==
    /\ conf.seeded => \A u \in Users : ~admin[u]
    /\ ~conf.seeded /\ (\E u \in Users : account[u] # "none") =>
          \E boss \in Users : \A u \in Users : admin[u] <=> u = boss

AdminInv ==
    /\ OneSignup /\ EnteringIsNew /\ SeededSkips /\ CountStands /\ AdminHasAccount /\ TheAdmin

---------------------------------------------------------------------------
(* Memberships *)

(* An organisation is created once, by the request that then adds its owner. *)
UnbornHasNoOwner == \A o \in Orgs : org[o].state = "none" => org[o].owner = None
CreateIsFirst ==
    \A q \in Requests : req[q].op = "create" /\ req[q].pc = "begin" => org[req[q].o].state = "none"
OneCreate ==
    \A p, q \in Requests : req[p].op = "create" /\ req[q].op = "create" /\ req[p].o = req[q].o =>
        p = q
CreatorOwns ==
    \A q \in Requests : req[q].op = "create" /\ req[q].pc # "begin" =>
        org[req[q].o].owner = req[q].u

(* What an acceptance found under the lock still holds when it commits. *)
AcceptStands ==
    \A q \in Requests : req[q].op = "accept" /\ req[q].pc \in {"read", "commit"} =>
        (IsMember(req[q].u, req[q].o) => org[req[q].o].owner = req[q].u)

JoinedBefore == \A u \in Users : \A m \in members[u] : m.at <= used.joins

MemberInv ==
    /\ UnbornHasNoOwner /\ CreateIsFirst /\ OneCreate /\ CreatorOwns /\ AcceptStands
    /\ JoinedBefore /\ OneMembership

---------------------------------------------------------------------------
(* Default roles *)

(* The permissions of a build that no role names yet. *)
Pending(r) == Rebuilding(r) /\ r.pc \in {"add", "load", "swap"}

(* Whoever holds a user row, the role in it exists. *)
RoleExists(x) == x.role # 0 => role[x.role] # 0
RolesExist ==
    /\ \A u \in Users : RoleExists(row[u]) /\ RoleExists(cache[u])
    /\ \A q \in Requests : RoleExists(req[q].row)

(* A role names active permissions, and no two name the same. *)
NamedIsActive == \A r \in Builds : role[r] # 0 => perms[role[r]].state = "active"
NamedOnce == \A r, s \in Builds : role[r] # 0 /\ role[r] = role[s] => r = s

(* A build belongs to one request until a role names it. *)
PendingIsFresh ==
    \A q \in Requests : Pending(req[q]) =>
        /\ req[q].build \in Builds /\ perms[req[q].build].state = "active"
        /\ \A r \in Builds : role[r] # req[q].build
        /\ \A p \in Requests : Pending(req[p]) /\ req[p].build = req[q].build => p = q
BuildsUsed ==
    /\ \A r \in Builds : role[r] <= used.builds
    /\ \A q \in Requests : req[q].build <= used.builds /\ req[q].old <= used.builds

(* The permissions to retire are those of the request's own role, and of none *)
(* once the role was swapped.                                                 *)
OldIsOwn ==
    \A q \in Requests : Rebuilding(req[q]) /\ req[q].old # 0 =>
        /\ \A p \in Requests : Pending(req[p]) => req[p].build # req[q].old
        /\ \A r \in Builds : role[r] = req[q].old => req[q].pc = "swap" /\ r = req[q].row.role

RoleInv ==
    /\ RolesExist /\ NamedIsActive /\ NamedOnce /\ PendingIsFresh /\ BuildsUsed /\ OldIsOwn

---------------------------------------------------------------------------
(* How a step changes the state of its request *)

Kept(q) ==
    /\ req'[q].op = req[q].op /\ req'[q].u = req[q].u /\ req'[q].o = req[q].o
    /\ req'[q].i = req[q].i /\ req'[q].first = req[q].first
    /\ req'[q].build = req[q].build /\ req'[q].old = req[q].old
Others(q) ==
    /\ req' \in [Requests -> RequestType]
    /\ \A p \in Requests : p # q => req'[p] = req[p]
Held(q, x, c) == Others(q) /\ Kept(q) /\ req'[q].row = x /\ req'[q].pc = c
Moved(q, c) == Held(q, req[q].row, c)
Ended(q) == Others(q) /\ req'[q] = Idle

PutPc(r, c) == [r EXCEPT !.pc = c]
PutRow(r, x) == [r EXCEPT !.row = x]
PutBuild(r, g) == [r EXCEPT !.build = g]
PutOld(r, g) == [r EXCEPT !.old = g]
PutFirst(r, b) == [r EXCEPT !.first = b]
PutAvail(r, b) == [r EXCEPT !.avail = b]
PutUser(r, u) == [r EXCEPT !.u = u]
PutIds(r, ids) == [r EXCEPT !.ids = ids]
PutTodo(r, us) == [r EXCEPT !.todo = us]
PutAffected(r, us) == [r EXCEPT !.affected = us]
PutNext(r, o) == [r EXCEPT !.next = o]

SameBase(r, s) == s.op = r.op /\ s.o = r.o /\ s.i = r.i

LEMMA IdleFacts ==
  /\ Idle \in RequestType /\ WellFormed(Idle)
  /\ Idle.op = "idle" /\ Idle.pc = "idle" /\ Idle.row = NoRow /\ NoRow.role = 0
  /\ Idle.build = 0 /\ Idle.old = 0 /\ Idle.first = FALSE
<1>1. MaxBuilds \in Nat
  BY AccountConstants
<1>2. NoRow.role = 0
  BY DEF NoRow, NewRow
<1>3. 0 \in 0 .. MaxBuilds
  BY <1>1
<1> HIDE DEF NoRow
<1>4. Idle \in RequestType
  BY <1>3 DEF Idle, RequestType, Pcs, Ops
<1>5. /\ Idle.op = "idle" /\ Idle.pc = "idle" /\ Idle.row = NoRow
      /\ Idle.build = 0 /\ Idle.old = 0 /\ Idle.first = FALSE
  BY DEF Idle
<1> QED
  BY <1>2, <1>4, <1>5 DEF WellFormed, Rebuilding

LEMMA PutPcFacts ==
  ASSUME NEW r \in RequestType, NEW c \in Pcs
  PROVE  LET s == PutPc(r, c) IN
         /\ s \in RequestType /\ s.pc = c /\ SameBase(r, s) /\ s.u = r.u /\ s.row = r.row
         /\ s.build = r.build /\ s.old = r.old /\ s.first = r.first
  BY DEF PutPc, RequestType, SameBase

LEMMA PutRowFacts ==
  ASSUME NEW r \in RequestType, NEW x \in Rows \cup {NoRow}
  PROVE  LET s == PutRow(r, x) IN
         /\ s \in RequestType /\ s.pc = r.pc /\ SameBase(r, s) /\ s.u = r.u /\ s.row = x
         /\ s.build = r.build /\ s.old = r.old /\ s.first = r.first
  BY DEF PutRow, RequestType, SameBase

LEMMA PutBuildFacts ==
  ASSUME NEW r \in RequestType, NEW g \in 0 .. MaxBuilds
  PROVE  LET s == PutBuild(r, g) IN
         /\ s \in RequestType /\ s.pc = r.pc /\ SameBase(r, s) /\ s.u = r.u /\ s.row = r.row
         /\ s.build = g /\ s.old = r.old /\ s.first = r.first
  BY DEF PutBuild, RequestType, SameBase

LEMMA PutOldFacts ==
  ASSUME NEW r \in RequestType, NEW g \in 0 .. MaxBuilds
  PROVE  LET s == PutOld(r, g) IN
         /\ s \in RequestType /\ s.pc = r.pc /\ SameBase(r, s) /\ s.u = r.u /\ s.row = r.row
         /\ s.build = r.build /\ s.old = g /\ s.first = r.first
  BY DEF PutOld, RequestType, SameBase

LEMMA PutFirstFacts ==
  ASSUME NEW r \in RequestType, NEW b \in BOOLEAN
  PROVE  LET s == PutFirst(r, b) IN
         /\ s \in RequestType /\ s.pc = r.pc /\ SameBase(r, s) /\ s.u = r.u /\ s.row = r.row
         /\ s.build = r.build /\ s.old = r.old /\ s.first = b
  BY DEF PutFirst, RequestType, SameBase

LEMMA PutUserFacts ==
  ASSUME NEW r \in RequestType, NEW u \in Users
  PROVE  LET s == PutUser(r, u) IN
         /\ s \in RequestType /\ s.pc = r.pc /\ SameBase(r, s) /\ s.u = u /\ s.row = r.row
         /\ s.build = r.build /\ s.old = r.old /\ s.first = r.first
  BY DEF PutUser, RequestType, SameBase

(* The fields that no invariant reads. *)
Alike(r, s) ==
    /\ s \in RequestType /\ s.pc = r.pc /\ SameBase(r, s) /\ s.u = r.u /\ s.row = r.row
    /\ s.build = r.build /\ s.old = r.old /\ s.first = r.first

LEMMA PutOtherFacts ==
  ASSUME NEW r \in RequestType
  PROVE  /\ \A b \in BOOLEAN : Alike(r, PutAvail(r, b))
         /\ \A ids \in SUBSET Orgs : Alike(r, PutIds(r, ids))
         /\ \A us \in SUBSET Users : Alike(r, PutTodo(r, us)) /\ Alike(r, PutAffected(r, us))
         /\ \A o \in Orgs \cup {None} : Alike(r, PutNext(r, o))
<1>1. ASSUME NEW b \in BOOLEAN PROVE Alike(r, PutAvail(r, b))
  BY DEF PutAvail, RequestType, SameBase, Alike
<1>2. ASSUME NEW ids \in SUBSET Orgs PROVE Alike(r, PutIds(r, ids))
  BY DEF PutIds, RequestType, SameBase, Alike
<1>3. ASSUME NEW us \in SUBSET Users PROVE Alike(r, PutTodo(r, us))
  BY DEF PutTodo, RequestType, SameBase, Alike
<1>4. ASSUME NEW us \in SUBSET Users PROVE Alike(r, PutAffected(r, us))
  BY DEF PutAffected, RequestType, SameBase, Alike
<1>5. ASSUME NEW o \in Orgs \cup {None} PROVE Alike(r, PutNext(r, o))
  BY DEF PutNext, RequestType, SameBase, Alike
<1> QED
  BY <1>1, <1>2, <1>3, <1>4, <1>5

LEMMA Going ==
  ASSUME req \in [Requests -> RequestType], NEW q \in Requests, NEW c \in Pcs, Go(q, c)
  PROVE  Moved(q, c)
<1>1. req' = [req EXCEPT ![q] = PutPc(req[q], c)]
  BY DEF Go, PutPc
<1> QED
  BY <1>1, PutPcFacts DEF Moved, Held, Others, Kept, SameBase

LEMMA Ending ==
  ASSUME req \in [Requests -> RequestType], NEW q \in Requests, Done(q)
  PROVE  Ended(q)
  BY IdleFacts DEF Done, Ended, Others

LEMMA Holding ==
  ASSUME req \in [Requests -> RequestType], NEW q \in Requests, NEW c \in Pcs,
         NEW x \in Rows \cup {NoRow}, req' = [req EXCEPT ![q].row = x, ![q].pc = c]
  PROVE  Held(q, x, c)
<1> DEFINE r == PutRow(req[q], x)
           s == PutPc(r, c)
<1>1. req' = [req EXCEPT ![q] = s]
  BY DEF PutPc, PutRow
<1>2. /\ r \in RequestType /\ SameBase(req[q], r) /\ r.u = req[q].u /\ r.row = x
      /\ r.build = req[q].build /\ r.old = req[q].old /\ r.first = req[q].first
  BY PutRowFacts
<1> HIDE DEF r
<1>3. /\ s \in RequestType /\ s.pc = c /\ SameBase(r, s) /\ s.u = r.u /\ s.row = r.row
      /\ s.build = r.build /\ s.old = r.old /\ s.first = r.first
  BY <1>2, PutPcFacts
<1> HIDE DEF s
<1> QED
  BY <1>1, <1>2, <1>3 DEF Held, Others, Kept, SameBase

(* The changes to a user row that a request works on. *)
RoleIn(x, g) == [x EXCEPT !.role = g]
OrgIn(x, o) == [x EXCEPT !.org = o]
VersionIn(x, v) == [x EXCEPT !.version = v]

LEMMA RowFacts ==
  ASSUME NEW x \in Rows
  PROVE  /\ x.role \in 0 .. MaxBuilds
         /\ \A g \in 0 .. MaxBuilds : RoleIn(x, g) \in Rows /\ RoleIn(x, g).role = g
         /\ \A o \in Orgs \cup {None} : OrgIn(x, o) \in Rows /\ OrgIn(x, o).role = x.role
         /\ \A v \in Versions : VersionIn(x, v) \in Rows /\ VersionIn(x, v).role = x.role
  BY DEF Rows, RoleIn, OrgIn, VersionIn

LEMMA HoldingOrg ==
  ASSUME req \in [Requests -> RequestType], NEW q \in Requests, req[q].row \in Rows, NEW c \in Pcs,
         NEW o \in Orgs \cup {None}, req' = [req EXCEPT ![q].row.org = o, ![q].pc = c]
  PROVE  Held(q, OrgIn(req[q].row, o), c)
<1>1. req' = [req EXCEPT ![q].row = OrgIn(req[q].row, o), ![q].pc = c]
  BY DEF OrgIn
<1>2. OrgIn(req[q].row, o) \in Rows \cup {NoRow}
  BY RowFacts
<1> QED
  BY <1>1, <1>2, Holding

LEMMA TypeFacts ==
  ASSUME TypeInv, NEW q \in Requests
  PROVE  /\ req \in [Requests -> RequestType] /\ req[q] \in RequestType /\ WellFormed(req[q])
         /\ req[q].op \in Ops /\ req[q].pc \in Pcs /\ req[q].row \in Rows \cup {NoRow}
         /\ req[q].build \in 0 .. MaxBuilds /\ req[q].old \in 0 .. MaxBuilds
         /\ req[q].next \in Orgs \cup {None} /\ req[q].todo \in SUBSET Users
         /\ req[q].affected \in SUBSET Users /\ req[q].ids \in SUBSET Orgs
         /\ req[q].first \in BOOLEAN /\ req[q].avail \in BOOLEAN
<1>1. req \in [Requests -> RequestType] /\ req[q] \in RequestType /\ WellFormed(req[q])
  BY DEF TypeInv, RequestsOK
<1> QED
  BY <1>1 DEF RequestType

---------------------------------------------------------------------------
(* What each step does to its request *)

LEMMA GetUserEffect ==
  ASSUME TypeInv, NEW q \in Requests, GetUser(q), req[q].op # "idle"
  PROVE  \/ Ended(q)
         \/ Moved(q, "next") /\ req[q].op = "delete"
         \/ Held(q, cache[req[q].u], "have") /\ cache[req[q].u] \in Rows
         \/ Held(q, row[req[q].u], "fill") /\ row[req[q].u] \in Rows
<1>0. req \in [Requests -> RequestType] /\ req[q].u \in Users
  BY TypeFacts DEF WellFormed
<1>1. row[req[q].u] \in Rows /\ cache[req[q].u] \in Rows \cup {NoRow}
  BY <1>0 DEF TypeInv, TypeOK
<1>2. {"have", "fill", "next"} \subseteq Pcs
  BY DEF Pcs
<1>3. CASE cache[req[q].u] # NoRow
           /\ req' = [req EXCEPT ![q].row = cache[req[q].u], ![q].pc = "have"]
  BY <1>0, <1>1, <1>2, <1>3, Holding
<1>4. CASE req' = [req EXCEPT ![q].row = row[req[q].u], ![q].pc = "fill"]
  BY <1>0, <1>1, <1>2, <1>4, Holding
<1>5. CASE IF req[q].op = "delete" THEN Go(q, "next") ELSE Done(q)
  BY <1>0, <1>2, <1>5, Going, Ending
<1> QED
  BY <1>3, <1>4, <1>5 DEF GetUser

LEMMA SignupGateEffect ==
  ASSUME TypeInv, NEW q \in Requests, SignupGate(q)
  PROVE  \/ Ended(q)
         \/ Moved(q, IF conf.seeded THEN "insert" ELSE "lock")
<1>0. req \in [Requests -> RequestType]
  BY TypeFacts
<1>1. CASE Done(q)
  BY <1>0, <1>1, Ending
<1>2. CASE req' = [req EXCEPT ![q].avail = grants # 0,
                              ![q].pc = IF conf.seeded THEN "insert" ELSE "lock"]
  <2> DEFINE r == PutAvail(req[q], grants # 0)
             c == IF conf.seeded THEN "insert" ELSE "lock"
             s == PutPc(r, c)
  <2>1. req' = [req EXCEPT ![q] = s]
    BY <1>2 DEF PutAvail, PutPc
  <2>2. c \in Pcs
    BY DEF Pcs
  <2>3. Alike(req[q], r)
    BY <1>0, PutOtherFacts
  <2> HIDE DEF r, c
  <2>4. /\ s \in RequestType /\ s.pc = c /\ SameBase(r, s) /\ s.u = r.u /\ s.row = r.row
        /\ s.build = r.build /\ s.old = r.old /\ s.first = r.first
    BY <2>2, <2>3, PutPcFacts DEF Alike
  <2> HIDE DEF s
  <2>5. Moved(q, c)
    BY <1>0, <2>1, <2>3, <2>4 DEF Alike, Moved, Held, Others, Kept, SameBase
  <2> QED
    BY <2>5 DEF c
<1> QED
  BY <1>1, <1>2 DEF SignupGate

LEMMA SignupCountEffect ==
  ASSUME TypeInv, NEW q \in Requests, SignupCount(q)
  PROVE  /\ Others(q) /\ req'[q].op = "signup" /\ req'[q].pc = "insert" /\ req'[q].u = req[q].u
         /\ req'[q].first = (InstanceUserCount = 0) /\ req'[q].row = req[q].row
         /\ req'[q].build = req[q].build /\ req'[q].old = req[q].old
<1>0. req \in [Requests -> RequestType] /\ req[q].op = "signup"
  BY TypeFacts DEF SignupCount, At
<1> DEFINE b == InstanceUserCount = 0
           r == PutFirst(req[q], b)
           s == PutPc(r, "insert")
<1>1. req' = [req EXCEPT ![q] = s]
  BY DEF SignupCount, PutFirst, PutPc
<1>2. b \in BOOLEAN
  OBVIOUS
<1> HIDE DEF b
<1>3. /\ r \in RequestType /\ SameBase(req[q], r) /\ r.u = req[q].u /\ r.row = req[q].row
      /\ r.build = req[q].build /\ r.old = req[q].old /\ r.first = b
  BY <1>0, <1>2, PutFirstFacts
<1> HIDE DEF r
<1>4. /\ s \in RequestType /\ s.pc = "insert" /\ SameBase(r, s) /\ s.u = r.u /\ s.row = r.row
      /\ s.build = r.build /\ s.old = r.old /\ s.first = r.first
  BY <1>3, PutPcFacts DEF Pcs
<1> HIDE DEF s
<1>5. /\ Others(q) /\ req'[q] = s
  BY <1>0, <1>1, <1>4 DEF Others
<1> QED
  BY <1>0, <1>3, <1>4, <1>5 DEF SameBase, b

LEMMA BuildEffect ==
  ASSUME TypeInv, NEW q \in Requests, Build(q)
  PROVE  \/ Ended(q) /\ UNCHANGED <<perms, used>>
         \/ LET g == used.builds + 1 IN
            /\ g \in Builds
            /\ perms' = [perms EXCEPT ![g] = [state |-> "active", version |-> grants]]
            /\ used' = [used EXCEPT !.builds = g]
            /\ Others(q) /\ req'[q].op = req[q].op /\ req'[q].u = req[q].u
            /\ req'[q].first = req[q].first /\ req'[q].row = req[q].row
            /\ req'[q].build = g /\ req'[q].old = req[q].old
            /\ req'[q].pc = IF req[q].row.role = 0 THEN "add" ELSE "load"
<1>0. req \in [Requests -> RequestType]
  BY TypeFacts
<1>1. CASE grants = 0 /\ Done(q) /\ UNCHANGED <<perms, used>>
  BY <1>0, <1>1, Ending
<1>2. CASE grants # 0
  <2> DEFINE g == used.builds + 1
             c == IF req[q].row.role = 0 THEN "add" ELSE "load"
             r == PutBuild(req[q], g)
             s == PutPc(r, c)
  <2>1. /\ req' = [req EXCEPT ![q] = s]
        /\ perms' = [perms EXCEPT ![g] = [state |-> "active", version |-> grants]]
        /\ used' = [used EXCEPT !.builds = g]
        /\ used.builds < MaxBuilds
    BY <1>2 DEF Build, PutBuild, PutPc
  <2>2. g \in Builds /\ g \in 0 .. MaxBuilds
    BY <2>1, AccountConstants DEF TypeInv, RequestsOK, UsedType, Builds
  <2>3. c \in Pcs
    BY DEF Pcs
  <2> HIDE DEF c, g
  <2>4. /\ r \in RequestType /\ SameBase(req[q], r) /\ r.u = req[q].u /\ r.row = req[q].row
        /\ r.build = g /\ r.old = req[q].old /\ r.first = req[q].first
    BY <1>0, <2>2, PutBuildFacts
  <2> HIDE DEF r
  <2>5. /\ s \in RequestType /\ s.pc = c /\ SameBase(r, s) /\ s.u = r.u /\ s.row = r.row
        /\ s.build = r.build /\ s.old = r.old /\ s.first = r.first
    BY <2>3, <2>4, PutPcFacts
  <2> HIDE DEF s
  <2>6. Others(q) /\ req'[q] = s
    BY <1>0, <2>1, <2>5 DEF Others
  <2>7. /\ req'[q].op = req[q].op /\ req'[q].u = req[q].u
        /\ req'[q].first = req[q].first /\ req'[q].row = req[q].row
        /\ req'[q].build = g /\ req'[q].old = req[q].old /\ req'[q].pc = c
    BY <2>4, <2>5, <2>6 DEF SameBase
  <2> QED
    BY <2>1, <2>2, <2>6, <2>7 DEF c, g
<1> QED
  BY <1>1, <1>2 DEF Build

LEMMA AddRoleEffect ==
  ASSUME TypeInv, NEW q \in Requests, AddRole(q)
  PROVE  Held(q, RoleIn(req[q].row, req[q].build), "stamp")
<1>0. /\ req \in [Requests -> RequestType] /\ req[q].row \in Rows
      /\ req[q].build \in 0 .. MaxBuilds
  BY TypeFacts DEF WellFormed, AddRole
<1>1. req' = [req EXCEPT ![q].row = RoleIn(req[q].row, req[q].build), ![q].pc = "stamp"]
  BY DEF AddRole, RoleIn
<1>2. RoleIn(req[q].row, req[q].build) \in Rows \cup {NoRow}
  BY <1>0, RowFacts
<1> QED
  BY <1>0, <1>1, <1>2, Holding DEF Pcs

LEMMA StampEffect ==
  ASSUME TypeInv, NEW q \in Requests, Stamp(q)
  PROVE  Held(q, VersionIn(req[q].row, grants), "save") /\ grants \in Versions
<1>0. req \in [Requests -> RequestType] /\ req[q].row \in Rows /\ grants \in Versions
  BY TypeFacts DEF WellFormed, Stamp, TypeInv, TypeOK
<1>1. req' = [req EXCEPT ![q].row = VersionIn(req[q].row, grants), ![q].pc = "save"]
  BY DEF Stamp, VersionIn
<1>2. VersionIn(req[q].row, grants) \in Rows \cup {NoRow}
  BY <1>0, RowFacts
<1> QED
  BY <1>0, <1>1, <1>2, Holding DEF Pcs

LEMMA LoadRoleEffect ==
  ASSUME TypeInv, NEW q \in Requests, LoadRole(q), req[q].row.role # 0
  PROVE  /\ Others(q) /\ req'[q].op = req[q].op /\ req'[q].u = req[q].u
         /\ req'[q].first = req[q].first /\ req'[q].row = req[q].row
         /\ req'[q].build = req[q].build /\ req'[q].pc = "swap"
         /\ req'[q].old \in {0, role[req[q].row.role]}
<1>0. req \in [Requests -> RequestType] /\ req[q].row \in Rows
  BY TypeFacts DEF WellFormed, LoadRole
<1>1. PICK old \in {role[req[q].row.role], 0} :
        req' = [req EXCEPT ![q].old = old, ![q].pc = "swap"]
  BY DEF LoadRole
<1>2. req[q].row.role \in Builds
  BY <1>0, RowFacts, AccountConstants DEF Builds
<1>3. old \in 0 .. MaxBuilds
  BY <1>2, AccountConstants DEF TypeInv, TypeOK
<1> DEFINE r == PutOld(req[q], old)
           s == PutPc(r, "swap")
<1>4. req' = [req EXCEPT ![q] = s]
  BY <1>1 DEF PutOld, PutPc
<1>5. /\ r \in RequestType /\ SameBase(req[q], r) /\ r.u = req[q].u /\ r.row = req[q].row
      /\ r.build = req[q].build /\ r.old = old /\ r.first = req[q].first
  BY <1>0, <1>3, PutOldFacts
<1> HIDE DEF r
<1>6. /\ s \in RequestType /\ s.pc = "swap" /\ SameBase(r, s) /\ s.u = r.u /\ s.row = r.row
      /\ s.build = r.build /\ s.old = r.old /\ s.first = r.first
  BY <1>5, PutPcFacts DEF Pcs
<1> HIDE DEF s
<1>7. Others(q) /\ req'[q] = s
  BY <1>0, <1>4, <1>6 DEF Others
<1> QED
  BY <1>1, <1>5, <1>6, <1>7 DEF SameBase

LEMMA OldestType ==
  ASSUME TypeInv, NEW u \in Users
  PROVE  Oldest(members[u]) \in Orgs \cup {None}
<1> DEFINE M == [org : Orgs, at : Nat]
           ms == members[u]
           ages == {m.at : m \in ms}
<1>1. ms \in SUBSET M
  BY DEF TypeInv, TypeOK
<1>2. CASE ms = {}
  BY <1>2 DEF Oldest
<1>3. CASE ms # {}
  <2>1. ages \subseteq Nat /\ ages # {}
    BY <1>1, <1>3
  <2>2. PICK x \in ages : \A y \in ages : ~(<<y, x>> \in OpToRel(<, Nat))
    BY <2>1, NatLessThanWellFounded, WFMin, Zenon
  <2>3. ASSUME NEW y \in ages PROVE x <= y
    <3>1. x \in Nat /\ y \in Nat
      BY <2>1
    <3>2. y < x => <<y, x>> \in OpToRel(<, Nat)
      BY <3>1 DEF OpToRel
    <3>3. ~(y < x)
      BY <3>2, <2>2, Zenon
    <3> QED
      BY <3>1, <3>3
  <2>4. \E m \in ms : \A k \in ms : m.at <= k.at
    BY <2>2, <2>3
  <2>5. (CHOOSE m \in ms : \A k \in ms : m.at <= k.at) \in ms
    BY <2>4, Zenon
  <2>6. (CHOOSE m \in ms : \A k \in ms : m.at <= k.at).org \in Orgs
    BY <1>1, <2>5
  <2> QED
    BY <1>3, <2>6 DEF Oldest
<1> QED
  BY <1>2, <1>3

LEMMA NextAffectedEffect ==
  ASSUME TypeInv, NEW q \in Requests, NextAffected(q)
  PROVE  /\ Others(q) /\ req[q].op = "delete" /\ req'[q].op = "delete" /\ req'[q].pc = "get"
         /\ req'[q].u \in Users /\ req'[q].o = req[q].o /\ req'[q].row = req[q].row
         /\ req'[q].build = req[q].build /\ req'[q].old = req[q].old
<1>0. req \in [Requests -> RequestType] /\ req[q].op = "delete" /\ req[q].todo \in SUBSET Users
  BY TypeFacts DEF NextAffected, At
<1>1. PICK u \in req[q].todo :
        req' = [req EXCEPT ![q].todo = @ \ {u}, ![q].u = u, ![q].pc = "get",
                           ![q].next = Oldest(members[u])]
  BY DEF NextAffected
<1>2. u \in Users /\ Oldest(members[u]) \in Orgs \cup {None} /\ req[q].todo \ {u} \in SUBSET Users
  BY <1>0, <1>1, OldestType
<1> DEFINE a == PutTodo(req[q], req[q].todo \ {u})
           b == PutUser(a, u)
           c == PutPc(b, "get")
           d == PutNext(c, Oldest(members[u]))
<1>3. req' = [req EXCEPT ![q] = d]
  BY <1>1 DEF PutTodo, PutUser, PutPc, PutNext
<1>4. Alike(req[q], a)
  BY <1>0, <1>2, PutOtherFacts
<1> HIDE DEF a
<1>5. /\ b \in RequestType /\ SameBase(a, b) /\ b.u = u /\ b.row = a.row
      /\ b.build = a.build /\ b.old = a.old
  BY <1>2, <1>4, PutUserFacts DEF Alike
<1> HIDE DEF b
<1>6. /\ c \in RequestType /\ c.pc = "get" /\ SameBase(b, c) /\ c.u = b.u /\ c.row = b.row
      /\ c.build = b.build /\ c.old = b.old
  BY <1>5, PutPcFacts DEF Pcs
<1> HIDE DEF c
<1>7. Alike(c, d)
  BY <1>2, <1>6, PutOtherFacts
<1> HIDE DEF d
<1>8. Others(q) /\ req'[q] = d
  BY <1>0, <1>3, <1>7 DEF Others, Alike
<1> QED
  BY <1>0, <1>2, <1>4, <1>5, <1>6, <1>7, <1>8 DEF Alike, SameBase

LEMMA FindAffectedEffect ==
  ASSUME TypeInv, NEW q \in Requests, FindAffected(q)
  PROVE  Moved(q, "empty")
<1>0. req \in [Requests -> RequestType]
  BY TypeFacts
<1> DEFINE here == {u \in Users : row[u].org = req[q].o}
           a == PutTodo(req[q], here)
           b == PutAffected(a, here)
           c == PutPc(b, "empty")
<1>1. req' = [req EXCEPT ![q] = c]
  BY DEF FindAffected, PutTodo, PutAffected, PutPc
<1>2. here \in SUBSET Users
  OBVIOUS
<1> HIDE DEF here
<1>3. Alike(req[q], a)
  BY <1>0, <1>2, PutOtherFacts
<1> HIDE DEF a
<1>4. Alike(a, b)
  BY <1>2, <1>3, PutOtherFacts DEF Alike
<1> HIDE DEF b
<1>5. /\ c \in RequestType /\ c.pc = "empty" /\ SameBase(b, c) /\ c.u = b.u /\ c.row = b.row
      /\ c.build = b.build /\ c.old = b.old /\ c.first = b.first
  BY <1>4, PutPcFacts DEF Alike, Pcs
<1> HIDE DEF c
<1> QED
  BY <1>0, <1>1, <1>3, <1>4, <1>5 DEF Alike, Moved, Held, Others, Kept, SameBase

LEMMA ReadPersonalRoleEffect ==
  ASSUME TypeInv, NEW q \in Requests, ReadPersonalRole(q), req[q].op # "idle"
  PROVE  \/ Ended(q) /\ req[q].op = "create"
         \/ Moved(q, IF req[q].op = "create" THEN "grant" ELSE "commit")
<1>0. req \in [Requests -> RequestType] /\ req[q].u \in Users
  BY TypeFacts DEF WellFormed
<1>1. CASE req[q].op = "create" /\ grants = 0
  BY <1>0, <1>1, Ending DEF ReadPersonalRole
<1>2. CASE ~(req[q].op = "create" /\ grants = 0)
  <2> DEFINE ids == grant[req[q].u]
             c == IF req[q].op = "create" THEN "grant" ELSE "commit"
             a == PutIds(req[q], ids)
             b == PutPc(a, c)
  <2>1. req' = [req EXCEPT ![q] = b]
    BY <1>2 DEF ReadPersonalRole, PutIds, PutPc
  <2>2. ids \in SUBSET Orgs /\ c \in Pcs
    BY <1>0 DEF TypeInv, TypeOK, Pcs
  <2> HIDE DEF ids, c
  <2>3. Alike(req[q], a)
    BY <1>0, <2>2, PutOtherFacts
  <2> HIDE DEF a
  <2>4. /\ b \in RequestType /\ b.pc = c /\ SameBase(a, b) /\ b.u = a.u /\ b.row = a.row
        /\ b.build = a.build /\ b.old = a.old /\ b.first = a.first
    BY <2>2, <2>3, PutPcFacts DEF Alike
  <2> HIDE DEF b
  <2>5. Moved(q, c)
    BY <1>0, <2>1, <2>3, <2>4 DEF Alike, Moved, Held, Others, Kept, SameBase
  <2> QED
    BY <2>5 DEF c
<1> QED
  BY <1>1, <1>2

(* A step to a request that starts. *)
Begun(q, op, u, o, i) ==
    /\ Others(q) /\ req[q].op = "idle"
    /\ req'[q].op = op /\ req'[q].pc = "begin" /\ req'[q].u = u /\ req'[q].o = o /\ req'[q].i = i
    /\ req'[q].row = NoRow /\ req'[q].build = 0 /\ req'[q].old = 0 /\ req'[q].first = FALSE
    /\ used' = [used EXCEPT !.calls = @ + 1]

LEMMA BeginEffect ==
  ASSUME TypeInv, NEW q \in Requests, NEW op \in Ops, NEW u \in Users, NEW o \in Orgs \cup {None},
         NEW i \in Invites \cup {None}, Begin(q, op, u, o, i)
  PROVE  Begun(q, op, u, o, i)
<1> DEFINE s == [Idle EXCEPT !.op = op, !.pc = "begin", !.u = u, !.o = o, !.i = i]
<1>0. req \in [Requests -> RequestType] /\ 0 \in 0 .. MaxBuilds
  BY TypeFacts, AccountConstants
<1>1. /\ req' = [req EXCEPT ![q] = s] /\ req[q].op = "idle"
      /\ used' = [used EXCEPT !.calls = @ + 1]
  BY DEF Begin
<1> DEFINE a == [Idle EXCEPT !.op = op]
           b == [a EXCEPT !.pc = "begin"]
           c == [b EXCEPT !.u = u]
           d == [c EXCEPT !.o = o]
           e == [d EXCEPT !.i = i]
           Rest(r) == r.row = NoRow /\ r.build = 0 /\ r.old = 0 /\ r.first = FALSE
<1>2. s = e
  OBVIOUS
<1> HIDE DEF s
<1>3. Idle \in RequestType /\ Rest(Idle)
  BY IdleFacts
<1>4. a \in RequestType /\ a.op = op /\ Rest(a)
  BY <1>3 DEF RequestType
<1> HIDE DEF a
<1>5. b \in RequestType /\ b.op = op /\ b.pc = "begin" /\ Rest(b)
  BY <1>4 DEF RequestType, Pcs
<1> HIDE DEF b
<1>6. c \in RequestType /\ c.op = op /\ c.pc = "begin" /\ c.u = u /\ Rest(c)
  BY <1>5 DEF RequestType
<1> HIDE DEF c
<1>7. d \in RequestType /\ d.op = op /\ d.pc = "begin" /\ d.u = u /\ d.o = o /\ Rest(d)
  BY <1>6 DEF RequestType
<1> HIDE DEF d
<1>8. /\ e \in RequestType /\ e.op = op /\ e.pc = "begin" /\ e.u = u /\ e.o = o /\ e.i = i
      /\ Rest(e)
  BY <1>7 DEF RequestType
<1> HIDE DEF e
<1>9. Others(q) /\ req'[q] = e
  BY <1>0, <1>1, <1>2, <1>8 DEF Others
<1> QED
  BY <1>1, <1>8, <1>9 DEF Begun

(* What Start begins, and on which condition. *)
Started(q) ==
    \E u \in Users, o \in Orgs \cup {None}, i \in Invites \cup {None} :
      \/ /\ account[u] = "none" /\ \A p \in Requests : ~(req[p].op = "signup" /\ req[p].u = u)
         /\ Begun(q, "signup", u, o, i)
      \/ Begun(q, "login", u, o, i) \/ Begun(q, "update", u, o, i)
      \/ /\ o \in Orgs /\ org[o].state = "none"
         /\ \A p \in Requests : ~(req[p].op = "create" /\ req[p].o = o)
         /\ Begun(q, "create", u, o, i)
      \/ /\ o \in Orgs
         /\ Begun(q, "delete", u, o, i) \/ Begun(q, "switch", u, o, i) \/ Begun(q, "leave", u, o, i)
      \/ o \in Orgs /\ i \in Invites /\ Begun(q, "accept", u, o, i)
      \/ i \in Invites /\ (Begun(q, "decline", u, o, i) \/ Begun(q, "cancel", u, o, i))

LEMMA StartEffect ==
  ASSUME TypeInv, NEW q \in Requests, Start(q)
  PROVE  Started(q)
<1>0. {"signup", "login", "update", "create", "delete", "switch", "leave", "accept", "decline",
       "cancel"} \subseteq Ops
  BY DEF Ops
<1>1. PICK u \in Users :
        \/ account[u] = "none" /\ (\A p \in Requests : ~(req[p].op = "signup" /\ req[p].u = u))
           /\ Begin(q, "signup", u, None, None)
        \/ Begin(q, "login", u, None, None)
        \/ Begin(q, "update", u, None, None)
        \/ \E o \in Orgs :
             \/ org[o].state = "none" /\ (\A p \in Requests : ~(req[p].op = "create" /\ req[p].o = o))
                /\ Begin(q, "create", u, o, None)
             \/ Begin(q, "delete", u, o, None)
             \/ Begin(q, "switch", u, o, None) \/ Begin(q, "leave", u, o, None)
        \/ \E i \in Invites :
             \/ Begin(q, "accept", u, InviteOrg[i], i) \/ Begin(q, "decline", u, None, i)
             \/ Begin(q, "cancel", u, None, i)
  BY Zenon DEF Start
<1>2. CASE account[u] = "none" /\ (\A p \in Requests : ~(req[p].op = "signup" /\ req[p].u = u))
           /\ Begin(q, "signup", u, None, None)
  <2>1. Begun(q, "signup", u, None, None)
    BY <1>0, <1>2, BeginEffect
  <2> QED
    BY <1>2, <2>1 DEF Started
<1>3. CASE Begin(q, "login", u, None, None) \/ Begin(q, "update", u, None, None)
  <2>1. Begun(q, "login", u, None, None) \/ Begun(q, "update", u, None, None)
    BY <1>0, <1>3, BeginEffect
  <2> QED
    BY <2>1 DEF Started
<1>4. ASSUME NEW o \in Orgs,
             \/ org[o].state = "none" /\ (\A p \in Requests : ~(req[p].op = "create" /\ req[p].o = o))
                /\ Begin(q, "create", u, o, None)
             \/ Begin(q, "delete", u, o, None)
             \/ Begin(q, "switch", u, o, None) \/ Begin(q, "leave", u, o, None)
      PROVE  Started(q)
  <2>1. CASE org[o].state = "none" /\ (\A p \in Requests : ~(req[p].op = "create" /\ req[p].o = o))
             /\ Begin(q, "create", u, o, None)
    <3>1. Begun(q, "create", u, o, None)
      BY <1>0, <2>1, BeginEffect
    <3> QED
      BY <2>1, <3>1 DEF Started
  <2>2. CASE \/ Begin(q, "delete", u, o, None)
             \/ Begin(q, "switch", u, o, None) \/ Begin(q, "leave", u, o, None)
    <3>1. \/ Begun(q, "delete", u, o, None)
          \/ Begun(q, "switch", u, o, None) \/ Begun(q, "leave", u, o, None)
      BY <1>0, <2>2, BeginEffect
    <3> QED
      BY <3>1 DEF Started
  <2> QED
    BY <1>4, <2>1, <2>2
<1>5. ASSUME NEW i \in Invites,
             \/ Begin(q, "accept", u, InviteOrg[i], i) \/ Begin(q, "decline", u, None, i)
             \/ Begin(q, "cancel", u, None, i)
      PROVE  Started(q)
  <2>0. InviteOrg[i] \in Orgs
    BY AccountConstants
  <2>1. CASE Begin(q, "accept", u, InviteOrg[i], i)
    <3>1. Begun(q, "accept", u, InviteOrg[i], i)
      BY <1>0, <2>0, <2>1, BeginEffect
    <3> QED
      BY <2>0, <3>1 DEF Started
  <2>2. CASE Begin(q, "decline", u, None, i) \/ Begin(q, "cancel", u, None, i)
    <3>1. Begun(q, "decline", u, None, i) \/ Begun(q, "cancel", u, None, i)
      BY <1>0, <2>2, BeginEffect
    <3> QED
      BY <3>1 DEF Started
  <2> QED
    BY <1>5, <2>1, <2>2
<1> QED
  BY <1>1, <1>2, <1>3, <1>4, <1>5

---------------------------------------------------------------------------
(* Types *)

ReqOK == req \in [Requests -> RequestType] /\ \A q \in Requests : WellFormed(req[q])

LEMMA EndedOK == ASSUME TypeInv, NEW q \in Requests, Ended(q) PROVE ReqOK'
  BY IdleFacts DEF TypeInv, RequestsOK, Ended, Others, ReqOK

LEMMA DoneOK == ASSUME TypeInv, NEW q \in Requests, Done(q) PROVE Ended(q) /\ ReqOK'
  BY TypeFacts, Ending, EndedOK

LEMMA HeldOK ==
  ASSUME TypeInv, NEW q \in Requests, NEW c \in Pcs, NEW x, Held(q, x, c), req[q].op # "idle",
         c \in {"fill", "have", "add", "load", "swap", "stamp", "save"} => x \in Rows,
         Rebuilding(req[q]) /\ c \in {"load", "swap"} => x.role # 0
  PROVE  ReqOK'
<1>1. ASSUME NEW p \in Requests PROVE WellFormed(req'[p])
  <2>1. CASE p # q
    BY <2>1 DEF TypeInv, RequestsOK, Held, Others
  <2>2. CASE p = q
    <3>1. WellFormed(req[q])
      BY TypeFacts
    <3>2. /\ req'[q].op = req[q].op /\ req'[q].u = req[q].u /\ req'[q].o = req[q].o
          /\ req'[q].i = req[q].i /\ req'[q].row = x /\ req'[q].pc = c
      BY DEF Held, Kept
    <3> QED
      BY <2>2, <3>1, <3>2 DEF WellFormed, Rebuilding
  <2> QED
    BY <2>1, <2>2
<1> QED
  BY <1>1 DEF ReqOK, Held, Others

LEMMA GoOK ==
  ASSUME TypeInv, NEW q \in Requests, NEW c \in Pcs, Go(q, c), req[q].op # "idle",
         c \in {"fill", "have", "add", "load", "swap", "stamp", "save"} => req[q].row \in Rows,
         c \notin {"load", "swap"}
  PROVE  Moved(q, c) /\ ReqOK'
<1>1. Moved(q, c)
  BY TypeFacts, Going
<1>2. Held(q, req[q].row, c)
  BY <1>1 DEF Moved
<1> QED
  BY <1>1, <1>2, HeldOK

LEMMA StartOK == ASSUME TypeInv, NEW q \in Requests, Started(q) PROVE ReqOK'
<1>1. PICK u \in Users, o \in Orgs \cup {None}, i \in Invites \cup {None}, op \in Ops \ {"idle"} :
        /\ Begun(q, op, u, o, i)
        /\ op \in {"create", "delete", "switch", "leave", "accept"} => o \in Orgs
        /\ op \in {"accept", "decline", "cancel"} => i \in Invites
  BY DEF Started, Ops
<1>2. ASSUME NEW p \in Requests PROVE WellFormed(req'[p])
  BY <1>1 DEF TypeInv, RequestsOK, Begun, Others, WellFormed
<1> QED
  BY <1>1, <1>2 DEF ReqOK, Begun, Others

LEMMA RequestOK ==
  ASSUME TypeInv, NEW q \in Requests, Start(q) \/ RequestStep(q)
  PROVE  ReqOK'
<1>0. /\ req[q].op \in Ops /\ req[q].pc \in Pcs /\ WellFormed(req[q])
      /\ req \in [Requests -> RequestType]
  BY TypeFacts
<1>1. CASE Start(q)
  BY <1>1, StartEffect, StartOK
<1>2. CASE GetUser(q)
  <2>1. req[q].op # "idle"
    BY <1>0, <1>2 DEF GetUser, WellFormed
  <2>2. Moved(q, "next") => ReqOK'
    BY <2>1, HeldOK DEF Moved, Pcs
  <2>3. Held(q, cache[req[q].u], "have") /\ cache[req[q].u] \in Rows => ReqOK'
    BY <2>1, HeldOK DEF Pcs
  <2>4. Held(q, row[req[q].u], "fill") /\ row[req[q].u] \in Rows => ReqOK'
    BY <2>1, HeldOK DEF Pcs
  <2> QED
    BY <1>2, <2>1, <2>2, <2>3, <2>4, GetUserEffect, EndedOK
<1>3. CASE FillCache(q)
  BY <1>0, <1>3, GoOK DEF FillCache, WellFormed, Pcs
<1>4. CASE SaveUser(q)
  <2>1. req[q].op # "idle"
    BY <1>0, <1>4 DEF SaveUser, WellFormed
  <2>2. Go(q, "retire") \/ Go(q, "member") \/ Go(q, "next") \/ Done(q)
    BY <1>4, Zenon DEF SaveUser, AfterSave
  <2> QED
    BY <2>1, <2>2, GoOK, DoneOK DEF Pcs
<1>5. CASE UpdateUser(q)
  BY <1>0, <1>5, GoOK DEF UpdateUser, At, WellFormed, Pcs
<1>6. CASE SignupGate(q)
  <2>1. req[q].op # "idle"
    BY <1>6 DEF SignupGate, At
  <2>2. Moved(q, IF conf.seeded THEN "insert" ELSE "lock") => ReqOK'
    BY <2>1, HeldOK DEF Moved, Pcs
  <2> QED
    BY <1>6, <2>2, SignupGateEffect, EndedOK
<1>7. CASE SignupLock(q)
  BY <1>7, GoOK DEF SignupLock, At, Pcs
<1>8. CASE SignupCount(q)
  <2>1. ASSUME NEW p \in Requests PROVE WellFormed(req'[p])
    BY <1>0, <1>8, SignupCountEffect DEF SignupCount, At, Others, WellFormed, TypeInv, RequestsOK
  <2> QED
    BY <1>8, <2>1, SignupCountEffect DEF Others, ReqOK
<1>9. CASE SignupCommit(q)
  BY <1>9, GoOK, DoneOK DEF SignupCommit, At, Pcs
<1>10. CASE Login(q)
  BY <1>10, GoOK, DoneOK DEF Login, At, Pcs
<1>11. CASE Build(q)
  <2>1. /\ req[q].op \in {"signup", "login"} /\ req[q].pc = "have"
        /\ req[q].row \in Rows /\ req[q].u \in Users
    BY <1>0, <1>11 DEF Build, Rebuilds, WellFormed
  <2>2. CASE Ended(q)
    BY <2>2, EndedOK
  <2>3. CASE ~Ended(q)
    <3>1. /\ Others(q) /\ req'[q].op = req[q].op /\ req'[q].u = req[q].u
          /\ req'[q].row = req[q].row
          /\ req'[q].pc = IF req[q].row.role = 0 THEN "add" ELSE "load"
      BY <1>11, <2>3, BuildEffect
    <3>2. WellFormed(req'[q])
      BY <2>1, <3>1 DEF WellFormed, Rebuilding
    <3> QED
      BY <3>1, <3>2 DEF Others, ReqOK, TypeInv, RequestsOK
  <2> QED
    BY <2>2, <2>3
<1>12. CASE AddRole(q)
  <2>1. req[q].op # "idle" /\ req[q].row \in Rows /\ req[q].build \in 0 .. MaxBuilds
    BY <1>0, <1>12, TypeFacts DEF AddRole, Rebuilds, WellFormed
  <2>2. RoleIn(req[q].row, req[q].build) \in Rows
    BY <2>1, RowFacts
  <2> QED
    BY <1>12, <2>1, <2>2, AddRoleEffect, HeldOK DEF Pcs
<1>13. CASE LoadRole(q)
  <2>1. /\ req[q].op \in {"signup", "login"} /\ req[q].row.role # 0
        /\ req[q].row \in Rows /\ req[q].u \in Users
    BY <1>0, <1>13 DEF LoadRole, Rebuilds, Rebuilding, WellFormed
  <2>2. /\ Others(q) /\ req'[q].op = req[q].op /\ req'[q].u = req[q].u
        /\ req'[q].row = req[q].row /\ req'[q].pc = "swap"
    BY <1>13, <2>1, LoadRoleEffect
  <2>3. WellFormed(req'[q])
    BY <2>1, <2>2 DEF WellFormed
  <2> QED
    BY <2>2, <2>3 DEF Others, ReqOK, TypeInv, RequestsOK
<1>14. CASE SwapRole(q)
  BY <1>0, <1>14, GoOK DEF SwapRole, Rebuilds, WellFormed, Pcs
<1>15. CASE Stamp(q)
  <2>1. req[q].op # "idle" /\ req[q].row \in Rows
    BY <1>0, <1>15 DEF Stamp, Rebuilds, WellFormed
  <2>2. VersionIn(req[q].row, grants) \in Rows
    BY <1>15, <2>1, RowFacts, StampEffect
  <2> QED
    BY <1>15, <2>1, <2>2, StampEffect, HeldOK DEF Pcs
<1>16. CASE Retire(q) \/ RebuildFails(q)
  BY <1>16, DoneOK DEF Retire, RebuildFails
<1>17. CASE AddOrg(q) \/ CheckMembership(q) \/ AddMembership(q) \/ GrantOwner(q)
  BY <1>17, GoOK, DoneOK DEF AddOrg, CheckMembership, AddMembership, GrantOwner, At, Pcs
<1>18. ASSUME NEW o \in Orgs \cup {None}, req[q].op # "idle", req[q].pc = "have",
              req' = [req EXCEPT ![q].row.org = o, ![q].pc = "save"]
       PROVE  ReqOK'
  <2>1. req[q].row \in Rows
    BY <1>0, <1>18 DEF WellFormed
  <2>2. Held(q, OrgIn(req[q].row, o), "save")
    BY <1>0, <1>18, <2>1, HoldingOrg DEF Pcs
  <2>3. OrgIn(req[q].row, o) \in Rows
    BY <2>1, RowFacts
  <2> QED
    BY <1>18, <2>2, <2>3, HeldOK DEF Pcs
<1>19. CASE PutInOrg(q)
  BY <1>0, <1>18, <1>19 DEF PutInOrg, At, WellFormed
<1>20. CASE Reassign(q)
  BY <1>18, <1>20, TypeFacts DEF Reassign, At
<1>21. CASE SwitchOrg(q)
  BY <1>0, <1>18, <1>21, GoOK, DoneOK DEF SwitchOrg, At, WellFormed, Pcs
<1>22. CASE LeaveActive(q)
  <2>1. Oldest(members[req[q].u]) \in Orgs \cup {None}
    BY <1>0, <1>22, OldestType DEF LeaveActive, At, WellFormed
  <2> QED
    BY <2>1, <1>18, <1>22, DoneOK DEF LeaveActive, At
<1>23. CASE ReadPersonalRole(q)
  <2>1. req[q].op # "idle"
    BY <1>0, <1>23 DEF ReadPersonalRole, WellFormed
  <2>2. Moved(q, IF req[q].op = "create" THEN "grant" ELSE "commit") => ReqOK'
    BY <2>1, HeldOK DEF Moved, Pcs
  <2> QED
    BY <1>23, <2>1, <2>2, ReadPersonalRoleEffect, EndedOK
<1>24. CASE RemoveOrg(q) \/ DeactivateMemberships(q) \/ DeleteOrgReturns(q)
  <2>1. CASE RemoveOrg(q)
    BY <2>1, GoOK, DoneOK DEF RemoveOrg, At, Pcs
  <2>2. CASE DeactivateMemberships(q)
    BY <2>2, GoOK, DoneOK DEF DeactivateMemberships, At, Pcs
  <2>3. CASE DeleteOrgReturns(q)
    BY <2>3, GoOK, DoneOK DEF DeleteOrgReturns, At, Pcs
  <2> QED
    BY <1>24, <2>1, <2>2, <2>3
<1>25. CASE FindAffected(q)
  <2>1. Held(q, req[q].row, "empty") /\ "empty" \in Pcs
    BY <1>25, FindAffectedEffect DEF Moved, Pcs
  <2>2. req[q].op # "idle"
    BY <1>25 DEF FindAffected, At
  <2> QED
    BY <2>1, <2>2, HeldOK
<1>26. CASE NextAffected(q)
  <2>1. WellFormed(req'[q])
    BY <1>0, <1>26, NextAffectedEffect DEF WellFormed, Rebuilding
  <2> QED
    BY <1>26, <2>1, NextAffectedEffect DEF Others, ReqOK, TypeInv, RequestsOK
<1>27. CASE CheckLeave(q) \/ RemoveMembership(q)
  BY <1>27, GoOK, DoneOK DEF CheckLeave, RemoveMembership, At, Pcs
<1>28. CASE OrgCallFails(q)
  BY <1>28, GoOK, DoneOK DEF OrgCallFails, At, Pcs
<1>29. CASE LockInvite(q) \/ LockUser(q) \/ CountMemberships(q)
  BY <1>29, GoOK, DoneOK DEF LockInvite, LockUser, CountMemberships, At, Pcs
<1>30. CASE CommitAccept(q) \/ AcceptFails(q) \/ AnswerInvite(q)
  BY <1>30, DoneOK DEF CommitAccept, AcceptFails, AnswerInvite
<1> QED
  BY <1>1, <1>2, <1>3, <1>4, <1>5, <1>6, <1>7, <1>8, <1>9, <1>10, <1>11, <1>12, <1>13, <1>14,
     <1>15, <1>16, <1>17, <1>19, <1>20, <1>21, <1>22, <1>23, <1>24, <1>25, <1>26, <1>27, <1>28,
     <1>29, <1>30 DEF RequestStep

LEMMA UsedOK ==
  ASSUME used \in UsedType
  PROVE  /\ used.calls \in Nat /\ used.joins \in Nat /\ used.builds \in 0 .. MaxBuilds
         /\ [used EXCEPT !.calls = @ + 1] \in UsedType /\ [used EXCEPT !.joins = @ + 1] \in UsedType
         /\ [used EXCEPT !.refreshes = @ + 1] \in UsedType
         /\ [used EXCEPT !.faults = @ + 1] \in UsedType
         /\ \A g \in 0 .. MaxBuilds : [used EXCEPT !.builds = g] \in UsedType
         /\ [used EXCEPT !.joins = @ + 1].joins = used.joins + 1
         /\ [used EXCEPT !.joins = @ + 1].builds = used.builds
         /\ [used EXCEPT !.calls = @ + 1].joins = used.joins
         /\ [used EXCEPT !.calls = @ + 1].builds = used.builds
         /\ [used EXCEPT !.refreshes = @ + 1].joins = used.joins
         /\ [used EXCEPT !.refreshes = @ + 1].builds = used.builds
         /\ [used EXCEPT !.faults = @ + 1].joins = used.joins
         /\ [used EXCEPT !.faults = @ + 1].builds = used.builds
         /\ \A g \in 0 .. MaxBuilds : [used EXCEPT !.builds = g].joins = used.joins
         /\ \A g \in 0 .. MaxBuilds : [used EXCEPT !.builds = g].builds = g
  BY DEF UsedType

PermsType == [state : {"none", "active", "retired"}, version : Versions]
OrgType == [state : {"none", "active", "deleted"}, owner : Users \cup {None}]
InviteType == [status : {"none", "pending", "accepted", "declined"}, active : BOOLEAN,
               by : Users \cup {None}]
LockKeys == Users \cup Invites \cup {Signup}

LEMMA RecordFacts ==
  /\ \A x \in PermsType : [x EXCEPT !.state = "retired"] \in PermsType
  /\ \A v \in Versions : [state |-> "active", version |-> v] \in PermsType
  /\ \A x \in OrgType : [x EXCEPT !.state = "deleted"] \in OrgType
  /\ \A x \in InviteType : \A v \in {"pending", "accepted", "declined"} :
        [x EXCEPT !.status = v] \in InviteType
  /\ \A x \in InviteType : \A b \in BOOLEAN : [x EXCEPT !.active = b] \in InviteType
  /\ \A x \in InviteType : \A u \in Users : [x EXCEPT !.by = u] \in InviteType
  /\ \A x \in Rows : \A o \in Orgs \cup {None} : [x EXCEPT !.org = o] \in Rows
<1>1. ASSUME NEW x \in PermsType PROVE [x EXCEPT !.state = "retired"] \in PermsType
  BY DEF PermsType
<1>2. ASSUME NEW v \in Versions PROVE [state |-> "active", version |-> v] \in PermsType
  BY DEF PermsType
<1>3. ASSUME NEW x \in OrgType PROVE [x EXCEPT !.state = "deleted"] \in OrgType
  BY DEF OrgType
<1>4. ASSUME NEW x \in InviteType, NEW v \in {"pending", "accepted", "declined"}
      PROVE  [x EXCEPT !.status = v] \in InviteType
  BY DEF InviteType
<1>5. ASSUME NEW x \in InviteType, NEW b \in BOOLEAN PROVE [x EXCEPT !.active = b] \in InviteType
  BY DEF InviteType
<1>6. ASSUME NEW x \in InviteType, NEW u \in Users PROVE [x EXCEPT !.by = u] \in InviteType
  BY DEF InviteType
<1>7. ASSUME NEW x \in Rows, NEW o \in Orgs \cup {None} PROVE [x EXCEPT !.org = o] \in Rows
  BY DEF Rows
<1> QED
  BY <1>1, <1>2, <1>3, <1>4, <1>5, <1>6, <1>7

(* TypeOK in parts, one for each group of variables. *)
UserTypeOK ==
    /\ account \in [Users -> {"none", "active", "removed"}]
    /\ admin \in [Users -> BOOLEAN] /\ grant \in [Users -> SUBSET Orgs]
    /\ row \in [Users -> Rows] /\ cache \in [Users -> Rows \cup {NoRow}]
OrgTypeOK ==
    /\ members \in [Users -> SUBSET [org : Orgs, at : Nat]]
    /\ org \in [Orgs -> OrgType] /\ invite \in [Invites -> InviteType]
RoleTypeOK == role \in [Builds -> 0 .. MaxBuilds] /\ perms \in [Builds -> PermsType]
RestTypeOK ==
    /\ conf \in [seeded : BOOLEAN, inviteOnly : BOOLEAN]
    /\ locks \in [LockKeys -> Requests \cup {None}]
    /\ grants \in Versions /\ used \in UsedType

LEMMA TypeParts == TypeInv <=> UserTypeOK /\ OrgTypeOK /\ RoleTypeOK /\ RestTypeOK /\ ReqOK
<1>1. ReqOK => \A q \in Requests : req[q].op \in Ops
  BY DEF ReqOK, RequestType
<1> QED
  BY <1>1 DEF TypeInv, TypeOK, RequestsOK, ReqOK, UserTypeOK, OrgTypeOK, RoleTypeOK, RestTypeOK,
     PermsType, OrgType, InviteType, LockKeys

LEMMA TypePartsNext ==
  ASSUME UserTypeOK', OrgTypeOK', RoleTypeOK', RestTypeOK', ReqOK' PROVE TypeInv'
<1>1. \A q \in Requests : req'[q].op \in Ops
  BY DEF ReqOK, RequestType
<1> QED
  BY <1>1 DEF TypeInv, TypeOK, RequestsOK, ReqOK, UserTypeOK, OrgTypeOK, RoleTypeOK, RestTypeOK,
     PermsType, OrgType, InviteType, LockKeys

LEMMA UserTypes ==
  ASSUME TypeInv, NEW q \in Requests,
         \/ Start(q) \/ RequestStep(q) \/ (\E u \in Users : DeleteUser(q, u))
         \/ (\E i \in Invites : CreateInvite(q, i))
  PROVE  UserTypeOK'
<1>0. /\ UserTypeOK /\ WellFormed(req[q]) /\ req[q].row \in Rows \cup {NoRow}
      /\ req[q].affected \in SUBSET Users /\ req[q].ids \in SUBSET Orgs
      /\ req[q].first \in BOOLEAN
  BY TypeParts, TypeFacts
<1>1. CASE UNCHANGED userVars
  BY <1>0, <1>1 DEF UserTypeOK, userVars
<1>2. CASE \/ \E u \in Users : DeleteUser(q, u)
           \/ FillCache(q) \/ SaveUser(q)
  BY <1>0, <1>2 DEF DeleteUser, FillCache, SaveUser, WellFormed, UserTypeOK
<1>3. CASE SignupCommit(q) \/ RebuildFails(q)
  BY <1>0, <1>3 DEF SignupCommit, RebuildFails, UserTypeOK, At, WellFormed
<1>4. CASE GrantOwner(q)
  BY <1>0, <1>4 DEF GrantOwner, UserTypeOK, At, WellFormed
<1>5. CASE DeleteOrgReturns(q) \/ OrgCallFails(q) \/ LeaveActive(q)
  BY <1>0, <1>5 DEF DeleteOrgReturns, OrgCallFails, LeaveActive, UserTypeOK, At, WellFormed
<1>6. CASE CommitAccept(q)
  <2>1. req[q].u \in Users /\ req[q].o \in Orgs
    BY <1>0, <1>6 DEF CommitAccept, At, WellFormed
  <2>2. row[req[q].u] \in Rows
    BY <1>0, <2>1 DEF UserTypeOK
  <2>3. row[req[q].u].org \in Orgs \cup {None}
    BY <2>2 DEF Rows
  <2> DEFINE o == IF row[req[q].u].org = None THEN req[q].o ELSE row[req[q].u].org
             x == [row[req[q].u] EXCEPT !.org = o]
  <2>4. row' = [row EXCEPT ![req[q].u] = x]
    BY <1>6 DEF CommitAccept
  <2>5. x \in Rows
    BY <2>1, <2>2, <2>3, RecordFacts
  <2> HIDE DEF x
  <2>6. row' \in [Users -> Rows]
    BY <1>0, <2>1, <2>4, <2>5 DEF UserTypeOK
  <2>7. grant' \in [Users -> SUBSET Orgs] /\ cache' \in [Users -> Rows \cup {NoRow}]
    BY <1>0, <1>6, <2>1 DEF CommitAccept, UserTypeOK
  <2> QED
    BY <1>0, <1>6, <2>6, <2>7 DEF CommitAccept, UserTypeOK
<1>7. ASSUME Start(q) \/ RequestStep(q) \/ \E i \in Invites : CreateInvite(q, i)
      PROVE  \/ UNCHANGED userVars \/ FillCache(q) \/ SaveUser(q) \/ SignupCommit(q)
             \/ RebuildFails(q) \/ GrantOwner(q) \/ DeleteOrgReturns(q) \/ OrgCallFails(q)
             \/ LeaveActive(q) \/ CommitAccept(q)
  BY <1>7 DEF Start, CreateInvite, RequestStep, GetUser, UpdateUser, SignupGate, SignupLock,
     SignupCount, Login, Build, AddRole, LoadRole, SwapRole, Stamp, Retire, AddOrg, PutInOrg,
     CheckMembership, AddMembership, ReadPersonalRole, RemoveOrg, FindAffected,
     DeactivateMemberships, NextAffected, Reassign, SwitchOrg, CheckLeave, RemoveMembership,
     LockInvite, LockUser, CountMemberships, AcceptFails, AnswerInvite
<1> QED
  BY <1>1, <1>2, <1>3, <1>4, <1>5, <1>6, <1>7

LEMMA OrgTypes ==
  ASSUME TypeInv, NEW q \in Requests,
         \/ Start(q) \/ RequestStep(q) \/ (\E u \in Users : DeleteUser(q, u))
         \/ (\E i \in Invites : CreateInvite(q, i))
  PROVE  OrgTypeOK'
<1>0. OrgTypeOK /\ WellFormed(req[q]) /\ used.joins \in Nat
  BY TypeParts, TypeFacts, UsedOK DEF RestTypeOK
<1>1. CASE UNCHANGED orgVars
  BY <1>0, <1>1 DEF OrgTypeOK, orgVars
<1>2. CASE AddOrg(q)
  BY <1>0, <1>2 DEF AddOrg, At, WellFormed, OrgTypeOK, OrgType
<1>3. CASE RemoveOrg(q)
  <2>1. req[q].o \in Orgs /\ UNCHANGED <<members, invite>>
    BY <1>0, <1>3 DEF RemoveOrg, At, WellFormed
  <2>2. \/ UNCHANGED org
        \/ org' = [org EXCEPT ![req[q].o] = [org[req[q].o] EXCEPT !.state = "deleted"]]
    BY <1>3 DEF RemoveOrg
  <2>3. org[req[q].o] \in OrgType
    BY <1>0, <2>1 DEF OrgTypeOK
  <2> QED
    BY <1>0, <2>1, <2>2, <2>3, RecordFacts DEF OrgTypeOK
<1>4. ASSUME NEW u \in Users, NEW o \in Orgs, Join(u, o)
      PROVE  members' \in [Users -> SUBSET [org : Orgs, at : Nat]]
  <2>1. [org |-> o, at |-> used.joins + 1] \in [org : Orgs, at : Nat]
    BY <1>0
  <2> QED
    BY <1>0, <1>4, <2>1 DEF Join, OrgTypeOK
<1>5. CASE AddMembership(q)
  BY <1>0, <1>4, <1>5 DEF AddMembership, At, WellFormed, OrgTypeOK
<1>6. CASE DeactivateMemberships(q)
  BY <1>0, <1>6 DEF DeactivateMemberships, Without, OrgTypeOK
<1>7. CASE RemoveMembership(q)
  BY <1>0, <1>7 DEF RemoveMembership, Without, At, WellFormed, OrgTypeOK
<1>8. CASE CommitAccept(q)
  <2>1. req[q].u \in Users /\ req[q].o \in Orgs /\ req[q].i \in Invites
    BY <1>0, <1>8 DEF CommitAccept, At, WellFormed
  <2>2. /\ Join(req[q].u, req[q].o) /\ UNCHANGED org
        /\ invite' = [invite EXCEPT ![req[q].i] = [invite[req[q].i] EXCEPT !.status = "accepted"]]
    BY <1>8 DEF CommitAccept
  <2>3. invite[req[q].i] \in InviteType
    BY <1>0, <2>1 DEF OrgTypeOK
  <2>4. invite' \in [Invites -> InviteType]
    BY <1>0, <2>1, <2>2, <2>3, RecordFacts DEF OrgTypeOK
  <2> QED
    BY <1>0, <1>4, <2>1, <2>2, <2>4 DEF OrgTypeOK
<1>9. CASE AnswerInvite(q)
  <2>1. req[q].i \in Invites /\ UNCHANGED <<members, org>>
    BY <1>0, <1>9 DEF AnswerInvite, WellFormed
  <2> DEFINE x == invite[req[q].i]
             y == [x EXCEPT !.status = "declined"]
             z == [y EXCEPT !.active = TRUE]
             w == [x EXCEPT !.active = FALSE]
  <2>2. invite' = [invite EXCEPT ![req[q].i] = z] \/ invite' = [invite EXCEPT ![req[q].i] = w]
    BY <1>9 DEF AnswerInvite
  <2>3. x \in InviteType
    BY <1>0, <2>1 DEF OrgTypeOK
  <2> HIDE DEF x
  <2>4. y \in InviteType /\ w \in InviteType
    BY <2>3, RecordFacts
  <2> HIDE DEF y, w
  <2>5. z \in InviteType
    BY <2>4, RecordFacts
  <2> HIDE DEF z
  <2> QED
    BY <1>0, <2>1, <2>2, <2>4, <2>5 DEF OrgTypeOK
<1>10. ASSUME NEW i \in Invites, CreateInvite(q, i) PROVE OrgTypeOK'
  <2>1. PICK u \in Users : invite' = [invite EXCEPT ![i].status = "pending", ![i].by = u]
    BY <1>10 DEF CreateInvite
  <2> DEFINE x == [invite[i] EXCEPT !.status = "pending"]
             y == [x EXCEPT !.by = u]
  <2>2. invite' = [invite EXCEPT ![i] = y]
    BY <2>1
  <2>3. invite[i] \in InviteType
    BY <1>0 DEF OrgTypeOK
  <2>4. x \in InviteType
    BY <2>3, RecordFacts
  <2> HIDE DEF x
  <2>5. y \in InviteType
    BY <2>4, RecordFacts
  <2> HIDE DEF y
  <2> QED
    BY <1>0, <1>10, <2>2, <2>5 DEF CreateInvite, OrgTypeOK
<1>11. ASSUME Start(q) \/ RequestStep(q) \/ \E u \in Users : DeleteUser(q, u)
       PROVE  \/ UNCHANGED orgVars \/ AddOrg(q) \/ RemoveOrg(q) \/ AddMembership(q)
              \/ DeactivateMemberships(q) \/ RemoveMembership(q) \/ CommitAccept(q)
              \/ AnswerInvite(q)
  BY <1>11 DEF Start, DeleteUser, RequestStep, GetUser, FillCache, SaveUser,
     UpdateUser, SignupGate, SignupLock, SignupCount, SignupCommit, Login, Build, AddRole, LoadRole,
     SwapRole, Stamp, Retire, RebuildFails, PutInOrg, CheckMembership, ReadPersonalRole, GrantOwner,
     FindAffected, NextAffected, Reassign, DeleteOrgReturns, SwitchOrg, CheckLeave, LeaveActive,
     OrgCallFails, LockInvite, LockUser, CountMemberships, AcceptFails
<1> QED
  BY <1>1, <1>2, <1>3, <1>5, <1>6, <1>7, <1>8, <1>9, <1>10, <1>11

LEMMA RoleTypes ==
  ASSUME TypeInv, NEW q \in Requests,
         \/ Start(q) \/ RequestStep(q) \/ (\E u \in Users : DeleteUser(q, u))
         \/ (\E i \in Invites : CreateInvite(q, i))
  PROVE  RoleTypeOK'
<1>0. /\ RoleTypeOK /\ WellFormed(req[q]) /\ grants \in Versions
      /\ req[q].build \in 0 .. MaxBuilds /\ req[q].old \in 0 .. MaxBuilds
  BY TypeParts, TypeFacts DEF RestTypeOK
<1>1. CASE UNCHANGED roleVars
  BY <1>0, <1>1 DEF RoleTypeOK, roleVars
<1>2. CASE AddRole(q) \/ SwapRole(q)
  BY <1>0, <1>2 DEF AddRole, SwapRole, RoleTypeOK
<1>3. CASE Build(q)
  <2>1. UNCHANGED role
    BY <1>3 DEF Build
  <2>2. UNCHANGED perms \/ perms' = [perms EXCEPT ![used.builds + 1] =
                                        [state |-> "active", version |-> grants]]
    BY <1>3 DEF Build
  <2> QED
    BY <1>0, <2>1, <2>2, RecordFacts DEF RoleTypeOK
<1>4. CASE Retire(q) \/ RebuildFails(q)
  <2>1. /\ UNCHANGED role
        /\ UNCHANGED perms \/ \E g \in {req[q].old, req[q].build} :
              perms' = [perms EXCEPT ![g] = [perms[g] EXCEPT !.state = "retired"]]
    BY <1>4 DEF Retire, RebuildFails
  <2>2. ASSUME NEW g \in {req[q].old, req[q].build},
               perms' = [perms EXCEPT ![g] = [perms[g] EXCEPT !.state = "retired"]]
        PROVE  perms' \in [Builds -> PermsType]
    <3>1. g \in Builds => [perms[g] EXCEPT !.state = "retired"] \in PermsType
      BY <1>0, RecordFacts DEF RoleTypeOK
    <3> QED
      BY <1>0, <2>2, <3>1 DEF RoleTypeOK
  <2> QED
    BY <1>0, <2>1, <2>2 DEF RoleTypeOK
<1>5. UNCHANGED roleVars \/ AddRole(q) \/ SwapRole(q) \/ Build(q) \/ Retire(q) \/ RebuildFails(q)
  BY DEF Start, DeleteUser, CreateInvite, RequestStep, GetUser, FillCache,
     SaveUser, UpdateUser, SignupGate, SignupLock, SignupCount, SignupCommit, Login, LoadRole, Stamp,
     AddOrg, PutInOrg, CheckMembership, AddMembership, ReadPersonalRole, GrantOwner, RemoveOrg,
     FindAffected, DeactivateMemberships, NextAffected, Reassign, DeleteOrgReturns, SwitchOrg,
     CheckLeave, RemoveMembership, LeaveActive, OrgCallFails, LockInvite, LockUser,
     CountMemberships, CommitAccept, AcceptFails, AnswerInvite
<1> QED
  BY <1>1, <1>2, <1>3, <1>4, <1>5

LEMMA RestTypes ==
  ASSUME TypeInv, NEW q \in Requests,
         \/ Start(q) \/ RequestStep(q) \/ (\E u \in Users : DeleteUser(q, u))
         \/ (\E i \in Invites : CreateInvite(q, i))
  PROVE  RestTypeOK'
<1>0. RestTypeOK /\ WellFormed(req[q])
  BY TypeParts, TypeFacts
<1>1. conf' = conf /\ grants' \in Versions
  BY <1>0 DEF RestTypeOK, Start, DeleteUser, CreateInvite, RequestStep, GetUser,
     FillCache, SaveUser, UpdateUser, SignupGate, SignupLock, SignupCount, SignupCommit, Login, Build,
     AddRole, LoadRole, SwapRole, Stamp, Retire, RebuildFails, AddOrg, PutInOrg, CheckMembership,
     AddMembership, ReadPersonalRole, GrantOwner, RemoveOrg, FindAffected, DeactivateMemberships,
     NextAffected, Reassign, DeleteOrgReturns, SwitchOrg, CheckLeave, RemoveMembership,
     LeaveActive, OrgCallFails, LockInvite, LockUser, CountMemberships, CommitAccept,
     AcceptFails, AnswerInvite
<1>2. locks' \in [LockKeys -> Requests \cup {None}]
  <2>1. ASSUME Release(q) PROVE locks' \in [LockKeys -> Requests \cup {None}]
    BY <1>0, <2>1 DEF Release, RestTypeOK
  <2>2. ASSUME NEW x, locks' = [locks EXCEPT ![x] = q]
        PROVE  locks' \in [LockKeys -> Requests \cup {None}]
    BY <1>0, <2>2 DEF RestTypeOK
  <2>3. UNCHANGED locks \/ Release(q) \/ \E x : locks' = [locks EXCEPT ![x] = q]
    BY DEF Start, DeleteUser, CreateInvite, RequestStep, GetUser,
       FillCache, SaveUser, UpdateUser, SignupGate, SignupLock, SignupCount, SignupCommit, Login,
       Build, AddRole, LoadRole, SwapRole, Stamp, Retire, RebuildFails, AddOrg, PutInOrg,
       CheckMembership, AddMembership, ReadPersonalRole, GrantOwner, RemoveOrg, FindAffected,
       DeactivateMemberships, NextAffected, Reassign, DeleteOrgReturns, SwitchOrg, CheckLeave,
       RemoveMembership, LeaveActive, OrgCallFails, LockInvite, LockUser, CountMemberships,
       CommitAccept, AcceptFails, AnswerInvite, TakeSignupLock, TakeUserLock, AbortReleases
  <2> QED
    BY <1>0, <2>1, <2>2, <2>3 DEF RestTypeOK
<1>3. used' \in UsedType
  <2>1. \/ used' \in {used, [used EXCEPT !.calls = @ + 1], [used EXCEPT !.joins = @ + 1],
                      [used EXCEPT !.refreshes = @ + 1], [used EXCEPT !.faults = @ + 1]}
        \/ Build(q)
    BY DEF Start, Begin, DeleteUser, CreateInvite, RequestStep, GetUser,
       FillCache, SaveUser, UpdateUser, SignupGate, SignupLock, SignupCount, SignupCommit, Login,
       AddRole, LoadRole, SwapRole, Stamp, Retire, RebuildFails, AddOrg, PutInOrg,
       CheckMembership, AddMembership, ReadPersonalRole, GrantOwner, RemoveOrg, FindAffected,
       DeactivateMemberships, NextAffected, Reassign, DeleteOrgReturns, SwitchOrg, CheckLeave,
       RemoveMembership, LeaveActive, OrgCallFails, LockInvite, LockUser, CountMemberships,
       CommitAccept, AcceptFails, AnswerInvite, Join, Fault
  <2>2. used \in UsedType
    BY <1>0 DEF RestTypeOK
  <2>3. CASE Build(q)
    <3>1. Builds \subseteq 0 .. MaxBuilds
      BY AccountConstants DEF Builds
    <3> QED
      BY <2>2, <2>3, <3>1, BuildEffect, UsedOK
  <2> QED
    BY <2>1, <2>2, <2>3, UsedOK
<1> QED
  BY <1>0, <1>1, <1>2, <1>3 DEF RestTypeOK

(* The steps of no request: the cache and the registry. *)
Ambient == (\E u \in Users : CacheExpires(u)) \/ Refresh

LEMMA AmbientTypes == ASSUME TypeInv, Ambient PROVE TypeInv'
<1>0. UserTypeOK /\ OrgTypeOK /\ RoleTypeOK /\ RestTypeOK /\ ReqOK
  BY TypeParts
<1>1. UNCHANGED <<conf, account, admin, grant, row, orgVars, locks, roleVars, req>>
  BY DEF Ambient, CacheExpires, Refresh, userVars
<1>2. UserTypeOK'
  BY <1>0, <1>1 DEF Ambient, CacheExpires, Refresh, UserTypeOK, userVars
<1>3. used' = used \/ used' = [used EXCEPT !.refreshes = @ + 1]
  BY DEF Ambient, CacheExpires, Refresh
<1>4. used' \in UsedType
  BY <1>0, <1>3, UsedOK DEF RestTypeOK
<1>5. RestTypeOK'
  BY <1>0, <1>1, <1>4 DEF Ambient, CacheExpires, Refresh, RestTypeOK
<1>6. OrgTypeOK' /\ RoleTypeOK' /\ ReqOK'
  BY <1>0, <1>1 DEF OrgTypeOK, RoleTypeOK, ReqOK, orgVars, roleVars, WellFormed, Rebuilding
<1> QED
  BY <1>2, <1>5, <1>6, TypePartsNext

LEMMA RequestTypes ==
  ASSUME TypeInv, NEW q \in Requests,
         \/ Start(q) \/ RequestStep(q) \/ (\E u \in Users : DeleteUser(q, u))
         \/ (\E i \in Invites : CreateInvite(q, i))
  PROVE  TypeInv'
<1>1. ReqOK'
  <2>1. CASE Start(q) \/ RequestStep(q)
    BY <2>1, RequestOK
  <2>2. CASE UNCHANGED req
    BY <2>2, TypeParts DEF ReqOK, WellFormed, Rebuilding
  <2> QED
    BY <2>1, <2>2 DEF DeleteUser, CreateInvite
<1>2. UserTypeOK' /\ OrgTypeOK' /\ RoleTypeOK' /\ RestTypeOK'
  BY UserTypes, OrgTypes, RoleTypes, RestTypes
<1> QED
  BY <1>1, <1>2, TypePartsNext

LEMMA StutterTypes == ASSUME TypeInv, UNCHANGED vars PROVE TypeInv'
  BY DEF TypeInv, TypeOK, RequestsOK, WellFormed, Rebuilding, vars, userVars, orgVars, roleVars

(* The seats of a running instance: as many as there are users. *)
LEMMA Seats ==
  LET n == Cardinality(Users)
      seat == CHOOSE f \in [Users -> 1 .. n] : \A x, y \in Users : f[x] = f[y] => x = y
  IN  /\ n \in 0 .. MaxBuilds /\ seat \in [Users -> 1 .. n]
      /\ \A x, y \in Users : seat[x] = seat[y] => x = y
<1> DEFINE n == Cardinality(Users)
           P(f) == \A x, y \in Users : f[x] = f[y] => x = y
<1>1. IsFiniteSet(Users)
  BY AccountConstants
<1>2. n \in 0 .. MaxBuilds
  BY <1>1, FS_CardinalityType, AccountConstants
<1>3. \E f \in [Users -> 1 .. n] : P(f)
  <2>1. IsFiniteSet(1 .. n) /\ Cardinality(1 .. n) = n
    BY <1>2, FS_Interval
  <2>2. ExistsBijection(Users, 1 .. n)
    BY <1>1, <2>1, FS_SameCardinalityBij
  <2>3. PICK f \in Bijection(Users, 1 .. n) : TRUE
    BY <2>2 DEF ExistsBijection
  <2>4. f \in [Users -> 1 .. n] /\ P(f)
    BY <2>3 DEF Bijection, Injection, Surjection, IsInjective
  <2> QED
    BY <2>4
<1>4. /\ (CHOOSE f \in [Users -> 1 .. n] : P(f)) \in [Users -> 1 .. n]
      /\ P(CHOOSE f \in [Users -> 1 .. n] : P(f))
  BY <1>3, Zenon
<1> QED
  BY <1>2, <1>4

LEMMA InitTypes == Init => TypeInv
<1> SUFFICES ASSUME Init PROVE TypeInv
  OBVIOUS
<1>0. /\ {MaxCalls, MaxBuilds, MaxRefreshes, MaxFaults} \subseteq Nat /\ MaxVersion \in Nat \ {0}
      /\ None \notin Users \cup Orgs \cup Invites \cup Requests
      /\ InviteOrg \in [Invites -> Orgs]
  BY AccountConstants
<1>1. ReqOK
  BY IdleFacts DEF Init, ReqOK
<1>2. locks \in [LockKeys -> Requests \cup {None}] /\ cache \in [Users -> Rows \cup {NoRow}]
  BY DEF Init, LockKeys
<1>3. {0, 1} \subseteq Versions /\ 0 \in 0 .. MaxBuilds
  BY <1>0 DEF Versions
<1>4. NewRow \in Rows /\ NoPerms \in PermsType
  BY <1>3 DEF NewRow, Rows, NoPerms, PermsType
<1>5. NothingUsed \in UsedType
  BY <1>3 DEF NothingUsed, UsedType
<1>6. CASE FreshInstance
  <2>1. UserTypeOK
    BY <1>2, <1>4, <1>6 DEF FreshInstance, UserTypeOK
  <2>2. OrgTypeOK
    BY <1>6 DEF FreshInstance, OrgTypeOK, OrgType, InviteType
  <2>3. RoleTypeOK
    BY <1>3, <1>4, <1>6 DEF FreshInstance, RoleTypeOK
  <2>4. RestTypeOK
    BY <1>2, <1>3, <1>5, <1>6 DEF FreshInstance, RestTypeOK
  <2> QED
    BY <1>1, <2>1, <2>2, <2>3, <2>4, TypeParts
<1>7. CASE RunningInstance
  <2> DEFINE n == Cardinality(Users)
             seat == CHOOSE f \in [Users -> 1 .. n] : \A x, y \in Users : f[x] = f[y] => x = y
  <2>1. n \in 0 .. MaxBuilds /\ seat \in [Users -> 1 .. n]
    BY Seats
  <2>2. PICK boss \in Users, home \in Orgs :
         /\ conf = [seeded |-> FALSE, inviteOnly |-> FALSE]
         /\ account = [u \in Users |-> "active"] /\ admin = [u \in Users |-> u = boss]
         /\ row = [u \in Users |-> [org |-> IF u = boss THEN home ELSE None,
                                    role |-> seat[u], version |-> 1]]
         /\ members = [u \in Users |-> IF u = boss THEN {[org |-> home, at |-> 0]} ELSE {}]
         /\ grant = [u \in Users |-> IF u = boss THEN {home} ELSE {}]
         /\ org = [o \in Orgs |-> IF o = home THEN [state |-> "active", owner |-> boss]
                                  ELSE [state |-> "none", owner |-> None]]
         /\ invite = [i \in Invites |->
                        [status |-> IF InviteOrg[i] = home THEN "pending" ELSE "none",
                         active |-> TRUE, by |-> boss]]
         /\ role = [r \in Builds |-> IF r <= n THEN r ELSE 0]
         /\ perms = [g \in Builds |-> IF g <= n THEN [state |-> "active", version |-> 1] ELSE NoPerms]
         /\ grants = 1
         /\ used = [NothingUsed EXCEPT !.builds = n]
    BY <1>7, Zenon DEF RunningInstance
  <2> HIDE DEF n, seat
  <2>3. row \in [Users -> Rows]
    <3>1. ASSUME NEW u \in Users
          PROVE  [org |-> IF u = boss THEN home ELSE None, role |-> seat[u], version |-> 1] \in Rows
      <4>1. seat[u] \in 0 .. MaxBuilds
        BY <1>0, <2>1
      <4> QED
        BY <4>1, <1>3 DEF Rows
    <3> QED
      BY <2>2, <3>1
  <2>4. UserTypeOK
    BY <1>2, <2>2, <2>3 DEF UserTypeOK
  <2>5. members \in [Users -> SUBSET [org : Orgs, at : Nat]] /\ org \in [Orgs -> OrgType]
    BY <2>2 DEF OrgType
  <2>6. invite \in [Invites -> InviteType]
    BY <2>2 DEF InviteType
  <2>7. role \in [Builds -> 0 .. MaxBuilds]
    BY <1>0, <2>2 DEF Builds
  <2>8. perms \in [Builds -> PermsType]
    BY <1>3, <1>4, <2>2 DEF PermsType
  <2>9. used \in UsedType
    BY <1>5, <2>1, <2>2 DEF UsedType
  <2>10. RestTypeOK
    BY <1>2, <1>3, <2>2, <2>9 DEF RestTypeOK
  <2> QED
    BY <1>1, <2>4, <2>5, <2>6, <2>7, <2>8, <2>10, TypeParts DEF OrgTypeOK, RoleTypeOK
<1> QED
  BY <1>6, <1>7 DEF Init

---------------------------------------------------------------------------
(* Locks: what a step has to show *)

NeedsUser(r) == r.op = "accept" /\ r.pc \in {"count", "read", "commit"}
NeedsSignup(r) == r.op = "signup" /\ r.pc \in {"count", "insert"}

LEMMA LockFacts ==
  ASSUME TypeInv, NEW x \in LockKeys
  PROVE  DOMAIN locks = LockKeys /\ locks[x] \in Requests \cup {None}
  BY TypeParts DEF RestTypeOK

LEMMA NoneIsNoRequest == \A q \in Requests : q # None
  BY AccountConstants

(* A request that keeps the locks as they are ... *)
LEMMA LocksKept ==
  ASSUME TypeInv, LockInv, NEW q \in Requests, Others(q), UNCHANGED <<locks, conf>>,
         Holds(req[q]) => Holds(req'[q]) /\ req'[q].pc # "user",
         NeedsUser(req'[q]) => locks[req'[q].u] = q,
         NeedsSignup(req'[q]) /\ ~conf.seeded => locks[Signup] = q
  PROVE  LockInv'
<1>1. ASSUME NEW x \in LockKeys, locks[x] # None PROVE Holds(req'[locks[x]])
  <2>1. locks[x] \in Requests /\ Holds(req[locks[x]])
    BY <1>1, LockFacts DEF LockInv, WaitsEnd, Holds
  <2> QED
    BY <2>1 DEF Others
<1>2. ASSUME NEW u \in Users, locks[u] # None PROVE req'[locks[u]].pc # "user"
  <2>1. /\ locks[u] \in Requests /\ Holds(req[locks[u]])
        /\ req[locks[u]].pc # "user"
    BY <1>2, LockFacts DEF LockInv, WaitsEnd, Holds, LockKeys
  <2> QED
    BY <2>1 DEF Others
<1>3. WaitsEnd'
  BY <1>1, <1>2, LockFacts DEF WaitsEnd, Holds, LockKeys
<1>4. ASSUME NEW p \in Requests, NeedsUser(req'[p]) PROVE locks[req'[p].u] = p
  <2>1. CASE p = q
    BY <1>4, <2>1
  <2>2. CASE p # q
    BY <1>4, <2>2 DEF Others, LockInv, UserLocked, NeedsUser
  <2> QED
    BY <2>1, <2>2
<1>5. ASSUME NEW p \in Requests, NeedsSignup(req'[p]), ~conf.seeded PROVE locks[Signup] = p
  <2>1. CASE p = q
    BY <1>5, <2>1
  <2>2. CASE p # q
    BY <1>5, <2>2 DEF Others, LockInv, SignupLocked, NeedsSignup
  <2> QED
    BY <2>1, <2>2
<1> QED
  BY <1>3, <1>4, <1>5 DEF LockInv, UserLocked, SignupLocked, NeedsUser, NeedsSignup

(* ... one that ends its transaction ... *)
LEMMA LocksReleased ==
  ASSUME TypeInv, LockInv, NEW q \in Requests, Others(q), Release(q), UNCHANGED conf,
         ~NeedsUser(req'[q]), ~NeedsSignup(req'[q])
  PROVE  LockInv'
<1>1. /\ DOMAIN locks' = LockKeys /\ DOMAIN locks = LockKeys
      /\ \A x \in LockKeys : locks'[x] = IF locks[x] = q THEN None ELSE locks[x]
  BY TypeParts DEF Release, RestTypeOK
<1>2. ASSUME NEW x \in LockKeys, locks'[x] # None
      PROVE  /\ locks'[x] = locks[x] /\ locks[x] \in Requests /\ locks[x] # q
             /\ Holds(req[locks[x]]) /\ req'[locks[x]] = req[locks[x]]
  <2>1. locks'[x] = locks[x] /\ locks[x] \in Requests /\ locks[x] # q
    BY <1>1, <1>2, LockFacts
  <2> QED
    BY <1>1, <1>2, <2>1 DEF LockInv, WaitsEnd, Holds, Others
<1>3. ASSUME NEW u \in Users, locks'[u] # None PROVE req'[locks'[u]].pc # "user"
  <2>1. locks'[u] = locks[u] /\ req'[locks[u]] = req[locks[u]]
    BY <1>2, <1>3 DEF LockKeys
  <2> QED
    BY <1>3, <2>1 DEF LockInv, WaitsEnd
<1>4. WaitsEnd'
  BY <1>1, <1>2, <1>3 DEF WaitsEnd, Holds
<1>5. ASSUME NEW p \in Requests, NeedsUser(req'[p]) PROVE locks'[req'[p].u] = p
  <2>1. p # q /\ req'[p] = req[p]
    BY <1>5 DEF Others
  <2>2. locks[req[p].u] = p /\ req[p].u \in LockKeys
    BY <1>5, <2>1, TypeFacts DEF LockInv, UserLocked, NeedsUser, WellFormed, LockKeys
  <2> QED
    BY <1>1, <2>1, <2>2
<1>6. ASSUME NEW p \in Requests, NeedsSignup(req'[p]), ~conf.seeded PROVE locks'[Signup] = p
  <2>1. p # q /\ req'[p] = req[p]
    BY <1>6 DEF Others
  <2>2. locks[Signup] = p /\ Signup \in LockKeys
    BY <1>6, <2>1 DEF LockInv, SignupLocked, NeedsSignup, LockKeys
  <2> QED
    BY <1>1, <2>1, <2>2
<1> QED
  BY <1>4, <1>5, <1>6 DEF LockInv, UserLocked, SignupLocked, NeedsUser, NeedsSignup

(* ... and one that takes a free lock. *)
LEMMA LockTaken ==
  ASSUME TypeInv, LockInv, NEW q \in Requests, Others(q), UNCHANGED conf,
         NEW k \in LockKeys, locks[k] \in {None, q}, locks' = [locks EXCEPT ![k] = q],
         Holds(req'[q]), req'[q].pc = "user" => k \notin Users /\ ~Holds(req[q]),
         NeedsUser(req'[q]) => locks'[req'[q].u] = q,
         NeedsSignup(req'[q]) /\ ~conf.seeded => locks'[Signup] = q
  PROVE  LockInv'
<1>1. /\ DOMAIN locks' = LockKeys /\ DOMAIN locks = LockKeys
      /\ locks'[k] = q /\ \A x \in LockKeys : x # k => locks'[x] = locks[x]
  BY TypeParts DEF RestTypeOK
<1>2. ASSUME NEW x \in LockKeys, locks'[x] # None
      PROVE  /\ Holds(req'[locks'[x]])
             /\ x \in Users => req'[locks'[x]].pc # "user"
  <2>1. CASE locks'[x] = q
    <3>1. CASE req'[q].pc = "user"
      <4>1. x # k => Holds(req[q])
        BY <1>1, <2>1, NoneIsNoRequest DEF LockInv, WaitsEnd, Holds
      <4> QED
        BY <2>1, <3>1, <4>1
    <3> QED
      BY <2>1, <3>1
  <2>2. CASE locks'[x] # q
    <3>1. x # k /\ locks'[x] = locks[x] /\ locks[x] \in Requests
      BY <1>1, <1>2, <2>2, LockFacts
    <3>2. Holds(req[locks[x]]) /\ (x \in Users => req[locks[x]].pc # "user")
      BY <1>1, <1>2, <3>1 DEF LockInv, WaitsEnd, Holds
    <3> QED
      BY <2>2, <3>1, <3>2 DEF Others
  <2> QED
    BY <2>1, <2>2
<1>3. WaitsEnd'
  BY <1>1, <1>2 DEF WaitsEnd, Holds, LockKeys
<1>4. ASSUME NEW p \in Requests, NeedsUser(req'[p]) PROVE locks'[req'[p].u] = p
  <2>1. CASE p = q
    BY <1>4, <2>1
  <2>2. CASE p # q
    <3>1. req'[p] = req[p] /\ locks[req[p].u] = p /\ req[p].u \in LockKeys
      BY <1>4, <2>2, TypeFacts DEF Others, LockInv, UserLocked, NeedsUser, WellFormed, LockKeys
    <3> QED
      BY <1>1, <2>2, <3>1, NoneIsNoRequest
  <2> QED
    BY <2>1, <2>2
<1>5. ASSUME NEW p \in Requests, NeedsSignup(req'[p]), ~conf.seeded PROVE locks'[Signup] = p
  <2>1. CASE p = q
    BY <1>5, <2>1
  <2>2. CASE p # q
    <3>1. locks[Signup] = p /\ Signup \in LockKeys
      BY <1>5, <2>2 DEF Others, LockInv, SignupLocked, NeedsSignup, LockKeys
    <3> QED
      BY <1>1, <2>2, <3>1, NoneIsNoRequest
  <2> QED
    BY <2>1, <2>2
<1> QED
  BY <1>3, <1>4, <1>5 DEF LockInv, UserLocked, SignupLocked, NeedsUser, NeedsSignup

---------------------------------------------------------------------------
(* Which steps change what of a request, and bring it where *)

Stepped(q) ==
    /\ Others(q)
    /\ \/ req'[q] = Idle
       \/ /\ req'[q].op = req[q].op
          /\ req'[q].u = req[q].u \/ req[q].op = "delete"
          /\ req'[q].o = req[q].o \/ Rebuilds(q)
          /\ req'[q].first = req[q].first \/ SignupCount(q) \/ req[q].op = "delete"
          /\ req'[q].build = req[q].build \/ Build(q)
          /\ req'[q].old = req[q].old \/ LoadRole(q)
          /\ req'[q].row.role = req[q].row.role \/ GetUser(q) \/ AddRole(q)
    /\ CASE req'[q].pc \in {"begin", "user", "lock", "count", "commit"} ->
              \/ req'[q].pc = "user" /\ LockInvite(q)
              \/ req'[q].pc = "lock" /\ SignupGate(q) /\ ~conf.seeded
              \/ req'[q].pc = "count" /\ (SignupLock(q) \/ LockUser(q))
              \/ req'[q].pc = "commit" /\ ReadPersonalRole(q)
         [] req'[q].pc = "insert" ->
              CheckMembership(q) \/ SignupCount(q) \/ (SignupGate(q) /\ conf.seeded)
         [] req'[q].pc = "read" -> CheckMembership(q) \/ AddMembership(q) \/ CountMemberships(q)
         [] req'[q].pc \in {"add", "load"} -> Build(q)
         [] req'[q].pc = "swap" -> LoadRole(q)
         [] OTHER -> TRUE

LEMMA EndedSteps == ASSUME NEW q \in Requests, Ended(q) PROVE Stepped(q)
  BY IdleFacts DEF Ended, Stepped

LEMMA HeldSteps ==
  ASSUME NEW q \in Requests, NEW x, NEW c, Held(q, x, c),
         x.role = req[q].row.role \/ GetUser(q) \/ AddRole(q),
         c \in {"get", "fill", "have", "save", "member", "grant", "affected", "empty", "next",
                "remove", "retire", "stamp"}
  PROVE  Stepped(q)
  BY DEF Held, Kept, Stepped

LEMMA StepEffect ==
  ASSUME TypeInv, NEW q \in Requests, RequestStep(q)
  PROVE  Stepped(q)
<1>0. /\ req[q].op \in Ops /\ req[q].pc \in Pcs /\ WellFormed(req[q])
      /\ req \in [Requests -> RequestType]
  BY TypeFacts
<1>1. ASSUME NEW c \in Pcs, Go(q, c)
      PROVE  Held(q, req[q].row, c)
  BY <1>0, <1>1, Going DEF Moved
<1>2. ASSUME \/ Done(q)
             \/ \E c \in {"get", "have", "save", "member", "grant", "affected", "empty", "next",
                          "remove", "retire", "stamp"} : Go(q, c)
      PROVE  Stepped(q)
  <2>1. CASE Done(q)
    BY <1>0, <2>1, Ending, EndedSteps
  <2>2. ASSUME NEW c \in {"get", "have", "save", "member", "grant", "affected", "empty", "next",
                          "remove", "retire", "stamp"}, Go(q, c)
        PROVE  Stepped(q)
    BY <1>1, <2>2, HeldSteps DEF Pcs
  <2> QED
    BY <1>2, <2>1, <2>2
<1>3. CASE GetUser(q)
  <2>1. req[q].op # "idle"
    BY <1>0, <1>3 DEF GetUser, WellFormed
  <2>2. \/ Ended(q) \/ Held(q, req[q].row, "next")
        \/ Held(q, cache[req[q].u], "have") \/ Held(q, row[req[q].u], "fill")
    BY <1>3, <2>1, GetUserEffect DEF Moved
  <2> QED
    BY <1>3, <2>2, HeldSteps, EndedSteps
<1>4. CASE FillCache(q)
  BY <1>2, <1>4 DEF FillCache
<1>5. CASE SaveUser(q)
  <2>1. Go(q, "retire") \/ Go(q, "member") \/ Go(q, "next") \/ Done(q)
    BY <1>5, Zenon DEF SaveUser, AfterSave
  <2> QED
    BY <1>2, <2>1
<1>6. CASE UpdateUser(q)
  BY <1>2, <1>6 DEF UpdateUser
<1>7. CASE SignupGate(q)
  <2>1. CASE Ended(q)
    BY <2>1, EndedSteps
  <2>2. CASE Held(q, req[q].row, IF conf.seeded THEN "insert" ELSE "lock")
    BY <1>7, <2>2 DEF Held, Kept, Stepped
  <2> QED
    BY <1>7, <2>1, <2>2, SignupGateEffect DEF Moved
<1>8. CASE SignupLock(q)
  <2>1. Held(q, req[q].row, "count")
    BY <1>1, <1>8 DEF SignupLock, Pcs
  <2> QED
    BY <1>8, <2>1 DEF Held, Kept, Stepped
<1>9. CASE SignupCount(q)
  <2>1. req[q].op = "signup"
    BY <1>9 DEF SignupCount, At
  <2> QED
    BY <1>9, <2>1, SignupCountEffect DEF Stepped, Rebuilds
<1>10. CASE SignupCommit(q) \/ Login(q)
  BY <1>2, <1>10 DEF SignupCommit, Login
<1>11. CASE Build(q)
  <2>1. CASE Ended(q)
    BY <2>1, EndedSteps
  <2>2. CASE ~Ended(q)
    <3>1. /\ Others(q) /\ req'[q].op = req[q].op /\ req'[q].u = req[q].u
          /\ req'[q].first = req[q].first /\ req'[q].row = req[q].row
          /\ req'[q].old = req[q].old /\ req'[q].pc \in {"add", "load"}
      BY <1>11, <2>2, BuildEffect
    <3>2. Rebuilds(q)
      BY <1>11 DEF Build
    <3> QED
      BY <1>11, <3>1, <3>2 DEF Stepped
  <2> QED
    BY <2>1, <2>2
<1>12. CASE AddRole(q)
  BY <1>12, AddRoleEffect, HeldSteps
<1>13. CASE LoadRole(q)
  <2>1. req[q].row.role # 0 /\ Rebuilds(q)
    BY <1>0, <1>13 DEF LoadRole, Rebuilds, Rebuilding, WellFormed
  <2> QED
    BY <1>13, <2>1, LoadRoleEffect DEF Stepped
<1>14. CASE SwapRole(q)
  BY <1>2, <1>14 DEF SwapRole
<1>15. CASE Stamp(q)
  <2>1. req[q].row \in Rows
    BY <1>0, <1>15 DEF Stamp, WellFormed
  <2>2. VersionIn(req[q].row, grants).role = req[q].row.role
    BY <1>15, <2>1, StampEffect, RowFacts
  <2> QED
    BY <1>15, <2>2, StampEffect, HeldSteps
<1>16. CASE Retire(q) \/ RebuildFails(q)
  BY <1>2, <1>16 DEF Retire, RebuildFails
<1>17. CASE AddOrg(q) \/ GrantOwner(q)
  BY <1>2, <1>17 DEF AddOrg, GrantOwner
<1>18. CASE CheckMembership(q) \/ AddMembership(q)
  <2>1. \/ Held(q, req[q].row, "read")
        \/ Held(q, req[q].row, "insert") /\ CheckMembership(q)
    BY <1>1, <1>18 DEF CheckMembership, AddMembership, Pcs
  <2> QED
    BY <1>18, <2>1 DEF Held, Kept, Stepped
<1>19. ASSUME NEW o \in Orgs \cup {None}, req[q].pc = "have",
              req' = [req EXCEPT ![q].row.org = o, ![q].pc = "save"]
       PROVE  Stepped(q)
  <2>1. req[q].row \in Rows
    BY <1>0, <1>19 DEF WellFormed
  <2>2. Held(q, OrgIn(req[q].row, o), "save")
    BY <1>0, <1>19, <2>1, HoldingOrg DEF Pcs
  <2>3. OrgIn(req[q].row, o).role = req[q].row.role
    BY <2>1, RowFacts
  <2> QED
    BY <2>2, <2>3, HeldSteps
<1>20. CASE PutInOrg(q)
  BY <1>0, <1>19, <1>20 DEF PutInOrg, At, WellFormed
<1>21. CASE Reassign(q)
  BY <1>19, <1>21, TypeFacts DEF Reassign, At
<1>22. CASE SwitchOrg(q)
  BY <1>0, <1>2, <1>19, <1>22 DEF SwitchOrg, At, WellFormed
<1>23. CASE LeaveActive(q)
  <2>1. Oldest(members[req[q].u]) \in Orgs \cup {None}
    BY <1>0, <1>23, OldestType DEF LeaveActive, At, WellFormed
  <2> QED
    BY <1>2, <2>1, <1>19, <1>23 DEF LeaveActive, At
<1>24. CASE ReadPersonalRole(q)
  <2>1. req[q].op # "idle"
    BY <1>0, <1>24 DEF ReadPersonalRole, WellFormed
  <2>2. \/ Ended(q) \/ Held(q, req[q].row, "grant") \/ Held(q, req[q].row, "commit")
    BY <1>24, <2>1, ReadPersonalRoleEffect DEF Moved
  <2>3. CASE Held(q, req[q].row, "commit")
    BY <1>24, <2>3 DEF Held, Kept, Stepped
  <2> QED
    BY <2>2, <2>3, HeldSteps, EndedSteps
<1>25. CASE RemoveOrg(q) \/ DeactivateMemberships(q) \/ DeleteOrgReturns(q)
  BY <1>2, <1>25 DEF RemoveOrg, DeactivateMemberships, DeleteOrgReturns
<1>26. CASE FindAffected(q)
  BY <1>26, FindAffectedEffect, HeldSteps DEF Moved
<1>27. CASE NextAffected(q)
  BY <1>27, NextAffectedEffect DEF Stepped
<1>28. CASE CheckLeave(q) \/ RemoveMembership(q) \/ OrgCallFails(q)
  BY <1>2, <1>28 DEF CheckLeave, RemoveMembership, OrgCallFails
<1>29. CASE LockInvite(q)
  <2>1. Ended(q) \/ Held(q, req[q].row, "user")
    BY <1>0, <1>1, <1>29, Ending DEF LockInvite, Pcs
  <2>2. CASE Held(q, req[q].row, "user")
    BY <1>29, <2>2 DEF Held, Kept, Stepped
  <2> QED
    BY <2>1, <2>2, EndedSteps
<1>30. CASE LockUser(q)
  <2>1. Ended(q) \/ Held(q, req[q].row, "count")
    BY <1>0, <1>1, <1>30, Ending DEF LockUser, Pcs
  <2>2. CASE Held(q, req[q].row, "count")
    BY <1>30, <2>2 DEF Held, Kept, Stepped
  <2> QED
    BY <2>1, <2>2, EndedSteps
<1>31. CASE CountMemberships(q)
  <2>1. Ended(q) \/ Held(q, req[q].row, "read")
    BY <1>0, <1>1, <1>31, Ending DEF CountMemberships, Pcs
  <2>2. CASE Held(q, req[q].row, "read")
    BY <1>31, <2>2 DEF Held, Kept, Stepped
  <2> QED
    BY <2>1, <2>2, EndedSteps
<1>32. CASE CommitAccept(q) \/ AcceptFails(q) \/ AnswerInvite(q)
  BY <1>2, <1>32 DEF CommitAccept, AcceptFails, AnswerInvite
<1> QED
  BY <1>3, <1>4, <1>5, <1>6, <1>7, <1>8, <1>9, <1>10, <1>11, <1>12, <1>13, <1>14, <1>15, <1>16,
     <1>17, <1>18, <1>20, <1>21, <1>22, <1>23, <1>24, <1>25, <1>26, <1>27, <1>28, <1>29, <1>30,
     <1>31, <1>32 DEF RequestStep

---------------------------------------------------------------------------
(* Locks: every step *)

LEMMA LockStart == ASSUME TypeInv, LockInv, NEW q \in Requests, Start(q) PROVE LockInv'
<1>1. PICK op, u, o, i : Begun(q, op, u, o, i)
  BY StartEffect DEF Started
<1>2. Others(q) /\ ~Holds(req[q]) /\ ~NeedsUser(req'[q]) /\ ~NeedsSignup(req'[q])
  BY <1>1 DEF Begun, Holds, NeedsUser, NeedsSignup
<1> QED
  BY <1>2, LocksKept DEF Start

(* The steps that take or end a lock, or stay in their transaction. *)
Locking(q) ==
    \/ SignupLock(q) \/ SignupCount(q) \/ SignupCommit(q)
    \/ LockInvite(q) \/ LockUser(q) \/ CountMemberships(q) \/ CommitAccept(q) \/ AcceptFails(q)
    \/ ReadPersonalRole(q)

LEMMA LockAside ==
  ASSUME TypeInv, LockInv, NEW q \in Requests, RequestStep(q), ~Locking(q)
  PROVE  LockInv'
<1>1. Stepped(q) /\ req[q].op \in Ops /\ WellFormed(req[q])
  BY StepEffect, TypeFacts
<1>2. UNCHANGED <<locks, conf>>
  BY DEF Locking, RequestStep, GetUser, FillCache, SaveUser, UpdateUser, SignupGate, Login, Build,
     AddRole, LoadRole, SwapRole, Stamp, Retire, RebuildFails, AddOrg, PutInOrg, CheckMembership,
     AddMembership, GrantOwner, RemoveOrg, FindAffected, DeactivateMemberships,
     NextAffected, Reassign, DeleteOrgReturns, SwitchOrg, CheckLeave, RemoveMembership, LeaveActive,
     OrgCallFails, AnswerInvite
<1>3. ~Holds(req[q])
  BY DEF Locking, Holds, RequestStep, GetUser, FillCache, SaveUser, UpdateUser, SignupGate, Login,
     Build, AddRole, LoadRole, SwapRole, Stamp, Retire, RebuildFails, AddOrg, PutInOrg,
     CheckMembership, AddMembership, GrantOwner, RemoveOrg, FindAffected, DeactivateMemberships,
     NextAffected, Reassign, DeleteOrgReturns, SwitchOrg, CheckLeave, RemoveMembership, LeaveActive,
     OrgCallFails, AnswerInvite, At
<1>4. /\ CheckMembership(q) \/ AddMembership(q) => req[q].op = "create"
      /\ SignupGate(q) => req[q].op = "signup"
  BY DEF CheckMembership, AddMembership, SignupGate, At
<1>5. ~NeedsUser(req'[q]) /\ (NeedsSignup(req'[q]) => conf.seeded)
  BY <1>1, <1>4, IdleFacts DEF Stepped, NeedsUser, NeedsSignup, Locking
<1> QED
  BY <1>1, <1>2, <1>3, <1>5, LocksKept DEF Stepped

LEMMA LockStep ==
  ASSUME TypeInv, LockInv, NEW q \in Requests, RequestStep(q)
  PROVE  LockInv'
<1>0. /\ req[q].op \in Ops /\ req[q].pc \in Pcs /\ WellFormed(req[q])
      /\ req \in [Requests -> RequestType]
  BY TypeFacts
<1>1. ASSUME NEW c \in Pcs, Go(q, c)
      PROVE  Others(q) /\ req'[q].op = req[q].op /\ req'[q].u = req[q].u /\ req'[q].pc = c
  BY <1>0, <1>1, Going DEF Moved, Held, Kept
<1>2. ASSUME Done(q)
      PROVE  Others(q) /\ ~NeedsUser(req'[q]) /\ ~NeedsSignup(req'[q])
  BY <1>0, <1>2, Ending, IdleFacts DEF Ended, NeedsUser, NeedsSignup
<1>3. CASE SignupLock(q)
  <2>1. /\ locks[Signup] = None /\ locks' = [locks EXCEPT ![Signup] = q] /\ UNCHANGED conf
        /\ Go(q, "count") /\ req[q].op = "signup" /\ "count" \in Pcs /\ Signup \in LockKeys
    BY <1>3 DEF SignupLock, TakeSignupLock, At, Pcs, LockKeys
  <2>2. Others(q) /\ req'[q].op = "signup" /\ req'[q].pc = "count"
    BY <1>1, <2>1
  <2>3. locks'[Signup] = q
    BY <2>1, TypeParts DEF RestTypeOK
  <2>4. Holds(req'[q]) /\ req'[q].pc # "user" /\ ~NeedsUser(req'[q])
    BY <2>2 DEF Holds, NeedsUser
  <2> QED
    BY <2>1, <2>2, <2>3, <2>4, LockTaken
<1>4. CASE SignupCount(q)
  <2>1. /\ UNCHANGED <<locks, conf>> /\ (~conf.seeded => locks[Signup] = q)
    BY <1>4 DEF SignupCount, At, LockInv, SignupLocked
  <2>2. /\ Others(q) /\ Holds(req'[q]) /\ req'[q].pc # "user" /\ ~NeedsUser(req'[q])
    BY <1>4, SignupCountEffect DEF Holds, NeedsUser
  <2> QED
    BY <2>1, <2>2, LocksKept
<1>5. CASE SignupCommit(q)
  <2>1. /\ Release(q) /\ UNCHANGED conf /\ req[q].op = "signup" /\ "get" \in Pcs
        /\ Go(q, "get") \/ Done(q)
    BY <1>5 DEF SignupCommit, At, Pcs
  <2>2. Others(q) /\ ~NeedsUser(req'[q]) /\ ~NeedsSignup(req'[q])
    BY <1>1, <1>2, <2>1 DEF NeedsUser, NeedsSignup
  <2> QED
    BY <2>1, <2>2, LocksReleased
<1>6. CASE LockInvite(q)
  <2>1. /\ req[q].op = "accept" /\ req[q].pc = "begin" /\ req[q].i \in Invites
        /\ locks[req[q].i] \in {None, q} /\ UNCHANGED conf /\ ~Holds(req[q])
    BY <1>0, <1>6 DEF LockInvite, At, Free, WellFormed, Holds
  <2>2. CASE locks' = [locks EXCEPT ![req[q].i] = q] /\ Go(q, "user")
    <3>1. Others(q) /\ req'[q].op = "accept" /\ req'[q].pc = "user"
      BY <1>1, <2>1, <2>2 DEF Pcs
    <3>2. req[q].i \in LockKeys /\ req[q].i \notin Users
      BY <2>1, AccountConstants DEF LockKeys
    <3>3. Holds(req'[q]) /\ ~NeedsUser(req'[q]) /\ ~NeedsSignup(req'[q])
      BY <3>1 DEF Holds, NeedsUser, NeedsSignup
    <3> QED
      BY <2>1, <2>2, <3>1, <3>2, <3>3, LockTaken
  <2>3. CASE Done(q) /\ UNCHANGED locks
    BY <1>2, <2>1, <2>3, LocksKept
  <2> QED
    BY <1>6, <2>2, <2>3 DEF LockInvite
<1>7. CASE LockUser(q)
  <2>1. req[q].op = "accept" /\ UNCHANGED conf /\ req[q].u \in Users /\ req[q].u \in LockKeys
    BY <1>0, <1>7 DEF LockUser, At, WellFormed, LockKeys
  <2>2. CASE TakeUserLock(q) /\ Go(q, "count")
    <3>1. Others(q) /\ req'[q].op = "accept" /\ req'[q].pc = "count" /\ req'[q].u = req[q].u
      BY <1>1, <2>1, <2>2 DEF Pcs
    <3>2. locks[req[q].u] \in {None, q} /\ locks' = [locks EXCEPT ![req[q].u] = q]
      BY <2>2 DEF TakeUserLock, Free
    <3>3. locks'[req[q].u] = q
      BY <2>1, <3>2, TypeParts DEF RestTypeOK
    <3>4. Holds(req'[q]) /\ ~NeedsSignup(req'[q]) /\ req'[q].pc # "user"
      BY <3>1 DEF Holds, NeedsSignup
    <3> QED
      BY <2>1, <3>1, <3>2, <3>3, <3>4, LockTaken
  <2>3. CASE Release(q) /\ Done(q)
    BY <1>2, <2>1, <2>3, LocksReleased
  <2> QED
    BY <1>7, <2>2, <2>3 DEF LockUser
<1>8. CASE CountMemberships(q)
  <2>1. /\ req[q].op = "accept" /\ UNCHANGED conf /\ locks[req[q].u] = q
    BY <1>8 DEF CountMemberships, At, LockInv, UserLocked
  <2>2. CASE Go(q, "read") /\ UNCHANGED locks
    <3>1. Others(q) /\ req'[q].op = "accept" /\ req'[q].pc = "read" /\ req'[q].u = req[q].u
      BY <1>1, <2>1, <2>2 DEF Pcs
    <3>2. Holds(req'[q]) /\ ~NeedsSignup(req'[q]) /\ req'[q].pc # "user"
      BY <3>1 DEF Holds, NeedsSignup
    <3> QED
      BY <2>1, <2>2, <3>1, <3>2, LocksKept
  <2>3. CASE Release(q) /\ Done(q)
    BY <1>2, <2>1, <2>3, LocksReleased
  <2> QED
    BY <1>8, <2>2, <2>3 DEF CountMemberships
<1>9. CASE CommitAccept(q) \/ AcceptFails(q)
  <2>1. Release(q) /\ Done(q) /\ UNCHANGED conf
    BY <1>9 DEF CommitAccept, AcceptFails, AbortReleases
  <2> QED
    BY <1>2, <2>1, LocksReleased
<1>10. CASE ReadPersonalRole(q)
  <2>1. req[q].op # "idle" /\ req[q].pc = "read" /\ UNCHANGED <<locks, conf>>
    BY <1>0, <1>10 DEF ReadPersonalRole, WellFormed
  <2>2. CASE Ended(q) /\ req[q].op = "create"
    <3>1. Others(q) /\ ~NeedsUser(req'[q]) /\ ~NeedsSignup(req'[q]) /\ ~Holds(req[q])
      BY <2>2, IdleFacts DEF Ended, NeedsUser, NeedsSignup, Holds
    <3> QED
      BY <2>1, <3>1, LocksKept
  <2>3. CASE Moved(q, IF req[q].op = "create" THEN "grant" ELSE "commit")
    <3>1. /\ Others(q) /\ req'[q].op = req[q].op /\ req'[q].u = req[q].u
          /\ req'[q].pc = IF req[q].op = "create" THEN "grant" ELSE "commit"
      BY <2>3 DEF Moved, Held, Kept
    <3>2. Holds(req[q]) => Holds(req'[q]) /\ req'[q].pc # "user"
      BY <2>1, <3>1 DEF Holds
    <3>3. NeedsUser(req'[q]) => locks[req'[q].u] = q
      BY <2>1, <3>1 DEF NeedsUser, LockInv, UserLocked
    <3>4. ~NeedsSignup(req'[q])
      BY <3>1 DEF NeedsSignup
    <3> QED
      BY <2>1, <3>1, <3>2, <3>3, <3>4, LocksKept
  <2> QED
    BY <1>10, <2>1, <2>2, <2>3, ReadPersonalRoleEffect
<1> QED
  BY <1>3, <1>4, <1>5, <1>6, <1>7, <1>8, <1>9, <1>10, LockAside DEF Locking

LEMMA LockQuiet ==
  ASSUME LockInv, UNCHANGED <<req, locks, conf>> PROVE LockInv'
  BY DEF LockInv, WaitsEnd, UserLocked, SignupLocked

---------------------------------------------------------------------------
(* The bootstrap admin: every step *)

(* No account appears, and the admin is the same. *)
NoneEnters ==
    /\ UNCHANGED <<conf, admin>>
    /\ \A u \in Users : account'[u] = "none" <=> account[u] = "none"

LEMMA AdminQuiet ==
  ASSUME TypeInv, AdminInv, NoneEnters, UNCHANGED req PROVE AdminInv'
<1>1. \A q \in Requests : req[q].op = "signup" => req[q].u \in Users
  BY TypeFacts DEF WellFormed
<1>2. OneSignup' /\ SeededSkips' /\ EnteringIsNew'
  BY <1>1 DEF AdminInv, NoneEnters, OneSignup, SeededSkips, EnteringIsNew, Entering
<1>3. CountStands'
  BY DEF AdminInv, NoneEnters, CountStands
<1>4. AdminHasAccount' /\ TheAdmin'
  BY DEF AdminInv, NoneEnters, AdminHasAccount, TheAdmin
<1> QED
  BY <1>2, <1>3, <1>4 DEF AdminInv

LEMMA AdminKept ==
  ASSUME TypeInv, AdminInv, NEW q \in Requests, Others(q), NoneEnters,
         req'[q].op = "signup" =>
            /\ req[q].op = "signup" /\ req'[q].u = req[q].u
            /\ Entering(req[q]) <=> Entering(req'[q])
            /\ conf.seeded => req'[q].pc \notin {"lock", "count"} /\ ~req'[q].first
            /\ ~conf.seeded /\ req'[q].pc = "insert" =>
                  (req'[q].first <=> \A u \in Users : account[u] = "none")
  PROVE  AdminInv'
<1>1. ASSUME NEW p \in Requests, req'[p].op = "signup"
      PROVE  /\ req[p].op = "signup" /\ req'[p].u = req[p].u /\ req[p].u \in Users
             /\ Entering(req[p]) <=> Entering(req'[p])
             /\ conf.seeded => req'[p].pc \notin {"lock", "count"} /\ ~req'[p].first
             /\ ~conf.seeded /\ req'[p].pc = "insert" =>
                   (req'[p].first <=> \A u \in Users : account[u] = "none")
  <2>1. CASE p = q
    BY <1>1, <2>1, TypeFacts DEF WellFormed
  <2>2. CASE p # q
    <3>1. req'[p] = req[p]
      BY <2>2 DEF Others
    <3>2. req[p].u \in Users
      BY <1>1, <3>1, TypeFacts DEF WellFormed
    <3> QED
      BY <1>1, <3>1, <3>2 DEF AdminInv, SeededSkips, CountStands
  <2> QED
    BY <2>1, <2>2
<1>2. OneSignup'
  BY <1>1 DEF AdminInv, OneSignup
<1>3. EnteringIsNew'
  <2>1. ASSUME NEW p \in Requests, req'[p].op = "signup"
        PROVE  Entering(req'[p]) <=> account'[req'[p].u] = "none"
    BY <1>1, <2>1 DEF AdminInv, EnteringIsNew, NoneEnters
  <2> QED
    BY <2>1 DEF EnteringIsNew, Entering
<1>4. SeededSkips' /\ CountStands'
  BY <1>1 DEF SeededSkips, CountStands, NoneEnters
<1>5. AdminHasAccount' /\ TheAdmin'
  BY DEF AdminInv, NoneEnters, AdminHasAccount, TheAdmin
<1> QED
  BY <1>2, <1>3, <1>4, <1>5 DEF AdminInv

LEMMA AdminStart == ASSUME TypeInv, AdminInv, NEW q \in Requests, Start(q) PROVE AdminInv'
<1>0. NoneEnters
  BY DEF Start, NoneEnters, userVars
<1>1. PICK u \in Users, o \in Orgs \cup {None}, i \in Invites \cup {None}, op \in Ops :
        /\ Begun(q, op, u, o, i)
        /\ op = "signup" => /\ account[u] = "none"
                            /\ \A p \in Requests : ~(req[p].op = "signup" /\ req[p].u = u)
  BY StartEffect DEF Started, Ops
<1>2. CASE op # "signup"
  <2>1. Others(q) /\ req'[q].op # "signup"
    BY <1>1, <1>2 DEF Begun
  <2> QED
    BY <1>0, <2>1, AdminKept
<1>3. CASE op = "signup"
  <2>1. /\ req'[q].op = "signup" /\ req'[q].pc = "begin" /\ req'[q].u = u /\ ~req'[q].first
        /\ \A p \in Requests : p # q => req'[p] = req[p]
    BY <1>1, <1>3 DEF Begun, Others
  <2>2. OneSignup'
    BY <1>1, <1>3, <2>1 DEF AdminInv, OneSignup
  <2>3. EnteringIsNew'
    <3>1. ASSUME NEW p \in Requests, req'[p].op = "signup"
          PROVE  Entering(req'[p]) <=> account'[req'[p].u] = "none"
      <4>1. CASE p = q
        BY <1>0, <1>1, <1>3, <2>1, <4>1 DEF Entering, NoneEnters
      <4>2. CASE p # q
        BY <1>0, <2>1, <3>1, <4>2, TypeFacts DEF AdminInv, EnteringIsNew, NoneEnters, WellFormed
      <4> QED
        BY <4>1, <4>2
    <3> QED
      BY <3>1 DEF EnteringIsNew, Entering
  <2>4. SeededSkips' /\ CountStands'
    BY <1>0, <2>1 DEF AdminInv, SeededSkips, CountStands, NoneEnters
  <2>5. AdminHasAccount' /\ TheAdmin'
    BY <1>0 DEF AdminInv, NoneEnters, AdminHasAccount, TheAdmin
  <2> QED
    BY <2>2, <2>3, <2>4, <2>5 DEF AdminInv
<1> QED
  BY <1>2, <1>3

(* instanceUserCount is 0 exactly when nobody ever signed up. *)
LEMMA CountIsZero == InstanceUserCount = 0 <=> \A u \in Users : account[u] = "none"
<1> DEFINE S == {u \in Users : account[u] # "none"}
<1>1. IsFiniteSet(S)
  BY AccountConstants, FS_Subset
<1>2. Cardinality(S) = 0 <=> S = {}
  BY <1>1, FS_EmptySet
<1> QED
  BY <1>2 DEF InstanceUserCount

(* A signup that commits: the one that counted nobody is the admin. *)
LEMMA AdminCommit ==
  ASSUME TypeInv, LockInv, AdminInv, NEW q \in Requests, SignupCommit(q)
  PROVE  AdminInv'
<1>0. /\ req \in [Requests -> RequestType] /\ req[q].op = "signup" /\ req[q].pc = "insert"
      /\ req[q].u \in Users /\ req[q].first \in BOOLEAN /\ UNCHANGED conf
  BY TypeFacts DEF SignupCommit, At, WellFormed
<1>1. CASE Done(q) /\ UNCHANGED <<account, admin>>
  <2>1. Others(q) /\ req'[q].op # "signup"
    BY <1>0, <1>1, Ending, IdleFacts DEF Ended
  <2>2. NoneEnters
    BY <1>0, <1>1 DEF NoneEnters
  <2> QED
    BY <2>1, <2>2, AdminKept
<1>2. CASE /\ account' = [account EXCEPT ![req[q].u] = "active"]
           /\ admin' = [admin EXCEPT ![req[q].u] = req[q].first]
           /\ Go(q, "get")
  <2> DEFINE w == req[q].u
  <2>1. /\ \A p \in Requests : p # q => req'[p] = req[p]
        /\ req'[q].op = "signup" /\ req'[q].pc = "get" /\ req'[q].u = w
        /\ req'[q].first = req[q].first
    BY <1>0, <1>2, Going DEF Moved, Held, Kept, Others, Pcs
  <2>2. /\ account'[w] = "active" /\ \A u \in Users : u # w => account'[u] = account[u]
        /\ admin'[w] = req[q].first /\ \A u \in Users : u # w => admin'[u] = admin[u]
    BY <1>0, <1>2 DEF TypeInv, TypeOK
  <2>3. account[w] = "none" /\ ~admin[w]
    BY <1>0 DEF AdminInv, EnteringIsNew, Entering, AdminHasAccount
  <2>4. OneSignup'
    BY <1>0, <2>1 DEF AdminInv, OneSignup
  <2>5. EnteringIsNew'
    <3>1. ASSUME NEW p \in Requests, req'[p].op = "signup"
          PROVE  Entering(req'[p]) <=> account'[req'[p].u] = "none"
      <4>1. CASE p = q
        BY <2>1, <2>2, <4>1 DEF Entering
      <4>2. CASE p # q
        <5>1. req[p].u # w /\ req[p].u \in Users
          BY <1>0, <2>1, <3>1, <4>2, TypeFacts DEF AdminInv, OneSignup, WellFormed
        <5> QED
          BY <2>1, <2>2, <3>1, <4>2, <5>1 DEF AdminInv, EnteringIsNew
      <4> QED
        BY <4>1, <4>2
    <3> QED
      BY <3>1 DEF EnteringIsNew, Entering
  <2>6. SeededSkips'
    BY <1>0, <2>1 DEF AdminInv, SeededSkips
  <2>7. CountStands'
    <3>1. ASSUME NEW p \in Requests, ~conf.seeded, req'[p].op = "signup", req'[p].pc = "insert"
          PROVE  FALSE
      <4>1. p # q /\ req'[p] = req[p]
        BY <2>1, <3>1
      <4>2. locks[Signup] = p /\ locks[Signup] = q
        BY <1>0, <3>1, <4>1 DEF LockInv, SignupLocked
      <4> QED
        BY <4>1, <4>2
    <3> QED
      BY <1>0, <3>1 DEF CountStands
  <2>8. AdminHasAccount'
    BY <2>2 DEF AdminInv, AdminHasAccount
  <2>9. TheAdmin'
    <3>1. CASE conf.seeded
      <4>1. ~req[q].first
        BY <1>0, <3>1 DEF AdminInv, SeededSkips
      <4> QED
        BY <1>0, <2>2, <3>1, <4>1 DEF AdminInv, TheAdmin
    <3>2. CASE ~conf.seeded /\ req[q].first
      <4>1. \A u \in Users : account[u] = "none"
        BY <1>0, <3>2 DEF AdminInv, CountStands
      <4>2. \A u \in Users : admin'[u] <=> u = w
        BY <2>2, <3>2, <4>1 DEF AdminInv, AdminHasAccount
      <4> QED
        BY <1>0, <3>2, <4>2 DEF TheAdmin
    <3>3. CASE ~conf.seeded /\ ~req[q].first
      <4>1. \E u \in Users : account[u] # "none"
        BY <1>0, <3>3 DEF AdminInv, CountStands
      <4>2. PICK boss \in Users : \A u \in Users : admin[u] <=> u = boss
        BY <3>3, <4>1 DEF AdminInv, TheAdmin
      <4>3. \A u \in Users : admin'[u] <=> u = boss
        BY <2>2, <2>3, <3>3, <4>2
      <4> QED
        BY <1>0, <3>3, <4>3 DEF TheAdmin
    <3> QED
      BY <1>0, <3>1, <3>2, <3>3
  <2> QED
    BY <2>4, <2>5, <2>6, <2>7, <2>8, <2>9 DEF AdminInv
<1> QED
  BY <1>1, <1>2 DEF SignupCommit

LEMMA AdminStep ==
  ASSUME TypeInv, LockInv, AdminInv, NEW q \in Requests, RequestStep(q)
  PROVE  AdminInv'
<1>0. Stepped(q) /\ req[q].op \in Ops /\ WellFormed(req[q]) /\ req \in [Requests -> RequestType]
  BY StepEffect, TypeFacts
<1>1. CASE SignupCommit(q)
  BY <1>1, AdminCommit
<1>2. CASE SignupGate(q)
  <2>1. NoneEnters /\ Entering(req[q]) /\ req[q].op = "signup"
    BY <1>2 DEF SignupGate, At, NoneEnters, Entering, userVars
  <2>2. CASE Ended(q)
    BY <2>1, <2>2, AdminKept, IdleFacts DEF Ended
  <2>3. CASE Moved(q, IF conf.seeded THEN "insert" ELSE "lock")
    <3>1. /\ Others(q) /\ req'[q].op = "signup" /\ req'[q].u = req[q].u
          /\ req'[q].first = req[q].first
          /\ req'[q].pc = IF conf.seeded THEN "insert" ELSE "lock"
      BY <2>1, <2>3 DEF Moved, Held, Kept
    <3>2. Entering(req'[q]) /\ (conf.seeded => ~req[q].first)
      BY <2>1, <3>1 DEF Entering, AdminInv, SeededSkips
    <3> QED
      BY <2>1, <3>1, <3>2, AdminKept
  <2> QED
    BY <1>2, <2>2, <2>3, SignupGateEffect
<1>3. CASE SignupLock(q)
  <2>1. NoneEnters /\ Entering(req[q]) /\ req[q].op = "signup" /\ Go(q, "count") /\ ~conf.seeded
    BY <1>3 DEF SignupLock, At, NoneEnters, Entering, userVars, AdminInv, SeededSkips
  <2>2. /\ Others(q) /\ req'[q].op = "signup" /\ req'[q].u = req[q].u /\ req'[q].pc = "count"
    BY <1>0, <2>1, Going DEF Moved, Held, Kept, Pcs
  <2> QED
    BY <2>1, <2>2, AdminKept DEF Entering
<1>4. CASE SignupCount(q)
  <2>1. NoneEnters /\ Entering(req[q]) /\ req[q].op = "signup" /\ ~conf.seeded
    BY <1>4 DEF SignupCount, At, NoneEnters, Entering, userVars, AdminInv, SeededSkips
  <2>2. /\ Others(q) /\ req'[q].op = "signup" /\ req'[q].u = req[q].u /\ req'[q].pc = "insert"
        /\ req'[q].first <=> \A u \in Users : account[u] = "none"
    BY <1>4, SignupCountEffect, CountIsZero
  <2> QED
    BY <2>1, <2>2, AdminKept DEF Entering
<1>5. CASE ~(SignupGate(q) \/ SignupLock(q) \/ SignupCount(q) \/ SignupCommit(q))
  <2>1. ~Entering(req[q])
    BY <1>5 DEF Entering, RequestStep, GetUser, FillCache, SaveUser, UpdateUser, Login, Build,
       AddRole, LoadRole, SwapRole, Stamp, Retire, RebuildFails, AddOrg, PutInOrg, CheckMembership,
       AddMembership, ReadPersonalRole, GrantOwner, RemoveOrg, FindAffected, DeactivateMemberships,
       NextAffected, Reassign, DeleteOrgReturns, SwitchOrg, CheckLeave, RemoveMembership,
       LeaveActive, OrgCallFails, LockInvite, LockUser, CountMemberships, CommitAccept,
       AcceptFails, AnswerInvite, At
  <2>2. UNCHANGED <<conf, admin, account>> \/ RebuildFails(q)
    BY <1>5 DEF RequestStep, GetUser, FillCache, SaveUser, UpdateUser, Login, Build,
       AddRole, LoadRole, SwapRole, Stamp, Retire, AddOrg, PutInOrg, CheckMembership,
       AddMembership, ReadPersonalRole, GrantOwner, RemoveOrg, FindAffected, DeactivateMemberships,
       NextAffected, Reassign, DeleteOrgReturns, SwitchOrg, CheckLeave, RemoveMembership,
       LeaveActive, OrgCallFails, LockInvite, LockUser, CountMemberships, CommitAccept,
       AcceptFails, AnswerInvite, userVars
  <2>3. CASE RebuildFails(q)
    <3>1. UNCHANGED <<conf, admin>> /\ Done(q)
      BY <2>3 DEF RebuildFails
    <3>2. \/ UNCHANGED account
          \/ req[q].op = "signup" /\ account' = [account EXCEPT ![req[q].u] = "removed"]
      BY <2>3 DEF RebuildFails
    <3>3. req[q].op = "signup" => account[req[q].u] # "none"
      BY <2>1 DEF AdminInv, EnteringIsNew
    <3>4. NoneEnters
      BY <3>1, <3>2, <3>3 DEF NoneEnters, TypeInv, TypeOK
    <3>5. Others(q) /\ req'[q].op # "signup"
      BY <1>0, <3>1, Ending, IdleFacts DEF Ended
    <3> QED
      BY <3>4, <3>5, AdminKept
  <2>4. CASE UNCHANGED <<conf, admin, account>>
    <3>1. NoneEnters
      BY <2>4 DEF NoneEnters
    <3>2. LockUser(q) \/ CheckMembership(q) => req[q].op \in {"accept", "create"}
      BY DEF LockUser, CheckMembership, At
    <3>3. Others(q) /\ (req'[q].op = "signup" => /\ req[q].op = "signup" /\ req'[q].u = req[q].u
                                                /\ req'[q].first = req[q].first
                                                /\ req'[q].pc \notin {"begin", "lock", "count", "insert"})
      BY <1>0, <1>5, <3>2, IdleFacts DEF Stepped
    <3>4. req'[q].op = "signup" => ~Entering(req'[q])
      BY <3>3 DEF Entering
    <3>5. req'[q].op = "signup" /\ conf.seeded => ~req'[q].first
      BY <3>3 DEF AdminInv, SeededSkips
    <3> QED
      BY <2>1, <3>1, <3>3, <3>4, <3>5, AdminKept
  <2> QED
    BY <2>2, <2>3, <2>4
<1> QED
  BY <1>1, <1>2, <1>3, <1>4, <1>5

---------------------------------------------------------------------------
(* Memberships: every step *)

(* Nobody becomes a member, and the organisations keep their owners. *)
NoneJoins ==
    /\ \A u \in Users : members'[u] \subseteq members[u]
    /\ used'.joins = used.joins
    /\ \A o \in Orgs : /\ org'[o].owner = org[o].owner
                       /\ org'[o].state = "none" <=> org[o].state = "none"

(* An acceptance that has judged the membership. *)
Judged(r) == r.op = "accept" /\ r.pc \in {"read", "commit"}

LEMMA MembersSame ==
  ASSUME TypeInv, MemberInv, NoneJoins
  PROVE  UnbornHasNoOwner' /\ JoinedBefore' /\ OneMembership'
<1>1. ASSUME NEW u \in Users, NEW m \in members[u] PROVE m.org \in Orgs /\ m.at \in Nat
  BY TypeParts DEF OrgTypeOK
<1>2. UnbornHasNoOwner'
  BY DEF MemberInv, UnbornHasNoOwner, NoneJoins
<1>3. JoinedBefore'
  BY DEF MemberInv, JoinedBefore, NoneJoins
<1>4. ASSUME NEW u \in Users, NEW m \in members'[u], NEW k \in members'[u],
             m.org = k.org, org'[m.org].owner # u
      PROVE  m = k
  <2>1. m \in members[u] /\ k \in members[u]
    BY DEF NoneJoins
  <2>2. org[m.org].owner # u
    BY <1>1, <1>4, <2>1 DEF NoneJoins
  <2> QED
    BY <1>4, <2>1, <2>2 DEF MemberInv, OneMembership
<1> QED
  BY <1>2, <1>3, <1>4 DEF OneMembership

LEMMA MemberQuiet ==
  ASSUME TypeInv, MemberInv, NoneJoins, UNCHANGED req PROVE MemberInv'
<1>1. \A q \in Requests : /\ req[q].op \in {"create", "accept"} => req[q].o \in Orgs
                          /\ req[q].op # "idle" => req[q].u \in Users
  BY TypeFacts DEF WellFormed
<1>2. CreateIsFirst' /\ OneCreate' /\ CreatorOwns'
  BY <1>1 DEF MemberInv, NoneJoins, CreateIsFirst, OneCreate, CreatorOwns
<1>3. AcceptStands'
  BY <1>1 DEF MemberInv, NoneJoins, AcceptStands, IsMember
<1> QED
  BY <1>2, <1>3, MembersSame DEF MemberInv

LEMMA MemberKept ==
  ASSUME TypeInv, MemberInv, NEW q \in Requests, Others(q), NoneJoins,
         req'[q].op = "create" =>
            /\ req[q].op = "create" /\ req'[q].u = req[q].u /\ req'[q].o = req[q].o
            /\ req[q].pc # "begin" /\ req'[q].pc # "begin",
         Judged(req'[q]) =>
            /\ req[q].op = "accept" /\ req'[q].u = req[q].u /\ req'[q].o = req[q].o
            /\ Judged(req[q]) \/ ~IsMember(req[q].u, req[q].o)
  PROVE  MemberInv'
<1>1. ASSUME NEW p \in Requests, req'[p].op = "create"
      PROVE  /\ req[p].op = "create" /\ req'[p].u = req[p].u /\ req'[p].o = req[p].o
             /\ req[p].o \in Orgs
             /\ req'[p].pc = "begin" <=> req[p].pc = "begin"
  <2>1. CASE p = q
    BY <1>1, <2>1, TypeFacts DEF WellFormed
  <2>2. CASE p # q
    BY <1>1, <2>2, TypeFacts DEF WellFormed, Others
  <2> QED
    BY <2>1, <2>2
<1>2. CreateIsFirst' /\ OneCreate' /\ CreatorOwns'
  BY <1>1 DEF MemberInv, NoneJoins, CreateIsFirst, OneCreate, CreatorOwns
<1>3. ASSUME NEW p \in Requests, Judged(req'[p]), \E m \in members'[req'[p].u] : m.org = req'[p].o
      PROVE  org'[req'[p].o].owner = req'[p].u
  <2>1. /\ req'[p].u = req[p].u /\ req'[p].o = req[p].o /\ req[p].op = "accept"
        /\ Judged(req[p]) \/ ~IsMember(req[p].u, req[p].o)
    <3>1. CASE p = q
      BY <1>3, <3>1
    <3>2. CASE p # q
      BY <1>3, <3>2 DEF Others, Judged
    <3> QED
      BY <3>1, <3>2
  <2>2. req[p].u \in Users /\ req[p].o \in Orgs
    BY <2>1, TypeFacts DEF WellFormed
  <2>3. IsMember(req[p].u, req[p].o)
    BY <1>3, <2>1, <2>2 DEF IsMember, NoneJoins
  <2>4. org[req[p].o].owner = req[p].u
    BY <2>1, <2>3 DEF Judged, MemberInv, AcceptStands
  <2> QED
    BY <2>1, <2>2, <2>4 DEF NoneJoins
<1>4. AcceptStands'
  BY <1>3 DEF AcceptStands, Judged, IsMember
<1> QED
  BY <1>2, <1>4, MembersSame DEF MemberInv

LEMMA MemberStart == ASSUME TypeInv, MemberInv, NEW q \in Requests, Start(q) PROVE MemberInv'
<1>0. PICK u \in Users, o \in Orgs \cup {None}, i \in Invites \cup {None}, op \in Ops :
        /\ Begun(q, op, u, o, i)
        /\ op = "create" => /\ o \in Orgs /\ org[o].state = "none"
                            /\ \A p \in Requests : ~(req[p].op = "create" /\ req[p].o = o)
  BY StartEffect DEF Started, Ops
<1>1. NoneJoins
  <2>1. used'.joins = used.joins
    BY <1>0, TypeParts, UsedOK DEF Begun, RestTypeOK
  <2> QED
    BY <2>1 DEF Start, NoneJoins, orgVars
<1>2. /\ Others(q) /\ req'[q].op = op /\ req'[q].o = o /\ req'[q].pc = "begin"
      /\ ~Judged(req'[q])
  BY <1>0 DEF Begun, Judged
<1>3. CASE op # "create"
  BY <1>1, <1>2, <1>3, MemberKept
<1>4. CASE op = "create"
  <2>1. \A p \in Requests : p # q => req'[p] = req[p]
    BY <1>2 DEF Others
  <2>2. OneCreate'
    BY <1>0, <1>2, <1>4, <2>1 DEF MemberInv, OneCreate
  <2>3. \A p \in Requests : /\ req[p].op \in {"create", "accept"} => req[p].o \in Orgs
                            /\ req[p].op # "idle" => req[p].u \in Users
    BY TypeFacts DEF WellFormed
  <2>4. CreateIsFirst' /\ CreatorOwns'
    BY <1>0, <1>1, <1>2, <1>4, <2>1, <2>3 DEF MemberInv, CreateIsFirst, CreatorOwns, NoneJoins
  <2>5. AcceptStands'
    BY <1>1, <1>2, <1>4, <2>1, <2>3 DEF MemberInv, NoneJoins, AcceptStands, IsMember
  <2> QED
    BY <1>1, <2>2, <2>4, <2>5, MembersSame DEF MemberInv
<1> QED
  BY <1>3, <1>4

LEMMA MemberAddOrg == ASSUME TypeInv, MemberInv, NEW q \in Requests, AddOrg(q) PROVE MemberInv'
<1> DEFINE h == req[q].o
           w == req[q].u
<1>0. /\ req \in [Requests -> RequestType] /\ req[q].op = "create" /\ req[q].pc = "begin"
      /\ h \in Orgs /\ w \in Users /\ UNCHANGED <<members, used>> /\ Go(q, "get")
      /\ org' = [org EXCEPT ![h] = [state |-> "active", owner |-> w]]
  BY TypeFacts DEF AddOrg, At, WellFormed
<1>1. /\ \A p \in Requests : p # q => req'[p] = req[p]
      /\ req'[q].op = "create" /\ req'[q].pc = "get" /\ req'[q].u = w /\ req'[q].o = h
  BY <1>0, Going DEF Moved, Held, Kept, Others, Pcs
<1>2. /\ org'[h].state = "active" /\ org'[h].owner = w
      /\ \A o \in Orgs : o # h => org'[o] = org[o]
  BY <1>0, TypeParts DEF OrgTypeOK
<1>3. org[h].state = "none" /\ org[h].owner = None /\ None \notin Users
  BY <1>0, AccountConstants DEF MemberInv, CreateIsFirst, UnbornHasNoOwner
<1>4. UnbornHasNoOwner'
  BY <1>2 DEF MemberInv, UnbornHasNoOwner
<1>5. OneCreate'
  BY <1>0, <1>1 DEF MemberInv, OneCreate
<1>6. ASSUME NEW p \in Requests, p # q, req[p].op = "create" PROVE req[p].o # h /\ req[p].o \in Orgs
  BY <1>0, <1>6, TypeFacts DEF MemberInv, OneCreate, WellFormed
<1>7. CreateIsFirst' /\ CreatorOwns'
  BY <1>1, <1>2, <1>6 DEF MemberInv, CreateIsFirst, CreatorOwns
<1>8. AcceptStands'
  <2>1. ASSUME NEW p \in Requests, Judged(req'[p]), \E m \in members'[req'[p].u] : m.org = req'[p].o
        PROVE  org'[req'[p].o].owner = req'[p].u
    <3>1. p # q /\ req'[p] = req[p]
      BY <1>1, <2>1 DEF Judged
    <3>2. req[p].u \in Users /\ req[p].o \in Orgs
      BY <2>1, <3>1, TypeFacts DEF WellFormed, Judged
    <3>3. IsMember(req[p].u, req[p].o)
      BY <1>0, <2>1, <3>1 DEF IsMember
    <3>4. org[req[p].o].owner = req[p].u
      BY <2>1, <3>1, <3>3 DEF Judged, MemberInv, AcceptStands
    <3>5. req[p].o # h
      BY <1>3, <3>2, <3>4
    <3> QED
      BY <1>2, <3>1, <3>2, <3>4, <3>5
  <2> QED
    BY <2>1 DEF AcceptStands, Judged, IsMember
<1>9. JoinedBefore'
  BY <1>0 DEF MemberInv, JoinedBefore
<1>10. OneMembership'
  <2>1. ASSUME NEW u \in Users, NEW m \in members[u], NEW k \in members[u],
               m.org = k.org, org'[m.org].owner # u
        PROVE  m = k
    <3>1. m.org \in Orgs
      BY TypeParts DEF OrgTypeOK
    <3>2. org[m.org].owner # u
      BY <1>2, <1>3, <2>1, <3>1
    <3> QED
      BY <2>1, <3>2 DEF MemberInv, OneMembership
  <2> QED
    BY <1>0, <2>1 DEF OneMembership
<1> QED
  BY <1>4, <1>5, <1>7, <1>8, <1>9, <1>10 DEF MemberInv

(* A membership that is added, to somebody who has none or owns the organisation. *)
LEMMA MemberJoins ==
  ASSUME TypeInv, MemberInv, NEW q \in Requests, NEW u \in Users, NEW o \in Orgs, Others(q),
         UNCHANGED org, Join(u, o), IsMember(u, o) => org[o].owner = u,
         \A p \in Requests : p # q /\ Judged(req[p]) /\ req[p].u = u => org[o].owner = u,
         ~Judged(req'[q]),
         req'[q].op = "create" =>
            /\ req[q].op = "create" /\ req'[q].u = req[q].u /\ req'[q].o = req[q].o
            /\ req[q].pc # "begin" /\ req'[q].pc # "begin"
  PROVE  MemberInv'
<1> DEFINE new == [org |-> o, at |-> used.joins + 1]
<1>0. /\ used.joins \in Nat /\ used'.joins = used.joins + 1
      /\ members'[u] = members[u] \cup {new}
      /\ \A v \in Users : v # u => members'[v] = members[v]
      /\ new.org = o /\ new.at = used.joins + 1
  BY TypeParts, UsedOK DEF Join, RestTypeOK, OrgTypeOK
<1>1. ASSUME NEW v \in Users, NEW m \in members[v] PROVE m.org \in Orgs /\ m.at \in Nat
  BY TypeParts DEF OrgTypeOK
<1> HIDE DEF new
<1>2. ASSUME NEW v \in Users, NEW m \in members'[v] PROVE m \in members[v] \/ (v = u /\ m = new)
  BY <1>0
<1>3. ASSUME NEW p \in Requests, req'[p].op = "create"
      PROVE  /\ req[p].op = "create" /\ req'[p].u = req[p].u /\ req'[p].o = req[p].o
             /\ req'[p].pc = "begin" <=> req[p].pc = "begin"
  BY <1>3 DEF Others
<1>4. UnbornHasNoOwner' /\ CreateIsFirst' /\ OneCreate' /\ CreatorOwns'
  BY <1>3 DEF MemberInv, UnbornHasNoOwner, CreateIsFirst, OneCreate, CreatorOwns
<1>5. JoinedBefore'
  <2>1. ASSUME NEW v \in Users, NEW m \in members'[v] PROVE m.at <= used'.joins
    <3>1. CASE m \in members[v]
      <4>1. m.at \in Nat /\ m.at <= used.joins
        BY <1>1, <3>1 DEF MemberInv, JoinedBefore
      <4> QED
        BY <1>0, <4>1
    <3>2. CASE m = new
      BY <1>0, <3>2
    <3> QED
      BY <1>2, <3>1, <3>2
  <2> QED
    BY <2>1 DEF JoinedBefore
<1>6. OneMembership'
  <2>1. ASSUME NEW v \in Users, NEW m \in members'[v], NEW k \in members'[v],
               m.org = k.org, org[m.org].owner # v
        PROVE  m = k
    <3>1. CASE m \in members[v] /\ k \in members[v]
      BY <2>1, <3>1 DEF MemberInv, OneMembership
    <3>2. CASE m \in members[v] /\ v = u /\ k = new
      BY <1>0, <2>1, <3>2 DEF IsMember
    <3>3. CASE v = u /\ m = new /\ k \in members[v]
      BY <1>0, <2>1, <3>3 DEF IsMember
    <3> QED
      BY <1>2, <3>1, <3>2, <3>3
  <2> QED
    BY <2>1 DEF OneMembership
<1>7. AcceptStands'
  <2>1. ASSUME NEW p \in Requests, Judged(req'[p]), \E m \in members'[req'[p].u] : m.org = req'[p].o
        PROVE  org[req'[p].o].owner = req'[p].u
    <3>1. p # q /\ req'[p] = req[p]
      BY <2>1 DEF Others
    <3>2. req[p].u \in Users
      BY <2>1, <3>1, TypeFacts DEF WellFormed, Judged
    <3>3. PICK m \in members'[req[p].u] : m.org = req[p].o
      BY <2>1, <3>1 DEF IsMember
    <3>4. CASE m \in members[req[p].u]
      BY <2>1, <3>1, <3>3, <3>4 DEF Judged, MemberInv, AcceptStands, IsMember
    <3>5. CASE req[p].u = u /\ m = new
      BY <1>0, <2>1, <3>1, <3>3, <3>5
    <3> QED
      BY <1>2, <3>2, <3>4, <3>5
  <2> QED
    BY <2>1 DEF AcceptStands, Judged, IsMember
<1> QED
  BY <1>4, <1>5, <1>6, <1>7 DEF MemberInv

LEMMA MemberStep ==
  ASSUME TypeInv, LockInv, MemberInv, NEW q \in Requests, RequestStep(q)
  PROVE  MemberInv'
<1>0. /\ Stepped(q) /\ req[q].op \in Ops /\ WellFormed(req[q])
      /\ req \in [Requests -> RequestType] /\ used \in UsedType
  BY StepEffect, TypeFacts DEF TypeInv, RequestsOK
<1>1. CASE AddOrg(q)
  BY <1>1, MemberAddOrg
<1>2. CASE AddMembership(q)
  <2>1. /\ req[q].op = "create" /\ req[q].pc = "insert" /\ req[q].u \in Users /\ req[q].o \in Orgs
        /\ UNCHANGED org /\ Join(req[q].u, req[q].o) /\ Go(q, "read")
    BY <1>0, <1>2 DEF AddMembership, At, WellFormed
  <2>2. org[req[q].o].owner = req[q].u
    BY <2>1 DEF MemberInv, CreatorOwns
  <2>3. /\ Others(q) /\ req'[q].op = "create" /\ req'[q].u = req[q].u /\ req'[q].o = req[q].o
        /\ req'[q].pc = "read"
    BY <1>0, <2>1, Going DEF Moved, Held, Kept, Pcs
  <2>4. ~Judged(req'[q])
    BY <2>3 DEF Judged
  <2> QED
    BY <2>1, <2>2, <2>3, <2>4, MemberJoins
<1>3. CASE CommitAccept(q)
  <2>1. /\ req[q].op = "accept" /\ req[q].pc = "commit" /\ req[q].u \in Users /\ req[q].o \in Orgs
        /\ UNCHANGED org /\ Join(req[q].u, req[q].o) /\ Done(q)
    BY <1>0, <1>3 DEF CommitAccept, At, WellFormed
  <2>2. IsMember(req[q].u, req[q].o) => org[req[q].o].owner = req[q].u
    BY <2>1 DEF MemberInv, AcceptStands
  <2>3. ASSUME NEW p \in Requests, p # q, Judged(req[p]), req[p].u = req[q].u PROVE FALSE
    <3>1. locks[req[p].u] = p /\ locks[req[q].u] = q
      BY <2>1, <2>3 DEF LockInv, UserLocked, Judged
    <3> QED
      BY <2>3, <3>1
  <2>4. Others(q) /\ req'[q].op = "idle" /\ ~Judged(req'[q])
    BY <1>0, <2>1, Ending, IdleFacts DEF Ended, Judged
  <2> QED
    BY <2>1, <2>2, <2>3, <2>4, MemberJoins
<1>4. CASE ~AddOrg(q) /\ ~AddMembership(q) /\ ~CommitAccept(q)
  <2>1. \/ UNCHANGED <<members, org>>
        \/ RemoveOrg(q) \/ DeactivateMemberships(q) \/ RemoveMembership(q)
    BY <1>4 DEF RequestStep, GetUser, FillCache, SaveUser, UpdateUser, SignupGate, SignupLock,
       SignupCount, SignupCommit, Login, Build, AddRole, LoadRole, SwapRole, Stamp, Retire,
       RebuildFails, PutInOrg, CheckMembership, ReadPersonalRole, GrantOwner, FindAffected,
       NextAffected, Reassign, DeleteOrgReturns, SwitchOrg, CheckLeave, LeaveActive, OrgCallFails,
       LockInvite, LockUser, CountMemberships, AcceptFails, AnswerInvite, orgVars
  <2>2. used'.joins = used.joins
    <3>1. \/ used' \in {used, [used EXCEPT !.faults = @ + 1]} \/ Build(q)
      BY <1>4 DEF RequestStep, GetUser, FillCache, SaveUser, UpdateUser, SignupGate, SignupLock,
         SignupCount, SignupCommit, Login, AddRole, LoadRole, SwapRole, Stamp, Retire,
         RebuildFails, PutInOrg, CheckMembership, ReadPersonalRole, GrantOwner, FindAffected,
         NextAffected, Reassign, DeleteOrgReturns, SwitchOrg, CheckLeave, LeaveActive, OrgCallFails,
         LockInvite, LockUser, CountMemberships, AcceptFails, AnswerInvite, RemoveOrg,
         DeactivateMemberships, RemoveMembership, Fault
    <3>2. CASE Build(q)
      <4>1. Builds \subseteq 0 .. MaxBuilds
        BY AccountConstants DEF Builds
      <4>2. used' = used \/ \E g \in Builds : used' = [used EXCEPT !.builds = g]
        BY <3>2, BuildEffect
      <4>3. ASSUME NEW g \in Builds, used' = [used EXCEPT !.builds = g]
            PROVE  used'.joins = used.joins
        BY <1>0, <4>1, <4>3 DEF UsedType
      <4> QED
        BY <4>2, <4>3
    <3> QED
      BY <1>0, <3>1, <3>2, UsedOK
  <2>3. NoneJoins
    <3>1. CASE UNCHANGED <<members, org>>
      BY <2>2, <3>1 DEF NoneJoins
    <3>2. CASE DeactivateMemberships(q)
      BY <2>2, <3>2 DEF DeactivateMemberships, Without, NoneJoins
    <3>3. CASE RemoveMembership(q)
      BY <2>2, <3>3, TypeParts DEF RemoveMembership, Without, NoneJoins, OrgTypeOK
    <3>4. CASE RemoveOrg(q)
      <4>1. /\ UNCHANGED members /\ req[q].o \in Orgs
            /\ \/ UNCHANGED org
               \/ /\ org[req[q].o].state = "active"
                  /\ org' = [org EXCEPT ![req[q].o] = [org[req[q].o] EXCEPT !.state = "deleted"]]
        BY <1>0, <3>4 DEF RemoveOrg, At, WellFormed
      <4> DEFINE x == [org[req[q].o] EXCEPT !.state = "deleted"]
      <4>2. x.state = "deleted" /\ x.owner = org[req[q].o].owner
        BY <4>1, TypeParts DEF OrgTypeOK, OrgType
      <4>3. UNCHANGED org \/ (org[req[q].o].state = "active" /\ org' = [org EXCEPT ![req[q].o] = x])
        BY <4>1
      <4> HIDE DEF x
      <4>4. \A o \in Orgs : /\ org'[o].owner = org[o].owner
                            /\ org'[o].state = "none" <=> org[o].state = "none"
        BY <4>1, <4>2, <4>3, TypeParts DEF OrgTypeOK
      <4> QED
        BY <2>2, <4>1, <4>4 DEF NoneJoins
    <3> QED
      BY <2>1, <3>1, <3>2, <3>3, <3>4
  <2>4. Others(q)
    BY <1>0 DEF Stepped
  <2>5. ASSUME req'[q].op = "create"
        PROVE  /\ req[q].op = "create" /\ req'[q].u = req[q].u /\ req'[q].o = req[q].o
               /\ req[q].pc # "begin" /\ req'[q].pc # "begin"
    <3>1. /\ req[q].op = "create" /\ req'[q].u = req[q].u /\ req'[q].o = req[q].o
          /\ req'[q].pc # "begin"
      BY <1>0, <2>5, IdleFacts DEF Stepped, Rebuilds
    <3>2. req[q].pc # "begin"
      BY <1>4, <3>1 DEF RequestStep, GetUser, FillCache, SaveUser, UpdateUser, SignupGate, SignupLock,
         SignupCount, SignupCommit, Login, Build, AddRole, LoadRole, SwapRole, Stamp, Retire,
         RebuildFails, PutInOrg, CheckMembership, ReadPersonalRole, GrantOwner, FindAffected,
         NextAffected, Reassign, DeleteOrgReturns, SwitchOrg, CheckLeave, LeaveActive, OrgCallFails,
         LockInvite, LockUser, CountMemberships, AcceptFails, AnswerInvite, RemoveOrg,
         DeactivateMemberships, RemoveMembership, At, Rebuilds
    <3> QED
      BY <3>1, <3>2
  <2>6. ASSUME Judged(req'[q])
        PROVE  /\ req[q].op = "accept" /\ req'[q].u = req[q].u /\ req'[q].o = req[q].o
               /\ Judged(req[q]) \/ ~IsMember(req[q].u, req[q].o)
    <3>1. /\ req[q].op = "accept" /\ req'[q].u = req[q].u /\ req'[q].o = req[q].o
      BY <1>0, <2>6, IdleFacts DEF Stepped, Rebuilds, Judged
    <3>2. ReadPersonalRole(q) \/ CountMemberships(q)
      BY <1>0, <1>4, <2>6, <3>1 DEF Stepped, Judged, CheckMembership, At
    <3>3. ReadPersonalRole(q) => Judged(req[q])
      BY <3>1 DEF ReadPersonalRole, Judged
    <3>4. CountMemberships(q) => ~IsMember(req[q].u, req[q].o)
      <4>1. ASSUME CountMemberships(q), IsMember(req[q].u, req[q].o) PROVE FALSE
        <5>1. Done(q)
          BY <4>1 DEF CountMemberships
        <5> QED
          BY <1>0, <2>6, <5>1, Ending, IdleFacts DEF Ended, Judged
      <4> QED
        BY <4>1
    <3> QED
      BY <3>1, <3>2, <3>3, <3>4
  <2> QED
    BY <2>3, <2>4, <2>5, <2>6, MemberKept
<1> QED
  BY <1>1, <1>2, <1>3, <1>4

---------------------------------------------------------------------------
(* Default roles: every step *)

LEMMA RoleFacts ==
  ASSUME TypeInv
  PROVE  /\ \A r \in Builds : role[r] \in 0 .. MaxBuilds
         /\ \A u \in Users : row[u].role \in 0 .. MaxBuilds /\ cache[u].role \in 0 .. MaxBuilds
         /\ \A q \in Requests : req[q].row.role \in 0 .. MaxBuilds
         /\ \A n \in 0 .. MaxBuilds : n # 0 <=> n \in Builds
         /\ used.builds \in 0 .. MaxBuilds
<1>0. MaxBuilds \in Nat
  BY AccountConstants
<1>1. \A x \in Rows \cup {NoRow} : x.role \in 0 .. MaxBuilds
  BY <1>0, IdleFacts DEF Rows
<1>2. \A u \in Users : row[u] \in Rows /\ cache[u] \in Rows \cup {NoRow}
  BY TypeParts DEF UserTypeOK
<1>3. \A q \in Requests : req[q].row \in Rows \cup {NoRow}
  BY TypeFacts
<1>4. \A r \in Builds : role[r] \in 0 .. MaxBuilds
  BY TypeParts DEF RoleTypeOK
<1>5. \A n \in 0 .. MaxBuilds : n # 0 <=> n \in Builds
  BY <1>0 DEF Builds
<1>6. used.builds \in 0 .. MaxBuilds
  BY TypeParts, UsedOK DEF RestTypeOK
<1> QED
  BY <1>1, <1>2, <1>3, <1>4, <1>5, <1>6

(* The role in a user row is copied, never made up, but by AddRole. *)
Follows(n, q) ==
    \/ n \in {0, req[q].row.role}
    \/ \E u \in Users : n \in {row[u].role, cache[u].role}
RowsFollow(q) ==
    /\ \A u \in Users : Follows(row'[u].role, q) /\ Follows(cache'[u].role, q)
    /\ Follows(req'[q].row.role, q) \/ (AddRole(q) /\ req'[q].row.role = req[q].build)

LEMMA RowSteps == ASSUME TypeInv, NEW q \in Requests, RequestStep(q) PROVE RowsFollow(q)
<1>0. /\ Stepped(q) /\ WellFormed(req[q]) /\ req[q].row \in Rows \cup {NoRow}
      /\ NoRow.role = 0 /\ UserTypeOK /\ req[q].build \in 0 .. MaxBuilds
  BY StepEffect, TypeFacts, IdleFacts, TypeParts
<1>1. Follows(req'[q].row.role, q) \/ (AddRole(q) /\ req'[q].row.role = req[q].build)
  <2>1. CASE req'[q] = Idle
    BY <2>1, IdleFacts DEF Follows
  <2>2. CASE AddRole(q)
    <3>1. req[q].row \in Rows
      BY <1>0, <2>2 DEF AddRole, WellFormed
    <3> QED
      BY <1>0, <2>2, <3>1, AddRoleEffect, RowFacts DEF Held
  <2>3. CASE GetUser(q)
    <3>1. req[q].op # "idle" /\ req[q].u \in Users
      BY <1>0, <2>3 DEF GetUser, WellFormed
    <3> QED
      BY <2>1, <2>3, <3>1, GetUserEffect DEF Ended, Moved, Held, Follows
  <2> QED
    BY <1>0, <2>1, <2>2, <2>3 DEF Stepped, Follows
<1>2. CASE UNCHANGED <<row, cache>>
  BY <1>1, <1>2 DEF RowsFollow, Follows
<1>3. CASE FillCache(q) \/ SaveUser(q)
  <2>1. req[q].u \in Users
    BY <1>0, <1>3 DEF FillCache, SaveUser, WellFormed
  <2>2. \A u \in Users : /\ row'[u] \in {row[u], req[q].row}
                         /\ cache'[u] \in {cache[u], req[q].row, NoRow}
    BY <1>0, <1>3, <2>1 DEF FillCache, SaveUser, UserTypeOK
  <2>3. \A u \in Users : Follows(row'[u].role, q) /\ Follows(cache'[u].role, q)
    BY <1>0, <2>2 DEF Follows
  <2> QED
    BY <1>1, <2>3 DEF RowsFollow
<1>4. CASE RebuildFails(q) \/ DeleteOrgReturns(q) \/ OrgCallFails(q) \/ LeaveActive(q)
  <2>1. UNCHANGED row /\ \A u \in Users : cache'[u] \in {cache[u], NoRow}
    BY <1>0, <1>4 DEF RebuildFails, DeleteOrgReturns, OrgCallFails, LeaveActive, UserTypeOK
  <2>2. \A u \in Users : Follows(row'[u].role, q) /\ Follows(cache'[u].role, q)
    BY <1>0, <2>1 DEF Follows
  <2> QED
    BY <1>1, <2>2 DEF RowsFollow
<1>5. CASE CommitAccept(q)
  <2>1. req[q].u \in Users
    BY <1>0, <1>5 DEF CommitAccept, At, WellFormed
  <2> DEFINE x == [row[req[q].u] EXCEPT !.org = IF @ = None THEN req[q].o ELSE @]
  <2>2. x.role = row[req[q].u].role
    BY <1>0, <2>1 DEF UserTypeOK, Rows
  <2>3. row' = [row EXCEPT ![req[q].u] = x] /\ cache' = [cache EXCEPT ![req[q].u] = NoRow]
    BY <1>5 DEF CommitAccept
  <2> HIDE DEF x
  <2>4. \A u \in Users : row'[u].role = row[u].role /\ cache'[u] \in {cache[u], NoRow}
    BY <1>0, <2>2, <2>3 DEF UserTypeOK
  <2>5. \A u \in Users : Follows(row'[u].role, q) /\ Follows(cache'[u].role, q)
    BY <1>0, <2>4 DEF Follows
  <2> QED
    BY <1>1, <2>5 DEF RowsFollow
<1>6. \/ UNCHANGED <<row, cache>> \/ FillCache(q) \/ SaveUser(q) \/ RebuildFails(q)
      \/ DeleteOrgReturns(q) \/ OrgCallFails(q) \/ LeaveActive(q) \/ CommitAccept(q)
  BY DEF RequestStep, GetUser, UpdateUser, SignupGate, SignupLock, SignupCount, SignupCommit, Login,
     Build, AddRole, LoadRole, SwapRole, Stamp, Retire, AddOrg, PutInOrg, CheckMembership,
     AddMembership, ReadPersonalRole, GrantOwner, RemoveOrg, FindAffected, DeactivateMemberships,
     NextAffected, Reassign, SwitchOrg, CheckLeave, RemoveMembership, LockInvite, LockUser,
     CountMemberships, AcceptFails, AnswerInvite, userVars
<1> QED
  BY <1>2, <1>3, <1>4, <1>5, <1>6

(* Roles are never taken away. *)
RolesStay == \A r \in Builds : role[r] # 0 => role'[r] # 0

LEMMA RolesExistNext ==
  ASSUME TypeInv, RolesExist, NEW q \in Requests, Others(q), RowsFollow(q), RolesStay,
         AddRole(q) => (req[q].build # 0 => role'[req[q].build] # 0)
  PROVE  RolesExist'
<1>1. ASSUME NEW n, Follows(n, q), n # 0 PROVE role'[n] # 0
  <2>1. n \in Builds /\ role[n] # 0
    BY <1>1, RoleFacts DEF Follows, RolesExist, RoleExists
  <2> QED
    BY <2>1 DEF RolesStay
<1>2. ASSUME NEW u \in Users PROVE RoleExists(row[u])' /\ RoleExists(cache[u])'
  BY <1>1 DEF RowsFollow, RoleExists
<1>3. ASSUME NEW p \in Requests PROVE RoleExists(req[p].row)'
  <2>1. CASE p = q
    BY <1>1, <2>1 DEF RowsFollow, RoleExists
  <2>2. CASE p # q
    <3>1. req[p].row.role # 0 => req[p].row.role \in Builds /\ role[req[p].row.role] # 0
      BY RoleFacts DEF RolesExist, RoleExists
    <3> QED
      BY <2>2, <3>1 DEF Others, RoleExists, RolesStay
  <2> QED
    BY <2>1, <2>2
<1> QED
  BY <1>2, <1>3 DEF RolesExist

(* What a step has to show besides. *)
RoleRest == NamedIsActive /\ NamedOnce /\ PendingIsFresh /\ BuildsUsed /\ OldIsOwn

LEMMA RoleKept ==
  ASSUME TypeInv, RoleRest, NEW q \in Requests, Others(q), UNCHANGED <<role, perms>>,
         used'.builds = used.builds,
         req'[q].build \in {req[q].build, 0}, req'[q].old \in {req[q].old, 0},
         ~Pending(req'[q]),
         Rebuilding(req'[q]) /\ req'[q].old # 0 => Rebuilding(req[q]) /\ req[q].pc # "swap"
  PROVE  RoleRest'
<1>0. /\ used.builds \in 0 .. MaxBuilds /\ MaxBuilds \in Nat
      /\ \A p \in Requests : p # q => req'[p] = req[p]
  BY RoleFacts, AccountConstants DEF Others
<1>1. NamedIsActive' /\ NamedOnce'
  BY DEF RoleRest, NamedIsActive, NamedOnce
<1>2. PendingIsFresh'
  <2>1. ASSUME NEW p \in Requests, Pending(req'[p]) PROVE p # q /\ req'[p] = req[p]
    BY <1>0, <2>1
  <2> QED
    BY <2>1 DEF RoleRest, PendingIsFresh, Pending, Rebuilding
<1>3. BuildsUsed'
  BY <1>0 DEF RoleRest, BuildsUsed
<1>4. ASSUME NEW p \in Requests, Rebuilding(req'[p]), req'[p].old # 0
      PROVE  /\ \A k \in Requests : Pending(req'[k]) => req'[k].build # req'[p].old
             /\ \A r \in Builds : role'[r] = req'[p].old =>
                  req'[p].pc = "swap" /\ r = req'[p].row.role
  <2>1. Rebuilding(req[p]) /\ req[p].old # 0 /\ req'[p].old = req[p].old
    BY <1>0, <1>4
  <2>2. \A k \in Requests : Pending(req'[k]) => req'[k] = req[k]
    BY <1>0
  <2>3. \A k \in Requests : Pending(req'[k]) => req'[k].build # req'[p].old
    BY <2>1, <2>2 DEF RoleRest, OldIsOwn
  <2>4. \A r \in Builds : role[r] = req[p].old => req[p].pc = "swap" /\ r = req[p].row.role
    BY <2>1 DEF RoleRest, OldIsOwn
  <2>5. CASE p = q
    BY <1>4, <2>1, <2>3, <2>4, <2>5
  <2>6. CASE p # q
    BY <1>0, <2>3, <2>4, <2>6
  <2> QED
    BY <2>5, <2>6
<1>5. OldIsOwn'
  BY <1>4 DEF OldIsOwn, Pending, Rebuilding
<1> QED
  BY <1>1, <1>2, <1>3, <1>5 DEF RoleRest

(* A rebuild that ends may retire permissions that no role names and nobody *)
(* else is about to use.                                                    *)
LEMMA RoleEnds ==
  ASSUME TypeInv, RoleRest, NEW q \in Requests, Ended(q), UNCHANGED role,
         used'.builds = used.builds, NEW g \in Builds,
         perms' = [perms EXCEPT ![g].state = "retired"],
         \A r \in Builds : role[r] # g,
         \A p \in Requests : Pending(req[p]) /\ p # q => req[p].build # g
  PROVE  RoleRest'
<1>0. /\ used.builds \in 0 .. MaxBuilds /\ MaxBuilds \in Nat
      /\ \A p \in Requests : p # q => req'[p] = req[p]
      /\ req'[q].op = "idle" /\ req'[q].build = 0 /\ req'[q].old = 0
  BY RoleFacts, AccountConstants, IdleFacts DEF Ended, Others
<1>1. \A h \in Builds : h # g => perms'[h] = perms[h]
  BY TypeParts DEF RoleTypeOK
<1>2. NamedIsActive' /\ NamedOnce'
  <2>1. \A r \in Builds : role[r] # 0 => role[r] \in Builds /\ role[r] # g
    BY RoleFacts
  <2> QED
    BY <1>1, <2>1 DEF RoleRest, NamedIsActive, NamedOnce
<1>3. \A p \in Requests : Rebuilding(req'[p]) => p # q /\ req'[p] = req[p]
  BY <1>0 DEF Rebuilding
<1>4. PendingIsFresh'
  <2>1. ASSUME NEW p \in Requests, Pending(req'[p])
        PROVE  p # q /\ req'[p] = req[p] /\ req[p].build # g
    BY <1>3, <2>1 DEF Pending
  <2>2. ASSUME NEW p \in Requests, Pending(req'[p])
        PROVE  /\ req'[p].build \in Builds /\ perms'[req'[p].build].state = "active"
               /\ \A r \in Builds : role'[r] # req'[p].build
               /\ \A k \in Requests : Pending(req'[k]) /\ req'[k].build = req'[p].build => k = p
    BY <1>1, <2>1, <2>2 DEF RoleRest, PendingIsFresh
  <2> QED
    BY <2>2 DEF PendingIsFresh, Pending, Rebuilding
<1>5. BuildsUsed'
  BY <1>0 DEF RoleRest, BuildsUsed
<1>6. OldIsOwn'
  BY <1>3 DEF RoleRest, OldIsOwn, Pending, Rebuilding
<1> QED
  BY <1>2, <1>4, <1>5, <1>6 DEF RoleRest

(* A role names the pending build of a request, instead of its own before. *)
LEMMA RoleSwapped ==
  ASSUME TypeInv, RoleRest, NEW q \in Requests, Others(q), Kept(q), Pending(req[q]),
         req'[q].pc = "stamp", UNCHANGED <<perms, used>>, NEW n \in Builds,
         role' = [role EXCEPT ![n] = req[q].build],
         req[q].old # 0 => \A r \in Builds : role[r] = req[q].old => r = n
  PROVE  RoleRest'
<1> DEFINE b == req[q].build
<1>0. /\ used.builds \in 0 .. MaxBuilds /\ MaxBuilds \in Nat
      /\ \A p \in Requests : p # q => req'[p] = req[p]
      /\ req'[q].op = req[q].op /\ req'[q].build = b /\ req'[q].old = req[q].old
      /\ ~Pending(req'[q])
  BY RoleFacts, AccountConstants DEF Others, Kept, Pending
<1>1. /\ b \in Builds /\ b # 0 /\ perms[b].state = "active"
      /\ \A r \in Builds : role[r] # b
      /\ \A p \in Requests : Pending(req[p]) /\ req[p].build = b => p = q
  BY RoleFacts, AccountConstants DEF RoleRest, PendingIsFresh, Builds
<1>2. \A r \in Builds : role'[r] = IF r = n THEN b ELSE role[r]
  BY TypeParts DEF RoleTypeOK
<1>3. \A p \in Requests : Rebuilding(req[p]) /\ req[p].old # 0 => req[p].old # b
  BY DEF RoleRest, OldIsOwn
<1> HIDE DEF b
<1>4. NamedIsActive' /\ NamedOnce'
  BY <1>1, <1>2 DEF RoleRest, NamedIsActive, NamedOnce
<1>5. \A p \in Requests : Pending(req'[p]) => p # q /\ req'[p] = req[p] /\ req[p].build # b
  BY <1>0, <1>1
<1>6. PendingIsFresh'
  <2>1. ASSUME NEW p \in Requests, Pending(req'[p])
        PROVE  /\ req'[p].build \in Builds /\ perms'[req'[p].build].state = "active"
               /\ \A r \in Builds : role'[r] # req'[p].build
               /\ \A k \in Requests : Pending(req'[k]) /\ req'[k].build = req'[p].build => k = p
    BY <1>2, <1>5, <2>1 DEF RoleRest, PendingIsFresh
  <2> QED
    BY <2>1 DEF PendingIsFresh, Pending, Rebuilding
<1>7. BuildsUsed'
  <2>1. b <= used.builds
    BY DEF RoleRest, BuildsUsed, b
  <2> QED
    BY <1>0, <1>2, <2>1 DEF RoleRest, BuildsUsed, b
<1>8. ASSUME NEW p \in Requests, Rebuilding(req'[p]), req'[p].old # 0
      PROVE  /\ \A k \in Requests : Pending(req'[k]) => req'[k].build # req'[p].old
             /\ \A r \in Builds : role'[r] = req'[p].old =>
                  req'[p].pc = "swap" /\ r = req'[p].row.role
  <2>1. Rebuilding(req[p]) /\ req[p].old # 0 /\ req'[p].old = req[p].old
    BY <1>0, <1>8 DEF Rebuilding
  <2>2. \A k \in Requests : Pending(req'[k]) => req'[k].build # req'[p].old
    BY <1>5, <2>1 DEF RoleRest, OldIsOwn
  <2>3. req[p].old # b
    BY <1>3, <2>1
  <2>4. \A r \in Builds : role[r] = req[p].old => req[p].pc = "swap" /\ r = req[p].row.role
    BY <2>1 DEF RoleRest, OldIsOwn
  <2>5. CASE p = q
    BY <1>2, <2>1, <2>2, <2>3, <2>5
  <2>6. CASE p # q
    BY <1>0, <1>2, <2>2, <2>3, <2>4, <2>6
  <2> QED
    BY <2>5, <2>6
<1>9. OldIsOwn'
  BY <1>8 DEF OldIsOwn, Pending, Rebuilding
<1> QED
  BY <1>4, <1>6, <1>7, <1>9 DEF RoleRest

LEMMA RoleBuilds ==
  ASSUME TypeInv, RoleRest, NEW q \in Requests, Build(q), ~Ended(q)
  PROVE  RoleRest'
<1> DEFINE g == used.builds + 1
<1>1. /\ g \in Builds
      /\ perms' = [perms EXCEPT ![g] = [state |-> "active", version |-> grants]]
      /\ used' = [used EXCEPT !.builds = g]
      /\ Others(q) /\ req'[q].op = req[q].op /\ req'[q].build = g /\ req'[q].old = req[q].old
      /\ req'[q].pc \in {"add", "load"}
  BY BuildEffect
<1>2. UNCHANGED role /\ Rebuilding(req[q]) /\ req[q].pc = "have"
  BY DEF Build, Rebuilds, Rebuilding
<1>3. /\ used.builds \in 0 .. MaxBuilds /\ MaxBuilds \in Nat /\ Builds \subseteq 0 .. MaxBuilds
      /\ \A p \in Requests : p # q => req'[p] = req[p]
      /\ \A r \in Builds : role[r] \in 0 .. MaxBuilds
      /\ \A p \in Requests : req[p].build \in 0 .. MaxBuilds /\ req[p].old \in 0 .. MaxBuilds
  BY <1>1, RoleFacts, TypeFacts, AccountConstants DEF Others, Builds
<1>4. used'.builds = g
  BY <1>1, <1>3, TypeParts, UsedOK DEF RestTypeOK
<1>5. /\ \A r \in Builds : role[r] <= used.builds /\ role[r] # g
      /\ \A p \in Requests : /\ req[p].build <= used.builds /\ req[p].old <= used.builds
                             /\ req[p].build # g /\ req[p].old # g
      /\ g # 0
  <2>1. \A n \in 0 .. MaxBuilds : n <= used.builds => n # g
    BY <1>3
  <2>2. g # 0
    BY <1>3
  <2> HIDE DEF g
  <2>3. /\ \A r \in Builds : role[r] <= used.builds
        /\ \A p \in Requests : req[p].build <= used.builds /\ req[p].old <= used.builds
    BY DEF RoleRest, BuildsUsed
  <2> QED
    BY <1>3, <2>1, <2>2, <2>3
<1>6. /\ perms'[g].state = "active"
      /\ \A h \in Builds : h # g => perms'[h] = perms[h]
  BY <1>1, TypeParts DEF RoleTypeOK
<1>7. BuildsUsed'
  <2>1. \A n \in 0 .. MaxBuilds : n <= used.builds => n <= g
    BY <1>3
  <2>2. g <= g
    BY <1>3
  <2> HIDE DEF g
  <2>3. \A p \in Requests : req'[p].build <= g /\ req'[p].old <= g
    BY <1>1, <1>3, <1>5, <2>1, <2>2
  <2> QED
    BY <1>2, <1>3, <1>4, <1>5, <2>1, <2>3 DEF BuildsUsed
<1> HIDE DEF g
<1>8. NamedIsActive' /\ NamedOnce'
  <2>1. \A r \in Builds : role[r] # 0 => role[r] \in Builds
    BY RoleFacts
  <2> QED
    BY <1>2, <1>5, <1>6, <2>1 DEF RoleRest, NamedIsActive, NamedOnce
<1>9. PendingIsFresh'
  <2>1. ASSUME NEW p \in Requests, Pending(req'[p])
        PROVE  /\ req'[p].build \in Builds /\ perms'[req'[p].build].state = "active"
               /\ \A r \in Builds : role'[r] # req'[p].build
               /\ \A k \in Requests : Pending(req'[k]) /\ req'[k].build = req'[p].build => k = p
    <3>1. CASE p = q
      BY <1>1, <1>2, <1>3, <1>5, <1>6, <3>1
    <3>2. CASE p # q
      <4>1. req'[p] = req[p] /\ req[p].build # g /\ Pending(req[p])
        BY <1>3, <1>5, <2>1, <3>2
      <4>2. ASSUME NEW k \in Requests, Pending(req'[k]), req'[k].build = req'[p].build PROVE k = p
        BY <1>1, <1>3, <4>1, <4>2 DEF RoleRest, PendingIsFresh
      <4> QED
        BY <1>2, <1>6, <4>1, <4>2 DEF RoleRest, PendingIsFresh
    <3> QED
      BY <3>1, <3>2
  <2> QED
    BY <2>1 DEF PendingIsFresh, Pending, Rebuilding
<1>10. ASSUME NEW p \in Requests, Rebuilding(req'[p]), req'[p].old # 0
       PROVE  /\ \A k \in Requests : Pending(req'[k]) => req'[k].build # req'[p].old
              /\ \A r \in Builds : role'[r] = req'[p].old =>
                   req'[p].pc = "swap" /\ r = req'[p].row.role
  <2>1. Rebuilding(req[p]) /\ req[p].old # 0 /\ req'[p].old = req[p].old /\ req[p].old # g
    BY <1>1, <1>3, <1>5, <1>10 DEF Rebuilding
  <2>2. \A k \in Requests : Pending(req'[k]) => req'[k].build # req'[p].old
    BY <1>1, <1>3, <2>1 DEF RoleRest, OldIsOwn
  <2>3. \A r \in Builds : role[r] = req[p].old => req[p].pc = "swap" /\ r = req[p].row.role
    BY <2>1 DEF RoleRest, OldIsOwn
  <2>4. CASE p = q
    BY <1>2, <2>1, <2>2, <2>3, <2>4
  <2>5. CASE p # q
    BY <1>2, <1>3, <2>2, <2>3, <2>5
  <2> QED
    BY <2>4, <2>5
<1>11. OldIsOwn'
  BY <1>10 DEF OldIsOwn, Pending, Rebuilding
<1> QED
  BY <1>7, <1>8, <1>9, <1>11 DEF RoleRest

LEMMA RoleLoads ==
  ASSUME TypeInv, RoleRest, NEW q \in Requests, LoadRole(q)
  PROVE  RoleRest'
<1>1. /\ UNCHANGED <<role, perms, used>> /\ Rebuilding(req[q]) /\ req[q].pc = "load"
      /\ Pending(req[q])
  BY DEF LoadRole, Rebuilds, Rebuilding, roleVars, Pending
<1>2. req[q].row.role # 0 /\ req[q].row.role \in Builds
  BY <1>1, TypeFacts, RoleFacts DEF WellFormed
<1> DEFINE n == req[q].row.role
<1>3. /\ Others(q) /\ req'[q].op = req[q].op /\ req'[q].row = req[q].row
      /\ req'[q].build = req[q].build /\ req'[q].pc = "swap" /\ req'[q].old \in {0, role[n]}
  BY <1>2, LoadRoleEffect
<1>4. /\ used.builds \in 0 .. MaxBuilds /\ MaxBuilds \in Nat
      /\ \A p \in Requests : p # q => req'[p] = req[p]
  BY <1>3, RoleFacts, AccountConstants DEF Others
<1>5. \A p \in Requests : /\ Pending(req'[p]) <=> Pending(req[p])
                          /\ Rebuilding(req'[p]) <=> Rebuilding(req[p])
                          /\ req'[p].build = req[p].build
  BY <1>1, <1>3, <1>4 DEF Pending, Rebuilding
<1>6. NamedIsActive' /\ NamedOnce'
  BY <1>1 DEF RoleRest, NamedIsActive, NamedOnce
<1>7. PendingIsFresh'
  <2>1. ASSUME NEW p \in Requests, Pending(req'[p])
        PROVE  /\ req'[p].build \in Builds /\ perms'[req'[p].build].state = "active"
               /\ \A r \in Builds : role'[r] # req'[p].build
               /\ \A k \in Requests : Pending(req'[k]) /\ req'[k].build = req'[p].build => k = p
    BY <1>1, <1>5, <2>1 DEF RoleRest, PendingIsFresh
  <2> QED
    BY <2>1 DEF PendingIsFresh, Pending, Rebuilding
<1>8. BuildsUsed'
  <2>1. role[n] <= used.builds /\ 0 <= used.builds
    BY <1>2, <1>4 DEF RoleRest, BuildsUsed
  <2> QED
    BY <1>1, <1>3, <1>4, <2>1 DEF RoleRest, BuildsUsed
<1>9. ASSUME NEW p \in Requests, Rebuilding(req'[p]), req'[p].old # 0
      PROVE  /\ \A k \in Requests : Pending(req'[k]) => req'[k].build # req'[p].old
             /\ \A r \in Builds : role'[r] = req'[p].old =>
                  req'[p].pc = "swap" /\ r = req'[p].row.role
  <2>1. CASE p = q
    <3>1. req'[q].old = role[n] /\ role[n] # 0
      BY <1>3, <1>9, <2>1
    <3>2. \A k \in Requests : Pending(req'[k]) => req'[k].build # role[n]
      BY <1>2, <1>5 DEF RoleRest, PendingIsFresh
    <3>3. \A r \in Builds : role[r] = role[n] => r = n
      BY <1>2, <3>1 DEF RoleRest, NamedOnce
    <3> QED
      BY <1>1, <1>3, <2>1, <3>1, <3>2, <3>3
  <2>2. CASE p # q
    BY <1>1, <1>4, <1>5, <1>9, <2>2 DEF RoleRest, OldIsOwn
  <2> QED
    BY <2>1, <2>2
<1>10. OldIsOwn'
  BY <1>9 DEF OldIsOwn, Pending, Rebuilding
<1> QED
  BY <1>6, <1>7, <1>8, <1>10 DEF RoleRest

LEMMA RoleStart == ASSUME TypeInv, RoleInv, NEW q \in Requests, Start(q) PROVE RoleInv'
<1>1. PICK op, u, o, i : Begun(q, op, u, o, i)
  BY StartEffect DEF Started
<1>2. /\ Others(q) /\ req'[q].pc = "begin" /\ req'[q].row = NoRow /\ req'[q].build = 0
      /\ req'[q].old = 0 /\ used' = [used EXCEPT !.calls = @ + 1]
  BY <1>1 DEF Begun
<1>3. UNCHANGED <<role, perms, row, cache>>
  BY DEF Start, roleVars, userVars
<1>4. used'.builds = used.builds
  BY <1>2, TypeParts, UsedOK DEF RestTypeOK
<1>5. RoleRest'
  BY <1>2, <1>3, <1>4, RoleKept DEF RoleInv, RoleRest, Pending
<1>6. RolesExist'
  <2>1. \A p \in Requests : req'[p].row \in {req[p].row, NoRow}
    BY <1>2 DEF Others
  <2> QED
    BY <1>3, <2>1, IdleFacts DEF RoleInv, RolesExist, RoleExists
<1> QED
  BY <1>5, <1>6 DEF RoleInv, RoleRest

LEMMA RoleQuiet ==
  ASSUME RoleInv, UNCHANGED <<req, role, perms, row>>, used'.builds = used.builds,
         \A u \in Users : cache'[u] \in {cache[u], NoRow}
  PROVE  RoleInv'
<1>1. RolesExist'
  BY IdleFacts DEF RoleInv, RolesExist, RoleExists
<1>2. NamedIsActive' /\ NamedOnce' /\ BuildsUsed'
  BY DEF RoleInv, NamedIsActive, NamedOnce, BuildsUsed
<1>3. PendingIsFresh' /\ OldIsOwn'
  BY DEF RoleInv, PendingIsFresh, OldIsOwn, Pending, Rebuilding
<1> QED
  BY <1>1, <1>2, <1>3 DEF RoleInv

LEMMA RoleStep ==
  ASSUME TypeInv, RoleInv, NEW q \in Requests, RequestStep(q)
  PROVE  RoleInv'
<1>0. /\ Stepped(q) /\ WellFormed(req[q]) /\ req[q] \in RequestType
      /\ req \in [Requests -> RequestType] /\ used \in UsedType /\ RowsFollow(q) /\ RoleRest
  BY StepEffect, TypeFacts, RowSteps DEF TypeInv, RequestsOK, RoleInv, RoleRest
<1>1. ASSUME RoleRest', RolesStay, AddRole(q) => (req[q].build # 0 => role'[req[q].build] # 0)
      PROVE  RoleInv'
  BY <1>0, <1>1, RolesExistNext DEF Stepped, RoleInv, RoleRest
<1>2. CASE Build(q)
  <2>1. UNCHANGED role /\ ~AddRole(q)
    BY <1>2 DEF Build, AddRole
  <2>2. CASE Ended(q) /\ UNCHANGED <<perms, used>>
    BY <1>0, <1>1, <2>1, <2>2, RoleKept, IdleFacts DEF Ended, Pending, Rebuilding, RolesStay
  <2>3. CASE ~Ended(q)
    BY <1>0, <1>1, <1>2, <2>1, <2>3, RoleBuilds DEF RolesStay
  <2>4. CASE Ended(q) /\ ~UNCHANGED <<perms, used>>
    <3>1. req'[q].pc \in {"add", "load"}
      BY <1>2, <2>4, BuildEffect
    <3> QED
      BY <2>4, <3>1, IdleFacts DEF Ended
  <2> QED
    BY <2>2, <2>3, <2>4
<1>3. CASE LoadRole(q)
  <2>1. UNCHANGED role /\ ~AddRole(q)
    BY <1>3 DEF LoadRole, AddRole, roleVars
  <2> QED
    BY <1>0, <1>1, <1>3, <2>1, RoleLoads DEF RolesStay
<1>4. CASE AddRole(q)
  <2>1. /\ Pending(req[q]) /\ Rebuilding(req[q]) /\ req[q].pc = "add"
        /\ role' = [role EXCEPT ![req[q].build] = req[q].build] /\ UNCHANGED <<perms, used>>
    BY <1>4 DEF AddRole, Pending, Rebuilds, Rebuilding
  <2>2. Others(q) /\ Kept(q) /\ req'[q].pc = "stamp"
    BY <1>4, AddRoleEffect DEF Held
  <2>3. req[q].build \in Builds
    BY <1>0, <2>1 DEF RoleRest, PendingIsFresh
  <2>4. req[q].old # 0 => \A r \in Builds : role[r] # req[q].old
    BY <1>0, <2>1 DEF RoleRest, OldIsOwn
  <2>5. RoleRest'
    BY <1>0, <2>1, <2>2, <2>3, <2>4, RoleSwapped
  <2>6. req[q].build # 0
    BY <2>3, AccountConstants DEF Builds
  <2>7. RolesStay /\ role'[req[q].build] # 0
    BY <2>1, <2>3, <2>6, TypeParts DEF RoleTypeOK, RolesStay
  <2> QED
    BY <1>1, <2>5, <2>7
<1>5. CASE SwapRole(q)
  <2>1. /\ Pending(req[q]) /\ Rebuilding(req[q]) /\ req[q].pc = "swap" /\ Go(q, "stamp")
        /\ role' = [role EXCEPT ![req[q].row.role] = req[q].build] /\ UNCHANGED <<perms, used>>
    BY <1>5 DEF SwapRole, Pending, Rebuilds, Rebuilding
  <2>2. Others(q) /\ Kept(q) /\ req'[q].pc = "stamp"
    BY <1>0, <2>1, Going DEF Moved, Held, Pcs
  <2>3. req[q].build \in Builds /\ req[q].row.role \in Builds
    BY <1>0, <2>1, RoleFacts DEF RoleRest, PendingIsFresh, WellFormed
  <2>4. req[q].old # 0 => \A r \in Builds : role[r] = req[q].old => r = req[q].row.role
    BY <1>0, <2>1 DEF RoleRest, OldIsOwn
  <2>5. RoleRest'
    BY <1>0, <2>1, <2>2, <2>3, <2>4, RoleSwapped
  <2>6. req[q].build # 0
    BY <2>3, AccountConstants DEF Builds
  <2>7. RolesStay
    BY <2>1, <2>3, <2>6, TypeParts DEF RoleTypeOK, RolesStay
  <2>8. ~AddRole(q)
    BY <2>1 DEF AddRole
  <2> QED
    BY <1>1, <2>5, <2>7, <2>8
<1>6. CASE Retire(q)
  <2>1. /\ Rebuilding(req[q]) /\ req[q].pc = "retire" /\ Ended(q) /\ UNCHANGED <<role, used>>
        /\ perms' = IF req[q].old = 0 THEN perms
                    ELSE [perms EXCEPT ![req[q].old].state = "retired"]
    BY <1>0, <1>6, Ending DEF Retire, Rebuilds, Rebuilding
  <2>2. RolesStay /\ ~AddRole(q)
    BY <2>1 DEF RolesStay, AddRole
  <2>3. CASE req[q].old = 0
    <3>1. RoleRest'
      BY <1>0, <2>1, <2>3, RoleKept, IdleFacts DEF Ended, Pending, Rebuilding
    <3> QED
      BY <1>1, <2>2, <3>1
  <2>4. CASE req[q].old # 0
    <3>1. req[q].old \in Builds
      BY <2>4, TypeFacts, RoleFacts
    <3>2. /\ \A r \in Builds : role[r] # req[q].old
          /\ \A p \in Requests : Pending(req[p]) => req[p].build # req[q].old
      BY <1>0, <2>1, <2>4 DEF RoleRest, OldIsOwn
    <3>3. RoleRest'
      BY <1>0, <2>1, <2>4, <3>1, <3>2, RoleEnds
    <3> QED
      BY <1>1, <2>2, <3>3
  <2> QED
    BY <2>3, <2>4
<1>7. CASE RebuildFails(q)
  <2>1. /\ Rebuilding(req[q]) /\ Ended(q) /\ UNCHANGED role
        /\ used' = [used EXCEPT !.faults = @ + 1]
        /\ perms' = IF req[q].pc \in {"add", "load", "swap"}
                    THEN [perms EXCEPT ![req[q].build].state = "retired"] ELSE perms
    BY <1>0, <1>7, Ending DEF RebuildFails, Rebuilds, Rebuilding, Fault
  <2>2. used'.builds = used.builds
    BY <1>0, <2>1, UsedOK
  <2>3. RolesStay
    BY <2>1 DEF RolesStay
  <2>4. AddRole(q) => role'[req[q].build] # 0
    <3>1. AddRole(q) => req'[q].pc = "stamp"
      BY AddRoleEffect DEF Held
    <3> QED
      BY <2>1, <3>1, IdleFacts DEF Ended
  <2>5. CASE req[q].pc \notin {"add", "load", "swap"}
    <3>1. RoleRest'
      BY <1>0, <2>1, <2>2, <2>5, RoleKept, IdleFacts DEF Ended, Pending, Rebuilding
    <3> QED
      BY <1>1, <2>3, <2>4, <3>1
  <2>6. CASE req[q].pc \in {"add", "load", "swap"}
    <3>1. /\ req[q].build \in Builds /\ \A r \in Builds : role[r] # req[q].build
          /\ \A p \in Requests : Pending(req[p]) /\ p # q => req[p].build # req[q].build
      BY <1>0, <2>1, <2>6 DEF RoleRest, PendingIsFresh, Pending
    <3>2. perms' = [perms EXCEPT ![req[q].build].state = "retired"]
      BY <2>1, <2>6
    <3>3. TypeInv /\ RoleRest /\ Ended(q) /\ UNCHANGED role
      BY <1>0, <2>1
    <3>4. RoleRest'
      BY <2>2, <3>1, <3>2, <3>3, RoleEnds
    <3> QED
      BY <1>1, <2>3, <2>4, <3>4
  <2> QED
    BY <2>5, <2>6
<1>8. CASE ~(Build(q) \/ LoadRole(q) \/ AddRole(q) \/ SwapRole(q) \/ Retire(q) \/ RebuildFails(q))
  <2>1. UNCHANGED <<role, perms>>
    BY <1>8 DEF RequestStep, GetUser, FillCache, SaveUser, UpdateUser, SignupGate, SignupLock,
       SignupCount, SignupCommit, Login, Stamp, AddOrg, PutInOrg, CheckMembership, AddMembership,
       ReadPersonalRole, GrantOwner, RemoveOrg, FindAffected, DeactivateMemberships, NextAffected,
       Reassign, DeleteOrgReturns, SwitchOrg, CheckLeave, RemoveMembership, LeaveActive,
       OrgCallFails, LockInvite, LockUser, CountMemberships, CommitAccept, AcceptFails,
       AnswerInvite, roleVars
  <2>2. used' \in {used, [used EXCEPT !.faults = @ + 1], [used EXCEPT !.joins = @ + 1]}
    BY <1>8 DEF RequestStep, GetUser, FillCache, SaveUser, UpdateUser, SignupGate, SignupLock,
       SignupCount, SignupCommit, Login, Stamp, AddOrg, PutInOrg, CheckMembership, AddMembership,
       ReadPersonalRole, GrantOwner, RemoveOrg, FindAffected, DeactivateMemberships, NextAffected,
       Reassign, DeleteOrgReturns, SwitchOrg, CheckLeave, RemoveMembership, LeaveActive,
       OrgCallFails, LockInvite, LockUser, CountMemberships, CommitAccept, AcceptFails,
       AnswerInvite, Fault, Join
  <2>3. used'.builds = used.builds
    BY <1>0, <2>2, UsedOK
  <2>4. ~(Rebuilding(req[q]) /\ req[q].pc = "swap")
    BY <1>8 DEF RequestStep, GetUser, FillCache, SaveUser, UpdateUser, SignupGate, SignupLock,
       SignupCount, SignupCommit, Login, Stamp, AddOrg, PutInOrg, CheckMembership, AddMembership,
       ReadPersonalRole, GrantOwner, RemoveOrg, FindAffected, DeactivateMemberships, NextAffected,
       Reassign, DeleteOrgReturns, SwitchOrg, CheckLeave, RemoveMembership, LeaveActive,
       OrgCallFails, LockInvite, LockUser, CountMemberships, CommitAccept, AcceptFails,
       AnswerInvite, At, Rebuilding
  <2>5. /\ Others(q) /\ req'[q].build \in {req[q].build, 0} /\ req'[q].old \in {req[q].old, 0}
        /\ req'[q].old # 0 => req'[q].op = req[q].op
    BY <1>0, <1>8, IdleFacts DEF Stepped
  <2>6. ~Pending(req'[q])
    BY <1>0, <1>8 DEF Stepped, Pending
  <2>7. RoleRest'
    BY <1>0, <2>1, <2>3, <2>4, <2>5, <2>6, RoleKept DEF Rebuilding
  <2> QED
    BY <1>1, <1>8, <2>1, <2>7 DEF RolesStay
<1> QED
  BY <1>2, <1>3, <1>4, <1>5, <1>6, <1>7, <1>8

---------------------------------------------------------------------------
(* Initial states *)

LEMMA InitInvariants == Init => LockInv /\ AdminInv /\ MemberInv /\ RoleInv
<1> SUFFICES ASSUME Init PROVE LockInv /\ AdminInv /\ MemberInv /\ RoleInv
  OBVIOUS
<1>0. /\ MaxBuilds \in Nat /\ TypeInv
      /\ None \notin Users
  BY AccountConstants, InitTypes
<1>1. \A q \in Requests : /\ req[q].op = "idle" /\ req[q].pc = "idle" /\ req[q].row.role = 0
                          /\ req[q].build = 0 /\ req[q].old = 0
  BY IdleFacts DEF Init
<1>2. LockInv
  BY <1>1 DEF Init, LockInv, WaitsEnd, UserLocked, SignupLocked
<1>3. OneSignup /\ EnteringIsNew /\ SeededSkips /\ CountStands
  BY <1>1 DEF OneSignup, EnteringIsNew, SeededSkips, CountStands
<1>4. CreateIsFirst /\ OneCreate /\ CreatorOwns /\ AcceptStands
  BY <1>1 DEF CreateIsFirst, OneCreate, CreatorOwns, AcceptStands
<1>5. PendingIsFresh /\ OldIsOwn
  BY <1>1 DEF PendingIsFresh, OldIsOwn, Pending, Rebuilding
<1>6. /\ \A u \in Users : RoleExists(cache[u])
      /\ \A q \in Requests : RoleExists(req[q].row)
  BY <1>1, IdleFacts DEF Init, RoleExists
<1>7. CASE FreshInstance
  <2>1. AdminHasAccount /\ TheAdmin
    BY <1>7 DEF FreshInstance, AdminHasAccount, TheAdmin
  <2>2. UnbornHasNoOwner /\ JoinedBefore /\ OneMembership
    BY <1>7 DEF FreshInstance, UnbornHasNoOwner, JoinedBefore, OneMembership
  <2>3. NamedIsActive /\ NamedOnce
    BY <1>7 DEF FreshInstance, NamedIsActive, NamedOnce
  <2>4. used.builds = 0
    BY <1>7 DEF FreshInstance, NothingUsed
  <2>5. BuildsUsed
    BY <1>1, <1>7, <2>4 DEF FreshInstance, BuildsUsed
  <2>6. RolesExist
    BY <1>6, <1>7 DEF FreshInstance, RolesExist, RoleExists, NewRow
  <2> QED
    BY <1>2, <1>3, <1>4, <1>5, <2>1, <2>2, <2>3, <2>5, <2>6 DEF AdminInv, MemberInv, RoleInv
<1>8. CASE RunningInstance
  <2> DEFINE n == Cardinality(Users)
             seat == CHOOSE f \in [Users -> 1 .. n] : \A x, y \in Users : f[x] = f[y] => x = y
  <2>1. n \in 0 .. MaxBuilds /\ seat \in [Users -> 1 .. n]
    BY Seats
  <2>2. PICK boss \in Users, home \in Orgs :
         /\ conf = [seeded |-> FALSE, inviteOnly |-> FALSE]
         /\ account = [u \in Users |-> "active"] /\ admin = [u \in Users |-> u = boss]
         /\ row = [u \in Users |-> [org |-> IF u = boss THEN home ELSE None,
                                    role |-> seat[u], version |-> 1]]
         /\ members = [u \in Users |-> IF u = boss THEN {[org |-> home, at |-> 0]} ELSE {}]
         /\ org = [o \in Orgs |-> IF o = home THEN [state |-> "active", owner |-> boss]
                                  ELSE [state |-> "none", owner |-> None]]
         /\ role = [r \in Builds |-> IF r <= n THEN r ELSE 0]
         /\ perms = [g \in Builds |-> IF g <= n THEN [state |-> "active", version |-> 1] ELSE NoPerms]
         /\ used = [NothingUsed EXCEPT !.builds = n]
    BY <1>8, Zenon DEF RunningInstance
  <2> HIDE DEF n, seat
  <2>3. AdminHasAccount /\ TheAdmin
    BY <2>2 DEF AdminHasAccount, TheAdmin
  <2>4. used.joins = 0 /\ used.builds = n
    BY <2>2 DEF NothingUsed
  <2>5. UnbornHasNoOwner /\ JoinedBefore
    BY <2>2, <2>4 DEF UnbornHasNoOwner, JoinedBefore
  <2>6. OneMembership
    BY <2>2 DEF OneMembership
  <2>7. \A r \in Builds : /\ role[r] = IF r <= n THEN r ELSE 0
                          /\ r <= n => perms[r].state = "active"
    BY <2>2
  <2>8. NamedIsActive /\ NamedOnce
    BY <2>7 DEF NamedIsActive, NamedOnce
  <2>9. BuildsUsed
    BY <1>0, <1>1, <2>1, <2>4, <2>7 DEF BuildsUsed, Builds
  <2>10. ASSUME NEW u \in Users PROVE RoleExists(row[u])
    <3>1. row[u].role = seat[u] /\ seat[u] \in 1 .. n
      BY <2>1, <2>2
    <3>2. seat[u] \in Builds /\ seat[u] <= n /\ seat[u] # 0
      BY <1>0, <2>1, <3>1 DEF Builds
    <3> QED
      BY <2>7, <3>1, <3>2 DEF RoleExists
  <2>11. RolesExist
    BY <1>6, <2>10 DEF RolesExist
  <2> QED
    BY <1>2, <1>3, <1>4, <1>5, <2>3, <2>5, <2>6, <2>8, <2>9, <2>11 DEF AdminInv, MemberInv, RoleInv
<1> QED
  BY <1>7, <1>8 DEF Init

---------------------------------------------------------------------------
(* Every step together *)

AccInv == TypeInv /\ LockInv /\ AdminInv /\ MemberInv /\ RoleInv

(* A step that begins no request, ends none and moves none on. *)
LEMMA QuietSteps ==
  ASSUME AccInv,
         \/ UNCHANGED vars \/ Ambient
         \/ \E q \in Requests : \/ \E u \in Users : DeleteUser(q, u)
                                \/ \E i \in Invites : CreateInvite(q, i)
  PROVE  LockInv' /\ AdminInv' /\ MemberInv' /\ RoleInv'
<1>0. TypeInv /\ LockInv /\ AdminInv /\ MemberInv /\ RoleInv /\ UserTypeOK /\ used \in UsedType
  BY TypeParts DEF AccInv, RestTypeOK
<1>1. UNCHANGED <<req, locks, conf, admin, row, members, org, role, perms>>
  BY DEF vars, Ambient, CacheExpires, Refresh, DeleteUser, CreateInvite, userVars, orgVars, roleVars
<1>2. \A u \in Users : cache'[u] \in {cache[u], NoRow}
  BY <1>0 DEF vars, Ambient, CacheExpires, Refresh, DeleteUser, CreateInvite, userVars, UserTypeOK
<1>3. \A u \in Users : account'[u] = "none" <=> account[u] = "none"
  BY <1>0 DEF vars, Ambient, CacheExpires, Refresh, DeleteUser, CreateInvite, userVars, UserTypeOK
<1>4. used' \in {used, [used EXCEPT !.refreshes = @ + 1], [used EXCEPT !.calls = @ + 1]}
  BY DEF vars, Ambient, CacheExpires, Refresh, DeleteUser, CreateInvite
<1>5. used'.joins = used.joins /\ used'.builds = used.builds
  BY <1>0, <1>4, UsedOK
<1>6. NoneEnters /\ NoneJoins
  BY <1>1, <1>3, <1>5 DEF NoneEnters, NoneJoins
<1> QED
  BY <1>0, <1>1, <1>2, <1>5, <1>6, LockQuiet, AdminQuiet, MemberQuiet, RoleQuiet

LEMMA InvariantStep == AccInv /\ [Next]_vars => AccInv'
<1> SUFFICES ASSUME AccInv, [Next]_vars PROVE AccInv'
  OBVIOUS
<1>0. TypeInv /\ LockInv /\ AdminInv /\ MemberInv /\ RoleInv
  BY DEF AccInv
<1>1. ASSUME NEW q \in Requests, Start(q) PROVE AccInv'
  BY <1>0, <1>1, RequestTypes, LockStart, AdminStart, MemberStart, RoleStart DEF AccInv
<1>2. ASSUME NEW q \in Requests, RequestStep(q) PROVE AccInv'
  BY <1>0, <1>2, RequestTypes, LockStep, AdminStep, MemberStep, RoleStep DEF AccInv
<1>3. ASSUME NEW q \in Requests,
             \/ \E u \in Users : DeleteUser(q, u)
             \/ \E i \in Invites : CreateInvite(q, i)
      PROVE  AccInv'
  BY <1>0, <1>3, RequestTypes, QuietSteps DEF AccInv
<1>4. CASE Ambient \/ UNCHANGED vars
  BY <1>0, <1>4, AmbientTypes, StutterTypes, QuietSteps DEF AccInv
<1> QED
  BY <1>1, <1>2, <1>3, <1>4 DEF Next, Ambient

(* In every reachable state of gatekeeper's accounts the locks, the bootstrap *)
(* admin, the memberships and the default roles are as their parts say.       *)
THEOREM AccountsInvariant == Spec => []AccInv
<1>1. Init => AccInv
  BY InitTypes, InitInvariants DEF AccInv
<1> QED
  BY <1>1, InvariantStep, PTL DEF Spec

(* A lock is held only by a transaction under way, and who holds a user row *)
(* waits for nobody: acceptInviteAtomic locks the invite before the user.   *)
THEOREM WaitsDoEnd == Spec => []WaitsEnd
<1>1. AccInv => WaitsEnd
  BY DEF AccInv, LockInv
<1> QED
  BY <1>1, AccountsInvariant, PTL

(* However many first signups race, createUserWithBootstrapAdmin makes exactly *)
(* one bootstrap admin, and none where the environment names the admin.        *)
THEOREM OneAdmin == Spec => []OneBootstrapAdmin
<1>1. ASSUME AccInv PROVE OneBootstrapAdmin
  <2> DEFINE A == {u \in Users : admin[u]}
  <2>1. TheAdmin
    BY <1>1 DEF AccInv, AdminInv
  <2>2. CASE conf.seeded
    <3>1. A = {}
      BY <2>1, <2>2 DEF TheAdmin
    <3>2. Cardinality(A) = 0
      BY <3>1, FS_EmptySet
    <3> QED
      BY <2>2, <3>2 DEF OneBootstrapAdmin
  <2>3. CASE ~conf.seeded /\ \E u \in Users : account[u] # "none"
    <3>1. PICK boss \in Users : \A u \in Users : admin[u] <=> u = boss
      BY <2>1, <2>3 DEF TheAdmin
    <3>2. A = {boss}
      BY <3>1
    <3>3. Cardinality(A) = 1
      BY <3>2, FS_Singleton
    <3> QED
      BY <2>3, <3>3 DEF OneBootstrapAdmin
  <2> QED
    BY <2>2, <2>3 DEF OneBootstrapAdmin
<1> QED
  BY <1>1, AccountsInvariant, PTL

(* However many invites to one organisation are accepted at once, nobody but *)
(* its owner ends up a member twice.                                         *)
THEOREM MembershipsAreSingle == Spec => []OneMembership
<1>1. AccInv => OneMembership
  BY DEF AccInv, MemberInv
<1> QED
  BY <1>1, AccountsInvariant, PTL

(* However rebuilds of one default role overlap, fail or work on a row they  *)
(* read earlier, the role in a user row names permissions that are active.   *)
THEOREM DefaultRolesResolve == Spec => []DefaultRoleResolves
<1>1. ASSUME AccInv PROVE DefaultRoleResolves
  <2>1. TypeInv /\ RolesExist /\ NamedIsActive
    BY <1>1 DEF AccInv, RoleInv
  <2>2. ASSUME NEW u \in Users, row[u].role # 0
        PROVE  role[row[u].role] # 0 /\ perms[role[row[u].role]].state = "active"
    <3>1. row[u].role \in Builds
      BY <2>1, <2>2, RoleFacts
    <3>2. role[row[u].role] # 0
      BY <2>1, <2>2 DEF RolesExist, RoleExists
    <3> QED
      BY <2>1, <3>1, <3>2 DEF NamedIsActive
  <2> QED
    BY <2>2 DEF DefaultRoleResolves
<1> QED
  BY <1>1, AccountsInvariant, PTL

=============================================================================
