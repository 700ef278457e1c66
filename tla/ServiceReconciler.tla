-------------------------- MODULE ServiceReconciler --------------------------
(***************************************************************************)
(* Builder: an administrator enables, reconfigures, retargets or disables  *)
(* platform services by writing rows; a loop turns the enabled rows into   *)
(* workloads and tears down what is no longer wanted.  A pass works on the *)
(* rows it read at its start and takes one call at a time: gatekeeper for  *)
(* the service's identity, the cluster for its objects, the registry for   *)
(* its route.  Every call may fail, and builder may restart between any    *)
(* two of them.  Workloads that the Helm chart owns are not builder's to   *)
(* touch, and the chart may be installed while a pass is under way.        *)
(*                                                                         *)
(* The ticker and the nudge after a write start a pass alike.  The builder *)
(* runs as one replica, the chart's default.                               *)
(***************************************************************************)
EXTENDS Naturals, FiniteSets

CONSTANTS
    Services,    \* the non-core services with an embedded definition
    Replicated,  \* those with two replicas or more, which get a disruption budget
    MaxEdits,    \* bound on the administrator's writes
    MaxFaults    \* bound on failed calls and restarts

ASSUME ReconcilerAssumption == Replicated \subseteq Services /\ MaxEdits \in Nat /\ MaxFaults \in Nat

VARIABLES
    row,      \* row[s]: the desired state; spec numbers the write that shaped it
    patch,    \* the image request in flight: the service and the row it read
    edits,
    dep,      \* dep[s]: the Deployment, the spec applied to it, how its pods fare
    net,      \* net[s]: the owner of the Service object
    pdb,      \* the services that have a disruption budget
    secret,   \* secret[s]: the gatekeeper key in the service's Secret, 0 if none
    account,  \* account[s]: the keys gatekeeper accepts from the service
    fresh,    \* the last key generated
    route,    \* route[s]: the registry's record; conductor routes to a full one
    pass,     \* the reconcile pass
    last,     \* last[s]: lastStatus
    faults

cluster == <<dep, net, pdb, secret>>
vars == <<row, patch, edits, cluster, account, fresh, route, pass, last, faults>>

NoRow == [state |-> "none", spec |-> 0, status |-> "none"]
NoDep == [owner |-> "none", spec |-> 0, health |-> "none"]
NoPatch == [service |-> {}, read |-> NoRow]
Idle == [phase |-> "idle", want |-> [s \in Services |-> 0], todo |-> {},
         cur |-> {}, step |-> "none", key |-> 0]

Init ==
    /\ row = [s \in Services |-> NoRow] /\ patch = NoPatch /\ edits = 0
    /\ dep = [s \in Services |-> NoDep] /\ net = [s \in Services |-> "none"]
    /\ pdb = {} /\ secret = [s \in Services |-> 0]
    /\ account = [s \in Services |-> {}] /\ fresh = 0
    /\ route = [s \in Services |-> "none"]
    /\ pass = Idle /\ last = [s \in Services |-> "none"] /\ faults = 0

Fault == faults < MaxFaults /\ faults' = faults + 1
Edit == edits < MaxEdits /\ edits' = edits + 1

---------------------------------------------------------------------------
(* The administrator *)

(* upsertOrgService: the observed rollout status of a row survives. *)
Upsert(s, state) ==
    [row EXCEPT ![s] = [state |-> state, spec |-> edits + 1, status |-> row[s].status]]

(* handleSetOrgService *)
SetService(s, state) ==
    /\ Edit
    /\ row' = Upsert(s, state)
    /\ UNCHANGED <<patch, cluster, account, fresh, route, pass, last, faults>>

(* handleDeleteOrgService *)
DeleteService(s) ==
    /\ row[s].state # "none"
    /\ Edit
    /\ row' = [row EXCEPT ![s] = NoRow]
    /\ UNCHANGED <<patch, cluster, account, fresh, route, pass, last, faults>>

(* handleSetOrgServiceImage: a read, then an upsert of the whole row. *)
ReadForPatch(s) ==
    /\ patch = NoPatch /\ row[s].state # "none" /\ edits < MaxEdits
    /\ patch' = [service |-> {s}, read |-> row[s]]
    /\ UNCHANGED <<row, edits, cluster, account, fresh, route, pass, last, faults>>

WritePatch(s) ==
    /\ s \in patch.service
    /\ \/ Edit /\ row' = Upsert(s, patch.read.state)
       \/ edits = MaxEdits /\ UNCHANGED <<row, edits>>
    /\ patch' = NoPatch
    /\ UNCHANGED <<cluster, account, fresh, route, pass, last, faults>>

---------------------------------------------------------------------------
(* The world around builder *)

(* Kubernetes rolls the pods out, or they wedge on their image. *)
PodsSettle(s) ==
    /\ dep[s].owner = "builder" /\ dep[s].health = "progressing"
    /\ \E h \in {"ok", "failed"} : dep' = [dep EXCEPT ![s].health = h]
    /\ UNCHANGED <<row, patch, edits, net, pdb, secret, account, fresh, route, pass, last, faults>>

(* Helm installs the service's workload; it refuses objects that exist. *)
ChartInstall(s) ==
    /\ dep[s] = NoDep /\ net[s] = "none"
    /\ Edit
    /\ dep' = [dep EXCEPT ![s] = [owner |-> "chart", spec |-> 0, health |-> "ok"]]
    /\ net' = [net EXCEPT ![s] = "chart"]
    /\ UNCHANGED <<row, patch, pdb, secret, account, fresh, route, pass, last, faults>>

---------------------------------------------------------------------------
(* A pass *)

(* desiredWorkloads *)
BeginPass ==
    /\ pass.phase = "idle"
    /\ LET want == [s \in Services |-> IF row[s].state = "enabled" THEN row[s].spec ELSE 0]
       IN  pass' = [Idle EXCEPT !.phase = "ensure", !.want = want,
                                !.todo = {s \in Services : want[s] # 0}]
    /\ UNCHANGED <<row, patch, edits, cluster, account, fresh, route, last, faults>>

(* The next service of the current loop, in map order: any. *)
Pick(phase, step) ==
    /\ pass.phase = phase /\ pass.cur = {}
    /\ \E s \in pass.todo :
          pass' = [pass EXCEPT !.todo = @ \ {s}, !.cur = {s}, !.step = step]
    /\ UNCHANGED <<row, patch, edits, cluster, account, fresh, route, last, faults>>

At(s, phase, step) == pass.phase = phase /\ s \in pass.cur /\ pass.step = step
Goto(step) == pass' = [pass EXCEPT !.step = step]
Leave == pass' = [pass EXCEPT !.cur = {}, !.step = "none", !.key = 0]

(* An ensure or teardown call fails: the service is left until a later pass. *)
CallFails ==
    /\ pass.cur # {} /\ pass.step \notin {"deregister", "unsecret", "observe"}
    /\ Fault
    /\ Leave
    /\ UNCHANGED <<row, patch, edits, cluster, account, fresh, route, last>>

(* externallyManaged *)
CheckOwner(s) ==
    /\ At(s, "ensure", "owner")
    /\ IF dep[s].owner = "chart" THEN Leave ELSE Goto("identity")
    /\ UNCHANGED <<row, patch, edits, cluster, account, fresh, route, last, faults>>

\* Mutant: a key is generated in every pass.
NewKey(s) == fresh + 1

ExistingKey(s) == IF secret[s] # 0 THEN secret[s] ELSE fresh + 1

(* upsertServiceAccountDB: the first key stays valid, the bootstrap key is *)
(* replaced.                                                               *)
Accepts(s, key) ==
    IF account[s] = {} THEN {[kind |-> "first", key |-> key], [kind |-> "boot", key |-> key]}
    ELSE {k \in account[s] : k.kind = "first"} \cup {[kind |-> "boot", key |-> key]}

(* ensureGatekeeperIdentity.  The answer may be lost after the fact. *)
RegisterIdentity(s) ==
    /\ At(s, "ensure", "identity")
    /\ LET key == ExistingKey(s)
       IN  /\ account' = [account EXCEPT ![s] = Accepts(s, key)]
           /\ fresh' = IF key > fresh THEN key ELSE fresh
           /\ \/ pass' = [pass EXCEPT !.step = "secret", !.key = key] /\ UNCHANGED faults
              \/ Fault /\ Leave
    /\ UNCHANGED <<row, patch, edits, cluster, route, last>>

(* ensureServiceSecret *)
MergeSecret(s) ==
    /\ At(s, "ensure", "secret")
    /\ secret' = [secret EXCEPT ![s] = pass.key]
    /\ Goto("deploy")
    /\ UNCHANGED <<row, patch, edits, dep, net, pdb, account, fresh, route, last, faults>>

\* Mutant: the apply trusts the ownership check made before provisioning.
MineOnce(s) == TRUE

Mine(s) == dep[s].owner # "chart"

(* ensureInfra, buildDeployment, applyDeployment: an unchanged spec is not *)
(* written again; a Deployment of the chart is refused.                    *)
ApplyDeployment(s) ==
    /\ At(s, "ensure", "deploy")
    /\ IF ~Mine(s) THEN Leave /\ UNCHANGED dep
       ELSE /\ dep' = IF dep[s].spec = pass.want[s] THEN dep
                      ELSE [dep EXCEPT ![s] = [owner |-> "builder", spec |-> pass.want[s],
                                               health |-> "progressing"]]
            /\ Goto("service")
    /\ UNCHANGED <<row, patch, edits, net, pdb, secret, account, fresh, route, last, faults>>

(* applyService *)
ApplyService(s) ==
    /\ At(s, "ensure", "service")
    /\ IF net[s] = "chart" THEN Leave /\ UNCHANGED net
       ELSE net' = [net EXCEPT ![s] = "builder"] /\ Goto("budget")
    /\ UNCHANGED <<row, patch, edits, dep, pdb, secret, account, fresh, route, last, faults>>

(* applyPDB *)
ApplyPDB(s) ==
    /\ At(s, "ensure", "budget")
    /\ pdb' = IF s \in Replicated THEN pdb \cup {s} ELSE pdb \ {s}
    /\ Goto("register")
    /\ UNCHANGED <<row, patch, edits, dep, net, secret, account, fresh, route, last, faults>>

(* ensureRegistryService: create the record, then put its endpoints; a     *)
(* record without endpoints is repaired by the second call.                *)
Register(s) ==
    /\ At(s, "ensure", "register")
    /\ IF route[s] = "full" THEN Leave /\ UNCHANGED route
       ELSE route' = [route EXCEPT ![s] = "bare"] /\ Goto("endpoints")
    /\ UNCHANGED <<row, patch, edits, cluster, account, fresh, last, faults>>

PutEndpoints(s) ==
    /\ At(s, "ensure", "endpoints")
    /\ route' = [route EXCEPT ![s] = "full"]
    /\ Leave
    /\ UNCHANGED <<row, patch, edits, cluster, account, fresh, last, faults>>

\* Mutant: only services that have no row any more are torn down.
RowGone(s) == row[s].state = "none"

NotWanted(s) == pass.want[s] = 0

(* ListManaged, and what of it the pass does not want.  A failed listing   *)
(* ends the pass.                                                          *)
ListManaged ==
    /\ pass.phase = "ensure" /\ pass.cur = {} /\ pass.todo = {}
    /\ \/ pass' = [pass EXCEPT !.phase = "remove",
                     !.todo = {s \in Services : dep[s].owner = "builder" /\ NotWanted(s)}]
          /\ UNCHANGED faults
       \/ Fault /\ pass' = Idle
    /\ UNCHANGED <<row, patch, edits, cluster, account, fresh, route, last>>

---------------------------------------------------------------------------
(* RemoveService: deregistration and the Secret are best effort, a failure *)
(* in between ends the teardown.                                           *)

Deregister(s) ==
    /\ At(s, "remove", "deregister")
    /\ \/ route' = [route EXCEPT ![s] = "none"] /\ UNCHANGED faults
       \/ Fault /\ UNCHANGED route
    /\ Goto("undeploy")
    /\ UNCHANGED <<row, patch, edits, cluster, account, fresh, last>>

DeleteDeployment(s) ==
    /\ At(s, "remove", "undeploy")
    /\ dep' = [dep EXCEPT ![s] = NoDep]
    /\ Goto("unserve")
    /\ UNCHANGED <<row, patch, edits, net, pdb, secret, account, fresh, route, last, faults>>

DeleteServiceObject(s) ==
    /\ At(s, "remove", "unserve")
    /\ net' = [net EXCEPT ![s] = "none"]
    /\ Goto("unbudget")
    /\ UNCHANGED <<row, patch, edits, dep, pdb, secret, account, fresh, route, last, faults>>

DeletePDB(s) ==
    /\ At(s, "remove", "unbudget")
    /\ pdb' = pdb \ {s}
    /\ Goto("unsecret")
    /\ UNCHANGED <<row, patch, edits, dep, net, secret, account, fresh, route, last, faults>>

(* deprovision, then forgetRollout *)
DeleteSecret(s) ==
    /\ At(s, "remove", "unsecret")
    /\ \/ secret' = [secret EXCEPT ![s] = 0] /\ UNCHANGED faults
       \/ Fault /\ UNCHANGED secret
    /\ last' = [last EXCEPT ![s] = "none"]
    /\ row' = [row EXCEPT ![s].status = "none"]
    /\ Leave
    /\ UNCHANGED <<patch, edits, dep, net, pdb, account, fresh, route>>

---------------------------------------------------------------------------
(* checkRollouts *)

BeginChecks ==
    /\ pass.phase = "remove" /\ pass.cur = {} /\ pass.todo = {}
    /\ pass' = [pass EXCEPT !.phase = "check", !.todo = {s \in Services : pass.want[s] # 0}]
    /\ UNCHANGED <<row, patch, edits, cluster, account, fresh, route, last, faults>>

(* writeRolloutStatus: a missing row is not an error. *)
Record(s, status) ==
    IF row[s].state = "none" THEN row ELSE [row EXCEPT ![s].status = status]

(* RolloutState, recordRollout: a changed state is written once, a failed  *)
(* write is tried again in the next pass.                                  *)
Observe(s) ==
    /\ At(s, "check", "observe")
    /\ \/ /\ dep[s].owner # "builder" \/ dep[s].health = last[s]
          /\ UNCHANGED <<row, last, faults>>
       \/ /\ dep[s].owner = "builder" /\ dep[s].health # last[s]
          /\ \/ /\ row' = Record(s, dep[s].health)
                /\ last' = [last EXCEPT ![s] = dep[s].health]
                /\ UNCHANGED faults
             \/ Fault /\ UNCHANGED <<row, last>>
    /\ Leave
    /\ UNCHANGED <<patch, edits, cluster, account, fresh, route>>

EndPass ==
    /\ pass.phase = "check" /\ pass.cur = {} /\ pass.todo = {}
    /\ pass' = Idle
    /\ UNCHANGED <<row, patch, edits, cluster, account, fresh, route, last, faults>>

(* Builder restarts: the pass and lastStatus are gone. *)
Restart ==
    /\ pass # Idle
    /\ Fault
    /\ pass' = Idle /\ last' = [s \in Services |-> "none"]
    /\ UNCHANGED <<row, patch, edits, cluster, account, fresh, route>>

---------------------------------------------------------------------------
Ensure(s) ==
    \/ CheckOwner(s) \/ RegisterIdentity(s) \/ MergeSecret(s) \/ ApplyDeployment(s)
    \/ ApplyService(s) \/ ApplyPDB(s) \/ Register(s) \/ PutEndpoints(s)

Remove(s) ==
    \/ Deregister(s) \/ DeleteDeployment(s) \/ DeleteServiceObject(s)
    \/ DeletePDB(s) \/ DeleteSecret(s)

Reconcile ==
    \/ BeginPass \/ ListManaged \/ BeginChecks \/ EndPass
    \/ Pick("ensure", "owner") \/ Pick("remove", "deregister") \/ Pick("check", "observe")
    \/ \E s \in Services : Ensure(s) \/ Remove(s) \/ Observe(s)

Next ==
    \/ \E s \in Services :
          \/ SetService(s, "enabled") \/ SetService(s, "disabled") \/ DeleteService(s)
          \/ ReadForPatch(s) \/ WritePatch(s) \/ PodsSettle(s) \/ ChartInstall(s)
    \/ Reconcile \/ CallFails \/ Restart

Spec == Init /\ [][Next]_vars

(* The loop runs for as long as builder does, and a rollout comes to an end. *)
Fairness ==
    /\ WF_vars(Reconcile)
    /\ \A s \in Services : WF_vars(PodsSettle(s)) /\ WF_vars(WritePatch(s))

FairSpec == Spec /\ Fairness

---------------------------------------------------------------------------
(* A workload that builder runs can authenticate: its Secret holds a key   *)
(* that gatekeeper accepts, through restarts and failures between the      *)
(* registration of a key and its storage, and through teardown and revival. *)
CanAuthenticate ==
    \A s \in Services :
       dep[s].owner = "builder" => \E k \in account[s] : k.key = secret[s]

(* The chart's workload is never taken over or torn down, and its Service  *)
(* never rewritten, even when the chart is installed in the middle of a    *)
(* pass that has already found the workload builder's to manage.           *)
ForeignUntouched ==
    [][\A s \in Services :
          /\ dep[s].owner = "chart" => dep'[s] = dep[s]
          /\ net[s] = "chart" => net'[s] # "builder"]_vars

Deployed(s) ==
    /\ dep[s].owner = "builder" /\ dep[s].spec = row[s].spec
    /\ net[s] = "builder" /\ route[s] = "full"

(* Desired state is reached and kept: once the administrator stops, every  *)
(* enabled service that builder may deploy runs at its latest              *)
(* configuration and is routed, and nothing that is not enabled runs.      *)
Converges ==
    \A s \in Services :
       <>[](IF row[s].state = "enabled" THEN Deployed(s) \/ dep[s].owner = "chart"
            ELSE dep[s].owner # "builder")

(* "Best-effort: a failure is logged and corrected on the next reconcile": *)
(* a service that is switched off stops being routed.                      *)
RouteWithdrawn ==
    \A s \in Services :
       (row[s].state # "enabled" /\ route[s] # "none") ~>
          (row[s].state = "enabled" \/ route[s] = "none")
=============================================================================
