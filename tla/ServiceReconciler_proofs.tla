----------------------- MODULE ServiceReconciler_proofs -----------------------
(***************************************************************************)
(* Theorems about builder's reconciler, for any set of services and any    *)
(* number of edits, failed calls and restarts.                             *)
(***************************************************************************)
EXTENDS ServiceReconciler, TLAPS

Steps == {"none", "owner", "identity", "secret", "deploy", "service", "budget", "register",
          "endpoints", "deregister", "undeploy", "unserve", "unbudget", "unsecret", "observe"}
PassType ==
    [phase : {"idle", "ensure", "remove", "check"}, want : [Services -> Nat],
     todo : SUBSET Services, cur : SUBSET Services, step : Steps, key : Nat]
RowType ==
    [state : {"none", "enabled", "disabled"}, spec : Nat,
     status : {"none", "progressing", "ok", "failed"}]
DepType ==
    [owner : {"none", "builder", "chart"}, spec : Nat,
     health : {"none", "progressing", "ok", "failed"}]
KeyType == [kind : {"first", "boot"}, key : Nat]

(* The types of the variables that the theorems rest on. *)
RecTypeOK ==
    /\ row \in [Services -> RowType] /\ edits \in Nat
    /\ patch.read \in RowType
    /\ dep \in [Services -> DepType]
    /\ net \in [Services -> {"none", "builder", "chart"}]
    /\ secret \in [Services -> Nat] /\ account \in [Services -> SUBSET KeyType] /\ fresh \in Nat
    /\ last \in [Services -> {"none", "progressing", "ok", "failed"}]
    /\ pass \in PassType

(* A pass works on one service at a time. *)
OneAtATime == pass.cur = {} \/ \E s \in Services : pass.cur = {s}

Accepted(s, key) == \E k \in account[s] : k.key = key

(* A stored key is accepted ... *)
StoredIsAccepted == \A s \in Services : secret[s] # 0 => Accepted(s, secret[s])

(* ... and so is one that was registered and is about to be stored. *)
HeldIsAccepted ==
    \A s \in Services : At(s, "ensure", "secret") => pass.key # 0 /\ Accepted(s, pass.key)

(* A workload is deployed after its key was stored ... *)
DeployedHasSecret == \A s \in Services : dep[s].owner = "builder" => secret[s] # 0
StoredFirst == \A s \in Services : At(s, "ensure", "deploy") => secret[s] # 0

(* ... and is gone before its key is. *)
GoneFirst ==
    \A s \in Services : pass.phase = "remove" /\ s \in pass.cur
                           /\ pass.step \in {"unserve", "unbudget", "unsecret"} =>
        dep[s].owner # "builder"

(* What a pass tears down was builder's when it was listed, and still is. *)
TeardownIsOurs ==
    pass.phase = "remove" =>
        /\ pass.todo \cap pass.cur = {}
        /\ \A s \in pass.todo : dep[s].owner = "builder"
        /\ \A s \in pass.cur : pass.step \in {"deregister", "undeploy"} => dep[s].owner = "builder"

RecInv ==
    /\ RecTypeOK /\ OneAtATime
    /\ StoredIsAccepted /\ HeldIsAccepted /\ DeployedHasSecret /\ StoredFirst
    /\ GoneFirst /\ TeardownIsOurs

LEMMA InitRecInv == Init => RecInv
<1> SUFFICES ASSUME Init PROVE RecInv
  OBVIOUS
<1>1. pass \in PassType /\ pass.phase = "idle" /\ pass.cur = {}
  BY DEF Init, Idle, PassType, Steps
<1>2. /\ row \in [Services -> RowType] /\ edits \in Nat /\ patch.read \in RowType
      /\ dep \in [Services -> DepType]
  BY DEF Init, NoRow, RowType, NoPatch, NoDep, DepType
<1>3. RecTypeOK
  BY <1>1, <1>2 DEF Init, RecTypeOK
<1>4. \A s \in Services : dep[s].owner = "none" /\ secret[s] = 0
  BY DEF Init, NoDep
<1> QED
  BY <1>1, <1>3, <1>4 DEF RecInv, OneAtATime, StoredIsAccepted, HeldIsAccepted, DeployedHasSecret,
     StoredFirst, GoneFirst, TeardownIsOurs, At

---------------------------------------------------------------------------
(* How a step moves the pass *)

LEMMA PassGoto ==
  ASSUME RecTypeOK, NEW l \in Steps, Goto(l)
  PROVE  /\ pass' \in PassType /\ pass'.phase = pass.phase /\ pass'.todo = pass.todo
         /\ pass'.cur = pass.cur /\ pass'.step = l /\ pass'.key = pass.key
  BY DEF RecTypeOK, PassType, Goto

LEMMA PassLeave ==
  ASSUME RecTypeOK, Leave
  PROVE  /\ pass' \in PassType /\ pass'.phase = pass.phase /\ pass'.todo = pass.todo
         /\ pass'.cur = {}
  BY DEF RecTypeOK, PassType, Leave, Steps

LEMMA PassIdle == Idle \in PassType /\ Idle.phase = "idle" /\ Idle.cur = {}
  BY DEF Idle, PassType, Steps

(* Steps that touch neither workloads nor keys and after which no service  *)
(* is worked on, or that only pick the next one.                           *)
LEMMA RecAside ==
  ASSUME RecInv, RecTypeOK', UNCHANGED <<secret, account>>,
         \A s \in Services : dep'[s].owner = dep[s].owner,
         \/ pass' = pass
         \/ pass'.cur = {} /\ (pass'.phase = "remove" =>
                                 \A s \in pass'.todo : dep[s].owner = "builder")
  PROVE  RecInv'
<1>0. /\ RecTypeOK /\ OneAtATime /\ StoredIsAccepted /\ HeldIsAccepted /\ DeployedHasSecret
      /\ StoredFirst /\ GoneFirst /\ TeardownIsOurs
  BY DEF RecInv
<1>1. OneAtATime'
  BY <1>0 DEF OneAtATime
<1>2. StoredIsAccepted' /\ DeployedHasSecret'
  BY <1>0 DEF StoredIsAccepted, DeployedHasSecret, Accepted
<1>3. HeldIsAccepted' /\ StoredFirst'
  BY <1>0 DEF HeldIsAccepted, StoredFirst, At, Accepted
<1>4. GoneFirst'
  BY <1>0 DEF GoneFirst
<1>5. TeardownIsOurs'
  <2>1. CASE pass' = pass
    <3>1. pass.todo \subseteq Services /\ pass.cur \subseteq Services
      BY <1>0 DEF RecTypeOK, PassType
    <3> QED
      BY <2>1, <3>1, <1>0 DEF TeardownIsOurs
  <2>2. CASE pass' # pass
    <3>1. pass'.todo \subseteq Services
      BY DEF RecTypeOK, PassType
    <3> QED
      BY <2>2, <3>1 DEF TeardownIsOurs
  <2> QED
    BY <2>1, <2>2
<1> QED
  BY <1>1, <1>2, <1>3, <1>4, <1>5 DEF RecInv

(* Service s goes from one step to the next while its workload and its key *)
(* stay as they are.                                                       *)
LEMMA RecGoto ==
  ASSUME RecInv, RecTypeOK', UNCHANGED <<dep, secret, account>>,
         NEW s \in Services, s \in pass.cur, NEW l \in Steps \ {"secret", "deploy"}, Goto(l),
         pass.phase = "remove" =>
             \/ l = "undeploy" /\ pass.step = "deregister"
             \/ /\ l \in {"unbudget", "unsecret"}
                /\ pass.step \in {"unserve", "unbudget"}
  PROVE  RecInv'
<1>0. /\ RecTypeOK /\ OneAtATime /\ StoredIsAccepted /\ HeldIsAccepted /\ DeployedHasSecret
      /\ StoredFirst /\ GoneFirst /\ TeardownIsOurs
  BY DEF RecInv
<1>1. /\ pass'.phase = pass.phase /\ pass'.todo = pass.todo
      /\ pass'.cur = pass.cur /\ pass'.step = l /\ pass'.key = pass.key
  BY <1>0, PassGoto
<1>2. OneAtATime' /\ StoredIsAccepted' /\ DeployedHasSecret'
  BY <1>0, <1>1 DEF OneAtATime, StoredIsAccepted, DeployedHasSecret, Accepted
<1>3. HeldIsAccepted' /\ StoredFirst'
  BY <1>1 DEF HeldIsAccepted, StoredFirst, At
<1>4. GoneFirst'
  BY <1>0, <1>1 DEF GoneFirst
<1>5. TeardownIsOurs'
  BY <1>0, <1>1 DEF TeardownIsOurs
<1> QED
  BY <1>2, <1>3, <1>4, <1>5 DEF RecInv

LEMMA RecPick ==
  ASSUME RecInv, NEW phase, NEW step \in {"owner", "deregister", "observe"},
         phase = "remove" => step = "deregister", Pick(phase, step)
  PROVE  RecInv'
<1>0. /\ RecTypeOK /\ OneAtATime /\ StoredIsAccepted /\ HeldIsAccepted /\ DeployedHasSecret
      /\ StoredFirst /\ GoneFirst /\ TeardownIsOurs
  BY DEF RecInv
<1>1. PICK s \in pass.todo : pass' = [pass EXCEPT !.todo = @ \ {s}, !.cur = {s}, !.step = step]
  BY DEF Pick
<1>2. /\ pass' \in PassType /\ pass'.phase = phase /\ pass'.cur = {s} /\ pass'.step = step
      /\ pass'.todo = pass.todo \ {s} /\ s \in Services /\ pass.phase = phase
  BY <1>0, <1>1 DEF RecTypeOK, PassType, Steps, Pick
<1>3. UNCHANGED <<row, patch, edits, dep, net, secret, account, fresh, last>>
  BY DEF Pick, cluster
<1>4. RecTypeOK'
  BY <1>0, <1>2, <1>3 DEF RecTypeOK
<1>5. OneAtATime' /\ StoredIsAccepted' /\ DeployedHasSecret'
  BY <1>0, <1>2, <1>3 DEF OneAtATime, StoredIsAccepted, DeployedHasSecret, Accepted
<1>6. HeldIsAccepted' /\ StoredFirst' /\ GoneFirst'
  BY <1>2 DEF HeldIsAccepted, StoredFirst, At, GoneFirst
<1>7. TeardownIsOurs'
  BY <1>0, <1>2, <1>3 DEF TeardownIsOurs
<1> QED
  BY <1>4, <1>5, <1>6, <1>7 DEF RecInv

---------------------------------------------------------------------------
(* The steps that matter *)

LEMMA RecRegisterIdentity ==
  ASSUME RecInv, NEW s \in Services, RegisterIdentity(s) PROVE RecInv'
<1>0. /\ RecTypeOK /\ OneAtATime /\ StoredIsAccepted /\ HeldIsAccepted /\ DeployedHasSecret
      /\ StoredFirst /\ GoneFirst /\ TeardownIsOurs
  BY DEF RecInv
<1> DEFINE key == ExistingKey(s)
<1>1. /\ account' = [account EXCEPT ![s] = Accepts(s, key)]
      /\ fresh' = IF key > fresh THEN key ELSE fresh
      /\ \/ pass' = [pass EXCEPT !.step = "secret", !.key = key]
         \/ Leave
      /\ UNCHANGED <<row, patch, edits, dep, net, secret, last>>
      /\ At(s, "ensure", "identity")
  BY DEF RegisterIdentity, cluster
<1>2. key \in Nat /\ key # 0 /\ (secret[s] # 0 => key = secret[s])
  BY <1>0 DEF ExistingKey, RecTypeOK
<1> HIDE DEF key
<1>3. /\ Accepts(s, key) \in SUBSET KeyType
      /\ [kind |-> "boot", key |-> key] \in Accepts(s, key)
  BY <1>0, <1>2 DEF Accepts, RecTypeOK, KeyType
<1>4. /\ account' \in [Services -> SUBSET KeyType] /\ fresh' \in Nat
      /\ account'[s] = Accepts(s, key) /\ \A u \in Services : u # s => account'[u] = account[u]
  BY <1>0, <1>1, <1>2, <1>3 DEF RecTypeOK
<1>5. /\ pass' \in PassType /\ pass'.phase = "ensure"
      /\ \/ pass'.cur = {}
         \/ pass'.cur = pass.cur /\ pass'.step = "secret" /\ pass'.key = key
  <2>1. CASE Leave
    BY <2>1, <1>0, <1>1, PassLeave DEF At
  <2>2. CASE pass' = [pass EXCEPT !.step = "secret", !.key = key]
    BY <2>2, <1>0, <1>1, <1>2 DEF RecTypeOK, PassType, Steps, At
  <2> QED
    BY <2>1, <2>2, <1>1
<1>6. RecTypeOK'
  BY <1>0, <1>1, <1>4, <1>5 DEF RecTypeOK
<1>7. \A u \in Services : u \in pass'.cur => u = s
  BY <1>0, <1>1, <1>5 DEF OneAtATime, At
<1>8. \E k \in account'[s] : k.key = key
  BY <1>3, <1>4
<1>9. OneAtATime' /\ DeployedHasSecret'
  BY <1>0, <1>1, <1>5 DEF OneAtATime, DeployedHasSecret
<1>10. StoredIsAccepted'
  <2>1. ASSUME NEW u \in Services, secret[u] # 0 PROVE Accepted(u, secret[u])'
    <3>1. CASE u = s
      BY <3>1, <2>1, <1>1, <1>2, <1>8 DEF Accepted
    <3>2. CASE u # s
      BY <3>2, <2>1, <1>0, <1>1, <1>4 DEF StoredIsAccepted, Accepted
    <3> QED
      BY <3>1, <3>2
  <2> QED
    BY <2>1, <1>1 DEF StoredIsAccepted
<1>11. HeldIsAccepted'
  <2>1. ASSUME NEW u \in Services, At(u, "ensure", "secret")'
        PROVE  pass'.key # 0 /\ Accepted(u, pass.key)'
    <3>1. u = s /\ pass'.key = key
      BY <2>1, <1>5, <1>7 DEF At
    <3> QED
      BY <3>1, <1>2, <1>8 DEF Accepted
  <2> QED
    BY <2>1 DEF HeldIsAccepted
<1>12. StoredFirst' /\ GoneFirst' /\ TeardownIsOurs'
  BY <1>5 DEF StoredFirst, GoneFirst, TeardownIsOurs, At
<1> QED
  BY <1>6, <1>9, <1>10, <1>11, <1>12 DEF RecInv

LEMMA RecMergeSecret ==
  ASSUME RecInv, NEW s \in Services, MergeSecret(s) PROVE RecInv'
<1>0. /\ RecTypeOK /\ OneAtATime /\ StoredIsAccepted /\ HeldIsAccepted /\ DeployedHasSecret
      /\ StoredFirst /\ GoneFirst /\ TeardownIsOurs
  BY DEF RecInv
<1>1. /\ secret' = [secret EXCEPT ![s] = pass.key] /\ Goto("deploy")
      /\ UNCHANGED <<row, patch, edits, dep, net, account, fresh, last>>
      /\ At(s, "ensure", "secret")
  BY DEF MergeSecret
<1>2. pass.key # 0 /\ pass.key \in Nat /\ Accepted(s, pass.key)
  BY <1>0, <1>1 DEF HeldIsAccepted, RecTypeOK, PassType
<1>3. /\ secret' \in [Services -> Nat] /\ secret'[s] = pass.key
      /\ \A u \in Services : u # s => secret'[u] = secret[u]
  BY <1>0, <1>1, <1>2 DEF RecTypeOK
<1>4. /\ pass' \in PassType /\ pass'.phase = "ensure" /\ pass'.cur = pass.cur
      /\ pass'.step = "deploy"
  <2>1. "deploy" \in Steps
    BY DEF Steps
  <2> QED
    BY <2>1, <1>0, <1>1, PassGoto DEF At
<1>5. RecTypeOK'
  BY <1>0, <1>1, <1>3, <1>4 DEF RecTypeOK
<1>6. OneAtATime' /\ HeldIsAccepted' /\ GoneFirst' /\ TeardownIsOurs'
  BY <1>0, <1>4 DEF OneAtATime, HeldIsAccepted, At, GoneFirst, TeardownIsOurs
<1>7. StoredIsAccepted'
  BY <1>0, <1>1, <1>2, <1>3 DEF StoredIsAccepted, Accepted
<1>8. DeployedHasSecret'
  BY <1>0, <1>1, <1>2, <1>3 DEF DeployedHasSecret
<1>9. StoredFirst'
  BY <1>0, <1>1, <1>2, <1>3, <1>4 DEF StoredFirst, OneAtATime, At
<1> QED
  BY <1>5, <1>6, <1>7, <1>8, <1>9 DEF RecInv

LEMMA RecApplyDeployment ==
  ASSUME RecInv, NEW s \in Services, ApplyDeployment(s) PROVE RecInv'
<1>0. /\ RecTypeOK /\ OneAtATime /\ StoredIsAccepted /\ HeldIsAccepted /\ DeployedHasSecret
      /\ StoredFirst /\ GoneFirst /\ TeardownIsOurs
  BY DEF RecInv
<1>1. At(s, "ensure", "deploy") /\ UNCHANGED <<row, patch, edits, net, secret, account, fresh, last>>
  BY DEF ApplyDeployment
<1>2. CASE ~Mine(s)
  <2>1. Leave /\ dep' = dep
    BY <1>2 DEF ApplyDeployment
  <2>2. pass' \in PassType /\ pass'.cur = {} /\ pass'.phase = "ensure"
    BY <2>1, <1>0, <1>1, PassLeave DEF At
  <2>3. RecTypeOK'
    BY <2>1, <2>2, <1>0, <1>1 DEF RecTypeOK
  <2> QED
    BY <2>1, <2>2, <2>3, <1>1, RecAside
<1>3. CASE Mine(s)
  <2>1. /\ Goto("service")
        /\ dep' = IF dep[s].spec = pass.want[s] THEN dep
                  ELSE [dep EXCEPT ![s] = [owner |-> "builder", spec |-> pass.want[s],
                                           health |-> "progressing"]]
    BY <1>3 DEF ApplyDeployment
  <2>2. [owner |-> "builder", spec |-> pass.want[s], health |-> "progressing"] \in DepType
    BY <1>0 DEF RecTypeOK, PassType, DepType
  <2>3. /\ dep' \in [Services -> DepType]
        /\ \A u \in Services : u # s => dep'[u] = dep[u]
    BY <2>1, <2>2, <1>0 DEF RecTypeOK
  <2>4. pass' \in PassType /\ pass'.cur = pass.cur /\ pass'.step = "service"
        /\ pass'.phase = "ensure"
    <3>1. "service" \in Steps
      BY DEF Steps
    <3> QED
      BY <3>1, <2>1, <1>0, <1>1, PassGoto DEF At
  <2>5. RecTypeOK'
    BY <2>3, <2>4, <1>0, <1>1 DEF RecTypeOK
  <2>6. OneAtATime' /\ HeldIsAccepted' /\ StoredFirst' /\ GoneFirst' /\ TeardownIsOurs'
    BY <2>4, <1>0 DEF OneAtATime, HeldIsAccepted, StoredFirst, At, GoneFirst, TeardownIsOurs
  <2>7. StoredIsAccepted'
    BY <1>0, <1>1 DEF StoredIsAccepted, Accepted
  <2>8. DeployedHasSecret'
    BY <2>3, <1>0, <1>1 DEF DeployedHasSecret, StoredFirst
  <2> QED
    BY <2>5, <2>6, <2>7, <2>8 DEF RecInv
<1> QED
  BY <1>2, <1>3

LEMMA RecDeleteDeployment ==
  ASSUME RecInv, NEW s \in Services, DeleteDeployment(s) PROVE RecInv'
<1>0. /\ RecTypeOK /\ OneAtATime /\ StoredIsAccepted /\ HeldIsAccepted /\ DeployedHasSecret
      /\ StoredFirst /\ GoneFirst /\ TeardownIsOurs
  BY DEF RecInv
<1>1. /\ At(s, "remove", "undeploy") /\ Goto("unserve") /\ dep' = [dep EXCEPT ![s] = NoDep]
      /\ UNCHANGED <<row, patch, edits, net, secret, account, fresh, last>>
  BY DEF DeleteDeployment
<1>2. /\ dep' \in [Services -> DepType] /\ dep'[s].owner = "none"
      /\ \A u \in Services : u # s => dep'[u] = dep[u]
  <2>1. NoDep \in DepType /\ NoDep.owner = "none"
    BY DEF NoDep, DepType
  <2> QED
    BY <2>1, <1>0, <1>1 DEF RecTypeOK
<1>3. pass' \in PassType /\ pass'.cur = pass.cur /\ pass'.step = "unserve"
        /\ pass'.phase = "remove" /\ pass'.todo = pass.todo
  <2>1. "unserve" \in Steps
    BY DEF Steps
  <2> QED
    BY <2>1, <1>0, <1>1, PassGoto DEF At
<1>4. RecTypeOK'
  BY <1>0, <1>1, <1>2, <1>3 DEF RecTypeOK
<1>5. pass.cur = {s} /\ s \notin pass.todo /\ pass.todo \subseteq Services
  BY <1>0, <1>1 DEF OneAtATime, TeardownIsOurs, At, RecTypeOK, PassType
<1>6. OneAtATime' /\ HeldIsAccepted' /\ StoredFirst'
  BY <1>0, <1>3 DEF OneAtATime, HeldIsAccepted, StoredFirst, At
<1>7. StoredIsAccepted' /\ DeployedHasSecret'
  BY <1>0, <1>1, <1>2 DEF StoredIsAccepted, Accepted, DeployedHasSecret
<1>8. GoneFirst'
  BY <1>2, <1>3, <1>5 DEF GoneFirst
<1>9. TeardownIsOurs'
  BY <1>0, <1>1, <1>2, <1>3, <1>5 DEF TeardownIsOurs, At
<1> QED
  BY <1>4, <1>6, <1>7, <1>8, <1>9 DEF RecInv

LEMMA RecDeleteSecret ==
  ASSUME RecInv, NEW s \in Services, DeleteSecret(s) PROVE RecInv'
<1>0. /\ RecTypeOK /\ OneAtATime /\ StoredIsAccepted /\ HeldIsAccepted /\ DeployedHasSecret
      /\ StoredFirst /\ GoneFirst /\ TeardownIsOurs
  BY DEF RecInv
<1>1. /\ At(s, "remove", "unsecret") /\ Leave
      /\ secret' = [secret EXCEPT ![s] = 0] \/ secret' = secret
      /\ row' = [row EXCEPT ![s].status = "none"] /\ last' = [last EXCEPT ![s] = "none"]
      /\ UNCHANGED <<patch, edits, dep, net, account, fresh>>
  BY DEF DeleteSecret
<1>2. /\ secret' \in [Services -> Nat]
      /\ \A u \in Services : secret'[u] = secret[u] \/ (u = s /\ secret'[u] = 0)
  BY <1>0, <1>1 DEF RecTypeOK
<1>3. pass' \in PassType /\ pass'.cur = {} /\ pass'.phase = "remove" /\ pass'.todo = pass.todo
  BY <1>0, <1>1, PassLeave DEF At
<1>4. row' \in [Services -> RowType]
      /\ last' \in [Services -> {"none", "progressing", "ok", "failed"}]
  BY <1>0, <1>1 DEF RecTypeOK, RowType
<1>5. RecTypeOK'
  BY <1>0, <1>1, <1>2, <1>3, <1>4 DEF RecTypeOK
<1>6. OneAtATime' /\ HeldIsAccepted' /\ StoredFirst' /\ GoneFirst'
  BY <1>3 DEF OneAtATime, HeldIsAccepted, StoredFirst, At, GoneFirst
<1>7. StoredIsAccepted'
  BY <1>0, <1>1, <1>2 DEF StoredIsAccepted, Accepted
<1>8. DeployedHasSecret'
  BY <1>0, <1>1, <1>2 DEF DeployedHasSecret, GoneFirst, At
<1>9. TeardownIsOurs'
  BY <1>0, <1>1, <1>3 DEF TeardownIsOurs, At
<1> QED
  BY <1>5, <1>6, <1>7, <1>8, <1>9 DEF RecInv

(* Helm installs a workload where there is none: none that a pass tears down. *)
LEMMA RecChartInstall ==
  ASSUME RecInv, NEW s \in Services, ChartInstall(s) PROVE RecInv'
<1>0. /\ RecTypeOK /\ OneAtATime /\ StoredIsAccepted /\ HeldIsAccepted /\ DeployedHasSecret
      /\ StoredFirst /\ GoneFirst /\ TeardownIsOurs
  BY DEF RecInv
<1>1. /\ dep[s] = NoDep /\ edits' \in Nat
      /\ dep' = [dep EXCEPT ![s] = [owner |-> "chart", spec |-> 0, health |-> "ok"]]
      /\ net' = [net EXCEPT ![s] = "chart"]
      /\ UNCHANGED <<row, patch, secret, account, fresh, pass, last>>
  BY <1>0 DEF ChartInstall, Edit, RecTypeOK
<1>2. /\ dep' \in [Services -> DepType] /\ dep'[s].owner = "chart" /\ dep[s].owner = "none"
      /\ \A u \in Services : u # s => dep'[u] = dep[u]
  <2>1. [owner |-> "chart", spec |-> 0, health |-> "ok"] \in DepType
    BY DEF DepType
  <2> QED
    BY <2>1, <1>0, <1>1 DEF RecTypeOK, NoDep
<1>3. RecTypeOK'
  BY <1>0, <1>1, <1>2 DEF RecTypeOK
<1>4. OneAtATime' /\ HeldIsAccepted' /\ StoredFirst' /\ StoredIsAccepted'
  BY <1>0, <1>1 DEF OneAtATime, HeldIsAccepted, StoredFirst, StoredIsAccepted, At, Accepted
<1>5. DeployedHasSecret' /\ GoneFirst'
  BY <1>0, <1>1, <1>2 DEF DeployedHasSecret, GoneFirst
<1>6. TeardownIsOurs'
  <2>1. pass.todo \subseteq Services /\ pass.cur \subseteq Services
    BY <1>0 DEF RecTypeOK, PassType
  <2> QED
    BY <2>1, <1>0, <1>1, <1>2 DEF TeardownIsOurs
<1> QED
  BY <1>3, <1>4, <1>5, <1>6 DEF RecInv

(* The administrator writes rows, pods settle: the pass and the keys stay. *)
LEMMA RecWorld ==
  ASSUME RecInv, NEW s \in Services,
         \/ SetService(s, "enabled") \/ SetService(s, "disabled") \/ DeleteService(s)
         \/ ReadForPatch(s) \/ WritePatch(s) \/ PodsSettle(s)
  PROVE  RecInv'
<1>0. RecTypeOK
  BY DEF RecInv
<1>1. /\ UNCHANGED <<net, secret, account, fresh, pass, last>>
      /\ edits' \in Nat
  BY <1>0 DEF SetService, DeleteService, ReadForPatch, WritePatch, PodsSettle, cluster, Edit,
     RecTypeOK
<1>2. NoRow \in RowType /\ NoPatch.read = NoRow
  BY DEF NoRow, RowType, NoPatch
<1>3. ASSUME NEW state \in {"none", "enabled", "disabled"} PROVE Upsert(s, state) \in [Services -> RowType]
  <2>1. [state |-> state, spec |-> edits + 1, status |-> row[s].status] \in RowType
    BY <1>0 DEF RecTypeOK, RowType
  <2> QED
    BY <2>1, <1>0 DEF Upsert, RecTypeOK
<1>4. row' \in [Services -> RowType] /\ patch'.read \in RowType
  <2>1. CASE SetService(s, "enabled") \/ SetService(s, "disabled")
    BY <2>1, <1>0, <1>3 DEF SetService, RecTypeOK
  <2>2. CASE DeleteService(s)
    BY <2>2, <1>0, <1>2 DEF DeleteService, RecTypeOK
  <2>3. CASE ReadForPatch(s)
    BY <2>3, <1>0 DEF ReadForPatch, RecTypeOK
  <2>4. CASE WritePatch(s)
    <3>1. patch.read.state \in {"none", "enabled", "disabled"}
      BY <1>0 DEF RecTypeOK, RowType
    <3> QED
      BY <3>1, <2>4, <1>0, <1>2, <1>3 DEF WritePatch, RecTypeOK
  <2>5. CASE PodsSettle(s)
    BY <2>5, <1>0 DEF PodsSettle, RecTypeOK
  <2> QED
    BY <2>1, <2>2, <2>3, <2>4, <2>5
<1>5. /\ dep' \in [Services -> DepType]
      /\ \A u \in Services : dep'[u].owner = dep[u].owner
  <2>1. CASE dep' = dep
    BY <2>1, <1>0 DEF RecTypeOK
  <2>2. CASE PodsSettle(s)
    <3>1. PICK h \in {"ok", "failed"} : dep' = [dep EXCEPT ![s].health = h]
      BY <2>2 DEF PodsSettle
    <3> QED
      BY <3>1, <1>0 DEF RecTypeOK, DepType
  <2> QED
    BY <2>1, <2>2 DEF SetService, DeleteService, ReadForPatch, WritePatch, cluster
<1>6. RecTypeOK'
  BY <1>0, <1>1, <1>4, <1>5 DEF RecTypeOK
<1> QED
  BY <1>1, <1>5, <1>6, RecAside

(* The loops of a pass begin and end. *)
LEMMA RecLoops ==
  ASSUME RecInv, BeginPass \/ ListManaged \/ BeginChecks \/ EndPass \/ CallFails \/ Restart
  PROVE  RecInv'
<1>0. RecTypeOK
  BY DEF RecInv
<1>1. UNCHANGED <<row, patch, edits, dep, net, secret, account, fresh>>
  BY DEF BeginPass, ListManaged, BeginChecks, EndPass, CallFails, Restart, cluster
<1>2. last' \in [Services -> {"none", "progressing", "ok", "failed"}]
  BY <1>0 DEF BeginPass, ListManaged, BeginChecks, EndPass, CallFails, Restart, RecTypeOK
<1>3. /\ pass' \in PassType /\ pass'.cur = {}
      /\ pass'.phase = "remove" => \A s \in pass'.todo : dep[s].owner = "builder"
  <2>1. CASE BeginPass
    <3> DEFINE want == [s \in Services |-> IF row[s].state = "enabled" THEN row[s].spec ELSE 0]
    <3>1. pass' = [Idle EXCEPT !.phase = "ensure", !.want = want,
                               !.todo = {s \in Services : want[s] # 0}]
      BY <2>1 DEF BeginPass
    <3>2. want \in [Services -> Nat] /\ {s \in Services : want[s] # 0} \in SUBSET Services
      BY <1>0 DEF RecTypeOK, RowType
    <3> HIDE DEF want
    <3> QED
      BY <3>1, <3>2, PassIdle DEF PassType
  <2>2. CASE ListManaged
    <3>1. CASE pass' = Idle
      BY <3>1, PassIdle
    <3>2. CASE pass' = [pass EXCEPT !.phase = "remove",
                          !.todo = {s \in Services : dep[s].owner = "builder" /\ NotWanted(s)}]
      <4> DEFINE T == {s \in Services : dep[s].owner = "builder" /\ NotWanted(s)}
      <4>1. T \in SUBSET Services /\ \A s \in T : dep[s].owner = "builder"
        OBVIOUS
      <4>2. pass' = [pass EXCEPT !.phase = "remove", !.todo = T] /\ pass.cur = {}
        BY <3>2, <2>2 DEF ListManaged
      <4> HIDE DEF T
      <4> QED
        BY <4>1, <4>2, <1>0 DEF RecTypeOK, PassType
    <3> QED
      BY <3>1, <3>2, <2>2 DEF ListManaged
  <2>3. CASE BeginChecks
    <3>1. {s \in Services : pass.want[s] # 0} \in SUBSET Services
      OBVIOUS
    <3> QED
      BY <3>1, <2>3, <1>0 DEF BeginChecks, RecTypeOK, PassType
  <2>4. CASE EndPass \/ Restart
    BY <2>4, PassIdle DEF EndPass, Restart
  <2>5. CASE CallFails
    <3>1. Leave
      BY <2>5 DEF CallFails
    <3>2. /\ pass' \in PassType /\ pass'.phase = pass.phase /\ pass'.todo = pass.todo
          /\ pass'.cur = {}
      BY <3>1, <1>0, PassLeave
    <3> QED
      BY <3>2 DEF RecInv, TeardownIsOurs
  <2> QED
    BY <2>1, <2>2, <2>3, <2>4, <2>5
<1>4. RecTypeOK'
  BY <1>0, <1>1, <1>2, <1>3 DEF RecTypeOK
<1> QED
  BY <1>1, <1>3, <1>4, RecAside

(* The steps of a service that leave its workload and its key alone. *)
LEMMA RecCalls ==
  ASSUME RecInv, NEW s \in Services,
         \/ CheckOwner(s) \/ ApplyService(s) \/ ApplyPDB(s) \/ Register(s) \/ PutEndpoints(s)
         \/ Deregister(s) \/ DeleteServiceObject(s) \/ DeletePDB(s) \/ Observe(s)
  PROVE  RecInv'
<1>0. RecTypeOK
  BY DEF RecInv
<1>1. /\ UNCHANGED <<patch, edits, dep, secret, account, fresh>>
      /\ s \in pass.cur
  BY DEF CheckOwner, ApplyService, ApplyPDB, Register, PutEndpoints, Deregister,
     DeleteServiceObject, DeletePDB, Observe, cluster, At
<1>2. net' \in [Services -> {"none", "builder", "chart"}]
  BY <1>0 DEF CheckOwner, ApplyService, ApplyPDB, Register, PutEndpoints, Deregister,
     DeleteServiceObject, DeletePDB, Observe, cluster, RecTypeOK
<1>3. /\ row' \in [Services -> RowType]
      /\ last' \in [Services -> {"none", "progressing", "ok", "failed"}]
  <2>1. CASE row' = row /\ last' = last
    BY <2>1, <1>0 DEF RecTypeOK
  <2>2. CASE row' = Record(s, dep[s].health) /\ last' = [last EXCEPT ![s] = dep[s].health]
    <3>1. dep[s].health \in {"none", "progressing", "ok", "failed"}
      BY <1>0 DEF RecTypeOK, DepType
    <3> QED
      BY <3>1, <2>2, <1>0 DEF RecTypeOK, RowType, Record
  <2> QED
    BY <2>1, <2>2 DEF CheckOwner, ApplyService, ApplyPDB, Register, PutEndpoints, Deregister,
       DeleteServiceObject, DeletePDB, Observe
<1>4. CASE Leave
  <2>1. /\ pass' \in PassType /\ pass'.phase = pass.phase /\ pass'.todo = pass.todo
        /\ pass'.cur = {}
    BY <1>4, <1>0, PassLeave
  <2>2. RecTypeOK'
    BY <2>1, <1>0, <1>1, <1>2, <1>3 DEF RecTypeOK
  <2>3. pass.phase = "remove" => \A u \in pass.todo : dep[u].owner = "builder"
    BY DEF RecInv, TeardownIsOurs
  <2> QED
    BY <2>1, <2>2, <2>3, <1>1, RecAside
<1>5. ASSUME NEW l \in Steps \ {"secret", "deploy"}, Goto(l),
             pass.phase = "remove" =>
               \/ l = "undeploy" /\ pass.step = "deregister"
               \/ l \in {"unbudget", "unsecret"} /\ pass.step \in {"unserve", "unbudget"}
      PROVE  RecInv'
  <2>1. pass' \in PassType
    BY <1>5, <1>0, PassGoto
  <2>2. RecTypeOK'
    BY <2>1, <1>0, <1>1, <1>2, <1>3 DEF RecTypeOK
  <2> QED
    BY <2>2, <1>1, <1>5, RecGoto
<1>6. {"identity", "budget", "register", "endpoints", "undeploy", "unbudget", "unsecret"}
         \subseteq Steps \ {"secret", "deploy"}
  BY DEF Steps
<1>7. CASE CheckOwner(s) \/ ApplyService(s) \/ ApplyPDB(s) \/ Register(s)
  <2>1. /\ pass.phase = "ensure"
        /\ Leave \/ Goto("identity") \/ Goto("budget") \/ Goto("register") \/ Goto("endpoints")
    BY <1>7 DEF CheckOwner, ApplyService, ApplyPDB, Register, At
  <2> QED
    BY <2>1, <1>4, <1>5, <1>6
<1>8. CASE PutEndpoints(s) \/ Observe(s)
  BY <1>8, <1>4 DEF PutEndpoints, Observe
<1>9. CASE Deregister(s)
  BY <1>9, <1>5, <1>6 DEF Deregister, At
<1>10. CASE DeleteServiceObject(s)
  BY <1>10, <1>5, <1>6 DEF DeleteServiceObject, At
<1>11. CASE DeletePDB(s)
  BY <1>11, <1>5, <1>6 DEF DeletePDB, At
<1> QED
  BY <1>7, <1>8, <1>9, <1>10, <1>11

LEMMA RecNext == RecInv /\ [Next]_vars => RecInv'
<1> SUFFICES ASSUME RecInv, [Next]_vars PROVE RecInv'
  OBVIOUS
<1>1. CASE UNCHANGED vars
  <2>1. UNCHANGED <<row, patch, edits, dep, net, secret, account, fresh, last, pass>>
    BY <1>1 DEF vars, cluster
  <2>2. RecTypeOK'
    BY <2>1 DEF RecInv, RecTypeOK
  <2> QED
    BY <2>1, <2>2, RecAside
<1>2. ASSUME NEW s \in Services, Ensure(s) \/ Remove(s) \/ Observe(s) PROVE RecInv'
  BY <1>2, RecCalls, RecRegisterIdentity, RecMergeSecret, RecApplyDeployment,
     RecDeleteDeployment, RecDeleteSecret DEF Ensure, Remove
<1>3. CASE Reconcile
  BY <1>3, <1>2, RecLoops, RecPick DEF Reconcile
<1> QED
  BY <1>1, <1>3, RecWorld, RecLoops, RecChartInstall DEF Next

(* Every workload that builder runs has a key in its Secret that gatekeeper *)
(* accepts: the key is reused once stored, stored before the workload is    *)
(* applied and deleted after it, whatever fails or restarts in between.     *)
THEOREM WorkloadsAuthenticate == Spec => []CanAuthenticate
<1>1. RecInv => CanAuthenticate
  BY DEF RecInv, DeployedHasSecret, StoredIsAccepted, Accepted, CanAuthenticate
<1> QED
  BY <1>1, InitRecInv, RecNext, PTL DEF Spec

(* No step takes over or removes the chart's workload, or rewrites its      *)
(* Service: a pass tears down only what it listed as builder's, and nobody  *)
(* else can have taken the name since.                                      *)
THEOREM ChartIsUntouched == Spec => ForeignUntouched
<1>1. ASSUME RecInv, [Next]_vars
      PROVE  [\A s \in Services : /\ dep[s].owner = "chart" => dep'[s] = dep[s]
                                  /\ net[s] = "chart" => net'[s] # "builder"]_vars
  <2>0. RecTypeOK
    BY <1>1 DEF RecInv
  <2>1. ASSUME NEW s \in Services, net[s] = "chart" PROVE net'[s] # "builder"
    <3>1. CASE net' = net
      BY <3>1, <2>1
    <3>2. ASSUME NEW u \in Services, ApplyService(u) \/ DeleteServiceObject(u) \/ ChartInstall(u)
          PROVE  net'[s] # "builder"
      BY <3>2, <2>0, <2>1 DEF ApplyService, DeleteServiceObject, ChartInstall, RecTypeOK
    <3> QED
      BY <3>1, <3>2, <1>1
         DEF Next, vars, cluster, SetService, DeleteService, ReadForPatch, WritePatch, PodsSettle,
             Reconcile, CallFails, Restart, BeginPass, ListManaged, BeginChecks, EndPass, Pick,
             Ensure, Remove, Observe, CheckOwner, RegisterIdentity, MergeSecret, ApplyDeployment,
             ApplyPDB, Register, PutEndpoints, Deregister, DeleteDeployment, DeletePDB, DeleteSecret
  <2>2. ASSUME NEW s \in Services, dep[s].owner = "chart" PROVE dep'[s] = dep[s]
    <3>1. CASE dep' = dep
      BY <3>1, <2>2
    <3>2. ASSUME NEW u \in Services, PodsSettle(u) \/ ApplyDeployment(u) \/ ChartInstall(u)
          PROVE  dep'[s] = dep[s]
      BY <3>2, <2>0, <2>2 DEF PodsSettle, ApplyDeployment, ChartInstall, Mine, NoDep, RecTypeOK
    <3>3. ASSUME NEW u \in Services, DeleteDeployment(u) PROVE dep'[s] = dep[s]
      <4>1. dep[u].owner = "builder"
        BY <3>3, <1>1 DEF DeleteDeployment, At, RecInv, TeardownIsOurs
      <4> QED
        BY <4>1, <3>3, <2>0, <2>2 DEF DeleteDeployment, RecTypeOK
    <3> QED
      BY <3>1, <3>2, <3>3, <1>1
         DEF Next, vars, cluster, SetService, DeleteService, ReadForPatch, WritePatch,
             Reconcile, CallFails, Restart, BeginPass, ListManaged, BeginChecks, EndPass, Pick,
             Ensure, Remove, Observe, CheckOwner, RegisterIdentity, MergeSecret, ApplyService,
             ApplyPDB, Register, PutEndpoints, Deregister, DeleteServiceObject, DeletePDB,
             DeleteSecret
  <2> QED
    BY <2>1, <2>2
<1> QED
  BY <1>1, InitRecInv, RecNext, PTL DEF Spec, ForeignUntouched

=============================================================================
