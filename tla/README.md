# Verification of codearmory

TLA+ models of the parts of codearmory (`src/`) in which several actors, failing
calls or the passage of time decide what happens: the workflow engine, forge's
queue and leases, the events service, the outposts, builder's reconciler,
git-factory's maintenance and gatekeeper's accounts. TLC checks them on small
instances; TLAPS proves what holds for every instance. `PROJECT.json` maps every
definition to the lines it models and lists the hazards the properties are for.
Source paths are relative to `src/src/systems/`.

## 1. The system

codearmory is a set of Go services behind one gateway, each with its own
database, most of them with several replicas. `workflows` stores pipelines and
executes them; a step calls any other service, most often `forge`, which runs
commands as Kubernetes jobs. `events` matches events to triggers and starts runs;
`outpost-gateway` takes commands to agents in other clusters and brings their
events back; `builder` deploys the optional services; `git-factory` hosts
repositories; `gatekeeper` keeps accounts, roles and organisations and issues the
sessions the others check.

| component | state | operations | hard behaviour | what makes it correct | module |
|---|---|---|---|---|---|
| run lifecycle (`workflows/db.go`, `worker.go`, `main.go`) | run row: status, lease, session | trigger, dequeue, complete, pause, heartbeat, sweeps | workers, sweeps and cancels race; crashes | one owner; terminal is final; sweeps take orphans; runs end | `WorkflowRun` |
| approvals, run credentials (`workflows/api_runs.go`) | gate rows; sessions | approve, reject; mint, rotate, revoke | decisions in concurrent transactions; revocation against use | decisions final and total; an executing run has a live session | `WorkflowRun` |
| graph scheduler (`workflows/scheduler.go`, `graph.go`) | node and edge states | launch, collect, skip, park, resume | results in any order, skip cascades, resume from rows | exactly the due steps run, once; red stays red; it drains | `RunGraph` |
| fan-outs and loops (`workflows/mapregion.go`, `scatter.go`, `loopregion.go`) | goroutines, leg budget, slots, clones, rows | matrix, scatter, map, loop | nested semaphores, tolerance, cancellation | order-free verdicts, closed rows, bounded clones, all return | `Fanout` |
| step execution (`workflows/worker.go`) | step run, submitted job | submit, poll, mirror, give up | lost answers, late workers at the other side | what a step reports stands; it does not wait for ever | `StepJob` |
| execution queue (`forge/db.go`, `worker.go`, `reaper_executions.go`) | execution rows, jobs, caps, budget | submit, claim, run, cancel, reap | claims of replicas, late completion, crashes | limits hold, one worker, outcomes kept, all ends | `ForgeQueue` |
| sandbox leases (`forge/lease.go`, `handlers_lease.go`, `reaper_leases.go`) | lease rows, pods | create, start, use, release, reap, sweep | row and pod torn apart; stale lists | ready means a sandbox; no reaping under a command; pods go | `ForgeLease` |
| events (`events/`) | event log, triggers, dispatch rows | deliver, match, claim, run, retry | redelivery, unclaimed retries, crashes | no double firing, truthful rows, settled | `EventDispatch` |
| outposts (`outpost-gateway/`, `outpost/`) | commands, outbox | enqueue, poll, ack, dispatch | lost messages, leases, crashes on both sides | result before ack, one dispatcher per batch, settled | `Outpost` |
| builder (`builder/`) | desired rows, cluster objects, identities, routes | write, reconcile, roll out, tear down | failing calls, edits and a chart in the middle of a pass | workloads can authenticate, foreign objects untouched, convergence | `ServiceReconciler` |
| git-factory (`git-factory/lease.go`, `maintain.go`, `reflock.go`) | lease row, ref locks | acquire, renew, sweep, cool down | stalled statements, takeovers | entitled sweepers are alone; one sweep per interval | `RepoMaintenance` |
| accounts (`gatekeeper/`) | users, memberships, orgs, invites, default roles | signup, login, org and invite handlers | read-modify-write over rows and a cache | one bootstrap admin, no doubled membership, roles resolve, waits end | `Accounts` |

`conductor`, `registry`, `git`, `tickets`, `wiki`, `artifacts`, `containers`,
`notifications`, `egress-proxy`, `portal-bff`, the CLI and the Terraform provider
are gateways, CRUD services or clients (section 6).

## 2. The modules

### Workflows

**`RunContract`** states what the service promises about one run: queued,
executed by at most one worker, parked on gates, queued again by an approval,
ended once. No rows, leases, transactions or sessions.

**`WorkflowRun`** is the detailed model, one step per SQL statement, per
statement of a transaction that others can observe, or per gatekeeper call.

- *Row:* `status`, `token`, `runSession`, `lease`, `age`; `gate[g]` is the latest
  step run of a gate.
- *Worker* (`tryOne`, `executeRun`): `Dequeue`, `Begin`, `GraphReturns`,
  `ParkGate`, `PauseForApproval`, `CompleteRun`, `FailRun`, `RevokeRunToken`,
  `Exit`. What `runGraph` does inside is `RunGraph`'s matter.
- *Rotation* (`rotateToken`): mint, store, swap, retire after 60 s of grace.
- *Decider* (`approvalDecision` and what it calls): load, select a gate, mint,
  store, lock the gate row, count what remains, re-queue; or sweep the siblings
  and fail the run. Under read committed, `Remaining` does not see updates of
  transactions that have not committed, row locks block, and of two rejections
  that block each other one is the deadlock victim.
- *Canceller*, `Sweep`, `Crash`, `Shutdown`, time (`LeaseExpires`, `TimePasses`,
  `DeadlineFires`) and an edit of the pipeline's timeout.

One run is modelled, because every statement is keyed by `run_id`. A requested
revocation arrives; a commit is applied or reported as failed; time is two flags
with the guarantees the constants give it (30 s heartbeats against a 5 min lease,
a context timer that fires within the sweep's 120 s of grace).

**`RunGraph`** is `runGraph` with `resolveOutbound`, the readiness rules, the
region rules and `rebuildResumeState`, over a graph chosen in the initial state.
A unit is a map region, an outermost loop or a single step. Results arrive in any
order and may be a cancellation of the unit's own. A condition has one answer per
run. `BodyRecords` restricts a run to regions each of whose members left a
completed step run; the resume read succeeds. `Regular` graphs are those whose
regions start at one step (`SingleEntry`) or are left by no route and entered
behind their first steps (`LateEntry`), and whose units form no cycle
(`UnitsAcyclic`); validation accepts more (section 5).

**`Fanout`** is `runTaskGroup`, `runScatterGroup`, `runMapRegion` with
`runIteration`, and `runLoopRegion`: each goroutine's waits for the run-wide leg
budget and its node's own slots, the map's child context and tolerance, clone
volumes, the loop's attempts with its exit condition, the step-run rows and the
verdicts. A body is one step.

**`StepJob`** composes a workflow step with forge's queue: it extends
`ForgeQueue` with the step that submits an execution, polls it and ends with the
final state it read, or stops waiting before that. Every other step of the queue
leaves the step as it is.

### Forge

**`ForgeQueue`**: executions in the order they were submitted. `PickPending` and
`CommitClaim` are the two statements of `claimPendingExecution`, serialised by the
advisory lock; `Register`, `StartJob`, `Collect`, `Complete` are the worker with
its one retry of a lost exit code; `ReadForCancel`, `CancelPending`,
`CancelRunning` the cancel handler, which decides on a status it read earlier and
reaches only workers of its own replica; `ReapScan`, `ReapTeardown`, `ReapFail`
the reaper. `Execution.Complete` is unguarded, as in the code. `JobStep` is the
cluster; `Crash` takes a replica's workers and leaves rows and jobs.

**`ForgeLease`**: quota check and insert as two steps, the asynchronous starter,
commands in the lease, the release, and the reaper's sweep statement by statement
over what it read (`sweep`); idle, start and lifetime deadlines are flags.
`missed` names the leases a sweep mistook for gone.

### Events and outposts

**`EventDispatch`**: `Deliver` starts a goroutine on a replica; it appends the
event, loads the triggers, inserts the claim row, runs the actions and records the
result, one step each. The retry loop of each replica (`RetryScan`) selects due
rows without claiming them. Filters are the relation `Matches`. An action that
reports an error may have taken effect.

**`Outpost`**: an agent polls, executes, posts the result event with retries and
only then acknowledges; a claim that has lapsed is handed out again. Dispatchers
of two gateways claim batches with a lease, deliver them one at a time, and back
off or dead-letter. `Tick` is the timeout of one delivery. A command reports one
event.

### Builder, git-factory, gatekeeper

**`ServiceReconciler`**: rows written by the administrator, a pass that works on
the rows it read at its start, one step per call to gatekeeper, cluster or
registry, any of which may fail (`CallFails`), with `Restart` between any two and
`ChartInstall` at any time. Builder is one replica, the chart's default.

**`RepoMaintenance`**: each statement on the lease carries the time its pod read
before sending it, and any time may pass in between. The renewer is a goroutine
of its own. A completed sweep keeps the lease for the rest of the interval. Ref
locks have an age; the janitor's stat and unlink are two steps. The pods share one
clock, and a statement takes effect while its call waits for it or never.

**`Accounts`**: a request is one of signup, login, user update or deletion,
creating, deleting, switching or leaving an organisation, creating, accepting,
declining or cancelling an invite. It takes one step per statement, over rows, a
user cache and row locks; any statement may fail. A membership is a row with the
order in which it was made, so that the code's "oldest membership" is determined.
A failed statement has no effect, and a read goes to the primary.

The `MC*` modules give the constants their values. The theorems are in
`WorkflowRun_proofs` (with those of `RunGraph`), `Fanout_proofs`,
`ForgeQueue_proofs` (with those of `StepJob` and `ForgeLease`),
`EventDispatch_proofs`, `Outpost_proofs`, `ServiceReconciler_proofs`,
`RepoMaintenance_proofs` and `Accounts_proofs`. A proof module is about one
service: the run and its graph are both of `workflows`, queue and leases both of
`forge`. The proofs about the one do not use facts about the other; only names
are kept apart (`GraphInit`, `LeaseSpec`).

## 3. What the runs check

| run | instance | shows |
|---|---|---|
| `run_lifecycle` | 2 workers, 3 gates, 2 deciders | one owner; decisions final; an approval re-queues only after every gate; a rejection fails the run and closes its gates; the contract is implemented |
| `run_cancel` | 2 replicas, 1 gate, 1 decider, 1 canceller, a rotation, a timeout edit; deadlock checked | `RunIsServed`: an executing run has a live session, a parked run an open gate; terminal is final |
| `run_recovery` | 2 replicas, a crash or shutdown, a rotation | sweeps take only orphans; `RunProgress`: running runs end, queued runs are claimed |
| `graph_frontier` | 770 graphs: every acyclic graph on 4 steps with all or no conditions and up to two gates, and all regular graphs with a 2-step map or loop | `TraversalSound`: ancestors settled, a failure stays red; exactly the due units run, once; every traversal drains |
| `fanout` | 3 map values on 2 slots; 2 values beside a task; 2 tasks beside 2 scatter legs; a loop of 2 attempts beside 2 tasks; 2 legs of budget | `Verdicts`: map, group and loop end as their parts did, in any order; `ReturnedIsComplete`: no iteration of a green map missing, no row left open; clones within slots; all return their legs |
| `forge_queue` | 2 replicas with a worker each, 3 workloads of 2 executions, one submitted by a step, caps of 1, one reaper, 1 fault | `WithinLimits`: caps and budget; `ExecutionOwned`: one worker per execution, a worker behind every job; recorded and reported outcomes stand; executions and steps end |
| `forge_lease` | 1 lease, 2 commands, 2 faults; deadlock checked | ready has a sandbox; a working lease is not reaped as idle; ended leases lose their pod |
| `event_dispatch` | 1 trigger with 2 actions, 1 event delivered twice, 2 replicas, 2 attempts, 1 edit, 1 fault | no double firing; the row tells what happened; failed dispatches are retried to an end |
| `outpost` | 1 command, 1 agent, 2 gateways, 2 attempts each, batches of 2, 1 fault | an acknowledged result has its event; no two dispatchers deliver one event at once; everything settles |
| `builder_converge` | 1 replicated service, 3 edits, 2 faults | workloads can authenticate; the chart's objects are untouched; the desired state is reached |
| `git_maintenance` | 2 pods, 1 repository, 1 push, lease of 2, interval of 3, 6 instants, 2 faults | overlapping sweepers have outlived their lease; one sweep per interval |
| `accounts` | 2 users, 1 organisation, 2 invites to one user, 2 requests at once, 3 in all, 1 refresh, 1 fault; empty and running instances | one bootstrap admin; no doubled membership; default roles resolve; `WaitsEnd`: no wait without end |

Two of every racing actor are the fewest that race. Three gates are needed for a
decision that comes between two others; four steps make a diamond and a region
with something before and behind it; a map needs one value more than it has
slots; a loop needs a second attempt to go wrong. The workloads of `forge_queue`
are one user twice (caps), two that fit only by the escape for oversized
executions, and two that do not fit together. The clock of `git_maintenance`
covers a lease that lapses, a takeover and the following cool-down. Constants
named `Max...` and `Horizon` bound what may recur without limit. Deadlock is not
checked where a behaviour may end because its bounds are used up.

### Fairness

- `WorkflowRun`: a worker's steps, `Dequeue` (a ticker in each worker),
  `LeaseExpires` (time), `Sweep` (a one-minute ticker). Nothing of users, crashes
  or rotation.
- `RunGraph`: the scheduler goroutine, including that a launched unit reports.
- `Fanout`: each goroutine and each waiter; a step ends because `dispatchStep`
  bounds it. Weak fairness is enough for the semaphores, as each goroutine
  acquires finitely often.
- `ForgeQueue`, `StepJob`: a claim transaction ends, deadlines pass, enabled
  reapers tick, a step polls. Workers may stand still for ever: the reaper is what
  ends their executions.
- `ForgeLease`: reaper, starters, and the start timeout.
- `EventDispatch`: the goroutines, the retry ticker, and time.
- `Outpost`: agents poll and work, leases lapse, dispatchers tick, time passes.
- `ServiceReconciler`: the loop, rollouts that come to an end, and an image
  request that was begun.
- `RepoMaintenance` and `Accounts` claim no liveness; `WaitsEnd` is the safety
  part of "no request waits for ever".

## 4. What is proved

`WorkflowRun_proofs`, for any sets of workers, gates and requests and any bounds,
from the assumption `RunConstants` and, where it is said, one more:

- `Invariant`: `Spec => []IInv`, where `IInv` is the conjunction of `TypeOK`,
  `ExclusiveOwnership` and six facts the properties rest on. `LockInv`: a
  transaction past its first statement holds the row of its gate, and only open
  gates are held. `RejectInv`: a rejected gate means a failed run. `FreshInv`: a
  request that read the run in the present pause sees it parked or ended, and
  what it counted or locked still holds; requests of an earlier pause are
  `late`. `CtxInv`: no run context before `executeRun` creates it. `OrphanInv`:
  unless the timeout was edited, a stale lease or overdue run has no live worker.
  `LoadedInv`: a cancel under way has read an existing run.
- from it: `TypeCorrect`, `Exclusive`, `RejectionFails`, `Terminality`,
  `Decisiveness`, `ResumeIsLast`, `RejectionIsTotal`; and `SweepsTakeOrphans`
  under the further assumption that the timeout is not edited (`MaxEdits = 0`),
  which is needed (section 5).
- `Refinement`: `WorkflowRun` implements `RunContract`, with the executors being
  the workers that hold the run and the open gates those of a parked run.
- `ParkedIsDecidable`: with one decision request at a time (`OneRequest`, a
  condition on `Deciders`; section 5 shows it is needed) a parked run has an open
  gate. It rests on `PauseInv`: only a request's own commit outlives its re-queue,
  and a count that left gates open is still true at the commit.
- `RunServed`: under `OneRequest` and `RotateWhileOwner`, `RunIsServed`, for any
  number of workers, gates, rotations, cancels and crashes. `CredentialInv` says,
  while the run has not ended: a session minted and not yet stored is known to its
  minter alone (`UnstoredInv`), so none is written to the row twice; the session a
  run is queued with, or is about to be, is on nobody's list for revocation
  (`RowInv`); nor is the one the owner executes with or is rotating to
  (`WorkerInv`). `RotateWhileOwner` says that a rotation's session is minted only
  while its worker owns the run. The model has no clock, and without it TLC finds
  (`MaxRotations = 2`, `MaxSessions = 5`) a worker that rotates twice between
  its pause and its deferred cancel, the second time replacing the session its
  successor executes with; the code waits 30 to 60 minutes between rotations and
  not at all between those two statements. `run_cancel` does not assume it: a
  single rotation may fall anywhere.

`ExclusiveOwnership` is inductive with the types; the transaction properties are
not: that a re-queueing approval was the last needs what its count saw at an
earlier step to be still true at the commit, which is what `LockInv` and
`FreshInv` carry. Decisions of an earlier pause (`late`) are exempt: with three
gates such a request can act on a pause it was not made for.

`RepoMaintenance_proofs`, for any pods, repositories, pushes, times and bounds,
from `MaintenanceAssumption`:

- `SweepInvHolds`: `Spec => []SweepInv`, the conjunction of `LeaseTypeOK`,
  `ClocksRead` (a time read for a statement lies in the past),
  `RenewalInsideSweep` (a renewal is under way only inside its sweep),
  `GrantIsTheRow` (while a pod's grant has not run out, the row names that pod and
  nobody may take it) and `QuietStands` (during a cool-down the row has not
  expired and no pod is about to win it).
- from it `EntitledSweepsAloneHolds` and `OneSweepPerIntervalHolds`. Neither is
  inductive: both need that a statement sent with an old time cannot undo what
  was written after it, which is what `GrantIsTheRow` and `QuietStands` say.

`Fanout_proofs`, for any tasks, legs, iterations, shapes, limits, tolerance and
budget, from `FanoutConstants`:

- `FanoutInvariant`: `Spec => []FanInv`. Besides types and places, `GroupSoFar`:
  the group's status is the worst of the rows collected. `TripIsExact`: the map
  has tripped exactly when its reported failures exceed the tolerance.
  `LoopSoFar`: what the attempts of a running loop said. `SlotsHeld`: an iteration
  inside holds one of the map's slots. `RowsOpen` and `ReturnedIsOver`: a row is
  open only while its step is under way, and a returned node has nothing left.
- `FanoutVerdicts`: `Spec => []Verdicts`, without further assumptions.
- `FanoutIsComplete` assumes that nobody but the run cancels the jobs of the map
  (`JobCancels \cap Iters = {}`), and `ClonesAreBounded` that a created clone can
  be filled (`~CloneFails`). Both are needed: section 5 has what the code does
  otherwise. The second also shows that clones left behind by a dead context do
  not count against the limit, since then no more are made.

`ForgeQueue_proofs`, for any replicas, workers, executions, caps, budget and
bounds, from `QueueConstants`:

- `QueueInvariant`: `Spec => []QueueInv`. `HoldsWhenBusy`: a worker past its claim
  has an execution, and only then. `OneClaim` and `PickedIsPending`: one claim
  transaction at a time, and what it picked is pending still. `HeldIsClaimed`: an
  execution in a worker's hands was claimed. `ExclusiveExecution`: no two workers
  hold one execution. `CompletedIsFree` and `JobHasOwner` tie the job in the
  cluster to the row and the worker. From it `ExecutionIsOwned` and
  `OutcomesAreKept`.
- `AdmissionWithinLimits`: `Spec => []WithinLimits`, from `LimitsInv`: besides
  caps and budget, `PickedMayStart` says that the check a claim made under the
  advisory lock is still true at its commit, because in between executions only
  end. Sums over running executions are bounded by induction on the set, written
  as a minimal counterexample, since the library's induction theorem cannot be
  instantiated.
- `StepsUseTheQueue`: `StepSpec => Spec`, the workflow step is a user of the queue
  and adds no behaviour to it. So `ExecutionIsOwnedBySteps` and
  `StepsWithinLimits`; and `ReportedOutcomesStand`, which needs `StepInv` (what a
  step reported is what the row says).

`EventDispatch_proofs`, for any events, triggers, actions, replicas and bounds,
from `DispatchAssumption`:

- `NothingFiresTwice`, from `FireInv`. That no action takes effect twice while no
  run of its dispatch has failed is not inductive: it needs that a dispatch
  without a row has not been started (`Unstarted`), that a retry loop selects only
  what has failed (`RetriesFailed`), and that until then the one runner the claim
  row admitted is alone and has the rest of the actions before it (`QuietRow`,
  `QuietRunner`, `QuietRest`).
- `RowsAreTruthful`, from `TruthInv` in addition: the attempts a row counts,
  together with those a runner has yet to write, are failures that happened
  (`AttemptsCovered`, `WritesCovered`), a dead row failed as often as allowed
  (`DeadWasTried`), and what a runner has behind it has fired (`RunProgress`,
  `DoneHasFired`).

`Outpost_proofs`, for any finite set of commands, any agents, gateways and bounds,
from `OutpostAssumption`:

- `DeliveriesAreExclusive`, from `OutboxInv`: the lease of a claimed batch
  outlasts what remains of the batch (`Leased`: remaining deliveries are fewer
  than the remaining ticks), so a batch is free to be claimed again only when its
  dispatcher has finished it.
- `ResultsAreAccounted`, from `CommandInv` in addition: a run on an agent belongs
  to a delivery of its own (`OwnRuns`, `EventsRan`, `OwnResult`) and the event is
  in the outbox before the acknowledgement is sent (`StoredBeforeAck`,
  `ResultBeforeAck`).

`ServiceReconciler_proofs`, for any services, edits and bounds, from
`ReconcilerAssumption`: `WorkloadsAuthenticate` and `ChartIsUntouched`, from
`RecInv`. A secret in the cluster is one gatekeeper accepts (`StoredIsAccepted`);
the secret a pass holds between minting and storing is accepted too
(`HeldIsAccepted`), which is where failing calls and restarts would break it; a
deployment comes after its secret and goes before it (`DeployedHasSecret`,
`StoredFirst`, `GoneFirst`); a teardown works on objects builder labelled
(`TeardownIsOurs`).

`Accounts_proofs`, for any users, organisations, invites, requests, initial
memberships and bounds, from `AccountConstants`:

- `WaitsDoEnd`, from `LockInv`: only requests that can go on hold a row lock
  (`UserLocked`, `SignupLocked`), so every wait is for one of them.
- `OneAdmin`, from `AdminInv`: the number of users a signup counted under the
  bootstrap lock stands until it commits (`CountStands`, `OneSignup`), and a user
  who has entered has an account.
- `MembershipsAreSingle`, from `MemberInv`: the absence of a membership that a
  request judged is still true when it inserts (`AcceptStands`, `CreatorOwns`,
  `OneCreate`).
- `DefaultRolesResolve`, from `RoleInv`: the permissions a rebuild has made belong
  to no role but its own, and the ones it retires are named by none once the
  swap is done (`PendingIsFresh`, `NamedOnce`, `OldIsOwn`).

`WorkflowRun_proofs`, about `RunGraph`, for any steps, any set of graphs and any
number of pauses, from `GraphConstants` and `RegularRuns`: every graph is
`Regular` and every member of a completed region has a completed step run. These
are the hypotheses of the run, and section 5 shows that both are needed.

- `GraphInvariant`: `GraphSpec => []GraphInv`. `RoutesFollow`: a route is decided
  exactly when its source is settled and served, by the source's state and the
  answer its condition had. `Cascaded`: no step is left pending that nothing leads
  to any more. `UnitsMove`: the members of a unit share their state, but for a
  cascade passing through. `SkippedForCause`, `SettledBehind` and
  `LaunchedWhenCalled` say why a step is skipped, settled or started.
  `Exhausted`: between two launches no unit becomes ready that the launch did not
  see, since only regions that nothing leaves are skipped there.
- What makes it hard is the resume: `rebuildResumeState` knows what completed and
  not what was skipped, so a step skipped before the pause is pending again
  (`Forgotten`). `Replayed` says that such a step will be skipped once more, for
  the reasons it was skipped before: while the replay goes on none of its routes
  can be taken, and afterwards only whole regions are still forgotten.
- `TraversalIsSound` and `StepsRunOnce` follow from it, and so does
  `FrontierIsExact`: at the end of a traversal, behind a waiting gate nothing was
  touched, because the settled steps are closed under going back along routes
  (`BehindAGate`); and of the units that no gate holds back none is pending,
  because of such units one would come first, with all its sources settled
  (`NothingLeftBehind`). What the cascade computes is thus reached without an
  induction over the graph: acyclicity is the statement that every set of steps,
  or of units, has a first one.

`ForgeQueue_proofs`, about `ForgeLease`, for any leases, commands and bounds, from
`LeaseConstants`:

- `ReadyLeaseHasSandbox`, from `SandboxInv`: a lease without a row has no pod
  (`RowFirst`); its starter is gone once it is ready and tears down only what has
  ended (`StarterYields`); what the starter saw running is still there while the
  lease boots (`UpHasSandbox`); holder and sweep end the row before they stop the
  sandbox (`StopsEnded`); and until the sweep lists the pods it knows every
  active lease it has not missed, or is about to end it (`SweepKnows`), so the
  orphans it deletes belong to ended leases (`OrphansEnded`).
- `WorkingLeaseNotReaped`, from `ExpiredForCause`: what a sweep will end although
  a command has been in it all along is past its lifetime or its start timeout.
- `LeaseTypeCorrect`.

TLC checked every conjunct of these invariants before it was proved, those of
`GraphInv` also on five-step graphs with two regions.

Only model-checked: the liveness properties (`RunProgress`, `Drains`,
`FanoutReturns`, `EverythingEnds`, `LeaseSettles`, `DispatchSettles`, `Settles`,
`Converges`). Fairness and ENABLED are outside the prover. Every safety property
that a run checks, invariant or action property, is a theorem.

## 5. Claims the models refute

These comments are contradicted by the code they stand at. Each is a definition
of the module, or a passing property under other constants; no run of the project
fails, and the passing runs keep clear of these cases. Constants not named are
those of the module's run.

| property | constants | the code | what the comment says |
|---|---|---|---|
| `WorkflowRun!ParkedRunHasOpenGate` | `run_lifecycle` with 2 gates | two approvals of different gates each count the other's gate as open and neither re-queues the run (`workflows/db.go:747`) | "the run is only re-queued once the LAST one is decided" (`db.go:728`) |
| `WorkflowRun!UsableCredential` | 2 deciders, 1 gate | the loser of a double approval revokes the session that is on the row (`workflows/api_runs.go:762`) | "The new token is live and the run re-queued" (`:773`) |
| `WorkflowRun!ReclaimOnlyOrphans` | `run_recovery`, `MaxEdits = 1` | the sweep joins the edited timeout, the worker keeps the old one (`workflows/db.go:1184`) | "this only catches genuine orphans" (`:1181`) |
| `RunGraph!ExactFrontier` | `Graphs <- AcceptedGraphs` | a route into the middle of a region is accepted (`workflows/mapregion.go:133`) | "Catching it here beats a run that deadlocks" (`:122`) |
| `RunGraph!ExactFrontier`, `TraversalSound`, `RunsOnce` | `Graphs <- MapThenGate`, `BodyRecords = FALSE` | an empty region records only its first member (`mapregion.go:570`) | "every node that could run has been recorded" (`scheduler.go:684`) |
| `Fanout!GreenRanAll` | `JobCancels <- ThreeIters`, `Shapes <- MapAlone`, `FailureTolerance = 0` | an iteration whose job was cancelled elsewhere is passed over (`mapregion.go:406`) | "a partial map has not done the work its successors assume" (`:296`) |
| `Fanout!ClonesWithinSlots` | `CloneFails = TRUE`, `Shapes <- MapAlone`, `JobCancels = {}` | a clone that cannot be filled is not deleted (`mapregion.go:442`) | "the concurrent volume footprint tracks max_concurrent" (`:437`) |
| `StepJob!AbandonedIsCancelled` | | `pollAction` never cancels, `cancelRunJobs` and `SetJob` have no caller | "workflows cancels what it submitted, the moment it stops waiting for it" (`workflows/jobcancel.go:31`) |
| `ForgeQueue!EarlyCancelHeeded` | | a cancel between claim and registration is answered 204 and lost (`forge/handlers.go:684`) | "must be able to interrupt runCtx rather than silently no-op" (`forge/worker.go:217`) |
| `ForgeLease!SweepSparesActive` | | rows are listed before pods (`forge/reaper_leases.go:77`) | "deleting its sandbox as an orphan would kill a live lease" (`:76`) |
| `EventDispatch!AcceptedIsDispatched` | | the goroutine of an accepted event dies with its replica (`events/intake.go:95`) | "the retry loop covers a crash before it runs" (`:94`) |
| `Outpost!OutcomeIsFinal` | `Agents <- TwoAgents`, `MaxFaults = 0` | a second agent's acknowledgement replaces the first | "a terminal ack state" (`outpost-gateway/types.go:17`) |
| `ServiceReconciler!RouteWithdrawn` | | a failed deregistration is not repeated (`builder/cluster.go:336`) | "a failure is logged and corrected on the next reconcile" (`:333`) |
| `RepoMaintenance!LiveLockKept` | `Pushes <- TwoPushes` | a janitor stalled between stat and unlink removes a new push's lock (`git-factory/reflock.go:126`) | "the janitors need no coordination" (`:169`) |
| `Accounts!DeletedOrgEmpty` | | a pending invite to a deleted organisation is still accepted | "so no user is left holding a membership in it" (`gatekeeper/db_memberships.go:186`) |
| `Accounts!StampIsTrue` | | the version is read anew at the stamp, after a refresh (`gatekeeper/default_role.go:140`) | "so later logins skip the rebuild until grants change again" (`:138`) |

## 6. What is not modelled

The models cover the control of the components in section 1. The repository has
some 100 000 lines, most of which are HTTP handlers that validate and copy fields,
clients, rendering, and string work, where a model would repeat the code. By
component:

- *workflows*: synchronous steps (one request), substitution and conditions as
  text (`scheduler.go:162`: a condition may name a step that is no ancestor, so
  its answer depends on timing), nested loops, ticket mirroring, volume teardown,
  role clean-up, child runs waiting for a worker, and `jobcancel.go`, which
  nothing reaches.
- *forge*: runner classes, volumes, image builds, backends other than Kubernetes.
- *git-factory*: hosting, pull requests and replication. Replication promises only
  that a copy catches up; merges and mirror fetches do not bump the version it
  follows, and of overlapping fetches the older may be recorded last
  (`replicate.go:158`).
- *gatekeeper*: sessions, tokens, MFA, OAuth, secrets, teams, projects and policy
  evaluation. Read and left out although they race: permission requests are
  approved without locking the role row (`db_transactions.go:66`), the backfill of
  memberships at startup runs beside new organisations, a personal role is read,
  changed and written back, and a decline saves an invite read earlier.
- *outposts*: enrolment and heartbeats. *builder*: database providers and
  infrastructure objects. *events*: signatures and payloads.
- `conductor`, `registry`, `git`, `tickets`, `wiki`, `artifacts`, `containers`,
  `notifications`, `egress-proxy`, `portal-bff`, CLI, Terraform provider: no state
  of their own, or one row per request.

## 7. Plan

Done: all modules of section 2 and the proofs of section 4. The components listed
as not modelled in section 6 are the next ones to take up, the permission
requests of gatekeeper and the replication of git-factory first.
