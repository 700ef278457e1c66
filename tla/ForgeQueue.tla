----------------------------- MODULE ForgeQueue -----------------------------
(***************************************************************************)
(* Forge's execution queue: executions submitted to a table, claimed by    *)
(* the worker goroutines of several replicas under per-user and per-org    *)
(* caps and a cluster-wide resource budget, run as Kubernetes jobs, and    *)
(* ended by their worker, by a cancel request, or by the reaper that       *)
(* collects what outlived its deadline.                                    *)
(*                                                                         *)
(* An execution is a number, in the order of created_at.                   *)
(***************************************************************************)
EXTENDS Integers, FiniteSets, FiniteSetsExt

CONSTANTS
    NExec,          \* executions submitted in a behaviour
    Workers,        \* worker goroutines
    Replicas,       \* forge processes
    HostOf,         \* the replica of a worker
    Loads,          \* the workloads: each execution's user, org and cost,
                    \* whether somebody asks to cancel it, and whether a
                    \* workflow step submits it
    NoOrg,          \* org_id = ''
    Resources,      \* cpu and memory
    Budget,         \* the cluster budget per resource; <= 0 is unlimited
    UserCap,        \* per-user cap on running executions; <= 0 is unlimited
    OrgCap,         \* per-org cap
    Reapers,        \* replicas whose reaper is enabled (interval > 0)
    KernelIsolated, \* the backend retries a lost exit code
    MaxFaults       \* crashes, lost answers and failed writes in a behaviour

Execs == 1..NExec

ASSUME QueueConstants ==
    /\ NExec \in Nat /\ MaxFaults \in Nat /\ 0 \notin Workers
    /\ HostOf \in [Workers -> Replicas]
    /\ \A l \in Loads : \A e \in Execs : \A r \in Resources : l[e].cost[r] \in Nat
    /\ Budget \in [Resources -> Int] /\ Reapers \subseteq Replicas
    /\ UserCap \in Int /\ OrgCap \in Int
    /\ KernelIsolated \in BOOLEAN

Ended   == {"completed", "failed", "timed_out", "cancelled"}
Status  == {"unsubmitted", "pending", "running"} \cup Ended
\* The first job of an execution and the one of its retry ("-r1").
Attempt == {"first", "retry"}
Job     == {"absent", "active", "ended"}

VARIABLES
    load,    \* the workload submitted
    status,  \* executions.status
    overdue, \* the row is past its deadline for that status
    pc,      \* where a worker is
    cur,     \* the execution a worker holds, or 0
    try,     \* the job attempt a worker is at
    result,  \* what a worker is about to record
    tracked, \* workers whose execution is in their replica's cancels map
    dead,    \* workers whose run context has been cancelled
    job,     \* the cluster: the jobs of every execution
    unowned, \* executions whose job lost its worker (crash or lost answer)
    cancel,  \* the cancel request for an execution
    todo,    \* reaper: the stuck executions of its scan still to handle
    torn,    \* reaper: the execution it has torn down but not yet failed, or 0
    faults   \* faults so far

rows   == <<load, status, overdue>>
work   == <<pc, cur, try, result, tracked, dead>>
reaper == <<todo, torn>>
vars   == <<rows, work, job, unowned, cancel, reaper, faults>>

PC == {"idle", "picked", "claimed", "start", "waiting", "done"}
Request == {"none", "saw_pending", "saw_running", "acked", "acked_early", "refused"}

Init ==
    /\ load \in Loads
    /\ status = [e \in Execs |-> "unsubmitted"] /\ overdue = [e \in Execs |-> FALSE]
    /\ pc = [w \in Workers |-> "idle"] /\ cur = [w \in Workers |-> 0]
    /\ try = [w \in Workers |-> "first"] /\ result = [w \in Workers |-> "failed"]
    /\ tracked = {} /\ dead = {} /\ unowned = {}
    /\ job = [e \in Execs |-> [a \in Attempt |-> "absent"]]
    /\ cancel = [e \in Execs |-> "none"]
    /\ todo = [r \in Replicas |-> {}] /\ torn = [r \in Replicas |-> 0]
    /\ faults = 0

\* A row's new status; its deadline starts over.
SetStatus(e, s) ==
    /\ status' = [status EXCEPT ![e] = s]
    /\ overdue' = [overdue EXCEPT ![e] = FALSE]

Fault == faults < MaxFaults /\ faults' = faults + 1

----------------------------------------------------------------------------
(* Submission and the claim *)

\* handleSubmit: created_at grows with every insert.
Submit(e) ==
    /\ status[e] = "unsubmitted" /\ \A f \in 1..(e - 1) : status[f] # "unsubmitted"
    /\ SetStatus(e, "pending")
    /\ UNCHANGED <<load, work, job, unowned, cancel, reaper, faults>>

UserOf(e) == load[e].user
OrgOf(e)  == load[e].org
Cost(e)   == load[e].cost

Running == {e \in Execs : status[e] = "running"}
Used(r) == MapThenSumSet(LAMBDA e : Cost(e)[r], Running)

\* The caps: counts of running rows, none for an execution without an org.
UnderCaps(e) ==
    /\ OrgOf(e) = NoOrg \/ OrgCap <= 0
          \/ Cardinality({f \in Running : OrgOf(f) = OrgOf(e)}) < OrgCap
    /\ UserCap <= 0 \/ Cardinality({f \in Running : UserOf(f) = UserOf(e)}) < UserCap

\* The budget, with its escape: anything goes when nothing else is charged.
Fits(e) ==
    \A r \in Resources :
        Budget[r] <= 0 \/ Used(r) = 0 \/ Used(r) + Cost(e)[r] <= Budget[r]

\* FOR UPDATE SKIP LOCKED: a picked row is passed over by other claims, and
\* waited for by updates, until the transaction ends.
RowFree(e) == \A v \in Workers : ~(pc[v] = "picked" /\ cur[v] = e)

Eligible(e) == status[e] = "pending" /\ RowFree(e) /\ UnderCaps(e) /\ Fits(e)

\* pg_advisory_xact_lock: one claim transaction at a time, over all replicas.
SchedulerPerReplica(w) == \A v \in Workers : pc[v] = "picked" => HostOf[v] # HostOf[w]
SchedulerFree(w) == \A v \in Workers : pc[v] # "picked"

\* The count-and-pick statement of claimPendingExecution: the oldest eligible row.
PickPending(w) ==
    /\ pc[w] = "idle" /\ SchedulerFree(w)
    /\ \E e \in Execs :
          /\ Eligible(e) /\ \A f \in 1..(e - 1) : ~Eligible(f)
          /\ cur' = [cur EXCEPT ![w] = e]
    /\ pc' = [pc EXCEPT ![w] = "picked"]
    /\ UNCHANGED <<rows, try, result, tracked, dead, job, unowned, cancel, reaper, faults>>

\* It marks the row running, with a new started_at, and commits.
CommitClaim(w) ==
    /\ pc[w] = "picked"
    /\ SetStatus(cur[w], "running")
    /\ pc' = [pc EXCEPT ![w] = "claimed"]
    /\ UNCHANGED <<load, cur, try, result, tracked, dead, job, unowned, cancel, reaper, faults>>

\* A statement or the commit fails: the transaction rolls back.
RollbackClaim(w) ==
    /\ pc[w] = "picked" /\ Fault
    /\ pc' = [pc EXCEPT ![w] = "idle"] /\ cur' = [cur EXCEPT ![w] = 0]
    /\ UNCHANGED <<rows, try, result, tracked, dead, job, unowned, cancel, reaper>>

----------------------------------------------------------------------------
(* The worker *)

\* run ends with s to record; "cancels" still names the worker until it returns.
Finish(w, s) ==
    /\ pc' = [pc EXCEPT ![w] = "done"]
    /\ result' = [result EXCEPT ![w] = s]

\* registry.Get, then the cancel function is stored; a missing backend fails
\* the execution before that.
Register(w) ==
    /\ pc[w] = "claimed"
    /\ \/ /\ pc' = [pc EXCEPT ![w] = "start"]
          /\ tracked' = tracked \cup {w}
          /\ UNCHANGED result
       \/ Finish(w, "failed") /\ UNCHANGED tracked
    /\ UNCHANGED <<rows, cur, try, dead, job, unowned, cancel, reaper, faults>>

\* Credentials, then Jobs.Create: both fail under a cancelled context, and
\* may fail anyway. The answer to a create that took place may be lost.
StartJob(w) ==
    /\ pc[w] = "start"
    /\ \/ /\ w \notin dead
          /\ job' = [job EXCEPT ![cur[w]][try[w]] = "active"]
          /\ pc' = [pc EXCEPT ![w] = "waiting"]
          /\ UNCHANGED <<result, unowned, faults>>
       \/ /\ Finish(w, IF w \in dead THEN "cancelled" ELSE "failed")
          /\ UNCHANGED <<job, unowned, faults>>
       \/ /\ w \notin dead /\ Fault
          /\ job' = [job EXCEPT ![cur[w]][try[w]] = "active"]
          /\ unowned' = unowned \cup {cur[w]}
          /\ Finish(w, "failed")
    /\ UNCHANGED <<rows, cur, try, tracked, dead, cancel, reaper>>

\* waitAndCollect and classifyResult: what the poll loop may return. A job
\* that is gone is an error, a job that still runs may be out of time, and an
\* ended one has any exit code, perhaps the sandbox-teardown artifact's.
Outcome(w) ==
    LET j == job[cur[w]][try[w]] IN
    CASE j = "ended"  -> {"completed", "failed", "artifact"}
      [] j = "absent" -> {"failed"}
      [] OTHER        -> IF w \in dead THEN {} ELSE {"timed_out"}

\* The artifact is retried once, on a kernel-isolated backend, in a new job.
Retries(w, s) ==
    s = "artifact" /\ KernelIsolated /\ try[w] = "first" /\ w \notin dead

\* Run deletes the job whatever the result.
AfterRun(w, s) == "absent"

Collect(w, s) ==
    /\ pc[w] = "waiting"
    /\ s \in Outcome(w) \cup (IF w \in dead THEN {"cancelled"} ELSE {})
    /\ \/ /\ Retries(w, s)
          /\ pc' = [pc EXCEPT ![w] = "start"] /\ try' = [try EXCEPT ![w] = "retry"]
          /\ UNCHANGED result
       \/ /\ ~Retries(w, s)
          /\ Finish(w, IF s = "artifact" THEN "failed" ELSE s)
          /\ UNCHANGED try
    /\ job' = [job EXCEPT ![cur[w]][try[w]] = AfterRun(w, s)]
    /\ UNCHANGED <<rows, cur, tracked, dead, unowned, cancel, reaper, faults>>

\* The worker forgets the execution: the deferred cancels.Delete.
Release(W) ==
    /\ pc' = [w \in Workers |-> IF w \in W THEN "idle" ELSE pc[w]]
    /\ cur' = [w \in Workers |-> IF w \in W THEN 0 ELSE cur[w]]
    /\ try' = [w \in Workers |-> IF w \in W THEN "first" ELSE try[w]]
    /\ result' = [w \in Workers |-> IF w \in W THEN "failed" ELSE result[w]]
    /\ tracked' = tracked \ W /\ dead' = dead \ W

\* Execution.Complete is not guarded on the row's status; when the write
\* fails the row stays as it is.
Complete(w) ==
    /\ pc[w] = "done"
    /\ \/ SetStatus(cur[w], result[w]) /\ UNCHANGED faults
       \/ Fault /\ UNCHANGED <<status, overdue>>
    /\ Release({w})
    /\ UNCHANGED <<load, job, unowned, cancel, reaper>>

----------------------------------------------------------------------------
(* Cancel requests *)

\* handleCancel reads the row and decides by what it read.
ReadForCancel(e) ==
    /\ load[e].cancel /\ status[e] # "unsubmitted" /\ cancel[e] = "none"
    /\ cancel' = [cancel EXCEPT ![e] =
          CASE status[e] = "pending" -> "saw_pending"
            [] status[e] = "running" -> "saw_running"
            [] OTHER -> "refused"]
    /\ UNCHANGED <<rows, work, job, unowned, reaper, faults>>

\* 204, whatever the update or the cancellation achieved.
Acknowledge(e) ==
    cancel' = [cancel EXCEPT ![e] =
        IF \E w \in Workers : cur[w] = e /\ pc[w] \in {"waiting", "done"} THEN "acked" ELSE "acked_early"]

\* Execution.Cancel: guarded on pending, the number of rows it changed ignored.
CancelPending(e) ==
    /\ cancel[e] = "saw_pending" /\ RowFree(e)
    /\ IF status[e] = "pending" THEN SetStatus(e, "cancelled") ELSE UNCHANGED <<status, overdue>>
    /\ Acknowledge(e)
    /\ UNCHANGED <<load, work, job, unowned, reaper, faults>>

\* WorkerPool.Cancel on the replica that serves the request: it cancels the
\* context and deletes the job, if this replica tracks the execution.
CancelRunning(e, r) ==
    LET hit == {w \in tracked : HostOf[w] = r /\ cur[w] = e} IN
    /\ cancel[e] = "saw_running"
    /\ dead' = dead \cup hit
    /\ job' = IF hit = {} THEN job ELSE [job EXCEPT ![e]["first"] = "absent"]
    /\ Acknowledge(e)
    /\ UNCHANGED <<rows, pc, cur, try, result, tracked, unowned, reaper, faults>>

----------------------------------------------------------------------------
(* The reaper *)

\* findStuckExecutions.
StuckRunning == {e \in Execs : overdue[e] /\ status[e] = "running"}
Stuck == {e \in Execs : overdue[e] /\ status[e] \in {"pending", "running"}}

ReapScan(r) ==
    /\ r \in Reapers /\ todo[r] = {} /\ Stuck # {}
    /\ todo' = [todo EXCEPT ![r] = Stuck]
    /\ UNCHANGED <<rows, work, job, unowned, cancel, torn, faults>>

\* The runtime's Cancel: it knows the first job's name only.
ReapTeardown(r) ==
    /\ todo[r] # {} /\ torn[r] = 0
    /\ torn' = [torn EXCEPT ![r] = Min(todo[r])]
    /\ job' = [job EXCEPT ![Min(todo[r])]["first"] = "absent"]
    /\ UNCHANGED <<rows, work, unowned, cancel, todo, faults>>

\* failStuckExecution, guarded on the row still being open.
AnyRow(e) == TRUE
StillOpen(e) == status[e] \in {"pending", "running"}

ReapRequeue(r) ==
    /\ torn[r] # 0 /\ RowFree(torn[r])
    /\ IF StillOpen(torn[r]) THEN SetStatus(torn[r], "pending") ELSE UNCHANGED <<status, overdue>>
    /\ todo' = [todo EXCEPT ![r] = @ \ {torn[r]}] /\ torn' = [torn EXCEPT ![r] = 0]
    /\ UNCHANGED <<load, work, job, unowned, cancel, faults>>

ReapFail(r) ==
    /\ torn[r] # 0 /\ RowFree(torn[r])
    /\ IF StillOpen(torn[r]) THEN SetStatus(torn[r], "failed") ELSE UNCHANGED <<status, overdue>>
    /\ todo' = [todo EXCEPT ![r] = @ \ {torn[r]}] /\ torn' = [torn EXCEPT ![r] = 0]
    /\ UNCHANGED <<load, work, job, unowned, cancel, faults>>

----------------------------------------------------------------------------
(* Time, the cluster and crashes *)

\* A row passes its deadline: also a live one, whose pod was slow to start or
\* whose job is being retried.
PassDeadline(e) ==
    /\ status[e] \in {"pending", "running"} /\ ~overdue[e]
    /\ overdue' = [overdue EXCEPT ![e] = TRUE]
    /\ UNCHANGED <<load, status, work, job, unowned, cancel, reaper, faults>>

\* A job ends (its ActiveDeadlineSeconds at the latest), and a finished one is
\* removed by its TTL when nobody did.
JobStep(e, a, j) ==
    /\ \/ job[e][a] = "active" /\ j = "ended"
       \/ job[e][a] = "ended" /\ e \in unowned /\ j = "absent"
    /\ job' = [job EXCEPT ![e][a] = j]
    /\ UNCHANGED <<rows, work, unowned, cancel, reaper, faults>>

\* A replica stops: its workers, their claims, its cancels map and its reaper
\* are gone; rows and jobs stay. It restarts at once.
Crash(r) ==
    LET W == {w \in Workers : HostOf[w] = r} IN
    /\ Fault
    /\ Release(W)
    /\ unowned' = unowned \cup {cur[w] : w \in {v \in W : pc[v] = "waiting"}}
    /\ todo' = [todo EXCEPT ![r] = {}] /\ torn' = [torn EXCEPT ![r] = 0]
    /\ UNCHANGED <<rows, job, cancel>>

Worker(w) ==
    \/ PickPending(w) \/ CommitClaim(w) \/ Register(w) \/ StartJob(w) \/ Complete(w)
    \/ \E s \in Ended \cup {"artifact"} : Collect(w, s)

Reaper(r) == ReapScan(r) \/ ReapTeardown(r) \/ ReapFail(r)

\* What happens to submitted executions.
Forge ==
    \/ \E e \in Execs : ReadForCancel(e) \/ CancelPending(e) \/ PassDeadline(e)
    \/ \E e \in Execs, r \in Replicas : CancelRunning(e, r)
    \/ \E w \in Workers : Worker(w) \/ RollbackClaim(w)
    \/ \E r \in Replicas : Reaper(r) \/ Crash(r)
    \/ \E e \in Execs, a \in Attempt, j \in Job : JobStep(e, a, j)

Next == Forge \/ \E e \in Execs : Submit(e)

Spec == Init /\ [][Next]_vars

\* Little is needed: a claim transaction ends, time passes, and the enabled
\* reapers tick. Workers may stand still for ever.
Fairness ==
    /\ WF_vars(\E w \in Workers : CommitClaim(w))
    /\ WF_vars(\E e \in Execs : PassDeadline(e))
    /\ \A r \in Reapers : WF_vars(Reaper(r))

----------------------------------------------------------------------------
(* Properties *)

\* No user and no org ever has more executions running than its cap, however
\* the claims of several workers and replicas interleave
\* (claimSchedulerLockKey: two workers must not "both see 'under cap' and both
\* claim, blowing past the limit").
CapsRespected ==
    \A e \in Running :
        /\ UserCap > 0 => Cardinality({f \in Running : UserOf(f) = UserOf(e)}) <= UserCap
        /\ OrgCap > 0 /\ OrgOf(e) # NoOrg =>
              Cardinality({f \in Running : OrgOf(f) = OrgOf(e)}) <= OrgCap

\* What runs fits the cluster budget, except for one oversized execution that
\* was admitted while nothing else was charged and then runs without company.
BudgetRespected ==
    \A r \in Resources :
        \/ Budget[r] <= 0 \/ Used(r) <= Budget[r]
        \/ Cardinality({e \in Running : Cost(e)[r] > 0}) = 1

\* What is admitted stays within every limit at once.
WithinLimits == CapsRespected /\ BudgetRespected

\* No two workers ever hold one execution, on the same or on two replicas.
ExclusiveExecution ==
    \A v, w \in Workers : cur[v] = cur[w] /\ cur[v] # 0 => v = w

\* An execution that has ended stays ended, and only the worker that ran it
\* may replace the outcome that was recorded: a cancelled execution is never
\* claimed (the row lock against Execution.Cancel), none is queued again, and
\* the reaper never overwrites (failStuckExecution: "a row that finished
\* between the reaper's scan and this update is never clobbered").
OutcomeStep ==
    \A e \in Execs : status[e] \in Ended =>
        /\ status'[e] \in Ended
        /\ status'[e] # status[e] => \E w \in Workers : pc[w] = "done" /\ cur[w] = e
OutcomesKept == [][OutcomeStep]_vars

\* A job in the cluster is being waited for by its worker, unless the worker
\* died or never learned of it (Run: "always deleted on return").
JobHasOwner ==
    \A e \in Execs \ unowned, a \in Attempt : job[e][a] # "absent" =>
        \E w \in Workers : cur[w] = e /\ try[w] = a /\ pc[w] = "waiting"

\* One worker per execution, and a worker behind every job.
ExecutionOwned == ExclusiveExecution /\ JobHasOwner

\* Every submitted execution ends, whatever crashes: nothing wedges the queue
\* for ever (startExecutionReaper).
EveryExecutionEnds ==
    \A e \in Execs : status[e] = "pending" ~> status[e] \in Ended

\* A cancel acknowledged before the execution's job was created keeps it from
\* completing (run: "a DELETE arriving during that window must be able to
\* interrupt runCtx rather than silently no-op").
EarlyCancelHeeded ==
    \A e \in Execs : cancel[e] = "acked_early" => status[e] # "completed"

=============================================================================
