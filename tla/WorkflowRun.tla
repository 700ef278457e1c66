---------------------------- MODULE WorkflowRun ----------------------------
(***************************************************************************)
(* The life of one pipeline run of the workflows service: its row in       *)
(* workflow_runs, the step-run rows of its approval gates, the worker      *)
(* goroutines that claim and execute it, the HTTP handlers that approve,   *)
(* reject and cancel it, the token-rotation goroutine each execution       *)
(* starts, the periodic sweeps, and the run-token sessions all of these    *)
(* mint and revoke at gatekeeper.                                          *)
(*                                                                         *)
(* One step of the model is one SQL statement, one transaction statement   *)
(* whose effect another transaction can observe, or one gatekeeper call.   *)
(* Every statement of the code is keyed by run_id (the sweeps treat each   *)
(* row by itself), so one run stands for all of them.                      *)
(***************************************************************************)
EXTENDS Naturals, FiniteSets

CONSTANTS
    Workers,      \* worker goroutines (WorkerPool.Start), over all replicas
    Deciders,     \* in-flight POST .../approve or .../reject requests
    Cancellers,   \* in-flight cancel requests
    Gates,        \* the approval steps of the pipeline
    Replicas,     \* processes of the service
    ReplicaOf,    \* the process that runs a worker or serves a request
    NoOne,        \* a value that is no worker, decider or gate
    MaxSessions,  \* bound: run-token sessions ever minted
    MaxRotations, \* bound: token rotations, over all executions
    MaxCrashes,   \* bound: process crashes
    MaxEdits      \* bound: edits of the pipeline that shorten its timeout

Actors == Workers \cup Deciders \cup Cancellers

ASSUME RunConstants ==
    /\ ReplicaOf \in [Actors -> Replicas]
    /\ NoOne \notin Actors \cup Gates
    /\ {MaxSessions, MaxRotations, MaxCrashes, MaxEdits} \subseteq Nat

----------------------------------------------------------------------------
(* Types *)

Terminal    == {"completed", "failed", "cancelled"}
RunStatus   == {"none", "pending", "running", "awaiting_approval"} \cup Terminal
GateStatus  == {"none", "awaiting_approval"} \cup Terminal

\* NoSession stands for a NULL token or run_session_id; sessions count from 1.
NoSession == 0
Sessions  == 1..MaxSessions
SessionOrNull == Sessions \cup {NoSession}

\* Where a worker stands in tryOne/executeRun; Owning: it holds the run.
Owning    == {"claimed", "graph", "pausing", "parking", "finishing"}
WorkerPC  == Owning \cup {"idle", "aborting", "revoking", "exiting"}
\* The run context: not created, live, cancelled, or past its deadline.
CtxState  == {"none", "live", "cancelled", "deadline"}
RotatePC  == {"off", "waiting", "minted", "stored"}
DeciderPC == {"idle", "loaded", "selected", "minted", "stored",
              "locked", "held", "last", "swept", "won", "lost"}
CancelPC  == {"idle", "loaded", "signal"}

VARIABLES
    status,     \* workflow_runs.status; "none" until the run is inserted
    token,      \* the session whose token workflow_runs.token holds
    runSession, \* workflow_runs.run_session_id
    lease,      \* heartbeat_at: "fresh", or "stale" past runLeaseStaleAfter
    age,        \* started_at against the timeout: "within", "timed_out", "overdue"
    gate,       \* status of each gate's latest row in workflow_step_runs
    gateLock,   \* the transaction that holds each gate row's lock
    wpc, wctx, wend, wsid, \* workers: step, run context, final status, tokenStore
    rpc, rsid,  \* the execution's rotateToken goroutine, and what it minted
    retiring,   \* sessions a rotation replaced, due for revocation in 60 s
    cancels,    \* per replica, the worker whose cancel func WorkerPool.cancels has
    dpc, dkind, dgate, dold, dnew, \* deciders: step, verb, gate, sessions
    late,       \* history: decisions in flight since before the last re-queue
    cpc, cread, csid, \* cancellers: step, status and session they read
    minted,     \* how many sessions gatekeeper issued: 1..minted exist
    revoked,    \* sessions some revokeRunToken call has named
    rotations, crashes, edits

rowVars     == <<status, token, runSession, lease, age>>
gateVars    == <<gate, gateLock>>
workerVars  == <<wpc, wctx, wend, wsid>>
rotateVars  == <<rpc, rsid, retiring, rotations>>
deciderVars == <<dpc, dkind, dgate, dold, dnew, late>>
cancelVars  == <<cpc, cread, csid>>
sessionVars == <<minted, revoked>>
faultVars   == <<crashes, edits>>

vars == <<rowVars, gateVars, workerVars, rotateVars, cancels, deciderVars,
          cancelVars, sessionVars, faultVars>>

TypeOK ==
    /\ status \in RunStatus
    /\ token \in SessionOrNull
    /\ runSession \in SessionOrNull
    /\ lease \in {"fresh", "stale"}
    /\ age \in {"within", "timed_out", "overdue"}
    /\ gate \in [Gates -> GateStatus]
    /\ gateLock \in [Gates -> Deciders \cup {NoOne}]
    /\ wpc \in [Workers -> WorkerPC]
    /\ wctx \in [Workers -> CtxState]
    /\ wend \in [Workers -> Terminal]
    /\ wsid \in [Workers -> SessionOrNull]
    /\ rpc \in [Workers -> RotatePC]
    /\ rsid \in [Workers -> SessionOrNull]
    /\ retiring \in [Workers -> SUBSET Sessions]
    /\ cancels \in [Replicas -> Workers \cup {NoOne}]
    /\ dpc \in [Deciders -> DeciderPC]
    /\ dkind \in [Deciders -> {"approve", "reject"}]
    /\ dgate \in [Deciders -> Gates \cup {NoOne}]
    /\ dold \in [Deciders -> SessionOrNull]
    /\ dnew \in [Deciders -> SessionOrNull]
    /\ late \subseteq Deciders
    /\ cpc \in [Cancellers -> CancelPC]
    /\ cread \in [Cancellers -> RunStatus]
    /\ csid \in [Cancellers -> SessionOrNull]
    /\ minted \in 0..MaxSessions
    /\ revoked \subseteq Sessions
    /\ rotations \in 0..MaxRotations
    /\ crashes \in 0..MaxCrashes
    /\ edits \in 0..MaxEdits

Init ==
    /\ status = "none" /\ token = NoSession /\ runSession = NoSession
    /\ lease = "fresh" /\ age = "within"
    /\ gate = [g \in Gates |-> "none"]
    /\ gateLock = [g \in Gates |-> NoOne]
    /\ wpc = [w \in Workers |-> "idle"]
    /\ wctx = [w \in Workers |-> "none"]
    /\ wend = [w \in Workers |-> "failed"]
    /\ wsid = [w \in Workers |-> NoSession]
    /\ rpc = [w \in Workers |-> "off"]
    /\ rsid = [w \in Workers |-> NoSession]
    /\ retiring = [w \in Workers |-> {}]
    /\ cancels = [r \in Replicas |-> NoOne]
    /\ dpc = [d \in Deciders |-> "idle"]
    /\ dkind = [d \in Deciders |-> "approve"]
    /\ dgate = [d \in Deciders |-> NoOne]
    /\ dold = [d \in Deciders |-> NoSession]
    /\ dnew = [d \in Deciders |-> NoSession]
    /\ late = {}
    /\ cpc = [c \in Cancellers |-> "idle"]
    /\ cread = [c \in Cancellers |-> "none"]
    /\ csid = [c \in Cancellers |-> NoSession]
    /\ minted = 0 /\ revoked = {}
    /\ rotations = 0 /\ crashes = 0 /\ edits = 0

----------------------------------------------------------------------------
(* Shared pieces *)

\* createRunToken: gatekeeper issues session minted + 1.
Mint == /\ minted < MaxSessions
        /\ minted' = minted + 1

\* revokeRunToken ignores an empty session id.
Revoke(s) == revoked' = revoked \cup ({s} \ {NoSession})

\* UpdateToken is keyed by run_id alone: no guard on the run's status.
UpdateToken(s) == token' = s /\ runSession' = s

\* A worker that holds the run and whose context can still beat the lease.
Live(w) == wpc[w] \in Owning /\ wctx[w] \in {"none", "live"}

Open == {g \in Gates : gate[g] = "awaiting_approval"}

----------------------------------------------------------------------------
(* Trigger: startWorkflowRun *)

\* The run is inserted pending with its first token; when the insert (or the
\* token's encryption) fails the session is revoked and nothing is left.
StartWorkflowRun ==
    /\ status = "none"
    /\ Mint
    /\ \/ /\ status' = "pending"
          /\ UpdateToken(minted')
          /\ UNCHANGED revoked
       \/ /\ minted' < MaxSessions
          /\ Revoke(minted')
          /\ UNCHANGED <<status, token, runSession>>
    /\ UNCHANGED <<lease, age, gateVars, workerVars, rotateVars, cancels,
                   deciderVars, cancelVars, faultVars>>

----------------------------------------------------------------------------
(* Workers: tryOne and executeRun *)

\* Dequeue selects WHERE status = 'pending'.
Claimable == status = "pending"

\* The claim stamps heartbeat_at together with the status.
KeepLease  == UNCHANGED lease
StampLease == lease' = "fresh"

\* The claim also stamps started_at, so a resumed run has its whole timeout.
Dequeue(w) ==
    /\ wpc[w] = "idle" /\ rpc[w] = "off"
    /\ Claimable
    /\ status' = "running" /\ StampLease /\ age' = "within"
    /\ wpc' = [wpc EXCEPT ![w] = "claimed"]
    /\ wsid' = [wsid EXCEPT ![w] = runSession]
    /\ UNCHANGED <<token, runSession, gateVars, wctx, wend, rotateVars, cancels,
                   deciderVars, cancelVars, sessionVars, faultVars>>

\* Complete, guarded on status='running'; it clears both credential columns.
CompleteUnguarded(final) ==
    status' = final /\ token' = NoSession /\ runSession' = NoSession
Complete(final) ==
    IF status = "running"
    THEN status' = final /\ token' = NoSession /\ runSession' = NoSession
    ELSE UNCHANGED <<status, token, runSession>>

\* failRun: the token does not decrypt, or the pipeline cannot be read.
FailRun(w) ==
    /\ wpc[w] = "claimed"
    /\ Complete("failed")
    /\ wpc' = [wpc EXCEPT ![w] = "aborting"]
    /\ UNCHANGED <<lease, age, gateVars, wctx, wend, wsid, rotateVars, cancels,
                   deciderVars, cancelVars, sessionVars, faultVars>>

\* executeRun registers its cancel func and starts rotation and the lease.
Begin(w) ==
    /\ wpc[w] = "claimed"
    /\ wpc' = [wpc EXCEPT ![w] = "graph"]
    /\ wctx' = [wctx EXCEPT ![w] = "live"]
    /\ rpc' = [rpc EXCEPT ![w] = "waiting"]
    /\ cancels' = [cancels EXCEPT ![ReplicaOf[w]] = w]
    /\ UNCHANGED <<rowVars, gateVars, wend, wsid, rsid, retiring, rotations,
                   deciderVars, cancelVars, sessionVars, faultVars>>

\* A gate no completed step run speaks for parks when the graph reaches it.
Parkable(g) == gate[g] \in {"none", "awaiting_approval"}

\* What runGraph may return under each state of the run context, after the
\* deadline and cancelled-at-the-gate checks that follow the call. A step whose
\* remote job was cancelled reports a cancellation of its own.
Outcomes(ctx) ==
    CASE ctx = "deadline"  -> {"failed"}
      [] ctx = "cancelled" -> Terminal
      [] OTHER             -> Terminal \cup {"paused"}

GraphReturns(w, outcome) ==
    /\ wpc[w] = "graph"
    /\ outcome \in Outcomes(wctx[w])
    /\ \/ /\ outcome = "paused"
          /\ \E g \in Gates : Parkable(g)
          /\ wpc' = [wpc EXCEPT ![w] = "pausing"]
          /\ UNCHANGED wend
       \/ /\ outcome # "paused"
          /\ wpc' = [wpc EXCEPT ![w] = "finishing"]
          /\ wend' = [wend EXCEPT ![w] = outcome]
    /\ UNCHANGED <<rowVars, gateVars, wctx, wsid, rotateVars, cancels,
                   deciderVars, cancelVars, sessionVars, faultVars>>

\* pauseAtGates inserts one awaiting row per parked gate, one at a time. A
\* failed insert leaves the earlier rows and fails the run.
ParkGate(w) ==
    /\ wpc[w] = "pausing"
    /\ \/ \E g \in Gates : /\ Parkable(g)
                           /\ gate' = [gate EXCEPT ![g] = "awaiting_approval"]
                           /\ \E pc \in {"pausing", "parking"} : wpc' = [wpc EXCEPT ![w] = pc]
                           /\ UNCHANGED wend
       \/ /\ wpc' = [wpc EXCEPT ![w] = "finishing"]
          /\ wend' = [wend EXCEPT ![w] = "failed"]
          /\ UNCHANGED gate
    /\ UNCHANGED <<rowVars, gateLock, wctx, wsid, rotateVars, cancels,
                   deciderVars, cancelVars, sessionVars, faultVars>>

\* PauseForApproval is guarded on status='running'.
AlwaysPaused == "awaiting_approval"
PausedStatus == IF status = "running" THEN "awaiting_approval" ELSE status

\* PauseForApproval: 0 rows are no error. It
\* runs under the run context, so a dead context makes it an error instead.
PauseForApproval(w) ==
    /\ wpc[w] = "parking"
    /\ \/ /\ wctx[w] = "live"
          /\ status' = PausedStatus
          /\ wpc' = [wpc EXCEPT ![w] = "exiting"]
          /\ UNCHANGED wend
       \/ /\ wctx[w] # "live"
          /\ wpc' = [wpc EXCEPT ![w] = "finishing"]
          /\ wend' = [wend EXCEPT ![w] = "failed"]
          /\ UNCHANGED status
    /\ UNCHANGED <<token, runSession, lease, age, gateVars, wctx, wsid, rotateVars,
                   cancels, deciderVars, cancelVars, sessionVars, faultVars>>

\* The end of executeRun: the row, then the session the tokenStore holds.
CompleteRun(w) ==
    /\ wpc[w] = "finishing"
    /\ Complete(wend[w])
    /\ wpc' = [wpc EXCEPT ![w] = "revoking"]
    /\ UNCHANGED <<lease, age, gateVars, wctx, wend, wsid, rotateVars, cancels,
                   deciderVars, cancelVars, sessionVars, faultVars>>

RevokeRunToken(w) ==
    /\ wpc[w] \in {"revoking", "aborting"}
    /\ Revoke(wsid[w])
    /\ wpc' = [wpc EXCEPT ![w] = IF wpc[w] = "revoking" THEN "exiting" ELSE "idle"]
    /\ wsid' = [wsid EXCEPT ![w] = IF wpc[w] = "revoking" THEN wsid[w] ELSE NoSession]
    /\ UNCHANGED <<rowVars, gateVars, wctx, wend, rotateVars, cancels,
                   deciderVars, cancelVars, minted, faultVars>>

\* The deferred cancel and cancels.Delete(runID): by run, whoever stored it.
\* The tokenStore lives on while a rotation still holds it.
Exit(w) ==
    /\ wpc[w] = "exiting"
    /\ wpc' = [wpc EXCEPT ![w] = "idle"]
    /\ wctx' = [wctx EXCEPT ![w] = "none"]
    /\ wend' = [wend EXCEPT ![w] = "failed"]
    /\ rpc' = [rpc EXCEPT ![w] = IF rpc[w] = "waiting" THEN "off" ELSE rpc[w]]
    /\ wsid' = [wsid EXCEPT ![w] = IF rpc'[w] = "off" THEN NoSession ELSE wsid[w]]
    /\ cancels' = [cancels EXCEPT ![ReplicaOf[w]] = NoOne]
    /\ UNCHANGED <<rowVars, gateVars, rsid, retiring, rotations,
                   deciderVars, cancelVars, sessionVars, faultVars>>

----------------------------------------------------------------------------
(* rotateToken: one goroutine per execution, under the run context *)

\* A minted token whose encryption fails is revoked and the loop goes on.
RotateMint(w) ==
    /\ rpc[w] = "waiting" /\ wctx[w] = "live"
    /\ rotations < MaxRotations /\ rotations' = rotations + 1
    /\ Mint
    /\ \/ /\ rpc' = [rpc EXCEPT ![w] = "minted"]
          /\ rsid' = [rsid EXCEPT ![w] = minted']
          /\ UNCHANGED revoked
       \/ /\ Revoke(minted')
          /\ UNCHANGED <<rpc, rsid>>
    /\ UNCHANGED <<rowVars, gateVars, workerVars, retiring, cancels,
                   deciderVars, cancelVars, faultVars>>

\* UpdateToken fails under a dead context (and may fail under a live one);
\* the new session is then discarded.
RotateStore(w) ==
    /\ rpc[w] = "minted"
    /\ \/ /\ wctx[w] = "live"
          /\ UpdateToken(rsid[w])
          /\ rpc' = [rpc EXCEPT ![w] = "stored"]
          /\ UNCHANGED <<rsid, revoked>>
       \/ /\ Revoke(rsid[w])
          /\ rpc' = [rpc EXCEPT ![w] = IF wctx[w] = "live" THEN "waiting" ELSE "off"]
          /\ rsid' = [rsid EXCEPT ![w] = NoSession]
          /\ UNCHANGED <<token, runSession>>
    /\ UNCHANGED <<status, lease, age, gateVars, workerVars, retiring, rotations,
                   cancels, deciderVars, cancelVars, minted, faultVars>>

\* The session that swap hands back to be revoked.
NewSession(w) == rsid[w]
ReplacedSession(w) == wsid[w]

\* tokenStore.swap; the replaced session is revoked after the grace period.
RotateSwap(w) ==
    /\ rpc[w] = "stored"
    /\ wsid' = [wsid EXCEPT ![w] = rsid[w]]
    /\ retiring' = [retiring EXCEPT ![w] = @ \cup ({ReplacedSession(w)} \ {NoSession})]
    /\ rpc' = [rpc EXCEPT ![w] = IF wctx[w] = "live" THEN "waiting" ELSE "off"]
    /\ rsid' = [rsid EXCEPT ![w] = NoSession]
    /\ UNCHANGED <<rowVars, gateVars, wpc, wctx, wend, rotations, cancels,
                   deciderVars, cancelVars, sessionVars, faultVars>>

\* The select on ctx.Done(): a dead context ends the loop.
RotateStop(w) ==
    /\ rpc[w] = "waiting" /\ wctx[w] # "live"
    /\ rpc' = [rpc EXCEPT ![w] = "off"]
    /\ UNCHANGED <<rowVars, gateVars, workerVars, rsid, retiring, rotations, cancels,
                   deciderVars, cancelVars, sessionVars, faultVars>>

RetireRotated(w, s) ==
    /\ s \in retiring[w]
    /\ retiring' = [retiring EXCEPT ![w] = @ \ {s}]
    /\ Revoke(s)
    /\ UNCHANGED <<rowVars, gateVars, workerVars, rpc, rsid, rotations, cancels,
                   deciderVars, cancelVars, minted, faultVars>>

----------------------------------------------------------------------------
(* approvalDecision *)

\* A finished request forgets what it read.
DeciderDone(d) ==
    /\ dpc' = [dpc EXCEPT ![d] = "idle"]
    /\ dkind' = [dkind EXCEPT ![d] = "approve"]
    /\ dgate' = [dgate EXCEPT ![d] = NoOne]
    /\ dold' = [dold EXCEPT ![d] = NoSession]
    /\ dnew' = [dnew EXCEPT ![d] = NoSession]
    /\ late' = late \ {d}

\* getRun: the request goes on only for a run that is awaiting_approval.
LoadRun(d, kind) ==
    /\ dpc[d] = "idle"
    /\ status = "awaiting_approval"
    /\ dpc' = [dpc EXCEPT ![d] = "loaded"]
    /\ dkind' = [dkind EXCEPT ![d] = kind]
    /\ dold' = [dold EXCEPT ![d] = runSession]
    /\ UNCHANGED <<rowVars, gateVars, workerVars, rotateVars, cancels, dgate, dnew,
                   late, cancelVars, sessionVars, faultVars>>

\* approvalStepRuns and selectApprovalGate: any open gate the caller names.
SelectApprovalGate(d, g) ==
    /\ dpc[d] = "loaded"
    /\ g \in Open
    /\ dpc' = [dpc EXCEPT ![d] = "selected"]
    /\ dgate' = [dgate EXCEPT ![d] = g]
    /\ UNCHANGED <<rowVars, gateVars, workerVars, rotateVars, cancels, dkind, dold,
                   dnew, late, cancelVars, sessionVars, faultVars>>

\* No open gate, an ambiguous one, a deleted pipeline, a caller that is not an
\* approver, or no token to be had: the request ends with nothing written.
GiveUp(d) ==
    /\ dpc[d] \in {"loaded", "selected"}
    /\ DeciderDone(d)
    /\ UNCHANGED <<rowVars, gateVars, workerVars, rotateVars, cancels, cancelVars,
                   sessionVars, faultVars>>

\* Approve mints the token the run will resume with.
MintForResume(d) ==
    /\ dpc[d] = "selected" /\ dkind[d] = "approve"
    /\ Mint
    /\ dpc' = [dpc EXCEPT ![d] = "minted"]
    /\ dnew' = [dnew EXCEPT ![d] = minted']
    /\ UNCHANGED <<rowVars, gateVars, workerVars, rotateVars, cancels, dkind, dgate,
                   dold, late, cancelVars, revoked, faultVars>>

\* Encryption or UpdateToken may fail: the new session is then revoked.
StoreForResume(d) ==
    /\ dpc[d] = "minted"
    /\ \/ /\ UpdateToken(dnew[d])
          /\ dpc' = [dpc EXCEPT ![d] = "stored"]
          /\ UNCHANGED <<dkind, dgate, dold, dnew, late, revoked>>
       \/ /\ Revoke(dnew[d])
          /\ DeciderDone(d)
          /\ UNCHANGED <<token, runSession>>
    /\ UNCHANGED <<status, lease, age, gateVars, workerVars, rotateVars, cancels,
                   cancelVars, minted, faultVars>>

\* Both transactions update the gate's row WHERE status = 'awaiting_approval'.
DecidableAgain(d) == gate[dgate[d]] # "none"
Undecided(d) == dgate[d] \in Open

\* First statement of both transactions: UPDATE the gate's row where it is
\* still awaiting. A locked row is waited for and then read again. Nothing of
\* a transaction shows before its commit, so an error anywhere in it is one here.
LockGate(d) ==
    /\ \/ dpc[d] = "stored"
       \/ dpc[d] = "selected" /\ dkind[d] = "reject"
    /\ gateLock[dgate[d]] = NoOne
    /\ \/ /\ Undecided(d)
          /\ gateLock' = [gateLock EXCEPT ![dgate[d]] = d]
          /\ dpc' = [dpc EXCEPT ![d] = "locked"]
       \/ /\ dpc' = [dpc EXCEPT ![d] = "lost"]
          /\ UNCHANGED gateLock
    /\ UNCHANGED <<rowVars, gate, workerVars, rotateVars, cancels, dkind, dgate, dold,
                   dnew, late, cancelVars, sessionVars, faultVars>>

\* End of a transaction of d: its row locks are released.
Unlock(d) == gateLock' = [g \in Gates |-> IF gateLock[g] = d THEN NoOne ELSE gateLock[g]]

\* The gates resumeAfterApproval counts as open after its own update. READ
\* COMMITTED: it sees other transactions' committed rows only.
NoneRemain(d) == {}
Remaining(d) == Open \ {dgate[d]}

\* resumeAfterApproval, second statement: are other gates still open?
CountRemaining(d) ==
    /\ dpc[d] = "locked" /\ dkind[d] = "approve"
    /\ dpc' = [dpc EXCEPT ![d] = IF Remaining(d) = {} THEN "last" ELSE "held"]
    /\ UNCHANGED <<rowVars, gateVars, workerVars, rotateVars, cancels, dkind, dgate,
                   dold, dnew, late, cancelVars, sessionVars, faultVars>>

\* The run row is updated WHERE status = 'awaiting_approval'.
AnyStatus == TRUE
StillAwaiting == status = "awaiting_approval"

InFlight == {d \in Deciders : dpc[d] # "idle"}

\* resumeAfterApproval, the end: with gates left it commits the decision
\* alone; otherwise it also re-queues the run, or rolls back if the run is
\* no longer awaiting.
ResumeAfterApproval(d) ==
    /\ dpc[d] \in {"held", "last"}
    /\ Unlock(d)
    /\ IF dpc[d] = "last" /\ ~StillAwaiting
       THEN /\ dpc' = [dpc EXCEPT ![d] = "lost"]
            /\ UNCHANGED <<gate, status, late>>
       ELSE /\ dpc' = [dpc EXCEPT ![d] = "won"]
            /\ gate' = [gate EXCEPT ![dgate[d]] = "completed"]
            /\ status' = IF dpc[d] = "last" THEN "pending" ELSE status
            /\ late' = IF dpc[d] = "last" THEN InFlight ELSE late
    /\ UNCHANGED <<token, runSession, lease, age, workerVars, rotateVars, cancels, dkind,
                   dgate, dold, dnew, cancelVars, sessionVars, faultVars>>

\* rejectAfterApproval, second statement: every open sibling gate is updated,
\* so every sibling row is locked; another transaction's lock is waited for.
SweepSiblings(d) ==
    /\ dpc[d] = "locked" /\ dkind[d] = "reject"
    /\ \A g \in Open : gateLock[g] \in {NoOne, d}
    /\ gateLock' = [g \in Gates |-> IF g \in Open THEN d ELSE gateLock[g]]
    /\ dpc' = [dpc EXCEPT ![d] = "swept"]
    /\ UNCHANGED <<rowVars, gate, workerVars, rotateVars, cancels, dkind, dgate, dold,
                   dnew, late, cancelVars, sessionVars, faultVars>>

\* Two rejections that wait for each other's gate: PostgreSQL aborts one.
DeadlockVictim(d) ==
    /\ dpc[d] = "locked" /\ dkind[d] = "reject"
    /\ \E e \in Deciders \ {d} : dpc[e] = "locked" /\ dkind[e] = "reject"
    /\ Unlock(d)
    /\ DeciderDone(d)
    /\ UNCHANGED <<rowVars, gate, workerVars, rotateVars, cancels, cancelVars,
                   sessionVars, faultVars>>

\* The sibling gates that rejectAfterApproval cancels.
NoSiblings(d) == {}
Siblings(d) == {g \in Gates : gateLock[g] = d} \ {dgate[d]}

\* rejectAfterApproval, last statement and commit, or its rollback.
RejectAfterApproval(d) ==
    /\ dpc[d] = "swept"
    /\ Unlock(d)
    /\ \/ /\ StillAwaiting
          /\ status' = "failed" /\ token' = NoSession /\ runSession' = NoSession
          /\ gate' = [g \in Gates |-> CASE g = dgate[d]      -> "failed"
                                        [] g \in Siblings(d) -> "cancelled"
                                        [] OTHER             -> gate[g]]
          /\ dpc' = [dpc EXCEPT ![d] = "won"]
       \/ /\ ~StillAwaiting
          /\ dpc' = [dpc EXCEPT ![d] = "lost"]
          /\ UNCHANGED <<status, token, runSession, gate>>
    /\ UNCHANGED <<lease, age, workerVars, rotateVars, cancels, dkind, dgate, dold, dnew,
                   late, cancelVars, sessionVars, faultVars>>

\* After a commit the session read at the start is retired.
RetireOld(d) ==
    /\ dpc[d] = "won"
    /\ Revoke(dold[d])
    /\ DeciderDone(d)
    /\ UNCHANGED <<rowVars, gateVars, workerVars, rotateVars, cancels, cancelVars,
                   minted, faultVars>>

\* After a failed transaction an approval discards the session it minted.
DiscardNew(d) ==
    /\ dpc[d] = "lost"
    /\ Revoke(dnew[d])
    /\ DeciderDone(d)
    /\ UNCHANGED <<rowVars, gateVars, workerVars, rotateVars, cancels, cancelVars,
                   minted, faultVars>>

----------------------------------------------------------------------------
(* handleCancelRun *)

CancelLoad(c) ==
    /\ cpc[c] = "idle" /\ status # "none"
    /\ cpc' = [cpc EXCEPT ![c] = "loaded"]
    /\ cread' = [cread EXCEPT ![c] = status]
    /\ csid' = [csid EXCEPT ![c] = runSession]
    /\ UNCHANGED <<rowVars, gateVars, workerVars, rotateVars, cancels, deciderVars,
                   sessionVars, faultVars>>

CancellerDone(c) ==
    /\ cpc' = [cpc EXCEPT ![c] = "idle"]
    /\ cread' = [cread EXCEPT ![c] = "none"]
    /\ csid' = [csid EXCEPT ![c] = NoSession]

\* cancelRun: any run that is not terminal; run_session_id is kept.
CancelRow(c) ==
    /\ cpc[c] = "loaded"
    /\ \/ /\ status \notin Terminal
          /\ status' = "cancelled" /\ token' = NoSession
          /\ cpc' = [cpc EXCEPT ![c] = "signal"]
          /\ UNCHANGED <<cread, csid>>
       \/ /\ status \in Terminal
          /\ CancellerDone(c)
          /\ UNCHANGED <<status, token>>
    /\ UNCHANGED <<runSession, lease, age, gateVars, workerVars, rotateVars, cancels,
                   deciderVars, sessionVars, faultVars>>

\* pool.Cancel reaches the func this replica has stored for the run; the
\* session is revoked only if the run was awaiting when it was first read.
CancelSignal(c) ==
    LET target == cancels[ReplicaOf[c]] IN
    /\ cpc[c] = "signal"
    /\ wctx' = [w \in Workers |-> IF w = target /\ wctx[w] = "live"
                                  THEN "cancelled" ELSE wctx[w]]
    /\ IF cread[c] = "awaiting_approval" THEN Revoke(csid[c]) ELSE UNCHANGED revoked
    /\ CancellerDone(c)
    /\ UNCHANGED <<rowVars, gateVars, wpc, wend, wsid, rotateVars, cancels, deciderVars,
                   minted, faultVars>>

----------------------------------------------------------------------------
(* Time, sweeps and faults *)

\* A live worker beats every 30 s and the lease lasts 5 min: it goes stale
\* only once no live worker holds the run.
LeaseExpires ==
    /\ lease = "fresh" /\ status \notin {"none"} \cup Terminal
    /\ \A w \in Workers : ~Live(w)
    /\ lease' = "stale"
    /\ UNCHANGED <<status, token, runSession, age, gateVars, workerVars, rotateVars,
                   cancels, deciderVars, cancelVars, sessionVars, faultVars>>

\* The pipeline's timeout passes, and then the sweep's grace period of 120 s,
\* within which the run context's own timer has fired.
TimePasses ==
    /\ status = "running"
    /\ \/ age = "within" /\ age' = "timed_out"
       \/ age = "timed_out" /\ age' = "overdue" /\ \A w \in Workers : ~Live(w)
    /\ UNCHANGED <<status, token, runSession, lease, gateVars, workerVars, rotateVars,
                   cancels, deciderVars, cancelVars, sessionVars, faultVars>>

DeadlineFires(w) ==
    /\ wctx[w] = "live" /\ age # "within"
    /\ wctx' = [wctx EXCEPT ![w] = "deadline"]
    /\ UNCHANGED <<rowVars, gateVars, wpc, wend, wsid, rotateVars, cancels, deciderVars,
                   cancelVars, sessionVars, faultVars>>

\* The pipeline's owner shortens its timeout: the sweep reads the new value,
\* the context of a running execution keeps the old one.
EditTimeout ==
    /\ edits < MaxEdits /\ edits' = edits + 1
    /\ status = "running"
    /\ age' = "overdue"
    /\ UNCHANGED <<status, token, runSession, lease, gateVars, workerVars, rotateVars,
                   cancels, deciderVars, cancelVars, sessionVars, crashes>>

\* The sweep's cutoff: heartbeat_at older than runLeaseStaleAfter.
LeaseIsRecent == lease = "fresh"
LeaseIsStale  == lease = "stale"

\* recoverStuckRunsWithJobs, at startup and every minute.
RecoverStuckRuns ==
    /\ status = "running" /\ LeaseIsStale
    /\ Complete("failed")
    /\ UNCHANGED <<lease, age, gateVars, workerVars, rotateVars, cancels, deciderVars,
                   cancelVars, sessionVars, faultVars>>

\* failTimedOutRunsDB, every minute.
FailTimedOutRuns ==
    /\ status = "running" /\ age = "overdue"
    /\ Complete("failed")
    /\ UNCHANGED <<lease, age, gateVars, workerVars, rotateVars, cancels, deciderVars,
                   cancelVars, sessionVars, faultVars>>

\* SIGTERM cancels the context every run context of the process derives from.
Shutdown(r) ==
    /\ \E w \in Workers : ReplicaOf[w] = r /\ wctx[w] = "live"
    /\ crashes < MaxCrashes /\ crashes' = crashes + 1
    /\ wctx' = [w \in Workers |-> IF ReplicaOf[w] = r /\ wctx[w] = "live"
                                  THEN "cancelled" ELSE wctx[w]]
    /\ UNCHANGED <<rowVars, gateVars, wpc, wend, wsid, rotateVars, cancels, deciderVars,
                   cancelVars, sessionVars, edits>>

\* A process dies and is replaced: goroutines, cancel funcs and open
\* transactions are gone, the rows and the sessions stay.
Crash(r) ==
    LET dead(a) == ReplicaOf[a] = r
        lost(f, v) == [a \in DOMAIN f |-> IF dead(a) THEN v ELSE f[a]]
    IN
    /\ crashes < MaxCrashes /\ crashes' = crashes + 1
    /\ wpc' = lost(wpc, "idle") /\ wctx' = lost(wctx, "none")
    /\ wend' = lost(wend, "failed") /\ wsid' = lost(wsid, NoSession)
    /\ rpc' = lost(rpc, "off") /\ rsid' = lost(rsid, NoSession)
    /\ retiring' = lost(retiring, {})
    /\ cancels' = [cancels EXCEPT ![r] = NoOne]
    /\ dpc' = lost(dpc, "idle") /\ dkind' = lost(dkind, "approve")
    /\ dgate' = lost(dgate, NoOne)
    /\ dold' = lost(dold, NoSession) /\ dnew' = lost(dnew, NoSession)
    /\ late' = {d \in late : ~dead(d)}
    /\ gateLock' = [g \in Gates |-> IF gateLock[g] # NoOne /\ dead(gateLock[g])
                                    THEN NoOne ELSE gateLock[g]]
    /\ cpc' = lost(cpc, "idle") /\ cread' = lost(cread, "none")
    /\ csid' = lost(csid, NoSession)
    /\ UNCHANGED <<rowVars, gate, rotations, sessionVars, edits>>

----------------------------------------------------------------------------

WorkerStep(w) ==
    \/ FailRun(w) \/ Begin(w)
    \/ \E outcome \in Terminal \cup {"paused"} : GraphReturns(w, outcome)
    \/ ParkGate(w) \/ PauseForApproval(w)
    \/ CompleteRun(w) \/ RevokeRunToken(w) \/ Exit(w)

RotateStep(w) ==
    \/ RotateMint(w) \/ RotateStore(w) \/ RotateSwap(w) \/ RotateStop(w)
    \/ \E s \in Sessions : RetireRotated(w, s)

DeciderStep(d) ==
    \/ \E kind \in {"approve", "reject"} : LoadRun(d, kind)
    \/ \E g \in Gates : SelectApprovalGate(d, g)
    \/ GiveUp(d) \/ MintForResume(d) \/ StoreForResume(d) \/ LockGate(d)
    \/ CountRemaining(d) \/ ResumeAfterApproval(d) \/ SweepSiblings(d)
    \/ DeadlockVictim(d) \/ RejectAfterApproval(d) \/ RetireOld(d) \/ DiscardNew(d)

CancelStep(c) == CancelLoad(c) \/ CancelRow(c) \/ CancelSignal(c)

Sweep == RecoverStuckRuns \/ FailTimedOutRuns

Next ==
    \/ StartWorkflowRun
    \/ \E w \in Workers : Dequeue(w) \/ WorkerStep(w) \/ RotateStep(w) \/ DeadlineFires(w)
    \/ \E d \in Deciders : DeciderStep(d)
    \/ \E c \in Cancellers : CancelStep(c)
    \/ LeaseExpires \/ TimePasses \/ EditTimeout \/ Sweep
    \/ \E r \in Replicas : Shutdown(r) \/ Crash(r)

Spec == Init /\ [][Next]_vars

\* The program's own steps go on and time passes; nobody has to approve,
\* reject or cancel, and nothing has to fail.
Fairness ==
    /\ \A w \in Workers : WF_vars(WorkerStep(w))
    /\ \A w \in Workers : WF_vars(RotateStop(w) \/ RotateStore(w) \/ RotateSwap(w))
    /\ WF_vars(\E w \in Workers : Dequeue(w))
    /\ WF_vars(LeaseExpires)
    /\ WF_vars(Sweep)

FairSpec == Spec /\ Fairness

----------------------------------------------------------------------------
(* Properties *)

Owner(w) == wpc[w] \in Owning

\* At most one worker is between its claim and the write that gives the run
\* up, and while one is, the run is neither queued nor parked: no second
\* worker can execute a step of it (Dequeue, PauseForApproval, the sweeps
\* and resumeAfterApproval together).
ExclusiveOwnership ==
    /\ \A v, w \in Workers : Owner(v) /\ Owner(w) => v = w
    /\ (\E w \in Workers : Owner(w)) => status \in {"running"} \cup Terminal

\* A run that reached a terminal status keeps it: the guards of Complete,
\* PauseForApproval, resumeAfterApproval and the sweeps against a cancel, a
\* sweep or a rejection that came first.
TerminalIsFinal ==
    [][(status \in Terminal) => status' = status]_vars

\* A decision on the pause it was read in re-queues the run only when every
\* gate that was parked has been approved, whatever other decisions are in
\* flight (resumeAfterApproval: "only re-queued once the LAST one is decided").
ResumeNeedsEveryGate ==
    [][\A d \in Deciders \ late :
          dpc[d] = "last" /\ dpc'[d] = "won"
              => status' = "pending" /\ \A g \in Gates : gate'[g] \in {"none", "completed"}]_vars

\* The decision recorded on a gate is never replaced by another one: two
\* simultaneous decisions on one gate cannot both win, and the sibling sweep
\* of a rejection leaves decided gates alone.
DecisionIsFinal ==
    [][\A g \in Gates : gate[g] \in Terminal => gate'[g] = gate[g]]_vars

\* One rejection fails the whole run for good (rejectAfterApproval).
RejectionFailsRun ==
    (\E g \in Gates : gate[g] = "failed") => status = "failed"

\* A rejection of the pause it was read in strands no sibling gate
\* (rejectAfterApproval: "cancelled rather than left stranded").
RejectionClosesGates ==
    [][\A d \in Deciders \ late :
          dpc[d] = "swept" /\ dpc'[d] = "won" => \A g \in Gates : gate'[g] # "awaiting_approval"]_vars

\* The sweeps only ever take a run whose worker is gone or has lost its
\* context: a claim after a long pause starts a fresh lease and a fresh
\* timeout (Dequeue, recoverStuckRunsDB, failTimedOutRunsDB).
ReclaimOnlyOrphans ==
    status = "running" /\ (lease = "stale" \/ age = "overdue")
        => \A w \in Workers : ~Live(w)

\* A parked run has a gate somebody can still decide; otherwise no request
\* but a cancel would ever move it again (resumeAfterApproval).
ParkedRunHasOpenGate ==
    status = "awaiting_approval" => Open # {}

\* The session a worker executes a running run with has not been revoked
\* (approvalDecision, rotateToken, handleCancelRun).
UsableCredential ==
    \A w \in Workers : status = "running" /\ wpc[w] = "graph" /\ wsid[w] # NoSession
        => wsid[w] \notin revoked

\* A run is never abandoned half-way: one that executes has a live session, one
\* that is parked has a gate to decide. It holds while one gate is decided by
\* one request at a time.
RunIsServed == UsableCredential /\ ParkedRunHasOpenGate

\* No run stays running for ever: its worker finishes or parks it, or a
\* sweep fails it after a crash.
RunningEnds == status = "running" ~> status # "running"

\* A queued run is claimed or cancelled, also after every worker that could
\* claim it crashed and came back.
QueuedIsClaimed == status = "pending" ~> status # "pending"

\* Neither queue nor execution holds a run for ever.
RunProgress == RunningEnds /\ QueuedIsClaimed

----------------------------------------------------------------------------
(* Refinement: the rows and goroutines above implement RunContract. *)

Executors == {w \in Workers : Owner(w)}
ParkedOn  == IF status = "awaiting_approval" THEN Open ELSE {}

Contract == INSTANCE RunContract WITH executors <- Executors, open <- ParkedOn

\* Seen from outside, every step of the rows, transactions and goroutines is
\* a step the contract allows or changes nothing it talks about.
ImplementsContract == Contract!Spec

============================================================================
