-------------------------- MODULE ForgeQueue_proofs --------------------------
(***************************************************************************)
(* Theorems about forge's queue and the workflow steps that wait on it, for *)
(* any number of executions, workers, replicas, crashes and lost answers,  *)
(* and for every workload, cap and budget; and about its sandbox leases,   *)
(* for any number of leases and failures. Queue and leases share forge's   *)
(* processes and no state, so no proof about one uses the other.           *)
(***************************************************************************)
EXTENDS StepJob, ForgeLease, FiniteSetTheorems, TLAPS

(* The types of the queue's variables. *)
QueueTypeOK ==
    /\ load \in Loads
    /\ status \in [Execs -> Status]
    /\ pc \in [Workers -> PC] /\ cur \in [Workers -> Execs \cup {0}]
    /\ try \in [Workers -> Attempt] /\ result \in [Workers -> Ended]
    /\ tracked \subseteq Workers
    /\ job \in [Execs -> [Attempt -> Job]]
    /\ unowned \subseteq Execs
    /\ todo \in [Replicas -> SUBSET Execs] /\ torn \in [Replicas -> Execs \cup {0}]

(* A worker holds an execution exactly when it is not idle. *)
HoldsWhenBusy == \A w \in Workers : pc[w] = "idle" <=> cur[w] = 0

(* The advisory lock: one open claim transaction. *)
OneClaim == \A v, w \in Workers : pc[v] = "picked" /\ pc[w] = "picked" => v = w

(* A row that a claim has locked is still pending ... *)
PickedIsPending == \A w \in Workers : pc[w] = "picked" => status[cur[w]] = "pending"

(* ... and one that was claimed is never pending again while it is held. *)
HeldIsClaimed ==
    \A w \in Workers : pc[w] \notin {"idle", "picked"} =>
        status[cur[w]] \in {"running"} \cup Ended

(* Nobody holds an execution that completed: nobody may overwrite it. *)
CompletedIsFree ==
    \A e \in Execs, w \in Workers : status[e] = "completed" => cur[w] # e

QueueInv ==
    /\ QueueTypeOK /\ HoldsWhenBusy /\ OneClaim /\ PickedIsPending /\ HeldIsClaimed
    /\ ExclusiveExecution /\ CompletedIsFree /\ JobHasOwner

(* The reaper's next row exists: a non-empty set of executions has a least *)
(* member, which Min returns.                                              *)
LEMMA LeastExec ==
  ASSUME NEW S \in SUBSET Execs, S # {} PROVE Min(S) \in S
<1>1. Execs \subseteq Nat
  BY QueueConstants DEF Execs
<1>2. PICK x \in S : \A y \in S : ~(<<y, x>> \in OpToRel(<, Nat))
  BY <1>1, NatLessThanWellFounded, WFMin, Zenon
<1>3. ASSUME NEW y \in S PROVE x <= y
  <2>1. x \in Nat /\ y \in Nat
    BY <1>1
  <2>2. y < x => <<y, x>> \in OpToRel(<, Nat)
    BY <2>1 DEF OpToRel
  <2>3. ~(y < x)
    BY <2>2, <1>2, Zenon
  <2> QED
    BY <2>1, <2>3
<1> QED
  BY <1>3 DEF Min

(* Initially nothing is submitted and nobody holds anything. *)
LEMMA InitQueueInv == Init => QueueInv
<1> SUFFICES ASSUME Init PROVE QueueInv
  OBVIOUS
<1> USE QueueConstants DEF Init
<1>1. QueueTypeOK
  BY DEF QueueTypeOK, Status, Ended, PC, Attempt, Job
<1>2. HoldsWhenBusy /\ OneClaim /\ PickedIsPending /\ HeldIsClaimed /\ ExclusiveExecution
  BY DEF HoldsWhenBusy, OneClaim, PickedIsPending, HeldIsClaimed, ExclusiveExecution
<1>3. CompletedIsFree /\ JobHasOwner
  BY DEF CompletedIsFree, JobHasOwner
<1> QED
  BY <1>1, <1>2, <1>3 DEF QueueInv

(* Steps that leave the queue's control state alone keep the invariant. *)
LEMMA QueueCoreUnchanged ==
  ASSUME QueueInv,
         UNCHANGED <<load, status, pc, cur, try, result, tracked, job, unowned, todo, torn>>
  PROVE  QueueInv'
  BY DEF QueueInv, QueueTypeOK, HoldsWhenBusy, OneClaim, PickedIsPending, HeldIsClaimed,
         ExclusiveExecution, CompletedIsFree, JobHasOwner

(* The invariant is inductive: every step of the queue keeps it. *)
LEMMA NextQueueInv == QueueInv /\ [Next]_vars => QueueInv'
<1> SUFFICES ASSUME QueueInv, [Next]_vars PROVE QueueInv'
  OBVIOUS
<1> USE QueueConstants
<1>inv. /\ QueueTypeOK /\ HoldsWhenBusy /\ OneClaim /\ PickedIsPending /\ HeldIsClaimed
        /\ ExclusiveExecution /\ CompletedIsFree /\ JobHasOwner
  BY DEF QueueInv
<1>zero. 0 \notin Execs
  BY DEF Execs
<1>1. ASSUME NEW e \in Execs, Submit(e) PROVE QueueInv'
  <2>1. QueueTypeOK'
    BY <1>1, <1>inv, <1>zero
    DEF Submit, SetStatus, QueueTypeOK, Status, Ended, PC, Attempt, Job, rows,
             work, reaper
  <2>2. HoldsWhenBusy'
    BY <1>1, <1>inv, <1>zero
    DEF Submit, SetStatus, HoldsWhenBusy, QueueTypeOK, rows, work, reaper
  <2>3. OneClaim'
    BY <1>1, <1>inv, <1>zero
    DEF Submit, SetStatus, OneClaim, QueueTypeOK, rows, work, reaper
  <2>4. PickedIsPending'
    BY <1>1, <1>inv, <1>zero
    DEF Submit, SetStatus, PickedIsPending, HoldsWhenBusy, QueueTypeOK, rows,
             work, reaper
  <2>5. HeldIsClaimed'
    BY <1>1, <1>inv, <1>zero
    DEF Submit, SetStatus, HeldIsClaimed, HoldsWhenBusy, Ended, QueueTypeOK,
             rows, work, reaper
  <2>6. ExclusiveExecution'
    BY <1>1, <1>inv, <1>zero
    DEF Submit, SetStatus, ExclusiveExecution, QueueTypeOK, rows, work, reaper
  <2>7. CompletedIsFree'
    BY <1>1, <1>inv, <1>zero
    DEF Submit, SetStatus, CompletedIsFree, QueueTypeOK, rows, work, reaper
  <2>8. JobHasOwner'
    BY <1>1, <1>inv, <1>zero
    DEF Submit, SetStatus, JobHasOwner, QueueTypeOK, rows, work, reaper
  <2> QED
    BY <2>1, <2>2, <2>3, <2>4, <2>5, <2>6, <2>7, <2>8 DEF QueueInv
<1>2. ASSUME NEW w \in Workers, PickPending(w) PROVE QueueInv'
  <2>1. QueueTypeOK'
    BY <1>2, <1>inv, <1>zero
    DEF PickPending, QueueTypeOK, Status, Ended, PC, Attempt, Job, rows, work,
             reaper
  <2>2. HoldsWhenBusy'
    BY <1>2, <1>inv, <1>zero
    DEF PickPending, HoldsWhenBusy, Execs, QueueTypeOK, rows, work, reaper
  <2>3. OneClaim'
    BY <1>2, <1>inv, <1>zero
    DEF PickPending, OneClaim, SchedulerFree, QueueTypeOK, rows, work, reaper
  <2>4. PickedIsPending'
    BY <1>2, <1>inv, <1>zero
    DEF PickPending, PickedIsPending, HoldsWhenBusy, Eligible, QueueTypeOK,
             rows, work, reaper
  <2>5. HeldIsClaimed'
    BY <1>2, <1>inv, <1>zero
    DEF PickPending, HeldIsClaimed, HoldsWhenBusy, Ended, QueueTypeOK, rows,
             work, reaper
  <2>6. ExclusiveExecution'
    <3>1. PICK e \in Execs : status[e] = "pending" /\ cur' = [cur EXCEPT ![w] = e]
      BY <1>2 DEF PickPending, Eligible
    <3>2. \A v \in Workers : cur[v] # e
      BY <1>2, <1>inv, <1>zero, <3>1
      DEF PickPending, SchedulerFree, HoldsWhenBusy, HeldIsClaimed, QueueTypeOK, PC, Ended
    <3> QED
      BY <1>inv, <3>1, <3>2 DEF ExclusiveExecution, QueueTypeOK
  <2>7. CompletedIsFree'
    BY <1>2, <1>inv, <1>zero
    DEF PickPending, CompletedIsFree, Eligible, QueueTypeOK, rows, work, reaper
  <2>8. JobHasOwner'
    BY <1>2, <1>inv, <1>zero
    DEF PickPending, JobHasOwner, QueueTypeOK, Eligible, rows, work, reaper
  <2> QED
    BY <2>1, <2>2, <2>3, <2>4, <2>5, <2>6, <2>7, <2>8 DEF QueueInv
<1>3. ASSUME NEW w \in Workers, CommitClaim(w) PROVE QueueInv'
  <2>1. QueueTypeOK'
    BY <1>3, <1>inv, <1>zero
    DEF CommitClaim, SetStatus, QueueTypeOK, Status, Ended, PC, Attempt, Job,
             HoldsWhenBusy, rows, work, reaper
  <2>2. HoldsWhenBusy'
    BY <1>3, <1>inv, <1>zero
    DEF CommitClaim, SetStatus, HoldsWhenBusy, QueueTypeOK, rows, work, reaper
  <2>3. OneClaim'
    BY <1>3, <1>inv, <1>zero
    DEF CommitClaim, SetStatus, OneClaim, QueueTypeOK, rows, work, reaper
  <2>4. PickedIsPending'
    BY <1>3, <1>inv, <1>zero
    DEF CommitClaim, SetStatus, PickedIsPending, HoldsWhenBusy, OneClaim,
             ExclusiveExecution, QueueTypeOK, rows, work, reaper
  <2>5. HeldIsClaimed'
    BY <1>3, <1>inv, <1>zero
    DEF CommitClaim, SetStatus, HeldIsClaimed, HoldsWhenBusy, Ended,
             QueueTypeOK, rows, work, reaper
  <2>6. ExclusiveExecution'
    BY <1>3, <1>inv, <1>zero
    DEF CommitClaim, SetStatus, ExclusiveExecution, QueueTypeOK, rows, work,
             reaper
  <2>7. CompletedIsFree'
    BY <1>3, <1>inv, <1>zero
    DEF CommitClaim, SetStatus, CompletedIsFree, HoldsWhenBusy, QueueTypeOK,
             rows, work, reaper
  <2>8. JobHasOwner'
    BY <1>3, <1>inv, <1>zero
    DEF CommitClaim, SetStatus, JobHasOwner, QueueTypeOK, rows, work, reaper
  <2> QED
    BY <2>1, <2>2, <2>3, <2>4, <2>5, <2>6, <2>7, <2>8 DEF QueueInv
<1>4. ASSUME NEW w \in Workers, RollbackClaim(w) PROVE QueueInv'
  <2>1. QueueTypeOK'
    BY <1>4, <1>inv, <1>zero
    DEF RollbackClaim, QueueTypeOK, Status, Ended, PC, Attempt, Job, rows,
             work, reaper
  <2>2. HoldsWhenBusy'
    BY <1>4, <1>inv, <1>zero
    DEF RollbackClaim, HoldsWhenBusy, QueueTypeOK, rows, work, reaper
  <2>3. OneClaim'
    BY <1>4, <1>inv, <1>zero
    DEF RollbackClaim, OneClaim, QueueTypeOK, rows, work, reaper
  <2>4. PickedIsPending'
    BY <1>4, <1>inv, <1>zero
    DEF RollbackClaim, PickedIsPending, HoldsWhenBusy, QueueTypeOK, rows, work,
             reaper
  <2>5. HeldIsClaimed'
    BY <1>4, <1>inv, <1>zero
    DEF RollbackClaim, HeldIsClaimed, HoldsWhenBusy, Ended, QueueTypeOK, rows,
             work, reaper
  <2>6. ExclusiveExecution'
    BY <1>4, <1>inv, <1>zero
    DEF RollbackClaim, ExclusiveExecution, QueueTypeOK, rows, work, reaper
  <2>7. CompletedIsFree'
    BY <1>4, <1>inv, <1>zero
    DEF RollbackClaim, CompletedIsFree, QueueTypeOK, rows, work, reaper
  <2>8. JobHasOwner'
    BY <1>4, <1>inv, <1>zero
    DEF RollbackClaim, JobHasOwner, QueueTypeOK, rows, work, reaper
  <2> QED
    BY <2>1, <2>2, <2>3, <2>4, <2>5, <2>6, <2>7, <2>8 DEF QueueInv
<1>5. ASSUME NEW w \in Workers, Register(w) PROVE QueueInv'
  <2>1. QueueTypeOK'
    BY <1>5, <1>inv, <1>zero
    DEF Register, Finish, QueueTypeOK, Status, Ended, PC, Attempt, Job, rows,
             work, reaper
  <2>2. HoldsWhenBusy'
    BY <1>5, <1>inv, <1>zero
    DEF Register, Finish, HoldsWhenBusy, QueueTypeOK, rows, work, reaper
  <2>3. OneClaim'
    BY <1>5, <1>inv, <1>zero
    DEF Register, Finish, OneClaim, QueueTypeOK, rows, work, reaper
  <2>4. PickedIsPending'
    BY <1>5, <1>inv, <1>zero
    DEF Register, Finish, PickedIsPending, HoldsWhenBusy, QueueTypeOK, rows,
             work, reaper
  <2>5. HeldIsClaimed'
    BY <1>5, <1>inv, <1>zero
    DEF Register, Finish, HeldIsClaimed, HoldsWhenBusy, Ended, QueueTypeOK,
             rows, work, reaper
  <2>6. ExclusiveExecution'
    BY <1>5, <1>inv, <1>zero
    DEF Register, Finish, ExclusiveExecution, QueueTypeOK, rows, work, reaper
  <2>7. CompletedIsFree'
    BY <1>5, <1>inv, <1>zero
    DEF Register, Finish, CompletedIsFree, QueueTypeOK, rows, work, reaper
  <2>8. JobHasOwner'
    BY <1>5, <1>inv, <1>zero
    DEF Register, Finish, JobHasOwner, QueueTypeOK, rows, work, reaper
  <2> QED
    BY <2>1, <2>2, <2>3, <2>4, <2>5, <2>6, <2>7, <2>8 DEF QueueInv
<1>6. ASSUME NEW w \in Workers, StartJob(w) PROVE QueueInv'
  <2>1. QueueTypeOK'
    <3>1. cur[w] \in Execs /\ try[w] \in Attempt
      BY <1>6, <1>inv DEF StartJob, HoldsWhenBusy, QueueTypeOK
    <3>2. job' \in [Execs -> [Attempt -> Job]]
      BY <1>6, <1>inv, <3>1 DEF StartJob, QueueTypeOK, Job
    <3>3. unowned' \subseteq Execs
      BY <1>6, <1>inv, <3>1 DEF StartJob, QueueTypeOK
    <3> QED
      BY <1>6, <1>inv, <3>2, <3>3
      DEF StartJob, Finish, QueueTypeOK, PC, Ended, Attempt, rows, reaper
  <2>2. HoldsWhenBusy'
    BY <1>6, <1>inv, <1>zero
    DEF StartJob, Finish, HoldsWhenBusy, QueueTypeOK, rows, work, reaper
  <2>3. OneClaim'
    BY <1>6, <1>inv, <1>zero
    DEF StartJob, Finish, OneClaim, QueueTypeOK, rows, work, reaper
  <2>4. PickedIsPending'
    BY <1>6, <1>inv, <1>zero
    DEF StartJob, Finish, PickedIsPending, HoldsWhenBusy, QueueTypeOK, rows,
             work, reaper
  <2>5. HeldIsClaimed'
    BY <1>6, <1>inv, <1>zero
    DEF StartJob, Finish, HeldIsClaimed, HoldsWhenBusy, Ended, QueueTypeOK,
             rows, work, reaper
  <2>6. ExclusiveExecution'
    BY <1>6, <1>inv, <1>zero
    DEF StartJob, Finish, ExclusiveExecution, QueueTypeOK, rows, work, reaper
  <2>7. CompletedIsFree'
    BY <1>6, <1>inv, <1>zero
    DEF StartJob, Finish, CompletedIsFree, QueueTypeOK, rows, work, reaper
  <2>8. JobHasOwner'
    BY <1>6, <1>inv, <1>zero
    DEF StartJob, Finish, JobHasOwner, HoldsWhenBusy, ExclusiveExecution,
             QueueTypeOK, rows, work, reaper
  <2> QED
    BY <2>1, <2>2, <2>3, <2>4, <2>5, <2>6, <2>7, <2>8 DEF QueueInv
<1>7. ASSUME NEW w \in Workers, NEW s \in Ended \cup {"artifact"}, Collect(w, s) PROVE QueueInv'
  <2>1. QueueTypeOK'
    <3>1. cur[w] \in Execs /\ try[w] \in Attempt
      BY <1>7, <1>inv DEF Collect, HoldsWhenBusy, QueueTypeOK
    <3>2. job' \in [Execs -> [Attempt -> Job]]
      BY <1>7, <1>inv, <3>1 DEF Collect, AfterRun, QueueTypeOK, Job
    <3>3. unowned' \subseteq Execs
      BY <1>7, <1>inv, <3>1 DEF Collect, QueueTypeOK
    <3>4. /\ pc' \in [Workers -> PC] /\ try' \in [Workers -> Attempt]
          /\ result' \in [Workers -> Ended]
      <4>1. CASE Retries(w, s)
        BY <1>7, <1>inv, <4>1 DEF Collect, Retries, Finish, QueueTypeOK, PC, Attempt
      <4>2. CASE ~Retries(w, s)
        BY <1>7, <1>inv, <4>2 DEF Collect, Finish, QueueTypeOK, PC, Ended
      <4> QED
        BY <4>1, <4>2
    <3>5. UNCHANGED <<load, status, cur, tracked, todo, torn>>
      BY <1>7 DEF Collect, rows, reaper
    <3> QED
      BY <1>inv, <3>2, <3>3, <3>4, <3>5 DEF QueueTypeOK
  <2>2. HoldsWhenBusy'
    BY <1>7, <1>inv, <1>zero
    DEF Collect, Finish, AfterRun, HoldsWhenBusy, QueueTypeOK, rows, work,
             reaper
  <2>3. OneClaim'
    BY <1>7, <1>inv, <1>zero
    DEF Collect, Finish, AfterRun, OneClaim, QueueTypeOK, rows, work, reaper
  <2>4. PickedIsPending'
    BY <1>7, <1>inv, <1>zero
    DEF Collect, Finish, AfterRun, PickedIsPending, HoldsWhenBusy, QueueTypeOK,
             rows, work, reaper
  <2>5. HeldIsClaimed'
    BY <1>7, <1>inv, <1>zero
    DEF Collect, Finish, AfterRun, HeldIsClaimed, HoldsWhenBusy, Ended,
             QueueTypeOK, rows, work, reaper
  <2>6. ExclusiveExecution'
    BY <1>7, <1>inv, <1>zero
    DEF Collect, Finish, AfterRun, ExclusiveExecution, QueueTypeOK, rows, work,
             reaper
  <2>7. CompletedIsFree'
    BY <1>7, <1>inv, <1>zero
    DEF Collect, Finish, AfterRun, CompletedIsFree, QueueTypeOK, rows, work,
             reaper
  <2>8. JobHasOwner'
    BY <1>7, <1>inv, <1>zero
    DEF Collect, Finish, AfterRun, JobHasOwner, HoldsWhenBusy,
             ExclusiveExecution, QueueTypeOK, rows, work, reaper
  <2> QED
    BY <2>1, <2>2, <2>3, <2>4, <2>5, <2>6, <2>7, <2>8 DEF QueueInv
<1>8. ASSUME NEW w \in Workers, Complete(w) PROVE QueueInv'
  <2>1. QueueTypeOK'
    BY <1>8, <1>inv, <1>zero
    DEF Complete, SetStatus, Release, QueueTypeOK, Status, Ended, PC, Attempt,
             Job, HoldsWhenBusy, rows, work, reaper
  <2>2. HoldsWhenBusy'
    BY <1>8, <1>inv, <1>zero
    DEF Complete, SetStatus, Release, HoldsWhenBusy, QueueTypeOK, rows, work,
             reaper
  <2>3. OneClaim'
    BY <1>8, <1>inv, <1>zero
    DEF Complete, SetStatus, Release, OneClaim, QueueTypeOK, rows, work, reaper
  <2>4. PickedIsPending'
    BY <1>8, <1>inv, <1>zero
    DEF Complete, SetStatus, Release, PickedIsPending, HoldsWhenBusy,
             ExclusiveExecution, QueueTypeOK, rows, work, reaper
  <2>5. HeldIsClaimed'
    BY <1>8, <1>inv, <1>zero
    DEF Complete, SetStatus, Release, HeldIsClaimed, HoldsWhenBusy, Ended,
             ExclusiveExecution, QueueTypeOK, rows, work, reaper
  <2>6. ExclusiveExecution'
    BY <1>8, <1>inv, <1>zero
    DEF Complete, SetStatus, Release, ExclusiveExecution, QueueTypeOK, rows,
             work, reaper
  <2>7. CompletedIsFree'
    BY <1>8, <1>inv, <1>zero
    DEF Complete, SetStatus, Release, CompletedIsFree, ExclusiveExecution,
             HoldsWhenBusy, QueueTypeOK, rows, work, reaper
  <2>8. JobHasOwner'
    BY <1>8, <1>inv, <1>zero
    DEF Complete, SetStatus, Release, JobHasOwner, QueueTypeOK, rows, work,
             reaper
  <2> QED
    BY <2>1, <2>2, <2>3, <2>4, <2>5, <2>6, <2>7, <2>8 DEF QueueInv
<1>9. ASSUME NEW e \in Execs, CancelPending(e) PROVE QueueInv'
  <2>1. QueueTypeOK'
    BY <1>9, <1>inv, <1>zero
    DEF CancelPending, SetStatus, QueueTypeOK, Status, Ended, PC, Attempt, Job,
             rows, work, reaper
  <2>2. HoldsWhenBusy'
    BY <1>9, <1>inv, <1>zero
    DEF CancelPending, SetStatus, HoldsWhenBusy, QueueTypeOK, rows, work,
             reaper
  <2>3. OneClaim'
    BY <1>9, <1>inv, <1>zero
    DEF CancelPending, SetStatus, OneClaim, QueueTypeOK, rows, work, reaper
  <2>4. PickedIsPending'
    BY <1>9, <1>inv, <1>zero
    DEF CancelPending, SetStatus, PickedIsPending, HoldsWhenBusy, RowFree,
             QueueTypeOK, rows, work, reaper
  <2>5. HeldIsClaimed'
    <3>1. UNCHANGED <<pc, cur>>
      BY <1>9 DEF CancelPending, work
    <3>2. \A f \in Execs : status'[f] = status[f] \/ status'[f] \in Ended
      BY <1>9, <1>inv DEF CancelPending, SetStatus, QueueTypeOK, Ended
    <3>3. \A v \in Workers : pc[v] # "idle" => cur[v] \in Execs
      BY <1>inv DEF HoldsWhenBusy, QueueTypeOK
    <3> QED
      BY <1>inv, <3>1, <3>2, <3>3 DEF HeldIsClaimed
  <2>6. ExclusiveExecution'
    BY <1>9, <1>inv, <1>zero
    DEF CancelPending, SetStatus, ExclusiveExecution, QueueTypeOK, rows, work,
             reaper
  <2>7. CompletedIsFree'
    BY <1>9, <1>inv, <1>zero
    DEF CancelPending, SetStatus, CompletedIsFree, QueueTypeOK, rows, work,
             reaper
  <2>8. JobHasOwner'
    BY <1>9, <1>inv, <1>zero
    DEF CancelPending, SetStatus, JobHasOwner, QueueTypeOK, rows, work, reaper
  <2> QED
    BY <2>1, <2>2, <2>3, <2>4, <2>5, <2>6, <2>7, <2>8 DEF QueueInv
<1>10. ASSUME NEW e \in Execs, NEW r \in Replicas, CancelRunning(e, r) PROVE QueueInv'
  <2>1. QueueTypeOK'
    BY <1>10, <1>inv, <1>zero
    DEF CancelRunning, QueueTypeOK, Status, Ended, PC, Attempt, Job, rows,
             work, reaper
  <2>2. HoldsWhenBusy'
    BY <1>10, <1>inv, <1>zero
    DEF CancelRunning, HoldsWhenBusy, QueueTypeOK, rows, work, reaper
  <2>3. OneClaim'
    BY <1>10, <1>inv, <1>zero
    DEF CancelRunning, OneClaim, QueueTypeOK, rows, work, reaper
  <2>4. PickedIsPending'
    BY <1>10, <1>inv, <1>zero
    DEF CancelRunning, PickedIsPending, HoldsWhenBusy, QueueTypeOK, rows, work,
             reaper
  <2>5. HeldIsClaimed'
    BY <1>10, <1>inv, <1>zero
    DEF CancelRunning, HeldIsClaimed, HoldsWhenBusy, Ended, QueueTypeOK, rows,
             work, reaper
  <2>6. ExclusiveExecution'
    BY <1>10, <1>inv, <1>zero
    DEF CancelRunning, ExclusiveExecution, QueueTypeOK, rows, work, reaper
  <2>7. CompletedIsFree'
    BY <1>10, <1>inv, <1>zero
    DEF CancelRunning, CompletedIsFree, QueueTypeOK, rows, work, reaper
  <2>8. JobHasOwner'
    BY <1>10, <1>inv, <1>zero
    DEF CancelRunning, JobHasOwner, QueueTypeOK, rows, work, reaper
  <2> QED
    BY <2>1, <2>2, <2>3, <2>4, <2>5, <2>6, <2>7, <2>8 DEF QueueInv
<1>11. ASSUME NEW r \in Replicas, ReapScan(r) PROVE QueueInv'
  <2>1. QueueTypeOK'
    BY <1>11, <1>inv, <1>zero
    DEF ReapScan, Stuck, QueueTypeOK, Status, Ended, PC, Attempt, Job, rows,
             work, reaper
  <2>2. HoldsWhenBusy'
    BY <1>11, <1>inv, <1>zero
    DEF ReapScan, Stuck, HoldsWhenBusy, QueueTypeOK, rows, work, reaper
  <2>3. OneClaim'
    BY <1>11, <1>inv, <1>zero
    DEF ReapScan, Stuck, OneClaim, QueueTypeOK, rows, work, reaper
  <2>4. PickedIsPending'
    BY <1>11, <1>inv, <1>zero
    DEF ReapScan, Stuck, PickedIsPending, HoldsWhenBusy, QueueTypeOK, rows,
             work, reaper
  <2>5. HeldIsClaimed'
    BY <1>11, <1>inv, <1>zero
    DEF ReapScan, Stuck, HeldIsClaimed, HoldsWhenBusy, Ended, QueueTypeOK,
             rows, work, reaper
  <2>6. ExclusiveExecution'
    BY <1>11, <1>inv, <1>zero
    DEF ReapScan, Stuck, ExclusiveExecution, QueueTypeOK, rows, work, reaper
  <2>7. CompletedIsFree'
    BY <1>11, <1>inv, <1>zero
    DEF ReapScan, Stuck, CompletedIsFree, QueueTypeOK, rows, work, reaper
  <2>8. JobHasOwner'
    BY <1>11, <1>inv, <1>zero
    DEF ReapScan, Stuck, JobHasOwner, QueueTypeOK, rows, work, reaper
  <2> QED
    BY <2>1, <2>2, <2>3, <2>4, <2>5, <2>6, <2>7, <2>8 DEF QueueInv
<1>12. ASSUME NEW r \in Replicas, ReapTeardown(r) PROVE QueueInv'
  <2>0. Min(todo[r]) \in Execs
    BY <1>12, <1>inv, LeastExec DEF ReapTeardown, QueueTypeOK
  <2>1. QueueTypeOK'
    BY <1>12, <1>inv, <1>zero, <2>0
    DEF ReapTeardown, QueueTypeOK, Status, Ended, PC, Attempt, Job, rows, work,
             reaper
  <2>2. HoldsWhenBusy'
    BY <1>12, <1>inv, <1>zero, <2>0
    DEF ReapTeardown, HoldsWhenBusy, QueueTypeOK, rows, work, reaper
  <2>3. OneClaim'
    BY <1>12, <1>inv, <1>zero, <2>0
    DEF ReapTeardown, OneClaim, QueueTypeOK, rows, work, reaper
  <2>4. PickedIsPending'
    BY <1>12, <1>inv, <1>zero, <2>0
    DEF ReapTeardown, PickedIsPending, HoldsWhenBusy, QueueTypeOK, rows, work,
             reaper
  <2>5. HeldIsClaimed'
    BY <1>12, <1>inv, <1>zero, <2>0
    DEF ReapTeardown, HeldIsClaimed, HoldsWhenBusy, Ended, QueueTypeOK, rows,
             work, reaper
  <2>6. ExclusiveExecution'
    BY <1>12, <1>inv, <1>zero, <2>0
    DEF ReapTeardown, ExclusiveExecution, QueueTypeOK, rows, work, reaper
  <2>7. CompletedIsFree'
    BY <1>12, <1>inv, <1>zero, <2>0
    DEF ReapTeardown, CompletedIsFree, QueueTypeOK, rows, work, reaper
  <2>8. JobHasOwner'
    BY <1>12, <1>inv, <1>zero, <2>0
    DEF ReapTeardown, JobHasOwner, QueueTypeOK, rows, work, reaper
  <2> QED
    BY <2>1, <2>2, <2>3, <2>4, <2>5, <2>6, <2>7, <2>8 DEF QueueInv
<1>13. ASSUME NEW r \in Replicas, ReapFail(r) PROVE QueueInv'
  <2>1. QueueTypeOK'
    BY <1>13, <1>inv, <1>zero
    DEF ReapFail, StillOpen, SetStatus, QueueTypeOK, Status, Ended, PC,
             Attempt, Job, rows, work, reaper
  <2>2. HoldsWhenBusy'
    BY <1>13, <1>inv, <1>zero
    DEF ReapFail, StillOpen, SetStatus, HoldsWhenBusy, QueueTypeOK, rows, work,
             reaper
  <2>3. OneClaim'
    BY <1>13, <1>inv, <1>zero
    DEF ReapFail, StillOpen, SetStatus, OneClaim, QueueTypeOK, rows, work,
             reaper
  <2>4. PickedIsPending'
    BY <1>13, <1>inv, <1>zero
    DEF ReapFail, StillOpen, SetStatus, PickedIsPending, HoldsWhenBusy,
             RowFree, QueueTypeOK, rows, work, reaper
  <2>5. HeldIsClaimed'
    <3>1. UNCHANGED <<pc, cur>>
      BY <1>13 DEF ReapFail, work
    <3>2. \A f \in Execs : status'[f] = status[f] \/ status'[f] \in Ended
      BY <1>13, <1>inv DEF ReapFail, StillOpen, SetStatus, QueueTypeOK, Ended
    <3>3. \A v \in Workers : pc[v] # "idle" => cur[v] \in Execs
      BY <1>inv DEF HoldsWhenBusy, QueueTypeOK
    <3> QED
      BY <1>inv, <3>1, <3>2, <3>3 DEF HeldIsClaimed
  <2>6. ExclusiveExecution'
    BY <1>13, <1>inv, <1>zero
    DEF ReapFail, StillOpen, SetStatus, ExclusiveExecution, QueueTypeOK, rows,
             work, reaper
  <2>7. CompletedIsFree'
    BY <1>13, <1>inv, <1>zero
    DEF ReapFail, StillOpen, SetStatus, CompletedIsFree, QueueTypeOK, rows,
             work, reaper
  <2>8. JobHasOwner'
    BY <1>13, <1>inv, <1>zero
    DEF ReapFail, StillOpen, SetStatus, JobHasOwner, QueueTypeOK, rows, work,
             reaper
  <2> QED
    BY <2>1, <2>2, <2>3, <2>4, <2>5, <2>6, <2>7, <2>8 DEF QueueInv
<1>14. ASSUME NEW e \in Execs, NEW a \in Attempt, NEW j \in Job, JobStep(e, a, j) PROVE QueueInv'
  <2>1. QueueTypeOK'
    BY <1>14, <1>inv, <1>zero
    DEF JobStep, QueueTypeOK, Status, Ended, PC, Attempt, Job, rows, work,
             reaper
  <2>2. HoldsWhenBusy'
    BY <1>14, <1>inv, <1>zero
    DEF JobStep, HoldsWhenBusy, QueueTypeOK, rows, work, reaper
  <2>3. OneClaim'
    BY <1>14, <1>inv, <1>zero
    DEF JobStep, OneClaim, QueueTypeOK, rows, work, reaper
  <2>4. PickedIsPending'
    BY <1>14, <1>inv, <1>zero
    DEF JobStep, PickedIsPending, HoldsWhenBusy, QueueTypeOK, rows, work,
             reaper
  <2>5. HeldIsClaimed'
    BY <1>14, <1>inv, <1>zero
    DEF JobStep, HeldIsClaimed, HoldsWhenBusy, Ended, QueueTypeOK, rows, work,
             reaper
  <2>6. ExclusiveExecution'
    BY <1>14, <1>inv, <1>zero
    DEF JobStep, ExclusiveExecution, QueueTypeOK, rows, work, reaper
  <2>7. CompletedIsFree'
    BY <1>14, <1>inv, <1>zero
    DEF JobStep, CompletedIsFree, QueueTypeOK, rows, work, reaper
  <2>8. JobHasOwner'
    BY <1>14, <1>inv, <1>zero
    DEF JobStep, JobHasOwner, QueueTypeOK, rows, work, reaper
  <2> QED
    BY <2>1, <2>2, <2>3, <2>4, <2>5, <2>6, <2>7, <2>8 DEF QueueInv
<1>15. ASSUME NEW r \in Replicas, Crash(r) PROVE QueueInv'
  <2>1. QueueTypeOK'
    BY <1>15, <1>inv, <1>zero
    DEF Crash, Release, Fault, QueueTypeOK, Status, Ended, PC, Attempt, Job,
             HoldsWhenBusy, rows, work, reaper
  <2>2. HoldsWhenBusy'
    BY <1>15, <1>inv, <1>zero
    DEF Crash, Release, Fault, HoldsWhenBusy, QueueTypeOK, rows, work, reaper
  <2>3. OneClaim'
    BY <1>15, <1>inv, <1>zero
    DEF Crash, Release, Fault, OneClaim, QueueTypeOK, rows, work, reaper
  <2>4. PickedIsPending'
    BY <1>15, <1>inv, <1>zero
    DEF Crash, Release, Fault, PickedIsPending, HoldsWhenBusy, QueueTypeOK,
             rows, work, reaper
  <2>5. HeldIsClaimed'
    BY <1>15, <1>inv, <1>zero
    DEF Crash, Release, Fault, HeldIsClaimed, HoldsWhenBusy, Ended,
             QueueTypeOK, rows, work, reaper
  <2>6. ExclusiveExecution'
    BY <1>15, <1>inv, <1>zero
    DEF Crash, Release, Fault, ExclusiveExecution, QueueTypeOK, rows, work,
             reaper
  <2>7. CompletedIsFree'
    BY <1>15, <1>inv, <1>zero
    DEF Crash, Release, Fault, CompletedIsFree, QueueTypeOK, rows, work, reaper
  <2>8. JobHasOwner'
    BY <1>15, <1>inv, <1>zero
    DEF Crash, Release, Fault, JobHasOwner, HoldsWhenBusy, QueueTypeOK, rows,
             work, reaper
  <2> QED
    BY <2>1, <2>2, <2>3, <2>4, <2>5, <2>6, <2>7, <2>8 DEF QueueInv
<1>16. ASSUME NEW e \in Execs, ReadForCancel(e) \/ PassDeadline(e) PROVE QueueInv'
  BY <1>16, QueueCoreUnchanged DEF ReadForCancel, PassDeadline, rows, work, reaper
<1>17. CASE UNCHANGED vars
  BY <1>17, QueueCoreUnchanged DEF vars, rows, work, reaper
<1> QED
  BY <1>1, <1>2, <1>3, <1>4, <1>5, <1>6, <1>7, <1>8, <1>9, <1>10, <1>11, <1>12, <1>13, <1>14, <1>15, <1>16, <1>17
  DEF Next, Forge, Worker, Reaper

(* The invariant holds in every behaviour of the queue: the scheduler's    *)
(* lock, the row lock of a claim and the claimed row's status together     *)
(* keep every worker on an execution of its own.                           *)
THEOREM QueueInvariant == Spec => []QueueInv
  BY InitQueueInv, NextQueueInv, PTL DEF Spec

(* No two workers ever hold one execution, and a job in the cluster has a  *)
(* worker that waits for it unless the worker died or never learned of it  *)
(* (claimPendingExecution, Run's deferred deletion).                       *)
THEOREM ExecutionIsOwned == Spec => []ExecutionOwned
<1>1. QueueInv => ExecutionOwned
  BY DEF QueueInv, ExecutionOwned
<1> QED
  BY <1>1, QueueInvariant, PTL

(* What a step of the queue does to an execution that has ended. *)
LEMMA NextOutcomeStep == QueueInv /\ [Next]_vars => OutcomeStep
<1> SUFFICES ASSUME QueueInv, [Next]_vars PROVE OutcomeStep
  OBVIOUS
<1> USE QueueConstants DEF OutcomeStep
<1>inv. /\ QueueTypeOK /\ HoldsWhenBusy /\ PickedIsPending
  BY DEF QueueInv
<1>1. ASSUME NEW e \in Execs, Submit(e) PROVE OutcomeStep
  BY <1>1, <1>inv DEF Submit, SetStatus, QueueTypeOK, Ended
<1>2. ASSUME NEW w \in Workers, CommitClaim(w) PROVE OutcomeStep
  BY <1>2, <1>inv DEF CommitClaim, SetStatus, QueueTypeOK, Ended, PickedIsPending
<1>3. ASSUME NEW w \in Workers, Complete(w) PROVE OutcomeStep
  BY <1>3, <1>inv DEF Complete, SetStatus, QueueTypeOK, HoldsWhenBusy, Ended
<1>4. ASSUME NEW e \in Execs, CancelPending(e) PROVE OutcomeStep
  BY <1>4, <1>inv DEF CancelPending, SetStatus, QueueTypeOK, Ended
<1>5. ASSUME NEW r \in Replicas, ReapFail(r) PROVE OutcomeStep
  BY <1>5, <1>inv DEF ReapFail, StillOpen, SetStatus, QueueTypeOK, Ended
<1>6. ASSUME UNCHANGED status PROVE OutcomeStep
  BY <1>6
<1>7. ASSUME NEW e \in Execs, ReadForCancel(e) \/ PassDeadline(e) PROVE UNCHANGED status
  BY <1>7 DEF ReadForCancel, PassDeadline, rows
<1>8. ASSUME NEW e \in Execs, NEW r \in Replicas, CancelRunning(e, r) PROVE UNCHANGED status
  BY <1>8 DEF CancelRunning, rows
<1>9. ASSUME NEW w \in Workers,
             \/ PickPending(w) \/ RollbackClaim(w) \/ Register(w) \/ StartJob(w)
             \/ \E s \in Ended \cup {"artifact"} : Collect(w, s)
      PROVE  UNCHANGED status
  BY <1>9 DEF PickPending, RollbackClaim, Register, StartJob, Collect, rows
<1>10. ASSUME NEW r \in Replicas, ReapScan(r) \/ ReapTeardown(r) \/ Crash(r)
       PROVE  UNCHANGED status
  BY <1>10 DEF ReapScan, ReapTeardown, Crash, rows
<1>11. ASSUME NEW e \in Execs, NEW a \in Attempt, NEW j \in Job, JobStep(e, a, j)
       PROVE  UNCHANGED status
  BY <1>11 DEF JobStep, rows
<1>12. CASE UNCHANGED vars
  BY <1>12, <1>6 DEF vars, rows
<1> QED
  BY <1>1, <1>2, <1>3, <1>4, <1>5, <1>6, <1>7, <1>8, <1>9, <1>10, <1>11, <1>12
  DEF Next, Forge, Worker, Reaper

(* An ended execution stays ended, and only the worker that holds it may   *)
(* replace the outcome: neither a claim, a cancel request nor the reaper   *)
(* ever overwrites it (Execution.Cancel, failStuckExecution).              *)
THEOREM OutcomesAreKept == Spec => OutcomesKept
<1>1. QueueInv /\ [Next]_vars => [OutcomeStep]_vars
  BY NextOutcomeStep
<1> QED
  BY <1>1, QueueInvariant, PTL DEF Spec, OutcomesKept

----------------------------------------------------------------------------
(* Workflow steps as clients of the queue *)

(* Every step of the composition is a step of the queue or leaves it alone. *)
LEMMA StepNextIsNext == [StepNext]_allVars => [Next]_vars
  BY DEF StepNext, allVars, Next, SubmitStep, SubmitOther, Poll, EndStep, StopWaiting

(* Workflow steps use the queue as anybody does: the composition of        *)
(* pollAction's clients with forge implements forge's own specification.   *)
THEOREM StepsUseTheQueue == StepSpec => Spec
<1>1. StepInit => Init
  BY DEF StepInit
<1> QED
  BY <1>1, StepNextIsNext, PTL DEF StepSpec, Spec

StepTypeOK ==
    /\ step \in [Execs -> {"none"} \cup Live \cup Over]
    /\ seen \in [Execs -> Ended \cup {"none"}]

(* What a step has read, and what it reported, is still what forge says. *)
ReportsAreTrue ==
    \A e \in Execs :
        /\ step[e] = "completed" => status[e] = "completed"
        /\ seen[e] # "none" => status[e] \in Ended
        /\ seen[e] = "completed" => status[e] = "completed"

StepInv == StepTypeOK /\ ReportsAreTrue

(* A completed execution stays completed: whoever could overwrite it would *)
(* have to hold it.                                                        *)
LEMMA CompletedIsFinal ==
  ASSUME QueueInv, [Next]_vars, NEW e \in Execs, status[e] = "completed"
  PROVE  status'[e] = "completed"
<1>1. OutcomeStep
  BY NextOutcomeStep
<1>2. \A w \in Workers : cur[w] # e
  BY DEF QueueInv, CompletedIsFree
<1> QED
  BY <1>1, <1>2 DEF OutcomeStep, Ended

LEMMA EndedStaysEnded ==
  ASSUME QueueInv, [Next]_vars, NEW e \in Execs, status[e] \in Ended
  PROVE  status'[e] \in Ended
  BY NextOutcomeStep DEF OutcomeStep

(* A report stays true when the queue moves and the step does not. *)
LEMMA ReportsSurvive ==
  ASSUME QueueInv, [Next]_vars, StepInv, UNCHANGED stepVars
  PROVE  StepInv'
<1>1. StepTypeOK'
  BY DEF StepInv, StepTypeOK, stepVars
<1>2. ReportsAreTrue'
  BY CompletedIsFinal, EndedStaysEnded DEF StepInv, ReportsAreTrue, stepVars
<1> QED
  BY <1>1, <1>2 DEF StepInv

LEMMA NextStepInv == QueueInv /\ StepInv /\ [StepNext]_allVars => StepInv'
<1> SUFFICES ASSUME QueueInv, StepInv, [StepNext]_allVars PROVE StepInv'
  OBVIOUS
<1>n. [Next]_vars
  BY StepNextIsNext
<1>t. StepTypeOK /\ ReportsAreTrue
  BY DEF StepInv
<1>1. CASE Forge /\ UNCHANGED stepVars
  BY <1>1, <1>n, ReportsSurvive
<1>2. ASSUME NEW e \in Execs, SubmitStep(e) PROVE StepInv'
  <2>1. StepTypeOK'
    BY <1>2, <1>t DEF SubmitStep, StepRow, StepTypeOK, Over
  <2>2. \A f \in Execs : step'[f] = "completed" => step[f] = "completed"
    BY <1>2, <1>t DEF SubmitStep, StepRow, StepTypeOK
  <2>3. ReportsAreTrue'
    BY <1>2, <1>t, <1>n, <2>2, CompletedIsFinal, EndedStaysEnded
    DEF SubmitStep, ReportsAreTrue
  <2> QED
    BY <2>1, <2>3 DEF StepInv
<1>3. ASSUME NEW e \in Execs, SubmitOther(e) PROVE StepInv'
  BY <1>3, <1>n, ReportsSurvive DEF SubmitOther
<1>4. ASSUME NEW e \in Execs, Poll(e) PROVE StepInv'
  <2>1. StepTypeOK'
    BY <1>4, <1>t DEF Poll, StepRow, StepTypeOK, Live, Ended
  <2>2. ReportsAreTrue'
    BY <1>4, <1>t DEF Poll, StepRow, StepTypeOK, ReportsAreTrue, Ended, vars, rows
  <2> QED
    BY <2>1, <2>2 DEF StepInv
<1>5. ASSUME NEW e \in Execs, EndStep(e) PROVE StepInv'
  <2>1. StepTypeOK'
    BY <1>5, <1>t DEF EndStep, StepRow, StepTypeOK, Over
  <2>2. ReportsAreTrue'
    BY <1>5, <1>t DEF EndStep, StepRow, StepTypeOK, ReportsAreTrue, vars, rows
  <2> QED
    BY <2>1, <2>2 DEF StepInv
<1>6. ASSUME NEW e \in Execs, StopWaiting(e) PROVE StepInv'
  <2>1. StepTypeOK'
    BY <1>6, <1>t DEF StopWaiting, StepRow, StepTypeOK, Over
  <2>2. ReportsAreTrue'
    BY <1>6, <1>t DEF StopWaiting, StepRow, StepTypeOK, ReportsAreTrue, vars, rows
  <2> QED
    BY <2>1, <2>2 DEF StepInv
<1>7. CASE UNCHANGED allVars
  BY <1>7, <1>n, ReportsSurvive DEF allVars
<1> QED
  BY <1>1, <1>2, <1>3, <1>4, <1>5, <1>6, <1>7 DEF StepNext

(* What forge records and what a step reports about it both stand: no late *)
(* worker, cancel or reaper takes a completed execution back once          *)
(* pollAction has told the run (pollAction against Execution.Complete,     *)
(* which is not guarded on the row's status).                              *)
THEOREM ReportedOutcomesStand == StepSpec => OutcomesStand
<1>1. StepInit => StepInv
  BY DEF StepInit, Init, StepInv, StepTypeOK, ReportsAreTrue, Live, Over
<1>2. StepSpec => []QueueInv
  BY StepsUseTheQueue, QueueInvariant, PTL
<1>3. QueueInv /\ StepInv' /\ [StepNext]_allVars =>
        [/\ OutcomeStep
         /\ \A e \in Execs : step'[e] = "completed" => status'[e] = "completed"]_allVars
  BY NextOutcomeStep, StepNextIsNext DEF StepInv, ReportsAreTrue
<1> QED
  BY <1>1, <1>2, <1>3, NextStepInv, PTL DEF StepSpec, OutcomesStand

(* In the composition too no two workers hold one execution. *)
THEOREM ExecutionIsOwnedBySteps == StepSpec => []ExecutionOwned
  BY StepsUseTheQueue, ExecutionIsOwned, PTL

----------------------------------------------------------------------------
(* What the rows of a set are charged for a resource *)

CostSum(l, r, S) == MapThenSumSet(LAMBDA e : l[e].cost[r], S)

Some(s) == CHOOSE x \in s : TRUE

(* f sums every subset of S one member at a time: what the fold computes. *)
Sums(f, l, r, S) ==
    f = [s \in SUBSET S |->
            IF s = {} THEN 0 ELSE l[Some(s)].cost[r] + f[s \ {Some(s)}]]

Natural(l, r, S) == \A e \in S : l[e].cost[r] \in Nat

LEMMA CostSumIsSums ==
  ASSUME NEW l, NEW r, NEW S
  PROVE  CostSum(l, r, S) = (CHOOSE f : Sums(f, l, r, S))[S]
  BY Zenon DEF CostSum, MapThenSumSet, MapThenFoldSet, Sums, Some

LEMMA SomeIn == \A s : s # {} => Some(s) \in s
  BY Zenon DEF Some

(* A set of subsets of a finite set that is not empty has a member none of *)
(* whose proper subsets is in it: what the inductions below rest on.       *)
LEMMA SmallestSubset ==
  ASSUME NEW S, IsFiniteSet(S), NEW T, T \subseteq SUBSET S, T # {}
  PROVE  \E t \in T : \A u \in T : ~(u \subseteq t /\ u # t)
<1>1. IsWellFoundedOn(StrictSubsetOrdering(S), SUBSET S)
  BY FS_StrictSubsetOrderingWellFounded, FS_FiniteSubsetsOfFinite
<1>2. PICK t \in T : \A u \in T : ~(<<u, t>> \in StrictSubsetOrdering(S))
  BY <1>1, WFMin, Zenon
<1>3. ASSUME NEW u \in T, u \subseteq t, u # t PROVE FALSE
  <2>1. <<u, t>> \in StrictSubsetOrdering(S)
    BY <1>3 DEF StrictSubsetOrdering
  <2> QED
    BY <2>1, <1>2, Zenon
<1> QED
  BY <1>3

(* The sums are determined. *)
LEMMA SumsUnique ==
  ASSUME NEW l, NEW r, NEW S, IsFiniteSet(S), NEW f, NEW g,
         Sums(f, l, r, S), Sums(g, l, r, S)
  PROVE  f = g
<1> DEFINE T == {s \in SUBSET S : f[s] # g[s]}
<1> HIDE DEF T
<1>1. T = {}
  <2> SUFFICES ASSUME T # {} PROVE FALSE
    OBVIOUS
  <2>1. PICK t \in T : \A u \in T : ~(u \subseteq t /\ u # t)
    <3>1. T \subseteq SUBSET S
      BY DEF T
    <3> QED
      BY <3>1, SmallestSubset
  <2> USE DEF T
  <2>2. CASE t = {}
    BY <2>2, <2>1 DEF Sums
  <2>3. CASE t # {}
    <3>1. Some(t) \in t
      BY <2>3, SomeIn
    <3>2. f[t \ {Some(t)}] = g[t \ {Some(t)}]
      BY <3>1, <2>1
    <3>3. /\ f[t] = l[Some(t)].cost[r] + f[t \ {Some(t)}]
          /\ g[t] = l[Some(t)].cost[r] + g[t \ {Some(t)}]
      BY <2>3, <2>1 DEF Sums
    <3> QED
      BY <3>2, <3>3, <2>1
  <2> QED
    BY <2>2, <2>3
<1> QED
  BY <1>1 DEF Sums, T

(* The sums over a set are also those over its subsets. *)
LEMMA SumsRestrict ==
  ASSUME NEW l, NEW r, NEW S, NEW f, Sums(f, l, r, S), NEW R \in SUBSET S
  PROVE  Sums([s \in SUBSET R |-> f[s]], l, r, R)
<1> DEFINE g == [s \in SUBSET R |-> f[s]]
<1>1. ASSUME NEW s \in SUBSET R
      PROVE  g[s] = IF s = {} THEN 0 ELSE l[Some(s)].cost[r] + g[s \ {Some(s)}]
  <2>1. s \in SUBSET S /\ s \ {Some(s)} \in SUBSET R
    OBVIOUS
  <2>2. f[s] = IF s = {} THEN 0 ELSE l[Some(s)].cost[r] + f[s \ {Some(s)}]
    BY <2>1 DEF Sums
  <2> QED
    BY <2>1, <2>2
<1> HIDE DEF g
<1>2. g = [s \in SUBSET R |-> g[s]]
  BY DEF g
<1>3. Sums(g, l, r, R)
  BY <1>1, <1>2 DEF Sums
<1> QED
  BY <1>3 DEF g

LEMMA CostSumValue ==
  ASSUME NEW l, NEW r, NEW S, IsFiniteSet(S), NEW f, Sums(f, l, r, S)
  PROVE  \A R \in SUBSET S : CostSum(l, r, R) = f[R]
<1> TAKE R \in SUBSET S
<1> DEFINE g == [s \in SUBSET R |-> f[s]]
<1>1. Sums(g, l, r, R)
  BY SumsRestrict
<1>2. IsFiniteSet(R)
  BY FS_Subset
<1> HIDE DEF g
<1>3. Sums(CHOOSE h : Sums(h, l, r, R), l, r, R)
  BY <1>1, Zenon
<1>4. (CHOOSE h : Sums(h, l, r, R)) = g
  BY <1>1, <1>2, <1>3, SumsUnique, Zenon
<1>5. CostSum(l, r, R) = g[R]
  BY <1>4, CostSumIsSums
<1> QED
  BY <1>5 DEF g

(* The fold is well defined on every finite set. *)
LEMMA SumsExist ==
  ASSUME NEW l, NEW r, NEW S, IsFiniteSet(S)
  PROVE  \E f : Sums(f, l, r, S)
<1> DEFINE T == {s \in SUBSET S : ~ \E f : Sums(f, l, r, s)}
<1> HIDE DEF T
<1>1. T = {}
  <2> SUFFICES ASSUME T # {} PROVE FALSE
    OBVIOUS
  <2>1. PICK t \in T : \A u \in T : ~(u \subseteq t /\ u # t)
    <3>1. T \subseteq SUBSET S
      BY DEF T
    <3> QED
      BY <3>1, SmallestSubset
  <2> USE DEF T
  <2>2. t \in SUBSET S /\ IsFiniteSet(t)
    BY FS_Subset
  <2>3. \A u \in SUBSET t : u # t => \E f : Sums(f, l, r, u)
    BY <2>1, <2>2
  <2> DEFINE h == [s \in SUBSET t |->
                      IF s = {} THEN 0
                      ELSE l[Some(s)].cost[r] + CostSum(l, r, s \ {Some(s)})]
  <2>4. ASSUME NEW u \in SUBSET t, u # t PROVE CostSum(l, r, u) = h[u]
    <3>1. PICK f : Sums(f, l, r, u)
      BY <2>3, <2>4
    <3>2. IsFiniteSet(u)
      BY <2>2, FS_Subset
    <3>3. \A v \in SUBSET u : CostSum(l, r, v) = f[v]
      BY <3>1, <3>2, CostSumValue
    <3>4. f[u] = IF u = {} THEN 0 ELSE l[Some(u)].cost[r] + f[u \ {Some(u)}]
      BY <3>1 DEF Sums
    <3> QED
      BY <3>3, <3>4
  <2>5. ASSUME NEW s \in SUBSET t
        PROVE  h[s] = IF s = {} THEN 0 ELSE l[Some(s)].cost[r] + h[s \ {Some(s)}]
    <3>1. CASE s = {}
      BY <3>1
    <3>2. CASE s # {}
      <4>1. Some(s) \in s
        BY <3>2, SomeIn
      <4>2. s \ {Some(s)} \in SUBSET t /\ s \ {Some(s)} # t
        BY <4>1
      <4>3. CostSum(l, r, s \ {Some(s)}) = h[s \ {Some(s)}]
        BY <4>2, <2>4
      <4>4. h[s] = l[Some(s)].cost[r] + CostSum(l, r, s \ {Some(s)})
        BY <3>2
      <4> QED
        BY <4>3, <4>4, <3>2
    <3> QED
      BY <3>1, <3>2
  <2>6. h = [s \in SUBSET t |-> h[s]]
    OBVIOUS
  <2> HIDE DEF h
  <2>7. Sums(h, l, r, t)
    BY <2>5, <2>6 DEF Sums
  <2> QED
    BY <2>7, <2>1
<1> QED
  BY <1>1 DEF T

(* The recursion the sum obeys. *)
LEMMA CostSumStep ==
  ASSUME NEW l, NEW r, NEW S, IsFiniteSet(S)
  PROVE  CostSum(l, r, S) =
           IF S = {} THEN 0 ELSE l[Some(S)].cost[r] + CostSum(l, r, S \ {Some(S)})
<1>1. PICK f : Sums(f, l, r, S)
  BY SumsExist
<1>2. CostSum(l, r, S) = f[S] /\ CostSum(l, r, S \ {Some(S)}) = f[S \ {Some(S)}]
  BY <1>1, CostSumValue
<1>3. f[S] = IF S = {} THEN 0 ELSE l[Some(S)].cost[r] + f[S \ {Some(S)}]
  BY <1>1 DEF Sums
<1> QED
  BY <1>2, <1>3

LEMMA CostSumType ==
  ASSUME NEW l, NEW r, NEW S, IsFiniteSet(S), Natural(l, r, S)
  PROVE  CostSum(l, r, S) \in Nat
<1> DEFINE T == {s \in SUBSET S : CostSum(l, r, s) \notin Nat}
<1> HIDE DEF T
<1>1. T = {}
  <2> SUFFICES ASSUME T # {} PROVE FALSE
    OBVIOUS
  <2>1. PICK t \in T : \A u \in T : ~(u \subseteq t /\ u # t)
    <3>1. T \subseteq SUBSET S
      BY DEF T
    <3> QED
      BY <3>1, SmallestSubset
  <2> USE DEF T
  <2>2. IsFiniteSet(t)
    BY FS_Subset
  <2>3. CASE t = {}
    <3>1. CostSum(l, r, t) = 0
      BY <2>2, <2>3, CostSumStep, Zenon
    <3> QED
      BY <3>1, <2>1
  <2>4. CASE t # {}
    <3>1. Some(t) \in t
      BY <2>4, SomeIn
    <3>2. CostSum(l, r, t \ {Some(t)}) \in Nat
      BY <3>1, <2>1
    <3>3. l[Some(t)].cost[r] \in Nat
      BY <3>1 DEF Natural
    <3> QED
      BY <2>1, <2>2, <2>4, <3>2, <3>3, CostSumStep
  <2> QED
    BY <2>3, <2>4
<1> QED
  BY <1>1 DEF T

(* The order in which the fold picks the members does not matter: any      *)
(* member can be taken out first.                                          *)
LEMMA CostSumRemove ==
  ASSUME NEW l, NEW r, NEW S, IsFiniteSet(S), Natural(l, r, S), NEW y \in S
  PROVE  CostSum(l, r, S) = l[y].cost[r] + CostSum(l, r, S \ {y})
<1> DEFINE Good(s) == \A z \in s : CostSum(l, r, s) = l[z].cost[r] + CostSum(l, r, s \ {z})
           T == {s \in SUBSET S : ~Good(s)}
<1> HIDE DEF T
<1>1. T = {}
  <2> SUFFICES ASSUME T # {} PROVE FALSE
    OBVIOUS
  <2>1. PICK t \in T : \A u \in T : ~(u \subseteq t /\ u # t)
    <3>1. T \subseteq SUBSET S
      BY DEF T
    <3> QED
      BY <3>1, SmallestSubset
  <2> USE DEF T
  <2>2. PICK z \in t : CostSum(l, r, t) # l[z].cost[r] + CostSum(l, r, t \ {z})
    BY <2>1
  <2> DEFINE x == Some(t)
  <2>3. x \in t
    BY <2>2, SomeIn
  <2> HIDE DEF x
  <2>4. \A u \in SUBSET t : IsFiniteSet(u) /\ CostSum(l, r, u) \in Nat
    <3> TAKE u \in SUBSET t
    <3>1. u \in SUBSET S /\ IsFiniteSet(u)
      BY FS_Subset
    <3>2. Natural(l, r, u)
      BY <3>1 DEF Natural
    <3> QED
      BY <3>1, <3>2, CostSumType
  <2>5. CostSum(l, r, t) = l[x].cost[r] + CostSum(l, r, t \ {x})
    BY <2>2, <2>4, CostSumStep DEF x
  <2>6. x # z
    BY <2>2, <2>5
  <2>7. CostSum(l, r, t \ {x}) = l[z].cost[r] + CostSum(l, r, (t \ {x}) \ {z})
    <3>1. t \ {x} \in SUBSET S /\ t \ {x} \subseteq t /\ t \ {x} # t /\ z \in t \ {x}
      BY <2>3, <2>6
    <3> QED
      BY <3>1, <2>1
  <2>8. CostSum(l, r, t \ {z}) = l[x].cost[r] + CostSum(l, r, (t \ {z}) \ {x})
    <3>1. t \ {z} \in SUBSET S /\ t \ {z} \subseteq t /\ t \ {z} # t /\ x \in t \ {z}
      BY <2>3, <2>6
    <3> QED
      BY <3>1, <2>1
  <2>9. (t \ {x}) \ {z} = (t \ {z}) \ {x}
    OBVIOUS
  <2>10. l[x].cost[r] \in Nat /\ l[z].cost[r] \in Nat /\ CostSum(l, r, (t \ {z}) \ {x}) \in Nat
    BY <2>3, <2>4 DEF Natural
  <2> DEFINE c == CostSum(l, r, (t \ {z}) \ {x})
  <2>11. CostSum(l, r, t) = l[x].cost[r] + (l[z].cost[r] + c)
    BY <2>5, <2>7, <2>9
  <2>12. l[z].cost[r] + CostSum(l, r, t \ {z}) = l[z].cost[r] + (l[x].cost[r] + c)
    BY <2>8
  <2> HIDE DEF c, T
  <2>13. l[x].cost[r] + (l[z].cost[r] + c) = l[z].cost[r] + (l[x].cost[r] + c)
    BY <2>10 DEF c
  <2> QED
    BY <2>2, <2>11, <2>12, <2>13
<1> QED
  BY <1>1 DEF T

(* Fewer rows never cost more. *)
LEMMA CostSumMonotone ==
  ASSUME NEW l, NEW r, NEW S, IsFiniteSet(S), Natural(l, r, S), NEW R \in SUBSET S
  PROVE  CostSum(l, r, R) <= CostSum(l, r, S)
<1> DEFINE T == {s \in SUBSET S : R \subseteq s /\ ~(CostSum(l, r, R) <= CostSum(l, r, s))}
<1> HIDE DEF T
<1>1. T = {}
  <2> SUFFICES ASSUME T # {} PROVE FALSE
    OBVIOUS
  <2>1. PICK t \in T : \A u \in T : ~(u \subseteq t /\ u # t)
    <3>1. T \subseteq SUBSET S
      BY DEF T
    <3> QED
      BY <3>1, SmallestSubset
  <2> USE DEF T
  <2>2. \A u \in SUBSET t : IsFiniteSet(u) /\ Natural(l, r, u) /\ CostSum(l, r, u) \in Nat
    <3> TAKE u \in SUBSET t
    <3>1. u \in SUBSET S /\ IsFiniteSet(u)
      BY FS_Subset
    <3>2. Natural(l, r, u)
      BY <3>1 DEF Natural
    <3> QED
      BY <3>1, <3>2, CostSumType
  <2>3. R # t
    BY <2>1, <2>2
  <2>4. PICK y \in t : y \notin R
    BY <2>1, <2>3
  <2>5. CostSum(l, r, t) = l[y].cost[r] + CostSum(l, r, t \ {y})
    BY <2>2, CostSumRemove
  <2>6. t \ {y} \in SUBSET S /\ R \subseteq t \ {y} /\ t \ {y} \subseteq t /\ t \ {y} # t
    BY <2>1, <2>4
  <2>7. CostSum(l, r, R) <= CostSum(l, r, t \ {y})
    BY <2>6, <2>1
  <2>8. l[y].cost[r] \in Nat /\ CostSum(l, r, t \ {y}) \in Nat /\ CostSum(l, r, R) \in Nat
    BY <2>1, <2>2 DEF Natural
  <2> QED
    BY <2>1, <2>5, <2>7, <2>8
<1> QED
  BY <1>1 DEF T

(* Rows that cost nothing sum to nothing. *)
LEMMA CostSumZero ==
  ASSUME NEW l, NEW r, NEW S, IsFiniteSet(S), \A e \in S : l[e].cost[r] = 0
  PROVE  CostSum(l, r, S) = 0
<1> DEFINE T == {s \in SUBSET S : CostSum(l, r, s) # 0}
<1> HIDE DEF T
<1>1. T = {}
  <2> SUFFICES ASSUME T # {} PROVE FALSE
    OBVIOUS
  <2>1. PICK t \in T : \A u \in T : ~(u \subseteq t /\ u # t)
    <3>1. T \subseteq SUBSET S
      BY DEF T
    <3> QED
      BY <3>1, SmallestSubset
  <2> USE DEF T
  <2>2. IsFiniteSet(t)
    BY FS_Subset
  <2>3. CASE t = {}
    BY <2>1, <2>2, <2>3, CostSumStep
  <2>4. CASE t # {}
    <3>1. Some(t) \in t
      BY <2>4, SomeIn
    <3>2. CostSum(l, r, t \ {Some(t)}) = 0
      BY <3>1, <2>1
    <3>3. l[Some(t)].cost[r] = 0
      BY <3>1
    <3> QED
      BY <2>1, <2>2, <2>4, <3>2, <3>3, CostSumStep
  <2> QED
    BY <2>3, <2>4
<1> QED
  BY <1>1 DEF T

----------------------------------------------------------------------------
(* The caps and the budget, as facts about a workload l and a set R of     *)
(* running executions                                                      *)

OfUser(l, R, e) == {f \in R : l[f].user = l[e].user}
OfOrg(l, R, e) == {f \in R : l[f].org = l[e].org}
Charged(l, R, r) == {e \in R : l[e].cost[r] > 0}

MayStart(l, R, e) ==
    /\ l[e].org = NoOrg \/ OrgCap <= 0 \/ Cardinality(OfOrg(l, R, e)) < OrgCap
    /\ UserCap <= 0 \/ Cardinality(OfUser(l, R, e)) < UserCap

FitsBudget(l, R, e) ==
    \A r \in Resources :
        \/ Budget[r] <= 0 \/ CostSum(l, r, R) = 0
        \/ CostSum(l, r, R) + l[e].cost[r] <= Budget[r]

CapsHold(l, R) ==
    \A e \in R :
        /\ UserCap > 0 => Cardinality(OfUser(l, R, e)) <= UserCap
        /\ OrgCap > 0 /\ l[e].org # NoOrg => Cardinality(OfOrg(l, R, e)) <= OrgCap

BudgetHolds(l, R) ==
    \A r \in Resources :
        \/ Budget[r] <= 0 \/ CostSum(l, r, R) <= Budget[r]
        \/ Cardinality(Charged(l, R, r)) = 1

LEMMA ExecsFinite ==
  ASSUME NEW R \in SUBSET Execs PROVE IsFiniteSet(R)
<1>1. IsFiniteSet(Execs)
  BY QueueConstants, FS_Interval DEF Execs
<1> QED
  BY <1>1, FS_Subset

LEMMA ExecsCount ==
  ASSUME NEW R \in SUBSET Execs PROVE Cardinality(R) \in Nat
  BY ExecsFinite, FS_CardinalityType

LEMMA FewerCount ==
  ASSUME NEW R \in SUBSET Execs, NEW Q \in SUBSET R PROVE Cardinality(Q) <= Cardinality(R)
  BY ExecsFinite, FS_Subset

LEMMA LoadsNatural ==
  ASSUME NEW l \in Loads, NEW r \in Resources, NEW R \in SUBSET Execs
  PROVE  Natural(l, r, R)
  BY QueueConstants DEF Natural

LEMMA LoadsSum ==
  ASSUME NEW l \in Loads, NEW r \in Resources, NEW R \in SUBSET Execs
  PROVE  CostSum(l, r, R) \in Nat
  BY LoadsNatural, ExecsFinite, CostSumType

LEMMA OneMore ==
  ASSUME NEW R \in SUBSET Execs, NEW e \in Execs
  PROVE  /\ Cardinality(R) \in Nat /\ Cardinality(R \cup {e}) \in Nat
         /\ Cardinality(R \cup {e}) <= Cardinality(R) + 1
<1>1. IsFiniteSet(R) /\ R \cup {e} \in SUBSET Execs
  BY ExecsFinite
<1>2. Cardinality(R) \in Nat /\ Cardinality(R \cup {e}) \in Nat
  BY <1>1, ExecsCount
<1>3. Cardinality(R \cup {e}) = IF e \in R THEN Cardinality(R) ELSE Cardinality(R) + 1
  BY <1>1, FS_AddElement, Zenon
<1> QED
  BY <1>2, <1>3

(* When less runs, what could start still can. *)
LEMMA LessMayStart ==
  ASSUME NEW l \in Loads, NEW R \in SUBSET Execs, NEW Q \in SUBSET R, NEW e \in Execs,
         MayStart(l, R, e), FitsBudget(l, R, e)
  PROVE  MayStart(l, Q, e) /\ FitsBudget(l, Q, e)
<1>1. MayStart(l, Q, e)
  <2>1. /\ OfOrg(l, R, e) \in SUBSET Execs /\ OfUser(l, R, e) \in SUBSET Execs
        /\ OfOrg(l, Q, e) \in SUBSET OfOrg(l, R, e)
        /\ OfUser(l, Q, e) \in SUBSET OfUser(l, R, e)
    BY DEF OfOrg, OfUser
  <2>2. /\ Cardinality(OfOrg(l, Q, e)) <= Cardinality(OfOrg(l, R, e))
        /\ Cardinality(OfUser(l, Q, e)) <= Cardinality(OfUser(l, R, e))
    BY <2>1, FewerCount
  <2>3. /\ Cardinality(OfOrg(l, Q, e)) \in Nat /\ Cardinality(OfOrg(l, R, e)) \in Nat
        /\ Cardinality(OfUser(l, Q, e)) \in Nat /\ Cardinality(OfUser(l, R, e)) \in Nat
    BY <2>1, ExecsCount
  <2> QED
    BY <2>2, <2>3, QueueConstants DEF MayStart
<1>2. ASSUME NEW r \in Resources
      PROVE  \/ Budget[r] <= 0 \/ CostSum(l, r, Q) = 0
             \/ CostSum(l, r, Q) + l[e].cost[r] <= Budget[r]
  <2>1. CostSum(l, r, Q) <= CostSum(l, r, R)
    BY CostSumMonotone, ExecsFinite, LoadsNatural
  <2>2. CostSum(l, r, Q) \in Nat /\ CostSum(l, r, R) \in Nat
    BY LoadsSum
  <2>3. l[e].cost[r] \in Nat /\ Budget[r] \in Int
    BY QueueConstants
  <2> QED
    BY <2>1, <2>2, <2>3 DEF FitsBudget
<1> QED
  BY <1>1, <1>2 DEF FitsBudget

(* When less runs, the limits hold as they did. *)
LEMMA LessKeepsCaps ==
  ASSUME NEW l, NEW R \in SUBSET Execs, NEW Q \in SUBSET R, CapsHold(l, R)
  PROVE  CapsHold(l, Q)
<1> SUFFICES ASSUME NEW e \in Q
             PROVE  /\ UserCap > 0 => Cardinality(OfUser(l, Q, e)) <= UserCap
                    /\ OrgCap > 0 /\ l[e].org # NoOrg =>
                          Cardinality(OfOrg(l, Q, e)) <= OrgCap
  BY DEF CapsHold
<1>1. /\ OfOrg(l, R, e) \in SUBSET Execs /\ OfUser(l, R, e) \in SUBSET Execs
      /\ OfOrg(l, Q, e) \in SUBSET OfOrg(l, R, e)
      /\ OfUser(l, Q, e) \in SUBSET OfUser(l, R, e)
  BY DEF OfOrg, OfUser
<1>2. /\ Cardinality(OfOrg(l, Q, e)) <= Cardinality(OfOrg(l, R, e))
      /\ Cardinality(OfUser(l, Q, e)) <= Cardinality(OfUser(l, R, e))
  BY <1>1, FewerCount
<1>3. /\ Cardinality(OfOrg(l, Q, e)) \in Nat /\ Cardinality(OfOrg(l, R, e)) \in Nat
      /\ Cardinality(OfUser(l, Q, e)) \in Nat /\ Cardinality(OfUser(l, R, e)) \in Nat
  BY <1>1, ExecsCount
<1> QED
  BY <1>2, <1>3, QueueConstants DEF CapsHold

(* Rows none of which is charged for a resource do not use any of it. *)
LEMMA NothingCharged ==
  ASSUME NEW l \in Loads, NEW r \in Resources, NEW R \in SUBSET Execs, Charged(l, R, r) = {}
  PROVE  CostSum(l, r, R) = 0
<1>1. ASSUME NEW e \in R PROVE l[e].cost[r] = 0
  <2>1. l[e].cost[r] \in Nat
    BY QueueConstants
  <2>2. ~(l[e].cost[r] > 0)
    BY DEF Charged
  <2> QED
    BY <2>1, <2>2
<1> QED
  BY <1>1, ExecsFinite, CostSumZero

LEMMA LessKeepsBudget ==
  ASSUME NEW l \in Loads, NEW R \in SUBSET Execs, NEW Q \in SUBSET R, BudgetHolds(l, R)
  PROVE  BudgetHolds(l, Q)
<1> SUFFICES ASSUME NEW r \in Resources
             PROVE  \/ Budget[r] <= 0 \/ CostSum(l, r, Q) <= Budget[r]
                    \/ Cardinality(Charged(l, Q, r)) = 1
  BY DEF BudgetHolds
<1>1. CostSum(l, r, Q) <= CostSum(l, r, R)
  BY CostSumMonotone, ExecsFinite, LoadsNatural
<1>2. CostSum(l, r, Q) \in Nat /\ CostSum(l, r, R) \in Nat /\ Budget[r] \in Int
  BY LoadsSum, QueueConstants
<1>3. CASE Budget[r] <= 0 \/ CostSum(l, r, R) <= Budget[r]
  BY <1>1, <1>2, <1>3
<1>4. CASE Cardinality(Charged(l, R, r)) = 1 /\ ~(Budget[r] <= 0)
  <2>1. Charged(l, R, r) \in SUBSET Execs /\ Charged(l, Q, r) \in SUBSET Charged(l, R, r)
    BY DEF Charged
  <2>2. Cardinality(Charged(l, Q, r)) <= 1 /\ Cardinality(Charged(l, Q, r)) \in Nat
    BY <2>1, <1>4, FewerCount, ExecsCount
  <2>3. CASE Cardinality(Charged(l, Q, r)) = 0
    <3>1. Charged(l, Q, r) = {}
      BY <2>1, <2>3, ExecsFinite, FS_EmptySet
    <3>2. CostSum(l, r, Q) = 0
      BY <3>1, NothingCharged
    <3> QED
      BY <3>2, <1>2, <1>4
  <2> QED
    BY <2>2, <2>3
<1> QED
  BY <1>3, <1>4 DEF BudgetHolds

(* Starting what may start keeps the caps ... *)
LEMMA StartKeepsCaps ==
  ASSUME NEW l, NEW R \in SUBSET Execs, NEW e \in Execs, CapsHold(l, R), MayStart(l, R, e)
  PROVE  CapsHold(l, R \cup {e})
<1> DEFINE Q == R \cup {e}
<1> SUFFICES ASSUME NEW f \in Q
             PROVE  /\ UserCap > 0 => Cardinality(OfUser(l, Q, f)) <= UserCap
                    /\ OrgCap > 0 /\ l[f].org # NoOrg =>
                          Cardinality(OfOrg(l, Q, f)) <= OrgCap
  BY DEF CapsHold
<1>cap. UserCap \in Int /\ OrgCap \in Int
  BY QueueConstants
<1>sub. OfUser(l, R, e) \in SUBSET Execs /\ OfOrg(l, R, e) \in SUBSET Execs
  BY DEF OfUser, OfOrg
<1>1. UserCap > 0 => Cardinality(OfUser(l, Q, f)) <= UserCap
  <2>1. CASE l[f].user = l[e].user
    <3>1. OfUser(l, Q, f) = OfUser(l, R, e) \cup {e}
      BY <2>1 DEF OfUser
    <3>2. /\ Cardinality(OfUser(l, R, e)) \in Nat
          /\ Cardinality(OfUser(l, R, e) \cup {e}) \in Nat
          /\ Cardinality(OfUser(l, R, e) \cup {e}) <= Cardinality(OfUser(l, R, e)) + 1
      BY <1>sub, OneMore
    <3>3. UserCap <= 0 \/ Cardinality(OfUser(l, R, e)) < UserCap
      BY DEF MayStart
    <3>4. Cardinality(OfUser(l, Q, f)) = Cardinality(OfUser(l, R, e) \cup {e})
      BY <3>1, Zenon
    <3> HIDE DEF Q
    <3> QED
      BY <3>2, <3>3, <3>4, <1>cap
  <2>2. CASE l[f].user # l[e].user
    <3>1. f \in R /\ OfUser(l, Q, f) = OfUser(l, R, f)
      BY <2>2 DEF OfUser
    <3> QED
      BY <3>1 DEF CapsHold
  <2> QED
    BY <2>1, <2>2
<1>2. OrgCap > 0 /\ l[f].org # NoOrg => Cardinality(OfOrg(l, Q, f)) <= OrgCap
  <2>1. CASE l[f].org = l[e].org
    <3>1. OfOrg(l, Q, f) = OfOrg(l, R, e) \cup {e}
      BY <2>1 DEF OfOrg
    <3>2. /\ Cardinality(OfOrg(l, R, e)) \in Nat
          /\ Cardinality(OfOrg(l, R, e) \cup {e}) \in Nat
          /\ Cardinality(OfOrg(l, R, e) \cup {e}) <= Cardinality(OfOrg(l, R, e)) + 1
      BY <1>sub, OneMore
    <3>3. l[f].org = NoOrg \/ OrgCap <= 0 \/ Cardinality(OfOrg(l, R, e)) < OrgCap
      BY <2>1 DEF MayStart
    <3>4. Cardinality(OfOrg(l, Q, f)) = Cardinality(OfOrg(l, R, e) \cup {e})
      BY <3>1, Zenon
    <3> HIDE DEF Q
    <3> QED
      BY <3>2, <3>3, <3>4, <1>cap
  <2>2. CASE l[f].org # l[e].org
    <3>1. f \in R /\ OfOrg(l, Q, f) = OfOrg(l, R, f)
      BY <2>2 DEF OfOrg
    <3> QED
      BY <3>1 DEF CapsHold
  <2> QED
    BY <2>1, <2>2
<1> QED
  BY <1>1, <1>2

(* ... and the budget, or is alone in what it is charged for. *)
LEMMA StartKeepsBudget ==
  ASSUME NEW l \in Loads, NEW R \in SUBSET Execs, NEW e \in Execs, e \notin R,
         BudgetHolds(l, R), FitsBudget(l, R, e)
  PROVE  BudgetHolds(l, R \cup {e})
<1> SUFFICES ASSUME NEW r \in Resources
             PROVE  \/ Budget[r] <= 0 \/ CostSum(l, r, R \cup {e}) <= Budget[r]
                    \/ Cardinality(Charged(l, R \cup {e}, r)) = 1
  BY DEF BudgetHolds
<1>1. R \cup {e} \in SUBSET Execs /\ (R \cup {e}) \ {e} = R
  OBVIOUS
<1>2. CostSum(l, r, R \cup {e}) = l[e].cost[r] + CostSum(l, r, R)
  <2>1. IsFiniteSet(R \cup {e}) /\ Natural(l, r, R \cup {e})
    BY <1>1, ExecsFinite, LoadsNatural
  <2>2. CostSum(l, r, R \cup {e}) = l[e].cost[r] + CostSum(l, r, (R \cup {e}) \ {e})
    BY <2>1, CostSumRemove
  <2> QED
    BY <2>2, <1>1
<1>3. CostSum(l, r, R) \in Nat /\ l[e].cost[r] \in Nat /\ Budget[r] \in Int
  BY LoadsSum, QueueConstants
<1>4. CASE Budget[r] <= 0 \/ CostSum(l, r, R) + l[e].cost[r] <= Budget[r]
  BY <1>2, <1>3, <1>4
<1>5. CASE CostSum(l, r, R) = 0 /\ ~(Budget[r] <= 0)
  <2>1. CASE l[e].cost[r] = 0
    BY <2>1, <1>2, <1>3, <1>5
  <2>2. CASE l[e].cost[r] # 0
    <3>1. ASSUME NEW f \in R PROVE ~(l[f].cost[r] > 0)
      <4>1. CostSum(l, r, R) = l[f].cost[r] + CostSum(l, r, R \ {f})
        BY ExecsFinite, LoadsNatural, CostSumRemove
      <4>2. CostSum(l, r, R \ {f}) \in Nat /\ l[f].cost[r] \in Nat
        BY LoadsSum, QueueConstants
      <4> QED
        BY <4>1, <4>2, <1>5
    <3>2. l[e].cost[r] > 0
      BY <2>2, <1>3
    <3>3. Charged(l, R \cup {e}, r) = {e}
      BY <3>1, <3>2 DEF Charged
    <3> QED
      BY <3>3, FS_Singleton
  <2> QED
    BY <2>1, <2>2
<1> QED
  BY <1>4, <1>5 DEF FitsBudget

----------------------------------------------------------------------------
(* Admission *)

(* What an open claim transaction counted still holds: it may admit the    *)
(* row it picked.                                                          *)
PickedMayStart ==
    \A w \in Workers, e \in Execs : pc[w] = "picked" /\ cur[w] = e =>
        MayStart(load, Running, e) /\ FitsBudget(load, Running, e)

LimitsInv ==
    CapsHold(load, Running) /\ BudgetHolds(load, Running) /\ PickedMayStart

LEMMA InitLimitsInv == Init => LimitsInv
<1> SUFFICES ASSUME Init PROVE LimitsInv
  OBVIOUS
<1>1. Running = {} /\ load \in Loads
  BY DEF Init, Running
<1>2. CapsHold(load, Running)
  BY <1>1 DEF CapsHold
<1>3. ASSUME NEW r \in Resources PROVE Budget[r] <= 0 \/ CostSum(load, r, Running) <= Budget[r]
  <2>1. CostSum(load, r, Running) = 0
    BY <1>1, CostSumZero, FS_EmptySet
  <2> QED
    BY <2>1, QueueConstants
<1>4. BudgetHolds(load, Running)
  BY <1>3 DEF BudgetHolds
<1>5. PickedMayStart
  BY DEF Init, PickedMayStart
<1> QED
  BY <1>2, <1>4, <1>5 DEF LimitsInv

(* Only the commit of a claim makes more executions run, and only a claim  *)
(* opens a transaction.                                                    *)
LEMMA WhatRuns ==
  ASSUME QueueInv, [Next]_vars
  PROVE  /\ load' = load
         /\ Running' \subseteq Running \/ \E w \in Workers : CommitClaim(w)
         /\ \A w \in Workers : pc'[w] = "picked" =>
               \/ pc[w] = "picked" /\ cur'[w] = cur[w]
               \/ PickPending(w)
<1> DEFINE Goal == /\ load' = load
                   /\ Running' \subseteq Running \/ \E w \in Workers : CommitClaim(w)
                   /\ \A w \in Workers : pc'[w] = "picked" =>
                         \/ pc[w] = "picked" /\ cur'[w] = cur[w]
                         \/ PickPending(w)
<1> USE QueueConstants
<1>inv. QueueTypeOK /\ HoldsWhenBusy /\ PickedIsPending
  BY DEF QueueInv
<1>1. ASSUME NEW e \in Execs, Submit(e) PROVE Goal
  BY <1>1, <1>inv DEF Submit, SetStatus, Running, QueueTypeOK, work
<1>2. ASSUME NEW w \in Workers, PickPending(w) PROVE Goal
  BY <1>2, <1>inv DEF PickPending, Running, QueueTypeOK, rows
<1>3. ASSUME NEW w \in Workers, CommitClaim(w) PROVE Goal
  BY <1>3, <1>inv DEF CommitClaim, QueueTypeOK
<1>4. ASSUME NEW w \in Workers, RollbackClaim(w) PROVE Goal
  BY <1>4, <1>inv DEF RollbackClaim, Running, QueueTypeOK, rows
<1>5. ASSUME NEW w \in Workers, Register(w) PROVE Goal
  BY <1>5, <1>inv DEF Register, Finish, Running, QueueTypeOK, rows
<1>6. ASSUME NEW w \in Workers, StartJob(w) PROVE Goal
  BY <1>6, <1>inv DEF StartJob, Finish, Running, QueueTypeOK, rows
<1>7. ASSUME NEW w \in Workers, NEW s \in Ended \cup {"artifact"}, Collect(w, s) PROVE Goal
  BY <1>7, <1>inv DEF Collect, Finish, Running, QueueTypeOK, rows
<1>8. ASSUME NEW w \in Workers, Complete(w) PROVE Goal
  BY <1>8, <1>inv DEF Complete, Release, SetStatus, Running, QueueTypeOK, HoldsWhenBusy, Ended
<1>9. ASSUME NEW e \in Execs, CancelPending(e) PROVE Goal
  BY <1>9, <1>inv DEF CancelPending, SetStatus, Running, QueueTypeOK, work
<1>10. ASSUME NEW e \in Execs, NEW r \in Replicas, CancelRunning(e, r) PROVE Goal
  BY <1>10, <1>inv DEF CancelRunning, Running, QueueTypeOK, rows
<1>11. ASSUME NEW r \in Replicas, ReapScan(r) \/ ReapTeardown(r) PROVE Goal
  BY <1>11 DEF ReapScan, ReapTeardown, Running, rows, work
<1>12. ASSUME NEW r \in Replicas, ReapFail(r) PROVE Goal
  BY <1>12, <1>inv DEF ReapFail, SetStatus, Running, QueueTypeOK, work
<1>13. ASSUME NEW e \in Execs, NEW a \in Attempt, NEW j \in Job, JobStep(e, a, j) PROVE Goal
  BY <1>13 DEF JobStep, Running, rows, work
<1>14. ASSUME NEW r \in Replicas, Crash(r) PROVE Goal
  BY <1>14, <1>inv DEF Crash, Release, Running, QueueTypeOK, rows
<1>15. ASSUME NEW e \in Execs, ReadForCancel(e) \/ PassDeadline(e) PROVE Goal
  BY <1>15 DEF ReadForCancel, PassDeadline, Running, rows, work
<1>16. ASSUME UNCHANGED vars PROVE Goal
  BY <1>16 DEF vars, Running, rows, work
<1> HIDE DEF Goal
<1>17. Goal
  BY <1>1, <1>2, <1>3, <1>4, <1>5, <1>6, <1>7, <1>8, <1>9, <1>10, <1>11, <1>12, <1>13,
     <1>14, <1>15, <1>16
  DEF Next, Forge, Worker, Reaper
<1> QED
  BY <1>17 DEF Goal

(* A row is picked only when it may start. *)
LEMMA EligibleMayStart ==
  ASSUME NEW e \in Execs, Eligible(e)
  PROVE  MayStart(load, Running, e) /\ FitsBudget(load, Running, e)
<1>1. MayStart(load, Running, e)
  BY DEF Eligible, UnderCaps, MayStart, UserOf, OrgOf, OfUser, OfOrg
<1>2. \A r \in Resources : Used(r) = CostSum(load, r, Running)
  BY Zenon DEF Used, CostSum, Cost
<1>3. FitsBudget(load, Running, e)
  BY <1>2 DEF Eligible, Fits, FitsBudget, Cost
<1> QED
  BY <1>1, <1>3

LEMMA NextLimitsInv == QueueInv /\ LimitsInv /\ [Next]_vars => LimitsInv'
<1> SUFFICES ASSUME QueueInv, LimitsInv, [Next]_vars PROVE LimitsInv'
  OBVIOUS
<1>inv. /\ QueueTypeOK /\ HoldsWhenBusy /\ OneClaim /\ PickedIsPending
        /\ CapsHold(load, Running) /\ BudgetHolds(load, Running) /\ PickedMayStart
  BY DEF QueueInv, LimitsInv
<1>load. load' = load /\ load \in Loads /\ Running \in SUBSET Execs
  BY <1>inv, WhatRuns DEF QueueTypeOK, Running
<1>1. ASSUME Running' \subseteq Running PROVE LimitsInv'
  <2>1. Running' \in SUBSET Running
    BY <1>1
  <2>2. CapsHold(load, Running')
    BY <2>1, <1>inv, <1>load, LessKeepsCaps
  <2>3. BudgetHolds(load, Running')
    BY <2>1, <1>inv, <1>load, LessKeepsBudget
  <2>4. ASSUME NEW w \in Workers, NEW e \in Execs, pc'[w] = "picked", cur'[w] = e
        PROVE  MayStart(load, Running', e) /\ FitsBudget(load, Running', e)
    <3>1. MayStart(load, Running, e) /\ FitsBudget(load, Running, e)
      <4>1. CASE pc[w] = "picked" /\ cur'[w] = cur[w]
        BY <4>1, <2>4, <1>inv DEF PickedMayStart
      <4>2. CASE PickPending(w)
        <5>1. Eligible(e)
          BY <4>2, <2>4, <1>inv DEF PickPending, QueueTypeOK
        <5> QED
          BY <5>1, EligibleMayStart
      <4> QED
        BY <4>1, <4>2, <2>4, WhatRuns
    <3> QED
      BY <3>1, <2>1, <1>load, LessMayStart
  <2> QED
    BY <2>2, <2>3, <2>4, <1>load DEF LimitsInv, PickedMayStart
<1>2. ASSUME NEW w \in Workers, CommitClaim(w) PROVE LimitsInv'
  <2> DEFINE e == cur[w]
  <2>1. e \in Execs /\ e \notin Running
    BY <1>2, <1>inv DEF CommitClaim, HoldsWhenBusy, QueueTypeOK, PickedIsPending, Running
  <2>2. MayStart(load, Running, e) /\ FitsBudget(load, Running, e)
    BY <1>2, <1>inv, <2>1 DEF CommitClaim, PickedMayStart
  <2>3. Running' = Running \cup {e}
    BY <1>2, <1>inv, <2>1 DEF CommitClaim, SetStatus, QueueTypeOK, Running
  <2> HIDE DEF e
  <2>4. CapsHold(load, Running')
    BY <2>1, <2>2, <2>3, <1>inv, <1>load, StartKeepsCaps
  <2>5. BudgetHolds(load, Running')
    BY <2>1, <2>2, <2>3, <1>inv, <1>load, StartKeepsBudget
  <2>6. \A v \in Workers : pc'[v] # "picked"
    BY <1>2, <1>inv DEF CommitClaim, OneClaim, QueueTypeOK
  <2> QED
    BY <2>4, <2>5, <2>6, <1>load DEF LimitsInv, PickedMayStart
<1> QED
  BY <1>1, <1>2, WhatRuns

(* What runs stays within the user cap, the org cap and the cluster budget, *)
(* but for one execution larger than the budget that was admitted while     *)
(* nothing else was charged, however the claims of several workers and     *)
(* replicas interleave with completions, cancels and the reaper            *)
(* (claimPendingExecution under claimSchedulerLockKey).                    *)
THEOREM AdmissionWithinLimits == Spec => []WithinLimits
<1>1. LimitsInv => WithinLimits
  <2> SUFFICES ASSUME LimitsInv PROVE WithinLimits
    OBVIOUS
  <2>1. CapsRespected
    BY DEF LimitsInv, CapsHold, CapsRespected, UserOf, OrgOf, OfUser, OfOrg
  <2>2. \A r \in Resources : Used(r) = CostSum(load, r, Running)
    BY Zenon DEF Used, CostSum, Cost
  <2>3. BudgetRespected
    BY <2>2 DEF LimitsInv, BudgetHolds, BudgetRespected, Charged, Cost
  <2> QED
    BY <2>1, <2>3 DEF WithinLimits
<1>2. Init => LimitsInv
  BY InitLimitsInv
<1> QED
  BY <1>1, <1>2, NextLimitsInv, QueueInvariant, PTL DEF Spec

(* The same with workflow steps as clients. *)
THEOREM StepsWithinLimits == StepSpec => []WithinLimits
  BY StepsUseTheQueue, AdmissionWithinLimits, PTL

----------------------------------------------------------------------------
(* Sandbox leases *)

Sweep == [at : {"asleep", "listed", "expiring", "deleting"}, known : SUBSET Leases,
          idle : SUBSET Leases, expired : SUBSET Leases, todo : SUBSET Leases,
          victim : Leases \cup {Nobody}, orphans : SUBSET Leases]

\* The type invariant of ForgeLease.
LeaseTypeOK ==
    /\ row \in [Leases -> {"none"} \cup Active \cup EndedLease]
    /\ creator \in [Leases -> {"none", "counted", "done"}]
    /\ starter \in [Leases -> {"none", "boot", "wait", "up", "broken", "lostRace"}]
    /\ releaser \in [Leases -> {"none", "won", "done"}]
    /\ cmd \in [Leases -> {"none", "pending", "running", "ended"}]
    /\ pod \subseteq Leases /\ worked \subseteq Leases /\ missed \subseteq Leases
    /\ idle \subseteq Leases /\ late \subseteq Leases /\ old \subseteq Leases
    /\ sweep \in Sweep

\* A lease without a row has neither sandbox nor starter: both follow the
\* insert, which happens once.
RowFirst ==
    \A l \in Leases :
        /\ creator[l] # "done" => row[l] = "none"
        /\ row[l] = "none" => (l \notin pod /\ starter[l] = "none")

\* The starter of a lease is gone once the lease is ready, and it tears the
\* sandbox down only under a lease that has ended.
StarterYields ==
    \A l \in Leases :
        /\ row[l] = "ready" => starter[l] = "none"
        /\ starter[l] = "lostRace" => row[l] \in EndedLease

\* What the starter saw running is still there while the lease boots.
UpHasSandbox ==
    \A l \in Leases \ missed : (starter[l] = "up" /\ row[l] = "starting") => l \in pod

\* Holder and sweep stop a sandbox only after they ended its row.
StopsEnded ==
    /\ \A l \in Leases : releaser[l] = "won" => row[l] \in EndedLease
    /\ sweep.victim # Nobody => row[sweep.victim] \in EndedLease

\* Until the sweep lists the pods, each active lease that it has not missed is
\* one it knows or one it has still to end.
SweepKnows ==
    /\ sweep.at = "listed" => \A l \in Held \ missed : l \in sweep.known
    /\ sweep.at = "expiring" => \A l \in Held \ missed : l \in sweep.known \cup sweep.todo

\* From then on the pods it deletes belong to leases that have ended.
OrphansEnded ==
    sweep.at = "deleting" => \A l \in sweep.orphans \ missed : row[l] \in EndedLease

SandboxInv ==
    /\ LeaseTypeOK /\ RowFirst /\ StarterYields /\ UpHasSandbox /\ StopsEnded
    /\ SweepKnows /\ OrphansEnded /\ ReadyHasSandbox

\* A lease the sweep is to end although a command has been in it all along is
\* past its lifetime or its start timeout: idleness alone condemns none.
ExpiredForCause ==
    /\ worked \subseteq BusyLeases
    /\ sweep.at = "listed" => sweep.expired \subseteq old \cup late
    /\ sweep.at = "expiring" => sweep.todo \cap worked \subseteq old \cup late

\* Type correctness: every step of ForgeLease keeps each variable in its type.
LEMMA LeaseTypeStep ==
    ASSUME LeaseTypeOK, [LeaseNext]_leaseVars
    PROVE  LeaseTypeOK'
<1> USE DEF LeaseTypeOK, Active, EndedLease, LeaseFault, life, users, ghost
<1>1. ASSUME NEW l \in Leases, CheckQuota(l) \/ Insert(l) PROVE LeaseTypeOK'
  BY <1>1 DEF CheckQuota, Insert
<1>2. ASSUME NEW l \in Leases, Starter(l) PROVE LeaseTypeOK'
  <2>1. CASE CreatePod(l) BY <2>1 DEF CreatePod
  <2>2. CASE WaitReady(l) BY <2>2 DEF WaitReady
  <2>3. CASE FailLease(l) BY <2>3 DEF FailLease, FinishLease
  <2>4. CASE MarkReady(l) BY <2>4 DEF MarkReady, StillStarting
  <2>5. CASE StopAfterLostRace(l) BY <2>5 DEF StopAfterLostRace
  <2> QED BY <1>2, <2>1, <2>2, <2>3, <2>4, <2>5 DEF Starter
<1>3. ASSUME NEW l \in Leases,
             SubmitCommand(l) \/ StartCommand(l) \/ CompleteCommand(l) \/ TouchLease(l)
      PROVE  LeaseTypeOK'
  BY <1>3 DEF SubmitCommand, StartCommand, CompleteCommand, TouchLease
<1>4. ASSUME NEW l \in Leases, ReleaseRow(l) \/ StopSandbox(l) PROVE LeaseTypeOK'
  BY <1>4 DEF ReleaseRow, StopSandbox, FinishLease, StopDue
<1>5. ASSUME NEW l \in Leases, PassIdle(l) \/ PassStart(l) \/ PassLifetime(l)
      PROVE  LeaseTypeOK'
  BY <1>5 DEF PassIdle, PassStart, PassLifetime, Held
<1>6. CASE ReapLeases
  <2>1. CASE ReapList
    <3>1. sweep' \in Sweep BY <2>1 DEF ReapList, Sweep, Asleep, Held, NeverStarted
    <3> QED BY <2>1, <3>1 DEF ReapList, BusyLeases
  <2>2. CASE ReapStop BY <2>2 DEF ReapStop, Sweep
  <2>3. CASE ReapOrphans BY <2>3 DEF ReapOrphans, Sweep, Asleep, Orphans
  <2>4. ASSUME NEW b \in BOOLEAN, ReapBusy(b) PROVE LeaseTypeOK'
    <3>1. sweep' \in Sweep BY <2>4 DEF ReapBusy, Sweep, IdleVictims, KnownAfter
    <3> QED BY <2>4, <3>1 DEF ReapBusy
  <2>5. ASSUME NEW l \in Leases, ReapRelease(l) PROVE LeaseTypeOK'
    <3>1. sweep' \in Sweep
      <4>1. CASE sweep' = [sweep EXCEPT !.victim = l, !.todo = @ \ {l}] BY <4>1 DEF Sweep
      <4>2. CASE sweep' = [sweep EXCEPT !.todo = @ \ {l}] BY <4>2 DEF Sweep
      <4> QED BY <2>5, <4>1, <4>2 DEF ReapRelease
    <3>2. row' \in [Leases -> {"none"} \cup Active \cup EndedLease]
      BY <2>5 DEF ReapRelease, FinishLease
    <3> QED BY <2>5, <3>1, <3>2 DEF ReapRelease, FinishLease
  <2>6. ASSUME NEW l \in Leases, ReapDelete(l) PROVE LeaseTypeOK'
    <3>1. sweep' \in Sweep BY <2>6 DEF ReapDelete, Sweep, Asleep
    <3> QED BY <2>6, <3>1 DEF ReapDelete
  <2> QED BY <1>6, <2>1, <2>2, <2>3, <2>4, <2>5, <2>6 DEF ReapLeases
<1>7. CASE Restart BY <1>7 DEF Restart, Sweep, Asleep
<1>8. CASE UNCHANGED leaseVars BY <1>8 DEF leaseVars
<1> QED BY <1>1, <1>2, <1>3, <1>4, <1>5, <1>6, <1>7, <1>8 DEF LeaseNext

\* What is not the sweep's: creating, booting, using and releasing a lease, and
\* time, keep the invariant. Only the row of the lease at hand moves, and a
\* pod goes only when its starter or its holder ended.
LEMMA LeaseUserStep ==
    ASSUME SandboxInv, LeaseTypeOK', NEW l \in Leases,
           \/ CheckQuota(l) \/ Insert(l) \/ Starter(l)
           \/ SubmitCommand(l) \/ StartCommand(l) \/ CompleteCommand(l) \/ TouchLease(l)
           \/ ReleaseRow(l) \/ StopSandbox(l)
           \/ PassIdle(l) \/ PassStart(l) \/ PassLifetime(l)
    PROVE  SandboxInv'
<1> USE DEF SandboxInv, RowFirst, StarterYields, UpHasSandbox, StopsEnded, SweepKnows,
            OrphansEnded, ReadyHasSandbox, Held, Active, EndedLease
<1> USE DEF LeaseTypeOK, Sweep, life, users, ghost
<1>1. CASE CheckQuota(l) BY <1>1 DEF CheckQuota
<1>2. CASE Insert(l) BY <1>2 DEF Insert
<1>3. CASE Starter(l)
  <2>1. CASE CreatePod(l) BY <2>1 DEF CreatePod
  <2>2. CASE WaitReady(l) BY <2>2 DEF WaitReady
  <2>3. CASE FailLease(l) BY <2>3 DEF FailLease, FinishLease
  <2>4. CASE MarkReady(l) BY <2>4 DEF MarkReady, StillStarting
  <2>5. CASE StopAfterLostRace(l) BY <2>5 DEF StopAfterLostRace
  <2> QED BY <1>3, <2>1, <2>2, <2>3, <2>4, <2>5 DEF Starter
<1>4. CASE SubmitCommand(l) BY <1>4 DEF SubmitCommand
<1>5. CASE StartCommand(l) BY <1>5 DEF StartCommand
<1>6. CASE CompleteCommand(l) BY <1>6 DEF CompleteCommand
<1>7. CASE TouchLease(l) BY <1>7 DEF TouchLease
<1>8. CASE ReleaseRow(l) BY <1>8 DEF ReleaseRow, FinishLease
<1>9. CASE StopSandbox(l) BY <1>9 DEF StopSandbox, StopDue
<1>10. CASE PassIdle(l) \/ PassStart(l) \/ PassLifetime(l)
  BY <1>10 DEF PassIdle, PassStart, PassLifetime
<1> QED BY <1>1, <1>2, <1>3, <1>4, <1>5, <1>6, <1>7, <1>8, <1>9, <1>10

\* A sweep begins by listing the leases that are held.
LEMMA SweepListed ==
    ASSUME ReapList
    PROVE  /\ UNCHANGED <<row, pod, creator, starter, releaser, missed>>
           /\ sweep'.at = "listed" /\ sweep'.known = Held /\ sweep'.victim = Nobody
BY DEF ReapList, Asleep

\* The sweep keeps it: it judges by what it read, and what moved since then is
\* either known to it, ended, or counted as missed.
LEMMA LeaseSweepStep ==
    ASSUME SandboxInv, LeaseTypeOK', ReapLeases \/ Restart
    PROVE  SandboxInv'
<1> USE DEF SandboxInv, RowFirst, StarterYields, UpHasSandbox, StopsEnded, SweepKnows,
            OrphansEnded, ReadyHasSandbox, Held, Active, EndedLease
<1> USE DEF LeaseTypeOK, Sweep, life, users, ghost
<1> USE LeaseConstants
<1>1. CASE ReapList
  <2>1. /\ UNCHANGED <<row, pod, creator, starter, releaser, missed>>
        /\ sweep'.at = "listed" /\ sweep'.known = Held /\ sweep'.victim = Nobody
    BY <1>1, SweepListed
  <2>2. RowFirst' /\ StarterYields' /\ UpHasSandbox' /\ ReadyHasSandbox'
    BY <2>1
  <2>3. StopsEnded' /\ SweepKnows' /\ OrphansEnded'
    BY <2>1
  <2> QED BY <2>2, <2>3
<1>2. CASE ReapStop BY <1>2 DEF ReapStop
<1>3. CASE ReapOrphans
  <2>1. CASE Orphans = {} BY <1>3, <2>1 DEF ReapOrphans, Asleep
  <2>2. CASE Orphans # {} BY <1>3, <2>2 DEF ReapOrphans, Orphans
  <2> QED BY <2>1, <2>2
<1>4. ASSUME NEW b \in BOOLEAN, ReapBusy(b) PROVE SandboxInv'
  BY <1>4 DEF ReapBusy, KnownAfter
<1>5. ASSUME NEW l \in Leases, ReapRelease(l) PROVE SandboxInv'
  <2>1. CASE FinishLease(l, "stopped") /\ sweep' = [sweep EXCEPT !.victim = l, !.todo = @ \ {l}]
             /\ missed' = missed
    BY <1>5, <2>1 DEF ReapRelease, FinishLease
  <2>2. CASE row[l] \notin Active /\ sweep' = [sweep EXCEPT !.todo = @ \ {l}]
             /\ UNCHANGED <<row, missed>>
    BY <1>5, <2>2 DEF ReapRelease
  <2>3. CASE missed' = missed \cup {l} /\ sweep' = [sweep EXCEPT !.todo = @ \ {l}]
             /\ UNCHANGED row
    BY <1>5, <2>3 DEF ReapRelease
  <2> QED BY <1>5, <2>1, <2>2, <2>3 DEF ReapRelease
<1>6. ASSUME NEW l \in Leases, ReapDelete(l) PROVE SandboxInv'
  <2>1. CASE sweep.orphans = {l} BY <1>6, <2>1 DEF ReapDelete, Asleep
  <2>2. CASE sweep.orphans # {l} BY <1>6, <2>2 DEF ReapDelete
  <2> QED BY <2>1, <2>2
<1>7. CASE Restart BY <1>7 DEF Restart, Asleep
<1> QED BY <1>1, <1>2, <1>3, <1>4, <1>5, <1>6, <1>7 DEF ReapLeases

\* ForgeLease keeps every variable in its type, whatever the leases and bounds.
THEOREM LeaseTypeCorrect == LeaseSpec => []LeaseTypeOK
<1>1. LeaseInit => LeaseTypeOK
  BY DEF LeaseInit, LeaseTypeOK, Sweep, Asleep, Active, EndedLease
<1>2. LeaseTypeOK /\ [LeaseNext]_leaseVars => LeaseTypeOK' BY LeaseTypeStep
<1> QED BY <1>1, <1>2, PTL DEF LeaseSpec

\* A ready lease has its sandbox (releaseLease ends the row before it stops the
\* sandbox; markLeaseReady is guarded on starting; reapLeases lists the rows
\* before the pods), for any number of leases and failures.
THEOREM ReadyLeaseHasSandbox == LeaseSpec => []ReadyHasSandbox
<1>1. LeaseInit => SandboxInv
  BY LeaseConstants DEF LeaseInit, SandboxInv, LeaseTypeOK, RowFirst, StarterYields, UpHasSandbox,
     StopsEnded, SweepKnows, OrphansEnded, ReadyHasSandbox, Held, Sweep, Asleep, Active, EndedLease
<1>2. SandboxInv /\ [LeaseNext]_leaseVars => SandboxInv'
  <2> SUFFICES ASSUME SandboxInv, [LeaseNext]_leaseVars PROVE SandboxInv' OBVIOUS
  <2>1. LeaseTypeOK' BY LeaseTypeStep DEF SandboxInv
  <2>2. CASE UNCHANGED leaseVars
    BY <2>2 DEF leaseVars, life, users, ghost, SandboxInv, LeaseTypeOK, RowFirst, StarterYields,
       UpHasSandbox, StopsEnded, SweepKnows, OrphansEnded, ReadyHasSandbox, Held
  <2>3. CASE ReapLeases \/ Restart BY <2>1, <2>3, LeaseSweepStep
  <2> QED BY <2>1, <2>2, <2>3, LeaseUserStep DEF LeaseNext
<1>3. SandboxInv => ReadyHasSandbox BY DEF SandboxInv
<1> QED BY <1>1, <1>2, <1>3, PTL DEF LeaseSpec

\* Expiry for cause, step by step: idle leases that are busy are forgiven at
\* the one query (leaseExpiryReason), and a command that ends leaves "worked".
LEMMA ForCauseStep ==
    ASSUME LeaseTypeOK, ExpiredForCause, [LeaseNext]_leaseVars
    PROVE  ExpiredForCause'
<1> USE DEF ExpiredForCause, BusyLeases, LeaseTypeOK, Sweep, life, users, ghost
<1>1. ASSUME NEW l \in Leases,
             \/ CheckQuota(l) \/ Insert(l) \/ Starter(l) \/ ReleaseRow(l) \/ StopSandbox(l)
             \/ PassIdle(l) \/ PassStart(l) \/ PassLifetime(l)
      PROVE  ExpiredForCause'
  <2>1. /\ UNCHANGED <<cmd, worked, sweep>>
        /\ late \subseteq late' /\ old \subseteq old'
    BY <1>1 DEF CheckQuota, Insert, Starter, CreatePod, WaitReady, FailLease, MarkReady,
       StopAfterLostRace, ReleaseRow, StopSandbox, PassIdle, PassStart, PassLifetime
  <2> QED BY <2>1
<1>2. ASSUME NEW l \in Leases,
             SubmitCommand(l) \/ StartCommand(l) \/ CompleteCommand(l) \/ TouchLease(l)
      PROVE  ExpiredForCause'
  <2>1. CASE SubmitCommand(l) BY <2>1 DEF SubmitCommand
  <2>2. CASE StartCommand(l) BY <2>2 DEF StartCommand
  <2>3. CASE CompleteCommand(l) BY <2>3 DEF CompleteCommand
  <2>4. CASE TouchLease(l) BY <2>4 DEF TouchLease
  <2> QED BY <1>2, <2>1, <2>2, <2>3, <2>4
<1>3. CASE ReapList
  BY <1>3 DEF ReapList, Asleep, NeverStarted, Held
<1>4. CASE ReapStop BY <1>4 DEF ReapStop
<1>5. CASE ReapOrphans BY <1>5 DEF ReapOrphans, Asleep
<1>6. ASSUME NEW b \in BOOLEAN, ReapBusy(b) PROVE ExpiredForCause'
  BY <1>6 DEF ReapBusy, IdleVictims
<1>7. ASSUME NEW l \in Leases, ReapRelease(l) PROVE ExpiredForCause'
  <2>1. /\ sweep'.at = "expiring" /\ sweep'.todo \subseteq sweep.todo
        /\ sweep.at = "expiring" /\ UNCHANGED <<cmd, worked, late, old>>
    BY <1>7 DEF ReapRelease
  <2> QED BY <2>1
<1>8. ASSUME NEW l \in Leases, ReapDelete(l) PROVE ExpiredForCause'
  BY <1>8 DEF ReapDelete, Asleep
<1>9. CASE Restart BY <1>9 DEF Restart, Asleep
<1>10. CASE UNCHANGED leaseVars BY <1>10 DEF leaseVars
<1> QED BY <1>1, <1>2, <1>3, <1>4, <1>5, <1>6, <1>7, <1>8, <1>9, <1>10 DEF LeaseNext, ReapLeases

\* A step that stops an active lease is its holder's release or the sweep's
\* turn at it.
LEMMA WhoStops ==
    ASSUME LeaseTypeOK, [LeaseNext]_leaseVars,
           NEW l \in Leases, row[l] \in Active, row'[l] = "stopped"
    PROVE  ReleaseRow(l) \/ ReapRelease(l)
<1> USE DEF LeaseTypeOK, Active, EndedLease
<1>1. row'[l] # row[l] OBVIOUS
<1>2. ASSUME NEW k \in Leases, Starter(k) PROVE FALSE
  <2>1. CASE FailLease(k) BY <1>1, <2>1 DEF FailLease, FinishLease
  <2>2. CASE MarkReady(k) BY <1>1, <2>2 DEF MarkReady
  <2> QED BY <1>1, <1>2, <2>1, <2>2 DEF Starter, CreatePod, WaitReady, StopAfterLostRace
<1>3. ASSUME NEW k \in Leases,
             \/ CheckQuota(k) \/ SubmitCommand(k) \/ StartCommand(k) \/ CompleteCommand(k)
             \/ TouchLease(k) \/ StopSandbox(k) \/ PassIdle(k) \/ PassStart(k)
             \/ PassLifetime(k) \/ ReapDelete(k)
      PROVE FALSE
  BY <1>1, <1>3 DEF CheckQuota, SubmitCommand, StartCommand, CompleteCommand, TouchLease,
     StopSandbox, PassIdle, PassStart, PassLifetime, ReapDelete
<1>4. ASSUME NEW k \in Leases, Insert(k) PROVE FALSE
  BY <1>1, <1>4 DEF Insert
<1>5. ASSUME NEW k \in Leases, ReleaseRow(k) PROVE k = l
  BY <1>1, <1>5 DEF ReleaseRow, FinishLease
<1>6. ASSUME NEW k \in Leases, ReapRelease(k) PROVE k = l
  BY <1>1, <1>6 DEF ReapRelease, FinishLease
<1>7. ~(\/ ReapList \/ ReapStop \/ ReapOrphans \/ (\E b \in BOOLEAN : ReapBusy(b)) \/ Restart
        \/ UNCHANGED leaseVars)
  BY <1>1 DEF ReapList, ReapStop, ReapOrphans, ReapBusy, Restart, leaseVars
<1> QED BY <1>2, <1>3, <1>4, <1>5, <1>6, <1>7 DEF LeaseNext, ReapLeases

\* No sweep ends a lease as idle while a command has been in it since before
\* the sweep began: what it stops is past its lifetime or its start timeout.
THEOREM WorkingLeaseNotReaped == LeaseSpec => WorkingLeaseKept
<1> DEFINE Inv == LeaseTypeOK /\ ExpiredForCause
           Kept == \A l \in worked \cap worked' : (row[l] \in Active /\ row'[l] = "stopped") =>
                      l \in old \/ l \in late \/ releaser'[l] # releaser[l]
<1>1. LeaseInit => Inv
  BY DEF LeaseInit, LeaseTypeOK, ExpiredForCause, Sweep, Asleep, Active, EndedLease
<1>2. Inv /\ [LeaseNext]_leaseVars => Inv' BY LeaseTypeStep, ForCauseStep
<1>3. Inv /\ [LeaseNext]_leaseVars => [Kept]_leaseVars
  <2> SUFFICES ASSUME Inv, [LeaseNext]_leaseVars,
                      NEW l \in worked \cap worked', row[l] \in Active, row'[l] = "stopped"
               PROVE  l \in old \/ l \in late \/ releaser'[l] # releaser[l]
    OBVIOUS
  <2>0. l \in Leases BY DEF LeaseTypeOK
  <2>1. CASE ReleaseRow(l) BY <2>0, <2>1 DEF ReleaseRow, LeaseTypeOK
  <2>2. CASE ReapRelease(l) BY <2>2 DEF ReapRelease, ExpiredForCause
  <2> QED BY <2>0, <2>1, <2>2, WhoStops
<1> QED BY <1>1, <1>2, <1>3, PTL DEF LeaseSpec, WorkingLeaseKept

=============================================================================
