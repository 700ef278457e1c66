------------------------- MODULE WorkflowRun_proofs -------------------------
(***************************************************************************)
(* Theorems about the workflows service, for every value of the constants: *)
(* first the life of a run (WorkflowRun), then the traversal of its graph  *)
(* (RunGraph). The two share a module because they are parts of one        *)
(* service; neither proof uses a fact about the other component.           *)
(***************************************************************************)
EXTENDS WorkflowRun, RunGraph, TLAPS

----------------------------------------------------------------------------
(* Types *)

\* A minted session is one of the sessions there can be.
LEMMA MintType == TypeOK /\ Mint => minted' \in Sessions /\ minted' \in 0..MaxSessions
BY RunConstants DEF TypeOK, Mint, Sessions

\* Every action keeps every variable in its type.
LEMMA TypeStep == TypeOK /\ [Next]_vars => TypeOK'
<1> SUFFICES ASSUME TypeOK, [Next]_vars PROVE TypeOK'
    OBVIOUS
<1> USE RunConstants DEF TypeOK
<1> USE DEF rowVars, gateVars, workerVars, rotateVars, deciderVars, cancelVars,
            sessionVars, faultVars, Actors, Sessions, SessionOrNull, NoSession,
            Terminal, RunStatus, GateStatus, Mint, Revoke, UpdateToken
<1>1. CASE StartWorkflowRun
  <2>1. minted' \in Sessions /\ minted' \in 0..MaxSessions
    BY <1>1, MintType DEF StartWorkflowRun
  <2>2. status' \in RunStatus /\ token' \in SessionOrNull /\ runSession' \in SessionOrNull
    BY <1>1, <2>1 DEF StartWorkflowRun
  <2>3. revoked' \subseteq Sessions
    <3>1. UNCHANGED revoked \/ Revoke(minted')
      BY <1>1 DEF StartWorkflowRun
    <3>2. CASE Revoke(minted')
      BY <2>1, <3>2
    <3> QED BY <3>1, <3>2
  <2> QED BY <1>1, <2>1, <2>2, <2>3 DEF StartWorkflowRun
<1>2. ASSUME NEW w \in Workers, Dequeue(w) PROVE TypeOK'
  BY <1>2 DEF Dequeue, StampLease, WorkerPC, Owning
<1>3. ASSUME NEW w \in Workers, WorkerStep(w) PROVE TypeOK'
  <2>1. CASE FailRun(w)
    BY <2>1 DEF FailRun, Complete, WorkerPC
  <2>2. CASE Begin(w)
    BY <2>2 DEF Begin, WorkerPC, Owning, CtxState, RotatePC
  <2>3. ASSUME NEW outcome \in Terminal \cup {"paused"}, GraphReturns(w, outcome)
        PROVE TypeOK'
    BY <2>3 DEF GraphReturns, WorkerPC, Owning
  <2>4. CASE ParkGate(w)
    BY SMTT(20), <2>4 DEF ParkGate, WorkerPC, Owning
  <2>5. CASE PauseForApproval(w)
    BY <2>5 DEF PauseForApproval, PausedStatus, WorkerPC, Owning
  <2>6. CASE CompleteRun(w)
    BY <2>6 DEF CompleteRun, Complete, WorkerPC
  <2>7. CASE RevokeRunToken(w)
    <3>1. revoked' \subseteq Sessions
      BY <2>7 DEF RevokeRunToken
    <3>2. wpc' \in [Workers -> WorkerPC] /\ wsid' \in [Workers -> SessionOrNull]
      BY <2>7 DEF RevokeRunToken, WorkerPC
    <3> QED BY <2>7, <3>1, <3>2 DEF RevokeRunToken
  <2>8. CASE Exit(w)
    BY <2>8 DEF Exit, WorkerPC, CtxState, RotatePC
  <2> QED BY <1>3, <2>1, <2>2, <2>3, <2>4, <2>5, <2>6, <2>7, <2>8 DEF WorkerStep
<1>4. ASSUME NEW w \in Workers, RotateStep(w) PROVE TypeOK'
  <2>1. CASE RotateMint(w)
    <3>1. minted' \in Sessions /\ minted' \in 0..MaxSessions
      BY <2>1, MintType DEF RotateMint
    <3>2. rsid' \in [Workers -> SessionOrNull] /\ rpc' \in [Workers -> RotatePC]
      BY SMTT(20), <2>1, <3>1 DEF RotateMint, RotatePC
    <3>3. revoked' \subseteq Sessions
      <4>1. UNCHANGED revoked \/ Revoke(minted')
        BY <2>1 DEF RotateMint
      <4>2. CASE Revoke(minted')
        BY <3>1, <4>2
      <4> QED BY <4>1, <4>2
    <3> QED BY <2>1, <3>1, <3>2, <3>3 DEF RotateMint
  <2>2. CASE RotateStore(w)
    <3>0. rpc' \in [Workers -> RotatePC] /\ rsid' \in [Workers -> SessionOrNull]
      BY <2>2 DEF RotateStore, RotatePC
    <3>1. token' \in SessionOrNull /\ runSession' \in SessionOrNull
      BY <2>2 DEF RotateStore
    <3>2. revoked' \subseteq Sessions
      <4>1. UNCHANGED revoked \/ Revoke(rsid[w])
        BY <2>2 DEF RotateStore
      <4>2. CASE Revoke(rsid[w])
        BY <4>2
      <4> QED BY <4>1, <4>2
    <3> QED BY <2>2, <3>0, <3>1, <3>2 DEF RotateStore
  <2>3. CASE RotateSwap(w)
    BY <2>3 DEF RotateSwap, ReplacedSession, RotatePC
  <2>4. CASE RotateStop(w)
    BY <2>4 DEF RotateStop, RotatePC
  <2>5. ASSUME NEW s \in Sessions, RetireRotated(w, s) PROVE TypeOK'
    BY <2>5 DEF RetireRotated
  <2> QED BY <1>4, <2>1, <2>2, <2>3, <2>4, <2>5 DEF RotateStep
<1>5. ASSUME NEW w \in Workers, DeadlineFires(w) PROVE TypeOK'
  BY <1>5 DEF DeadlineFires, CtxState
<1>6. ASSUME NEW d \in Deciders, DeciderStep(d) PROVE TypeOK'
  <2> USE DEF DeciderPC
  <2>1. ASSUME NEW kind \in {"approve", "reject"}, LoadRun(d, kind) PROVE TypeOK'
    BY <2>1 DEF LoadRun
  <2>2. ASSUME NEW g \in Gates, SelectApprovalGate(d, g) PROVE TypeOK'
    BY <2>2 DEF SelectApprovalGate
  <2>3. CASE GiveUp(d)
    BY <2>3 DEF GiveUp, DeciderDone
  <2>4. CASE MintForResume(d)
    BY <2>4 DEF MintForResume
  <2>5. CASE StoreForResume(d)
    <3>1. token' \in SessionOrNull /\ runSession' \in SessionOrNull
      BY <2>5 DEF StoreForResume
    <3>2. revoked' \subseteq Sessions
      <4>1. UNCHANGED revoked \/ Revoke(dnew[d])
        BY <2>5 DEF StoreForResume
      <4>2. CASE Revoke(dnew[d])
        BY <4>2
      <4> QED BY <4>1, <4>2
    <3> QED BY <2>5, <3>1, <3>2 DEF StoreForResume, DeciderDone
  <2>6. CASE LockGate(d)
    BY <2>6 DEF LockGate
  <2>7. CASE CountRemaining(d)
    BY <2>7 DEF CountRemaining
  <2>8. CASE ResumeAfterApproval(d)
    BY <2>8 DEF ResumeAfterApproval, Unlock, InFlight
  <2>9. CASE SweepSiblings(d)
    BY <2>9 DEF SweepSiblings
  <2>10. CASE DeadlockVictim(d)
    BY <2>10 DEF DeadlockVictim, Unlock, DeciderDone
  <2>11. CASE RejectAfterApproval(d)
    BY <2>11 DEF RejectAfterApproval, Unlock
  <2>12. CASE RetireOld(d)
    BY <2>12 DEF RetireOld, DeciderDone
  <2>13. CASE DiscardNew(d)
    BY <2>13 DEF DiscardNew, DeciderDone
  <2> QED BY <1>6, <2>1, <2>2, <2>3, <2>4, <2>5, <2>6, <2>7, <2>8, <2>9, <2>10,
             <2>11, <2>12, <2>13 DEF DeciderStep
<1>7. ASSUME NEW c \in Cancellers, CancelStep(c) PROVE TypeOK'
  <2> USE DEF CancelPC
  <2>1. CASE CancelLoad(c)
    BY <2>1 DEF CancelLoad
  <2>2. CASE CancelRow(c)
    BY SMTT(20), <2>2 DEF CancelRow, CancellerDone
  <2>3. CASE CancelSignal(c)
    <3>1. revoked' \subseteq Sessions
      <4>1. UNCHANGED revoked \/ Revoke(csid[c])
        BY <2>3 DEF CancelSignal
      <4>2. CASE Revoke(csid[c])
        BY <4>2
      <4> QED BY <4>1, <4>2
    <3>2. wctx' \in [Workers -> CtxState]
      BY <2>3 DEF CancelSignal, CtxState
    <3> QED BY <2>3, <3>1, <3>2 DEF CancelSignal, CancellerDone
  <2> QED BY <1>7, <2>1, <2>2, <2>3 DEF CancelStep
<1>8. CASE LeaseExpires
  BY <1>8 DEF LeaseExpires
<1>9. CASE TimePasses
  BY <1>9 DEF TimePasses
<1>10. CASE EditTimeout
  BY <1>10 DEF EditTimeout
<1>11. CASE Sweep
  BY <1>11 DEF Sweep, RecoverStuckRuns, FailTimedOutRuns, Complete
<1>12. ASSUME NEW r \in Replicas, Shutdown(r) PROVE TypeOK'
  BY <1>12 DEF Shutdown, CtxState
<1>13. ASSUME NEW r \in Replicas, Crash(r) PROVE TypeOK'
  BY <1>13 DEF Crash, WorkerPC, CtxState, RotatePC, DeciderPC, CancelPC
<1>14. CASE UNCHANGED vars
  BY <1>14 DEF vars
<1> QED
  BY <1>1, <1>2, <1>3, <1>4, <1>5, <1>6, <1>7, <1>8, <1>9, <1>10, <1>11, <1>12,
     <1>13, <1>14 DEF Next

----------------------------------------------------------------------------
(* Ownership of the run *)

\* Claims, worker writes, sweeps, cancels and decisions keep at most one
\* worker in charge, and none while the run is queued or parked.
LEMMA OwnershipStep == TypeOK /\ ExclusiveOwnership /\ [Next]_vars => ExclusiveOwnership'
<1> SUFFICES ASSUME TypeOK, ExclusiveOwnership, [Next]_vars PROVE ExclusiveOwnership'
    OBVIOUS
<1> USE DEF TypeOK, ExclusiveOwnership, Owner
<1>0. CASE UNCHANGED <<status, wpc>>
  BY <1>0
<1>1. CASE StartWorkflowRun
  BY <1>1 DEF StartWorkflowRun, workerVars, Terminal
<1>2. ASSUME NEW w \in Workers, Dequeue(w) PROVE ExclusiveOwnership'
  BY <1>2 DEF Dequeue, Claimable, Owning, Terminal
<1>3. ASSUME NEW w \in Workers, WorkerStep(w) PROVE ExclusiveOwnership'
  <2>1. CASE FailRun(w)
    BY <2>1 DEF FailRun, Complete, Owning, Terminal
  <2>2. CASE Begin(w)
    BY <2>2 DEF Begin, rowVars, Owning
  <2>3. ASSUME NEW outcome \in Terminal \cup {"paused"}, GraphReturns(w, outcome)
        PROVE ExclusiveOwnership'
    BY <2>3 DEF GraphReturns, rowVars, Owning
  <2>4. CASE ParkGate(w)
    BY <2>4 DEF ParkGate, rowVars, Owning
  <2>5. CASE PauseForApproval(w)
    BY <2>5 DEF PauseForApproval, PausedStatus, Owning, Terminal
  <2>6. CASE CompleteRun(w)
    BY <2>6 DEF CompleteRun, Complete, Owning, Terminal
  <2>7. CASE RevokeRunToken(w)
    BY <2>7 DEF RevokeRunToken, rowVars, Owning
  <2>8. CASE Exit(w)
    BY <2>8 DEF Exit, rowVars, Owning
  <2> QED BY <1>3, <2>1, <2>2, <2>3, <2>4, <2>5, <2>6, <2>7, <2>8 DEF WorkerStep
<1>4. ASSUME NEW w \in Workers, RotateStep(w) \/ DeadlineFires(w)
      PROVE UNCHANGED <<status, wpc>>
  BY <1>4 DEF RotateStep, RotateMint, RotateStore, RotateSwap, RotateStop, RetireRotated,
              DeadlineFires, rowVars, workerVars
<1>5. ASSUME NEW d \in Deciders, DeciderStep(d) PROVE ExclusiveOwnership'
  <2>1. CASE ResumeAfterApproval(d)
    BY <2>1 DEF ResumeAfterApproval, StillAwaiting, workerVars, Terminal
  <2>2. CASE RejectAfterApproval(d)
    BY <2>2 DEF RejectAfterApproval, StillAwaiting, workerVars, Terminal
  <2>3. CASE ~ResumeAfterApproval(d) /\ ~RejectAfterApproval(d)
    BY <1>0, <1>5, <2>3 DEF DeciderStep, LoadRun, SelectApprovalGate, GiveUp,
       MintForResume, StoreForResume, LockGate, CountRemaining, SweepSiblings,
       DeadlockVictim, RetireOld, DiscardNew, rowVars, workerVars
  <2> QED BY <2>1, <2>2, <2>3
<1>6. ASSUME NEW c \in Cancellers, CancelStep(c) PROVE ExclusiveOwnership'
  BY <1>6 DEF CancelStep, CancelLoad, CancelRow, CancelSignal, rowVars, workerVars, Terminal
<1>7. CASE LeaseExpires \/ TimePasses \/ EditTimeout
  BY <1>0, <1>7 DEF LeaseExpires, TimePasses, EditTimeout, workerVars
<1>8. CASE Sweep
  BY <1>8 DEF Sweep, RecoverStuckRuns, FailTimedOutRuns, Complete, workerVars, Terminal
<1>9. ASSUME NEW r \in Replicas, Shutdown(r) PROVE ExclusiveOwnership'
  BY <1>0, <1>9 DEF Shutdown, rowVars
<1>10. ASSUME NEW r \in Replicas, Crash(r) PROVE ExclusiveOwnership'
  BY <1>10 DEF Crash, rowVars, Owning
<1>11. CASE UNCHANGED vars
  BY <1>0, <1>11 DEF vars, rowVars, workerVars
<1> QED
  BY <1>0, <1>1, <1>2, <1>3, <1>4, <1>5, <1>6, <1>7, <1>8, <1>9, <1>10, <1>11 DEF Next

----------------------------------------------------------------------------
(* Row locks of the decision transactions *)

Holding == {"locked", "held", "last", "swept"}

\* A transaction past its first statement holds the row of its gate, and only
\* an open gate's row is held, by a transaction that is under way.
LockInv ==
    /\ \A d \in Deciders : dpc[d] \notin {"idle", "loaded"} => dgate[d] \in Gates
    /\ \A d \in Deciders : dpc[d] \in Holding => gateLock[dgate[d]] = d
    /\ \A g \in Gates : gateLock[g] # NoOne =>
          dpc[gateLock[g]] \in Holding /\ gate[g] = "awaiting_approval"
    /\ \A d \in Deciders, g \in Gates :
          dpc[d] \in Holding \ {"swept"} /\ gateLock[g] = d => g = dgate[d]

\* Locks are taken on open gates and released with the transaction.
LEMMA LockStep == TypeOK /\ LockInv /\ [Next]_vars => LockInv'
<1> SUFFICES ASSUME TypeOK, LockInv, [Next]_vars PROVE LockInv'
    OBVIOUS
<1> USE RunConstants DEF TypeOK, LockInv, Holding, Actors
<1>0. CASE UNCHANGED <<dpc, dgate, gate, gateLock>>
  BY <1>0
<1>1. CASE StartWorkflowRun
  BY <1>0, <1>1 DEF StartWorkflowRun, gateVars, deciderVars
<1>2. ASSUME NEW w \in Workers, Dequeue(w) PROVE LockInv'
  BY <1>0, <1>2 DEF Dequeue, gateVars, deciderVars
<1>3. ASSUME NEW w \in Workers, WorkerStep(w) PROVE LockInv'
  <2>1. CASE ParkGate(w)
    BY <2>1 DEF ParkGate, deciderVars
  <2>2. CASE ~ParkGate(w)
    BY <1>0, <1>3, <2>2 DEF WorkerStep, FailRun, Begin, GraphReturns, PauseForApproval,
       CompleteRun, RevokeRunToken, Exit, gateVars, deciderVars
  <2> QED BY <2>1, <2>2
<1>4. ASSUME NEW w \in Workers, RotateStep(w) \/ DeadlineFires(w) PROVE LockInv'
  BY <1>0, <1>4 DEF RotateStep, RotateMint, RotateStore, RotateSwap, RotateStop,
     RetireRotated, DeadlineFires, gateVars, deciderVars
<1>5. ASSUME NEW d \in Deciders, DeciderStep(d) PROVE LockInv'
  <2>1. ASSUME NEW kind \in {"approve", "reject"}, LoadRun(d, kind) PROVE LockInv'
    BY <2>1 DEF LoadRun, gateVars
  <2>2. ASSUME NEW g \in Gates, SelectApprovalGate(d, g) PROVE LockInv'
    BY <2>2 DEF SelectApprovalGate, gateVars
  <2>3. CASE GiveUp(d)
    BY <2>3 DEF GiveUp, DeciderDone, gateVars
  <2>4. CASE MintForResume(d)
    BY <2>4 DEF MintForResume, gateVars
  <2>5. CASE StoreForResume(d)
    BY <2>5 DEF StoreForResume, DeciderDone, gateVars
  <2>6. CASE LockGate(d)
    <3>1. dgate[d] \in Gates /\ gateLock[dgate[d]] = NoOne /\ UNCHANGED <<dgate, gate>>
      BY <2>6 DEF LockGate
    <3>2. CASE gate[dgate[d]] = "awaiting_approval"
               /\ gateLock' = [gateLock EXCEPT ![dgate[d]] = d]
               /\ dpc' = [dpc EXCEPT ![d] = "locked"]
      BY <3>1, <3>2
    <3>3. CASE dpc' = [dpc EXCEPT ![d] = "lost"] /\ UNCHANGED gateLock
      <4>1. dpc[d] \notin Holding
        BY <2>6 DEF LockGate
      <4> QED BY <3>1, <3>3, <4>1
    <3> QED BY <2>6, <3>2, <3>3 DEF LockGate, Undecided, Open
  <2>7. CASE CountRemaining(d)
    BY <2>7 DEF CountRemaining, gateVars
  <2>8. CASE ResumeAfterApproval(d)
    <3>1. /\ dpc[d] \in {"held", "last"} /\ dgate' = dgate
          /\ dpc'[d] \in {"won", "lost"} /\ \A e \in Deciders : e # d => dpc'[e] = dpc[e]
      BY <2>8 DEF ResumeAfterApproval
    <3>2. \A g \in Gates : gateLock'[g] = IF gateLock[g] = d THEN NoOne ELSE gateLock[g]
      BY <2>8 DEF ResumeAfterApproval, Unlock
    <3>3. \A g \in Gates : g # dgate[d] => gate'[g] = gate[g]
      BY <2>8 DEF ResumeAfterApproval
    <3>4. gateLock[dgate[d]] = d
      BY <3>1
    <3>5. ASSUME NEW e \in Deciders, dpc'[e] \in Holding
          PROVE  gateLock'[dgate'[e]] = e
      BY <3>1, <3>2, <3>5
    <3>6. \A e \in Deciders : dpc'[e] \notin {"idle", "loaded"} => dgate'[e] \in Gates
      BY <3>1
    <3>7. ASSUME NEW g \in Gates, gateLock'[g] # NoOne
          PROVE  dpc'[gateLock'[g]] \in Holding /\ gate'[g] = "awaiting_approval"
      BY <3>1, <3>2, <3>3, <3>4, <3>7
    <3>8. ASSUME NEW e \in Deciders, NEW g \in Gates,
                 dpc'[e] \in Holding \ {"swept"}, gateLock'[g] = e
          PROVE  g = dgate'[e]
      BY <3>1, <3>2, <3>8
    <3> QED BY <3>5, <3>6, <3>7, <3>8
  <2>9. CASE SweepSiblings(d)
    BY <2>9 DEF SweepSiblings, Open
  <2>10. CASE DeadlockVictim(d)
    BY <2>10 DEF DeadlockVictim, Unlock, DeciderDone
  <2>11. CASE RejectAfterApproval(d)
    <3>1. \A g \in Gates : gateLock'[g] # NoOne => gateLock'[g] = gateLock[g] /\ gateLock[g] # d
      BY <2>11 DEF RejectAfterApproval, Unlock
    <3>2. ASSUME NEW g \in Gates, gateLock'[g] # NoOne PROVE gate'[g] = gate[g]
      <4>1. g # dgate[d] /\ g \notin Siblings(d)
        BY <2>11, <3>1, <3>2 DEF RejectAfterApproval, Siblings
      <4> QED BY <2>11, <4>1 DEF RejectAfterApproval
    <3>3. dgate' = dgate /\ dpc'[d] \in {"won", "lost"} /\ \A e \in Deciders : e # d => dpc'[e] = dpc[e]
      BY <2>11 DEF RejectAfterApproval
    <3>4. \A g \in Gates : gateLock[g] # d => gateLock'[g] = gateLock[g]
      BY <2>11 DEF RejectAfterApproval, Unlock
    <3>5. dpc[d] = "swept"
      BY <2>11 DEF RejectAfterApproval
    <3>6. ASSUME NEW e \in Deciders, dpc'[e] \in Holding
          PROVE  gateLock'[dgate'[e]] = e
      BY <3>3, <3>4, <3>6
    <3>7. \A e \in Deciders : dpc'[e] \notin {"idle", "loaded"} => dgate'[e] \in Gates
      BY <3>3, <3>5
    <3>8. ASSUME NEW g \in Gates, gateLock'[g] # NoOne
          PROVE  dpc'[gateLock'[g]] \in Holding /\ gate'[g] = "awaiting_approval"
      BY <3>1, <3>2, <3>3, <3>8
    <3>9. ASSUME NEW e \in Deciders, NEW g \in Gates,
                 dpc'[e] \in Holding \ {"swept"}, gateLock'[g] = e
          PROVE  g = dgate'[e]
      BY <3>1, <3>3, <3>9
    <3> QED BY <3>6, <3>7, <3>8, <3>9
  <2>12. CASE RetireOld(d)
    BY <2>12 DEF RetireOld, DeciderDone, gateVars
  <2>13. CASE DiscardNew(d)
    BY <2>13 DEF DiscardNew, DeciderDone, gateVars
  <2> QED BY <1>5, <2>1, <2>2, <2>3, <2>4, <2>5, <2>6, <2>7, <2>8, <2>9, <2>10,
             <2>11, <2>12, <2>13 DEF DeciderStep
<1>6. ASSUME NEW c \in Cancellers, CancelStep(c) PROVE LockInv'
  BY <1>0, <1>6 DEF CancelStep, CancelLoad, CancelRow, CancelSignal, gateVars, deciderVars
<1>7. CASE LeaseExpires \/ TimePasses \/ EditTimeout \/ Sweep
  BY <1>0, <1>7 DEF LeaseExpires, TimePasses, EditTimeout, Sweep, RecoverStuckRuns,
     FailTimedOutRuns, gateVars, deciderVars
<1>8. ASSUME NEW r \in Replicas, Shutdown(r) PROVE LockInv'
  BY <1>0, <1>8 DEF Shutdown, gateVars, deciderVars
<1>9. ASSUME NEW r \in Replicas, Crash(r) PROVE LockInv'
  <2>1. \A d \in Deciders : /\ dpc'[d] = IF ReplicaOf[d] = r THEN "idle" ELSE dpc[d]
                            /\ dgate'[d] = IF ReplicaOf[d] = r THEN NoOne ELSE dgate[d]
    BY <1>9 DEF Crash
  <2>2. gate' = gate /\ \A g \in Gates : gateLock'[g] =
          IF gateLock[g] # NoOne /\ ReplicaOf[gateLock[g]] = r THEN NoOne ELSE gateLock[g]
    BY <1>9 DEF Crash
  <2>3. \A g \in Gates : gateLock[g] \in Deciders \cup {NoOne}
    OBVIOUS
  <2>4. \A d \in Deciders : d # NoOne
    OBVIOUS
  <2> QED BY <2>1, <2>2, <2>3, <2>4
<1>10. CASE UNCHANGED vars
  BY <1>0, <1>10 DEF vars, gateVars, deciderVars
<1> QED
  BY <1>1, <1>2, <1>3, <1>4, <1>5, <1>6, <1>7, <1>8, <1>9, <1>10 DEF Next

----------------------------------------------------------------------------
(* Gates and the status of the run *)

\* Only a rejection writes these two, and it fails the run in the same
\* transaction.
RejectInv ==
    \A g \in Gates : gate[g] \in {"failed", "cancelled"} => status = "failed"

\* A request that read the run in this pause sees it parked or ended; what it
\* counted or locked still holds, because nothing parks a gate meanwhile.
FreshInv ==
    \A d \in Deciders \ late :
        /\ dpc[d] # "idle" => status \in {"awaiting_approval"} \cup Terminal
        /\ dpc[d] = "last" /\ status = "awaiting_approval" => Open \subseteq {dgate[d]}
        /\ dpc[d] = "swept" /\ status = "awaiting_approval" => \A g \in Open : gateLock[g] = d

\* An ended run stays ended: the guards of every statement that writes status.
LEMMA TerminalStep == TypeOK /\ [Next]_vars => (status \in Terminal => status' = status)
<1> SUFFICES ASSUME TypeOK, [Next]_vars, status \in Terminal PROVE status' = status
    OBVIOUS
<1> USE DEF Terminal
<1>1. CASE StartWorkflowRun
  BY <1>1 DEF StartWorkflowRun
<1>2. ASSUME NEW w \in Workers, Dequeue(w) \/ WorkerStep(w) PROVE status' = status
  BY <1>2 DEF Dequeue, Claimable, WorkerStep, FailRun, Begin, GraphReturns, ParkGate,
     PauseForApproval, PausedStatus, CompleteRun, Complete, RevokeRunToken, Exit, rowVars
<1>3. ASSUME NEW w \in Workers, RotateStep(w) \/ DeadlineFires(w) PROVE status' = status
  BY <1>3 DEF RotateStep, RotateMint, RotateStore, RotateSwap, RotateStop, RetireRotated,
     DeadlineFires, rowVars
<1>4. ASSUME NEW d \in Deciders, DeciderStep(d) PROVE status' = status
  BY <1>4 DEF DeciderStep, LoadRun, SelectApprovalGate, GiveUp, MintForResume,
     StoreForResume, LockGate, CountRemaining, ResumeAfterApproval, StillAwaiting,
     SweepSiblings, DeadlockVictim, RejectAfterApproval, RetireOld, DiscardNew, rowVars
<1>5. ASSUME NEW c \in Cancellers, CancelStep(c) PROVE status' = status
  BY <1>5 DEF CancelStep, CancelLoad, CancelRow, CancelSignal, rowVars
<1>6. CASE LeaseExpires \/ TimePasses \/ EditTimeout \/ Sweep
  BY <1>6 DEF LeaseExpires, TimePasses, EditTimeout, Sweep, RecoverStuckRuns,
     FailTimedOutRuns, Complete
<1>7. ASSUME NEW r \in Replicas, Shutdown(r) \/ Crash(r) PROVE status' = status
  BY <1>7 DEF Shutdown, Crash, rowVars
<1>8. CASE UNCHANGED vars
  BY <1>8 DEF vars, rowVars
<1> QED BY <1>1, <1>2, <1>3, <1>4, <1>5, <1>6, <1>7, <1>8 DEF Next

\* The gates only a rejection closes are closed with the run's failure.
LEMMA RejectStep == TypeOK /\ RejectInv /\ [Next]_vars => RejectInv'
<1> SUFFICES ASSUME TypeOK, RejectInv, [Next]_vars, NEW g \in Gates,
                    gate'[g] \in {"failed", "cancelled"}
             PROVE  status' = "failed"
    BY DEF RejectInv
<1>0. CASE gate'[g] = gate[g]
  BY <1>0, TerminalStep DEF RejectInv, Terminal
<1>1. ASSUME NEW w \in Workers, WorkerStep(w) PROVE status' = "failed"
  <2>1. CASE ParkGate(w)
    BY <1>0, <2>1 DEF ParkGate, TypeOK
  <2>2. CASE ~ParkGate(w)
    BY <1>0, <1>1, <2>2 DEF WorkerStep, FailRun, Begin, GraphReturns, PauseForApproval,
       CompleteRun, RevokeRunToken, Exit, gateVars
  <2> QED BY <2>1, <2>2
<1>2. ASSUME NEW d \in Deciders, DeciderStep(d) PROVE status' = "failed"
  <2>1. CASE ResumeAfterApproval(d)
    BY <1>0, <2>1 DEF ResumeAfterApproval, TypeOK
  <2>2. CASE RejectAfterApproval(d)
    BY <1>0, <2>2 DEF RejectAfterApproval
  <2>3. CASE ~ResumeAfterApproval(d) /\ ~RejectAfterApproval(d)
    BY <1>0, <1>2, <2>3 DEF DeciderStep, LoadRun, SelectApprovalGate, GiveUp,
       MintForResume, StoreForResume, LockGate, CountRemaining, SweepSiblings,
       DeadlockVictim, RetireOld, DiscardNew, gateVars
  <2> QED BY <2>1, <2>2, <2>3
<1>3. CASE StartWorkflowRun \/ LeaseExpires \/ TimePasses \/ EditTimeout \/ Sweep
  BY <1>0, <1>3 DEF StartWorkflowRun, LeaseExpires, TimePasses, EditTimeout, Sweep,
     RecoverStuckRuns, FailTimedOutRuns, gateVars
<1>4. ASSUME NEW w \in Workers, Dequeue(w) \/ RotateStep(w) \/ DeadlineFires(w)
      PROVE status' = "failed"
  BY <1>0, <1>4 DEF Dequeue, RotateStep, RotateMint, RotateStore, RotateSwap, RotateStop,
     RetireRotated, DeadlineFires, gateVars
<1>5. ASSUME NEW c \in Cancellers, CancelStep(c) PROVE status' = "failed"
  BY <1>0, <1>5 DEF CancelStep, CancelLoad, CancelRow, CancelSignal, gateVars
<1>6. ASSUME NEW r \in Replicas, Shutdown(r) \/ Crash(r) PROVE status' = "failed"
  BY <1>0, <1>6 DEF Shutdown, Crash, gateVars
<1>7. CASE UNCHANGED vars
  BY <1>0, <1>7 DEF vars, gateVars
<1> QED BY <1>1, <1>2, <1>3, <1>4, <1>5, <1>6, <1>7 DEF Next

\* While a run is parked nobody owns it, so its open gates only get fewer.
LEMMA FreshStep ==
    TypeOK /\ ExclusiveOwnership /\ LockInv /\ FreshInv /\ [Next]_vars => FreshInv'
<1> SUFFICES ASSUME TypeOK, ExclusiveOwnership, LockInv, FreshInv, [Next]_vars
             PROVE  FreshInv'
    OBVIOUS
<1> USE DEF TypeOK, FreshInv, Open
<1>0. CASE UNCHANGED <<deciderVars, gateVars>> /\ (status' = status \/ status' \in Terminal)
  BY <1>0 DEF deciderVars, gateVars, Terminal
<1>1. CASE StartWorkflowRun
  <2>1. status \notin {"awaiting_approval"} \cup Terminal
    BY <1>1 DEF StartWorkflowRun, Terminal
  <2> QED BY <1>0, <1>1, <2>1 DEF StartWorkflowRun, deciderVars
<1>2. ASSUME NEW w \in Workers, Dequeue(w) PROVE FreshInv'
  BY <1>2 DEF Dequeue, Claimable, deciderVars, gateVars, Terminal
<1>3. ASSUME NEW w \in Workers, WorkerStep(w) PROVE FreshInv'
  <2>1. CASE ParkGate(w)
    <3>1. status # "awaiting_approval"
      BY <2>1 DEF ParkGate, ExclusiveOwnership, Owner, Owning, Terminal
    <3> QED BY <2>1, <3>1 DEF ParkGate, rowVars, deciderVars
  <2>2. CASE PauseForApproval(w)
    <3>1. status \in {"running"} \cup Terminal
      BY <2>2 DEF PauseForApproval, ExclusiveOwnership, Owner, Owning
    <3>2. CASE status' = status
      BY <1>0, <2>2, <3>2 DEF PauseForApproval
    <3>3. CASE status = "running"
      BY <2>2, <3>3 DEF PauseForApproval, deciderVars, gateVars, Terminal
    <3> QED BY <2>2, <3>1, <3>2, <3>3 DEF PauseForApproval, PausedStatus, Terminal
  <2>3. CASE ~ParkGate(w) /\ ~PauseForApproval(w)
    BY <1>0, <1>3, <2>3 DEF WorkerStep, FailRun, Begin, GraphReturns, Complete,
       CompleteRun, RevokeRunToken, Exit, rowVars, Terminal
  <2> QED BY <2>1, <2>2, <2>3
<1>4. ASSUME NEW w \in Workers, RotateStep(w) \/ DeadlineFires(w) PROVE FreshInv'
  BY <1>0, <1>4 DEF RotateStep, RotateMint, RotateStore, RotateSwap, RotateStop,
     RetireRotated, DeadlineFires, rowVars
<1>5. ASSUME NEW d \in Deciders, DeciderStep(d) PROVE FreshInv'
  <2> USE DEF Terminal
  <2>1. ASSUME NEW kind \in {"approve", "reject"}, LoadRun(d, kind) PROVE FreshInv'
    BY <2>1 DEF LoadRun, gateVars, rowVars
  <2>2. ASSUME NEW g \in Gates, SelectApprovalGate(d, g) PROVE FreshInv'
    BY <2>2 DEF SelectApprovalGate, gateVars, rowVars
  <2>3. CASE GiveUp(d)
    BY <2>3 DEF GiveUp, DeciderDone, gateVars, rowVars
  <2>4. CASE MintForResume(d)
    BY <2>4 DEF MintForResume, gateVars, rowVars
  <2>5. CASE StoreForResume(d)
    BY <2>5 DEF StoreForResume, DeciderDone, gateVars
  <2>6. CASE LockGate(d)
    BY <2>6, RunConstants DEF LockGate, rowVars, Undecided, Actors
  <2>7. CASE CountRemaining(d)
    BY <2>7 DEF CountRemaining, Remaining, gateVars, rowVars
  <2>8. CASE ResumeAfterApproval(d)
    <3>1. /\ \A e \in Deciders \ {d} : dpc'[e] = dpc[e]
          /\ dpc[d] # "idle" /\ dpc'[d] \in {"won", "lost"}
          /\ dgate' = dgate
      BY <2>8 DEF ResumeAfterApproval
    <3>2. \A g \in Gates : /\ gateLock[g] # d => gateLock'[g] = gateLock[g]
                           /\ gate'[g] = "awaiting_approval" => gate[g] = "awaiting_approval"
      BY <2>8 DEF ResumeAfterApproval, Unlock
    <3>3. CASE late' = late /\ status' = status
      BY <3>1, <3>2, <3>3
    <3>4. CASE late' = InFlight
      <4>1. \A e \in Deciders \ late' : dpc'[e] = "idle"
        BY <2>8, <3>1, <3>4 DEF InFlight, ResumeAfterApproval
      <4> QED BY <4>1
    <3> QED BY <2>8, <3>3, <3>4 DEF ResumeAfterApproval
  <2>9. CASE SweepSiblings(d)
    BY <2>9, RunConstants DEF SweepSiblings, rowVars, Actors
  <2>10. CASE DeadlockVictim(d)
    <3>1. /\ \A e \in Deciders \ {d} : dpc'[e] = dpc[e] /\ dgate'[e] = dgate[e]
          /\ dpc'[d] = "idle" /\ late' = late \ {d}
          /\ status' = status /\ gate' = gate
      BY <2>10 DEF DeadlockVictim, DeciderDone, rowVars
    <3>2. \A g \in Gates : gateLock[g] # d => gateLock'[g] = gateLock[g]
      BY <2>10 DEF DeadlockVictim, Unlock
    <3> QED BY <3>1, <3>2
  <2>11. CASE RejectAfterApproval(d)
    <3>1. /\ \A e \in Deciders \ {d} : dpc'[e] = dpc[e]
          /\ dpc'[d] \in {"won", "lost"}
          /\ dgate' = dgate /\ late' = late
      BY <2>11 DEF RejectAfterApproval
    <3>2. \A g \in Gates : gateLock[g] # d => gateLock'[g] = gateLock[g]
      BY <2>11 DEF RejectAfterApproval, Unlock
    <3>3. status' = "failed" \/ (status' = status /\ gate' = gate)
      BY <2>11 DEF RejectAfterApproval
    <3> QED BY <2>11, <3>1, <3>2, <3>3 DEF RejectAfterApproval
  <2>12. CASE RetireOld(d)
    BY <2>12 DEF RetireOld, DeciderDone, gateVars, rowVars
  <2>13. CASE DiscardNew(d)
    BY <2>13 DEF DiscardNew, DeciderDone, gateVars, rowVars
  <2> QED BY <1>5, <2>1, <2>2, <2>3, <2>4, <2>5, <2>6, <2>7, <2>8, <2>9, <2>10,
             <2>11, <2>12, <2>13 DEF DeciderStep
<1>6. ASSUME NEW c \in Cancellers, CancelStep(c) PROVE FreshInv'
  BY <1>0, <1>6 DEF CancelStep, CancelLoad, CancelRow, CancelSignal, rowVars, Terminal
<1>7. CASE LeaseExpires \/ TimePasses \/ EditTimeout \/ Sweep
  BY <1>0, <1>7 DEF LeaseExpires, TimePasses, EditTimeout, Sweep, RecoverStuckRuns,
     FailTimedOutRuns, Complete, Terminal
<1>8. ASSUME NEW r \in Replicas, Shutdown(r) PROVE FreshInv'
  BY <1>0, <1>8 DEF Shutdown, rowVars
<1>9. ASSUME NEW r \in Replicas, Crash(r) PROVE FreshInv'
  <2>1. \A d \in Deciders : /\ dpc'[d] = IF ReplicaOf[d] = r THEN "idle" ELSE dpc[d]
                            /\ dgate'[d] = IF ReplicaOf[d] = r THEN NoOne ELSE dgate[d]
                            /\ ReplicaOf[d] # r /\ d \notin late' => d \notin late
    BY <1>9 DEF Crash
  <2>2. gate' = gate /\ status' = status /\ \A g \in Gates : gateLock'[g] =
          IF gateLock[g] # NoOne /\ ReplicaOf[gateLock[g]] = r THEN NoOne ELSE gateLock[g]
    BY <1>9 DEF Crash, rowVars
  <2> QED BY <2>1, <2>2
<1>10. CASE UNCHANGED vars
  BY <1>0, <1>10 DEF vars, rowVars
<1> QED
  BY <1>1, <1>2, <1>3, <1>4, <1>5, <1>6, <1>7, <1>8, <1>9, <1>10 DEF Next

----------------------------------------------------------------------------
(* Leases and deadlines *)

\* A worker has no run context before executeRun creates it.
CtxInv == \A w \in Workers : wpc[w] \in {"idle", "claimed", "aborting"} => wctx[w] = "none"

\* Contexts begin with Begin and are gone when a worker is idle again.
LEMMA CtxStep == TypeOK /\ CtxInv /\ [Next]_vars => CtxInv'
<1> SUFFICES ASSUME TypeOK, CtxInv, [Next]_vars PROVE CtxInv'
    OBVIOUS
<1> USE DEF TypeOK, CtxInv
<1>0. CASE UNCHANGED <<wpc, wctx>>
  BY <1>0
<1>1. ASSUME NEW w \in Workers, Dequeue(w) \/ WorkerStep(w) PROVE CtxInv'
  BY <1>1 DEF Dequeue, WorkerStep, FailRun, Begin, GraphReturns, ParkGate,
     PauseForApproval, CompleteRun, RevokeRunToken, Exit
<1>2. ASSUME NEW w \in Workers, RotateStep(w) PROVE CtxInv'
  BY <1>0, <1>2 DEF RotateStep, RotateMint, RotateStore, RotateSwap, RotateStop,
     RetireRotated, workerVars
<1>3. ASSUME NEW w \in Workers, DeadlineFires(w) PROVE CtxInv'
  BY <1>3 DEF DeadlineFires
<1>4. ASSUME NEW d \in Deciders, DeciderStep(d) PROVE CtxInv'
  BY <1>0, <1>4 DEF DeciderStep, LoadRun, SelectApprovalGate, GiveUp, MintForResume,
     StoreForResume, LockGate, CountRemaining, ResumeAfterApproval, SweepSiblings,
     DeadlockVictim, RejectAfterApproval, RetireOld, DiscardNew, workerVars
<1>5. ASSUME NEW c \in Cancellers, CancelStep(c) PROVE CtxInv'
  BY <1>5 DEF CancelStep, CancelLoad, CancelRow, CancelSignal, workerVars
<1>6. CASE StartWorkflowRun \/ LeaseExpires \/ TimePasses \/ EditTimeout \/ Sweep
  BY <1>0, <1>6 DEF StartWorkflowRun, LeaseExpires, TimePasses, EditTimeout, Sweep,
     RecoverStuckRuns, FailTimedOutRuns, workerVars
<1>7. ASSUME NEW r \in Replicas, Shutdown(r) PROVE CtxInv'
  BY <1>7 DEF Shutdown
<1>8. ASSUME NEW r \in Replicas, Crash(r) PROVE CtxInv'
  BY <1>8 DEF Crash
<1>9. CASE UNCHANGED vars
  BY <1>0, <1>9 DEF vars, workerVars
<1> QED BY <1>1, <1>2, <1>3, <1>4, <1>5, <1>6, <1>7, <1>8, <1>9 DEF Next

\* Only a claim gives a worker the run, so elsewhere no worker becomes live.
LEMMA LiveStep ==
    ASSUME TypeOK, CtxInv, [Next]_vars, \A w \in Workers : ~Dequeue(w)
    PROVE  \A w \in Workers : Live(w)' => Live(w)
<1> USE DEF TypeOK, Live
<1>0. CASE UNCHANGED <<wpc, wctx>>
  BY <1>0
<1>1. ASSUME NEW w \in Workers, WorkerStep(w)
      PROVE  \A v \in Workers : Live(v)' => Live(v)
  BY <1>1 DEF CtxInv, WorkerStep, FailRun, Begin, GraphReturns, ParkGate,
     PauseForApproval, CompleteRun, RevokeRunToken, Exit, Owning
<1>2. ASSUME NEW w \in Workers, RotateStep(w) PROVE UNCHANGED <<wpc, wctx>>
  BY <1>2 DEF RotateStep, RotateMint, RotateStore, RotateSwap, RotateStop,
     RetireRotated, workerVars
<1>3. ASSUME NEW w \in Workers, DeadlineFires(w)
      PROVE  \A v \in Workers : Live(v)' => Live(v)
  BY <1>3 DEF DeadlineFires
<1>4. ASSUME NEW d \in Deciders, DeciderStep(d) PROVE UNCHANGED <<wpc, wctx>>
  BY <1>4 DEF DeciderStep, LoadRun, SelectApprovalGate, GiveUp, MintForResume,
     StoreForResume, LockGate, CountRemaining, ResumeAfterApproval, SweepSiblings,
     DeadlockVictim, RejectAfterApproval, RetireOld, DiscardNew, workerVars
<1>5. ASSUME NEW c \in Cancellers, CancelStep(c)
      PROVE  \A v \in Workers : Live(v)' => Live(v)
  BY <1>5 DEF CancelStep, CancelLoad, CancelRow, CancelSignal, workerVars
<1>6. CASE StartWorkflowRun \/ LeaseExpires \/ TimePasses \/ EditTimeout \/ Sweep
  BY <1>0, <1>6 DEF StartWorkflowRun, LeaseExpires, TimePasses, EditTimeout, Sweep,
     RecoverStuckRuns, FailTimedOutRuns, workerVars
<1>7. ASSUME NEW r \in Replicas, Shutdown(r)
      PROVE  \A v \in Workers : Live(v)' => Live(v)
  BY <1>7 DEF Shutdown
<1>8. ASSUME NEW r \in Replicas, Crash(r)
      PROVE  \A v \in Workers : Live(v)' => Live(v)
  BY <1>8 DEF Crash, Owning
<1>9. CASE UNCHANGED vars
  BY <1>0, <1>9 DEF vars, workerVars
<1> QED BY <1>0, <1>1, <1>2, <1>3, <1>4, <1>5, <1>6, <1>7, <1>8, <1>9 DEF Next

\* Unless the timeout was edited under a running run, the sweeps' two
\* conditions hold of orphans only.
OrphanInv == edits = 0 => ReclaimOnlyOrphans

\* The lease and the timeout run out only when no worker is live, and every
\* claim renews both.
LEMMA OrphanStep == TypeOK /\ CtxInv /\ OrphanInv /\ [Next]_vars => OrphanInv'
<1> SUFFICES ASSUME TypeOK, CtxInv, OrphanInv, [Next]_vars PROVE OrphanInv'
    OBVIOUS
<1> USE DEF OrphanInv, ReclaimOnlyOrphans
<1>1. ASSUME NEW w \in Workers, Dequeue(w) PROVE OrphanInv'
  BY <1>1 DEF Dequeue, StampLease
<1>2. CASE \A w \in Workers : ~Dequeue(w)
  <2> USE LiveStep, <1>2
  <2>1. CASE /\ status' = "running" => status = "running"
             /\ lease' = lease /\ age' = age /\ edits' = edits
    BY <2>1
  <2>2. CASE LeaseExpires
    BY <2>2 DEF LeaseExpires, faultVars
  <2>3. CASE TimePasses
    BY <2>3 DEF TimePasses, faultVars
  <2>4. CASE EditTimeout
    BY <2>4 DEF EditTimeout, TypeOK
  <2>5. CASE StartWorkflowRun \/ Sweep
    BY <2>1, <2>5 DEF StartWorkflowRun, Sweep, RecoverStuckRuns, FailTimedOutRuns,
       Complete, faultVars
  <2>6. ASSUME NEW w \in Workers, WorkerStep(w) PROVE OrphanInv'
    BY <2>1, <2>6 DEF WorkerStep, FailRun, Begin, GraphReturns, ParkGate, Complete,
       PauseForApproval, PausedStatus, CompleteRun, RevokeRunToken, Exit, rowVars, faultVars
  <2>7. ASSUME NEW w \in Workers, RotateStep(w) \/ DeadlineFires(w) PROVE OrphanInv'
    BY <2>1, <2>7 DEF RotateStep, RotateMint, RotateStore, RotateSwap, RotateStop,
       RetireRotated, DeadlineFires, rowVars, faultVars
  <2>8. ASSUME NEW d \in Deciders, DeciderStep(d) PROVE OrphanInv'
    BY <2>1, <2>8 DEF DeciderStep, LoadRun, SelectApprovalGate, GiveUp, MintForResume,
       StoreForResume, LockGate, CountRemaining, ResumeAfterApproval, SweepSiblings,
       DeadlockVictim, RejectAfterApproval, RetireOld, DiscardNew, rowVars, faultVars
  <2>9. ASSUME NEW c \in Cancellers, CancelStep(c) PROVE OrphanInv'
    BY <2>1, <2>9 DEF CancelStep, CancelLoad, CancelRow, CancelSignal, rowVars, faultVars
  <2>10. ASSUME NEW r \in Replicas, Shutdown(r) \/ Crash(r) PROVE OrphanInv'
    BY <2>1, <2>10 DEF Shutdown, Crash, rowVars
  <2>11. CASE UNCHANGED vars
    BY <2>1, <2>11 DEF vars, rowVars, faultVars
  <2> QED BY <2>2, <2>3, <2>4, <2>5, <2>6, <2>7, <2>8, <2>9, <2>10, <2>11 DEF Next
<1> QED BY <1>1, <1>2

----------------------------------------------------------------------------
(* Cancel requests *)

\* A cancel request that is under way has read an existing run.
LoadedInv == \A c \in Cancellers : cpc[c] # "idle" => status # "none"

\* Once inserted, the run's row is never gone.
LEMMA LoadedStep == TypeOK /\ LoadedInv /\ [Next]_vars => LoadedInv'
<1> SUFFICES ASSUME TypeOK, LoadedInv, [Next]_vars PROVE LoadedInv'
    OBVIOUS
<1> USE DEF TypeOK, LoadedInv, Terminal
<1>0. CASE cpc' = cpc /\ (status' = status \/ status' # "none")
  BY <1>0
<1>1. CASE StartWorkflowRun
  BY <1>0, <1>1 DEF StartWorkflowRun, cancelVars
<1>2. ASSUME NEW w \in Workers, Dequeue(w) PROVE LoadedInv'
  BY <1>0, <1>2 DEF Dequeue, cancelVars
<1>3. ASSUME NEW w \in Workers, WorkerStep(w) PROVE LoadedInv'
  BY <1>0, <1>3 DEF WorkerStep, FailRun, Begin, GraphReturns, ParkGate, Complete,
     PauseForApproval, PausedStatus, CompleteRun, RevokeRunToken, Exit, rowVars, cancelVars
<1>4. ASSUME NEW w \in Workers, RotateStep(w) \/ DeadlineFires(w) PROVE LoadedInv'
  BY <1>0, <1>4 DEF RotateStep, RotateMint, RotateStore, RotateSwap, RotateStop,
     RetireRotated, DeadlineFires, rowVars, cancelVars
<1>5. ASSUME NEW d \in Deciders, DeciderStep(d) PROVE LoadedInv'
  BY <1>0, <1>5 DEF DeciderStep, LoadRun, SelectApprovalGate, GiveUp, MintForResume,
     StoreForResume, LockGate, CountRemaining, ResumeAfterApproval, SweepSiblings,
     DeadlockVictim, RejectAfterApproval, RetireOld, DiscardNew, rowVars, cancelVars
<1>6. ASSUME NEW c \in Cancellers, CancelStep(c) PROVE LoadedInv'
  BY <1>6 DEF CancelStep, CancelLoad, CancelRow, CancelSignal, CancellerDone, rowVars
<1>7. CASE LeaseExpires \/ TimePasses \/ EditTimeout \/ Sweep
  BY <1>0, <1>7 DEF LeaseExpires, TimePasses, EditTimeout, Sweep, RecoverStuckRuns,
     FailTimedOutRuns, Complete, cancelVars
<1>8. ASSUME NEW r \in Replicas, Shutdown(r) PROVE LoadedInv'
  BY <1>0, <1>8 DEF Shutdown, rowVars, cancelVars
<1>9. ASSUME NEW r \in Replicas, Crash(r) PROVE LoadedInv'
  BY <1>9 DEF Crash, rowVars
<1>10. CASE UNCHANGED vars
  BY <1>0, <1>10 DEF vars, rowVars, cancelVars
<1> QED
  BY <1>1, <1>2, <1>3, <1>4, <1>5, <1>6, <1>7, <1>8, <1>9, <1>10 DEF Next

----------------------------------------------------------------------------
(* The inductive invariant *)

IInv ==
    /\ TypeOK
    /\ ExclusiveOwnership
    /\ LockInv
    /\ RejectInv
    /\ FreshInv
    /\ CtxInv
    /\ OrphanInv
    /\ LoadedInv

\* Nothing has happened yet: no run, no gate row, no request, no claim.
LEMMA InvInit == Init => IInv
<1> SUFFICES ASSUME Init PROVE IInv
    OBVIOUS
<1> USE RunConstants DEF Init
<1>1. TypeOK
  BY DEF TypeOK, RunStatus, GateStatus, Terminal, SessionOrNull, NoSession, WorkerPC,
     Owning, CtxState, RotatePC, DeciderPC, CancelPC
<1>2. ExclusiveOwnership
  BY DEF ExclusiveOwnership, Owner, Owning
<1>3. LockInv
  BY DEF LockInv, Holding
<1>4. RejectInv /\ FreshInv /\ CtxInv /\ LoadedInv
  BY DEF RejectInv, FreshInv, CtxInv, LoadedInv
<1>5. OrphanInv
  BY DEF OrphanInv, ReclaimOnlyOrphans
<1> QED BY <1>1, <1>2, <1>3, <1>4, <1>5 DEF IInv

\* The invariant holds in every state of every execution.
THEOREM Invariant == Spec => []IInv
<1>1. IInv /\ [Next]_vars => IInv'
  BY TypeStep, OwnershipStep, LockStep, RejectStep, FreshStep, CtxStep, OrphanStep,
     LoadedStep DEF IInv
<1> QED BY <1>1, InvInit, PTL DEF Spec

----------------------------------------------------------------------------
(* Theorems *)

\* No interleaving of workers, requests, sweeps and crashes takes a variable
\* out of its type.
THEOREM TypeCorrect == Spec => []TypeOK
<1>1. IInv => TypeOK
  BY DEF IInv
<1> QED BY <1>1, Invariant, PTL

\* Never two workers in charge of one run, and none while it is queued or
\* parked, for any number of workers, replicas, requests and crashes.
THEOREM Exclusive == Spec => []ExclusiveOwnership
<1>1. IInv => ExclusiveOwnership
  BY DEF IInv
<1> QED BY <1>1, Invariant, PTL

\* A rejected gate means a failed run, whatever raced with the rejection.
THEOREM RejectionFails == Spec => []RejectionFailsRun
<1>1. IInv => RejectionFailsRun
  BY DEF IInv, RejectInv, RejectionFailsRun
<1> QED BY <1>1, Invariant, PTL

\* As long as nobody edits the timeout of a pipeline under a running run, the
\* sweeps never fail a run a live worker is executing.
THEOREM SweepsTakeOrphans ==
    ASSUME MaxEdits = 0
    PROVE  Spec => []ReclaimOnlyOrphans
<1>1. IInv => ReclaimOnlyOrphans
  BY DEF IInv, TypeOK, OrphanInv
<1> QED BY <1>1, Invariant, PTL

\* A terminal status is final.
THEOREM Terminality == Spec => TerminalIsFinal
<1>1. IInv /\ [Next]_vars => [(status \in Terminal) => status' = status]_vars
  BY TerminalStep DEF IInv
<1> QED BY <1>1, Invariant, PTL DEF Spec, TerminalIsFinal

\* The rows a decision transaction writes are open and locked by it, and a
\* worker parks only gates without a decision.
LEMMA DecisionStep ==
    TypeOK /\ LockInv /\ [Next]_vars => \A g \in Gates : gate[g] \in Terminal => gate'[g] = gate[g]
<1> SUFFICES ASSUME TypeOK, LockInv, [Next]_vars, NEW g \in Gates, gate[g] \in Terminal
             PROVE  gate'[g] = gate[g]
    OBVIOUS
<1> USE DEF Terminal
<1>0. gateLock[g] = NoOne
  BY DEF LockInv
<1>1. ASSUME NEW w \in Workers, Dequeue(w) \/ WorkerStep(w) PROVE gate'[g] = gate[g]
  BY <1>1 DEF Dequeue, WorkerStep, FailRun, Begin, GraphReturns, ParkGate, Parkable,
     PauseForApproval, CompleteRun, RevokeRunToken, Exit, gateVars, TypeOK
<1>2. ASSUME NEW d \in Deciders, DeciderStep(d) PROVE gate'[g] = gate[g]
  <2>1. CASE ResumeAfterApproval(d)
    <3>1. g # dgate[d]
      BY <1>0, <2>1, RunConstants DEF ResumeAfterApproval, LockInv, Holding, Actors
    <3> QED BY <2>1, <3>1 DEF ResumeAfterApproval, TypeOK
  <2>2. CASE RejectAfterApproval(d)
    <3>1. g # dgate[d] /\ g \notin Siblings(d)
      BY <1>0, <2>2, RunConstants DEF RejectAfterApproval, LockInv, Holding, Siblings, Actors
    <3> QED BY <2>2, <3>1 DEF RejectAfterApproval
  <2>3. CASE ~ResumeAfterApproval(d) /\ ~RejectAfterApproval(d)
    BY <1>2, <2>3 DEF DeciderStep, LoadRun, SelectApprovalGate, GiveUp, MintForResume,
       StoreForResume, LockGate, CountRemaining, SweepSiblings, DeadlockVictim,
       RetireOld, DiscardNew, gateVars
  <2> QED BY <2>1, <2>2, <2>3
<1>3. ASSUME NEW w \in Workers, RotateStep(w) \/ DeadlineFires(w) PROVE gate'[g] = gate[g]
  BY <1>3 DEF RotateStep, RotateMint, RotateStore, RotateSwap, RotateStop,
     RetireRotated, DeadlineFires, gateVars
<1>4. ASSUME NEW c \in Cancellers, CancelStep(c) PROVE gate'[g] = gate[g]
  BY <1>4 DEF CancelStep, CancelLoad, CancelRow, CancelSignal, gateVars
<1>5. CASE StartWorkflowRun \/ LeaseExpires \/ TimePasses \/ EditTimeout \/ Sweep
  BY <1>5 DEF StartWorkflowRun, LeaseExpires, TimePasses, EditTimeout, Sweep,
     RecoverStuckRuns, FailTimedOutRuns, gateVars
<1>6. ASSUME NEW r \in Replicas, Shutdown(r) \/ Crash(r) PROVE gate'[g] = gate[g]
  BY <1>6 DEF Shutdown, Crash, gateVars
<1>7. CASE UNCHANGED vars
  BY <1>7 DEF vars, gateVars
<1> QED BY <1>1, <1>2, <1>3, <1>4, <1>5, <1>6, <1>7 DEF Next

\* The decision on a gate is final, however requests for it interleave.
THEOREM Decisiveness == Spec => DecisionIsFinal
<1>1. IInv /\ [Next]_vars =>
        [\A g \in Gates : gate[g] \in Terminal => gate'[g] = gate[g]]_vars
  BY DecisionStep DEF IInv
<1> QED BY <1>1, Invariant, PTL DEF Spec, DecisionIsFinal

\* Only its own commit turns a transaction past its last check into a winner.
LEMMA CommitStep ==
    ASSUME TypeOK, [Next]_vars, NEW d \in Deciders,
           dpc[d] \in {"last", "swept"}, dpc'[d] = "won"
    PROVE  ResumeAfterApproval(d) \/ RejectAfterApproval(d)
<1>0. dpc'[d] # dpc[d]
  OBVIOUS
<1>1. ASSUME NEW e \in Deciders, DeciderStep(e)
      PROVE  ResumeAfterApproval(d) \/ RejectAfterApproval(d)
  <2>1. CASE e # d
    <3>1. dpc'[d] = dpc[d]
      BY <1>1, <2>1 DEF DeciderStep, LoadRun, SelectApprovalGate, GiveUp, MintForResume,
         StoreForResume, LockGate, CountRemaining, ResumeAfterApproval, SweepSiblings,
         DeadlockVictim, RejectAfterApproval, RetireOld, DiscardNew, DeciderDone, TypeOK
    <3> QED BY <1>0, <3>1
  <2>2. CASE e = d
    BY <1>1, <2>2 DEF DeciderStep, LoadRun, SelectApprovalGate, GiveUp, MintForResume,
       StoreForResume, LockGate, CountRemaining, SweepSiblings,
       DeadlockVictim, RetireOld, DiscardNew, DeciderDone, TypeOK
  <2> QED BY <2>1, <2>2
<1>2. ASSUME NEW w \in Workers, Dequeue(w) \/ WorkerStep(w) PROVE FALSE
  BY <1>0, <1>2 DEF Dequeue, WorkerStep, FailRun, Begin, GraphReturns, ParkGate,
     PauseForApproval, CompleteRun, RevokeRunToken, Exit, deciderVars
<1>3. ASSUME NEW w \in Workers, RotateStep(w) \/ DeadlineFires(w) PROVE FALSE
  BY <1>0, <1>3 DEF RotateStep, RotateMint, RotateStore, RotateSwap, RotateStop,
     RetireRotated, DeadlineFires, deciderVars
<1>4. ASSUME NEW c \in Cancellers, CancelStep(c) PROVE FALSE
  BY <1>0, <1>4 DEF CancelStep, CancelLoad, CancelRow, CancelSignal, deciderVars
<1>5. ASSUME StartWorkflowRun \/ LeaseExpires \/ TimePasses \/ EditTimeout \/ Sweep PROVE FALSE
  BY <1>0, <1>5 DEF StartWorkflowRun, LeaseExpires, TimePasses, EditTimeout, Sweep,
     RecoverStuckRuns, FailTimedOutRuns, deciderVars
<1>6. ASSUME NEW r \in Replicas, Shutdown(r) \/ Crash(r) PROVE FALSE
  BY <1>0, <1>6 DEF Shutdown, Crash, deciderVars, TypeOK
<1>7. ASSUME UNCHANGED vars PROVE FALSE
  BY <1>0, <1>7 DEF vars, deciderVars
<1> QED BY <1>1, <1>2, <1>3, <1>4, <1>5, <1>6, <1>7 DEF Next

\* An approval of the current pause re-queues the run only when no gate is
\* left open: what it counted is still so when it commits.
THEOREM ResumeIsLast == Spec => ResumeNeedsEveryGate
<1>1. ASSUME IInv, [Next]_vars, NEW d \in Deciders \ late, dpc[d] = "last", dpc'[d] = "won"
      PROVE  status' = "pending" /\ \A g \in Gates : gate'[g] \in {"none", "completed"}
  <2>1. ResumeAfterApproval(d)
    BY <1>1, CommitStep DEF IInv, RejectAfterApproval
  <2>2. StillAwaiting /\ status' = "pending"
        /\ gate' = [gate EXCEPT ![dgate[d]] = "completed"]
    BY <1>1, <2>1 DEF ResumeAfterApproval, IInv, TypeOK
  <2>3. Open \subseteq {dgate[d]}
    BY <1>1, <2>2 DEF IInv, FreshInv, StillAwaiting
  <2>4. \A g \in Gates : gate[g] \in {"none", "completed", "awaiting_approval"}
    BY <1>1, <2>2 DEF IInv, TypeOK, RejectInv, StillAwaiting, GateStatus, Terminal
  <2> QED BY <1>1, <2>2, <2>3, <2>4 DEF IInv, TypeOK, Open
<1>2. IInv /\ [Next]_vars =>
        [\A d \in Deciders \ late :
            dpc[d] = "last" /\ dpc'[d] = "won"
                => status' = "pending" /\ \A g \in Gates : gate'[g] \in {"none", "completed"}]_vars
  BY <1>1
<1> QED BY <1>2, Invariant, PTL DEF Spec, ResumeNeedsEveryGate

\* A rejection of the current pause leaves no gate open: it locked every open
\* row before it committed, and nothing was parked since.
THEOREM RejectionIsTotal == Spec => RejectionClosesGates
<1>1. ASSUME IInv, [Next]_vars, NEW d \in Deciders \ late, dpc[d] = "swept", dpc'[d] = "won"
      PROVE  \A g \in Gates : gate'[g] # "awaiting_approval"
  <2>1. RejectAfterApproval(d)
    BY <1>1, CommitStep DEF IInv, ResumeAfterApproval
  <2>2. StillAwaiting
    BY <1>1, <2>1 DEF RejectAfterApproval, IInv, TypeOK
  <2>3. \A g \in Open : g = dgate[d] \/ g \in Siblings(d)
    BY <1>1, <2>2 DEF IInv, FreshInv, StillAwaiting, Siblings, Open
  <2> QED BY <2>1, <2>2, <2>3 DEF RejectAfterApproval, Open
<1>2. IInv /\ [Next]_vars =>
        [\A d \in Deciders \ late :
            dpc[d] = "swept" /\ dpc'[d] = "won"
                => \A g \in Gates : gate'[g] # "awaiting_approval"]_vars
  BY <1>1
<1> QED BY <1>2, Invariant, PTL DEF Spec, RejectionClosesGates

----------------------------------------------------------------------------
(* Refinement *)

\* Each step of the rows, requests and goroutines is a step of RunContract,
\* or changes nothing it speaks of.
LEMMA ContractStep == IInv /\ [Next]_vars => [Contract!Next]_(Contract!vars)
<1> SUFFICES ASSUME IInv, [Next]_vars PROVE [Contract!Next]_(Contract!vars)
    OBVIOUS
<1> USE DEF IInv, TypeOK, Executors, ParkedOn, Owner
<1>0. CASE UNCHANGED <<status, wpc, gate>>
  BY <1>0 DEF Contract!vars, Open
<1>1. CASE StartWorkflowRun
  <2>1. CASE status' = "pending"
    <3>1. Contract!Trigger
      BY <1>1, <2>1 DEF StartWorkflowRun, Contract!Trigger, workerVars, gateVars, Open
    <3> QED BY <3>1 DEF Contract!Next
  <2> QED BY <1>0, <1>1, <2>1 DEF StartWorkflowRun, workerVars, gateVars
<1>2. ASSUME NEW w \in Workers, Dequeue(w) PROVE Contract!Next
  <2>1. status = "pending" /\ status' = "running"
    BY <1>2 DEF Dequeue, Claimable
  <2>2. Executors = {}
    BY <2>1 DEF ExclusiveOwnership, Terminal
  <2>3. Executors' = {w}
    BY <1>2, <2>2 DEF Dequeue, Owning
  <2>4. Contract!Claim(w)
    BY <2>1, <2>2, <2>3 DEF Contract!Claim
  <2> QED BY <2>4 DEF Contract!Next
<1>3. ASSUME NEW w \in Workers, WorkerStep(w) PROVE [Contract!Next]_(Contract!vars)
  <2>1. ASSUME NEW result \in Terminal, wpc[w] \in Owning, Complete(result), gate' = gate,
               NEW after \in {"aborting", "revoking"}, wpc' = [wpc EXCEPT ![w] = after]
        PROVE  Contract!Next
    <3>1. status \in {"running"} \cup Terminal
      BY <2>1 DEF ExclusiveOwnership
    <3>2. status' = IF status = "running" THEN result ELSE status
      BY <2>1 DEF Complete
    <3>3. w \in Executors /\ Executors' = Executors \ {w}
      BY <2>1 DEF Owning
    <3>4. ParkedOn' = ParkedOn
      BY <2>1, <3>1, <3>2 DEF Terminal
    <3>5. Contract!Finish(w, result)
      BY <3>2, <3>3, <3>4 DEF Contract!Finish
    <3> QED BY <3>5 DEF Contract!Next, Terminal, Contract!Terminal
  <2>2. CASE FailRun(w)
    BY <2>1, <2>2 DEF FailRun, Owning, Terminal, gateVars
  <2>3. CASE CompleteRun(w)
    <3>1. wend[w] \in Terminal
      OBVIOUS
    <3> QED BY <2>1, <2>3, <3>1 DEF CompleteRun, Owning, gateVars
  <2>4. CASE PauseForApproval(w)
    <3>1. wpc[w] \in Owning /\ gate' = gate
      BY <2>4 DEF PauseForApproval, Owning, gateVars
    <3>2. status \in {"running"} \cup Terminal
      BY <3>1 DEF ExclusiveOwnership
    <3>3. CASE wctx[w] = "live"
      <4>1. w \in Executors /\ Executors' = Executors \ {w}
        BY <2>4, <3>1, <3>3 DEF PauseForApproval, Owning
      <4>2. \/ status = "running" /\ status' = "awaiting_approval" /\ ParkedOn' = Open
            \/ status \in Contract!Terminal /\ status' = status /\ ParkedOn' = ParkedOn
        BY <2>4, <3>1, <3>2, <3>3 DEF PauseForApproval, PausedStatus, Terminal,
           Contract!Terminal, Open
      <4>3. PICK S \in SUBSET Gates : S = Open
        BY DEF Open
      <4>4. Contract!Park(w, S)
        BY <4>1, <4>2, <4>3 DEF Contract!Park
      <4> QED BY <4>4 DEF Contract!Next
    <3>4. CASE wctx[w] # "live"
      <4>1. Executors' = Executors /\ status' = status
        BY <2>4, <3>4 DEF PauseForApproval, Owning
      <4> QED BY <3>1, <4>1 DEF Contract!vars, Open
    <3> QED BY <3>3, <3>4
  <2>5. CASE ParkGate(w)
    <3>1. status # "awaiting_approval"
      BY <2>5 DEF ParkGate, ExclusiveOwnership, Owning, Terminal
    <3>2. Executors' = Executors /\ status' = status
      BY <2>5 DEF ParkGate, Owning, rowVars
    <3> QED BY <3>1, <3>2 DEF Contract!vars
  <2>6. CASE \/ Begin(w) \/ RevokeRunToken(w) \/ Exit(w)
             \/ \E outcome \in Terminal \cup {"paused"} : GraphReturns(w, outcome)
    <3>1. Executors' = Executors
      BY <2>6 DEF Begin, RevokeRunToken, Exit, GraphReturns, Owning
    <3>2. status' = status /\ gate' = gate
      BY <2>6 DEF Begin, RevokeRunToken, Exit, GraphReturns, rowVars, gateVars
    <3> QED BY <3>1, <3>2 DEF Contract!vars, Open
  <2> QED BY <1>3, <2>2, <2>3, <2>4, <2>5, <2>6 DEF WorkerStep
<1>4. ASSUME NEW w \in Workers, RotateStep(w) \/ DeadlineFires(w)
      PROVE  UNCHANGED <<status, wpc, gate>>
  BY <1>4 DEF RotateStep, RotateMint, RotateStore, RotateSwap, RotateStop, RetireRotated,
     DeadlineFires, rowVars, workerVars, gateVars
<1>5. ASSUME NEW d \in Deciders, DeciderStep(d) PROVE [Contract!Next]_(Contract!vars)
  <2>1. ASSUME wpc' = wpc PROVE Executors' = Executors
    BY <2>1
  <2>2. CASE ResumeAfterApproval(d)
    <3>1. wpc' = wpc
      BY <2>2 DEF ResumeAfterApproval, workerVars
    <3>2. PICK g \in Gates : g = dgate[d] /\ g \in Open
      BY <2>2, RunConstants DEF ResumeAfterApproval, LockInv, Holding, Open, Actors
    <3>3. CASE status' = status /\ gate' = gate
      BY <1>0, <3>1, <3>3
    <3>4. CASE status' = status /\ gate' = [gate EXCEPT ![dgate[d]] = "completed"]
      <4>1. CASE status = "awaiting_approval"
        <5>1. Contract!Approve(g)
          BY <2>1, <3>1, <3>2, <3>4, <4>1 DEF Contract!Approve, Open
        <5> QED BY <5>1 DEF Contract!Next
      <4>2. CASE status # "awaiting_approval"
        BY <2>1, <3>1, <3>4, <4>2 DEF Contract!vars
      <4> QED BY <4>1, <4>2
    <3>5. CASE status = "awaiting_approval" /\ status' = "pending"
      <4>1. Executors = {}
        BY <3>5 DEF ExclusiveOwnership, Terminal
      <4>2. Contract!Approve(g)
        BY <2>1, <3>1, <3>2, <3>5, <4>1 DEF Contract!Approve
      <4> QED BY <4>2 DEF Contract!Next
    <3> QED BY <2>2, <3>3, <3>4, <3>5 DEF ResumeAfterApproval, StillAwaiting
  <2>3. CASE RejectAfterApproval(d)
    <3>1. wpc' = wpc
      BY <2>3 DEF RejectAfterApproval, workerVars
    <3>2. CASE StillAwaiting
      <4>1. dgate[d] \in Open
        BY <2>3, RunConstants DEF RejectAfterApproval, LockInv, Holding, Open, Actors
      <4>2. Contract!Reject
        BY <2>1, <2>3, <3>1, <3>2, <4>1 DEF RejectAfterApproval, StillAwaiting, Contract!Reject
      <4> QED BY <4>2 DEF Contract!Next
    <3>3. CASE ~StillAwaiting
      BY <1>0, <2>3, <3>1, <3>3 DEF RejectAfterApproval
    <3> QED BY <3>2, <3>3
  <2>4. CASE ~ResumeAfterApproval(d) /\ ~RejectAfterApproval(d)
    BY <1>0, <1>5, <2>4 DEF DeciderStep, LoadRun, SelectApprovalGate, GiveUp,
       MintForResume, StoreForResume, LockGate, CountRemaining, SweepSiblings,
       DeadlockVictim, RetireOld, DiscardNew, rowVars, workerVars, gateVars
  <2> QED BY <2>2, <2>3, <2>4
<1>6. ASSUME NEW c \in Cancellers, CancelStep(c) PROVE [Contract!Next]_(Contract!vars)
  <2>1. CASE CancelRow(c) /\ status \notin Terminal
    <3>1. status # "none"
      BY <2>1 DEF CancelRow, LoadedInv
    <3>2. Contract!Cancel
      BY <2>1, <3>1 DEF CancelRow, Contract!Cancel, RunStatus, Terminal, workerVars
    <3> QED BY <3>2 DEF Contract!Next
  <2>2. CASE CancelLoad(c) \/ CancelSignal(c) \/ (CancelRow(c) /\ status \in Terminal)
    BY <1>0, <2>2 DEF CancelLoad, CancelSignal, CancelRow, rowVars, workerVars, gateVars
  <2> QED BY <1>6, <2>1, <2>2 DEF CancelStep
<1>7. CASE LeaseExpires \/ TimePasses \/ EditTimeout
  BY <1>0, <1>7 DEF LeaseExpires, TimePasses, EditTimeout, workerVars, gateVars
<1>8. CASE Sweep
  <2>1. Contract!Reclaim
    BY <1>8 DEF Sweep, RecoverStuckRuns, FailTimedOutRuns, Complete, Contract!Reclaim, workerVars
  <2> QED BY <2>1 DEF Contract!Next
<1>9. ASSUME NEW r \in Replicas, Shutdown(r) PROVE UNCHANGED <<status, wpc, gate>>
  BY <1>9 DEF Shutdown, rowVars, gateVars
<1>10. ASSUME NEW r \in Replicas, Crash(r) PROVE Contract!Next
  <2>1. Executors' \subseteq Executors
    BY <1>10 DEF Crash, Owning
  <2>2. Contract!Vanish
    BY <1>10, <2>1 DEF Crash, Contract!Vanish, rowVars, Open
  <2> QED BY <2>2 DEF Contract!Next
<1>11. CASE UNCHANGED vars
  BY <1>0, <1>11 DEF vars, rowVars, workerVars, gateVars
<1> QED
  BY <1>0, <1>1, <1>2, <1>3, <1>4, <1>5, <1>6, <1>7, <1>8, <1>9, <1>10, <1>11 DEF Next

\* The service keeps the contract of a run: every execution of the detailed
\* specification is, seen from outside, an execution of RunContract.
THEOREM Refinement == Spec => ImplementsContract
<1>1. Init => Contract!Init
  BY DEF Init, Contract!Init, Executors, ParkedOn, Owner, Owning
<1> QED BY <1>1, ContractStep, Invariant, PTL DEF Spec, ImplementsContract, Contract!Spec

----------------------------------------------------------------------------
(* One decision request at a time *)

\* At most one approve or reject request is under way at any moment; the same
\* client may send any number of them one after the other.
OneRequest == \A d, e \in Deciders : d = e

\* With one request at a time only its own commit outlives a re-queue, what it
\* counted is what it commits on, and nobody closes a gate while it is parked.
PauseInv ==
    /\ \A d \in late : dpc[d] = "won"
    /\ \A d \in Deciders : dpc[d] = "held" /\ status = "awaiting_approval"
                             => Open \ {dgate[d]} # {}
    /\ \A w \in Workers : wpc[w] = "parking" /\ status = "running" => Open # {}
    /\ ParkedRunHasOpenGate

----------------------------------------------------------------------------
(* Which session may still be revoked *)

\* The sessions some row, goroutine or request has had from the row, and the
\* revoked ones.
Seen(s) ==
    \/ s = runSession \/ s \in revoked
    \/ \E w \in Workers : s = wsid[w] \/ s \in retiring[w]
    \/ \E d \in Deciders : s = dold[d]

\* A request that has stored its new session and not yet let go of the old one.
Storing == {"stored", "locked", "held", "last"}

\* Revoked, or due for it by a goroutine or request that goes on by itself.
AtRisk(s) ==
    \/ s \in revoked
    \/ \E w \in Workers : s \in retiring[w]
    \/ \E d \in Deciders : dpc[d] \in Storing \cup {"won"} /\ s = dold[d]

\* The session that a rotation under way will hand over for revocation.
Replacing(w, s) == rpc[w] \in {"minted", "stored"} /\ s = wsid[w]

\* Gatekeeper's numbering: no session is known before it is minted.
MintedInv ==
    /\ \A s \in SessionOrNull : Seen(s) => s <= minted
    /\ \A w \in Workers : rsid[w] <= minted
    /\ \A d \in Deciders : dnew[d] <= minted

\* A session that is minted and not yet stored is known to its minter alone, so
\* each one is written to the row at most once.
UnstoredInv ==
    /\ \A w \in Workers : rpc[w] = "minted" =>
          /\ rsid[w] # NoSession /\ ~Seen(rsid[w])
          /\ \A v \in Workers \ {w} : rsid[v] # rsid[w]
          /\ \A d \in Deciders : dnew[d] # rsid[w]
    /\ \A d \in Deciders : dpc[d] = "minted" =>
          /\ dnew[d] # NoSession /\ ~Seen(dnew[d])
          /\ \A w \in Workers : rsid[w] # dnew[d]

\* The run is queued, or an approval has stored the session it will be queued
\* with.
Requeueing == status = "pending" \/ \E d \in Deciders : dpc[d] \in Storing /\ dkind[d] = "approve"

\* Nobody is about to revoke the session the run is then queued with.
RowInv == Requeueing => ~AtRisk(runSession) /\ \A v \in Workers : ~Replacing(v, runSession)

\* The session of the worker that executes the run, and the one its rotation
\* is about to put in its place.
WorkerInv ==
    \A w \in Workers : Owner(w) /\ status = "running" =>
        /\ ~AtRisk(wsid[w])
        /\ \A v \in Workers \ {w} : ~Replacing(v, wsid[w])
        /\ rpc[w] = "stored" =>
             /\ rsid[w] # wsid[w] /\ ~AtRisk(rsid[w])
             /\ \A v \in Workers \ {w} : ~Replacing(v, rsid[w])

\* Requests mint, store and re-queue only to approve; the worker and the cancel
\* request that revoke on their way out left an ended run.
KindInv ==
    /\ \A d \in Deciders : dpc[d] \in {"minted", "stored", "held", "last"} => dkind[d] = "approve"
    /\ status \notin Terminal =>
          /\ \A w \in Workers : wpc[w] \notin {"revoking", "aborting"}
          /\ \A c \in Cancellers : cpc[c] # "signal"

\* An ended run stays ended and needs no session: the rest is about the others.
CredentialInv ==
    status \notin Terminal => MintedInv /\ UnstoredInv /\ RowInv /\ WorkerInv

\* A rotation's session is minted only while the worker owns the run: the next
\* one is due 30 to 60 minutes after the last (rotationInterval), and a worker
\* that has parked the run cancels its context at once. Without it the worker
\* could rotate twice before that, the second time a session its successor uses.
RotateWhileOwner ==
    \A w \in Workers : rpc[w] = "waiting" /\ rpc'[w] = "minted" => Owner(w)

\* A step of the one request, of a worker or of the sweeps keeps what the pause
\* rests on.
LEMMA PauseStep ==
    ASSUME OneRequest, TypeOK, ExclusiveOwnership, LockInv, FreshInv, PauseInv, [Next]_vars
    PROVE  PauseInv'
<1> USE DEF TypeOK, PauseInv, ParkedRunHasOpenGate, Open
<1>0. CASE UNCHANGED <<dpc, dgate, late, gate, wpc>> /\ (status' = status \/ status' \in Terminal)
  BY <1>0 DEF Terminal
<1>1. CASE StartWorkflowRun
  BY <1>1 DEF StartWorkflowRun, workerVars, gateVars, deciderVars
<1>2. ASSUME NEW w \in Workers, Dequeue(w) PROVE PauseInv'
  BY <1>2 DEF Dequeue, Claimable, ExclusiveOwnership, Owner, Owning,
     Terminal, gateVars, deciderVars
<1>3. ASSUME NEW w \in Workers, WorkerStep(w) PROVE PauseInv'
  <2>1. CASE FailRun(w)
    BY <2>1 DEF FailRun, Complete, gateVars, deciderVars
  <2>2. CASE Begin(w)
    BY <2>2 DEF Begin, rowVars, gateVars, deciderVars
  <2>3. ASSUME NEW outcome \in Terminal \cup {"paused"}, GraphReturns(w, outcome)
        PROVE PauseInv'
    BY <2>3 DEF GraphReturns, rowVars, gateVars, deciderVars
  <2>4. CASE ParkGate(w)
    <3>1. UNCHANGED <<dpc, dgate, late, status>>
      BY <2>4 DEF ParkGate, rowVars, deciderVars
    <3>2. status # "awaiting_approval"
      BY <2>4 DEF ParkGate, ExclusiveOwnership, Owner, Owning, Terminal
    <3>3. ASSUME NEW v \in Workers, wpc'[v] = "parking", status = "running" PROVE Open' # {}
      <4>1. CASE \E g \in Gates : gate' = [gate EXCEPT ![g] = "awaiting_approval"]
        BY <4>1
      <4>2. CASE gate' = gate /\ wpc' = [wpc EXCEPT ![w] = "finishing"]
        BY <3>3, <4>2
      <4> QED BY <2>4, <4>1, <4>2 DEF ParkGate
    <3> QED BY <3>1, <3>2, <3>3
  <2>5. CASE PauseForApproval(w)
    <3>1. UNCHANGED <<dpc, dgate, late, gate>>
      BY <2>5 DEF PauseForApproval, gateVars, deciderVars
    <3>2. status \in {"running"} \cup Terminal /\ wpc[w] = "parking"
      BY <2>5 DEF PauseForApproval, ExclusiveOwnership, Owner, Owning
    <3>3. CASE status = "running"
      <4>1. \A d \in Deciders : dpc[d] # "held"
        BY <3>3 DEF FreshInv, Terminal
      <4>2. \A v \in Workers : wpc'[v] = "parking" => wpc[v] = "parking"
        BY <2>5 DEF PauseForApproval
      <4>3. status' \in {"running", "awaiting_approval"} => Open' # {}
        BY <3>1, <3>2, <3>3
      <4> QED BY <3>1, <4>1, <4>2, <4>3
    <3>4. CASE status \in Terminal
      BY <2>5, <3>1, <3>4 DEF PauseForApproval, PausedStatus, Terminal
    <3> QED BY <3>2, <3>3, <3>4
  <2>6. CASE CompleteRun(w)
    BY <2>6 DEF CompleteRun, Complete, Terminal, gateVars, deciderVars
  <2>7. CASE RevokeRunToken(w)
    BY <2>7 DEF RevokeRunToken, rowVars, gateVars, deciderVars
  <2>8. CASE Exit(w)
    BY <2>8 DEF Exit, rowVars, gateVars, deciderVars
  <2> QED BY <1>3, <2>1, <2>2, <2>3, <2>4, <2>5, <2>6, <2>7, <2>8 DEF WorkerStep
<1>4. ASSUME NEW w \in Workers, RotateStep(w) \/ DeadlineFires(w) PROVE PauseInv'
  BY <1>0, <1>4 DEF RotateStep, RotateMint, RotateStore, RotateSwap, RotateStop,
     RetireRotated, DeadlineFires, rowVars, workerVars, gateVars, deciderVars
<1>5. ASSUME NEW d \in Deciders, DeciderStep(d) PROVE PauseInv'
  <2>0. \A e \in Deciders : e = d
    BY DEF OneRequest
  <2>2. CASE CountRemaining(d)
    <3>1. d \notin late
      BY <2>2 DEF CountRemaining
    <3>2. dpc'[d] = "held" => Open \ {dgate[d]} # {}
      BY <2>2 DEF CountRemaining, Remaining
    <3> QED BY <2>0, <2>2, <3>1, <3>2 DEF CountRemaining, rowVars, gateVars, workerVars
  <2>3. CASE ResumeAfterApproval(d)
    <3>1. d \notin late /\ status \in {"awaiting_approval"} \cup Terminal
      BY <2>3 DEF ResumeAfterApproval, FreshInv
    <3>2. wpc' = wpc /\ dgate' = dgate /\ dpc'[d] \in {"won", "lost"}
      BY <2>3 DEF ResumeAfterApproval, workerVars
    <3>3. late' = late \/ dpc'[d] = "won"
      BY <2>3 DEF ResumeAfterApproval
    <3>4. status' = "awaiting_approval" => Open' # {}
      BY <2>3, <3>1 DEF ResumeAfterApproval, StillAwaiting
    <3>5. status' # "running"
      BY <2>3, <3>1 DEF ResumeAfterApproval, Terminal
    <3>6. late' \subseteq Deciders
      BY <2>3 DEF ResumeAfterApproval, InFlight
    <3>7. \A e \in late' : dpc'[e] = "won"
      BY <2>0, <3>1, <3>3, <3>6
    <3> QED BY <2>0, <3>2, <3>4, <3>5, <3>7
  <2>4. CASE RejectAfterApproval(d)
    <3>1. d \notin late /\ status \in {"awaiting_approval"} \cup Terminal
      BY <2>4 DEF RejectAfterApproval, FreshInv
    <3>2. wpc' = wpc /\ dgate' = dgate /\ late' = late /\ dpc'[d] \in {"won", "lost"}
      BY <2>4 DEF RejectAfterApproval, workerVars
    <3>3. status' \in Terminal
      BY <2>4, <3>1 DEF RejectAfterApproval, StillAwaiting, Terminal
    <3> QED BY <2>0, <3>1, <3>2, <3>3 DEF Terminal
  <2>5. CASE GiveUp(d) \/ RetireOld(d) \/ DiscardNew(d) \/ DeadlockVictim(d)
    BY <2>0, <2>5 DEF GiveUp, RetireOld, DiscardNew, DeadlockVictim, DeciderDone, rowVars,
       gateVars, workerVars
  <2>6. CASE StoreForResume(d)
    <3>1. d \notin late
      BY <2>6 DEF StoreForResume
    <3> QED BY <2>0, <2>6, <3>1 DEF StoreForResume, DeciderDone, gateVars, workerVars
  <2>7. CASE MintForResume(d) \/ LockGate(d) \/ SweepSiblings(d)
    <3>1. d \notin late
      BY <2>7 DEF MintForResume, LockGate, SweepSiblings
    <3> QED BY <2>0, <2>7, <3>1 DEF MintForResume, LockGate, SweepSiblings, rowVars,
               gateVars, workerVars
  <2>8. CASE \/ \E kind \in {"approve", "reject"} : LoadRun(d, kind)
             \/ \E g \in Gates : SelectApprovalGate(d, g)
    <3>1. d \notin late
      BY <2>8 DEF LoadRun, SelectApprovalGate
    <3> QED BY <2>0, <2>8, <3>1 DEF LoadRun, SelectApprovalGate, rowVars, gateVars, workerVars
  <2> QED BY <1>5, <2>2, <2>3, <2>4, <2>5, <2>6, <2>7, <2>8 DEF DeciderStep
<1>6. ASSUME NEW c \in Cancellers, CancelStep(c) PROVE PauseInv'
  BY <1>0, <1>6 DEF CancelStep, CancelLoad, CancelRow, CancelSignal, rowVars, workerVars,
     gateVars, deciderVars, Terminal
<1>7. CASE LeaseExpires \/ TimePasses \/ EditTimeout \/ Sweep
  BY <1>0, <1>7 DEF LeaseExpires, TimePasses, EditTimeout, Sweep, RecoverStuckRuns,
     FailTimedOutRuns, Complete, workerVars, gateVars, deciderVars, Terminal
<1>8. ASSUME NEW r \in Replicas, Shutdown(r) PROVE PauseInv'
  BY <1>0, <1>8 DEF Shutdown, rowVars, gateVars, deciderVars
<1>9. ASSUME NEW r \in Replicas, Crash(r) PROVE PauseInv'
  BY <1>9 DEF Crash, rowVars
<1>10. CASE UNCHANGED vars
  BY <1>0, <1>10 DEF vars, rowVars, workerVars, gateVars, deciderVars
<1> QED
  BY <1>1, <1>2, <1>3, <1>4, <1>5, <1>6, <1>7, <1>8, <1>9, <1>10 DEF Next

\* Only an approval mints, and only an ended run is left with a revocation.
LEMMA KindStep ==
    ASSUME TypeOK, ExclusiveOwnership, KindInv, [Next]_vars
    PROVE  KindInv'
<1>1. status \in Terminal => status' \in Terminal
  BY TerminalStep
<1> USE DEF TypeOK, KindInv
<1>0. CASE UNCHANGED <<dpc, dkind, wpc, cpc>>
  BY <1>0, <1>1
<1>2. ASSUME NEW w \in Workers, Dequeue(w) \/ WorkerStep(w) PROVE KindInv'
  <2>1. UNCHANGED <<dpc, dkind, cpc>>
    BY <1>2 DEF Dequeue, WorkerStep, FailRun, Begin, GraphReturns, ParkGate,
       PauseForApproval, CompleteRun, RevokeRunToken, Exit, deciderVars, cancelVars
  <2>2. CASE wpc'[w] \in {"revoking", "aborting"}
    <3>1. FailRun(w) \/ CompleteRun(w)
      BY <1>2, <2>2 DEF Dequeue, WorkerStep, Begin, GraphReturns, ParkGate,
         PauseForApproval, RevokeRunToken, Exit
    <3>2. wpc[w] \in Owning /\ (status = "running" => status' \in Terminal)
      BY <3>1 DEF FailRun, CompleteRun, Complete, Owning, Terminal
    <3>3. status' \in Terminal
      BY <1>1, <3>2 DEF ExclusiveOwnership, Owner
    <3> QED BY <2>1, <3>3
  <2>3. CASE wpc'[w] \notin {"revoking", "aborting"}
    <3>1. \A v \in Workers : v # w => wpc'[v] = wpc[v]
      BY <1>2 DEF Dequeue, WorkerStep, FailRun, Begin, GraphReturns, ParkGate,
         PauseForApproval, CompleteRun, RevokeRunToken, Exit
    <3> QED BY <1>1, <2>1, <2>3, <3>1
  <2> QED BY <2>2, <2>3
<1>3. ASSUME NEW w \in Workers, RotateStep(w) \/ DeadlineFires(w) PROVE KindInv'
  BY <1>0, <1>3 DEF RotateStep, RotateMint, RotateStore, RotateSwap, RotateStop,
     RetireRotated, DeadlineFires, workerVars, deciderVars, cancelVars
<1>4. ASSUME NEW d \in Deciders, DeciderStep(d) PROVE KindInv'
  <2>1. UNCHANGED <<wpc, cpc>>
    BY <1>4 DEF DeciderStep, LoadRun, SelectApprovalGate, GiveUp, MintForResume,
       StoreForResume, LockGate, CountRemaining, ResumeAfterApproval, SweepSiblings,
       DeadlockVictim, RejectAfterApproval, RetireOld, DiscardNew, workerVars, cancelVars
  <2>2. \A e \in Deciders : dpc'[e] \in {"minted", "stored", "held", "last"} => dkind'[e] = "approve"
    BY <1>4 DEF DeciderStep, LoadRun, SelectApprovalGate, GiveUp, MintForResume,
       StoreForResume, LockGate, CountRemaining, ResumeAfterApproval, SweepSiblings,
       DeadlockVictim, RejectAfterApproval, RetireOld, DiscardNew, DeciderDone
  <2> QED BY <1>1, <2>1, <2>2
<1>5. ASSUME NEW c \in Cancellers, CancelStep(c) PROVE KindInv'
  <2>1. UNCHANGED <<dpc, dkind, wpc>>
    BY <1>5 DEF CancelStep, CancelLoad, CancelRow, CancelSignal, workerVars, deciderVars
  <2>2. status' \notin Terminal => \A b \in Cancellers : cpc'[b] # "signal"
    BY <1>1, <1>5 DEF CancelStep, CancelLoad, CancelRow, CancelSignal, CancellerDone, Terminal
  <2> QED BY <1>1, <2>1, <2>2
<1>6. CASE StartWorkflowRun \/ LeaseExpires \/ TimePasses \/ EditTimeout \/ Sweep
  BY <1>0, <1>6 DEF StartWorkflowRun, LeaseExpires, TimePasses, EditTimeout, Sweep,
     RecoverStuckRuns, FailTimedOutRuns, workerVars, deciderVars, cancelVars
<1>7. ASSUME NEW r \in Replicas, Shutdown(r) PROVE KindInv'
  BY <1>0, <1>7 DEF Shutdown, deciderVars, cancelVars
<1>8. ASSUME NEW r \in Replicas, Crash(r) PROVE KindInv'
  BY <1>1, <1>8 DEF Crash
<1>9. CASE UNCHANGED vars
  BY <1>0, <1>9 DEF vars, workerVars, deciderVars, cancelVars
<1> QED BY <1>2, <1>3, <1>4, <1>5, <1>6, <1>7, <1>8, <1>9 DEF Next

\* What keeps the unstored sessions private: a step makes at most one session
\* known, and not one that is minted and still unstored afterwards.
LEMMA SeenFrame ==
    ASSUME TypeOK, TypeOK', MintedInv, UnstoredInv, NEW x \in SessionOrNull,
           minted <= minted', x <= minted',
           \A s \in Sessions : Seen(s)' => Seen(s) \/ s = x,
           \A w \in Workers : rsid'[w] \in {rsid[w], NoSession},
           \A d \in Deciders : dnew'[d] \in {dnew[d], NoSession},
           \A w \in Workers : rpc'[w] = "minted" =>
              rpc[w] = "minted" /\ rsid'[w] = rsid[w] /\ (rsid[w] # x \/ x = NoSession),
           \A d \in Deciders : dpc'[d] = "minted" =>
              dpc[d] = "minted" /\ dnew'[d] = dnew[d] /\ (dnew[d] # x \/ x = NoSession)
    PROVE  MintedInv' /\ UnstoredInv'
<1> USE RunConstants
<1>1. minted \in Nat /\ minted' \in Nat /\ SessionOrNull \subseteq Nat /\ Sessions \subseteq SessionOrNull
      /\ \A s \in SessionOrNull : s \in Sessions \/ s = NoSession
  BY DEF TypeOK, SessionOrNull, Sessions, NoSession
<1>2. /\ \A w \in Workers : rsid[w] \in SessionOrNull /\ rsid'[w] \in SessionOrNull
      /\ \A d \in Deciders : dnew[d] \in SessionOrNull /\ dnew'[d] \in SessionOrNull
  BY DEF TypeOK
<1>3. MintedInv'
  <2>1. \A s \in SessionOrNull : Seen(s)' => s <= minted'
    BY <1>1 DEF MintedInv, NoSession
  <2>2. ASSUME NEW w \in Workers PROVE rsid'[w] <= minted'
    <3>1. PICK s \in Nat : s = rsid'[w] /\ (s = 0 \/ s <= minted)
      BY <1>1, <1>2 DEF MintedInv, NoSession
    <3> QED BY <1>1, <3>1
  <2>3. ASSUME NEW d \in Deciders PROVE dnew'[d] <= minted'
    <3>1. PICK s \in Nat : s = dnew'[d] /\ (s = 0 \/ s <= minted)
      BY <1>1, <1>2 DEF MintedInv, NoSession
    <3> QED BY <1>1, <3>1
  <2> QED BY <2>1, <2>2, <2>3 DEF MintedInv
<1>4. ASSUME NEW w \in Workers, rpc'[w] = "minted"
      PROVE  /\ rsid'[w] # NoSession /\ ~Seen(rsid[w])'
             /\ \A v \in Workers \ {w} : rsid'[v] # rsid'[w]
             /\ \A d \in Deciders : dnew'[d] # rsid'[w]
  <2>1. PICK s \in Sessions : s = rsid[w] /\ s # x /\ s # NoSession
    BY <1>1, <1>2, <1>4 DEF UnstoredInv
  <2>2. rsid'[w] = s /\ ~Seen(s) /\ ~Seen(s)'
    BY <1>4, <2>1 DEF UnstoredInv
  <2>3. ~Seen(rsid[w])'
    BY <2>2 DEF Seen
  <2>4. \A v \in Workers \ {w} : rsid'[v] # s
    BY <1>4, <2>1 DEF UnstoredInv
  <2>5. \A d \in Deciders : dnew'[d] # s
    BY <1>4, <2>1 DEF UnstoredInv
  <2> QED BY <2>1, <2>2, <2>3, <2>4, <2>5
<1>5. ASSUME NEW d \in Deciders, dpc'[d] = "minted"
      PROVE  /\ dnew'[d] # NoSession /\ ~Seen(dnew[d])'
             /\ \A w \in Workers : rsid'[w] # dnew'[d]
  <2>1. PICK s \in Sessions : s = dnew[d] /\ s # x /\ s # NoSession
    BY <1>1, <1>2, <1>5 DEF UnstoredInv
  <2>2. dnew'[d] = s /\ ~Seen(s) /\ ~Seen(s)'
    BY <1>5, <2>1 DEF UnstoredInv
  <2>3. ~Seen(dnew[d])'
    BY <2>2 DEF Seen
  <2>4. \A w \in Workers : rsid'[w] # s
    BY <1>5, <2>1 DEF UnstoredInv
  <2> QED BY <2>1, <2>2, <2>3, <2>4
<1> QED BY <1>3, <1>4, <1>5 DEF UnstoredInv

\* Minting moves the counter past every session there is.
LEMMA NextSession ==
    ASSUME NEW a \in Nat, NEW b, b = a + 1
    PROVE  /\ a <= b /\ b <= b
           /\ \A s \in SessionOrNull : s <= a => s <= b
<1>1. SessionOrNull \subseteq Nat
  BY DEF SessionOrNull, Sessions, NoSession
<1>2. \A s \in Nat : s <= a => s <= b
  OBVIOUS
<1> QED BY <1>1, <1>2

\* Every action mints a session nobody knows, passes on known ones, or stores
\* or revokes one that its minter then no longer holds as unstored.
LEMMA UnstoredStep ==
    ASSUME OneRequest, TypeOK, KindInv, MintedInv, UnstoredInv, status \notin Terminal, [Next]_vars
    PROVE  MintedInv' /\ UnstoredInv'
<1> USE RunConstants
<1>t. TypeOK'
  BY TypeStep
<1>n. /\ minted \in Nat /\ SessionOrNull \subseteq Nat /\ Sessions \subseteq SessionOrNull
      /\ NoSession \in SessionOrNull /\ NoSession \notin Sessions /\ NoSession <= minted
      /\ \A w \in Workers : rsid[w] \in SessionOrNull
      /\ \A d \in Deciders : dnew[d] \in SessionOrNull
  BY DEF TypeOK, SessionOrNull, Sessions, NoSession
<1>0. ASSUME minted' = minted, \A s \in Sessions : Seen(s)' => Seen(s),
             \A w \in Workers : rsid'[w] = rsid[w] \/ (rsid'[w] = NoSession /\ rpc'[w] # "minted"),
             \A d \in Deciders : dnew'[d] = dnew[d] \/ (dnew'[d] = NoSession /\ dpc'[d] # "minted"),
             \A w \in Workers : rpc'[w] = "minted" => rpc[w] = "minted",
             \A d \in Deciders : dpc'[d] = "minted" => dpc[d] = "minted"
      PROVE  MintedInv' /\ UnstoredInv'
  <2>1. minted <= minted' /\ NoSession <= minted'
    BY <1>n, <1>0
  <2> QED BY <1>t, <1>n, <1>0, <2>1, SeenFrame
<1>s. ASSUME UNCHANGED <<runSession, revoked, wsid, retiring, dold>>
      PROVE  \A s \in Sessions : Seen(s)' => Seen(s)
  BY <1>s DEF Seen
<1>1. CASE StartWorkflowRun
  <2>1. minted' = minted + 1 /\ minted' \in SessionOrNull
    BY <1>1, MintType DEF StartWorkflowRun, Mint, SessionOrNull
  <2>2. \A s \in Sessions : Seen(s)' => Seen(s) \/ s = minted'
    BY <1>1 DEF StartWorkflowRun, UpdateToken, Revoke, Seen, workerVars, rotateVars, deciderVars
  <2>3. UNCHANGED <<rsid, dnew, rpc, dpc>>
    BY <1>1 DEF StartWorkflowRun, rotateVars, deciderVars
  <2>4. (\A w \in Workers : rsid[w] # minted') /\ (\A d \in Deciders : dnew[d] # minted')
    BY <1>n, <2>1 DEF MintedInv
  <2>5. minted <= minted' /\ minted' <= minted'
    BY <1>n, <2>1
  <2> QED BY <1>t, <2>1, <2>2, <2>3, <2>4, <2>5, SeenFrame
<1>2. ASSUME NEW w \in Workers, Dequeue(w) PROVE MintedInv' /\ UnstoredInv'
  <2>1. \A s \in Sessions : Seen(s)' => Seen(s)
    BY <1>2 DEF Dequeue, Seen, TypeOK, rotateVars, deciderVars, sessionVars
  <2> QED BY <1>0, <1>2, <2>1 DEF Dequeue, rotateVars, deciderVars, sessionVars
<1>3. ASSUME NEW w \in Workers, WorkerStep(w) PROVE MintedInv' /\ UnstoredInv'
  <2>1. CASE RevokeRunToken(w)
    BY <2>1 DEF RevokeRunToken, KindInv
  <2>2. CASE Exit(w)
    <3>1. \A v \in Workers : wsid'[v] = wsid[v] \/ wsid'[v] = NoSession
      BY <2>2 DEF Exit, TypeOK
    <3>2. UNCHANGED <<runSession, revoked, retiring, dold, rsid, dnew, dpc, minted>>
      BY <2>2 DEF Exit, rowVars, deciderVars, sessionVars
    <3>3. \A s \in Sessions : Seen(s)' => Seen(s)
      BY <1>n, <3>1, <3>2 DEF Seen
    <3>4. \A v \in Workers : rpc'[v] = "minted" => rpc[v] = "minted"
      BY <2>2 DEF Exit, TypeOK
    <3> QED BY <1>0, <3>2, <3>3, <3>4
  <2>3. CASE Begin(w)
    <3>1. UNCHANGED <<runSession, revoked, wsid, retiring, dold, rsid, dnew, dpc, minted>>
      BY <2>3 DEF Begin, rowVars, deciderVars, sessionVars
    <3>2. \A v \in Workers : rpc'[v] = "minted" => rpc[v] = "minted"
      BY <2>3 DEF Begin, TypeOK
    <3> QED BY <1>0, <1>s, <3>1, <3>2
  <2>4. CASE FailRun(w) \/ CompleteRun(w)
    <3>1. runSession' = runSession \/ runSession' = NoSession
      BY <2>4 DEF FailRun, CompleteRun, Complete
    <3>2. UNCHANGED <<revoked, wsid, retiring, dold, rsid, dnew, rpc, dpc, minted>>
      BY <2>4 DEF FailRun, CompleteRun, rotateVars, deciderVars, sessionVars
    <3>3. \A s \in Sessions : Seen(s)' => Seen(s)
      BY <1>n, <3>1, <3>2 DEF Seen
    <3> QED BY <1>0, <3>2, <3>3
  <2>5. CASE \/ ParkGate(w) \/ PauseForApproval(w)
             \/ \E outcome \in Terminal \cup {"paused"} : GraphReturns(w, outcome)
    BY <1>0, <1>s, <2>5 DEF ParkGate, PauseForApproval, GraphReturns, rowVars, rotateVars,
       deciderVars, sessionVars
  <2> QED BY <1>3, <2>1, <2>2, <2>3, <2>4, <2>5 DEF WorkerStep
<1>4. ASSUME NEW w \in Workers, RotateStep(w) \/ DeadlineFires(w)
      PROVE  MintedInv' /\ UnstoredInv'
  <2>1. CASE RotateMint(w)
    <3>1. minted' = minted + 1 /\ minted' \in SessionOrNull /\ minted' # NoSession
      BY <1>n, <2>1, MintType DEF RotateMint, Mint, SessionOrNull, NoSession
    <3>2. UNCHANGED <<runSession, wsid, retiring, dold, dnew, dpc>>
      BY <2>1 DEF RotateMint, rowVars, workerVars, deciderVars
    <3>3. /\ minted <= minted' /\ minted' <= minted'
          /\ \A s \in SessionOrNull : s <= minted => s <= minted'
      BY <1>n, <3>1, NextSession
    <3>4. (\A v \in Workers : rsid[v] # minted') /\ (\A d \in Deciders : dnew[d] # minted')
      BY <1>n, <3>1 DEF MintedInv
    <3>5. CASE Revoke(minted') /\ UNCHANGED <<rpc, rsid>>
      <4>1. \A s \in Sessions : Seen(s)' => Seen(s) \/ s = minted'
        BY <3>2, <3>5 DEF Seen, Revoke
      <4> QED BY <1>t, <3>1, <3>2, <3>3, <3>4, <3>5, <4>1, SeenFrame
    <3>6. CASE /\ rpc' = [rpc EXCEPT ![w] = "minted"] /\ rsid' = [rsid EXCEPT ![w] = minted']
               /\ UNCHANGED revoked
      <4>1. \A s \in SessionOrNull : Seen(s)' <=> Seen(s)
        BY <3>2, <3>6 DEF Seen
      <4>2. \A v \in Workers : rsid'[v] = IF v = w THEN minted' ELSE rsid[v]
        BY <3>6 DEF TypeOK
      <4>3. \A v \in Workers : rpc'[v] = IF v = w THEN "minted" ELSE rpc[v]
        BY <3>6 DEF TypeOK
      <4>4. MintedInv'
        <5>1. \A s \in SessionOrNull : Seen(s)' => s <= minted'
          BY <1>n, <3>1, <4>1 DEF MintedInv
        <5>2. \A v \in Workers : rsid'[v] <= minted'
          BY <1>n, <3>3, <4>2 DEF MintedInv
        <5>3. \A d \in Deciders : dnew'[d] <= minted'
          BY <1>n, <3>2, <3>3 DEF MintedInv
        <5> QED BY <5>1, <5>2, <5>3 DEF MintedInv
      <4>5. ~Seen(minted')
        BY <1>n, <3>1 DEF MintedInv
      <4>6. ASSUME NEW v \in Workers, rpc'[v] = "minted"
            PROVE  /\ rsid'[v] # NoSession /\ ~Seen(rsid[v])'
                   /\ \A u \in Workers \ {v} : rsid'[u] # rsid'[v]
                   /\ \A d \in Deciders : dnew'[d] # rsid'[v]
        <5>1. PICK s \in SessionOrNull : s = rsid'[v]
          BY <1>n, <3>1, <4>2
        <5>2. s # NoSession /\ ~Seen(s)
          BY <3>1, <4>2, <4>3, <4>5, <4>6, <5>1 DEF UnstoredInv
        <5>3. ~Seen(rsid[v])'
          <6>1. ~Seen(s)'
            BY <4>1, <5>2
          <6> QED BY <5>1, <6>1 DEF Seen
        <5>4. \A u \in Workers \ {v} : rsid'[u] # rsid'[v]
          BY <3>4, <4>2, <4>3, <4>6 DEF UnstoredInv
        <5>5. \A d \in Deciders : dnew'[d] # rsid'[v]
          BY <3>2, <3>4, <4>2, <4>3, <4>6 DEF UnstoredInv
        <5> QED BY <5>1, <5>2, <5>3, <5>4, <5>5
      <4>7. ASSUME NEW d \in Deciders, dpc'[d] = "minted"
            PROVE  /\ dnew'[d] # NoSession /\ ~Seen(dnew[d])'
                   /\ \A v \in Workers : rsid'[v] # dnew'[d]
        <5>1. dnew'[d] = dnew[d] /\ dnew[d] # NoSession /\ ~Seen(dnew[d])
          BY <3>2, <4>7 DEF UnstoredInv
        <5>2. ~Seen(dnew[d])'
          <6>1. PICK s \in SessionOrNull : s = dnew[d]
            BY <1>n
          <6>2. ~Seen(s)'
            BY <4>1, <5>1, <6>1
          <6> QED BY <5>1, <6>1, <6>2 DEF Seen
        <5> QED BY <3>2, <3>4, <4>2, <4>7, <5>1, <5>2 DEF UnstoredInv
      <4> QED BY <4>4, <4>6, <4>7 DEF UnstoredInv
    <3> QED BY <2>1, <3>5, <3>6 DEF RotateMint
  <2>2. CASE RotateStore(w)
    <3>1. UNCHANGED <<wsid, retiring, dold, dnew, dpc, minted>> /\ rpc[w] = "minted"
      BY <2>2 DEF RotateStore, workerVars, deciderVars
    <3>2. \A s \in Sessions : Seen(s)' => Seen(s) \/ s = rsid[w]
      BY <2>2, <3>1 DEF RotateStore, UpdateToken, Revoke, Seen
    <3>3. \A v \in Workers : rsid'[v] = rsid[v] \/ (rsid'[v] = NoSession /\ rpc'[v] # "minted")
      BY <2>2 DEF RotateStore, TypeOK
    <3>4. \A v \in Workers : rpc'[v] = "minted" => rpc[v] = "minted" /\ v # w
      BY <2>2 DEF RotateStore, TypeOK
    <3>5. \A v \in Workers : rpc'[v] = "minted" => rsid[v] # rsid[w]
      BY <3>1, <3>4 DEF UnstoredInv
    <3>6. \A d \in Deciders : dnew[d] # rsid[w]
      BY <3>1 DEF UnstoredInv
    <3>7. rsid[w] <= minted /\ minted <= minted /\ rsid[w] \in SessionOrNull
      BY <1>n DEF MintedInv
    <3> QED BY <1>t, <3>1, <3>2, <3>3, <3>4, <3>5, <3>6, <3>7, SeenFrame
  <2>3. CASE RotateSwap(w)
    <3>1. UNCHANGED <<runSession, revoked, dold, dnew, dpc, minted>> /\ rpc[w] = "stored"
      BY <2>3 DEF RotateSwap, rowVars, deciderVars, sessionVars
    <3>2. \A v \in Workers : /\ wsid'[v] = IF v = w THEN rsid[w] ELSE wsid[v]
                             /\ retiring'[v] \subseteq retiring[v] \cup {wsid[v]}
      BY <2>3 DEF RotateSwap, ReplacedSession, TypeOK
    <3>3. \A s \in Sessions : Seen(s)' => Seen(s) \/ s = rsid[w]
      BY <3>1, <3>2 DEF Seen
    <3>4. \A v \in Workers : rsid'[v] = rsid[v] \/ (rsid'[v] = NoSession /\ rpc'[v] # "minted")
      BY <2>3 DEF RotateSwap, TypeOK
    <3>5. \A v \in Workers : rpc'[v] = "minted" => rpc[v] = "minted" /\ v # w
      BY <2>3 DEF RotateSwap, TypeOK
    <3>6. \A v \in Workers : rpc'[v] = "minted" => rsid[v] # rsid[w]
      BY <3>5 DEF UnstoredInv
    <3>7. \A d \in Deciders : dpc[d] = "minted" => dnew[d] # rsid[w]
      BY DEF UnstoredInv
    <3>8. rsid[w] <= minted /\ minted <= minted /\ rsid[w] \in SessionOrNull
      BY <1>n DEF MintedInv
    <3> QED BY <1>t, <3>1, <3>3, <3>4, <3>5, <3>6, <3>7, <3>8, SeenFrame
  <2>4. ASSUME NEW s \in Sessions, RetireRotated(w, s) PROVE MintedInv' /\ UnstoredInv'
    <3>1. UNCHANGED <<runSession, wsid, dold, rsid, dnew, rpc, dpc, minted>>
      BY <2>4 DEF RetireRotated, rowVars, workerVars, deciderVars
    <3>2. revoked' \subseteq revoked \cup {s} /\ Seen(s)
      BY <2>4 DEF RetireRotated, Revoke, Seen
    <3>3. \A v \in Workers : retiring'[v] \subseteq retiring[v]
      BY <2>4 DEF RetireRotated, TypeOK
    <3>4. \A t \in Sessions : Seen(t)' => Seen(t)
      BY <3>1, <3>2, <3>3 DEF Seen
    <3> QED BY <1>0, <3>1, <3>4
  <2>5. CASE RotateStop(w)
    <3>1. UNCHANGED <<runSession, revoked, wsid, retiring, dold, rsid, dnew, dpc, minted>>
      BY <2>5 DEF RotateStop, rowVars, workerVars, deciderVars, sessionVars
    <3>2. \A v \in Workers : rpc'[v] = "minted" => rpc[v] = "minted"
      BY <2>5 DEF RotateStop, TypeOK
    <3> QED BY <1>0, <1>s, <3>1, <3>2
  <2>6. CASE DeadlineFires(w)
    BY <1>0, <1>s, <2>6 DEF DeadlineFires, rowVars, rotateVars, deciderVars, sessionVars
  <2> QED BY <1>4, <2>1, <2>2, <2>3, <2>4, <2>5, <2>6 DEF RotateStep
<1>5. ASSUME NEW d \in Deciders, DeciderStep(d) PROVE MintedInv' /\ UnstoredInv'
  <2>1. ASSUME NEW kind \in {"approve", "reject"}, LoadRun(d, kind)
        PROVE  MintedInv' /\ UnstoredInv'
    <3>1. UNCHANGED <<runSession, revoked, wsid, retiring, rsid, dnew, rpc, minted>>
      BY <2>1 DEF LoadRun, rowVars, workerVars, rotateVars, sessionVars
    <3>2. \A e \in Deciders : dold'[e] \in {dold[e], runSession}
      BY <2>1 DEF LoadRun, TypeOK
    <3>3. \A s \in Sessions : Seen(s)' => Seen(s)
      BY <3>1, <3>2 DEF Seen
    <3>4. \A e \in Deciders : dpc'[e] = "minted" => dpc[e] = "minted"
      BY <2>1 DEF LoadRun, TypeOK
    <3> QED BY <1>0, <3>1, <3>3, <3>4
  <2>2. CASE MintForResume(d)
    <3>1. minted' = minted + 1 /\ minted' \in SessionOrNull /\ minted' # NoSession
      BY <1>n, <2>2, MintType DEF MintForResume, Mint, SessionOrNull, NoSession
    <3>2. UNCHANGED <<runSession, revoked, wsid, retiring, dold, rsid, rpc>>
      BY <2>2 DEF MintForResume, rowVars, workerVars, rotateVars
    <3>3. (\A v \in Workers : rsid[v] # minted') /\ (\A e \in Deciders : dnew[e] # minted')
      BY <1>n, <3>1 DEF MintedInv
    <3>4. \A s \in SessionOrNull : Seen(s)' <=> Seen(s)
      BY <3>2 DEF Seen
    <3>5. \A e \in Deciders : dnew'[e] = IF e = d THEN minted' ELSE dnew[e]
      BY <2>2 DEF MintForResume, TypeOK
    <3>6. \A e \in Deciders : dpc'[e] = IF e = d THEN "minted" ELSE dpc[e]
      BY <2>2 DEF MintForResume, TypeOK
    <3>7. MintedInv'
      <4>0. minted' <= minted' /\ \A s \in SessionOrNull : s <= minted => s <= minted'
        BY <1>n, <3>1, NextSession
      <4>1. \A s \in SessionOrNull : Seen(s)' => s <= minted'
        BY <1>n, <3>1, <3>4 DEF MintedInv
      <4>2. \A v \in Workers : rsid'[v] <= minted'
        BY <1>n, <3>2, <4>0 DEF MintedInv
      <4>3. \A e \in Deciders : dnew'[e] <= minted'
        BY <1>n, <3>5, <4>0 DEF MintedInv
      <4> QED BY <4>1, <4>2, <4>3 DEF MintedInv
    <3>8. ~Seen(minted')
      BY <1>n, <3>1 DEF MintedInv
    <3>9. ASSUME NEW e \in Deciders, dpc'[e] = "minted"
          PROVE  /\ dnew'[e] # NoSession /\ ~Seen(dnew[e])'
                 /\ \A w \in Workers : rsid'[w] # dnew'[e]
      <4>1. PICK s \in SessionOrNull : s = dnew'[e]
        BY <1>n, <3>1, <3>5
      <4>2. s # NoSession /\ ~Seen(s)
        BY <3>1, <3>5, <3>6, <3>8, <3>9, <4>1 DEF UnstoredInv
      <4>3. ~Seen(dnew[e])'
        <5>1. ~Seen(s)'
          BY <3>4, <4>2
        <5> QED BY <4>1, <5>1 DEF Seen
      <4>4. \A w \in Workers : rsid'[w] # dnew'[e]
        BY <3>2, <3>3, <3>5, <3>6, <3>9 DEF UnstoredInv
      <4> QED BY <4>1, <4>2, <4>3, <4>4
    <3>10. ASSUME NEW w \in Workers, rpc'[w] = "minted"
           PROVE  /\ rsid'[w] # NoSession /\ ~Seen(rsid[w])'
                  /\ \A v \in Workers \ {w} : rsid'[v] # rsid'[w]
                  /\ \A e \in Deciders : dnew'[e] # rsid'[w]
      <4>1. rsid'[w] = rsid[w] /\ rsid[w] # NoSession /\ ~Seen(rsid[w])
        BY <3>2, <3>10 DEF UnstoredInv
      <4>2. ~Seen(rsid[w])'
        <5>1. PICK s \in SessionOrNull : s = rsid[w]
          BY <1>n
        <5>2. ~Seen(s)'
          BY <3>4, <4>1, <5>1
        <5> QED BY <4>1, <5>1, <5>2 DEF Seen
      <4> QED BY <3>2, <3>3, <3>5, <3>10, <4>1, <4>2 DEF UnstoredInv
    <3> QED BY <3>7, <3>9, <3>10 DEF UnstoredInv
  <2>3. CASE StoreForResume(d)
    <3>1. UNCHANGED <<wsid, retiring, rsid, rpc, minted>> /\ dpc[d] = "minted"
      BY <2>3 DEF StoreForResume, workerVars, rotateVars
    <3>2. \A e \in Deciders : dold'[e] \in {dold[e], NoSession}
      BY <2>3 DEF StoreForResume, DeciderDone, TypeOK
    <3>3. \A s \in Sessions : Seen(s)' => Seen(s) \/ s = dnew[d]
      BY <1>n, <2>3, <3>1, <3>2 DEF StoreForResume, UpdateToken, Revoke, Seen
    <3>4. \A e \in Deciders : dnew'[e] = dnew[e] \/ (dnew'[e] = NoSession /\ dpc'[e] # "minted")
      BY <2>3 DEF StoreForResume, DeciderDone, TypeOK
    <3>5. \A e \in Deciders : dpc'[e] = "minted" => dpc[e] = "minted" /\ e # d
      BY <2>3 DEF StoreForResume, DeciderDone, TypeOK
    <3>6. \A e \in Deciders : e = d
      BY DEF OneRequest
    <3>7. \A w \in Workers : rsid[w] # dnew[d]
      BY <3>1 DEF UnstoredInv
    <3>8. dnew[d] <= minted /\ minted <= minted /\ dnew[d] \in SessionOrNull
      BY <1>n DEF MintedInv
    <3> QED BY <1>t, <3>1, <3>3, <3>4, <3>5, <3>6, <3>7, <3>8, SeenFrame
  <2>4. CASE DiscardNew(d)
    <3>1. UNCHANGED <<runSession, wsid, retiring, rsid, rpc, minted>> /\ dpc[d] = "lost"
      BY <2>4 DEF DiscardNew, rowVars, workerVars, rotateVars
    <3>2. \A e \in Deciders : dold'[e] \in {dold[e], NoSession}
      BY <2>4 DEF DiscardNew, DeciderDone, TypeOK
    <3>3. \A s \in Sessions : Seen(s)' => Seen(s) \/ s = dnew[d]
      BY <1>n, <2>4, <3>1, <3>2 DEF DiscardNew, Revoke, Seen
    <3>4. \A e \in Deciders : dnew'[e] = dnew[e] \/ (dnew'[e] = NoSession /\ dpc'[e] # "minted")
      BY <2>4 DEF DiscardNew, DeciderDone, TypeOK
    <3>5. \A e \in Deciders : dpc'[e] = "minted" => dpc[e] = "minted" /\ e # d
      BY <2>4 DEF DiscardNew, DeciderDone, TypeOK
    <3>6. \A e \in Deciders : e = d
      BY DEF OneRequest
    <3>7. \A w \in Workers : rpc[w] = "minted" => rsid[w] # dnew[d]
      BY DEF UnstoredInv
    <3>8. dnew[d] <= minted /\ minted <= minted /\ dnew[d] \in SessionOrNull
      BY <1>n DEF MintedInv
    <3> QED BY <1>t, <3>1, <3>3, <3>4, <3>5, <3>6, <3>7, <3>8, SeenFrame
  <2>5. CASE GiveUp(d) \/ RetireOld(d) \/ DeadlockVictim(d)
    <3>1. UNCHANGED <<runSession, wsid, retiring, rsid, rpc, minted>>
      BY <2>5 DEF GiveUp, RetireOld, DeadlockVictim, rowVars, workerVars, rotateVars, sessionVars
    <3>2. revoked' \subseteq revoked \cup {dold[d]}
      BY <2>5 DEF GiveUp, RetireOld, DeadlockVictim, Revoke, sessionVars
    <3>3. DeciderDone(d)
      BY <2>5 DEF GiveUp, RetireOld, DeadlockVictim
    <3>4. \A e \in Deciders : dold'[e] \in {dold[e], NoSession}
      BY <3>3 DEF DeciderDone, TypeOK
    <3>5. \A e \in Deciders : dnew'[e] = dnew[e] \/ (dnew'[e] = NoSession /\ dpc'[e] # "minted")
      BY <3>3 DEF DeciderDone, TypeOK
    <3>6. \A e \in Deciders : dpc'[e] = "minted" => dpc[e] = "minted"
      BY <3>3 DEF DeciderDone, TypeOK
    <3>7. \A s \in Sessions : Seen(s)' => Seen(s)
      BY <1>n, <3>1, <3>2, <3>4 DEF Seen
    <3> QED BY <1>0, <3>1, <3>5, <3>6, <3>7
  <2>6. CASE RejectAfterApproval(d)
    <3>1. runSession' = runSession \/ runSession' = NoSession
      BY <2>6 DEF RejectAfterApproval
    <3>2. UNCHANGED <<revoked, wsid, retiring, dold, rsid, dnew, rpc, minted>>
      BY <2>6 DEF RejectAfterApproval, workerVars, rotateVars, sessionVars
    <3>3. \A s \in Sessions : Seen(s)' => Seen(s)
      BY <1>n, <3>1, <3>2 DEF Seen
    <3>4. \A e \in Deciders : dpc'[e] = "minted" => dpc[e] = "minted"
      BY <2>6 DEF RejectAfterApproval, TypeOK
    <3> QED BY <1>0, <3>2, <3>3, <3>4
  <2>7. CASE \/ LockGate(d) \/ CountRemaining(d) \/ ResumeAfterApproval(d) \/ SweepSiblings(d)
             \/ \E g \in Gates : SelectApprovalGate(d, g)
    <3>1. UNCHANGED <<runSession, revoked, wsid, retiring, dold, rsid, dnew, rpc, minted>>
      BY <2>7 DEF LockGate, CountRemaining, ResumeAfterApproval, SweepSiblings,
         SelectApprovalGate, rowVars, workerVars, rotateVars, sessionVars
    <3>2. \A e \in Deciders : dpc'[e] = "minted" => dpc[e] = "minted"
      BY <2>7 DEF LockGate, CountRemaining, ResumeAfterApproval, SweepSiblings,
         SelectApprovalGate, TypeOK
    <3> QED BY <1>0, <1>s, <3>1, <3>2
  <2> QED BY <1>5, <2>1, <2>2, <2>3, <2>4, <2>5, <2>6, <2>7 DEF DeciderStep
<1>6. ASSUME NEW c \in Cancellers, CancelStep(c) PROVE MintedInv' /\ UnstoredInv'
  <2>1. cpc[c] # "signal"
    BY DEF KindInv
  <2> QED BY <1>0, <1>s, <1>6, <2>1 DEF CancelStep, CancelLoad, CancelRow, CancelSignal, rowVars,
             workerVars, rotateVars, deciderVars, sessionVars
<1>7. CASE Sweep
  <2>1. runSession' = runSession \/ runSession' = NoSession
    BY <1>7 DEF Sweep, RecoverStuckRuns, FailTimedOutRuns, Complete
  <2>2. UNCHANGED <<revoked, wsid, retiring, dold, rsid, dnew, rpc, dpc, minted>>
    BY <1>7 DEF Sweep, RecoverStuckRuns, FailTimedOutRuns, workerVars, rotateVars, deciderVars,
       sessionVars
  <2>3. \A s \in Sessions : Seen(s)' => Seen(s)
    BY <1>n, <2>1, <2>2 DEF Seen
  <2> QED BY <1>0, <2>2, <2>3
<1>8. CASE LeaseExpires \/ TimePasses \/ EditTimeout \/ \E r \in Replicas : Shutdown(r)
  BY <1>0, <1>s, <1>8 DEF LeaseExpires, TimePasses, EditTimeout, Shutdown, rowVars, workerVars,
     rotateVars, deciderVars, sessionVars
<1>9. ASSUME NEW r \in Replicas, Crash(r) PROVE MintedInv' /\ UnstoredInv'
  <2>1. UNCHANGED <<runSession, revoked, minted>>
    BY <1>9 DEF Crash, rowVars, sessionVars
  <2>2. \A w \in Workers : /\ wsid'[w] \in {wsid[w], NoSession} /\ retiring'[w] \subseteq retiring[w]
                           /\ rsid'[w] = rsid[w] \/ (rsid'[w] = NoSession /\ rpc'[w] # "minted")
                           /\ rpc'[w] = "minted" => rpc[w] = "minted"
    BY <1>9 DEF Crash, TypeOK
  <2>3. \A d \in Deciders : /\ dold'[d] \in {dold[d], NoSession}
                            /\ dnew'[d] = dnew[d] \/ (dnew'[d] = NoSession /\ dpc'[d] # "minted")
                            /\ dpc'[d] = "minted" => dpc[d] = "minted"
    BY <1>9 DEF Crash, TypeOK
  <2>4. \A s \in Sessions : Seen(s)' => Seen(s)
    BY <1>n, <2>1, <2>2, <2>3 DEF Seen
  <2> QED BY <1>0, <2>1, <2>2, <2>3, <2>4
<1>10. CASE UNCHANGED vars
  BY <1>0, <1>s, <1>10 DEF vars, rowVars, workerVars, rotateVars, deciderVars, sessionVars
<1> QED
  BY <1>1, <1>2, <1>3, <1>4, <1>5, <1>6, <1>7, <1>8, <1>9, <1>10 DEF Next

\* A step that puts no known session at risk, starts no rotation and hands
\* nobody another session keeps the sessions in use safe.
LEMMA SafeFrame ==
    ASSUME TypeOK, MintedInv, RowInv, WorkerInv,
           \A s \in SessionOrNull : s <= minted /\ AtRisk(s)' => AtRisk(s),
           \A v \in Workers : rpc'[v] \in {"minted", "stored"}
              => rpc[v] \in {"minted", "stored"} /\ wsid'[v] = wsid[v],
           runSession' = runSession,
           Requeueing' => Requeueing,
           \A w \in Workers : Owner(w)' /\ status' = "running" =>
              /\ Owner(w) /\ status = "running" /\ wsid'[w] = wsid[w]
              /\ rpc'[w] = "stored" => rpc[w] = "stored" /\ rsid'[w] = rsid[w]
    PROVE  RowInv' /\ WorkerInv'
<1>1. /\ runSession \in SessionOrNull /\ Seen(runSession)
      /\ \A w \in Workers : wsid[w] \in SessionOrNull /\ rsid[w] \in SessionOrNull /\ Seen(wsid[w])
  BY DEF TypeOK, Seen
<1>2. \A v \in Workers, s \in SessionOrNull : Replacing(v, s)' => Replacing(v, s)
  BY DEF Replacing
<1>3. RowInv'
  <2>1. SUFFICES ASSUME Requeueing'
                 PROVE  ~AtRisk(runSession)' /\ \A v \in Workers : ~Replacing(v, runSession)'
    BY DEF RowInv, Requeueing
  <2>2. ~AtRisk(runSession) /\ \A v \in Workers : ~Replacing(v, runSession)
    BY <2>1 DEF RowInv, Requeueing
  <2>3. PICK s \in SessionOrNull : s = runSession /\ s <= minted
    BY <1>1 DEF MintedInv
  <2>4. ~AtRisk(s)'
    BY <2>2, <2>3
  <2>5. ~AtRisk(runSession)'
    BY <2>3, <2>4 DEF AtRisk
  <2>6. \A v \in Workers : ~Replacing(v, runSession)'
    BY <2>2 DEF Replacing
  <2> QED BY <2>5, <2>6
<1>4. ASSUME NEW w \in Workers, Owner(w)', status' = "running"
      PROVE  /\ ~AtRisk(wsid[w])'
             /\ \A v \in Workers \ {w} : ~Replacing(v, wsid[w])'
             /\ rpc'[w] = "stored" =>
                  /\ rsid'[w] # wsid'[w] /\ ~AtRisk(rsid[w])'
                  /\ \A v \in Workers \ {w} : ~Replacing(v, rsid[w])'
  <2>1. Owner(w) /\ status = "running" /\ wsid'[w] = wsid[w]
    BY <1>4
  <2>2. PICK s \in SessionOrNull : s = wsid[w] /\ s <= minted
    BY <1>1 DEF MintedInv
  <2>3. ~AtRisk(s) /\ ~AtRisk(s)'
    BY <2>1, <2>2 DEF WorkerInv
  <2>4. ~AtRisk(wsid[w])'
    BY <2>1, <2>2, <2>3 DEF AtRisk
  <2>5. \A v \in Workers \ {w} : ~Replacing(v, wsid[w])'
    BY <2>1 DEF Replacing, WorkerInv
  <2>6. ASSUME rpc'[w] = "stored"
        PROVE  /\ rsid'[w] # wsid'[w] /\ ~AtRisk(rsid[w])'
               /\ \A v \in Workers \ {w} : ~Replacing(v, rsid[w])'
    <3>1. rpc[w] = "stored" /\ rsid'[w] = rsid[w]
      BY <1>4, <2>6
    <3>2. PICK t \in SessionOrNull : t = rsid[w] /\ t <= minted
      BY <1>1 DEF MintedInv
    <3>3. ~AtRisk(t) /\ ~AtRisk(t)'
      BY <2>1, <3>1, <3>2 DEF WorkerInv
    <3>4. ~AtRisk(rsid[w])'
      BY <3>1, <3>2, <3>3 DEF AtRisk
    <3> QED BY <2>1, <3>1, <3>4 DEF Replacing, WorkerInv
  <2> QED BY <2>4, <2>5, <2>6
<1> QED BY <1>3, <1>4 DEF WorkerInv

\* A session nobody knows is not one that somebody is about to revoke.
LEMMA UnseenIsSafe ==
    ASSUME NEW s, ~Seen(s) PROVE ~AtRisk(s) /\ \A v \in Workers : ~Replacing(v, s)
BY DEF Seen, AtRisk, Replacing

\* The session a run is queued or executed with is revoked by no step: what
\* the other goroutines and the request hold for revocation is never that one.
LEMMA SafeStep ==
    ASSUME OneRequest, IInv, PauseInv, KindInv, MintedInv, UnstoredInv, RowInv, WorkerInv,
           status \notin Terminal, status' \notin Terminal, [Next]_vars, RotateWhileOwner
    PROVE  RowInv' /\ WorkerInv'
<1> USE RunConstants
<1>n. /\ minted \in Nat /\ SessionOrNull \subseteq Nat /\ Sessions \subseteq SessionOrNull
      /\ runSession \in SessionOrNull /\ TypeOK
      /\ \A w \in Workers : rsid[w] \in SessionOrNull /\ wsid[w] \in SessionOrNull
      /\ \A d \in Deciders : dnew[d] \in SessionOrNull /\ dold[d] \in SessionOrNull
  BY DEF IInv, TypeOK, SessionOrNull, Sessions, NoSession
<1>o. \A w \in Workers : Owner(w) => status = "running"
  BY DEF IInv, ExclusiveOwnership
<1>q. \A d \in Deciders : dpc[d] \notin {"idle", "won"} => status = "awaiting_approval"
  BY DEF IInv, FreshInv, PauseInv
<1>r. ASSUME UNCHANGED <<revoked, retiring, dold, dpc>>
      PROVE  \A s \in SessionOrNull : AtRisk(s)' => AtRisk(s)
  BY <1>r DEF AtRisk
<1>0. ASSUME UNCHANGED <<runSession, revoked, retiring, dold, dpc, dkind, wsid, rsid, rpc>>,
             status' = "pending" => status = "pending",
             \A w \in Workers : Owner(w)' /\ status' = "running" => Owner(w) /\ status = "running"
      PROVE  RowInv' /\ WorkerInv'
  <2>1. Requeueing' => Requeueing
    BY <1>0 DEF Requeueing
  <2> QED BY <1>n, <1>r, <1>0, <2>1, SafeFrame
<1>1. CASE StartWorkflowRun
  <2>1. status' # "running" /\ status = "none" /\ minted' = minted + 1
    BY <1>1 DEF StartWorkflowRun, Mint
  <2>2. WorkerInv'
    BY <2>1 DEF WorkerInv
  <2>3. UNCHANGED <<wsid, retiring, dold, dpc, dkind, rpc>>
    BY <1>1 DEF StartWorkflowRun, workerVars, rotateVars, deciderVars
  <2>4. CASE status' = "pending"
    <3>1. runSession' = minted' /\ revoked' = revoked
      BY <1>1, <2>1, <2>4 DEF StartWorkflowRun, UpdateToken
    <3>2. minted' \in SessionOrNull
      BY <1>1, <1>n, MintType DEF StartWorkflowRun
    <3>3. ~Seen(minted')
      BY <1>n, <2>1, <3>2 DEF MintedInv
    <3>4. ~AtRisk(minted') /\ \A v \in Workers : ~Replacing(v, minted')
      BY <3>3, UnseenIsSafe
    <3>5. ~AtRisk(runSession)' /\ \A v \in Workers : ~Replacing(v, runSession)'
      BY <2>3, <3>1, <3>4 DEF AtRisk, Replacing
    <3> QED BY <2>2, <3>5 DEF RowInv, Requeueing
  <2>5. CASE status' # "pending"
    <3>1. ~Requeueing'
      BY <1>q, <2>1, <2>3, <2>5 DEF Requeueing, Storing
    <3> QED BY <2>2, <3>1 DEF RowInv, Requeueing
  <2> QED BY <2>4, <2>5
<1>2. ASSUME NEW w \in Workers, Dequeue(w) PROVE RowInv' /\ WorkerInv'
  <2>1. status = "pending" /\ status' = "running" /\ rpc[w] = "off"
        /\ UNCHANGED <<runSession, revoked, retiring, dold, dpc, dkind, rsid, rpc>>
    BY <1>2 DEF Dequeue, Claimable, rotateVars, deciderVars, sessionVars
  <2>2. \A v \in Workers : wsid'[v] = IF v = w THEN runSession ELSE wsid[v]
    BY <1>2, <1>n DEF Dequeue, TypeOK
  <2>3. \A v \in Workers : Owner(v)' => v = w
    BY <1>2, <1>n, <1>o, <2>1 DEF Dequeue, Owner, TypeOK
  <2>4. ~AtRisk(runSession) /\ \A v \in Workers : ~Replacing(v, runSession)
    BY <2>1 DEF RowInv, Requeueing
  <2>5. ~AtRisk(wsid[w])' /\ \A v \in Workers \ {w} : ~Replacing(v, wsid[w])'
    BY <2>1, <2>2, <2>4 DEF AtRisk, Replacing
  <2>6. WorkerInv'
    BY <2>1, <2>3, <2>5 DEF WorkerInv
  <2>7. ~Requeueing'
    BY <1>q, <2>1 DEF Requeueing, Storing
  <2> QED BY <2>6, <2>7 DEF RowInv, Requeueing
<1>3. ASSUME NEW w \in Workers, WorkerStep(w) PROVE RowInv' /\ WorkerInv'
  <2>1. CASE RevokeRunToken(w)
    BY <2>1 DEF RevokeRunToken, KindInv
  <2>2. CASE FailRun(w) \/ CompleteRun(w)
    <3>1. status = "running"
      BY <1>o, <2>2 DEF FailRun, CompleteRun, Owner, Owning
    <3> QED BY <1>n, <2>2, <3>1 DEF FailRun, CompleteRun, Complete, Terminal, TypeOK
  <2>3. CASE Begin(w) \/ Exit(w)
    <3>1. UNCHANGED <<status, runSession, revoked, retiring, dold, dpc, dkind, rsid>>
      BY <2>3 DEF Begin, Exit, rowVars, deciderVars, sessionVars
    <3>2. \A v \in Workers : rpc'[v] \in {"minted", "stored"} =>
             rpc'[v] = rpc[v] /\ wsid'[v] = wsid[v]
      BY <1>n, <2>3 DEF Begin, Exit, TypeOK
    <3>3. \A v \in Workers : Owner(v)' => Owner(v) /\ wsid'[v] = wsid[v]
      BY <1>n, <2>3 DEF Begin, Exit, Owner, Owning, TypeOK
    <3>4. Requeueing' => Requeueing
      BY <3>1 DEF Requeueing
    <3> QED BY <1>n, <1>r, <3>1, <3>2, <3>3, <3>4, SafeFrame
  <2>4. CASE \/ ParkGate(w) \/ PauseForApproval(w)
             \/ \E outcome \in Terminal \cup {"paused"} : GraphReturns(w, outcome)
    <3>1. UNCHANGED <<runSession, revoked, retiring, dold, dpc, dkind, wsid, rsid, rpc>>
      BY <2>4 DEF ParkGate, PauseForApproval, GraphReturns, rowVars, rotateVars, deciderVars,
         sessionVars
    <3>2. status' = status \/ status' = "awaiting_approval"
      BY <2>4 DEF ParkGate, PauseForApproval, PausedStatus, GraphReturns, rowVars
    <3>3. \A v \in Workers : Owner(v)' => Owner(v)
      BY <1>n, <2>4 DEF ParkGate, PauseForApproval, GraphReturns, Owner, Owning, TypeOK
    <3> QED BY <1>0, <3>1, <3>2, <3>3
  <2> QED BY <1>3, <2>1, <2>2, <2>3, <2>4 DEF WorkerStep
<1>4. ASSUME NEW w \in Workers, RotateStep(w) \/ DeadlineFires(w) PROVE RowInv' /\ WorkerInv'
  <2>0. UNCHANGED <<status, wpc, dpc, dkind, dold>> /\ (Requeueing' => Requeueing)
        /\ \A v \in Workers : Owner(v)' => Owner(v)
    <3>1. UNCHANGED <<status, wpc, dpc, dkind, dold>>
      BY <1>4 DEF RotateStep, RotateMint, RotateStore, RotateSwap, RotateStop, RetireRotated,
         DeadlineFires, rowVars, workerVars, deciderVars
    <3> QED BY <3>1 DEF Requeueing, Owner
  <2>1. CASE RotateMint(w)
    <3>1. UNCHANGED <<runSession, retiring, wsid>> /\ rpc[w] = "waiting" /\ minted' = minted + 1
      BY <2>1 DEF RotateMint, Mint, rowVars, workerVars
    <3>2. \A s \in SessionOrNull : s <= minted /\ AtRisk(s)' => AtRisk(s)
      BY <1>n, <2>0, <2>1, <3>1 DEF RotateMint, Revoke, AtRisk
    <3>3. CASE UNCHANGED <<rpc, rsid>>
      BY <1>n, <2>0, <3>1, <3>2, <3>3, SafeFrame
    <3>4. CASE rpc' = [rpc EXCEPT ![w] = "minted"] /\ rsid' = [rsid EXCEPT ![w] = minted']
               /\ UNCHANGED revoked
      <4>1. \A v \in Workers : rpc'[v] = IF v = w THEN "minted" ELSE rpc[v]
        BY <1>n, <3>4 DEF TypeOK
      <4>2. Owner(w) /\ status = "running"
        BY <1>o, <3>1, <4>1 DEF RotateWhileOwner
      <4>3. \A v \in Workers : Owner(v) => v = w
        BY <4>2 DEF IInv, ExclusiveOwnership
      <4>4. ~AtRisk(wsid[w]) /\ \A v \in Workers \ {w} : ~Replacing(v, wsid[w])
        BY <4>2 DEF WorkerInv
      <4>5. ~AtRisk(wsid[w])' /\ \A v \in Workers \ {w} : ~Replacing(v, wsid[w])'
        BY <2>0, <3>1, <3>4, <4>1, <4>4 DEF AtRisk, Replacing
      <4>6. WorkerInv'
        BY <2>0, <4>1, <4>3, <4>5 DEF WorkerInv
      <4>7. ~Requeueing
        BY <1>q, <4>2 DEF Requeueing, Storing
      <4> QED BY <2>0, <4>6, <4>7 DEF RowInv, Requeueing
    <3> QED BY <2>1, <3>3, <3>4 DEF RotateMint
  <2>2. CASE RotateStore(w)
    <3>1. UNCHANGED <<retiring, wsid>> /\ rpc[w] = "minted"
      BY <2>2 DEF RotateStore, workerVars
    <3>2. PICK s \in SessionOrNull : s = rsid[w]
      BY <1>n
    <3>3. ~Seen(s) /\ \A v \in Workers \ {w} : rsid[v] # s
      BY <3>1, <3>2 DEF UnstoredInv
    <3>4. ~AtRisk(s) /\ \A v \in Workers : ~Replacing(v, s)
      BY <3>3, UnseenIsSafe
    <3>5. s # runSession /\ \A v \in Workers : s # wsid[v]
      BY <3>3 DEF Seen
    <3>6. CASE UpdateToken(s) /\ rpc' = [rpc EXCEPT ![w] = "stored"] /\ UNCHANGED <<rsid, revoked>>
      <4>1. \A v \in Workers : rpc'[v] = IF v = w THEN "stored" ELSE rpc[v]
        BY <1>n, <3>6 DEF TypeOK
      <4>2. \A t \in SessionOrNull : AtRisk(t)' <=> AtRisk(t)
        BY <2>0, <3>1, <3>6 DEF AtRisk
      <4>3. \A v \in Workers, t \in SessionOrNull : Replacing(v, t)' <=> Replacing(v, t)
        BY <3>1, <4>1 DEF Replacing
      <4>4. ~AtRisk(s)' /\ \A v \in Workers : ~Replacing(v, s)'
        BY <3>4, <4>2, <4>3
      <4>5. RowInv'
        <5>1. runSession' = s
          BY <3>6 DEF UpdateToken
        <5>2. ~AtRisk(runSession)' /\ \A v \in Workers : ~Replacing(v, runSession)'
          BY <4>4, <5>1 DEF AtRisk, Replacing
        <5> QED BY <5>2 DEF RowInv, Requeueing
      <4>6. ASSUME NEW u \in Workers, Owner(u)', status' = "running"
            PROVE  /\ ~AtRisk(wsid[u])'
                   /\ \A v \in Workers \ {u} : ~Replacing(v, wsid[u])'
                   /\ rpc'[u] = "stored" =>
                        /\ rsid'[u] # wsid'[u] /\ ~AtRisk(rsid[u])'
                        /\ \A v \in Workers \ {u} : ~Replacing(v, rsid[u])'
        <5>1. Owner(u) /\ status = "running"
          BY <2>0, <4>6
        <5>2. ~AtRisk(wsid[u]) /\ \A v \in Workers \ {u} : ~Replacing(v, wsid[u])
          BY <5>1 DEF WorkerInv
        <5>3. ~AtRisk(wsid[u])'
          BY <2>0, <3>1, <3>6, <5>2 DEF AtRisk
        <5>4. \A v \in Workers \ {u} : ~Replacing(v, wsid[u])'
          BY <3>1, <4>1, <5>2 DEF Replacing
        <5>5. CASE u = w
          <6>1. rsid'[u] = s /\ rsid'[u] # wsid'[u]
            BY <3>1, <3>2, <3>5, <3>6, <5>5
          <6>2. ~AtRisk(rsid[u])' /\ \A v \in Workers : ~Replacing(v, rsid[u])'
            BY <4>4, <6>1 DEF AtRisk, Replacing
          <6> QED BY <5>3, <5>4, <6>1, <6>2
        <5>6. CASE u # w /\ rpc'[u] = "stored"
          <6>1. rpc[u] = "stored" /\ rsid'[u] = rsid[u] /\ wsid'[u] = wsid[u]
            BY <3>1, <3>6, <4>1, <5>6
          <6>2. /\ rsid[u] # wsid[u] /\ ~AtRisk(rsid[u])
                /\ \A v \in Workers \ {u} : ~Replacing(v, rsid[u])
            BY <5>1, <6>1 DEF WorkerInv
          <6>3. ~AtRisk(rsid[u])'
            BY <2>0, <3>1, <3>6, <6>2 DEF AtRisk
          <6>4. \A v \in Workers \ {u} : ~Replacing(v, rsid[u])'
            BY <3>1, <3>6, <4>1, <6>2 DEF Replacing
          <6> QED BY <5>3, <5>4, <6>1, <6>2, <6>3, <6>4
        <5> QED BY <5>3, <5>4, <5>5, <5>6
      <4> QED BY <4>5, <4>6 DEF WorkerInv
    <3>7. CASE Revoke(s) /\ UNCHANGED runSession /\ rsid' = [rsid EXCEPT ![w] = NoSession]
               /\ rpc' = [rpc EXCEPT ![w] = IF wctx[w] = "live" THEN "waiting" ELSE "off"]
      <4>1. \A v \in Workers : /\ v # w => rpc'[v] = rpc[v] /\ rsid'[v] = rsid[v]
                               /\ rpc'[w] \in {"waiting", "off"}
        BY <1>n, <3>7 DEF TypeOK
      <4>2. revoked' \subseteq revoked \cup {s}
        BY <3>7 DEF Revoke
      <4>3. RowInv'
        <5>1. SUFFICES ASSUME Requeueing
                       PROVE  ~AtRisk(runSession)' /\ \A v \in Workers : ~Replacing(v, runSession)'
          BY <2>0 DEF RowInv, Requeueing
        <5>2. ~AtRisk(runSession) /\ \A v \in Workers : ~Replacing(v, runSession)
          BY <5>1 DEF RowInv, Requeueing
        <5>3. ~AtRisk(runSession)'
          BY <2>0, <3>1, <3>5, <3>7, <4>2, <5>2 DEF AtRisk
        <5>4. \A v \in Workers : ~Replacing(v, runSession)'
          BY <3>1, <3>7, <4>1, <5>2 DEF Replacing
        <5> QED BY <5>3, <5>4
      <4>4. ASSUME NEW u \in Workers, Owner(u)', status' = "running"
            PROVE  /\ ~AtRisk(wsid[u])'
                   /\ \A v \in Workers \ {u} : ~Replacing(v, wsid[u])'
                   /\ rpc'[u] = "stored" =>
                        /\ rsid'[u] # wsid'[u] /\ ~AtRisk(rsid[u])'
                        /\ \A v \in Workers \ {u} : ~Replacing(v, rsid[u])'
        <5>1. Owner(u) /\ status = "running"
          BY <2>0, <4>4
        <5>2. ~AtRisk(wsid[u]) /\ \A v \in Workers \ {u} : ~Replacing(v, wsid[u])
          BY <5>1 DEF WorkerInv
        <5>3. ~AtRisk(wsid[u])'
          BY <2>0, <3>1, <3>5, <4>2, <5>2 DEF AtRisk
        <5>4. \A v \in Workers \ {u} : ~Replacing(v, wsid[u])'
          BY <3>1, <4>1, <5>2 DEF Replacing
        <5>5. ASSUME rpc'[u] = "stored"
              PROVE  /\ rsid'[u] # wsid'[u] /\ ~AtRisk(rsid[u])'
                     /\ \A v \in Workers \ {u} : ~Replacing(v, rsid[u])'
          <6>1. u # w /\ rpc[u] = "stored" /\ rsid'[u] = rsid[u] /\ wsid'[u] = wsid[u]
            BY <3>1, <4>1, <5>5
          <6>2. /\ rsid[u] # wsid[u] /\ ~AtRisk(rsid[u]) /\ rsid[u] # s
                /\ \A v \in Workers \ {u} : ~Replacing(v, rsid[u])
            BY <3>3, <5>1, <6>1 DEF WorkerInv
          <6>3. ~AtRisk(rsid[u])'
            BY <2>0, <3>1, <4>2, <6>1, <6>2 DEF AtRisk
          <6>4. \A v \in Workers \ {u} : ~Replacing(v, rsid[u])'
            BY <3>1, <4>1, <6>1, <6>2 DEF Replacing
          <6> QED BY <6>1, <6>2, <6>3, <6>4
        <5> QED BY <5>3, <5>4, <5>5
      <4> QED BY <4>3, <4>4 DEF WorkerInv
    <3> QED BY <2>2, <3>2, <3>6, <3>7 DEF RotateStore
  <2>3. CASE RotateSwap(w)
    <3>1. UNCHANGED <<runSession, revoked>> /\ rpc[w] = "stored"
      BY <2>3 DEF RotateSwap, rowVars, sessionVars
    <3>2. \A v \in Workers : /\ wsid'[v] = IF v = w THEN rsid[w] ELSE wsid[v]
                             /\ v # w => rpc'[v] = rpc[v] /\ rsid'[v] = rsid[v]
                             /\ rpc'[w] \in {"waiting", "off"}
      BY <1>n, <2>3 DEF RotateSwap, TypeOK
    <3>3. \A v \in Workers : retiring'[v] \subseteq retiring[v] \cup {wsid[w]}
      BY <1>n, <2>3 DEF RotateSwap, ReplacedSession, TypeOK
    <3>4. \A s \in SessionOrNull : AtRisk(s)' => AtRisk(s) \/ s = wsid[w]
      BY <2>0, <3>1, <3>3 DEF AtRisk
    <3>5. \A v \in Workers, s \in SessionOrNull : Replacing(v, s)' => Replacing(v, s) /\ v # w
      BY <3>2 DEF Replacing
    <3>6. RowInv'
      <4>1. SUFFICES ASSUME Requeueing
                     PROVE  ~AtRisk(runSession)' /\ \A v \in Workers : ~Replacing(v, runSession)'
        BY <2>0 DEF RowInv, Requeueing
      <4>2. ~AtRisk(runSession) /\ \A v \in Workers : ~Replacing(v, runSession)
        BY <4>1 DEF RowInv, Requeueing
      <4>3. runSession # wsid[w]
        BY <3>1, <4>2 DEF Replacing
      <4>4. ~AtRisk(runSession)'
        BY <2>0, <3>1, <3>3, <4>2, <4>3 DEF AtRisk
      <4>5. \A v \in Workers : ~Replacing(v, runSession)'
        BY <3>1, <3>2, <4>2 DEF Replacing
      <4> QED BY <4>4, <4>5
    <3>7. ASSUME NEW u \in Workers, Owner(u)', status' = "running"
          PROVE  /\ ~AtRisk(wsid[u])'
                 /\ \A v \in Workers \ {u} : ~Replacing(v, wsid[u])'
                 /\ rpc'[u] = "stored" =>
                      /\ rsid'[u] # wsid'[u] /\ ~AtRisk(rsid[u])'
                      /\ \A v \in Workers \ {u} : ~Replacing(v, rsid[u])'
      <4>1. Owner(u) /\ status = "running"
        BY <2>0, <3>7
      <4>2. /\ ~AtRisk(wsid[u]) /\ \A v \in Workers \ {u} : ~Replacing(v, wsid[u])
            /\ rpc[u] = "stored" => /\ rsid[u] # wsid[u] /\ ~AtRisk(rsid[u])
                                    /\ \A v \in Workers \ {u} : ~Replacing(v, rsid[u])
        BY <4>1 DEF WorkerInv
      <4>3. CASE u = w
        <5>1. wsid'[u] = rsid[w] /\ rpc'[u] # "stored"
          BY <3>2, <4>3
        <5>2. rsid[w] # wsid[w] /\ ~AtRisk(rsid[w])
          BY <3>1, <4>2, <4>3
        <5>3. ~AtRisk(wsid[u])'
          BY <2>0, <3>1, <3>3, <5>1, <5>2 DEF AtRisk
        <5>4. \A v \in Workers \ {u} : ~Replacing(v, wsid[u])'
          BY <3>1, <3>2, <4>2, <4>3, <5>1 DEF Replacing
        <5> QED BY <5>1, <5>3, <5>4
      <4>4. CASE u # w
        <5>1. wsid'[u] = wsid[u] /\ rpc'[u] = rpc[u] /\ rsid'[u] = rsid[u]
          BY <3>2, <4>4
        <5>2. wsid[u] # wsid[w] /\ (rpc[u] = "stored" => rsid[u] # wsid[w])
          BY <3>1, <4>2, <4>4 DEF Replacing
        <5>3. ~AtRisk(wsid[u])'
          BY <2>0, <3>1, <3>3, <4>2, <5>1, <5>2 DEF AtRisk
        <5>4. \A v \in Workers \ {u} : ~Replacing(v, wsid[u])'
          BY <3>2, <4>2, <5>1 DEF Replacing
        <5>5. rpc[u] = "stored" => ~AtRisk(rsid[u])'
          BY <2>0, <3>1, <3>3, <4>2, <5>1, <5>2 DEF AtRisk
        <5>6. rpc[u] = "stored" => \A v \in Workers \ {u} : ~Replacing(v, rsid[u])'
          BY <3>2, <4>2, <5>1 DEF Replacing
        <5> QED BY <4>2, <5>1, <5>3, <5>4, <5>5, <5>6
      <4> QED BY <4>3, <4>4
    <3> QED BY <3>6, <3>7 DEF WorkerInv
  <2>4. ASSUME NEW s \in Sessions, RetireRotated(w, s) PROVE RowInv' /\ WorkerInv'
    <3>1. UNCHANGED <<runSession, wsid, rsid, rpc>> /\ s \in retiring[w]
      BY <2>4 DEF RetireRotated, rowVars, workerVars
    <3>2. revoked' \subseteq revoked \cup {s} /\ \A v \in Workers : retiring'[v] \subseteq retiring[v]
      BY <1>n, <2>4 DEF RetireRotated, Revoke, TypeOK
    <3>3. \A t \in SessionOrNull : AtRisk(t)' => AtRisk(t)
      BY <2>0, <3>1, <3>2 DEF AtRisk
    <3> QED BY <1>n, <2>0, <3>1, <3>3, SafeFrame
  <2>5. CASE RotateStop(w)
    <3>1. UNCHANGED <<runSession, wsid, rsid, retiring, revoked>>
      BY <2>5 DEF RotateStop, rowVars, workerVars, sessionVars
    <3>2. \A v \in Workers : rpc'[v] \in {"minted", "stored"} => rpc'[v] = rpc[v]
      BY <1>n, <2>5 DEF RotateStop, TypeOK
    <3> QED BY <1>n, <1>r, <2>0, <3>1, <3>2, SafeFrame
  <2>6. CASE DeadlineFires(w)
    BY <1>0, <2>0, <2>6 DEF DeadlineFires, rowVars, rotateVars, sessionVars
  <2> QED BY <1>4, <2>1, <2>2, <2>3, <2>4, <2>5, <2>6 DEF RotateStep
<1>5. ASSUME NEW d \in Deciders, DeciderStep(d) PROVE RowInv' /\ WorkerInv'
  <2>0. \A e \in Deciders : e = d
    BY DEF OneRequest
  <2>w. UNCHANGED <<wpc, wsid, rsid, retiring, rpc>>
    BY <1>5 DEF DeciderStep, LoadRun, SelectApprovalGate, GiveUp, MintForResume,
       StoreForResume, LockGate, CountRemaining, ResumeAfterApproval, SweepSiblings,
       DeadlockVictim, RejectAfterApproval, RetireOld, DiscardNew, workerVars, rotateVars
  <2>q. ASSUME status' = "awaiting_approval", dpc'[d] \notin Storing \/ dkind'[d] # "approve"
        PROVE  RowInv' /\ WorkerInv'
    BY <2>0, <2>q DEF RowInv, Requeueing, WorkerInv
  <2>1. CASE RetireOld(d)
    <3>1. UNCHANGED <<status, runSession>> /\ dpc[d] = "won" /\ revoked' \subseteq revoked \cup {dold[d]}
      BY <2>1 DEF RetireOld, Revoke, rowVars
    <3>2. dpc'[d] = "idle"
      BY <1>n, <2>1 DEF RetireOld, DeciderDone, TypeOK
    <3>3. \A s \in SessionOrNull : AtRisk(s)' => AtRisk(s)
      BY <2>0, <2>w, <3>1, <3>2 DEF AtRisk, Storing
    <3>4. Requeueing' => Requeueing
      BY <2>0, <3>1, <3>2 DEF Requeueing, Storing
    <3>5. \A v \in Workers : Owner(v)' => Owner(v)
      BY <2>w DEF Owner
    <3> QED BY <1>n, <2>w, <3>1, <3>3, <3>4, <3>5, SafeFrame
  <2>2. CASE ResumeAfterApproval(d)
    <3>1. dpc[d] \in {"held", "last"} /\ status = "awaiting_approval"
          /\ UNCHANGED <<runSession, revoked, dold, dkind>>
      BY <1>q, <2>2 DEF ResumeAfterApproval, sessionVars
    <3>2. dpc'[d] = "won"
      BY <1>n, <2>2, <3>1 DEF ResumeAfterApproval, StillAwaiting, TypeOK
    <3>3. CASE status' = "awaiting_approval"
      BY <2>q, <3>2, <3>3 DEF Storing
    <3>4. CASE status' = "pending"
      <4>1. dkind[d] = "approve"
        BY <3>1 DEF KindInv
      <4>2. Requeueing
        BY <3>1, <4>1 DEF Requeueing, Storing
      <4>3. \A s \in SessionOrNull : AtRisk(s)' => AtRisk(s)
        BY <2>0, <2>w, <3>1, <3>2 DEF AtRisk, Storing
      <4> QED BY <1>n, <2>w, <3>1, <3>4, <4>2, <4>3, SafeFrame
    <3> QED BY <2>2, <3>1, <3>3, <3>4 DEF ResumeAfterApproval
  <2>3. CASE StoreForResume(d)
    <3>1. dpc[d] = "minted" /\ status = "awaiting_approval" /\ status' = status
      BY <1>q, <2>3 DEF StoreForResume
    <3>2. CASE dpc'[d] = "idle"
      BY <2>q, <3>1, <3>2 DEF Storing
    <3>3. CASE UpdateToken(dnew[d]) /\ dpc' = [dpc EXCEPT ![d] = "stored"]
               /\ UNCHANGED <<dkind, dold, revoked>>
      <4>1. PICK s \in SessionOrNull : s = dnew[d] /\ ~Seen(s)
        BY <1>n, <3>1 DEF UnstoredInv
      <4>2. runSession' = s
        BY <3>3, <4>1 DEF UpdateToken
      <4>3. ~AtRisk(runSession)'
        BY <2>w, <3>3, <4>1, <4>2 DEF AtRisk, Seen
      <4>4. \A v \in Workers : ~Replacing(v, runSession)'
        BY <2>w, <4>1, <4>2 DEF Replacing, Seen
      <4> QED BY <3>1, <4>3, <4>4 DEF RowInv, Requeueing, WorkerInv
    <3> QED BY <1>n, <2>3, <3>2, <3>3 DEF StoreForResume, DeciderDone, TypeOK
  <2>4. CASE LockGate(d) \/ CountRemaining(d)
    <3>1. status = "awaiting_approval" /\ UNCHANGED <<status, runSession, revoked, dold, dkind>>
      BY <1>q, <2>4 DEF LockGate, CountRemaining, rowVars, sessionVars
    <3>2. CASE dkind[d] # "approve" \/ dpc'[d] = "lost"
      BY <2>q, <3>1, <3>2 DEF Storing
    <3>3. CASE dkind[d] = "approve" /\ dpc'[d] # "lost"
      <4>1. dpc[d] \in Storing /\ dpc'[d] \in Storing
        BY <1>n, <2>4, <3>3 DEF LockGate, CountRemaining, Storing, TypeOK
      <4>2. \A s \in SessionOrNull : AtRisk(s)' => AtRisk(s)
        BY <2>0, <2>w, <3>1, <4>1 DEF AtRisk
      <4>3. Requeueing
        BY <3>3, <4>1 DEF Requeueing
      <4> QED BY <1>n, <2>w, <3>1, <4>2, <4>3, SafeFrame
    <3> QED BY <3>2, <3>3
  <2>5. CASE \/ SweepSiblings(d) \/ DeadlockVictim(d) \/ GiveUp(d) \/ MintForResume(d) \/ DiscardNew(d)
             \/ \E g \in Gates : SelectApprovalGate(d, g)
             \/ \E kind \in {"approve", "reject"} : LoadRun(d, kind)
    <3>1. status = "awaiting_approval" /\ status' = status
      BY <1>q, <2>5 DEF SweepSiblings, DeadlockVictim, GiveUp, MintForResume, DiscardNew,
         SelectApprovalGate, LoadRun, rowVars
    <3>2. dpc'[d] \in {"swept", "idle", "minted", "selected", "loaded"}
      BY <1>n, <2>5 DEF SweepSiblings, DeadlockVictim, GiveUp, MintForResume, DiscardNew,
         SelectApprovalGate, LoadRun, DeciderDone, TypeOK
    <3> QED BY <2>q, <3>1, <3>2 DEF Storing
  <2>6. CASE RejectAfterApproval(d)
    BY <1>q, <2>6 DEF RejectAfterApproval, StillAwaiting, Terminal
  <2> QED BY <1>5, <2>1, <2>2, <2>3, <2>4, <2>5, <2>6 DEF DeciderStep
<1>6. ASSUME NEW c \in Cancellers, CancelStep(c) PROVE RowInv' /\ WorkerInv'
  <2>1. cpc[c] # "signal"
    BY DEF KindInv
  <2>2. UNCHANGED <<runSession, revoked, retiring, dold, dpc, dkind, wsid, rsid, rpc, wpc>>
    BY <1>6, <2>1 DEF CancelStep, CancelLoad, CancelRow, CancelSignal, rowVars, workerVars,
       rotateVars, deciderVars, sessionVars
  <2>3. status' = status
    BY <1>6, <2>1 DEF CancelStep, CancelLoad, CancelRow, CancelSignal, rowVars, Terminal
  <2> QED BY <1>0, <2>2, <2>3 DEF Owner
<1>7. CASE Sweep
  BY <1>7 DEF Sweep, RecoverStuckRuns, FailTimedOutRuns, Complete, Terminal
<1>8. CASE LeaseExpires \/ TimePasses \/ EditTimeout \/ \E r \in Replicas : Shutdown(r)
  <2>1. UNCHANGED <<status, runSession, revoked, retiring, dold, dpc, dkind, wsid, rsid, rpc, wpc>>
    BY <1>8 DEF LeaseExpires, TimePasses, EditTimeout, Shutdown, rowVars, workerVars,
       rotateVars, deciderVars, sessionVars
  <2> QED BY <1>0, <2>1 DEF Owner
<1>9. ASSUME NEW r \in Replicas, Crash(r) PROVE RowInv' /\ WorkerInv'
  <2>1. UNCHANGED <<status, runSession, revoked>>
    BY <1>9 DEF Crash, rowVars, sessionVars
  <2>2. \A v \in Workers :
           \/ /\ wsid'[v] = wsid[v] /\ rsid'[v] = rsid[v] /\ rpc'[v] = rpc[v]
              /\ wpc'[v] = wpc[v] /\ retiring'[v] = retiring[v]
           \/ rpc'[v] = "off" /\ wpc'[v] = "idle" /\ retiring'[v] = {}
    BY <1>n, <1>9 DEF Crash, TypeOK
  <2>3. \A e \in Deciders : \/ dpc'[e] = dpc[e] /\ dold'[e] = dold[e] /\ dkind'[e] = dkind[e]
                            \/ dpc'[e] = "idle"
    BY <1>n, <1>9 DEF Crash, TypeOK
  <2>4. \A s \in SessionOrNull : AtRisk(s)' => AtRisk(s)
    BY <2>1, <2>2, <2>3 DEF AtRisk, Storing
  <2>5. Requeueing' => Requeueing
    BY <2>1, <2>3 DEF Requeueing, Storing
  <2>6. \A v \in Workers : Owner(v)' => /\ Owner(v) /\ wsid'[v] = wsid[v]
                                        /\ rsid'[v] = rsid[v] /\ rpc'[v] = rpc[v]
    BY <2>2 DEF Owner, Owning
  <2>7. \A v \in Workers : rpc'[v] \in {"minted", "stored"}
           => rpc[v] \in {"minted", "stored"} /\ wsid'[v] = wsid[v]
    BY <2>2
  <2> QED BY <1>n, <2>1, <2>4, <2>5, <2>6, <2>7, SafeFrame
<1>10. CASE UNCHANGED vars
  <2>1. UNCHANGED <<status, runSession, revoked, retiring, dold, dpc, dkind, wsid, rsid, rpc, wpc>>
    BY <1>10 DEF vars, rowVars, workerVars, rotateVars, deciderVars, sessionVars
  <2> QED BY <1>0, <2>1 DEF Owner
<1> QED
  BY <1>1, <1>2, <1>3, <1>4, <1>5, <1>6, <1>7, <1>8, <1>9, <1>10 DEF Next

\* One decision request at a time: then a parked run has a gate to decide, so
\* that an approval or a rejection can still move it (resumeAfterApproval).
THEOREM ParkedIsDecidable ==
    ASSUME OneRequest
    PROVE  Spec => []ParkedRunHasOpenGate
<1>1. Init => PauseInv
  BY DEF Init, PauseInv, ParkedRunHasOpenGate
<1>2. IInv /\ PauseInv /\ [Next]_vars => PauseInv'
  BY PauseStep DEF IInv
<1>3. PauseInv => ParkedRunHasOpenGate
  BY DEF PauseInv
<1> QED BY <1>1, <1>2, <1>3, Invariant, PTL DEF Spec

\* One decision request at a time, and no rotation between a worker's last write
\* and its exit: then an executing run has a live session and a parked run a
\* gate to decide, for any number of workers, replicas, gates, rotations,
\* cancels and crashes (approvalDecision, rotateToken, handleCancelRun).
THEOREM RunServed ==
    ASSUME OneRequest
    PROVE  Spec /\ [][RotateWhileOwner]_vars => []RunIsServed
<1> DEFINE SInv == IInv /\ PauseInv /\ KindInv /\ CredentialInv
<1>1. Init => SInv
  <2>1. ASSUME Init PROVE PauseInv /\ KindInv
    BY <2>1 DEF Init, PauseInv, ParkedRunHasOpenGate, KindInv
  <2>2. ASSUME Init PROVE CredentialInv
    <3>1. MintedInv
      BY <2>2, RunConstants DEF Init, MintedInv, Seen, NoSession, SessionOrNull, Sessions
    <3>2. UnstoredInv /\ RowInv /\ WorkerInv
      BY <2>2 DEF Init, UnstoredInv, RowInv, Requeueing, WorkerInv, Owner, Owning, Storing
    <3> QED BY <3>1, <3>2 DEF CredentialInv
  <2> QED BY <2>1, <2>2, InvInit
<1>2. SInv /\ [Next]_vars /\ [RotateWhileOwner]_vars => SInv'
  <2> SUFFICES ASSUME SInv, [Next]_vars, [RotateWhileOwner]_vars PROVE SInv'
      OBVIOUS
  <2>1. IInv'
    BY TypeStep, OwnershipStep, LockStep, RejectStep, FreshStep, CtxStep, OrphanStep,
       LoadedStep DEF IInv
  <2>2. PauseInv'
    BY PauseStep DEF IInv
  <2>3. KindInv'
    BY KindStep DEF IInv
  <2>4. RotateWhileOwner
    <3>1. CASE UNCHANGED vars
      BY <3>1 DEF RotateWhileOwner, vars, rotateVars
    <3> QED BY <3>1
  <2>5. CredentialInv'
    <3>1. SUFFICES ASSUME status' \notin Terminal
                   PROVE  (MintedInv /\ UnstoredInv /\ RowInv /\ WorkerInv)'
      BY DEF CredentialInv
    <3>2. status \notin Terminal
      BY <3>1, TerminalStep DEF IInv
    <3>3. MintedInv /\ UnstoredInv /\ RowInv /\ WorkerInv
      BY <3>2 DEF CredentialInv
    <3>4. MintedInv' /\ UnstoredInv'
      BY <3>2, <3>3, UnstoredStep DEF IInv
    <3>5. RowInv' /\ WorkerInv'
      BY <2>4, <3>1, <3>2, <3>3, SafeStep
    <3> QED BY <3>4, <3>5
  <2> QED BY <2>1, <2>2, <2>3, <2>5
<1>3. SInv => RunIsServed
  <2>1. ASSUME SInv PROVE UsableCredential
    BY <2>1 DEF CredentialInv, WorkerInv, AtRisk, Owner, Owning, UsableCredential, Terminal
  <2> QED BY <2>1 DEF PauseInv, RunIsServed
<1> QED BY <1>1, <1>2, <1>3, PTL DEF Spec

----------------------------------------------------------------------------
(* The graph scheduler *)

\* The type invariant of RunGraph.
GraphTypeOK ==
    /\ graph \in Graphs
    /\ nodes \in [Steps -> NodeState] /\ edges \in [graph.routes -> EdgeState]
    /\ work \subseteq Steps /\ visit \subseteq Regions
    /\ pc \in {"top", "launched", "done"} /\ ctx \in {"live", "dead"}
    /\ final \in {"completed", "failed", "cancelled"}
    /\ rows \subseteq Steps /\ decided \subseteq Steps
    /\ verdict \in [graph.routes -> {"unknown", "yes", "no"}]

\* The routes of a settled step are decided once resolveOutbound has served
\* it, by its state and by the answer its condition has had.
RoutesFollow ==
    /\ \A n \in work : nodes[n] \in Settled
    /\ \A r \in graph.routes :
        /\ edges[r] # "pending" <=> (nodes[r.from] \in Settled /\ r.from \notin work)
        /\ edges[r] # "pending" =>
            /\ edges[r] = DecideRoute(r, nodes[r.from], verdict[r] = "yes")
            /\ (r.when /\ nodes[r.from] \in {"completed", "failed"}) => verdict[r] # "unknown"

\* The cascade leaves no step behind that nothing leads to any more.
Cascaded ==
    \A n \in Steps :
        /\ \E r \in graph.routes : r.to = n
        /\ \A r \in graph.routes : r.to = n => edges[r] = "notTaken"
        => nodes[n] # "pending"

\* A step is recorded when it completed, and remembered when it was decided.
Remembered ==
    \A n \in Steps :
        /\ nodes[n] = "completed" <=> n \in rows
        /\ nodes[n] # "pending" => n \in decided

\* The members of a unit share their state, but for a cascade passing through.
\* Only approval steps wait.
UnitsMove ==
    /\ \A U \in Units : \/ \A m, n \in U : nodes[m] = nodes[n]
                        \/ \A n \in U : nodes[n] \in {"pending", "skipped"}
    /\ \A R \in Regions : LateEntry(R, graph) => \A m, n \in R : nodes[m] = nodes[n]
    /\ \A n \in Steps : nodes[n] = "awaiting" => n \in graph.gates

\* finalStatus keeps what went wrong.
FinalTells ==
    \A n \in Steps :
        /\ nodes[n] = "failed" => final = "failed"
        /\ nodes[n] = "cancelled" => final # "completed"

\* A skipped step had routes and none of them was taken; or it lies in a
\* region that was shut out as a whole.
ShutOut(R) ==
    /\ LateEntry(R, graph) /\ InboundOf(R) # {}
    /\ \A r \in InboundOf(R) : edges[r] = "notTaken"
SkippedForCause ==
    \A n \in Steps : nodes[n] = "skipped" =>
        \/ /\ \E r \in graph.routes : r.to = n
           /\ \A r \in graph.routes : r.to = n => nodes[r.from] = "skipped" \/ edges[r] = "notTaken"
        \/ \E R \in Regions : n \in R /\ ShutOut(R)

\* What the traversal before a pause decided and this one has not reached yet:
\* only steps that were skipped, and that will be skipped again.
Forgotten(n) == nodes[n] = "pending" /\ n \in decided
WillNotTake(r) ==
    \/ Forgotten(r.from) \/ nodes[r.from] = "skipped"
    \/ nodes[r.from] = "completed" /\ r.when /\ verdict[r] = "no"
Replaying ==
    pc = "top" /\ \A n \in Steps : nodes[n] \notin {"running", "awaiting"}
ForgottenRegion(R) ==
    /\ LateEntry(R, graph) /\ InboundOf(R) # {}
    /\ \A n \in R : Forgotten(n)
    /\ \A r \in InboundOf(R) : WillNotTake(r)
Replayed ==
    \A n \in Steps : Forgotten(n) =>
        \/ /\ Replaying
           /\ \E r \in graph.routes : r.to = n
           /\ \A r \in graph.routes : r.to = n => WillNotTake(r)
        \/ \E R \in Regions : n \in R /\ ForgottenRegion(R)

\* Behind a settled step all is settled, or was before the pause; behind a
\* unit under way all outside it is settled.
SettledBehind ==
    /\ \A r \in graph.routes : nodes[r.to] \in Settled =>
            nodes[r.from] \in Settled \/ Forgotten(r.from)
    /\ \A U \in Units : \A r \in InboundOf(U) :
            nodes[r.to] \in {"running", "awaiting"} => nodes[r.from] \in Settled

\* What a unit was launched for stays true.
Called(U) ==
    \/ InboundOf(U) = {}
    \/ \E r \in InboundOf(U) : /\ nodes[r.from] \in {"completed", "failed"}
                              /\ DecideRoute(r, nodes[r.from], verdict[r] = "yes") = "taken"
LaunchedWhenCalled ==
    \A U \in Units : (\E n \in U : nodes[n] \notin {"pending", "skipped"}) => Called(U)

\* Between two launches only the skipping of whole regions decides anything,
\* and it makes no unit ready that the launch has not seen.
Exhausted ==
    /\ pc # "top" => \A n \in work : \E R \in Regions : n \in R /\ LateEntry(R, graph)
    /\ pc # "top" /\ ctx = "live" =>
        /\ \A U \in Units : ~Ready(U)
        /\ \A R \in Regions \ visit : ~RegionSkipped(R)
    /\ pc = "done" =>
        work = {} /\ visit = {} /\ \A n \in Steps : nodes[n] # "running"

GraphInv ==
    /\ GraphTypeOK /\ RoutesFollow /\ Cascaded /\ Remembered /\ UnitsMove /\ FinalTells
    /\ SkippedForCause /\ Replayed /\ SettledBehind /\ LaunchedWhenCalled /\ Exhausted

\* Graphs every one of which is regular, with a completed step run for every
\* member of a completed region.
RegularRuns == BodyRecords /\ \A g \in Graphs : Regular(g)

\* What the model's constants say of the graph of a run: units are a partition
\* of the steps, approval steps are units of their own, and every set of steps
\* has one that nothing in the set leads to.
LEMMA GraphShape ==
    ASSUME graph \in Graphs
    PROVE  /\ \A r \in graph.routes : r.from \in Steps /\ r.to \in Steps /\ r.when \in BOOLEAN
           /\ \A U \in Units : U # {} /\ U \subseteq Steps
           /\ \A n \in Steps : \E U \in Units : n \in U
           /\ \A U, V \in Units : \A n \in Steps : n \in U /\ n \in V => U = V
           /\ Regions \subseteq Units
           /\ \A n \in graph.gates : n \in Steps /\ {n} \in Units
           /\ \A S \in SUBSET Steps : S # {} =>
                \E n \in S : \A r \in graph.routes : r.to = n => r.from \notin S
<1>1. graph \in Graph /\ ValidateGraph(graph) BY GraphConstants
<1>2. \A r \in graph.routes : r \in Route BY <1>1 DEF Graph
<1>3. \A r \in graph.routes : r.from \in Steps /\ r.to \in Steps /\ r.when \in BOOLEAN
  BY <1>2 DEF Route
<1>4. Acyclic(graph) /\ Disjoint(graph) /\ graph.gates \cap UNION Regions = {}
  BY <1>1 DEF ValidateGraph, Regions
<1>5. \A R \in Regions : R \subseteq Steps /\ R # {}
  BY <1>1, <1>4 DEF Graph, Regions, Disjoint
<1>6. Units = Regions \cup {{n} : n \in Steps \ UNION Regions}
  BY DEF Units, UnitsOf, Regions
<1>7. \A U \in Units : U # {} /\ U \subseteq Steps BY <1>5, <1>6
<1>8. \A n \in Steps : \E U \in Units : n \in U
  <2> SUFFICES ASSUME NEW n \in Steps PROVE \E U \in Units : n \in U OBVIOUS
  <2>1. CASE n \in UNION Regions BY <1>6, <2>1
  <2>2. CASE n \notin UNION Regions
    <3>1. {n} \in Units BY <1>6, <2>2
    <3> QED BY <3>1
  <2> QED BY <2>1, <2>2
<1>9. \A U, V \in Units : \A n \in Steps : n \in U /\ n \in V => U = V
  <2> SUFFICES ASSUME NEW U \in Units, NEW V \in Units, NEW n \in Steps, n \in U, n \in V
               PROVE  U = V
    OBVIOUS
  <2>1. CASE U \in Regions /\ V \in Regions BY <1>4, <2>1 DEF Disjoint, Regions
  <2>2. CASE U \in Regions /\ V \notin Regions BY <1>6, <2>2
  <2>3. CASE U \notin Regions /\ V \in Regions BY <1>6, <2>3
  <2>4. CASE U \notin Regions /\ V \notin Regions BY <1>6, <2>4
  <2> QED BY <2>1, <2>2, <2>3, <2>4
<1>10. \A n \in graph.gates : n \in Steps /\ {n} \in Units
  <2>1. graph.gates \subseteq Steps BY <1>1 DEF Graph
  <2> QED BY <1>4, <1>6, <2>1
<1> QED BY <1>3, <1>4, <1>6, <1>7, <1>8, <1>9, <1>10 DEF Acyclic

\* decideRoute, for a settled source.
LEMMA DecideRouteIs ==
    ASSUME NEW r, r.when \in BOOLEAN, NEW src \in Settled, NEW holds \in BOOLEAN
    PROVE  /\ DecideRoute(r, src, holds) \in {"taken", "notTaken"}
           /\ DecideRoute(r, src, holds) = "taken" <=>
                IF r.when THEN src \in {"completed", "failed"} /\ holds ELSE src = "completed"
<1>1. CASE src \in {"skipped", "cancelled"} BY <1>1 DEF DecideRoute
<1>2. CASE src \in {"completed", "failed"} /\ ~r.when BY <1>2 DEF DecideRoute
<1>3. CASE src \in {"completed", "failed"} /\ r.when BY <1>3 DEF DecideRoute
<1> QED BY <1>1, <1>2, <1>3 DEF Settled

\* One turn of resolveOutbound: the routes of n are decided by its state and
\* the answers known by then, and what is skipped is what it leaves unreached.
LEMMA Resolving ==
    ASSUME GraphTypeOK, RoutesFollow, NEW n \in Steps, ResolveOutbound(n)
    PROVE  /\ n \in work /\ nodes[n] \in Settled
           /\ UNCHANGED <<graph, pc, visit, final, ctx, rows>>
           /\ \A m \in Steps : nodes'[m] # nodes[m] =>
                /\ nodes[m] = "pending" /\ nodes'[m] = "skipped"
                /\ \E r \in graph.routes : r.from = n /\ r.to = m
                /\ \A r \in graph.routes : r.to = m => edges'[r] = "notTaken"
           /\ \A m \in Steps :
                /\ nodes[m] = "pending"
                /\ \E r \in graph.routes : r.from = n /\ r.to = m
                /\ \A r \in graph.routes : r.to = m => edges'[r] = "notTaken"
                => nodes'[m] = "skipped"
           /\ \A m \in Steps : m \in work' <=> (m \in work /\ m # n) \/ nodes'[m] # nodes[m]
           /\ \A m \in Steps : m \in decided' <=> m \in decided \/ nodes'[m] # nodes[m]
           /\ \A r \in graph.routes : r.from # n =>
                edges'[r] = edges[r] /\ verdict'[r] = verdict[r]
           /\ \A r \in graph.routes : r.from = n =>
                /\ edges[r] = "pending" /\ edges'[r] \in {"taken", "notTaken"}
                /\ edges'[r] = DecideRoute(r, nodes[n], verdict'[r] = "yes")
                /\ (r.when /\ nodes[n] \in {"completed", "failed"}) => verdict'[r] # "unknown"
                /\ verdict[r] # "unknown" => verdict'[r] = verdict[r]
           /\ nodes' \in [Steps -> NodeState] /\ edges' \in [graph.routes -> EdgeState]
           /\ work' \subseteq Steps /\ decided' \subseteq Steps
           /\ verdict' \in [graph.routes -> {"unknown", "yes", "no"}]
<1> DEFINE Es(yes) == [r \in graph.routes |->
                         IF r \in Out(n) /\ edges[r] = "pending"
                         THEN DecideRoute(r, nodes[n], r \in yes) ELSE edges[r]]
<1> DEFINE New(yes) == Unreached(n, Es(yes))
<1>1. PICK yes \in Answers(n) :
        /\ edges' = Es(yes)
        /\ nodes' = [m \in Steps |-> IF m \in New(yes) THEN "skipped" ELSE nodes[m]]
        /\ work' = QueueAfter(n, New(yes))
        /\ decided' = decided \cup New(yes)
        /\ verdict' = [r \in graph.routes |-> IF r \in Evaluated(n)
                                              THEN IF r \in yes THEN "yes" ELSE "no"
                                              ELSE verdict[r]]
  BY DEF ResolveOutbound
<1>2. n \in work /\ UNCHANGED <<graph, pc, visit, final, ctx, rows>> BY DEF ResolveOutbound
<1>3. nodes[n] \in Settled BY <1>2 DEF RoutesFollow
<1>4. \A r \in graph.routes : r \in Route /\ r.from \in Steps /\ r.to \in Steps /\ r.when \in BOOLEAN
  BY GraphConstants, GraphShape DEF GraphTypeOK, Graph
<1>5. \A r \in graph.routes : r.from = n => edges[r] = "pending"
  BY <1>2 DEF RoutesFollow
<1>6. \A r \in graph.routes : r.from = n <=> r \in Out(n) BY DEF Out
<1>7. \A r \in graph.routes : r.from = n => edges'[r] = DecideRoute(r, nodes[n], r \in yes)
  BY <1>1, <1>5, <1>6
<1>8. \A r \in graph.routes : r.from # n => edges'[r] = edges[r] /\ verdict'[r] = verdict[r]
  BY <1>1, <1>6 DEF Evaluated
<1>9. \A r \in graph.routes : r.from = n => edges'[r] \in {"taken", "notTaken"}
  <2> SUFFICES ASSUME NEW r \in graph.routes, r.from = n
               PROVE  edges'[r] \in {"taken", "notTaken"}
    OBVIOUS
  <2> DEFINE a == r \in yes
  <2>1. a \in BOOLEAN OBVIOUS
  <2>2. edges'[r] = DecideRoute(r, nodes[n], a) BY <1>7
  <2> HIDE DEF a
  <2> QED BY <1>3, <1>4, <2>1, <2>2, DecideRouteIs
<1>10. \A r \in graph.routes : r.from = n /\ r.when /\ nodes[n] \in {"completed", "failed"} =>
          /\ verdict'[r] = IF r \in yes THEN "yes" ELSE "no"
          /\ verdict[r] = "yes" => r \in yes
          /\ verdict[r] = "no" => r \notin yes
  BY <1>1, <1>6 DEF Evaluated, Answers
<1>11. \A r \in graph.routes : ~(r.from = n /\ r.when /\ nodes[n] \in {"completed", "failed"}) =>
          verdict'[r] = verdict[r]
  BY <1>1, <1>6 DEF Evaluated
<1>12. \A r \in graph.routes : r.from = n =>
          edges'[r] = DecideRoute(r, nodes[n], verdict'[r] = "yes")
  <2> SUFFICES ASSUME NEW r \in graph.routes, r.from = n
               PROVE  edges'[r] = DecideRoute(r, nodes[n], verdict'[r] = "yes")
    OBVIOUS
  <2>1. CASE r.when /\ nodes[n] \in {"completed", "failed"}
    <3>1. (verdict'[r] = "yes") <=> r \in yes BY <1>10, <2>1
    <3> DEFINE a == r \in yes
               b == verdict'[r] = "yes"
    <3>2. a \in BOOLEAN /\ b \in BOOLEAN OBVIOUS
    <3>3. DecideRoute(r, nodes[n], a) = "taken" <=> DecideRoute(r, nodes[n], b) = "taken"
      <4> HIDE DEF a, b
      <4> QED BY <1>3, <1>4, <2>1, <3>1, <3>2, DecideRouteIs DEF a, b
    <3>4. DecideRoute(r, nodes[n], a) \in {"taken", "notTaken"}
          /\ DecideRoute(r, nodes[n], b) \in {"taken", "notTaken"}
      <4> HIDE DEF a, b
      <4> QED BY <1>3, <1>4, <3>2, DecideRouteIs
    <3> QED BY <1>7, <3>3, <3>4
  <2>2. CASE ~(r.when /\ nodes[n] \in {"completed", "failed"})
    <3> DEFINE a == r \in yes
               b == verdict'[r] = "yes"
    <3>2. a \in BOOLEAN /\ b \in BOOLEAN OBVIOUS
    <3>3. DecideRoute(r, nodes[n], a) = "taken" <=> DecideRoute(r, nodes[n], b) = "taken"
      <4> HIDE DEF a, b
      <4> QED BY <1>3, <1>4, <2>2, <3>2, DecideRouteIs DEF Settled
    <3>4. DecideRoute(r, nodes[n], a) \in {"taken", "notTaken"}
          /\ DecideRoute(r, nodes[n], b) \in {"taken", "notTaken"}
      <4> HIDE DEF a, b
      <4> QED BY <1>3, <1>4, <3>2, DecideRouteIs
    <3> QED BY <1>7, <3>3, <3>4
  <2> QED BY <2>1, <2>2
<1>13. \A m \in Steps : m \in New(yes) <=>
          /\ nodes[m] = "pending"
          /\ \E r \in graph.routes : r.from = n /\ r.to = m
          /\ \A r \in graph.routes : r.to = m => edges'[r] = "notTaken"
  BY <1>1, <1>6 DEF Unreached, Out
<1>14. New(yes) \subseteq Steps BY <1>4 DEF Unreached, Out
<1>15. nodes \in [Steps -> NodeState] /\ edges \in [graph.routes -> EdgeState]
       /\ verdict \in [graph.routes -> {"unknown", "yes", "no"}]
       /\ work \subseteq Steps /\ decided \subseteq Steps
  BY DEF GraphTypeOK
<1>16. \A m \in Steps : m \in New(yes) <=> nodes'[m] # nodes[m]
  BY <1>1, <1>13
<1>17. nodes' \in [Steps -> NodeState] /\ work' \subseteq Steps /\ decided' \subseteq Steps
  <2> HIDE DEF New
  <2> QED BY <1>1, <1>14, <1>15 DEF NodeState, QueueAfter
<1>18. edges' \in [graph.routes -> EdgeState]
  <2>1. \A r \in graph.routes : edges'[r] \in EdgeState BY <1>8, <1>9, <1>15 DEF EdgeState
  <2> QED BY <1>1, <2>1
<1>19. verdict' \in [graph.routes -> {"unknown", "yes", "no"}]
  BY <1>1, <1>15
<1>20. \A m \in Steps : /\ m \in work' <=> (m \in work /\ m # n) \/ nodes'[m] # nodes[m]
                        /\ m \in decided' <=> m \in decided \/ nodes'[m] # nodes[m]
  <2> HIDE DEF New
  <2> QED BY <1>1, <1>16, <1>3 DEF QueueAfter, Settled
<1>21. \A m \in Steps : nodes'[m] = IF m \in New(yes) THEN "skipped" ELSE nodes[m] BY <1>1
<1>22. \A r \in graph.routes : r.from = n =>
          /\ (r.when /\ nodes[n] \in {"completed", "failed"}) => verdict'[r] # "unknown"
          /\ verdict[r] # "unknown" => verdict'[r] = verdict[r]
  BY <1>10, <1>11, <1>15
<1> HIDE DEF New, Es
<1> QED BY <1>2, <1>3, <1>5, <1>8, <1>9, <1>12, <1>13, <1>16, <1>17, <1>18, <1>19, <1>20, <1>21, <1>22

\* No step changes the graph, nor what is read off it.
LEMMA GraphFixed ==
    ASSUME [GraphNext]_graphVars
    PROVE  /\ graph' = graph /\ Regions' = Regions /\ Units' = Units
           /\ \A U : InboundOf(U)' = InboundOf(U)
<1>1. graph' = graph
  BY DEF GraphNext, Scheduler, ResolveOutbound, Launch, SkipLaunch, Drain, SkipSkippedRegion,
     Collect, CancelContext, Resume, graphVars
<1> QED BY <1>1 DEF Regions, Units, InboundOf

\* A launch starts the ready units, whole, and touches nothing else.
LEMMA Launching ==
    ASSUME GraphTypeOK, Launch
    PROVE  /\ pc = "top" /\ work = {} /\ ctx = "live" /\ pc' = "launched" /\ visit' = Regions
           /\ UNCHANGED <<graph, edges, work, final, ctx, rows, verdict>>
           /\ \A U \in Units : \A n \in U :
                /\ ~Ready(U) => nodes'[n] = nodes[n]
                /\ Ready(U) => nodes'[n] = IF n \in graph.gates THEN "awaiting" ELSE "running"
                /\ n \in decided' <=> n \in decided \/ Ready(U)
           /\ nodes' \in [Steps -> NodeState] /\ decided' \subseteq Steps
<1> USE GraphShape DEF GraphTypeOK
<1>1. \A U \in Units : \A n \in U : n \in Steps /\ (n \in UNION ReadyUnits <=> Ready(U))
  BY DEF ReadyUnits
<1>2. UNION ReadyUnits \subseteq Steps BY DEF ReadyUnits
<1>3. /\ nodes' = [n \in Steps |-> IF n \notin UNION ReadyUnits THEN nodes[n]
                                   ELSE IF n \in graph.gates THEN "awaiting" ELSE "running"]
      /\ decided' = decided \cup UNION ReadyUnits
      /\ pc = "top" /\ work = {} /\ ctx = "live" /\ pc' = "launched" /\ visit' = Regions
      /\ UNCHANGED <<graph, edges, work, final, ctx, rows, verdict>>
  BY DEF Launch
<1>4. nodes' \in [Steps -> NodeState] BY <1>3 DEF NodeState
<1>5. \A U \in Units : \A n \in U :
        /\ ~Ready(U) => nodes'[n] = nodes[n]
        /\ Ready(U) => nodes'[n] = IF n \in graph.gates THEN "awaiting" ELSE "running"
        /\ n \in decided' <=> n \in decided \/ Ready(U)
  BY <1>1, <1>3
<1>6. decided' \subseteq Steps BY <1>2, <1>3
<1> QED BY <1>3, <1>4, <1>5, <1>6

\* A unit reports, as a whole.
LEMMA Collecting ==
    ASSUME GraphTypeOK, NEW U \in Units, NEW state \in {"completed", "failed", "cancelled"},
           Collect(U, state)
    PROVE  /\ pc = "launched" /\ work = {} /\ visit = {} /\ pc' = "top" /\ work' = U
           /\ UNCHANGED <<graph, edges, visit, ctx, verdict, decided>>
           /\ \A n \in U : n \in Steps /\ nodes[n] = "running" /\ nodes'[n] = state
           /\ \A n \in Steps \ U : nodes'[n] = nodes[n]
           /\ BodyRecords => rows' = IF state = "completed" THEN rows \cup U ELSE rows
           /\ rows' \subseteq Steps
           /\ state = "failed" => final' = "failed"
           /\ state = "cancelled" => final' # "completed"
           /\ final = "failed" => final' = "failed"
           /\ final # "completed" => final' # "completed"
           /\ final' \in {"completed", "failed", "cancelled"}
           /\ nodes' \in [Steps -> NodeState]
<1> USE GraphShape DEF GraphTypeOK
<1>1. /\ nodes' = [n \in Steps |-> IF n \in U THEN state ELSE nodes[n]]
      /\ U \in LaunchedUnits /\ final' = FinalAfter(state)
      /\ pc = "launched" /\ work = {} /\ visit = {} /\ pc' = "top" /\ work' = U
      /\ UNCHANGED <<graph, edges, visit, ctx, verdict, decided>>
  BY DEF Collect
<1>2. U \subseteq Steps /\ \A n \in U : nodes[n] = "running" BY <1>1 DEF LaunchedUnits
<1>3. nodes' \in [Steps -> NodeState] BY <1>1 DEF NodeState
<1>4. Recorded(U) \subseteq SUBSET U BY DEF Recorded
<1>5. BodyRecords => Recorded(U) = {U} BY DEF Recorded
<1>6. CASE state = "completed"
  <2>1. PICK S \in Recorded(U) : rows' = rows \cup S BY <1>6 DEF Collect
  <2>2. rows' \subseteq Steps BY <1>2, <1>4, <2>1
  <2>3. BodyRecords => rows' = rows \cup U BY <1>5, <2>1
  <2>4. final' = final BY <1>1, <1>6 DEF FinalAfter
  <2> QED BY <1>1, <1>2, <1>3, <1>6, <2>2, <2>3, <2>4
<1>7. CASE state = "failed"
  <2>1. rows' = rows BY <1>7 DEF Collect
  <2>2. final' = "failed" BY <1>1, <1>7 DEF FinalAfter
  <2> QED BY <1>1, <1>2, <1>3, <1>7, <2>1, <2>2
<1>8. CASE state = "cancelled"
  <2>1. rows' = rows BY <1>8 DEF Collect
  <2>2. final' = IF final = "completed" THEN "cancelled" ELSE final
    BY <1>1, <1>8 DEF FinalAfter
  <2> QED BY <1>1, <1>2, <1>3, <1>8, <2>1, <2>2
<1> QED BY <1>6, <1>7, <1>8

\* A new execution starts from the completed step runs.
LEMMA Resuming ==
    ASSUME GraphTypeOK, Resume
    PROVE  /\ pc = "done" /\ ctx = "live" /\ final = "completed" /\ pc' = "top"
           /\ UNCHANGED <<graph, visit, final, ctx, verdict, decided>>
           /\ \A n \in Steps :
                /\ n \in rows' <=> n \in rows \/ nodes[n] = "awaiting"
                /\ nodes'[n] = IF n \in rows' THEN "completed" ELSE "pending"
                /\ n \in work' <=> n \in rows'
           /\ \A r \in graph.routes : edges'[r] = "pending"
           /\ rows' \subseteq Steps /\ work' \subseteq Steps
           /\ nodes' \in [Steps -> NodeState] /\ edges' \in [graph.routes -> EdgeState]
<1> USE DEF GraphTypeOK
<1>1. /\ rows' = rows \cup Awaiting
      /\ nodes' = [n \in Steps |-> Rebuilt(n)]
      /\ edges' = [r \in graph.routes |-> "pending"]
      /\ work' = {n \in Steps : Rebuilt(n) = "completed"}
      /\ pc = "done" /\ ctx = "live" /\ Outcome = "paused" /\ pc' = "top"
      /\ UNCHANGED <<graph, visit, final, ctx, verdict, decided>>
  BY DEF Resume
<1>2. final = "completed" BY <1>1 DEF Outcome
<1>3. \A n \in Steps : n \in Awaiting <=> nodes[n] = "awaiting" BY DEF Awaiting
<1>4. Awaiting \subseteq Steps BY DEF Awaiting
<1>5. \A n \in Steps : Rebuilt(n) = IF n \in rows' THEN "completed" ELSE "pending"
  BY <1>1 DEF Rebuilt
<1>6. nodes' \in [Steps -> NodeState] /\ edges' \in [graph.routes -> EdgeState]
  BY <1>1, <1>5 DEF NodeState, EdgeState
<1>7. rows' \subseteq Steps /\ work' \subseteq Steps BY <1>1, <1>4
<1>8. \A n \in Steps : /\ n \in rows' <=> n \in rows \/ nodes[n] = "awaiting"
                       /\ nodes'[n] = IF n \in rows' THEN "completed" ELSE "pending"
                       /\ n \in work' <=> n \in rows'
  BY <1>1, <1>3, <1>5
<1> QED BY <1>1, <1>2, <1>6, <1>7, <1>8

\* A region that no route reached is skipped as a whole.
LEMMA SkippingRegion ==
    ASSUME GraphTypeOK, NEW R \in Regions, SkipSkippedRegion(R)
    PROVE  /\ pc = "launched" /\ work = {} /\ visit' = visit \ {R}
           /\ UNCHANGED <<graph, edges, pc, final, ctx, rows, verdict>>
           /\ RegionSkipped(R) =>
                /\ work' = R
                /\ \A n \in Steps : /\ nodes'[n] = IF n \in R THEN "skipped" ELSE nodes[n]
                                    /\ n \in decided' <=> n \in decided \/ n \in R
           /\ ~RegionSkipped(R) => UNCHANGED <<nodes, work, decided>>
           /\ nodes' \in [Steps -> NodeState] /\ work' \subseteq Steps /\ decided' \subseteq Steps
<1> USE GraphShape DEF GraphTypeOK
<1>1. R \subseteq Steps OBVIOUS
<1> QED BY <1>1 DEF SkipSkippedRegion, NodeState

\* Every step of RunGraph keeps each variable in its type.
LEMMA GraphTypeStep ==
    ASSUME GraphTypeOK, RoutesFollow, [GraphNext]_graphVars
    PROVE  GraphTypeOK'
<1>0. graph' = graph /\ Regions' = Regions BY GraphFixed
<1>1. ASSUME NEW n \in Steps, ResolveOutbound(n) PROVE GraphTypeOK'
  BY <1>0, <1>1, Resolving DEF GraphTypeOK
<1>2. CASE Launch BY <1>0, <1>2, Launching DEF GraphTypeOK
<1>3. CASE SkipLaunch BY <1>0, <1>3 DEF SkipLaunch, GraphTypeOK
<1>4. CASE Drain BY <1>0, <1>4 DEF Drain, GraphTypeOK
<1>5. ASSUME NEW R \in Regions, SkipSkippedRegion(R) PROVE GraphTypeOK'
  BY <1>0, <1>5, SkippingRegion DEF GraphTypeOK
<1>6. ASSUME NEW U \in Units, NEW state \in {"completed", "failed", "cancelled"}, Collect(U, state)
      PROVE  GraphTypeOK'
  <2>1. U \subseteq Steps BY GraphShape DEF GraphTypeOK
  <2> QED BY <1>0, <1>6, <2>1, Collecting DEF GraphTypeOK
<1>7. CASE CancelContext BY <1>0, <1>7 DEF CancelContext, GraphTypeOK
<1>8. CASE Resume BY <1>0, <1>8, Resuming DEF GraphTypeOK
<1>9. CASE UNCHANGED graphVars BY <1>0, <1>9 DEF graphVars, GraphTypeOK
<1> QED BY <1>1, <1>2, <1>3, <1>4, <1>5, <1>6, <1>7, <1>8, <1>9 DEF GraphNext, Scheduler

\* A route that is decided against was so by a settled source.
LEMMA NotTakenWhy ==
    ASSUME GraphTypeOK, RoutesFollow, NEW r \in graph.routes, edges[r] = "notTaken"
    PROVE  /\ nodes[r.from] \in Settled
           /\ nodes[r.from] = "completed" => r.when /\ verdict[r] = "no"
<1>1. r.from \in Steps /\ r.when \in BOOLEAN BY GraphShape DEF GraphTypeOK
<1>2. nodes[r.from] \in Settled BY DEF RoutesFollow
<1> DEFINE holds == verdict[r] = "yes"
<1>3. holds \in BOOLEAN OBVIOUS
<1>4. DecideRoute(r, nodes[r.from], holds) = "notTaken" BY DEF RoutesFollow
<1>5. ASSUME nodes[r.from] = "completed" PROVE r.when /\ ~holds
  <2> HIDE DEF holds
  <2> QED BY <1>1, <1>2, <1>3, <1>4, <1>5, DecideRouteIs
<1>6. nodes[r.from] = "completed" => verdict[r] = "no"
  BY <1>5 DEF RoutesFollow, GraphTypeOK
<1> QED BY <1>2, <1>5, <1>6

\* What will not be taken is not, once its source is settled and served.
LEMMA ShutRoute ==
    ASSUME GraphTypeOK, RoutesFollow, NEW r \in graph.routes, WillNotTake(r),
           ~Forgotten(r.from), r.from \notin work
    PROVE  edges[r] = "notTaken"
<1>1. r.from \in Steps /\ r.when \in BOOLEAN BY GraphShape DEF GraphTypeOK
<1>2. \/ nodes[r.from] = "skipped"
      \/ nodes[r.from] = "completed" /\ r.when /\ verdict[r] = "no"
  BY DEF WillNotTake
<1> DEFINE holds == verdict[r] = "yes"
<1>3. holds \in BOOLEAN OBVIOUS
<1>4. edges[r] = DecideRoute(r, nodes[r.from], holds)
  BY <1>2 DEF RoutesFollow, Settled
<1>5. nodes[r.from] = "completed" => ~holds BY <1>2
<1> HIDE DEF holds
<1> QED BY <1>1, <1>2, <1>3, <1>4, <1>5, DecideRouteIs DEF Settled

\* A route that is taken has a source that produced something.
LEMMA TakenWhy ==
    ASSUME GraphTypeOK, RoutesFollow, NEW r \in graph.routes, edges[r] = "taken"
    PROVE  /\ nodes[r.from] \in {"completed", "failed"}
           /\ DecideRoute(r, nodes[r.from], verdict[r] = "yes") = "taken"
<1>1. r.from \in Steps /\ r.when \in BOOLEAN BY GraphShape DEF GraphTypeOK
<1>2. nodes[r.from] \in Settled BY DEF RoutesFollow
<1> DEFINE holds == verdict[r] = "yes"
<1>3. holds \in BOOLEAN OBVIOUS
<1>4. DecideRoute(r, nodes[r.from], holds) = "taken" BY DEF RoutesFollow
<1> HIDE DEF holds
<1>5. nodes[r.from] \in {"completed", "failed"} BY <1>1, <1>2, <1>3, <1>4, DecideRouteIs
<1> QED BY <1>4, <1>5 DEF holds

\* A forgotten region is shut out in fact once nothing is left to serve: the
\* sources of its routes cannot be forgotten, for nothing leaves the region
\* they would be in.
LEMMA ForgottenIsShut ==
    ASSUME GraphTypeOK, RoutesFollow, work = {},
           \A n \in Steps : Forgotten(n) => \E R \in Regions : n \in R /\ ForgottenRegion(R),
           NEW R \in Regions, ForgottenRegion(R)
    PROVE  \A r \in InboundOf(R) : edges[r] = "notTaken"
<1> SUFFICES ASSUME NEW r \in InboundOf(R) PROVE edges[r] = "notTaken" OBVIOUS
<1>1. r \in graph.routes /\ r.to \in R /\ r.from \notin R /\ r.from \in Steps /\ r.to \in Steps
  BY GraphShape DEF GraphTypeOK, InboundOf, Enters
<1>2. ~Forgotten(r.from)
  <2> SUFFICES ASSUME NEW Q \in Regions, r.from \in Q, ForgottenRegion(Q) PROVE FALSE
    BY <1>1
  <2>1. r.to \in Q BY <1>1 DEF ForgottenRegion, LateEntry
  <2>2. Q = R BY <1>1, <2>1, GraphShape DEF GraphTypeOK
  <2> QED BY <1>1, <2>2
<1>3. WillNotTake(r) BY DEF ForgottenRegion
<1> QED BY <1>1, <1>2, <1>3, ShutRoute

\* When the queue is empty, all that was skipped before a pause has been
\* skipped again, but for regions that are left to skipSkippedRegions. Of the
\* steps still forgotten, take one that none of them leads to: its routes are
\* all decided, so the cascade has been there.
LEMMA NothingForgotten ==
    ASSUME GraphInv, work = {}
    PROVE  \A n \in Steps : Forgotten(n) => \E R \in Regions : n \in R /\ ForgottenRegion(R)
<1> DEFINE S == {n \in Steps : Forgotten(n) /\ ~\E R \in Regions : n \in R /\ ForgottenRegion(R)}
<1> SUFFICES ASSUME S # {} PROVE FALSE OBVIOUS
<1> USE DEF GraphInv
<1>1. PICK n \in S : \A r \in graph.routes : r.to = n => r.from \notin S
  <2>1. S \in SUBSET Steps OBVIOUS
  <2> QED BY <2>1, GraphShape DEF GraphTypeOK
<1>2. /\ n \in Steps /\ nodes[n] = "pending"
      /\ \E r \in graph.routes : r.to = n
      /\ \A r \in graph.routes : r.to = n => WillNotTake(r)
  BY <1>1 DEF Replayed, Forgotten
<1>3. ASSUME NEW r \in graph.routes, r.to = n PROVE edges[r] = "notTaken"
  <2>1. r.from \in Steps /\ r.from \notin S BY <1>1, <1>3, GraphShape DEF GraphTypeOK
  <2>2. ~Forgotten(r.from)
    <3> SUFFICES ASSUME NEW Q \in Regions, r.from \in Q, ForgottenRegion(Q) PROVE FALSE
      BY <2>1
    <3>1. n \in Q BY <1>3 DEF ForgottenRegion, LateEntry
    <3> QED BY <1>1, <3>1
  <2> QED BY <1>2, <1>3, <2>2, ShutRoute
<1> QED BY <1>2, <1>3 DEF Cascaded

\* Launching touches no step that was decided before.
LEMMA LaunchFresh ==
    ASSUME GraphInv, work = {}, NEW U \in Units, Ready(U), NEW n \in U
    PROVE  n \notin decided
<1> USE DEF GraphInv
<1> SUFFICES ASSUME n \in decided PROVE FALSE OBVIOUS
<1>1. n \in Steps /\ nodes[n] = "pending" BY GraphShape DEF GraphTypeOK, Ready
<1>2. PICK R \in Regions : n \in R /\ ForgottenRegion(R)
  BY <1>1, NothingForgotten DEF Forgotten
<1>3. U = R BY <1>1, <1>2, GraphShape DEF GraphTypeOK
<1>4. \A r \in InboundOf(R) : edges[r] = "notTaken"
  BY <1>2, NothingForgotten, ForgottenIsShut
<1> QED BY <1>2, <1>3, <1>4 DEF ForgottenRegion, Ready

\* Deciding the routes of a settled step keeps the invariant.
LEMMA ResolveStep ==
    ASSUME GraphInv, GraphTypeOK', NEW n \in Steps, ResolveOutbound(n)
    PROVE  GraphInv'
<1> USE DEF GraphInv
<1> DEFINE New(m) == nodes'[m] # nodes[m]
<1>0. /\ graph' = graph /\ Regions' = Regions /\ Units' = Units
      /\ \A U : InboundOf(U)' = InboundOf(U)
      /\ UNCHANGED <<pc, visit, final, ctx, rows>>
  BY GraphFixed, Resolving DEF GraphNext, Scheduler
<1>1. n \in work /\ nodes[n] \in Settled BY Resolving
<1>2. \A m \in Steps : New(m) =>
        /\ nodes[m] = "pending" /\ nodes'[m] = "skipped"
        /\ \E r \in graph.routes : r.from = n /\ r.to = m
        /\ \A r \in graph.routes : r.to = m => edges'[r] = "notTaken"
  BY Resolving
<1>3. \A m \in Steps :
        /\ m \in work' <=> (m \in work /\ m # n) \/ New(m)
        /\ m \in decided' <=> m \in decided \/ New(m)
  BY Resolving
<1>4. \A r \in graph.routes : r.from # n => edges'[r] = edges[r] /\ verdict'[r] = verdict[r]
  BY Resolving
<1>5. \A r \in graph.routes : r.from = n =>
        /\ edges[r] = "pending" /\ edges'[r] \in {"taken", "notTaken"}
        /\ edges'[r] = DecideRoute(r, nodes[n], verdict'[r] = "yes")
        /\ (r.when /\ nodes[n] \in {"completed", "failed"}) => verdict'[r] # "unknown"
        /\ verdict[r] # "unknown" => verdict'[r] = verdict[r]
  BY Resolving
<1>6. \A m \in Steps :
        /\ nodes[m] = "pending"
        /\ \E r \in graph.routes : r.from = n /\ r.to = m
        /\ \A r \in graph.routes : r.to = m => edges'[r] = "notTaken"
        => nodes'[m] = "skipped"
  BY Resolving
<1>7. \A r \in graph.routes : r.from \in Steps /\ r.to \in Steps
  BY GraphShape DEF GraphTypeOK
<1>8. \A U \in Units : U \subseteq Steps /\ U # {} BY GraphShape DEF GraphTypeOK
<1>9. Regions \subseteq Units BY GraphShape DEF GraphTypeOK
<1>10. nodes'[n] = nodes[n] BY <1>1, <1>2 DEF Settled
<1>11. \A r \in graph.routes : edges[r] # "pending" =>
         edges'[r] = edges[r] /\ verdict'[r] = verdict[r] /\ nodes'[r.from] = nodes[r.from]
  <2> SUFFICES ASSUME NEW r \in graph.routes, edges[r] # "pending"
               PROVE  edges'[r] = edges[r] /\ verdict'[r] = verdict[r]
                      /\ nodes'[r.from] = nodes[r.from]
    OBVIOUS
  <2>1. r.from # n BY <1>5
  <2>2. nodes[r.from] \in Settled BY DEF RoutesFollow
  <2> QED BY <1>2, <1>4, <1>7, <2>1, <2>2 DEF Settled
<1> HIDE DEF New
<1>12. ASSUME NEW R \in Regions, LateEntry(R, graph), NEW m \in R PROVE nodes'[m] = nodes[m]
  <2> SUFFICES ASSUME New(m) PROVE FALSE BY DEF New
  <2>1. m \in Steps BY <1>8, <1>9
  <2>2. \A k \in R : nodes[k] = "pending" BY <1>2, <1>12, <2>1 DEF UnitsMove
  <2>3. PICK r \in graph.routes : r.from = n /\ r.to = m BY <1>2, <2>1
  <2>4. n \notin R BY <1>1, <2>2 DEF Settled
  <2>5. PICK s \in graph.routes : s.to = m /\ s.from \in R
    BY <1>12, <2>3, <2>4 DEF LateEntry, Enters
  <2>6. edges'[s] = "notTaken" /\ s.from # n BY <1>2, <2>1, <2>4, <2>5
  <2>7. edges[s] # "pending" BY <1>4, <2>6
  <2> QED BY <2>2, <2>5, <2>7 DEF RoutesFollow, Settled
<1>13. RoutesFollow'
  <2>1. \A m \in work' : nodes'[m] \in Settled
    <3>1. work' \subseteq Steps BY DEF GraphTypeOK
    <3> QED BY <1>2, <1>3, <3>1 DEF RoutesFollow, New, Settled
  <2>2. ASSUME NEW r \in graph.routes
        PROVE  edges'[r] # "pending" <=> (nodes'[r.from] \in Settled /\ r.from \notin work')
    <3>1. CASE r.from = n BY <1>1, <1>3, <1>5, <1>10, <3>1, <1>7 DEF New
    <3>2. CASE r.from # n /\ New(r.from)
      BY <1>2, <1>3, <1>4, <1>7, <3>2 DEF RoutesFollow, Settled
    <3>3. CASE r.from # n /\ ~New(r.from)
      BY <1>3, <1>4, <1>7, <3>3 DEF RoutesFollow, New
    <3> QED BY <3>1, <3>2, <3>3
  <2>3. ASSUME NEW r \in graph.routes, edges'[r] # "pending"
        PROVE  /\ edges'[r] = DecideRoute(r, nodes'[r.from], verdict'[r] = "yes")
               /\ (r.when /\ nodes'[r.from] \in {"completed", "failed"}) => verdict'[r] # "unknown"
    <3>1. CASE r.from = n BY <1>5, <1>10, <3>1
    <3>2. CASE r.from # n BY <1>4, <1>11, <2>3, <3>2 DEF RoutesFollow
    <3> QED BY <3>1, <3>2
  <2> QED BY <1>0, <2>1, <2>2, <2>3 DEF RoutesFollow
<1>14. Cascaded'
  <2> SUFFICES ASSUME NEW m \in Steps, \E r \in graph.routes : r.to = m,
                      \A r \in graph.routes : r.to = m => edges'[r] = "notTaken",
                      nodes'[m] = "pending"
               PROVE  FALSE
    BY <1>0 DEF Cascaded
  <2>1. nodes[m] = "pending" BY <1>2 DEF New
  <2>2. \A r \in graph.routes : r.to = m => r.from # n BY <1>6, <2>1
  <2> QED BY <1>4, <2>1, <2>2 DEF Cascaded
<1>15. Remembered' BY <1>0, <1>2, <1>3 DEF Remembered, New
<1>16. UnitsMove'
  <2>1. ASSUME NEW U \in Units
        PROVE  \/ \A m, k \in U : nodes'[m] = nodes'[k]
               \/ \A k \in U : nodes'[k] \in {"pending", "skipped"}
    <3>1. CASE \E m \in U : New(m)
      <4>1. \A k \in U : nodes[k] \in {"pending", "skipped"}
        BY <1>2, <1>8, <3>1 DEF UnitsMove
      <4> QED BY <1>2, <1>8, <4>1 DEF New
    <3>2. CASE \A m \in U : ~New(m) BY <3>2 DEF UnitsMove, New
    <3> QED BY <3>1, <3>2
  <2>2. \A R \in Regions : LateEntry(R, graph) => \A m, k \in R : nodes'[m] = nodes'[k]
    BY <1>12 DEF UnitsMove
  <2>3. \A m \in Steps : nodes'[m] = "awaiting" => m \in graph.gates
    BY <1>2 DEF UnitsMove, New
  <2> QED BY <1>0, <2>1, <2>2, <2>3 DEF UnitsMove
<1>17. FinalTells' BY <1>0, <1>2 DEF FinalTells, New
<1>18. SkippedForCause'
  <2> SUFFICES ASSUME NEW m \in Steps, nodes'[m] = "skipped"
               PROVE  \/ /\ \E r \in graph.routes : r.to = m
                         /\ \A r \in graph.routes : r.to = m =>
                              nodes'[r.from] = "skipped" \/ edges'[r] = "notTaken"
                      \/ \E R \in Regions : m \in R /\ ShutOut(R)'
    BY <1>0 DEF SkippedForCause
  <2>1. CASE New(m) BY <1>2, <2>1
  <2>2. CASE nodes[m] = "skipped"
    <3>1. \A r \in graph.routes : nodes[r.from] = "skipped" => nodes'[r.from] = "skipped"
      BY <1>2, <1>7 DEF New
    <3>2. ASSUME NEW R \in Regions, m \in R, ShutOut(R) PROVE ShutOut(R)'
      <4>1. \A r \in InboundOf(R) : r \in graph.routes /\ edges[r] = "notTaken"
        BY <3>2 DEF ShutOut, InboundOf
      <4> QED BY <1>0, <1>11, <3>2, <4>1 DEF ShutOut
    <3> QED BY <1>11, <2>2, <3>1, <3>2 DEF SkippedForCause
  <2> QED BY <2>1, <2>2 DEF New
<1>19. \A m \in Steps : /\ Forgotten(m)' => Forgotten(m)
                        /\ Forgotten(m) => Forgotten(m)' \/ nodes'[m] = "skipped"
  BY <1>2, <1>3 DEF Forgotten, New
<1>20. ASSUME NEW r \in graph.routes, WillNotTake(r) PROVE WillNotTake(r)'
  <2>1. CASE Forgotten(r.from) BY <1>7, <1>19, <2>1 DEF WillNotTake
  <2>2. CASE nodes[r.from] = "skipped" BY <1>2, <1>7, <2>2 DEF WillNotTake, New
  <2>3. CASE nodes[r.from] = "completed" /\ r.when /\ verdict[r] = "no"
    <3>1. nodes'[r.from] = "completed" BY <1>2, <1>7, <2>3 DEF New
    <3>2. verdict'[r] = "no" BY <1>4, <1>5, <2>3
    <3> QED BY <2>3, <3>1, <3>2 DEF WillNotTake
  <2> QED BY <1>20, <2>1, <2>2, <2>3 DEF WillNotTake
<1>21. Replayed'
  <2> SUFFICES ASSUME NEW m \in Steps, Forgotten(m)'
               PROVE  \/ /\ Replaying'
                         /\ \E r \in graph.routes : r.to = m
                         /\ \A r \in graph.routes : r.to = m => WillNotTake(r)'
                      \/ \E R \in Regions : m \in R /\ ForgottenRegion(R)'
    BY <1>0 DEF Replayed
  <2>1. Forgotten(m) BY <1>19
  <2>2. Replaying => Replaying' BY <1>0, <1>2 DEF Replaying, New
  <2>3. ASSUME NEW R \in Regions, m \in R, ForgottenRegion(R) PROVE ForgottenRegion(R)'
    <3>1. \A k \in R : Forgotten(k)'
      BY <1>3, <1>8, <1>9, <1>12, <2>3 DEF ForgottenRegion, Forgotten
    <3>2. \A r \in InboundOf(R) : WillNotTake(r)'
      BY <1>20, <2>3 DEF ForgottenRegion, InboundOf
    <3> QED BY <1>0, <2>3, <3>1, <3>2 DEF ForgottenRegion
  <2> QED BY <1>20, <2>1, <2>2, <2>3 DEF Replayed
<1>22. SettledBehind'
  <2>1. ASSUME NEW r \in graph.routes, nodes'[r.to] \in Settled
        PROVE  nodes'[r.from] \in Settled \/ Forgotten(r.from)'
    <3>1. CASE New(r.to)
      <4>1. edges'[r] # "pending" BY <1>2, <1>7, <3>1
      <4> QED BY <1>0, <1>13, <4>1 DEF RoutesFollow
    <3>2. CASE ~New(r.to)
      <4>1. nodes[r.from] \in Settled \/ Forgotten(r.from)
        BY <2>1, <3>2 DEF SettledBehind, New
      <4> QED BY <1>2, <1>7, <1>19, <4>1 DEF Settled, New
    <3> QED BY <3>1, <3>2
  <2>2. ASSUME NEW U \in Units, NEW r \in InboundOf(U), nodes'[r.to] \in {"running", "awaiting"}
        PROVE  nodes'[r.from] \in Settled
    <3>1. r \in graph.routes BY DEF InboundOf
    <3>2. nodes[r.from] \in Settled BY <1>2, <1>7, <2>2, <3>1 DEF SettledBehind, New
    <3> QED BY <1>2, <1>7, <3>1, <3>2 DEF Settled, New
  <2> QED BY <1>0, <2>1, <2>2 DEF SettledBehind
<1>23. LaunchedWhenCalled'
  <2> SUFFICES ASSUME NEW U \in Units, NEW k \in U, nodes'[k] \notin {"pending", "skipped"}
               PROVE  Called(U)'
    BY <1>0 DEF LaunchedWhenCalled
  <2>1. Called(U) BY <1>2, <1>8 DEF LaunchedWhenCalled, New
  <2>2. CASE InboundOf(U) = {} BY <1>0, <2>2 DEF Called
  <2>3. ASSUME NEW r \in InboundOf(U), nodes[r.from] \in {"completed", "failed"},
               DecideRoute(r, nodes[r.from], verdict[r] = "yes") = "taken"
        PROVE  Called(U)'
    <3>1. r \in graph.routes /\ r.from \in Steps BY <1>7 DEF InboundOf
    <3>2. nodes'[r.from] = nodes[r.from] BY <1>2, <2>3, <3>1 DEF New
    <3>3. DecideRoute(r, nodes[r.from], verdict'[r] = "yes") = "taken"
      <4>1. CASE r.from # n BY <1>4, <2>3, <3>1, <4>1
      <4>2. CASE r.from = n /\ verdict[r] # "unknown" BY <1>5, <2>3, <3>1, <4>2
      <4>3. CASE r.from = n /\ verdict[r] = "unknown"
        <5> DEFINE a == verdict[r] = "yes"
                   b == verdict'[r] = "yes"
        <5>1. a = FALSE /\ a \in BOOLEAN /\ b \in BOOLEAN BY <4>3
        <5>2. r.when \in BOOLEAN BY <3>1, GraphShape DEF GraphTypeOK
        <5>3. DecideRoute(r, nodes[r.from], a) = "taken" BY <2>3
        <5>4. nodes[r.from] \in Settled BY <2>3 DEF Settled
        <5> HIDE DEF a, b
        <5>5. DecideRoute(r, nodes[r.from], b) = "taken"
          BY <5>1, <5>2, <5>3, <5>4, DecideRouteIs
        <5> QED BY <5>5 DEF b
      <4> QED BY <4>1, <4>2, <4>3
    <3> QED BY <1>0, <2>3, <3>2, <3>3 DEF Called
  <2> QED BY <2>1, <2>2, <2>3 DEF Called
<1>24. Exhausted'
  <2>1. CASE pc = "top" BY <1>0, <2>1 DEF Exhausted
  <2>2. CASE pc # "top"
    <3>1. PICK R \in Regions : n \in R /\ LateEntry(R, graph) BY <1>1, <2>2 DEF Exhausted
    <3>2. \A r \in graph.routes : r.from = n => r.to \in R BY <3>1 DEF LateEntry
    <3>3. \A m \in Steps : nodes'[m] = nodes[m]
      <4> SUFFICES ASSUME NEW m \in Steps, New(m) PROVE FALSE BY DEF New
      <4>1. m \in R BY <1>2, <3>2
      <4> QED BY <1>12, <3>1, <4>1 DEF New
    <3>4. work' \subseteq work
      <4>1. work' \subseteq Steps BY DEF GraphTypeOK
      <4> QED BY <1>3, <3>3, <4>1 DEF New
    <3>5. ASSUME NEW U \in Units, NEW r \in InboundOf(U) PROVE edges'[r] = edges[r]
      <4>1. r \in graph.routes /\ r.to \in U /\ r.from \notin U BY DEF InboundOf, Enters
      <4>2. r.from # n
        <5> SUFFICES ASSUME r.from = n PROVE FALSE OBVIOUS
        <5>1. r.to \in R BY <3>2, <4>1
        <5>2. R = U BY <1>7, <1>9, <4>1, <5>1, GraphShape DEF GraphTypeOK
        <5> QED BY <3>1, <4>1, <5>2
      <4> QED BY <1>4, <4>1, <4>2
    <3>6. \A U \in Units : /\ Ready(U)' => Ready(U)
                           /\ RegionSkipped(U)' => RegionSkipped(U)
      BY <1>0, <1>8, <3>3, <3>5 DEF Ready, RegionSkipped
    <3>7. pc # "done" BY <1>1 DEF Exhausted
    <3>8. \A m \in work' : \E Q \in Regions : m \in Q /\ LateEntry(Q, graph)
      BY <2>2, <3>4 DEF Exhausted
    <3>9. ctx = "live" => /\ \A U \in Units : ~Ready(U)'
                          /\ \A Q \in Regions \ visit : ~RegionSkipped(Q)'
      BY <1>9, <2>2, <3>6 DEF Exhausted
    <3> QED BY <1>0, <3>7, <3>8, <3>9 DEF Exhausted
  <2> QED BY <2>1, <2>2
<1> QED BY <1>13, <1>14, <1>15, <1>16, <1>17, <1>18, <1>21, <1>22, <1>23, <1>24

\* Launching every ready unit keeps it.
LEMMA LaunchStep ==
    ASSUME GraphInv, GraphTypeOK', Launch
    PROVE  GraphInv'
<1> USE DEF GraphInv
<1>0. /\ graph' = graph /\ Regions' = Regions /\ Units' = Units
      /\ \A U : InboundOf(U)' = InboundOf(U)
      /\ UNCHANGED <<edges, work, final, ctx, rows, verdict>>
      /\ pc = "top" /\ work = {} /\ ctx = "live" /\ pc' = "launched" /\ visit' = Regions
  BY GraphFixed, Launching DEF GraphNext, Scheduler
<1>1. \A U \in Units : \A n \in U :
        /\ ~Ready(U) => nodes'[n] = nodes[n]
        /\ Ready(U) => nodes'[n] = IF n \in graph.gates THEN "awaiting" ELSE "running"
        /\ n \in decided' <=> n \in decided \/ Ready(U)
  BY Launching
<1>2. /\ \A r \in graph.routes : r.from \in Steps /\ r.to \in Steps
      /\ \A U \in Units : U \subseteq Steps /\ U # {}
      /\ \A n \in Steps : \E U \in Units : n \in U
      /\ Regions \subseteq Units
  BY GraphShape DEF GraphTypeOK
<1>3. \A n \in Steps :
        \/ nodes'[n] = nodes[n] /\ (n \in decided' <=> n \in decided)
        \/ /\ nodes[n] = "pending" /\ n \notin decided /\ n \in decided'
           /\ nodes'[n] \in {"awaiting", "running"}
           /\ nodes'[n] = "awaiting" => n \in graph.gates
  <2> SUFFICES ASSUME NEW n \in Steps, NEW U \in Units, n \in U
      PROVE  \/ nodes'[n] = nodes[n] /\ (n \in decided' <=> n \in decided)
             \/ /\ nodes[n] = "pending" /\ n \notin decided /\ n \in decided'
                /\ nodes'[n] \in {"awaiting", "running"}
                /\ nodes'[n] = "awaiting" => n \in graph.gates
    BY <1>2
  <2>1. CASE Ready(U)
    <3>1. nodes[n] = "pending" BY <2>1 DEF Ready
    <3>2. n \notin decided BY <1>0, <2>1, LaunchFresh
    <3> QED BY <1>1, <2>1, <3>1, <3>2
  <2>2. CASE ~Ready(U) BY <1>1, <2>2
  <2> QED BY <2>1, <2>2
<1>4. \A n \in Steps : nodes[n] \in Settled => nodes'[n] = nodes[n] BY <1>3 DEF Settled
<1>5. \A n \in Steps : nodes'[n] \in Settled => nodes'[n] = nodes[n] BY <1>3 DEF Settled
<1>6. RoutesFollow' BY <1>0, <1>2, <1>4, <1>5 DEF RoutesFollow
<1>7. Cascaded' BY <1>0, <1>3 DEF Cascaded
<1>8. Remembered' BY <1>0, <1>3 DEF Remembered
<1>9. UnitsMove'
  <2>1. ASSUME NEW U \in Units, Ready(U) PROVE \A m, n \in U : nodes'[m] = nodes'[n]
    <3>1. CASE \E n \in U : n \in graph.gates
      <4>1. PICK n \in U : n \in graph.gates BY <3>1
      <4>2. n \in Steps /\ {n} \in Units BY <4>1, GraphShape DEF GraphTypeOK
      <4>3. \A V \in Units : n \in V => U = V BY <4>1, <4>2, GraphShape DEF GraphTypeOK
      <4>4. U = {n} BY <4>2, <4>3
      <4> QED BY <4>4
    <3>2. CASE \A n \in U : n \notin graph.gates BY <1>1, <2>1, <3>2
    <3> QED BY <3>1, <3>2
  <2>2. ASSUME NEW U \in Units, ~Ready(U) PROVE \A n \in U : nodes'[n] = nodes[n]
    BY <1>1, <2>2
  <2>3. \A U \in Units : \/ \A m, n \in U : nodes'[m] = nodes'[n]
                         \/ \A n \in U : nodes'[n] \in {"pending", "skipped"}
    <3> SUFFICES ASSUME NEW U \in Units, ~Ready(U)
                 PROVE  \/ \A m, n \in U : nodes'[m] = nodes'[n]
                        \/ \A n \in U : nodes'[n] \in {"pending", "skipped"}
      BY <2>1
    <3>1. \A n \in U : nodes'[n] = nodes[n] BY <2>2
    <3> QED BY <3>1 DEF UnitsMove
  <2>4. \A R \in Regions : LateEntry(R, graph) => \A m, n \in R : nodes'[m] = nodes'[n]
    BY <1>2, <2>1, <2>2 DEF UnitsMove
  <2>5. \A n \in Steps : nodes'[n] = "awaiting" => n \in graph.gates
    BY <1>3 DEF UnitsMove
  <2> QED BY <1>0, <2>3, <2>4, <2>5 DEF UnitsMove
<1>10. FinalTells' BY <1>0, <1>3 DEF FinalTells
<1>11. \A R : ShutOut(R)' <=> ShutOut(R) BY <1>0 DEF ShutOut
<1>12. SkippedForCause'
  <2> SUFFICES ASSUME NEW n \in Steps, nodes'[n] = "skipped"
               PROVE  \/ /\ \E r \in graph.routes : r.to = n
                         /\ \A r \in graph.routes : r.to = n =>
                              nodes'[r.from] = "skipped" \/ edges'[r] = "notTaken"
                      \/ \E R \in Regions : n \in R /\ ShutOut(R)'
    BY <1>0 DEF SkippedForCause
  <2>1. nodes[n] = "skipped" BY <1>3
  <2>2. \A r \in graph.routes : nodes[r.from] = "skipped" => nodes'[r.from] = "skipped"
    BY <1>2, <1>4 DEF Settled
  <2> QED BY <1>0, <1>11, <2>1, <2>2 DEF SkippedForCause
<1>13. \A n \in Steps : Forgotten(n)' <=> Forgotten(n) BY <1>3 DEF Forgotten
<1>14. \A r \in graph.routes : WillNotTake(r) => WillNotTake(r)'
  <2> SUFFICES ASSUME NEW r \in graph.routes, WillNotTake(r) PROVE WillNotTake(r)' OBVIOUS
  <2>1. nodes[r.from] \in Settled => nodes'[r.from] = nodes[r.from] BY <1>2, <1>4
  <2> QED BY <1>0, <1>2, <1>13, <2>1 DEF WillNotTake, Settled
<1>15. Replayed'
  <2> SUFFICES ASSUME NEW n \in Steps, Forgotten(n)
               PROVE  \E R \in Regions : n \in R /\ ForgottenRegion(R)'
    BY <1>0, <1>13 DEF Replayed
  <2>1. PICK R \in Regions : n \in R /\ ForgottenRegion(R) BY <1>0, NothingForgotten
  <2>2. R \subseteq Steps BY <1>2
  <2>3. \A r \in InboundOf(R) : r \in graph.routes BY DEF InboundOf
  <2>4. ForgottenRegion(R)' BY <1>0, <1>13, <1>14, <2>1, <2>2, <2>3 DEF ForgottenRegion
  <2> QED BY <2>1, <2>4
<1>16. SettledBehind'
  <2>1. \A r \in graph.routes : nodes'[r.to] \in Settled =>
            nodes'[r.from] \in Settled \/ Forgotten(r.from)'
    BY <1>2, <1>4, <1>5, <1>13 DEF SettledBehind
  <2>2. ASSUME NEW U \in Units, NEW r \in InboundOf(U), nodes'[r.to] \in {"running", "awaiting"}
        PROVE  nodes'[r.from] \in Settled
    <3>1. r \in graph.routes /\ r.to \in U BY DEF InboundOf, Enters
    <3>2. CASE Ready(U)
      <4>1. edges[r] # "pending" BY <3>2 DEF Ready
      <4> QED BY <1>2, <1>4, <3>1, <4>1 DEF RoutesFollow
    <3>3. CASE ~Ready(U)
      <4>1. nodes[r.to] \in {"running", "awaiting"} BY <1>1, <2>2, <3>1, <3>3
      <4> QED BY <1>2, <1>4, <3>1, <4>1 DEF SettledBehind
    <3> QED BY <3>2, <3>3
  <2> QED BY <1>0, <2>1, <2>2 DEF SettledBehind
<1>17. LaunchedWhenCalled'
  <2> SUFFICES ASSUME NEW U \in Units, NEW k \in U, nodes'[k] \notin {"pending", "skipped"}
               PROVE  Called(U)'
    BY <1>0 DEF LaunchedWhenCalled
  <2>1. Called(U)
    <3>1. CASE Ready(U)
      <4>1. CASE InboundOf(U) = {} BY <4>1 DEF Called
      <4>2. ASSUME NEW r \in InboundOf(U), edges[r] = "taken" PROVE Called(U)
        <5>1. r \in graph.routes BY DEF InboundOf
        <5> QED BY <4>2, <5>1, TakenWhy DEF Called
      <4> QED BY <3>1, <4>1, <4>2 DEF Ready
    <3>2. CASE ~Ready(U) BY <1>1, <3>2 DEF LaunchedWhenCalled
    <3> QED BY <3>1, <3>2
  <2>2. \A r \in InboundOf(U) : nodes[r.from] \in {"completed", "failed"} =>
            nodes'[r.from] = nodes[r.from]
    BY <1>2, <1>4 DEF InboundOf, Settled
  <2> QED BY <1>0, <2>1, <2>2 DEF Called
<1>18. Exhausted'
  <2>1. ASSUME NEW U \in Units PROVE ~Ready(U)'
    <3>1. CASE Ready(U)
      <4>1. PICK n \in U : n \in Steps BY <1>2
      <4>2. nodes'[n] # "pending" BY <1>1, <3>1
      <4> QED BY <4>2 DEF Ready
    <3>2. CASE ~Ready(U)
      <4>1. \A n \in U : nodes'[n] = nodes[n] BY <1>1, <3>2
      <4> QED BY <1>0, <3>2, <4>1 DEF Ready
    <3> QED BY <3>1, <3>2
  <2> QED BY <1>0, <2>1 DEF Exhausted
<1> QED BY <1>6, <1>7, <1>8, <1>9, <1>10, <1>12, <1>15, <1>16, <1>17, <1>18

\* Only a region of the late kind is ever found shut out: where all routes lead
\* to one step, the cascade has skipped that step already.
LEMMA SkippedRegionIsLate ==
    ASSUME RegularRuns, GraphInv, NEW R \in Regions, RegionSkipped(R)
    PROVE  LateEntry(R, graph)
<1> USE DEF GraphInv
<1> SUFFICES ASSUME SingleEntry(R, graph) PROVE FALSE
  BY DEF RegularRuns, Regular, Regions, GraphTypeOK
<1>1. PICK e \in R :
        /\ \A r \in graph.routes : r.to = e => r.from \notin R
        /\ \A r \in graph.routes : r.to \in R \ {e} => r.from \in R
  BY DEF SingleEntry
<1>2. PICK r \in graph.routes : Enters(r, R) BY DEF RegionSkipped, InboundOf
<1>3. r.to = e BY <1>1, <1>2 DEF Enters
<1>4. \A s \in graph.routes : s.to = e => edges[s] = "notTaken"
  BY <1>1 DEF RegionSkipped, InboundOf, Enters
<1>5. e \in Steps /\ nodes[e] = "pending" BY GraphShape DEF GraphTypeOK, RegionSkipped
<1> QED BY <1>3, <1>4, <1>5 DEF Cascaded

\* Skipping a whole region keeps it.
LEMMA SkipRegionStep ==
    ASSUME RegularRuns, GraphInv, GraphTypeOK', NEW R \in Regions, SkipSkippedRegion(R)
    PROVE  GraphInv'
<1> USE DEF GraphInv
<1>0. /\ graph' = graph /\ Regions' = Regions /\ Units' = Units
      /\ \A U : InboundOf(U)' = InboundOf(U)
      /\ UNCHANGED <<edges, pc, final, ctx, rows, verdict>>
      /\ pc = "launched" /\ work = {} /\ visit' = visit \ {R}
  BY GraphFixed, SkippingRegion DEF GraphNext, Scheduler
<1>1. CASE ~RegionSkipped(R)
  <2>1. UNCHANGED <<nodes, work, decided>> BY <1>1, SkippingRegion
  <2>2. /\ RoutesFollow' /\ Cascaded' /\ Remembered' /\ UnitsMove' /\ FinalTells'
    BY <1>0, <2>1 DEF RoutesFollow, Cascaded, Remembered, UnitsMove, FinalTells
  <2>3. SkippedForCause' BY <1>0, <2>1 DEF SkippedForCause, ShutOut
  <2>4. /\ \A n : Forgotten(n)' <=> Forgotten(n)
        /\ \A r : WillNotTake(r)' <=> WillNotTake(r)
    BY <1>0, <2>1 DEF Forgotten, WillNotTake
  <2>5. Replayed' BY <1>0, <2>1, <2>4 DEF Replayed, ForgottenRegion, Replaying
  <2>6. SettledBehind' /\ LaunchedWhenCalled'
    BY <1>0, <2>1, <2>4 DEF SettledBehind, LaunchedWhenCalled, Called
  <2>7. \A U : (Ready(U)' <=> Ready(U)) /\ (RegionSkipped(U)' <=> RegionSkipped(U))
    BY <1>0, <2>1 DEF Ready, RegionSkipped
  <2>8. Exhausted' BY <1>0, <1>1, <2>1, <2>7 DEF Exhausted
  <2> QED BY <2>2, <2>3, <2>5, <2>6, <2>8
<1>2. CASE RegionSkipped(R)
  <2>1. /\ work' = R
        /\ \A n \in Steps : /\ nodes'[n] = IF n \in R THEN "skipped" ELSE nodes[n]
                            /\ n \in decided' <=> n \in decided \/ n \in R
    BY <1>2, SkippingRegion
  <2>2. LateEntry(R, graph) BY <1>2, SkippedRegionIsLate
  <2>3. /\ \A r \in graph.routes : r.from \in Steps /\ r.to \in Steps
        /\ \A U \in Units : U \subseteq Steps /\ U # {}
        /\ \A U \in Units : U # R => \A n \in U : n \notin R
        /\ Regions \subseteq Units
    BY GraphShape DEF GraphTypeOK
  <2>4. /\ InboundOf(R) # {} /\ \A r \in InboundOf(R) : edges[r] = "notTaken"
        /\ \A n \in R : n \in Steps /\ nodes[n] = "pending" /\ nodes'[n] = "skipped"
    BY <1>2, <2>1, <2>3 DEF RegionSkipped
  <2>5. \A n \in Steps \ R : nodes'[n] = nodes[n] /\ (n \in decided' <=> n \in decided)
    BY <2>1
  <2>6. \A r \in graph.routes : r.from \in R => edges[r] = "pending"
    BY <2>4 DEF RoutesFollow, Settled
  <2>7. RoutesFollow'
    <3>1. \A n \in work' : nodes'[n] \in Settled BY <2>1, <2>4 DEF Settled
    <3>2. \A r \in graph.routes :
            edges'[r] # "pending" <=> (nodes'[r.from] \in Settled /\ r.from \notin work')
      BY <1>0, <2>1, <2>3, <2>5, <2>6 DEF RoutesFollow
    <3>3. ASSUME NEW r \in graph.routes, edges'[r] # "pending"
          PROVE  /\ edges'[r] = DecideRoute(r, nodes'[r.from], verdict'[r] = "yes")
                 /\ (r.when /\ nodes'[r.from] \in {"completed", "failed"}) => verdict'[r] # "unknown"
      <4>1. nodes'[r.from] = nodes[r.from] BY <1>0, <2>3, <2>5, <2>6, <3>3
      <4> QED BY <1>0, <3>3, <4>1 DEF RoutesFollow
    <3> QED BY <1>0, <3>1, <3>2, <3>3 DEF RoutesFollow
  <2>8. Cascaded' BY <1>0, <2>4, <2>5 DEF Cascaded
  <2>9. Remembered' BY <1>0, <2>1, <2>4, <2>5 DEF Remembered
  <2>10. UnitsMove'
    <3>1. ASSUME NEW U \in Units, U # R PROVE \A n \in U : nodes'[n] = nodes[n]
      BY <2>3, <2>5, <3>1
    <3>2. \A U \in Units : \/ \A m, n \in U : nodes'[m] = nodes'[n]
                           \/ \A n \in U : nodes'[n] \in {"pending", "skipped"}
      <4> SUFFICES ASSUME NEW U \in Units, U # R
                   PROVE  \/ \A m, n \in U : nodes'[m] = nodes'[n]
                          \/ \A n \in U : nodes'[n] \in {"pending", "skipped"}
        BY <2>4
      <4> QED BY <3>1 DEF UnitsMove
    <3>3. ASSUME NEW Q \in Regions, LateEntry(Q, graph) PROVE \A m, n \in Q : nodes'[m] = nodes'[n]
      <4>1. CASE Q = R BY <2>4, <4>1
      <4>2. CASE Q # R BY <2>3, <3>1, <3>3, <4>2 DEF UnitsMove
      <4> QED BY <4>1, <4>2
    <3>4. \A n \in Steps : nodes'[n] = "awaiting" => n \in graph.gates
      BY <2>4, <2>5 DEF UnitsMove
    <3> QED BY <1>0, <3>2, <3>3, <3>4 DEF UnitsMove
  <2>11. FinalTells' BY <1>0, <2>4, <2>5 DEF FinalTells
  <2>12. SkippedForCause'
    <3>1. \A Q : ShutOut(Q)' <=> ShutOut(Q) BY <1>0 DEF ShutOut
    <3>2. ShutOut(R) BY <2>2, <2>4 DEF ShutOut
    <3>3. \A r \in graph.routes : nodes[r.from] = "skipped" => nodes'[r.from] = "skipped"
      BY <2>1, <2>3
    <3> SUFFICES ASSUME NEW n \in Steps, nodes'[n] = "skipped", n \notin R
                 PROVE  \/ /\ \E r \in graph.routes : r.to = n
                           /\ \A r \in graph.routes : r.to = n =>
                                nodes'[r.from] = "skipped" \/ edges'[r] = "notTaken"
                        \/ \E Q \in Regions : n \in Q /\ ShutOut(Q)'
      BY <1>0, <3>1, <3>2 DEF SkippedForCause
    <3>4. nodes[n] = "skipped" BY <2>5
    <3> QED BY <1>0, <3>1, <3>3, <3>4 DEF SkippedForCause
  <2>13. \A n \in Steps : Forgotten(n)' <=> Forgotten(n) /\ n \notin R
    BY <2>1 DEF Forgotten
  <2>14. ASSUME NEW r \in graph.routes, WillNotTake(r) PROVE WillNotTake(r)'
    <3>1. CASE Forgotten(r.from) BY <2>1, <2>3, <2>13, <3>1 DEF WillNotTake
    <3>2. CASE ~Forgotten(r.from)
      <4>1. nodes[r.from] \in {"skipped", "completed"} BY <2>14, <3>2 DEF WillNotTake
      <4>2. nodes'[r.from] = nodes[r.from] BY <2>3, <2>4, <2>5, <4>1
      <4> QED BY <1>0, <2>14, <3>2, <4>2 DEF WillNotTake
    <3> QED BY <3>1, <3>2
  <2>15. Replayed'
    <3> SUFFICES ASSUME NEW n \in Steps, Forgotten(n), n \notin R
                 PROVE  \E Q \in Regions : n \in Q /\ ForgottenRegion(Q)'
      BY <1>0, <2>13 DEF Replayed
    <3>1. PICK Q \in Regions : n \in Q /\ ForgottenRegion(Q)
      BY <1>0 DEF Replayed, Replaying
    <3>2. Q # R /\ \A m \in Q : m \in Steps /\ m \notin R BY <2>3, <3>1
    <3>3. \A r \in InboundOf(Q) : r \in graph.routes BY DEF InboundOf
    <3>4. ForgottenRegion(Q)' BY <1>0, <2>13, <2>14, <3>1, <3>2, <3>3 DEF ForgottenRegion
    <3> QED BY <3>1, <3>4
  <2>16. SettledBehind'
    <3>1. ASSUME NEW r \in graph.routes, nodes'[r.to] \in Settled
          PROVE  nodes'[r.from] \in Settled \/ Forgotten(r.from)'
      <4>1. CASE r.from \in R BY <2>4, <4>1 DEF Settled
      <4>2. CASE r.from \notin R /\ r.to \in R
        <5>1. edges[r] = "notTaken" BY <2>4, <4>2 DEF InboundOf, Enters
        <5>2. nodes[r.from] \in Settled BY <5>1 DEF RoutesFollow
        <5> QED BY <2>3, <2>5, <4>2, <5>2
      <4>3. CASE r.from \notin R /\ r.to \notin R
        BY <2>3, <2>5, <2>13, <3>1, <4>3 DEF SettledBehind
      <4> QED BY <4>1, <4>2, <4>3
    <3>2. ASSUME NEW U \in Units, NEW r \in InboundOf(U), nodes'[r.to] \in {"running", "awaiting"}
          PROVE  nodes'[r.from] \in Settled
      <4>1. r \in graph.routes /\ r.to \notin R BY <2>4, <3>2 DEF InboundOf
      <4>2. nodes[r.from] \in Settled BY <2>3, <2>5, <3>2, <4>1 DEF SettledBehind
      <4> QED BY <2>3, <2>4, <2>5, <4>1, <4>2 DEF Settled
    <3> QED BY <1>0, <3>1, <3>2 DEF SettledBehind
  <2>17. LaunchedWhenCalled'
    <3> SUFFICES ASSUME NEW U \in Units, NEW k \in U, nodes'[k] \notin {"pending", "skipped"}
                 PROVE  Called(U)'
      BY <1>0 DEF LaunchedWhenCalled
    <3>1. k \in Steps \ R BY <2>3, <2>4
    <3>2. Called(U) BY <2>5, <3>1 DEF LaunchedWhenCalled
    <3>3. \A r \in InboundOf(U) : nodes[r.from] \in {"completed", "failed"} =>
            nodes'[r.from] = nodes[r.from]
      BY <2>3, <2>4, <2>5 DEF InboundOf
    <3> QED BY <1>0, <3>2, <3>3 DEF Called
  <2>18. Exhausted'
    <3>1. \A U \in Units : /\ Ready(U)' => Ready(U)
                           /\ RegionSkipped(U)' => RegionSkipped(U) /\ U # R
      <4> SUFFICES ASSUME NEW U \in Units, \A n \in U : nodes'[n] = "pending"
                   PROVE  U # R /\ \A n \in U : nodes[n] = "pending"
        BY <1>0 DEF Ready, RegionSkipped
      <4>1. \A n \in U : n \in Steps /\ n \notin R BY <2>3, <2>4
      <4> QED BY <2>3, <2>5, <4>1
    <3>2. \A n \in work' : \E Q \in Regions : n \in Q /\ LateEntry(Q, graph) BY <2>1, <2>2
    <3> QED BY <1>0, <2>3, <3>1, <3>2 DEF Exhausted
  <2> QED BY <2>7, <2>8, <2>9, <2>10, <2>11, <2>12, <2>15, <2>16, <2>17, <2>18
<1> QED BY <1>1, <1>2

\* A result keeps it.
LEMMA CollectStep ==
    ASSUME RegularRuns, GraphInv, GraphTypeOK',
           NEW U \in Units, NEW state \in {"completed", "failed", "cancelled"}, Collect(U, state)
    PROVE  GraphInv'
<1> USE DEF GraphInv
<1>0. /\ graph' = graph /\ Regions' = Regions /\ Units' = Units
      /\ \A V : InboundOf(V)' = InboundOf(V)
      /\ UNCHANGED <<edges, visit, ctx, verdict, decided>>
      /\ pc = "launched" /\ work = {} /\ pc' = "top" /\ work' = U
  BY GraphFixed, Collecting DEF GraphNext, Scheduler
<1>1. /\ \A n \in U : n \in Steps /\ nodes[n] = "running" /\ nodes'[n] = state
      /\ \A n \in Steps \ U : nodes'[n] = nodes[n]
      /\ rows' = IF state = "completed" THEN rows \cup U ELSE rows
      /\ state = "failed" => final' = "failed"
      /\ state = "cancelled" => final' # "completed"
      /\ final = "failed" => final' = "failed"
      /\ final # "completed" => final' # "completed"
  BY Collecting DEF RegularRuns
<1>2. /\ \A r \in graph.routes : r.from \in Steps /\ r.to \in Steps
      /\ \A V \in Units : V \subseteq Steps /\ V # {}
      /\ \A V \in Units : V # U => \A n \in V : n \notin U
      /\ Regions \subseteq Units
  BY GraphShape DEF GraphTypeOK
<1>3. \A n \in Steps : nodes[n] # "running" => n \notin U /\ nodes'[n] = nodes[n]
  BY <1>1
<1>4. \A n \in Steps : nodes'[n] \notin Settled => n \notin U /\ nodes'[n] = nodes[n]
  BY <1>1 DEF Settled
<1>5. RoutesFollow'
  <2>1. \A n \in work' : nodes'[n] \in Settled BY <1>0, <1>1 DEF Settled
  <2>2. ASSUME NEW r \in graph.routes
        PROVE  edges'[r] # "pending" <=> (nodes'[r.from] \in Settled /\ r.from \notin work')
    <3>1. CASE r.from \in U
      <4>1. edges[r] = "pending" BY <1>1, <3>1 DEF RoutesFollow, Settled
      <4> QED BY <1>0, <3>1, <4>1
    <3>2. CASE r.from \notin U BY <1>0, <1>1, <1>2, <3>2 DEF RoutesFollow
    <3> QED BY <3>1, <3>2
  <2>3. ASSUME NEW r \in graph.routes, edges'[r] # "pending"
        PROVE  /\ edges'[r] = DecideRoute(r, nodes'[r.from], verdict'[r] = "yes")
               /\ (r.when /\ nodes'[r.from] \in {"completed", "failed"}) => verdict'[r] # "unknown"
    <3>1. nodes[r.from] \in Settled BY <1>0, <2>3 DEF RoutesFollow
    <3>2. nodes'[r.from] = nodes[r.from] BY <1>2, <1>3, <3>1 DEF Settled
    <3> QED BY <1>0, <2>3, <3>2 DEF RoutesFollow
  <2> QED BY <1>0, <2>1, <2>2, <2>3 DEF RoutesFollow
<1>6. Cascaded' BY <1>0, <1>4 DEF Cascaded, Settled
<1>7. Remembered'
  <2>1. \A n \in Steps : nodes'[n] = "completed" <=> n \in rows'
    BY <1>1 DEF Remembered
  <2>2. \A n \in Steps : nodes'[n] # "pending" => n \in decided'
    BY <1>0, <1>1 DEF Remembered
  <2> QED BY <2>1, <2>2 DEF Remembered
<1>8. UnitsMove'
  <2>1. ASSUME NEW V \in Units, V # U PROVE \A n \in V : nodes'[n] = nodes[n]
    BY <1>1, <1>2, <2>1
  <2>2. \A m, n \in U : nodes'[m] = nodes'[n] BY <1>1
  <2>3. \A V \in Units : \/ \A m, n \in V : nodes'[m] = nodes'[n]
                         \/ \A n \in V : nodes'[n] \in {"pending", "skipped"}
    <3> SUFFICES ASSUME NEW V \in Units, V # U
                 PROVE  \/ \A m, n \in V : nodes'[m] = nodes'[n]
                        \/ \A n \in V : nodes'[n] \in {"pending", "skipped"}
      BY <2>2
    <3> QED BY <2>1 DEF UnitsMove
  <2>4. ASSUME NEW R \in Regions, LateEntry(R, graph) PROVE \A m, n \in R : nodes'[m] = nodes'[n]
    <3>1. CASE R = U BY <2>2, <3>1
    <3>2. CASE R # U BY <1>2, <2>1, <2>4, <3>2 DEF UnitsMove
    <3> QED BY <3>1, <3>2
  <2>5. \A n \in Steps : nodes'[n] = "awaiting" => n \in graph.gates
    BY <1>4 DEF UnitsMove, Settled
  <2> QED BY <1>0, <2>3, <2>4, <2>5 DEF UnitsMove
<1>9. FinalTells' BY <1>1 DEF FinalTells
<1>10. \A n \in Steps : Forgotten(n)' <=> Forgotten(n)
  BY <1>0, <1>1, <1>3, <1>4 DEF Forgotten, Settled
<1>11. SkippedForCause'
  <2>1. \A Q : ShutOut(Q)' <=> ShutOut(Q) BY <1>0 DEF ShutOut
  <2>2. \A r \in graph.routes : nodes[r.from] = "skipped" => nodes'[r.from] = "skipped"
    BY <1>2, <1>3
  <2>3. \A n \in Steps : nodes'[n] = "skipped" => nodes[n] = "skipped" BY <1>1
  <2> SUFFICES ASSUME NEW n \in Steps, nodes[n] = "skipped"
               PROVE  \/ /\ \E r \in graph.routes : r.to = n
                         /\ \A r \in graph.routes : r.to = n =>
                              nodes'[r.from] = "skipped" \/ edges'[r] = "notTaken"
                      \/ \E Q \in Regions : n \in Q /\ ShutOut(Q)'
    BY <1>0, <2>3 DEF SkippedForCause
  <2> QED BY <1>0, <2>1, <2>2 DEF SkippedForCause
<1>12. Replayed'
  <2> SUFFICES ASSUME NEW n \in Steps, Forgotten(n)
               PROVE  \E Q \in Regions : n \in Q /\ ForgottenRegion(Q)'
    BY <1>0, <1>10 DEF Replayed
  <2>1. PICK Q \in Regions : n \in Q /\ ForgottenRegion(Q)
    BY <1>0 DEF Replayed, Replaying
  <2>2. \A m \in Q : m \in Steps BY <1>2
  <2>3. ASSUME NEW r \in InboundOf(Q) PROVE WillNotTake(r)'
    <3>1. r \in graph.routes /\ r.from \in Steps BY <1>2 DEF InboundOf
    <3>2. WillNotTake(r) BY <2>1 DEF ForgottenRegion
    <3>3. nodes'[r.from] = nodes[r.from] BY <1>3, <3>1, <3>2 DEF WillNotTake, Forgotten
    <3> QED BY <1>0, <3>2, <3>3 DEF WillNotTake, Forgotten
  <2>4. ForgottenRegion(Q)' BY <1>0, <1>10, <2>1, <2>2, <2>3 DEF ForgottenRegion
  <2> QED BY <2>1, <2>4
<1>13. SettledBehind'
  <2>1. ASSUME NEW r \in graph.routes, nodes'[r.to] \in Settled
        PROVE  nodes'[r.from] \in Settled \/ Forgotten(r.from)'
    <3>1. CASE r.to \in U /\ r.from \in U BY <1>1, <3>1 DEF Settled
    <3>2. CASE r.to \in U /\ r.from \notin U
      <4>1. r \in InboundOf(U) BY <3>2 DEF InboundOf, Enters
      <4>2. nodes[r.from] \in Settled BY <1>1, <3>2, <4>1 DEF SettledBehind
      <4> QED BY <1>1, <1>2, <3>2, <4>2
    <3>3. CASE r.to \notin U
      <4>1. nodes[r.from] \in Settled \/ Forgotten(r.from)
        BY <1>1, <1>2, <2>1, <3>3 DEF SettledBehind
      <4> QED BY <1>2, <1>3, <1>10, <4>1 DEF Settled
    <3> QED BY <3>1, <3>2, <3>3
  <2>2. ASSUME NEW V \in Units, NEW r \in InboundOf(V), nodes'[r.to] \in {"running", "awaiting"}
        PROVE  nodes'[r.from] \in Settled
    <3>1. r \in graph.routes BY DEF InboundOf
    <3>2. nodes[r.from] \in Settled BY <1>2, <1>4, <2>2, <3>1 DEF SettledBehind, Settled
    <3> QED BY <1>2, <1>3, <3>1, <3>2 DEF Settled
  <2> QED BY <1>0, <2>1, <2>2 DEF SettledBehind
<1>14. LaunchedWhenCalled'
  <2> SUFFICES ASSUME NEW V \in Units, NEW k \in V, nodes'[k] \notin {"pending", "skipped"}
               PROVE  Called(V)'
    BY <1>0 DEF LaunchedWhenCalled
  <2>1. nodes[k] \notin {"pending", "skipped"} BY <1>1, <1>2
  <2>2. Called(V) BY <2>1 DEF LaunchedWhenCalled
  <2>3. \A r \in InboundOf(V) : nodes[r.from] \in {"completed", "failed"} =>
          nodes'[r.from] = nodes[r.from]
    BY <1>2, <1>3 DEF InboundOf
  <2> QED BY <1>0, <2>2, <2>3 DEF Called
<1>15. Exhausted' BY <1>0 DEF Exhausted
<1> QED BY <1>5, <1>6, <1>7, <1>8, <1>9, <1>11, <1>12, <1>13, <1>14, <1>15

\* No route leads from a step to itself.
LEMMA NoSelfRoute ==
    ASSUME graph \in Graphs, NEW r \in graph.routes
    PROVE  r.from # r.to
<1>1. {r.to} \in SUBSET Steps /\ {r.to} # {} BY GraphShape
<1>2. PICK n \in {r.to} : \A s \in graph.routes : s.to = n => s.from \notin {r.to}
  BY <1>1, GraphShape
<1> QED BY <1>2

\* All that leads to a parked gate is settled.
LEMMA BehindGate ==
    ASSUME GraphTypeOK, UnitsMove, SettledBehind, NEW r \in graph.routes,
           nodes[r.to] = "awaiting"
    PROVE  nodes[r.from] \in Settled
<1>1. r.to \in Steps BY GraphShape DEF GraphTypeOK
<1>2. {r.to} \in Units BY <1>1, GraphShape DEF GraphTypeOK, UnitsMove
<1>3. r \in InboundOf({r.to}) BY NoSelfRoute DEF InboundOf, Enters, GraphTypeOK
<1> QED BY <1>2, <1>3 DEF SettledBehind

\* When a traversal has ended that nobody cancelled, nothing is forgotten.
LEMMA EndRemembersAll ==
    ASSUME GraphInv, pc = "done", ctx = "live"
    PROVE  \A n \in Steps : ~Forgotten(n)
<1> USE DEF GraphInv
<1> SUFFICES ASSUME NEW n \in Steps, Forgotten(n) PROVE FALSE OBVIOUS
<1>1. work = {} /\ visit = {} BY DEF Exhausted
<1>2. \A m \in Steps : Forgotten(m) => \E R \in Regions : m \in R /\ ForgottenRegion(R)
  BY <1>1, NothingForgotten
<1>3. PICK R \in Regions : n \in R /\ ForgottenRegion(R) BY <1>2
<1>4. \A r \in InboundOf(R) : edges[r] = "notTaken" BY <1>1, <1>2, <1>3, ForgottenIsShut
<1>5. RegionSkipped(R) BY <1>3, <1>4 DEF RegionSkipped, ForgottenRegion, Forgotten
<1> QED BY <1>1, <1>5 DEF Exhausted

\* A new execution after a pause keeps it: what was skipped is forgotten, for
\* reasons that still hold, and what completed is known.
LEMMA ResumeStep ==
    ASSUME GraphInv, GraphTypeOK', Resume
    PROVE  GraphInv'
<1> USE DEF GraphInv
<1>0. /\ graph' = graph /\ Regions' = Regions /\ Units' = Units
      /\ \A V : InboundOf(V)' = InboundOf(V)
      /\ UNCHANGED <<visit, final, ctx, verdict, decided>>
      /\ pc = "done" /\ ctx = "live" /\ final = "completed" /\ pc' = "top"
  BY GraphFixed, Resuming DEF GraphNext
<1>1. /\ \A n \in Steps :
           /\ n \in rows' <=> n \in rows \/ nodes[n] = "awaiting"
           /\ nodes'[n] = IF n \in rows' THEN "completed" ELSE "pending"
           /\ n \in work' <=> n \in rows'
      /\ \A r \in graph.routes : edges'[r] = "pending"
  BY Resuming
<1>2. /\ \A r \in graph.routes : r.from \in Steps /\ r.to \in Steps
      /\ \A V \in Units : V \subseteq Steps /\ V # {}
      /\ Regions \subseteq Units
  BY GraphShape DEF GraphTypeOK
<1>3. \A n \in Steps : nodes[n] \in {"pending", "completed", "skipped", "awaiting"}
  BY <1>0 DEF GraphTypeOK, NodeState, FinalTells, Exhausted
<1>4. \A n \in Steps : ~Forgotten(n) BY <1>0, EndRemembersAll
<1>5. \A n \in Steps : nodes'[n] = IF nodes[n] \in {"completed", "awaiting"}
                                   THEN "completed" ELSE "pending"
  BY <1>1 DEF Remembered
<1>6. \A n \in Steps : Forgotten(n)' <=> nodes[n] = "skipped"
  BY <1>0, <1>3, <1>4, <1>5 DEF Forgotten, Remembered
<1>7. RoutesFollow'
  <2>1. \A n \in work' : nodes'[n] \in Settled
    <3>1. work' \subseteq Steps BY DEF GraphTypeOK
    <3> QED BY <1>1, <3>1 DEF Settled
  <2>2. \A r \in graph.routes : ~(nodes'[r.from] \in Settled /\ r.from \notin work')
    BY <1>1, <1>2 DEF Settled
  <2> QED BY <1>0, <1>1, <2>1, <2>2 DEF RoutesFollow
<1>8. Cascaded' BY <1>0, <1>1 DEF Cascaded
<1>9. Remembered' BY <1>0, <1>1, <1>5 DEF Remembered
<1>10. UnitsMove'
  <2>1. ASSUME NEW V \in Units
        PROVE  \/ \A m, n \in V : nodes'[m] = nodes'[n]
               \/ \A n \in V : nodes'[n] \in {"pending", "skipped"}
    <3>1. CASE \A m, n \in V : nodes[m] = nodes[n] BY <1>2, <1>5, <3>1
    <3>2. CASE \A n \in V : nodes[n] \in {"pending", "skipped"} BY <1>2, <1>5, <3>2
    <3> QED BY <3>1, <3>2 DEF UnitsMove
  <2>2. \A R \in Regions : LateEntry(R, graph) => \A m, n \in R : nodes'[m] = nodes'[n]
    BY <1>2, <1>5 DEF UnitsMove
  <2>3. \A n \in Steps : nodes'[n] # "awaiting" BY <1>5
  <2> QED BY <1>0, <2>1, <2>2, <2>3 DEF UnitsMove
<1>11. FinalTells' BY <1>5 DEF FinalTells
<1>12. SkippedForCause' BY <1>5 DEF SkippedForCause
<1>13. ASSUME NEW r \in graph.routes, nodes[r.from] = "skipped" \/ edges[r] = "notTaken"
       PROVE  WillNotTake(r)'
  <2>1. CASE nodes[r.from] = "skipped" BY <1>2, <1>6, <2>1 DEF WillNotTake
  <2>2. CASE edges[r] = "notTaken"
    <3>1. nodes[r.from] \in Settled /\ (nodes[r.from] = "completed" => r.when /\ verdict[r] = "no")
      BY <2>2, NotTakenWhy
    <3>2. nodes[r.from] \in {"skipped", "completed"} BY <1>2, <1>3, <3>1 DEF Settled
    <3> QED BY <1>0, <1>2, <1>5, <1>6, <3>1, <3>2 DEF WillNotTake
  <2> QED BY <1>13, <2>1, <2>2
<1>14. Replayed'
  <2>1. Replaying' BY <1>0, <1>5 DEF Replaying
  <2> SUFFICES ASSUME NEW n \in Steps, nodes[n] = "skipped"
               PROVE  \/ /\ \E r \in graph.routes : r.to = n
                         /\ \A r \in graph.routes : r.to = n => WillNotTake(r)'
                      \/ \E R \in Regions : n \in R /\ ForgottenRegion(R)'
    BY <1>0, <1>6, <2>1 DEF Replayed
  <2>2. ASSUME NEW R \in Regions, n \in R, ShutOut(R) PROVE ForgottenRegion(R)'
    <3>1. \A m \in R : m \in Steps /\ nodes[m] = "skipped"
      BY <1>2, <2>2 DEF UnitsMove, ShutOut
    <3>2. \A r \in InboundOf(R) : WillNotTake(r)'
      BY <1>13, <2>2 DEF ShutOut, InboundOf
    <3> QED BY <1>0, <1>6, <2>2, <3>1, <3>2 DEF ForgottenRegion, ShutOut
  <2> QED BY <1>13, <2>2 DEF SkippedForCause
<1>15. SettledBehind'
  <2>1. ASSUME NEW r \in graph.routes, nodes'[r.to] \in Settled
        PROVE  nodes'[r.from] \in Settled \/ Forgotten(r.from)'
    <3>1. nodes[r.to] \in {"completed", "awaiting"} BY <1>2, <1>5, <2>1 DEF Settled
    <3>2. nodes[r.from] \in Settled
      <4>1. CASE nodes[r.to] = "completed"
        BY <1>2, <1>4, <4>1 DEF SettledBehind, Settled
      <4>2. CASE nodes[r.to] = "awaiting" BY <4>2, BehindGate
      <4> QED BY <3>1, <4>1, <4>2
    <3>3. nodes[r.from] \in {"completed", "skipped"} BY <1>2, <1>3, <3>2 DEF Settled
    <3> QED BY <1>2, <1>5, <1>6, <3>3 DEF Settled
  <2>2. \A n \in Steps : nodes'[n] \notin {"running", "awaiting"} BY <1>5
  <2> QED BY <1>0, <1>2, <2>1, <2>2 DEF SettledBehind, InboundOf
<1>16. LaunchedWhenCalled'
  <2> SUFFICES ASSUME NEW V \in Units, NEW k \in V, nodes'[k] \notin {"pending", "skipped"}
               PROVE  Called(V)'
    BY <1>0 DEF LaunchedWhenCalled
  <2>1. nodes[k] \notin {"pending", "skipped"} BY <1>2, <1>5
  <2>2. Called(V) BY <2>1 DEF LaunchedWhenCalled
  <2>3. \A r \in InboundOf(V) : nodes[r.from] \in {"completed", "failed"} =>
          nodes'[r.from] = nodes[r.from]
    BY <1>2, <1>3, <1>5 DEF InboundOf
  <2> QED BY <1>0, <2>2, <2>3 DEF Called
<1>17. Exhausted' BY <1>0 DEF Exhausted
<1> QED BY <1>7, <1>8, <1>9, <1>10, <1>11, <1>12, <1>14, <1>15, <1>16, <1>17

\* Steps that decide nothing keep it: a launch under a dead context, the end of
\* the traversal, a cancellation.
LEMMA QuietStep ==
    ASSUME GraphInv, GraphTypeOK', SkipLaunch \/ Drain \/ CancelContext \/ UNCHANGED graphVars
    PROVE  GraphInv'
<1> USE DEF GraphInv
<1>0. /\ graph' = graph /\ Regions' = Regions /\ Units' = Units
      /\ \A V : InboundOf(V)' = InboundOf(V)
      /\ UNCHANGED <<nodes, edges, work, rows, verdict, decided>>
  <2>1. [GraphNext]_graphVars BY DEF GraphNext, Scheduler
  <2> QED BY <2>1, GraphFixed DEF SkipLaunch, Drain, CancelContext, graphVars
<1>1. RoutesFollow' /\ Cascaded' /\ Remembered' /\ UnitsMove'
  BY <1>0 DEF RoutesFollow, Cascaded, Remembered, UnitsMove
<1>2. SkippedForCause' BY <1>0 DEF SkippedForCause, ShutOut
<1>3. /\ \A n : Forgotten(n)' <=> Forgotten(n)
      /\ \A r : WillNotTake(r)' <=> WillNotTake(r)
  BY <1>0 DEF Forgotten, WillNotTake
<1>4. \A R : ForgottenRegion(R)' <=> ForgottenRegion(R) BY <1>0, <1>3 DEF ForgottenRegion
<1>5. SettledBehind' /\ LaunchedWhenCalled'
  BY <1>0, <1>3 DEF SettledBehind, LaunchedWhenCalled, Called
<1>6. \A U : (Ready(U)' <=> Ready(U)) /\ (RegionSkipped(U)' <=> RegionSkipped(U))
  BY <1>0 DEF Ready, RegionSkipped
<1>7. CASE SkipLaunch
  <2>1. FinalTells' BY <1>0, <1>7 DEF FinalTells, SkipLaunch
  <2>2. Replayed'
    <3>1. \A n \in Steps : Forgotten(n) => \E R \in Regions : n \in R /\ ForgottenRegion(R)
      BY <1>7, NothingForgotten DEF SkipLaunch
    <3> QED BY <1>0, <1>3, <1>4, <3>1 DEF Replayed
  <2>3. Exhausted' BY <1>0, <1>7 DEF Exhausted, SkipLaunch
  <2> QED BY <1>1, <1>2, <1>5, <2>1, <2>2, <2>3
<1>8. CASE Drain
  <2>1. FinalTells' BY <1>0, <1>8 DEF FinalTells, Drain
  <2>2. Replayed' BY <1>0, <1>3, <1>4, <1>8 DEF Replayed, Replaying, Drain
  <2>3. \A n \in Steps : nodes[n] # "running"
    <3> SUFFICES ASSUME NEW n \in Steps, nodes[n] = "running" PROVE FALSE OBVIOUS
    <3>1. PICK U \in Units : n \in U BY GraphShape DEF GraphTypeOK
    <3>2. \A m \in U : nodes[m] = "running" BY <3>1 DEF UnitsMove
    <3> QED BY <1>8, <3>2 DEF Drain, LaunchedUnits
  <2>4. Exhausted' BY <1>0, <1>6, <1>8, <2>3 DEF Exhausted, Drain
  <2> QED BY <1>1, <1>2, <1>5, <2>1, <2>2, <2>4
<1>9. CASE CancelContext
  <2>1. FinalTells' BY <1>0, <1>9 DEF FinalTells, CancelContext
  <2>2. Replayed' BY <1>0, <1>3, <1>4, <1>9 DEF Replayed, Replaying, CancelContext
  <2>3. Exhausted' BY <1>0, <1>9 DEF Exhausted, CancelContext
  <2> QED BY <1>1, <1>2, <1>5, <2>1, <2>2, <2>3
<1>10. CASE UNCHANGED graphVars
  <2>1. UNCHANGED <<pc, visit, final, ctx>> BY <1>10 DEF graphVars
  <2>2. FinalTells' BY <1>0, <2>1 DEF FinalTells
  <2>3. Replayed' BY <1>0, <1>3, <1>4, <2>1 DEF Replayed, Replaying
  <2>4. Exhausted' BY <1>0, <1>6, <2>1 DEF Exhausted
  <2> QED BY <1>1, <1>2, <1>5, <2>2, <2>3, <2>4
<1> QED BY <1>7, <1>8, <1>9, <1>10

\* The invariant of the scheduler is inductive.
LEMMA GraphInvStep ==
    ASSUME RegularRuns, GraphInv, [GraphNext]_graphVars
    PROVE  GraphInv'
<1>1. GraphTypeOK' BY GraphTypeStep DEF GraphInv
<1>2. ASSUME NEW n \in Steps, ResolveOutbound(n) PROVE GraphInv' BY <1>1, <1>2, ResolveStep
<1>3. CASE Launch BY <1>1, <1>3, LaunchStep
<1>4. ASSUME NEW R \in Regions, SkipSkippedRegion(R) PROVE GraphInv'
  BY <1>1, <1>4, SkipRegionStep
<1>5. ASSUME NEW U \in Units, NEW state \in {"completed", "failed", "cancelled"}, Collect(U, state)
      PROVE  GraphInv'
  BY <1>1, <1>5, CollectStep
<1>6. CASE Resume BY <1>1, <1>6, ResumeStep
<1>7. CASE SkipLaunch \/ Drain \/ CancelContext \/ UNCHANGED graphVars BY <1>1, <1>7, QuietStep
<1> QED BY <1>2, <1>3, <1>4, <1>5, <1>6, <1>7 DEF GraphNext, Scheduler

\* It holds of a traversal that has yet to begin.
LEMMA GraphInvInit == GraphInit => GraphInv
<1> SUFFICES ASSUME GraphInit PROVE GraphInv OBVIOUS
<1>1. /\ graph \in Graphs /\ nodes = [n \in Steps |-> "pending"]
      /\ edges = [r \in graph.routes |-> "pending"]
      /\ work = {} /\ pc = "top" /\ visit = {} /\ final = "completed" /\ ctx = "live"
      /\ rows = {} /\ decided = {} /\ verdict = [r \in graph.routes |-> "unknown"]
  BY DEF GraphInit
<1>2. /\ \A r \in graph.routes : r.from \in Steps /\ r.to \in Steps
      /\ \A V \in Units : V \subseteq Steps /\ V # {}
      /\ Regions \subseteq Units
  BY <1>1, GraphShape
<1>3. GraphTypeOK BY <1>1 DEF GraphTypeOK, NodeState, EdgeState
<1>4. RoutesFollow BY <1>1, <1>2 DEF RoutesFollow, Settled
<1>5. Cascaded /\ Remembered /\ FinalTells /\ SkippedForCause
  BY <1>1 DEF Cascaded, Remembered, FinalTells, SkippedForCause
<1>6. UnitsMove BY <1>1, <1>2 DEF UnitsMove
<1>7. Replayed BY <1>1 DEF Replayed, Forgotten
<1>8. SettledBehind BY <1>1, <1>2 DEF SettledBehind, Settled, InboundOf
<1>9. LaunchedWhenCalled BY <1>1, <1>2 DEF LaunchedWhenCalled
<1>10. Exhausted BY <1>1 DEF Exhausted
<1> QED BY <1>3, <1>4, <1>5, <1>6, <1>7, <1>8, <1>9, <1>10 DEF GraphInv

\* What lies behind a unit under way is settled: going back from it one finds
\* settled steps only, and none of them was forgotten by a resume.
LEMMA BehindIsSettled ==
    ASSUME GraphInv PROVE AncestorsSettled
<1> USE DEF GraphInv
<1> SUFFICES ASSUME NEW U \in Units, NEW k \in U, nodes[k] \in {"running", "awaiting"},
                    NEW a \in Upstream(U)
             PROVE  nodes[a] \in Settled
  BY DEF AncestorsSettled
<1>1. /\ \A r \in graph.routes : r.from \in Steps /\ r.to \in Steps
      /\ U \subseteq Steps /\ Regions \subseteq Units
  BY GraphShape DEF GraphTypeOK
<1>2. PICK n \in U : Reaches(a, n) /\ a \in Steps \ U BY DEF Upstream
<1>3. \A m \in U : nodes[m] \in {"running", "awaiting"} BY <1>1 DEF UnitsMove
<1> DEFINE T == {m \in Steps : nodes[m] \in Settled} \cup U
<1>4. ASSUME NEW r \in graph.routes, r.to \in T \cup {n} PROVE r.from \in T
  <2>1. CASE nodes[r.to] \in Settled
    <3>1. nodes[r.from] \in Settled \/ Forgotten(r.from) BY <2>1 DEF SettledBehind
    <3>2. ASSUME Forgotten(r.from) PROVE FALSE
      <4>1. ~Replaying BY <1>1 DEF Replaying
      <4>2. PICK R \in Regions : r.from \in R /\ ForgottenRegion(R)
        BY <1>1, <3>2, <4>1 DEF Replayed
      <4>3. Forgotten(r.to) BY <4>2 DEF ForgottenRegion, LateEntry
      <4> QED BY <2>1, <4>3 DEF Forgotten, Settled
    <3> QED BY <1>1, <3>1, <3>2
  <2>2. CASE r.to \in U /\ r.from \notin U
    <3>1. r \in InboundOf(U) BY <2>2 DEF InboundOf, Enters
    <3> QED BY <1>1, <1>3, <2>2, <3>1 DEF SettledBehind
  <2>3. CASE r.from \in U BY <2>3
  <2> QED BY <1>4, <2>1, <2>2, <2>3
<1>5. T \in SUBSET Steps BY <1>1
<1>6. a \in T
  <2> HIDE DEF T
  <2> QED BY <1>2, <1>4, <1>5 DEF Reaches
<1> QED BY <1>2, <1>6

\* The source of a route lies upstream, and so does what lies upstream of the
\* source's unit: a region that is left is entered at one step, which leads to
\* every other.
LEMMA UpstreamOfSource ==
    ASSUME graph \in Graphs, Regular(graph), NEW U \in Units, NEW V \in Units,
           NEW r \in InboundOf(U), r.from \in V
    PROVE  /\ r.from \in Upstream(U)
           /\ \A a \in Upstream(V) : a \in U \/ a \in Upstream(U)
<1>1. /\ r \in graph.routes /\ r.to \in U /\ r.from \notin U
      /\ r.from \in Steps /\ r.to \in Steps /\ U \subseteq Steps /\ V \subseteq Steps
      /\ r.to \notin V
  BY GraphShape DEF InboundOf, Enters
<1>2. r.from \in Upstream(U) BY <1>1 DEF Upstream, Reaches
<1>3. ASSUME NEW a \in Upstream(V), a \notin U PROVE a \in Upstream(U)
  <2>1. PICK v \in V : a \in Steps \ V /\ Reaches(a, v) BY DEF Upstream
  <2> SUFFICES ASSUME NEW S \in SUBSET Steps,
                      \A s \in graph.routes : s.to \in S \cup {r.to} => s.from \in S
               PROVE  a \in S
    BY <1>1, <1>3, <2>1 DEF Upstream, Reaches
  <2>2. r.from \in S BY <1>1
  <2>3. CASE V \notin Regions
    <3>1. V = {v} BY <2>1, <2>3, GraphShape DEF Units, UnitsOf, Regions
    <3>2. v \in S BY <1>1, <2>2, <3>1
    <3> QED BY <2>1, <3>2 DEF Reaches
  <2>4. CASE V \in Regions
    <3>1. SingleEntry(V, graph) BY <1>1, <2>4 DEF Regular, Regions, LateEntry
    <3>2. PICK e \in V :
            /\ \A n \in V \ {e} : \E s \in graph.routes : s.to = n /\ s.from \in V
            /\ \A s \in graph.routes : s.to \in V \ {e} => s.from \in V
      BY <3>1 DEF SingleEntry
    <3>3. e \in S
      <4> DEFINE W == S \cap V
      <4>1. W \in SUBSET Steps /\ W # {} BY <2>2
      <4>2. PICK w \in W : \A s \in graph.routes : s.to = w => s.from \notin W
        <5> HIDE DEF W
        <5> QED BY <4>1, GraphShape
      <4>3. w = e BY <3>2, <4>2
      <4> QED BY <4>3
    <3>4. \A s \in graph.routes : s.to \in (S \cup V) \cup {v} => s.from \in S \cup V
      BY <3>2, <3>3
    <3>5. S \cup V \in SUBSET Steps BY <1>1
    <3>6. a \in S \cup V BY <2>1, <3>4, <3>5 DEF Reaches
    <3> QED BY <2>1, <3>6
  <2> QED BY <2>3, <2>4
<1> QED BY <1>2, <1>3

\* With nothing left to serve, the cascade has gone through whole units.
LEMMA UnitsWhole ==
    ASSUME RegularRuns, GraphInv, work = {}, NEW U \in Units
    PROVE  \A m, n \in U : nodes[m] = nodes[n]
<1> USE DEF GraphInv
<1>1. U \subseteq Steps BY GraphShape DEF GraphTypeOK
<1> SUFFICES ASSUME \A n \in U : nodes[n] \in {"pending", "skipped"}
             PROVE  \A m, n \in U : nodes[m] = nodes[n]
  BY DEF UnitsMove
<1>2. CASE U \notin Regions
  <2>1. PICK n \in Steps : U = {n} BY <1>2 DEF Units, UnitsOf, Regions
  <2> QED BY <2>1
<1>3. CASE U \in Regions /\ LateEntry(U, graph) BY <1>3 DEF UnitsMove
<1>4. CASE U \in Regions /\ SingleEntry(U, graph) /\ ~LateEntry(U, graph)
  <2>1. PICK e \in U :
          /\ \A n \in U \ {e} : \E r \in graph.routes : r.to = n /\ r.from \in U
          /\ \A r \in graph.routes : r.to \in U \ {e} => r.from \in U
    BY <1>4 DEF SingleEntry
  <2> DEFINE Q == {n \in U : nodes[n] = "skipped"}
             P == {n \in U : nodes[n] = "pending"}
  <2>2. ASSUME Q # {} PROVE e \in Q
    <3>1. Q \in SUBSET Steps BY <1>1
    <3>2. PICK n \in Q : \A r \in graph.routes : r.to = n => r.from \notin Q
      <4> HIDE DEF Q
      <4> QED BY <2>2, <3>1, GraphShape DEF GraphTypeOK
    <3>3. ASSUME n # e PROVE FALSE
      <4>1. PICK r \in graph.routes : r.to = n /\ r.from \in U BY <2>1, <3>2, <3>3
      <4>2. nodes[r.from] = "pending" BY <3>2, <4>1
      <4>3. edges[r] # "notTaken" BY <4>2, NotTakenWhy DEF Settled
      <4>4. PICK R \in Regions : n \in R /\ ShutOut(R)
        BY <1>1, <3>2, <4>1, <4>2, <4>3 DEF SkippedForCause
      <4>5. R = U BY <1>1, <3>2, <4>4, GraphShape DEF GraphTypeOK
      <4> QED BY <1>4, <4>4, <4>5 DEF ShutOut
    <3> QED BY <3>2, <3>3
  <2>3. ASSUME e \in Q, P # {} PROVE FALSE
    <3>1. P \in SUBSET Steps BY <1>1
    <3>2. PICK n \in P : \A r \in graph.routes : r.to = n => r.from \notin P
      <4> HIDE DEF P
      <4> QED BY <2>3, <3>1, GraphShape DEF GraphTypeOK
    <3>3. n # e /\ n \in Steps /\ nodes[n] = "pending" BY <1>1, <2>3, <3>2
    <3>4. ASSUME NEW r \in graph.routes, r.to = n PROVE edges[r] = "notTaken"
      <4>1. r.from \in U BY <2>1, <3>2, <3>3, <3>4
      <4>2. nodes[r.from] = "skipped" BY <3>2, <3>4, <4>1
      <4> QED BY <4>2, ShutRoute DEF WillNotTake, Forgotten
    <3>5. \E r \in graph.routes : r.to = n BY <2>1, <3>2, <3>3
    <3> QED BY <3>3, <3>4, <3>5 DEF Cascaded
  <2>4. Q = {} \/ P = {} BY <2>2, <2>3
  <2> QED BY <2>4
<1> QED BY <1>2, <1>3, <1>4 DEF RegularRuns, Regular, Regions, GraphTypeOK

----------------------------------------------------------------------------
(* What the traversal did when it ends *)

\* At the end of a traversal nobody cancelled: nothing is being served or
\* runs, nothing is forgotten, and every unit is of one state.
LEMMA AtTheEnd ==
    ASSUME RegularRuns, GraphInv, pc = "done", ctx = "live"
    PROVE  /\ work = {}
           /\ \A n \in Steps : nodes[n] \in Settled \cup {"pending", "awaiting"}
           /\ \A n \in Steps : ~Forgotten(n)
           /\ \A U \in Units : \A m, n \in U : nodes[m] = nodes[n]
           /\ \A U \in Units : ~Ready(U)
           /\ \A R \in Regions : ~RegionSkipped(R)
<1>1. work = {} /\ visit = {} /\ \A n \in Steps : nodes[n] # "running"
  BY DEF GraphInv, Exhausted
<1>2. \A n \in Steps : nodes[n] \in Settled \cup {"pending", "awaiting"}
  BY <1>1 DEF GraphInv, GraphTypeOK, NodeState, Settled
<1>3. \A U \in Units : \A m, n \in U : nodes[m] = nodes[n] BY <1>1, UnitsWhole
<1>4. (\A U \in Units : ~Ready(U)) /\ \A R \in Regions : ~RegionSkipped(R)
  BY <1>1 DEF GraphInv, Exhausted
<1> QED BY <1>1, <1>2, <1>3, <1>4, EndRemembersAll

\* What lies behind a waiting gate has not been touched: behind a settled step
\* and behind a gate all is settled, so the gate itself would be.
LEMMA BehindAGate ==
    ASSUME RegularRuns, GraphInv, pc = "done", ctx = "live",
           NEW U \in Units, NEW a \in Upstream(U), nodes[a] = "awaiting"
    PROVE  \A n \in U : nodes[n] = "pending"
<1> USE DEF GraphInv
<1>1. /\ \A r \in graph.routes : r.from \in Steps /\ r.to \in Steps
      /\ U \subseteq Steps
  BY GraphShape DEF GraphTypeOK
<1>2. PICK n \in U : Reaches(a, n) /\ a \in Steps \ U BY DEF Upstream
<1>3. SUFFICES ASSUME nodes[n] # "pending" PROVE FALSE BY <1>2, AtTheEnd
<1> DEFINE T == {m \in Steps : nodes[m] \in Settled}
<1>4. ASSUME NEW r \in graph.routes, r.to \in T \cup {n} PROVE r.from \in T
  <2>1. nodes[r.to] \in Settled \cup {"awaiting"} BY <1>1, <1>3, <1>4, AtTheEnd
  <2>2. CASE nodes[r.to] \in Settled
    BY <1>1, <2>2, AtTheEnd DEF SettledBehind
  <2>3. CASE nodes[r.to] = "awaiting" BY <1>1, <2>3, BehindGate
  <2> QED BY <2>1, <2>2, <2>3
<1>5. a \in T BY <1>2, <1>4 DEF Reaches
<1> QED BY <1>5 DEF Settled

\* Units that no gate holds back are not left pending. Among those that were,
\* one comes first; its sources are all settled, so that it is ready, or to be
\* skipped as a region, or was skipped by the cascade.
LEMMA NothingLeftBehind ==
    ASSUME RegularRuns, GraphInv, pc = "done", ctx = "live",
           NEW U \in Units, Upstream(U) \cap Awaiting = {}
    PROVE  \A n \in U : nodes[n] # "pending"
<1> USE DEF GraphInv
<1>1. /\ graph \in Graphs /\ Regular(graph)
      /\ \A r \in graph.routes : r.from \in Steps /\ r.to \in Steps
      /\ \A V \in Units : V # {} /\ V \subseteq Steps
      /\ \A n \in Steps : \E V \in Units : n \in V
  BY GraphShape DEF GraphTypeOK, RegularRuns
<1> DEFINE P == {V \in Units : /\ \A n \in V : nodes[n] = "pending"
                               /\ Upstream(V) \cap Awaiting = {}}
<1>2. ASSUME P # {} PROVE FALSE
  <2>1. PICK V \in P : \A r \in graph.routes : Enters(r, V) => r.from \notin UNION P
    <3>1. P \in SUBSET UnitsOf(graph) BY DEF Units
    <3> HIDE DEF P
    <3> QED BY <1>1, <1>2, <3>1 DEF Regular, UnitsAcyclic
  <2>2. /\ V \in Units /\ V \subseteq Steps /\ Upstream(V) \cap Awaiting = {}
        /\ \A n \in V : nodes[n] = "pending"
    BY <1>1, <2>1
  <2>3. ASSUME NEW r \in InboundOf(V) PROVE edges[r] # "pending"
    <3>1. r \in graph.routes /\ Enters(r, V) /\ r.from \in Steps
      BY <1>1, <2>3 DEF InboundOf
    <3>2. PICK W \in Units : r.from \in W BY <1>1, <3>1
    <3>3. /\ r.from \in Upstream(V)
          /\ \A a \in Upstream(W) : a \in V \/ a \in Upstream(V)
      BY <1>1, <2>2, <2>3, <3>2, UpstreamOfSource
    <3>4. Upstream(W) \cap Awaiting = {}
      <4> SUFFICES ASSUME NEW a \in Upstream(W), nodes[a] = "awaiting", a \in Steps PROVE FALSE
        BY DEF Awaiting
      <4>1. a \in V \/ a \in Upstream(V) BY <3>3
      <4>2. a \notin V BY <2>2
      <4> QED BY <2>2, <4>1, <4>2 DEF Awaiting
    <3>5. W \notin P BY <2>1, <3>1, <3>2
    <3>6. PICK n \in W : nodes[n] # "pending" BY <3>2, <3>4, <3>5
    <3>7. nodes[r.from] # "pending" BY <3>2, <3>6, AtTheEnd
    <3>8. nodes[r.from] # "awaiting" BY <2>2, <3>1, <3>3 DEF Awaiting
    <3>9. nodes[r.from] \in Settled BY <3>1, <3>7, <3>8, AtTheEnd
    <3> QED BY <3>1, <3>9, AtTheEnd DEF RoutesFollow
  <2>4. \A r \in InboundOf(V) : edges[r] \in {"taken", "notTaken"}
    BY <2>3 DEF GraphTypeOK, EdgeState, InboundOf
  <2>5. InboundOf(V) # {} /\ \A r \in InboundOf(V) : edges[r] = "notTaken"
    <3>1. ~Ready(V) BY <2>2, AtTheEnd
    <3> QED BY <2>2, <2>4, <3>1 DEF Ready
  <2>6. CASE V \in Regions
    <3>1. RegionSkipped(V) BY <2>2, <2>5 DEF RegionSkipped
    <3> QED BY <2>6, <3>1, AtTheEnd
  <2>7. CASE V \notin Regions
    <3>1. PICK n \in Steps : V = {n} BY <2>2, <2>7 DEF Units, UnitsOf, Regions
    <3>2. \A r \in graph.routes : r.to = n => r \in InboundOf(V)
      BY <1>1, <3>1, NoSelfRoute DEF InboundOf, Enters
    <3>3. \E r \in graph.routes : r.to = n BY <2>5, <3>1 DEF InboundOf, Enters
    <3>4. nodes[n] # "pending" BY <2>5, <3>2, <3>3 DEF Cascaded
    <3> QED BY <2>2, <3>1, <3>4
  <2> QED BY <2>6, <2>7
<1>3. U \notin P BY <1>2
<1>4. \E n \in U : nodes[n] # "pending" BY <1>3
<1> QED BY <1>4, AtTheEnd

\* A skipped unit is one the graph does not ask for.
LEMMA SkippedIsNotDue ==
    ASSUME GraphInv, work = {}, NEW U \in Units, \A n \in U : nodes[n] = "skipped"
    PROVE  ~Due(U)
<1> USE DEF GraphInv
<1>1. /\ \A r \in graph.routes : r.from \in Steps /\ r.to \in Steps /\ r.when \in BOOLEAN
      /\ U # {} /\ U \subseteq Steps /\ Regions \subseteq Units
  BY GraphShape DEF GraphTypeOK
<1>2. ASSUME NEW n \in U, NEW R \in Regions, n \in R PROVE R = U
  BY <1>1, <1>2, GraphShape DEF GraphTypeOK
<1>3. InboundOf(U) # {}
  <2>1. PICK n \in U : \A r \in graph.routes : r.to = n => r.from \notin U
    BY <1>1, GraphShape DEF GraphTypeOK
  <2>2. CASE \E R \in Regions : n \in R /\ ShutOut(R) BY <1>2, <2>2 DEF ShutOut
  <2>3. CASE \E r \in graph.routes : r.to = n BY <2>1, <2>3 DEF InboundOf, Enters
  <2> QED BY <1>1, <2>2, <2>3 DEF SkippedForCause
<1>4. ASSUME NEW r \in InboundOf(U)
      PROVE  DecideRoute(r, nodes[r.from], verdict[r] = "yes") # "taken"
  <2>1. r \in graph.routes /\ r.to \in U /\ nodes[r.to] = "skipped"
    BY DEF InboundOf, Enters
  <2>2. CASE nodes[r.from] = "skipped"
    BY <2>2 DEF DecideRoute
  <2>3. CASE edges[r] = "notTaken"
    BY <2>1, <2>3 DEF RoutesFollow
  <2>4. CASE \E R \in Regions : r.to \in R /\ ShutOut(R)
    <3>1. ShutOut(U) BY <1>2, <2>1, <2>4
    <3>2. edges[r] = "notTaken" BY <3>1 DEF ShutOut
    <3> QED BY <2>3, <3>2
  <2> QED BY <1>1, <2>1, <2>2, <2>3, <2>4 DEF SkippedForCause
<1> QED BY <1>3, <1>4 DEF Due

LEMMA EndsExactly ==
    ASSUME RegularRuns, GraphInv PROVE ExactFrontier
<1> SUFFICES ASSUME pc = "done", ctx = "live", NEW U \in Units
             PROVE  IF Upstream(U) \cap Awaiting # {}
                    THEN \A n \in U : nodes[n] = "pending"
                    ELSE IF Due(U) THEN Ran(U) ELSE \A n \in U : nodes[n] = "skipped"
  BY DEF ExactFrontier
<1>1. U # {} /\ U \subseteq Steps BY GraphShape DEF GraphInv, GraphTypeOK
<1>2. CASE Upstream(U) \cap Awaiting # {}
  <2>1. PICK a \in Upstream(U) : nodes[a] = "awaiting" BY <1>2 DEF Awaiting
  <2> QED BY <1>2, <2>1, BehindAGate
<1>3. CASE Upstream(U) \cap Awaiting = {}
  <2>1. \A n \in U : nodes[n] # "pending" BY <1>3, NothingLeftBehind
  <2>2. \A m, n \in U : nodes[m] = nodes[n] BY AtTheEnd
  <2>3. CASE \A n \in U : nodes[n] = "skipped"
    <3>1. ~Due(U) BY <2>3, AtTheEnd, SkippedIsNotDue
    <3> QED BY <1>3, <2>3, <3>1
  <2>4. CASE \A n \in U : nodes[n] # "skipped"
    <3>1. Ran(U) BY <1>1, <2>1, <2>4, AtTheEnd DEF Ran, Settled
    <3>2. Called(U) BY <1>1, <2>1, <2>4 DEF GraphInv, LaunchedWhenCalled
    <3>3. Due(U) BY <3>2 DEF Called, Due
    <3> QED BY <1>3, <3>1, <3>3
  <2> QED BY <2>2, <2>3, <2>4
<1> QED BY <1>2, <1>3

LEMMA FailedIsRed ==
    ASSUME GraphInv PROVE FailureIsRed
<1> SUFFICES ASSUME NEW n \in Steps, nodes[n] = "failed" PROVE Outcome = "failed"
  BY DEF FailureIsRed
<1>1. final = "failed" BY DEF GraphInv, FinalTells
<1> QED BY <1>1 DEF Outcome

\* Only Launch makes a pending step run or wait, and only one not yet decided.
LEMMA LaunchedFresh ==
    ASSUME RegularRuns, GraphInv, [GraphNext]_graphVars,
           NEW n \in Steps, nodes[n] = "pending", nodes'[n] \in {"running", "awaiting"}
    PROVE  n \notin decided
<1>1. GraphTypeOK /\ RoutesFollow BY DEF GraphInv
<1>2. CASE Launch
  <2>1. PICK U \in Units : n \in U BY <1>1, GraphShape DEF GraphTypeOK
  <2>2. Ready(U) BY <1>1, <1>2, <2>1, Launching
  <2> QED BY <1>1, <1>2, <2>1, <2>2, Launching, LaunchFresh
<1>3. ASSUME NEW m \in Steps, ResolveOutbound(m) PROVE FALSE BY <1>1, <1>3, Resolving
<1>4. ASSUME NEW R \in Regions, SkipSkippedRegion(R) PROVE FALSE
  BY <1>1, <1>4, SkippingRegion
<1>5. ASSUME NEW U \in Units, NEW state \in {"completed", "failed", "cancelled"}, Collect(U, state)
      PROVE  FALSE
  BY <1>1, <1>5, Collecting
<1>6. CASE Resume BY <1>1, <1>6, Resuming
<1>7. CASE SkipLaunch \/ Drain \/ CancelContext \/ UNCHANGED graphVars
  BY <1>7 DEF SkipLaunch, Drain, CancelContext, graphVars
<1> QED BY <1>2, <1>3, <1>4, <1>5, <1>6, <1>7 DEF GraphNext, Scheduler

\* The invariant of the scheduler, for every pipeline whose regions are of the
\* two kinds runGraph handles and every way its results, skips, cancellations
\* and resumes interleave: in particular the states of its steps and routes
\* agree, and a unit moves as one.
THEOREM GraphInvariant ==
    ASSUME RegularRuns PROVE GraphSpec => []GraphInv
<1>1. GraphInit => GraphInv BY GraphInvInit
<1>2. GraphInv /\ [GraphNext]_graphVars => GraphInv' BY GraphInvStep
<1> QED BY <1>1, <1>2, PTL DEF GraphSpec

\* visibleFor is right: what runs or waits at a gate has only settled steps
\* behind it, also while the step runs of an execution before the pause are
\* replayed; and finalStatus is right: a failed step fails the run.
THEOREM TraversalIsSound ==
    ASSUME RegularRuns PROVE GraphSpec => []TraversalSound
<1>1. GraphInv => TraversalSound BY BehindIsSettled, FailedIsRed DEF TraversalSound
<1> QED BY <1>1, GraphInvariant, PTL

\* runGraph ends where the graph says: every unit its conditions and results
\* ask for has run, all others were skipped, and only what lies behind a
\* waiting gate is untouched.
THEOREM FrontierIsExact ==
    ASSUME RegularRuns PROVE GraphSpec => []ExactFrontier
<1>1. GraphInv => ExactFrontier BY EndsExactly
<1> QED BY <1>1, GraphInvariant, PTL

\* nodeReady and regionReady never let a step run twice in the life of a run,
\* nor one that an earlier execution skipped: rebuildResumeState gives back
\* enough of the past.
THEOREM StepsRunOnce ==
    ASSUME RegularRuns PROVE GraphSpec => RunsOnce
<1>1. GraphInv /\ [GraphNext]_graphVars
        => [\A n \in Steps : nodes[n] = "pending" /\ nodes'[n] \in {"running", "awaiting"}
                => n \notin decided]_graphVars
  BY LaunchedFresh
<1> QED BY <1>1, GraphInvariant, PTL DEF GraphSpec, RunsOnce

=============================================================================
