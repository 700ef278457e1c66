-------------------------- MODULE RepoMaintenance --------------------------
(***************************************************************************)
(* git-factory: the maintenance sweep over the repositories of a shared    *)
(* store.  Every pod ticks; the one whose conditional UPDATE wins the      *)
(* lease walks the repositories, clears abandoned ref locks and repacks,   *)
(* while a second goroutine renews the lease.  A completed sweep keeps the *)
(* lease until the next one is due, an interrupted one gives it up.        *)
(*                                                                         *)
(* A statement carries the time its pod read before sending it, and any    *)
(* amount of time may pass in between.  The pods' clocks agree.  A         *)
(* statement takes effect while its call is waiting for it, or never.      *)
(***************************************************************************)
EXTENDS Naturals, FiniteSets

CONSTANTS
    Pods,       \* the replicas; a restarted one keeps its identity
    Repos,      \* the repositories, each with one ref that is pushed to
    Pushes,     \* receive-pack processes
    Ttl,        \* GIT_MAINTENANCE_LEASE_TTL
    Interval,   \* GIT_MAINTENANCE_INTERVAL
    MaxAge,     \* GIT_REF_LOCK_MAX_AGE
    Horizon,    \* bound on the clock
    MaxFaults   \* bound on failed statements, crashes and shutdowns

ASSUME MaintenanceAssumption ==
    /\ Ttl \in Nat \ {0} /\ Interval \in Nat \ {0} /\ MaxAge \in Nat \ {0}
    /\ Horizon \in Nat /\ MaxFaults \in Nat

VARIABLES
    now,     \* the clock
    holder,  \* the lease row: who was granted it last, as a set of at most one
    expires, \* the lease row: until when
    pc,      \* pc[p]: where runLeasedSweep is
    seen,    \* seen[p]: the time read for the pod's pending statement
    renew,   \* renew[p]: the renewing goroutine
    rseen,   \* rseen[p]: the time read for its pending statement
    todo,    \* todo[p]: the repositories the sweep has not reached
    cur,     \* cur[p]: the repository it is at
    closing, \* the pods that are shutting down
    grant,   \* grant[p]: until when the pod knows the lease to be its own
    quiet,   \* until when the last completed sweep put off the next
    lock,    \* lock[r]: the ref's lock file, its creator and its age
    push,    \* push[k]: the state of a receive-pack process
    faults

lease == <<holder, expires>>
sweep == <<pc, seen, todo, cur>>
renewer == <<renew, rseen>>
files == <<lock, push>>
vars == <<now, lease, sweep, renewer, closing, grant, quiet, files, faults>>

NoLock == [by |-> {}, mtime |-> 0]

Init ==
    /\ now = 0 /\ holder = {} /\ expires = 0
    /\ pc = [p \in Pods |-> "idle"] /\ seen = [p \in Pods |-> 0]
    /\ renew = [p \in Pods |-> "off"] /\ rseen = [p \in Pods |-> 0]
    /\ todo = [p \in Pods |-> {}] /\ cur = [p \in Pods |-> {}]
    /\ closing = {} /\ grant = [p \in Pods |-> 0] /\ quiet = 0
    /\ lock = [r \in Repos |-> NoLock] /\ push = [k \in Pushes |-> "new"]
    /\ faults = 0

Fault == faults < MaxFaults /\ faults' = faults + 1
Goto(p, step) == pc' = [pc EXCEPT ![p] = step]

Sweeping(p) == pc[p] \in {"sweep", "stat", "unlink", "gc", "stopping"}

---------------------------------------------------------------------------
(* The lease *)

(* startMaintenance's ticker fires; acquireLease reads the clock. *)
TickFires(p) ==
    /\ pc[p] = "idle" /\ p \notin closing
    /\ Goto(p, "acquire") /\ seen' = [seen EXCEPT ![p] = now]
    /\ UNCHANGED <<now, lease, renewer, todo, cur, closing, grant, quiet, files, faults>>

Free(p) == expires <= seen[p]

(* acquireLease, then the start of the sweep and of its renewing goroutine. *)
Acquire(p) ==
    /\ pc[p] = "acquire"
    /\ Free(p)
    /\ holder' = {p} /\ expires' = seen[p] + Ttl
    /\ grant' = [grant EXCEPT ![p] = seen[p] + Ttl]
    /\ Goto(p, "sweep") /\ todo' = [todo EXCEPT ![p] = Repos]
    /\ renew' = [renew EXCEPT ![p] = "waiting"]
    /\ seen' = [seen EXCEPT ![p] = 0]
    /\ UNCHANGED <<now, rseen, cur, closing, quiet, files, faults>>

(* The lease is another's, or the statement fails: the tick is skipped. *)
SkipTick(p) ==
    /\ pc[p] = "acquire"
    /\ \/ ~Free(p) /\ UNCHANGED faults
       \/ Fault
    /\ Goto(p, "idle") /\ seen' = [seen EXCEPT ![p] = 0]
    /\ UNCHANGED <<now, lease, todo, cur, renewer, closing, grant, quiet, files>>

RenewTick(p) ==
    /\ renew[p] = "waiting" /\ Sweeping(p) /\ pc[p] # "stopping"
    /\ renew' = [renew EXCEPT ![p] = "querying"] /\ rseen' = [rseen EXCEPT ![p] = now]
    /\ UNCHANGED <<now, lease, sweep, closing, grant, quiet, files, faults>>

\* Mutant: any lease that has not lapsed can be renewed.
RenewableByAnyone(p) == expires > rseen[p]

Renewable(p) == holder = {p} /\ expires > rseen[p]

(* renewLease *)
Renew(p) ==
    /\ renew[p] = "querying"
    /\ Renewable(p)
    /\ expires' = rseen[p] + Ttl
    /\ grant' = [grant EXCEPT ![p] = rseen[p] + Ttl]
    /\ renew' = [renew EXCEPT ![p] = "waiting"] /\ rseen' = [rseen EXCEPT ![p] = 0]
    /\ UNCHANGED <<now, holder, sweep, closing, quiet, files, faults>>

(* The lease is gone: lost is set and the goroutine ends.  A failed query  *)
(* is only tried again; the end of the sweep cancels one that is pending.  *)
RenewFails(p) ==
    /\ renew[p] = "querying"
    /\ \/ ~Renewable(p) /\ renew' = [renew EXCEPT ![p] = "lost"] /\ UNCHANGED faults
       \/ Fault /\ renew' = [renew EXCEPT ![p] = "waiting"]
       \/ /\ pc[p] = "stopping" /\ renew' = [renew EXCEPT ![p] = "waiting"]
          /\ UNCHANGED faults
    /\ rseen' = [rseen EXCEPT ![p] = 0]
    /\ UNCHANGED <<now, lease, sweep, closing, grant, quiet, files>>

---------------------------------------------------------------------------
(* The sweep *)

(* runMaintenanceWhile: keepGoing and the context are consulted between    *)
(* repositories.                                                           *)
BeginRepo(p) ==
    /\ pc[p] = "sweep" /\ renew[p] # "lost" /\ p \notin closing
    /\ \E r \in todo[p] :
          cur' = [cur EXCEPT ![p] = {r}] /\ todo' = [todo EXCEPT ![p] = @ \ {r}]
    /\ Goto(p, "stat")
    /\ UNCHANGED <<now, lease, seen, renewer, closing, grant, quiet, files, faults>>

(* listAllRepoIDs fails: the sweep is over, and counts as a complete one. *)
ListFails(p) ==
    /\ pc[p] = "sweep" /\ todo[p] = Repos /\ todo[p] # {}
    /\ Fault
    /\ todo' = [todo EXCEPT ![p] = {}]
    /\ UNCHANGED <<now, lease, pc, seen, cur, renewer, closing, grant, quiet, files>>

LeaveStore(p) ==
    /\ pc[p] = "sweep"
    /\ todo[p] = {} \/ renew[p] = "lost" \/ p \in closing
    /\ Goto(p, "stopping") /\ cur' = [cur EXCEPT ![p] = {}]
    /\ UNCHANGED <<now, lease, seen, todo, renewer, closing, grant, quiet, files, faults>>

Stale(r) == lock[r].by # {} /\ lock[r].mtime + MaxAge < now

(* sweepStaleLocksIn: the file's age is read, then the file at that path   *)
(* is removed; one that is gone by then is not an error.                   *)
StatLock(p) ==
    /\ pc[p] = "stat"
    /\ Goto(p, IF \A r \in cur[p] : Stale(r) THEN "unlink" ELSE "gc")
    /\ UNCHANGED <<now, lease, seen, todo, cur, renewer, closing, grant, quiet, files, faults>>

Unlink(p) ==
    /\ pc[p] = "unlink"
    /\ lock' = [r \in Repos |-> IF r \in cur[p] THEN NoLock ELSE lock[r]]
    /\ Goto(p, "gc")
    /\ UNCHANGED <<now, lease, seen, todo, cur, renewer, closing, grant, quiet, push, faults>>

(* gcRepo: repacked, skipped for a push in this pod, or failed. *)
Gc(p) ==
    /\ pc[p] = "gc"
    /\ Goto(p, "sweep") /\ cur' = [cur EXCEPT ![p] = {}]
    /\ UNCHANGED <<now, lease, seen, todo, renewer, closing, grant, quiet, files, faults>>

\* Mutant: the sweep ends without waiting for the renewing goroutine.
RenewerLeft(p) == TRUE

RenewerDone(p) == renew[p] # "querying"

Ending(p) ==
    IF renew[p] = "lost" THEN "idle" ELSE IF p \in closing THEN "release" ELSE "cooldown"

(* stopRenew, renewing.Wait, and which of the three endings it is. *)
EndSweep(p) ==
    /\ pc[p] = "stopping"
    /\ RenewerDone(p)
    /\ Goto(p, Ending(p))
    /\ seen' = [seen EXCEPT ![p] = IF renew[p] = "lost" THEN 0 ELSE now]
    /\ grant' = [grant EXCEPT ![p] = 0] /\ todo' = [todo EXCEPT ![p] = {}]
    /\ renew' = [renew EXCEPT ![p] = IF @ = "querying" THEN @ ELSE "off"]
    /\ UNCHANGED <<now, lease, cur, rseen, closing, quiet, files, faults>>

(* coolDownLease *)
CoolDown(p) ==
    /\ pc[p] = "cooldown"
    /\ holder = {p}
    /\ expires' = seen[p] + Interval /\ quiet' = seen[p] + Interval
    /\ Goto(p, "idle") /\ seen' = [seen EXCEPT ![p] = 0]
    /\ UNCHANGED <<now, holder, todo, cur, renewer, closing, grant, files, faults>>

(* releaseLease *)
Release(p) ==
    /\ pc[p] = "release"
    /\ holder = {p}
    /\ expires' = 0
    /\ Goto(p, "idle") /\ seen' = [seen EXCEPT ![p] = 0]
    /\ UNCHANGED <<now, holder, todo, cur, renewer, closing, grant, quiet, files, faults>>

(* The row names another holder by now, or the statement fails. *)
LeaseNotTouched(p) ==
    /\ pc[p] \in {"cooldown", "release"}
    /\ \/ holder # {p} /\ UNCHANGED faults
       \/ Fault
    /\ Goto(p, "idle") /\ seen' = [seen EXCEPT ![p] = 0]
    /\ UNCHANGED <<now, lease, todo, cur, renewer, closing, grant, quiet, files>>

---------------------------------------------------------------------------
(* Pods come and go *)

Shutdown(p) ==
    /\ p \notin closing
    /\ Fault
    /\ closing' = closing \cup {p}
    /\ UNCHANGED <<now, lease, sweep, renewer, grant, quiet, files>>

Restart(p) ==
    /\ pc[p] = "idle" /\ p \in closing
    /\ closing' = closing \ {p}
    /\ UNCHANGED <<now, lease, sweep, renewer, grant, quiet, files, faults>>

(* The process dies: its goroutines are gone, the row stays as it is. *)
Crash(p) ==
    /\ pc[p] # "idle"
    /\ Fault
    /\ Goto(p, "idle") /\ seen' = [seen EXCEPT ![p] = 0]
    /\ renew' = [renew EXCEPT ![p] = "off"] /\ rseen' = [rseen EXCEPT ![p] = 0]
    /\ todo' = [todo EXCEPT ![p] = {}] /\ cur' = [cur EXCEPT ![p] = {}]
    /\ grant' = [grant EXCEPT ![p] = 0] /\ closing' = closing \ {p}
    /\ UNCHANGED <<now, lease, quiet, files>>

---------------------------------------------------------------------------
(* git's own ref locks *)

TakeRefLock(k, r) ==
    /\ push[k] = "new" /\ lock[r] = NoLock
    /\ lock' = [lock EXCEPT ![r] = [by |-> {k}, mtime |-> now]]
    /\ push' = [push EXCEPT ![k] = "holding"]
    /\ UNCHANGED <<now, lease, sweep, renewer, closing, grant, quiet, faults>>

(* The new value is renamed over the ref; the lock file is gone with it. *)
CommitRef(k) ==
    /\ push[k] = "holding"
    /\ lock' = [r \in Repos |-> IF lock[r].by = {k} THEN NoLock ELSE lock[r]]
    /\ push' = [push EXCEPT ![k] = "done"]
    /\ UNCHANGED <<now, lease, sweep, renewer, closing, grant, quiet, faults>>

(* The process is killed with its pod: the file stays. *)
PushDies(k) ==
    /\ push[k] = "holding"
    /\ Fault
    /\ push' = [push EXCEPT ![k] = "dead"]
    /\ UNCHANGED <<now, lease, sweep, renewer, closing, grant, quiet, lock>>

Live(r) == \E k \in lock[r].by : push[k] = "holding"

(* Time passes.  refLockMaxAge is longer than any process holds a ref.     *)
Tick ==
    /\ now < Horizon
    /\ \A r \in Repos : Live(r) => now < lock[r].mtime + MaxAge
    /\ now' = now + 1
    /\ UNCHANGED <<lease, sweep, renewer, closing, grant, quiet, files, faults>>

---------------------------------------------------------------------------
Sweep(p) ==
    \/ TickFires(p) \/ Acquire(p) \/ SkipTick(p)
    \/ RenewTick(p) \/ Renew(p) \/ RenewFails(p)
    \/ BeginRepo(p) \/ ListFails(p) \/ LeaveStore(p) \/ StatLock(p)
    \/ Unlink(p) \/ Gc(p) \/ EndSweep(p) \/ CoolDown(p) \/ Release(p) \/ LeaseNotTouched(p)

Next ==
    \/ \E p \in Pods : Sweep(p) \/ Shutdown(p) \/ Restart(p) \/ Crash(p)
    \/ \E k \in Pushes : (\E r \in Repos : TakeRefLock(k, r)) \/ CommitRef(k) \/ PushDies(k)
    \/ Tick

Spec == Init /\ [][Next]_vars

---------------------------------------------------------------------------
(* Two pods walk the store at once only when one of them has outlived the  *)
(* lease it was granted or last renewed: a stalled sweeper cannot renew    *)
(* its way back behind the new holder's back.                              *)
EntitledSweepsAlone ==
    \A p, q \in Pods :
       p # q /\ Sweeping(p) /\ Sweeping(q) => grant[p] <= now \/ grant[q] <= now

(* One sweep per interval: once a completed sweep has put the next one     *)
(* off, no pod begins a sweep before that time, whatever renewals,         *)
(* releases, takeovers and restarts were under way.                        *)
OneSweepPerInterval ==
    [][\A p \in Pods : ~Sweeping(p) /\ Sweeping(p)' => quiet <= now]_vars

(* "the janitors need no coordination because the loser of a race gets     *)
(* ENOENT from the unlink": the lock of a push in flight is left to it.    *)
LiveLockKept ==
    [][\A r \in Repos, k \in Pushes :
          lock[r].by = {k} /\ push[k] = "holding" /\ push'[k] = "holding"
             => lock'[r] = lock[r]]_vars
=============================================================================
