----------------------------- MODULE ForgeLease -----------------------------
(***************************************************************************)
(* Sandbox leases: a row in the leases table, the pod that backs it, the   *)
(* goroutine that boots the pod, the holder who runs commands in it and    *)
(* releases it, and the reaper that ends leases past their deadlines and   *)
(* deletes pods no active lease accounts for. Row and pod live in          *)
(* different systems, so every pair of steps on them can be torn apart.    *)
(***************************************************************************)
EXTENDS Integers, FiniteSets

CONSTANTS
    Leases,         \* lease ids that may be created, all of one user
    MaxLeases,      \* maxLeasesPerUser; <= 0 is unlimited
    MaxCommands,    \* commands run in a behaviour
    MaxLeaseFaults  \* crashes and failed calls in a behaviour

Nobody == "nobody" \* no lease: the sweep holds none it has to stop

ASSUME LeaseConstants ==
    /\ MaxLeases \in Int /\ MaxCommands \in Nat /\ MaxLeaseFaults \in Nat
    /\ Nobody \notin Leases

Active     == {"starting", "ready"}
EndedLease == {"stopped", "failed"}

VARIABLES
    row,      \* leases.status; "none" before the insert
    pod,      \* whether the lease's pod exists in the cluster
    creator,  \* handleCreateLease: "none", or "counted" once the quota is passed
    starter,  \* startLeaseAsync
    releaser, \* handleReleaseLease: "none", "won" the row, "done"
    cmd,      \* the command in the lease: "none", "pending", "running", "ended"
    commands, \* commands submitted so far
    idle,     \* leases past their idle deadline
    late,     \* leases past their start timeout
    old,      \* leases past their maximum lifetime
    sweep,    \* the sweep: what it has read and has left to do
    worked,   \* leases with a live command ever since the sweep began
    missed,   \* active leases a sweep took for gone: inserted between its lists of
              \* rows and of pods, or expired but not moved for a database error
    leaseFaults

life  == <<idle, late, old>>
users == <<cmd, commands>>
ghost == <<worked, missed>>
leaseVars == <<row, pod, creator, starter, releaser, users, life, sweep, ghost, leaseFaults>>

Asleep == [at |-> "asleep", known |-> {}, idle |-> {}, expired |-> {}, todo |-> {},
           victim |-> Nobody, orphans |-> {}]

LeaseInit ==
    /\ row = [l \in Leases |-> "none"] /\ pod = {}
    /\ creator = [l \in Leases |-> "none"] /\ starter = [l \in Leases |-> "none"]
    /\ releaser = [l \in Leases |-> "none"]
    /\ cmd = [l \in Leases |-> "none"] /\ commands = 0
    /\ idle = {} /\ late = {} /\ old = {}
    /\ sweep = Asleep /\ worked = {} /\ missed = {} /\ leaseFaults = 0

LeaseFault == leaseFaults < MaxLeaseFaults /\ leaseFaults' = leaseFaults + 1
Held == {l \in Leases : row[l] \in Active}

----------------------------------------------------------------------------
(* Creating and booting *)

\* activeLeaseCount, a read of its own.
CheckQuota(l) ==
    /\ creator[l] = "none" /\ (MaxLeases <= 0 \/ Cardinality(Held) < MaxLeases)
    /\ creator' = [creator EXCEPT ![l] = "counted"]
    /\ UNCHANGED <<row, pod, starter, releaser, users, life, sweep, ghost, leaseFaults>>

\* The row is inserted and its starter runs detached from the request.
Insert(l) ==
    /\ creator[l] = "counted"
    /\ creator' = [creator EXCEPT ![l] = "done"]
    /\ row' = [row EXCEPT ![l] = "starting"]
    /\ starter' = [starter EXCEPT ![l] = "boot"]
    /\ missed' = IF sweep.at = "asleep" \/ sweep.at = "deleting" THEN missed ELSE missed \cup {l}
    /\ UNCHANGED <<pod, releaser, users, life, sweep, worked, leaseFaults>>

\* resolveLeaseCredentials, then StartLease creates the pod; either may fail,
\* and the answer to a create that took place may be lost.
CreatePod(l) ==
    /\ starter[l] = "boot"
    /\ \/ pod' = pod \cup {l} /\ starter' = [starter EXCEPT ![l] = "wait"] /\ UNCHANGED leaseFaults
       \/ pod' = pod /\ starter' = [starter EXCEPT ![l] = "broken"] /\ UNCHANGED leaseFaults
       \/ pod' = pod \cup {l} /\ starter' = [starter EXCEPT ![l] = "broken"] /\ LeaseFault
    /\ UNCHANGED <<row, creator, releaser, users, life, sweep, ghost>>

\* waitLeaseReady: a pod that is gone, exits or is too slow is torn down here.
WaitReady(l) ==
    /\ starter[l] = "wait"
    /\ \/ l \in pod /\ starter' = [starter EXCEPT ![l] = "up"] /\ UNCHANGED pod
       \/ pod' = pod \ {l} /\ starter' = [starter EXCEPT ![l] = "broken"]
    /\ UNCHANGED <<row, creator, releaser, users, life, sweep, ghost, leaseFaults>>

\* finishLease: only from an active status. Whether the row moved is its answer.
FinishLease(l, s) == row[l] \in Active /\ row' = [row EXCEPT ![l] = s]

\* failLease; the write may fail, for one because it uses the start's context.
FailLease(l) ==
    /\ starter[l] = "broken"
    /\ starter' = [starter EXCEPT ![l] = "none"]
    /\ \/ FinishLease(l, "failed") /\ UNCHANGED leaseFaults
       \/ row[l] \notin Active /\ UNCHANGED <<row, leaseFaults>>
       \/ LeaseFault /\ UNCHANGED row
    /\ UNCHANGED <<pod, creator, releaser, users, life, sweep, ghost>>

\* markLeaseReady: guarded on starting.
StillStarting(l) == row[l] = "starting"

\* A write error leaves the lease starting, with a pod.
MarkReady(l) ==
    /\ starter[l] = "up"
    /\ \/ /\ StillStarting(l)
          /\ row' = [row EXCEPT ![l] = "ready"] /\ starter' = [starter EXCEPT ![l] = "none"]
          /\ idle' = idle \ {l} /\ UNCHANGED leaseFaults
       \/ /\ ~StillStarting(l)
          /\ starter' = [starter EXCEPT ![l] = "lostRace"] /\ UNCHANGED <<row, idle, leaseFaults>>
       \/ /\ LeaseFault
          /\ starter' = [starter EXCEPT ![l] = "none"] /\ UNCHANGED <<row, idle>>
    /\ UNCHANGED <<pod, creator, releaser, users, late, old, sweep, ghost>>

\* Released while booting: the starter stops the sandbox, if the call succeeds.
StopAfterLostRace(l) ==
    /\ starter[l] = "lostRace"
    /\ starter' = [starter EXCEPT ![l] = "none"]
    /\ \/ pod' = pod \ {l} /\ UNCHANGED leaseFaults
       \/ LeaseFault /\ UNCHANGED pod
    /\ UNCHANGED <<row, creator, releaser, users, life, sweep, ghost>>

----------------------------------------------------------------------------
(* Commands and release *)

\* handleSubmit takes a command only for a ready lease, one at a time here.
SubmitCommand(l) ==
    /\ row[l] = "ready" /\ cmd[l] = "none" /\ commands < MaxCommands
    /\ cmd' = [cmd EXCEPT ![l] = "pending"] /\ commands' = commands + 1
    /\ UNCHANGED <<row, pod, creator, starter, releaser, life, sweep, ghost, leaseFaults>>

\* runLeasedExec: the lease is read again, and touched, before the exec.
StartCommand(l) ==
    /\ cmd[l] = "pending"
    /\ \/ /\ row[l] = "ready"
          /\ cmd' = [cmd EXCEPT ![l] = "running"] /\ idle' = idle \ {l} /\ UNCHANGED worked
       \/ /\ row[l] # "ready"
          /\ cmd' = [cmd EXCEPT ![l] = "ended"] /\ worked' = worked \ {l} /\ UNCHANGED idle
    /\ UNCHANGED <<row, pod, creator, starter, releaser, commands, late, old, sweep, missed, leaseFaults>>

\* Complete ends the execution's row, and only then is the lease touched again.
CompleteCommand(l) ==
    /\ cmd[l] = "running"
    /\ cmd' = [cmd EXCEPT ![l] = "ended"] /\ worked' = worked \ {l}
    /\ UNCHANGED <<row, pod, creator, starter, releaser, commands, life, sweep, missed, leaseFaults>>

TouchLease(l) ==
    /\ cmd[l] = "ended"
    /\ cmd' = [cmd EXCEPT ![l] = "none"] /\ idle' = idle \ {l}
    /\ UNCHANGED <<row, pod, creator, starter, releaser, commands, late, old, sweep, ghost, leaseFaults>>

\* releaseLease, for the holder: the row first, then the sandbox if it moved.
ReleaseRow(l) ==
    /\ releaser[l] = "none" /\ row[l] # "none"
    /\ \/ FinishLease(l, "stopped") /\ releaser' = [releaser EXCEPT ![l] = "won"]
       \/ row[l] \notin Active /\ releaser' = [releaser EXCEPT ![l] = "done"] /\ UNCHANGED row
    /\ UNCHANGED <<pod, creator, starter, users, life, sweep, ghost, leaseFaults>>

StopFirst(l) == row[l] = "ready"
StopDue(l) == releaser[l] = "won"

\* StopLease; a failed call is logged.
StopSandbox(l) ==
    /\ StopDue(l)
    /\ releaser' = [releaser EXCEPT ![l] = "done"]
    /\ \/ pod' = pod \ {l} /\ UNCHANGED leaseFaults
       \/ LeaseFault /\ UNCHANGED pod
    /\ UNCHANGED <<row, creator, starter, users, life, sweep, ghost>>

----------------------------------------------------------------------------
(* The reaper *)

BusyLeases == {l \in Leases : cmd[l] \in {"pending", "running"}}

\* Still starting past the start timeout: the goroutine that booted it is gone.
NeverStarted == {l \in late : row[l] = "starting"}

\* reapLeases reads the active leases and, from then on, judges them by what
\* it read and by the clock of that moment.
ReapList ==
    /\ sweep.at = "asleep"
    /\ sweep' = [Asleep EXCEPT !.at = "listed", !.known = Held,
                    !.expired = (Held \cap old) \cup NeverStarted,
                    !.idle = Held \cap idle]
    /\ worked' = BusyLeases
    /\ UNCHANGED <<row, pod, creator, starter, releaser, users, life, missed, leaseFaults>>

\* leaseExpiryReason: only idleness is forgiven to a busy lease.
ForgiveNone(busy) == sweep.idle
IdleVictims(busy) == sweep.idle \ busy

KnownAfter(gone) == sweep.known \ gone

\* The one query for busy leases; when it fails nothing is idle.
ReapBusy(failed) ==
    /\ sweep.at = "listed"
    /\ IF failed THEN LeaseFault ELSE UNCHANGED leaseFaults
    /\ LET busy == IF failed THEN Leases ELSE BusyLeases
           gone == sweep.expired \cup IdleVictims(busy)
       IN  sweep' = [sweep EXCEPT !.at = "expiring", !.expired = gone, !.todo = gone,
                                    !.known = KnownAfter(gone)]
    /\ UNCHANGED <<row, pod, creator, starter, releaser, users, life, ghost>>

\* releaseLease for an expired lease; a database error keeps the row.
ReapRelease(l) ==
    /\ sweep.at = "expiring" /\ sweep.victim = Nobody /\ l \in sweep.todo
    /\ \/ /\ FinishLease(l, "stopped")
          /\ sweep' = [sweep EXCEPT !.victim = l, !.todo = @ \ {l}] /\ UNCHANGED <<missed, leaseFaults>>
       \/ /\ row[l] \notin Active
          /\ sweep' = [sweep EXCEPT !.todo = @ \ {l}] /\ UNCHANGED <<row, missed, leaseFaults>>
       \/ /\ LeaseFault
          /\ sweep' = [sweep EXCEPT !.todo = @ \ {l}] /\ missed' = missed \cup {l}
          /\ UNCHANGED row
    /\ UNCHANGED <<pod, creator, starter, releaser, users, life, worked>>

ReapStop ==
    /\ sweep.victim # Nobody
    /\ sweep' = [sweep EXCEPT !.victim = Nobody]
    /\ \/ pod' = pod \ {sweep.victim} /\ UNCHANGED leaseFaults
       \/ LeaseFault /\ UNCHANGED pod
    /\ UNCHANGED <<row, creator, starter, releaser, users, life, ghost>>

\* OrphanedLeasePods: pods of leases that are not known, listed now.
OrphansOfNoRow == {l \in pod \ sweep.known : row[l] = "none"}
Orphans == pod \ sweep.known

ReapOrphans ==
    /\ sweep.at = "expiring" /\ sweep.todo = {} /\ sweep.victim = Nobody
    /\ sweep' = IF Orphans = {} THEN Asleep ELSE [sweep EXCEPT !.at = "deleting", !.orphans = Orphans]
    /\ worked' = IF Orphans = {} THEN {} ELSE worked
    /\ UNCHANGED <<row, pod, creator, starter, releaser, users, life, missed, leaseFaults>>

\* DeleteLeasePodByName, one by one.
ReapDelete(l) ==
    /\ sweep.at = "deleting" /\ l \in sweep.orphans
    /\ \/ pod' = pod \ {l} /\ UNCHANGED leaseFaults
       \/ LeaseFault /\ UNCHANGED pod
    /\ sweep' = IF sweep.orphans = {l} THEN Asleep ELSE [sweep EXCEPT !.orphans = @ \ {l}]
    /\ worked' = IF sweep.orphans = {l} THEN {} ELSE worked
    /\ UNCHANGED <<row, creator, starter, releaser, users, life, missed>>

----------------------------------------------------------------------------
(* Time and crashes *)

\* Time reaches a lease's idle deadline, start timeout or maximum lifetime.
PassIdle(l) ==
    /\ l \in Held \ idle /\ idle' = idle \cup {l}
    /\ UNCHANGED <<row, pod, creator, starter, releaser, users, late, old, sweep, ghost, leaseFaults>>
PassStart(l) ==
    /\ row[l] = "starting" /\ l \notin late /\ late' = late \cup {l}
    /\ UNCHANGED <<row, pod, creator, starter, releaser, users, idle, old, sweep, ghost, leaseFaults>>
PassLifetime(l) ==
    /\ l \in Held \ old /\ old' = old \cup {l}
    /\ UNCHANGED <<row, pod, creator, starter, releaser, users, idle, late, sweep, ghost, leaseFaults>>

\* Forge restarts: its goroutines and requests are gone, and a command whose
\* worker died is ended by the execution reaper.
Restart ==
    /\ LeaseFault
    /\ starter' = [l \in Leases |-> "none"]
    /\ creator' = [l \in Leases |-> IF creator[l] = "counted" THEN "done" ELSE creator[l]]
    /\ releaser' = [l \in Leases |-> IF releaser[l] = "won" THEN "done" ELSE releaser[l]]
    /\ sweep' = Asleep /\ worked' = {}
    /\ UNCHANGED <<row, pod, users, life, missed>>

Starter(l) ==
    CreatePod(l) \/ WaitReady(l) \/ FailLease(l) \/ MarkReady(l) \/ StopAfterLostRace(l)

ReapLeases ==
    \/ ReapList \/ ReapStop \/ ReapOrphans \/ \E b \in BOOLEAN : ReapBusy(b)
    \/ \E l \in Leases : ReapRelease(l) \/ ReapDelete(l)

LeaseNext ==
    \/ \E l \in Leases :
          \/ CheckQuota(l) \/ Insert(l) \/ Starter(l)
          \/ SubmitCommand(l) \/ StartCommand(l) \/ CompleteCommand(l) \/ TouchLease(l)
          \/ ReleaseRow(l) \/ StopSandbox(l)
          \/ PassIdle(l) \/ PassStart(l) \/ PassLifetime(l)
    \/ ReapLeases \/ Restart

LeaseSpec == LeaseInit /\ [][LeaseNext]_leaseVars

\* The starters run, the start timeout passes, the reaper ticks. No holder
\* need release a lease.
LeaseFairSpec ==
    /\ LeaseSpec /\ WF_leaseVars(ReapLeases)
    /\ \A l \in Leases : WF_leaseVars(Starter(l)) /\ WF_leaseVars(PassStart(l))

----------------------------------------------------------------------------
(* Properties *)

\* A ready lease has its sandbox, however start, release, reaper and crashes
\* interleave (releaseLease: the opposite order "would leave an active row
\* pointing at a sandbox that no longer exists"). Left out are the leases a
\* sweep takes for gone although they are active: see SweepSparesActive.
ReadyHasSandbox ==
    \A l \in Leases \ missed : row[l] = "ready" => l \in pod

\* The orphan sweep never deletes the sandbox of an active lease (reapLeases:
\* "deleting its sandbox as an orphan would kill a live lease").
SweepSparesActive ==
    \A l \in Leases : row[l] = "ready" => l \in pod

\* A lease is not reaped as idle when a command has been pending or running in
\* it since the sweep began, however long ago that command was dispatched.
WorkingLeaseKept ==
    [][\A l \in worked \cap worked' : (row[l] \in Active /\ row'[l] = "stopped") =>
          l \in old \/ l \in late \/ releaser'[l] # releaser[l]]_leaseVars

\* A lease that has ended loses its pod for good, whatever crashed or failed
\* in between: the orphan sweep collects what nobody else does. And no lease
\* stays "starting" for ever, also when the goroutine that booted it is gone
\* (leaseExpiryReason: "Nothing else will ever move this row").
LeaseSettles ==
    \A l \in Leases :
        /\ row[l] \in EndedLease ~> [](l \notin pod)
        /\ row[l] = "starting" ~> row[l] # "starting"

=============================================================================
