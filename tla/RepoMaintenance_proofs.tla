----------------------- MODULE RepoMaintenance_proofs -----------------------
(***************************************************************************)
(* Theorems about the maintenance sweep, for any number of pods,           *)
(* repositories and pushes and for any lease time and interval.            *)
(***************************************************************************)
EXTENDS RepoMaintenance, TLAPS

Steps == {"idle", "acquire", "sweep", "stat", "unlink", "gc", "stopping",
          "cooldown", "release"}

(* The types of the variables that decide who may sweep and when. *)
LeaseTypeOK ==
    /\ now \in Nat /\ expires \in Nat /\ quiet \in Nat
    /\ holder \in SUBSET Pods
    /\ pc \in [Pods -> Steps]
    /\ seen \in [Pods -> Nat] /\ rseen \in [Pods -> Nat] /\ grant \in [Pods -> Nat]
    /\ renew \in [Pods -> {"off", "waiting", "querying", "lost"}]

(* No pod has read a time that is still to come. *)
ClocksRead == \A p \in Pods : seen[p] <= now /\ rseen[p] <= now

(* A renewal is pending only while its pod sweeps: the sweep's end waits   *)
(* for the goroutine.                                                      *)
RenewalInsideSweep == \A p \in Pods : renew[p] = "querying" => Sweeping(p)

(* A grant that has not run out is what the row says. *)
GrantIsTheRow ==
    \A p \in Pods : Sweeping(p) /\ now < grant[p] => holder = {p} /\ expires = grant[p]

Engaged(p) == Sweeping(p) \/ pc[p] \in {"cooldown", "release"}

(* Until the next sweep is due the row stands, and whoever is still under  *)
(* way from an earlier sweep does not hold it.                             *)
QuietStands ==
    now < quiet => quiet <= expires /\ \A p \in Pods : Engaged(p) => holder # {p}

SweepInv ==
    LeaseTypeOK /\ ClocksRead /\ RenewalInsideSweep /\ GrantIsTheRow /\ QuietStands

(* What the invariant depends on. *)
core == <<now, holder, expires, quiet, pc, seen, rseen, grant, renew>>

(* Initially nobody sweeps and the row is expired. *)
LEMMA InitSweepInv == Init => SweepInv
  BY DEF Init, SweepInv, LeaseTypeOK, Steps, ClocksRead, RenewalInsideSweep,
         GrantIsTheRow, QuietStands, Engaged, Sweeping

(* Steps on the store's files leave the invariant alone. *)
LEMMA CoreUnchanged ==
  ASSUME SweepInv, UNCHANGED core PROVE SweepInv'
  BY DEF core, SweepInv, LeaseTypeOK, Steps, ClocksRead, RenewalInsideSweep,
         GrantIsTheRow, QuietStands, Engaged, Sweeping

(* The invariant is inductive. *)
LEMMA NextSweepInv == SweepInv /\ [Next]_vars => SweepInv'
<1> SUFFICES ASSUME SweepInv, [Next]_vars PROVE SweepInv'
  OBVIOUS
<1> USE MaintenanceAssumption
<1>inv. LeaseTypeOK /\ ClocksRead /\ RenewalInsideSweep /\ GrantIsTheRow /\ QuietStands
  BY DEF SweepInv
<1>1. ASSUME NEW p \in Pods, TickFires(p) PROVE SweepInv'
  <2>1. LeaseTypeOK'
    BY <1>1, <1>inv DEF TickFires, Goto, LeaseTypeOK, Steps, lease, sweep, renewer
  <2>2. ClocksRead'
    BY <1>1, <1>inv DEF TickFires, Goto, LeaseTypeOK, ClocksRead, lease, sweep, renewer
  <2>3. RenewalInsideSweep'
    BY <1>1, <1>inv DEF TickFires, Goto, LeaseTypeOK, RenewalInsideSweep, Sweeping,
       lease, sweep, renewer
  <2>4. GrantIsTheRow'
    BY <1>1, <1>inv DEF TickFires, Goto, LeaseTypeOK, ClocksRead, GrantIsTheRow,
       Sweeping, RenewalInsideSweep, lease, sweep, renewer
  <2>5. QuietStands'
    BY <1>1, <1>inv DEF TickFires, Goto, LeaseTypeOK, ClocksRead, QuietStands, Engaged,
       Sweeping, RenewalInsideSweep, lease, sweep, renewer
  <2> QED
    BY <2>1, <2>2, <2>3, <2>4, <2>5 DEF SweepInv
<1>2. ASSUME NEW p \in Pods, Acquire(p) PROVE SweepInv'
  <2>1. LeaseTypeOK'
    BY <1>2, <1>inv DEF Acquire, Free, Goto, LeaseTypeOK, Steps, lease, sweep, renewer
  <2>2. ClocksRead'
    BY <1>2, <1>inv DEF Acquire, Goto, LeaseTypeOK, ClocksRead, lease, sweep, renewer
  <2>3. RenewalInsideSweep'
    BY <1>2, <1>inv DEF Acquire, Free, Goto, LeaseTypeOK, RenewalInsideSweep, Sweeping,
       lease, sweep, renewer
  <2>4. GrantIsTheRow'
    BY <1>2, <1>inv DEF Acquire, Free, Goto, LeaseTypeOK, ClocksRead, GrantIsTheRow,
       Sweeping, RenewalInsideSweep, lease, sweep, renewer
  <2>5. QuietStands'
    BY <1>2, <1>inv DEF Acquire, Free, Goto, LeaseTypeOK, ClocksRead, QuietStands,
       Engaged, Sweeping, RenewalInsideSweep, lease, sweep, renewer
  <2> QED
    BY <2>1, <2>2, <2>3, <2>4, <2>5 DEF SweepInv
<1>3. ASSUME NEW p \in Pods, SkipTick(p) PROVE SweepInv'
  <2>1. LeaseTypeOK'
    BY <1>3, <1>inv DEF SkipTick, Goto, LeaseTypeOK, Steps, lease, sweep, renewer
  <2>2. ClocksRead'
    BY <1>3, <1>inv DEF SkipTick, Goto, LeaseTypeOK, ClocksRead, lease, sweep, renewer
  <2>3. RenewalInsideSweep'
    BY <1>3, <1>inv DEF SkipTick, Goto, LeaseTypeOK, RenewalInsideSweep, Sweeping, lease,
       sweep, renewer
  <2>4. GrantIsTheRow'
    BY <1>3, <1>inv DEF SkipTick, Goto, LeaseTypeOK, ClocksRead, GrantIsTheRow, Sweeping,
       RenewalInsideSweep, lease, sweep, renewer
  <2>5. QuietStands'
    BY <1>3, <1>inv DEF SkipTick, Goto, LeaseTypeOK, ClocksRead, QuietStands, Engaged,
       Sweeping, RenewalInsideSweep, lease, sweep, renewer
  <2> QED
    BY <2>1, <2>2, <2>3, <2>4, <2>5 DEF SweepInv
<1>4. ASSUME NEW p \in Pods, RenewTick(p) PROVE SweepInv'
  <2>1. LeaseTypeOK'
    BY <1>4, <1>inv DEF RenewTick, LeaseTypeOK, Steps, lease, sweep, renewer
  <2>2. ClocksRead'
    BY <1>4, <1>inv DEF RenewTick, LeaseTypeOK, ClocksRead, lease, sweep, renewer
  <2>3. RenewalInsideSweep'
    BY <1>4, <1>inv DEF RenewTick, LeaseTypeOK, RenewalInsideSweep, Sweeping, lease,
       sweep, renewer
  <2>4. GrantIsTheRow'
    BY <1>4, <1>inv DEF RenewTick, LeaseTypeOK, ClocksRead, GrantIsTheRow, Sweeping,
       RenewalInsideSweep, lease, sweep, renewer
  <2>5. QuietStands'
    BY <1>4, <1>inv DEF RenewTick, LeaseTypeOK, ClocksRead, QuietStands, Engaged,
       Sweeping, RenewalInsideSweep, lease, sweep, renewer
  <2> QED
    BY <2>1, <2>2, <2>3, <2>4, <2>5 DEF SweepInv
<1>5. ASSUME NEW p \in Pods, Renew(p) PROVE SweepInv'
  <2>1. LeaseTypeOK'
    BY <1>5, <1>inv DEF Renew, Renewable, LeaseTypeOK, Steps, lease, sweep, renewer
  <2>2. ClocksRead'
    BY <1>5, <1>inv DEF Renew, LeaseTypeOK, ClocksRead, lease, sweep, renewer
  <2>3. RenewalInsideSweep'
    BY <1>5, <1>inv DEF Renew, Renewable, LeaseTypeOK, RenewalInsideSweep, Sweeping,
       lease, sweep, renewer
  <2>4. GrantIsTheRow'
    BY <1>5, <1>inv DEF Renew, Renewable, LeaseTypeOK, ClocksRead, GrantIsTheRow,
       Sweeping, RenewalInsideSweep, lease, sweep, renewer
  <2>5. QuietStands'
    BY <1>5, <1>inv DEF Renew, Renewable, LeaseTypeOK, ClocksRead, QuietStands, Engaged,
       Sweeping, RenewalInsideSweep, lease, sweep, renewer
  <2> QED
    BY <2>1, <2>2, <2>3, <2>4, <2>5 DEF SweepInv
<1>6. ASSUME NEW p \in Pods, RenewFails(p) PROVE SweepInv'
  <2>1. LeaseTypeOK'
    BY <1>6, <1>inv DEF RenewFails, Renewable, LeaseTypeOK, Steps, lease, sweep, renewer
  <2>2. ClocksRead'
    BY <1>6, <1>inv DEF RenewFails, LeaseTypeOK, ClocksRead, lease, sweep, renewer
  <2>3. RenewalInsideSweep'
    BY <1>6, <1>inv DEF RenewFails, Renewable, LeaseTypeOK, RenewalInsideSweep, Sweeping,
       lease, sweep, renewer
  <2>4. GrantIsTheRow'
    BY <1>6, <1>inv DEF RenewFails, Renewable, LeaseTypeOK, ClocksRead, GrantIsTheRow,
       Sweeping, RenewalInsideSweep, lease, sweep, renewer
  <2>5. QuietStands'
    BY <1>6, <1>inv DEF RenewFails, Renewable, LeaseTypeOK, ClocksRead, QuietStands,
       Engaged, Sweeping, RenewalInsideSweep, lease, sweep, renewer
  <2> QED
    BY <2>1, <2>2, <2>3, <2>4, <2>5 DEF SweepInv
<1>7. ASSUME NEW p \in Pods, BeginRepo(p) PROVE SweepInv'
  <2>1. LeaseTypeOK'
    BY <1>7, <1>inv DEF BeginRepo, Goto, LeaseTypeOK, Steps, lease, sweep, renewer
  <2>2. ClocksRead'
    BY <1>7, <1>inv DEF BeginRepo, Goto, LeaseTypeOK, ClocksRead, lease, sweep, renewer
  <2>3. RenewalInsideSweep'
    BY <1>7, <1>inv DEF BeginRepo, Goto, LeaseTypeOK, RenewalInsideSweep, Sweeping,
       lease, sweep, renewer
  <2>4. GrantIsTheRow'
    BY <1>7, <1>inv DEF BeginRepo, Goto, LeaseTypeOK, ClocksRead, GrantIsTheRow,
       Sweeping, RenewalInsideSweep, lease, sweep, renewer
  <2>5. QuietStands'
    BY <1>7, <1>inv DEF BeginRepo, Goto, LeaseTypeOK, ClocksRead, QuietStands, Engaged,
       Sweeping, RenewalInsideSweep, lease, sweep, renewer
  <2> QED
    BY <2>1, <2>2, <2>3, <2>4, <2>5 DEF SweepInv
<1>8. ASSUME NEW p \in Pods, ListFails(p) PROVE SweepInv'
  <2>1. LeaseTypeOK'
    BY <1>8, <1>inv DEF ListFails, LeaseTypeOK, Steps, lease, sweep, renewer
  <2>2. ClocksRead'
    BY <1>8, <1>inv DEF ListFails, LeaseTypeOK, ClocksRead, lease, sweep, renewer
  <2>3. RenewalInsideSweep'
    BY <1>8, <1>inv DEF ListFails, LeaseTypeOK, RenewalInsideSweep, Sweeping, lease,
       sweep, renewer
  <2>4. GrantIsTheRow'
    BY <1>8, <1>inv DEF ListFails, LeaseTypeOK, ClocksRead, GrantIsTheRow, Sweeping,
       RenewalInsideSweep, lease, sweep, renewer
  <2>5. QuietStands'
    BY <1>8, <1>inv DEF ListFails, LeaseTypeOK, ClocksRead, QuietStands, Engaged,
       Sweeping, RenewalInsideSweep, lease, sweep, renewer
  <2> QED
    BY <2>1, <2>2, <2>3, <2>4, <2>5 DEF SweepInv
<1>9. ASSUME NEW p \in Pods, LeaveStore(p) PROVE SweepInv'
  <2>1. LeaseTypeOK'
    BY <1>9, <1>inv DEF LeaveStore, Goto, LeaseTypeOK, Steps, lease, sweep, renewer
  <2>2. ClocksRead'
    BY <1>9, <1>inv DEF LeaveStore, Goto, LeaseTypeOK, ClocksRead, lease, sweep, renewer
  <2>3. RenewalInsideSweep'
    BY <1>9, <1>inv DEF LeaveStore, Goto, LeaseTypeOK, RenewalInsideSweep, Sweeping,
       lease, sweep, renewer
  <2>4. GrantIsTheRow'
    BY <1>9, <1>inv DEF LeaveStore, Goto, LeaseTypeOK, ClocksRead, GrantIsTheRow,
       Sweeping, RenewalInsideSweep, lease, sweep, renewer
  <2>5. QuietStands'
    BY <1>9, <1>inv DEF LeaveStore, Goto, LeaseTypeOK, ClocksRead, QuietStands, Engaged,
       Sweeping, RenewalInsideSweep, lease, sweep, renewer
  <2> QED
    BY <2>1, <2>2, <2>3, <2>4, <2>5 DEF SweepInv
<1>10. ASSUME NEW p \in Pods, StatLock(p) PROVE SweepInv'
  <2>1. LeaseTypeOK'
    BY <1>10, <1>inv DEF StatLock, Goto, LeaseTypeOK, Steps, lease, sweep, renewer
  <2>2. ClocksRead'
    BY <1>10, <1>inv DEF StatLock, Goto, LeaseTypeOK, ClocksRead, lease, sweep, renewer
  <2>3. RenewalInsideSweep'
    BY <1>10, <1>inv DEF StatLock, Goto, LeaseTypeOK, RenewalInsideSweep, Sweeping,
       lease, sweep, renewer
  <2>4. GrantIsTheRow'
    BY <1>10, <1>inv DEF StatLock, Goto, LeaseTypeOK, ClocksRead, GrantIsTheRow,
       Sweeping, RenewalInsideSweep, lease, sweep, renewer
  <2>5. QuietStands'
    BY <1>10, <1>inv DEF StatLock, Goto, LeaseTypeOK, ClocksRead, QuietStands, Engaged,
       Sweeping, RenewalInsideSweep, lease, sweep, renewer
  <2> QED
    BY <2>1, <2>2, <2>3, <2>4, <2>5 DEF SweepInv
<1>11. ASSUME NEW p \in Pods, Unlink(p) PROVE SweepInv'
  <2>1. LeaseTypeOK'
    BY <1>11, <1>inv DEF Unlink, Goto, LeaseTypeOK, Steps, lease, sweep, renewer
  <2>2. ClocksRead'
    BY <1>11, <1>inv DEF Unlink, Goto, LeaseTypeOK, ClocksRead, lease, sweep, renewer
  <2>3. RenewalInsideSweep'
    BY <1>11, <1>inv DEF Unlink, Goto, LeaseTypeOK, RenewalInsideSweep, Sweeping, lease,
       sweep, renewer
  <2>4. GrantIsTheRow'
    BY <1>11, <1>inv DEF Unlink, Goto, LeaseTypeOK, ClocksRead, GrantIsTheRow, Sweeping,
       RenewalInsideSweep, lease, sweep, renewer
  <2>5. QuietStands'
    BY <1>11, <1>inv DEF Unlink, Goto, LeaseTypeOK, ClocksRead, QuietStands, Engaged,
       Sweeping, RenewalInsideSweep, lease, sweep, renewer
  <2> QED
    BY <2>1, <2>2, <2>3, <2>4, <2>5 DEF SweepInv
<1>12. ASSUME NEW p \in Pods, Gc(p) PROVE SweepInv'
  <2>1. LeaseTypeOK'
    BY <1>12, <1>inv DEF Gc, Goto, LeaseTypeOK, Steps, lease, sweep, renewer
  <2>2. ClocksRead'
    BY <1>12, <1>inv DEF Gc, Goto, LeaseTypeOK, ClocksRead, lease, sweep, renewer
  <2>3. RenewalInsideSweep'
    BY <1>12, <1>inv DEF Gc, Goto, LeaseTypeOK, RenewalInsideSweep, Sweeping, lease,
       sweep, renewer
  <2>4. GrantIsTheRow'
    BY <1>12, <1>inv DEF Gc, Goto, LeaseTypeOK, ClocksRead, GrantIsTheRow, Sweeping,
       RenewalInsideSweep, lease, sweep, renewer
  <2>5. QuietStands'
    BY <1>12, <1>inv DEF Gc, Goto, LeaseTypeOK, ClocksRead, QuietStands, Engaged,
       Sweeping, RenewalInsideSweep, lease, sweep, renewer
  <2> QED
    BY <2>1, <2>2, <2>3, <2>4, <2>5 DEF SweepInv
<1>13. ASSUME NEW p \in Pods, EndSweep(p) PROVE SweepInv'
  <2>1. LeaseTypeOK'
    BY <1>13, <1>inv DEF EndSweep, RenewerDone, Ending, Goto, LeaseTypeOK, Steps, lease,
       sweep, renewer
  <2>2. ClocksRead'
    BY <1>13, <1>inv DEF EndSweep, Goto, LeaseTypeOK, ClocksRead, lease, sweep, renewer
  <2>3. RenewalInsideSweep'
    BY <1>13, <1>inv DEF EndSweep, RenewerDone, Ending, Goto, LeaseTypeOK,
       RenewalInsideSweep, Sweeping, lease, sweep, renewer
  <2>4. GrantIsTheRow'
    BY <1>13, <1>inv DEF EndSweep, RenewerDone, Ending, Goto, LeaseTypeOK, ClocksRead,
       GrantIsTheRow, Sweeping, RenewalInsideSweep, lease, sweep, renewer
  <2>5. QuietStands'
    BY <1>13, <1>inv DEF EndSweep, RenewerDone, Ending, Goto, LeaseTypeOK, ClocksRead,
       QuietStands, Engaged, Sweeping, RenewalInsideSweep, lease, sweep, renewer
  <2> QED
    BY <2>1, <2>2, <2>3, <2>4, <2>5 DEF SweepInv
<1>14. ASSUME NEW p \in Pods, CoolDown(p) PROVE SweepInv'
  <2>1. LeaseTypeOK'
    BY <1>14, <1>inv DEF CoolDown, Goto, LeaseTypeOK, Steps, lease, sweep, renewer
  <2>2. ClocksRead'
    BY <1>14, <1>inv DEF CoolDown, Goto, LeaseTypeOK, ClocksRead, lease, sweep, renewer
  <2>3. RenewalInsideSweep'
    BY <1>14, <1>inv DEF CoolDown, Goto, LeaseTypeOK, RenewalInsideSweep, Sweeping,
       lease, sweep, renewer
  <2>4. GrantIsTheRow'
    BY <1>14, <1>inv DEF CoolDown, Goto, LeaseTypeOK, ClocksRead, GrantIsTheRow,
       Sweeping, RenewalInsideSweep, lease, sweep, renewer
  <2>5. QuietStands'
    BY <1>14, <1>inv DEF CoolDown, Goto, LeaseTypeOK, ClocksRead, QuietStands, Engaged,
       Sweeping, RenewalInsideSweep, lease, sweep, renewer
  <2> QED
    BY <2>1, <2>2, <2>3, <2>4, <2>5 DEF SweepInv
<1>15. ASSUME NEW p \in Pods, Release(p) PROVE SweepInv'
  <2>1. LeaseTypeOK'
    BY <1>15, <1>inv DEF Release, Goto, LeaseTypeOK, Steps, lease, sweep, renewer
  <2>2. ClocksRead'
    BY <1>15, <1>inv DEF Release, Goto, LeaseTypeOK, ClocksRead, lease, sweep, renewer
  <2>3. RenewalInsideSweep'
    BY <1>15, <1>inv DEF Release, Goto, LeaseTypeOK, RenewalInsideSweep, Sweeping, lease,
       sweep, renewer
  <2>4. GrantIsTheRow'
    BY <1>15, <1>inv DEF Release, Goto, LeaseTypeOK, ClocksRead, GrantIsTheRow, Sweeping,
       RenewalInsideSweep, lease, sweep, renewer
  <2>5. QuietStands'
    BY <1>15, <1>inv DEF Release, Goto, LeaseTypeOK, ClocksRead, QuietStands, Engaged,
       Sweeping, RenewalInsideSweep, lease, sweep, renewer
  <2> QED
    BY <2>1, <2>2, <2>3, <2>4, <2>5 DEF SweepInv
<1>16. ASSUME NEW p \in Pods, LeaseNotTouched(p) PROVE SweepInv'
  <2>1. LeaseTypeOK'
    BY <1>16, <1>inv DEF LeaseNotTouched, Goto, LeaseTypeOK, Steps, lease, sweep, renewer
  <2>2. ClocksRead'
    BY <1>16, <1>inv DEF LeaseNotTouched, Goto, LeaseTypeOK, ClocksRead, lease, sweep,
       renewer
  <2>3. RenewalInsideSweep'
    BY <1>16, <1>inv DEF LeaseNotTouched, Goto, LeaseTypeOK, RenewalInsideSweep,
       Sweeping, lease, sweep, renewer
  <2>4. GrantIsTheRow'
    BY <1>16, <1>inv DEF LeaseNotTouched, Goto, LeaseTypeOK, ClocksRead, GrantIsTheRow,
       Sweeping, RenewalInsideSweep, lease, sweep, renewer
  <2>5. QuietStands'
    BY <1>16, <1>inv DEF LeaseNotTouched, Goto, LeaseTypeOK, ClocksRead, QuietStands,
       Engaged, Sweeping, RenewalInsideSweep, lease, sweep, renewer
  <2> QED
    BY <2>1, <2>2, <2>3, <2>4, <2>5 DEF SweepInv
<1>17. ASSUME NEW p \in Pods, Shutdown(p) PROVE SweepInv'
  <2>1. UNCHANGED core
    BY <1>17 DEF Shutdown, core, lease, sweep, renewer
  <2> QED
    BY <2>1, CoreUnchanged
<1>18. ASSUME NEW p \in Pods, Restart(p) PROVE SweepInv'
  <2>1. UNCHANGED core
    BY <1>18 DEF Restart, core, lease, sweep, renewer
  <2> QED
    BY <2>1, CoreUnchanged
<1>19. ASSUME NEW p \in Pods, Crash(p) PROVE SweepInv'
  <2>1. LeaseTypeOK'
    BY <1>19, <1>inv DEF Crash, Goto, LeaseTypeOK, Steps, lease, sweep, renewer
  <2>2. ClocksRead'
    BY <1>19, <1>inv DEF Crash, Goto, LeaseTypeOK, ClocksRead, lease, sweep, renewer
  <2>3. RenewalInsideSweep'
    BY <1>19, <1>inv DEF Crash, Goto, LeaseTypeOK, RenewalInsideSweep, Sweeping, lease,
       sweep, renewer
  <2>4. GrantIsTheRow'
    BY <1>19, <1>inv DEF Crash, Goto, LeaseTypeOK, ClocksRead, GrantIsTheRow, Sweeping,
       RenewalInsideSweep, lease, sweep, renewer
  <2>5. QuietStands'
    BY <1>19, <1>inv DEF Crash, Goto, LeaseTypeOK, ClocksRead, QuietStands, Engaged,
       Sweeping, RenewalInsideSweep, lease, sweep, renewer
  <2> QED
    BY <2>1, <2>2, <2>3, <2>4, <2>5 DEF SweepInv
<1>20. CASE Tick
  BY <1>20, <1>inv DEF Tick, SweepInv, LeaseTypeOK, Steps, ClocksRead, RenewalInsideSweep,
     GrantIsTheRow, QuietStands, Engaged, Sweeping, lease, sweep, renewer
<1>21. ASSUME NEW k \in Pushes,
             (\E r \in Repos : TakeRefLock(k, r)) \/ CommitRef(k) \/ PushDies(k)
      PROVE  SweepInv'
  <2>1. UNCHANGED core
    BY <1>21 DEF TakeRefLock, CommitRef, PushDies, core, lease, sweep, renewer
  <2> QED
    BY <2>1, CoreUnchanged
<1>22. CASE UNCHANGED vars
  <2>1. UNCHANGED core
    BY <1>22 DEF vars, core, lease, sweep, renewer
  <2> QED
    BY <2>1, CoreUnchanged
<1> QED
  BY <1>1, <1>2, <1>3, <1>4, <1>5, <1>6, <1>7, <1>8, <1>9, <1>10, <1>11, <1>12, <1>13, <1>14, <1>15, <1>16, <1>17, <1>18, <1>19, <1>20, <1>21, <1>22 DEF Next, Sweep

(* The sweep's invariant holds in every reachable state. *)
THEOREM SweepInvHolds == Spec => []SweepInv
  BY InitSweepInv, NextSweepInv, PTL DEF Spec

(* Two pods sweep at once only when one has outlived its grant: both       *)
(* grants would have to be what the one row says.                          *)
THEOREM EntitledSweepsAloneHolds == Spec => []EntitledSweepsAlone
<1>1. SweepInv => EntitledSweepsAlone
  <2> SUFFICES ASSUME SweepInv, NEW p \in Pods, NEW q \in Pods,
                      p # q, Sweeping(p), Sweeping(q),
                      ~(grant[p] <= now), ~(grant[q] <= now)
               PROVE  FALSE
    BY DEF EntitledSweepsAlone
  <2>1. now < grant[p] /\ now < grant[q]
    BY DEF SweepInv, LeaseTypeOK
  <2>2. holder = {p} /\ holder = {q}
    BY <2>1 DEF SweepInv, GrantIsTheRow
  <2> QED
    BY <2>2
<1> QED
  BY <1>1, SweepInvHolds, PTL

(* Once a completed sweep has put the next off, none begins before that    *)
(* time: only the winner of the conditional UPDATE begins one, and the row *)
(* does not expire earlier.                                                *)
THEOREM OneSweepPerIntervalHolds == Spec => OneSweepPerInterval
<1>1. SweepInv /\ [Next]_vars => [\A p \in Pods : ~Sweeping(p) /\ Sweeping(p)' => quiet <= now]_vars
  <2> SUFFICES ASSUME SweepInv, [Next]_vars, NEW p \in Pods, ~Sweeping(p), Sweeping(p)'
               PROVE  quiet <= now
    OBVIOUS
  <2>1. pc[p] # pc'[p] /\ pc' # pc
    BY DEF Sweeping
  <2>2. Acquire(p)
    <3>1. PICK q \in Pods : Sweep(q) \/ Crash(q)
      BY <2>1 DEF Next, vars, Shutdown, Restart, TakeRefLock, CommitRef, PushDies, Tick, sweep
    <3>2. q = p
      BY <3>1, <2>1 DEF SweepInv, LeaseTypeOK, Sweep, Crash, TickFires, Acquire, SkipTick,
         RenewTick, Renew, RenewFails, BeginRepo, ListFails, LeaveStore, StatLock, Unlink, Gc,
         EndSweep, CoolDown, Release, LeaseNotTouched, Goto, sweep
    <3>3. pc \in [Pods -> Steps]
      BY DEF SweepInv, LeaseTypeOK
    <3> QED
      BY <3>1, <3>2, <3>3 DEF Sweeping, Sweep, Crash, TickFires, SkipTick, RenewTick, Renew,
         RenewFails, BeginRepo, ListFails, LeaveStore, StatLock, Unlink, Gc, EndSweep, Ending,
         CoolDown, Release, LeaseNotTouched, Goto, sweep
  <2> QED
    BY <2>2 DEF Acquire, Free, SweepInv, LeaseTypeOK, ClocksRead, QuietStands
<1> QED
  BY <1>1, SweepInvHolds, PTL DEF Spec, OneSweepPerInterval
=============================================================================
