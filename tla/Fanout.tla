------------------------------- MODULE Fanout -------------------------------
(***************************************************************************)
(* The fan-outs of one run side by side: a matrix node (runTaskGroup), a   *)
(* scatter node (runScatterGroup), a map region (runMapRegion) and a loop  *)
(* (runLoopRegion), whose goroutines share the run-wide leg budget and the *)
(* run context. The map runs under a child context that its failure        *)
(* tolerance may cancel; each of its iterations clones a volume, runs a    *)
(* body of one step, gathers and deletes the clone. The loop repeats a     *)
(* body of one step in place.                                              *)
(***************************************************************************)
EXTENDS Naturals, FiniteSets, Sequences

CONSTANTS
    Tasks,            \* the matrix node's tasks
    Legs,             \* the scatter node's legs
    Iters,            \* the map region's iterations
    Loops,            \* the loop, a set of at most one
    Shapes,           \* which of them a run has: a set of sets
    Budget,           \* maxParallelSteps: the capacity of legSem
    GroupConcurrency, \* groupConcurrency, mapConcurrency and scatter's limit
    ScatterLimit,
    MapConcurrency,
    FailureTolerance, \* percent
    LoopLimit,        \* the loop's limit and its ceiling (loopHardMax)
    LoopHardMax,
    JobCancels,       \* units whose remote job somebody else may cancel
    CloneFails        \* TRUE: filling a created clone volume may fail

Units == Tasks \cup Legs \cup Iters \cup Loops
Bodies == Iters \cup Loops
Nodes == {"matrix", "scatter", "map", "loop"}
Of(node) ==
    CASE node = "matrix" -> Tasks [] node = "scatter" -> Legs
      [] node = "map" -> Iters    [] node = "loop" -> Loops
NodeOf(u) == CHOOSE node \in Nodes : u \in Of(node)
Concurrency(node) ==
    CASE node = "matrix" -> GroupConcurrency
      [] node = "scatter" -> ScatterLimit
      [] node = "map" -> MapConcurrency
      [] node = "loop" -> 1

ASSUME FanoutConstants ==
    /\ IsFiniteSet(Units) /\ Shapes \subseteq SUBSET Units
    /\ \A m, n \in Nodes : m # n => Of(m) \cap Of(n) = {}
    /\ Budget \in Nat \ {0} /\ FailureTolerance \in Nat
    /\ \A n \in Nodes : Concurrency(n) \in Nat \ {0}
    /\ LoopLimit \in Nat /\ LoopHardMax \in Nat \ {0} /\ Cardinality(Loops) <= 1
    /\ JobCancels \subseteq Units /\ CloneFails \in BOOLEAN

Status == {"completed", "failed", "cancelled"}

VARIABLES
    shape,   \* the units of this run
    pc,      \* where each unit's goroutine is
    res,     \* its taskResult or iterResult
    row,     \* its row in workflow_step_runs
    legs,    \* units holding a leg of legSem
    slot,    \* units holding a slot of their node's semaphore
    vols,    \* iterations whose clone volume exists
    ctx,     \* the run context: "live" or "dead"
    tripped, \* the map has exceeded its failure tolerance
    status,  \* the matrix group's status so far
    until,   \* the loop has an exit condition
    passes,  \* the loop's attempts: how each ended, what its condition said
    lstatus, \* the loop's status so far
    ret      \* what each node returned: "no" while it runs, "aborted" when a
             \* step run could not be inserted (which fails the node)

loopVars == <<until, passes, lstatus>>
vars == <<shape, pc, res, row, legs, slot, vols, ctx, tripped, status, loopVars, ret>>

Has(n) == shape \cap Of(n)

Init ==
    /\ shape \in Shapes
    /\ pc = [u \in Units |-> IF u \notin shape THEN "done"
                             ELSE IF u \in Iters THEN "slot"
                             ELSE IF u \in Loops THEN "attempt" ELSE "init"]
    /\ res = [u \in Units |-> "none"]
    /\ row = [u \in Units |-> "none"]
    /\ legs = {} /\ slot = {} /\ vols = {}
    /\ ctx = "live" /\ tripped = FALSE
    /\ status = "completed"
    /\ until \in IF Has("loop") = {} THEN {FALSE} ELSE BOOLEAN
    /\ passes = <<>>
    /\ lstatus = IF until THEN "failed" ELSE "completed"
    /\ ret = [n \in Nodes |-> IF Has(n) = {} THEN "absent" ELSE "no"]

\* The context a unit runs under: an iteration's is mapCtx.
Dead(u) == ctx = "dead" \/ (u \in Iters /\ tripped)

\* Where the caller of runGraph goes on when the body has ended.
AfterBody(u) == IF u \in Iters THEN "cleanup" ELSE "decide"

Goto(u, l) == pc' = [pc EXCEPT ![u] = l]
Result(u, s) == res' = [res EXCEPT ![u] = s]
Row(u, s) == row' = [row EXCEPT ![u] = s]

\* What executeStep may report. A poll that finds the remote job cancelled
\* returns context.Canceled although nobody cancelled the run.
StepOutcomes(u) ==
    IF Dead(u) THEN Status
    ELSE {"completed", "failed"} \cup (IF u \in JobCancels THEN {"cancelled"} ELSE {})

----------------------------------------------------------------------------
(* The leg budget and the nodes' own semaphores *)

LegFree == Cardinality(legs) < Budget
KeepLegOnFailure(u) == IF res[u] = "failed" THEN legs ELSE legs \ {u}
ReleaseLeg(u) == legs \ {u}
SlotFree(u) == Cardinality(slot \cap Of(NodeOf(u))) < Concurrency(NodeOf(u))

\* acquireLeg. The body of an iteration or attempt is a group of one task,
\* whose own semaphore is free.
AcquireLeg(u) ==
    /\ pc[u] = "leg" /\ LegFree
    /\ legs' = legs \cup {u}
    /\ Goto(u, IF u \in Bodies THEN "exec" ELSE "slot")
    /\ UNCHANGED <<shape, res, row, slot, vols, ctx, tripped, status, loopVars, ret>>

\* acquireLeg with a dead context. A task reports to its group, and the group
\* of a body ends its row; a scatter leg returns as it is.
GiveUpLeg(u) ==
    /\ pc[u] = "leg" /\ Dead(u)
    /\ Result(u, "cancelled")
    /\ row' = IF u \in Bodies THEN [row EXCEPT ![u] = "cancelled"] ELSE row
    /\ Goto(u, IF u \in Bodies THEN AfterBody(u) ELSE "done")
    /\ UNCHANGED <<shape, legs, slot, vols, ctx, tripped, status, loopVars, ret>>

AcquireSlot(u) ==
    /\ pc[u] = "slot" /\ SlotFree(u)
    /\ slot' = slot \cup {u}
    /\ Goto(u, IF u \in Iters THEN "check" ELSE "exec")
    /\ UNCHANGED <<shape, res, row, legs, vols, ctx, tripped, status, loopVars, ret>>

GiveUpSlot(u) ==
    /\ pc[u] = "slot" /\ Dead(u)
    /\ Result(u, "cancelled")
    /\ row' = IF u \in Legs THEN [row EXCEPT ![u] = "cancelled"] ELSE row
    /\ Goto(u, IF u \in Iters THEN "done" ELSE "release")
    /\ UNCHANGED <<shape, legs, slot, vols, ctx, tripped, status, loopVars, ret>>

\* The deferred releases of a task or scatter leg.
Release(u) ==
    /\ pc[u] = "release"
    /\ slot' = slot \ {u}
    /\ legs' = ReleaseLeg(u)
    /\ Goto(u, "done")
    /\ UNCHANGED <<shape, res, row, vols, ctx, tripped, status, loopVars, ret>>

----------------------------------------------------------------------------
(* Matrix and scatter *)

\* startStepRun for every leg before any of them runs. A failed insert leaves
\* the rows inserted so far and fails the node.
StartGroup(n) ==
    /\ n \in {"matrix", "scatter"}
    /\ Has(n) # {} /\ \A u \in Has(n) : pc[u] = "init"
    /\ \/ /\ row' = [u \in Units |-> IF u \in Has(n) THEN "open" ELSE row[u]]
          /\ pc' = [u \in Units |-> IF u \in Has(n) THEN "leg" ELSE pc[u]]
          /\ UNCHANGED ret
       \/ \E S \in SUBSET Has(n) :
             /\ S # Has(n)
             /\ row' = [u \in Units |-> IF u \in S THEN "open" ELSE row[u]]
             /\ pc' = [u \in Units |-> IF u \in Has(n) THEN "done" ELSE pc[u]]
             /\ ret' = [ret EXCEPT ![n] = "aborted"]
    /\ UNCHANGED <<shape, res, legs, slot, vols, ctx, tripped, status, loopVars>>

\* A task executes its step and sends the result.
ExecuteTask(t, o) ==
    /\ t \in Tasks /\ pc[t] = "exec" /\ o \in StepOutcomes(t)
    /\ Result(t, o)
    /\ Goto(t, "release")
    /\ UNCHANGED <<shape, row, legs, slot, vols, ctx, tripped, status, loopVars, ret>>

\* A failure is final, a cancellation counts only against a green group.
StatusAfter(o) ==
    CASE o = "failed" -> "failed"
      [] o = "cancelled" /\ status = "completed" -> "cancelled"
      [] OTHER -> status

\* runTaskGroup receives a result, in any order of arrival.
CollectTask(t) ==
    /\ t \in Has("matrix") /\ res[t] # "none" /\ row[t] = "open"
    /\ Row(t, res[t])
    /\ status' = StatusAfter(res[t])
    /\ UNCHANGED <<shape, pc, res, legs, slot, vols, ctx, tripped, loopVars, ret>>

AllCollected == \A t \in Has("matrix") : row[t] \in Status

GroupReturns ==
    /\ ret["matrix"] = "no" /\ AllCollected
    /\ ret' = [ret EXCEPT !["matrix"] = status]
    /\ UNCHANGED <<shape, pc, res, row, legs, slot, vols, ctx, tripped, status, loopVars>>

\* An error under a dead context is recorded as a cancellation, any other as
\* a failure.
LegStatus(l, o) ==
    IF o = "completed" THEN o ELSE IF Dead(l) THEN "cancelled" ELSE "failed"

\* runScatterLeg: create a clone, fill it, run the step; the first error ends it.
ExecuteLeg(l, o) ==
    /\ l \in Legs /\ pc[l] = "exec" /\ o \in StepOutcomes(l)
    /\ Result(l, o)
    /\ Row(l, LegStatus(l, o))
    /\ Goto(l, "release")
    /\ UNCHANGED <<shape, legs, slot, vols, ctx, tripped, status, loopVars, ret>>

\* After wg.Wait: the legs' errors decide, and if there are none the gather
\* step (which a dead context fails).
ScatterReturns(s) ==
    /\ ret["scatter"] = "no" /\ \A l \in Has("scatter") : pc[l] = "done"
    /\ s \in IF \E l \in Has("scatter") : res[l] # "completed"
             THEN {IF ctx = "dead" THEN "cancelled" ELSE "failed"}
             ELSE {"completed", "failed"}
    /\ ret' = [ret EXCEPT !["scatter"] = s]
    /\ UNCHANGED <<shape, pc, res, row, legs, slot, vols, ctx, tripped, status, loopVars>>

----------------------------------------------------------------------------
(* The map region *)

\* The tolerance may have been exceeded while the iteration waited for a slot.
Check(i) ==
    /\ pc[i] = "check"
    /\ \/ /\ Dead(i)
          /\ Result(i, "cancelled")
          /\ slot' = slot \ {i}
          /\ Goto(i, "done")
       \/ /\ ~Dead(i)
          /\ Goto(i, "create")
          /\ UNCHANGED <<res, slot>>
    /\ UNCHANGED <<shape, row, legs, vols, ctx, tripped, status, loopVars, ret>>

\* prepareIterVolume: create the volume, then fill it. Either step may fail
\* (and does under a dead context), and the iteration then ends before the
\* deletion of its volume is deferred.
CreateVolume(i) ==
    /\ pc[i] = "create"
    /\ \/ /\ ~Dead(i)
          /\ vols' = vols \cup {i}
          /\ Goto(i, "clone")
          /\ UNCHANGED res
       \/ /\ Result(i, "failed")
          /\ Goto(i, "report")
          /\ UNCHANGED vols
    /\ UNCHANGED <<shape, row, legs, slot, ctx, tripped, status, loopVars, ret>>

CloneVolume(i) ==
    /\ pc[i] = "clone"
    /\ \/ /\ ~Dead(i)
          /\ Goto(i, "body")
          /\ UNCHANGED res
       \/ /\ Dead(i) \/ CloneFails
          /\ Result(i, "failed")
          /\ Goto(i, "report")
    /\ UNCHANGED <<shape, row, legs, slot, vols, ctx, tripped, status, loopVars, ret>>

\* runGraph on the body: nothing is launched under a dead context, and a body
\* step whose row cannot be inserted fails.
StartBody(u) ==
    /\ pc[u] = "body"
    /\ \/ /\ Dead(u)
          /\ Result(u, "cancelled") /\ Goto(u, AfterBody(u))
          /\ UNCHANGED row
       \/ /\ ~Dead(u)
          /\ Row(u, "open") /\ Goto(u, "leg")
          /\ UNCHANGED res
       \/ /\ ~Dead(u)
          /\ Result(u, "failed") /\ Goto(u, AfterBody(u))
          /\ UNCHANGED row
    /\ UNCHANGED <<shape, legs, slot, vols, ctx, tripped, status, loopVars, ret>>

\* The body's step ends, its row with it, and its leg is released.
ExecuteBody(u, o) ==
    /\ u \in Bodies /\ pc[u] = "exec" /\ o \in StepOutcomes(u)
    /\ Row(u, o)
    /\ Result(u, o)
    /\ legs' = ReleaseLeg(u)
    /\ Goto(u, IF o = "completed" /\ u \in Iters THEN "gather" ELSE AfterBody(u))
    /\ UNCHANGED <<shape, slot, vols, ctx, tripped, status, loopVars, ret>>

\* runGraph calls a body that ends under a dead context cancelled; otherwise
\* gatherIter may still fail it.
Gather(i, s) ==
    /\ pc[i] = "gather"
    /\ s \in IF Dead(i) THEN {"cancelled", "failed"} ELSE {"completed", "failed"}
    /\ Result(i, s)
    /\ Goto(i, "cleanup")
    /\ UNCHANGED <<shape, row, legs, slot, vols, ctx, tripped, status, loopVars, ret>>

\* The deferred deleteRunVolumes.
ClonesAfterSuccess(i) == IF res[i] = "completed" THEN vols \ {i} ELSE vols
ClonesAfter(i) == vols \ {i}

Cleanup(i) ==
    /\ pc[i] = "cleanup"
    /\ vols' = ClonesAfter(i)
    /\ Goto(i, "report")
    /\ UNCHANGED <<shape, res, row, legs, slot, ctx, tripped, status, loopVars, ret>>

\* maxToleratedFailures.
MaxFail ==
    LET total == Cardinality(Has("map")) IN
    IF FailureTolerance >= 100 THEN total ELSE (FailureTolerance * total) \div 100

ExceedsEarly(failed) == failed >= MaxFail
Exceeds(failed) == failed > MaxFail

Failures == {i \in Has("map") : pc[i] = "done" /\ res[i] = "failed"}

\* The iteration's result is counted under the lock; the failure that exceeds
\* the tolerance cancels the others. Then its slot is released.
Report(i) ==
    /\ pc[i] = "report"
    /\ tripped' = (tripped \/ (res[i] = "failed" /\ Exceeds(Cardinality(Failures) + 1)))
    /\ slot' = slot \ {i}
    /\ Goto(i, "done")
    /\ UNCHANGED <<shape, res, row, legs, vols, ctx, status, loopVars, ret>>

\* The verdict after wg.Wait: the worst result under a dead context, and
\* otherwise the tolerance decides; cancelled iterations are passed over.
WorstResult ==
    IF \E i \in Has("map") : res[i] = "failed" THEN "failed"
    ELSE IF \E i \in Has("map") : res[i] = "cancelled" THEN "cancelled" ELSE "completed"
ToleranceOnly == IF tripped THEN "failed" ELSE "completed"
MapStatus ==
    IF ctx = "dead" THEN WorstResult ELSE IF tripped THEN "failed" ELSE "completed"

MapReturns ==
    /\ ret["map"] = "no" /\ \A i \in Has("map") : pc[i] = "done"
    /\ ret' = [ret EXCEPT !["map"] = MapStatus]
    /\ UNCHANGED <<shape, pc, res, row, legs, slot, vols, ctx, tripped, status, loopVars>>

----------------------------------------------------------------------------
(* The loop *)

Worst(r, s) ==
    IF "failed" \in {r, s} THEN "failed"
    ELSE IF "cancelled" \in {r, s} THEN "cancelled" ELSE "completed"

\* The limit, clamped at run time.
LoopTimes ==
    IF LoopLimit < 1 THEN 1 ELSE IF LoopLimit > LoopHardMax THEN LoopHardMax ELSE LoopLimit

\* The context is looked at before each attempt, and only there.
Attempt(u) ==
    /\ pc[u] = "attempt"
    /\ \/ /\ ctx = "dead"
          /\ Goto(u, "done")
          /\ ret' = [ret EXCEPT !["loop"] = "cancelled"]
       \/ /\ ctx = "live"
          /\ Goto(u, "body")
          /\ UNCHANGED ret
    /\ UNCHANGED <<shape, res, row, legs, slot, vols, ctx, tripped, status, loopVars>>

\* runGraph's verdict on the attempt.
IterStatus(u) == IF ctx = "dead" THEN Worst(res[u], "cancelled") ELSE res[u]

\* loopFail: a step run that names the cause, unless it cannot be inserted.
LoopFail(u) ==
    /\ ret' = [ret EXCEPT !["loop"] = "failed"]
    /\ Row(u, "failed") \/ UNCHANGED row

LastPass == Len(passes) + 1 >= LoopTimes

\* After an attempt. Without an exit condition the worst attempt counts and
\* the loop goes on to its limit; with one, the loop ends when it holds or
\* cannot be evaluated, and fails when the limit is reached.
Decide(u, met) ==
    /\ pc[u] = "decide"
    /\ met \in IF until THEN {"yes", "no", "error"} ELSE {"unasked"}
    /\ passes' = Append(passes, [status |-> IterStatus(u), met |-> met])
    /\ lstatus' = IF until THEN lstatus ELSE Worst(lstatus, IterStatus(u))
    /\ LET over == LastPass \/ met \in {"yes", "error"} IN
          /\ Goto(u, IF over THEN "done" ELSE "attempt")
          /\ IF ~over THEN UNCHANGED <<ret, row>>
             ELSE IF met \in {"no", "error"} THEN LoopFail(u)
             ELSE /\ ret' = [ret EXCEPT !["loop"] = IF until THEN "completed" ELSE lstatus']
                  /\ UNCHANGED row
    /\ UNCHANGED <<shape, res, legs, slot, vols, ctx, tripped, status, until>>

----------------------------------------------------------------------------

\* The run is cancelled or its deadline passes.
CancelContext ==
    /\ ctx = "live" /\ \E n \in Nodes : ret[n] = "no"
    /\ ctx' = "dead"
    /\ UNCHANGED <<shape, pc, res, row, legs, slot, vols, tripped, status, loopVars, ret>>

Goroutine(u) ==
    \/ AcquireLeg(u) \/ GiveUpLeg(u) \/ AcquireSlot(u) \/ GiveUpSlot(u) \/ Release(u)
    \/ \E o \in Status : ExecuteTask(u, o) \/ ExecuteLeg(u, o) \/ ExecuteBody(u, o)
    \/ CollectTask(u)
    \/ Check(u) \/ CreateVolume(u) \/ CloneVolume(u) \/ StartBody(u)
    \/ \E s \in Status : Gather(u, s)
    \/ Cleanup(u) \/ Report(u)
    \/ Attempt(u) \/ \E met \in {"yes", "no", "error", "unasked"} : Decide(u, met)

Waiter ==
    \/ \E n \in Nodes : StartGroup(n)
    \/ GroupReturns \/ MapReturns
    \/ \E s \in Status : ScatterReturns(s)

Next == (\E u \in Units : Goroutine(u)) \/ Waiter \/ CancelContext

Spec == Init /\ [][Next]_vars

\* Goroutines are scheduled, and a step ends: executeStep bounds it by a timeout.
FairSpec == Spec /\ WF_vars(Waiter) /\ \A u \in Units : WF_vars(Goroutine(u))

----------------------------------------------------------------------------
(* Properties *)

Returned(n) == ret[n] \in Status

\* In a run nobody cancelled, the map fails exactly when more iterations
\* failed than the tolerance allows (maxToleratedFailures: "The (result+1)th
\* failure trips the map"), whatever order they failed in and whatever the
\* trip cancelled.
ToleranceDecides ==
    Returned("map") /\ ctx = "live" =>
        (ret["map"] = "failed" <=> Cardinality(Failures) > MaxFail)

\* A map that returns success ran every iteration to its end: none was given
\* up (runMapRegion: "a partial map has not done the work its successors
\* assume"; "never report a timed-out run as a passing map").
GreenRanAll ==
    ret["map"] = "completed" => \A i \in Has("map") : res[i] # "cancelled"

\* A matrix node, map region or loop that has returned leaves no step run open, also
\* when legs are given up while they wait: the run view never shows a step
\* running under a finished run. A scatter is left out: a leg given up in
\* acquireLeg never ends its row (GiveUpLeg).
RowsSettled ==
    \A n \in {"matrix", "map", "loop"} : Returned(n) => \A u \in Has(n) : row[u] # "open"

\* The matrix node's verdict is the worst of its step runs, whatever the order
\* the results arrived in.
GroupVerdict ==
    Returned("matrix") =>
        ret["matrix"] =
            IF \E t \in Has("matrix") : row[t] = "failed" THEN "failed"
            ELSE IF \E t \in Has("matrix") : row[t] = "cancelled" THEN "cancelled" ELSE "completed"

\* A loop with an exit condition completes exactly when its last attempt met
\* it, and never goes on after an attempt that did ("the loop COMPLETES the
\* first iteration after which the condition is true, and FAILS if the limit
\* is reached without it"); a fixed loop nobody cancelled runs exactly the
\* limit and takes its worst attempt.
LoopVerdict ==
    Returned("loop") =>
        LET n == Len(passes) IN
        /\ n <= LoopTimes
        /\ \A k \in 1..n - 1 : passes[k].met \in {"no", "unasked"}
        /\ until => (ret["loop"] = "completed" <=> n > 0 /\ passes[n].met = "yes")
        /\ ctx = "live" =>
              /\ n = LoopTimes \/ passes[n].met \in {"yes", "error"}
              /\ ~until /\ ret["loop"] = "completed" =>
                    \A k \in 1..n : passes[k].status = "completed"
              /\ ~until /\ ret["loop"] # "completed" =>
                    \E k \in 1..n : passes[k].status = ret["loop"]

\* A fan-out's verdict does not depend on the order its parts ended in, and a
\* loop's is that of the attempts it was to make.
Verdicts == ToleranceDecides /\ GroupVerdict /\ LoopVerdict

\* What a fan-out that has returned leaves behind is complete: no iteration of
\* a green map is missing and no row of a returned node is open.
ReturnedIsComplete == GreenRanAll /\ RowsSettled

\* No more clone volumes exist at once than iterations may run at once
\* (runIteration: "the concurrent volume footprint tracks max_concurrent").
ClonesWithinSlots == Cardinality(vols) <= MapConcurrency

\* Every fan-out comes back and gives all its legs back: nodes waiting for
\* each other's legs, and slots held while waiting for a leg, never block.
FanoutReturns == <>[](legs = {} /\ slot = {} /\ \A n \in Nodes : ret[n] # "no")

=============================================================================
