------------------------------ MODULE StepJob ------------------------------
(***************************************************************************)
(* Workflow steps as clients of forge's queue: a step that runs a forge    *)
(* action submits an execution, polls it until its state is final and ends *)
(* with what it read. Its run may be cancelled or its time run out at any  *)
(* moment. The queue is ForgeQueue's, step for step; what a step adds to   *)
(* it is the submission. That the step's own worker dies is WorkflowRun's. *)
(***************************************************************************)
EXTENDS ForgeQueue

VARIABLES
    step, \* the step run of an execution a step submits: its status
    seen  \* the final state in a poll's answer, until the step has ended

stepVars == <<step, seen>>
allVars  == <<vars, stepVars>>

Live == {"running", "waiting_for_resources"}
\* "failed" stands for a step that failed or was cancelled: which of the two
\* is Fanout's matter.
Over == {"completed", "failed"}

StepInit ==
    /\ Init
    /\ step = [e \in Execs |-> IF load[e].step THEN "running" ELSE "none"]
    /\ seen = [e \in Execs |-> "none"]

StepRow(e, s) == step' = [step EXCEPT ![e] = s]

\* executeAction: the submission. When its answer is lost or cannot be read
\* the step ends, although the execution exists.
SubmitStep(e) ==
    /\ step[e] = "running" /\ Submit(e)
    /\ UNCHANGED step \/ StepRow(e, "failed")
    /\ UNCHANGED seen

\* Everybody else's executions.
SubmitOther(e) == step[e] = "none" /\ Submit(e) /\ UNCHANGED stepVars

\* One answered poll of pollAction: the state of the queue is mirrored on the
\* step run, and a final state remembered. Polls that fail or cannot be
\* parsed are repeated.
Poll(e) ==
    /\ step[e] \in Live /\ status[e] # "unsubmitted" /\ seen[e] = "none"
    /\ StepRow(e, IF status[e] = "pending" THEN "waiting_for_resources" ELSE "running")
    /\ seen' = IF status[e] \in Ended THEN [seen EXCEPT ![e] = status[e]] ELSE seen
    /\ UNCHANGED vars

\* The step ends with the final state it read: the action's success_states
\* name "completed", its failure and cancel states the others.
EndStep(e) ==
    /\ seen[e] # "none"
    /\ StepRow(e, IF seen[e] = "completed" THEN "completed" ELSE "failed")
    /\ seen' = [seen EXCEPT ![e] = "none"]
    /\ UNCHANGED vars

\* The run is cancelled, the budget is used up or the token refused: the step
\* stops waiting. The execution is left as it is: cancelRunJobs has no caller.
StopWaiting(e) ==
    /\ step[e] \in Live /\ status[e] # "unsubmitted" /\ seen[e] = "none"
    /\ StepRow(e, "failed")
    /\ UNCHANGED <<vars, seen>>

StepNext ==
    \/ Forge /\ UNCHANGED stepVars
    \/ \E e \in Execs : SubmitStep(e) \/ SubmitOther(e) \/ Poll(e) \/ EndStep(e) \/ StopWaiting(e)

StepSpec == StepInit /\ [][StepNext]_allVars

\* As for the queue; and a step's goroutine polls on a ticker.
StepFairSpec ==
    /\ StepSpec /\ Fairness
    /\ \A e \in Execs : WF_allVars(Poll(e) \/ EndStep(e))

----------------------------------------------------------------------------
(* Properties *)

\* A step that waits for its execution does not wait for ever.
EveryStepEnds ==
    \A e \in Execs :
        step[e] \in Live /\ status[e] # "unsubmitted" ~> step[e] \in Over

\* Outcomes stand: what forge recorded (OutcomesKept), and what a step
\* reported on the strength of it. A completed step has an execution that
\* completed, and no late worker, cancel or reaper takes that back once its
\* successors have started (pollAction against the unguarded
\* Execution.Complete).
OutcomesStand ==
    [][/\ OutcomeStep
       /\ \A e \in Execs : step'[e] = "completed" => status'[e] = "completed"]_allVars

\* Executions end, and so do the steps that wait for them.
EverythingEnds == EveryExecutionEnds /\ EveryStepEnds

\* An execution that a step no longer waits for has been cancelled
\* (jobcancel.go: "workflows cancels what it submitted, the moment it stops
\* waiting for it").
AbandonedIsCancelled ==
    [][\A e \in Execs :
          step[e] \in Live /\ step'[e] \in Over /\ status[e] \in {"pending", "running"} =>
              cancel'[e] # "none"]_allVars

=============================================================================
