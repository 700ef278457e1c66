---------------------------- MODULE RunContract ----------------------------
(***************************************************************************)
(* What the workflows service promises about one pipeline run, without     *)
(* rows, leases, contexts, transactions or credentials: the run is queued, *)
(* executed by at most one worker at a time, parked on approval gates and  *)
(* queued again by an approval, and ends once and for all.                 *)
(***************************************************************************)
CONSTANTS Workers, Gates

VARIABLES
    status,    \* what the API reports
    executors, \* the workers executing steps of the run
    open       \* the gates a parked run waits for

vars == <<status, executors, open>>

Terminal == {"completed", "failed", "cancelled"}

Init == status = "none" /\ executors = {} /\ open = {}

Trigger ==
    /\ status = "none" /\ status' = "pending"
    /\ UNCHANGED <<executors, open>>

\* A worker takes a queued run that nobody executes.
Claim(w) ==
    /\ status = "pending" /\ executors = {}
    /\ status' = "running" /\ executors' = {w}
    /\ UNCHANGED open

\* The executor reports how the run ended. The report counts only if nobody
\* ended the run before.
Finish(w, result) ==
    /\ w \in executors /\ executors' = executors \ {w}
    /\ status' = IF status = "running" THEN result ELSE status
    /\ UNCHANGED open

\* The executor parks the run on some gates, unless the run has been ended.
Park(w, S) ==
    /\ w \in executors /\ executors' = executors \ {w}
    /\ \/ status = "running" /\ status' = "awaiting_approval" /\ open' = S
       \/ status \in Terminal /\ UNCHANGED <<status, open>>

\* A gate is approved; the approval may queue the run again, and then
\* nobody is executing it.
Approve(g) ==
    /\ status = "awaiting_approval" /\ g \in open
    /\ \/ status' = status /\ open' = open \ {g}
       \/ executors = {} /\ status' = "pending" /\ open' = {}
    /\ UNCHANGED executors

\* A gate is rejected: the run fails and waits for nobody.
Reject ==
    /\ status = "awaiting_approval" /\ open # {}
    /\ status' = "failed" /\ open' = {}
    /\ UNCHANGED executors

Cancel ==
    /\ status \in {"pending", "running", "awaiting_approval"}
    /\ status' = "cancelled" /\ open' = {}
    /\ UNCHANGED executors

\* The service gives up on a running run.
Reclaim ==
    /\ status = "running" /\ status' = "failed"
    /\ UNCHANGED <<executors, open>>

\* Executors die; the run stays as it is until it is reclaimed.
Vanish ==
    /\ executors' \subseteq executors
    /\ UNCHANGED <<status, open>>

Next ==
    \/ Trigger \/ Reject \/ Cancel \/ Reclaim \/ Vanish
    \/ \E w \in Workers : Claim(w) \/ \E result \in Terminal : Finish(w, result)
    \/ \E w \in Workers, S \in SUBSET Gates : Park(w, S)
    \/ \E g \in Gates : Approve(g)

Spec == Init /\ [][Next]_vars

============================================================================
