---------------------------- MODULE MCForgeQueue ----------------------------
(* Two replicas with a worker each, and two executions at a time. *)
EXTENDS StepJob, TLC

CONSTANTS w1, w2, r1, r2

HostOfWorker == (w1 :> r1) @@ (w2 :> r2)

Exec(u, o, c, m, x, s) ==
    [user |-> u, org |-> o, cost |-> [cpu |-> c, mem |-> m], cancel |-> x, step |-> s]
Limits == [cpu |-> 3, mem |-> 3]

\* One user twice, in one org, the first time through a step; two that may run
\* together, one of them larger than the whole memory budget; and two that do
\* not fit together, one of which somebody cancels.
SmallLoads == {
    <<Exec("ann", "acme", 1, 1, FALSE, TRUE), Exec("ann", "acme", 1, 1, FALSE, FALSE)>>,
    <<Exec("ann", "none", 1, 0, FALSE, FALSE), Exec("bob", "acme", 2, 4, FALSE, FALSE)>>,
    <<Exec("ann", "none", 2, 1, FALSE, FALSE), Exec("bob", "none", 2, 1, TRUE, FALSE)>>}

=============================================================================
