--------------------------- MODULE MCWorkflowRun ---------------------------
(* Instances of WorkflowRun for TLC. *)
EXTENDS WorkflowRun, TLC

CONSTANTS w1, w2, d1, d2, c1, r1, r2

\* The second worker and the second decider are on another replica than the
\* first; the canceller is served by the first one's.
TwoReplicas == [a \in Actors |-> IF a \in {w2, d2} THEN r2 ELSE r1]

OneReplica == [a \in Actors |-> r1]

\* With one replica, workers, deciders and gates are interchangeable.
Interchangeable ==
    Permutations(Workers) \cup Permutations(Deciders) \cup Permutations(Gates)

============================================================================
