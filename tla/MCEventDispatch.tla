-------------------------- MODULE MCEventDispatch --------------------------
(* A trigger and an event delivered twice, to either of two replicas. *)
EXTENDS EventDispatch

CONSTANTS t1, e1, r1, r2, d1, d2

OneTrigger == {t1}
OneEvent == {e1}
TwoReplicas == {r1, r2}
TwoDeliveries == {d1, d2}
AllMatch == Triggers \X Events

=============================================================================
