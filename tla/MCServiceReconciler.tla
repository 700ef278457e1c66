------------------------ MODULE MCServiceReconciler ------------------------
(* Instances of ServiceReconciler for TLC. *)
EXTENDS ServiceReconciler, TLC

CONSTANT s1

OneService == {s1}
=============================================================================
