---------------------------- MODULE MCForgeLease ----------------------------
(* One process and one lease: leases meet only in the quota and the sweep. *)
EXTENDS ForgeLease

CONSTANT a
OneLease == {a}

=============================================================================
