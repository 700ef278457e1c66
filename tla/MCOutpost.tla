------------------------------ MODULE MCOutpost ------------------------------
(* A command that may run twice, so that a batch of two events is          *)
(* delivered in sequence; a second agent for OutcomeIsFinal.               *)
EXTENDS Outpost

CONSTANTS c1, a1, a2, g1, g2

OneCommand == {c1}
OneAgent == {a1}
TwoAgents == {a1, a2}
TwoGateways == {g1, g2}

=============================================================================
