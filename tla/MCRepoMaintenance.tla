------------------------- MODULE MCRepoMaintenance -------------------------
(* Instances of RepoMaintenance for TLC. *)
EXTENDS RepoMaintenance, TLC

CONSTANTS p1, p2, r1, k1, k2

TwoPods == {p1, p2}
OneRepo == {r1}
TwoPushes == {k1, k2}
OnePush == {k1}

Interchangeable == Permutations(TwoPods)
=============================================================================
