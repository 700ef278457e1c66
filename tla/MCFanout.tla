------------------------------ MODULE MCFanout ------------------------------
(* Small fan-outs that compete for the leg budget. *)
EXTENDS Fanout

CONSTANTS t1, t2, l1, l2, i1, i2, i3, loop

TwoTasks == {t1, t2}
TwoLegs == {l1, l2}
ThreeIters == {i1, i2, i3}
OneLoop == {loop}

\* A map with more values than slots, a map beside a task, a matrix beside a
\* scatter, and a loop beside a matrix.
MapAlone == {ThreeIters}
Pairs == MapAlone \cup {{i1, i2, t1}, TwoTasks \cup TwoLegs, {loop, t1, t2}}

\* Jobs outside the map may be cancelled by somebody else.
PlainJobs == TwoTasks \cup TwoLegs \cup OneLoop

=============================================================================
