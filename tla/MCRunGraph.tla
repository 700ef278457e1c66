----------------------------- MODULE MCRunGraph -----------------------------
(* Families of graphs to run the scheduler on. *)
EXTENDS RunGraph

\* Four steps, routes only forwards: every acyclic graph up to renaming.
FourSteps == 1..4
Forward(when) == {r \in Route : r.from < r.to /\ r.when = when}

GraphsOver(routeSets, mapSets, loopSets, gateSets) ==
    {g \in [routes : routeSets, maps : mapSets, loops : loopSets, gates : gateSets] :
        ValidateGraph(g)}

OneRegion == {{R} : R \in {S \in SUBSET Steps : Cardinality(S) = 2}}

\* Branches, joins and up to two gates, with and without conditions.
PlainGraphs ==
    GraphsOver(SUBSET Forward(TRUE), {{}}, {{}}, {{}, {2}, {2, 3}})
        \cup GraphsOver(SUBSET Forward(FALSE), {{}}, {{}}, {{}, {2}, {2, 3}})

\* One well-entered region, map or loop, and at most one gate outside it.
RegionGraphs ==
    {g \in GraphsOver(SUBSET Forward(TRUE), OneRegion, {{}}, {{}, {1}, {2}, {3}, {4}})
             \cup GraphsOver(SUBSET Forward(TRUE), {{}}, {{{2, 3}}}, {{}}) : Regular(g)}

RegularGraphs == PlainGraphs \cup RegionGraphs

\* Everything the API accepts with one map and no gate.
AcceptedGraphs == GraphsOver(SUBSET Forward(TRUE), OneRegion, {{}}, {{}})

\* A map between a first step and a join with a gate.
MapThenGate ==
    {[routes |-> {[from |-> 1, to |-> 2, when |-> FALSE], [from |-> 2, to |-> 4, when |-> FALSE],
                  [from |-> 3, to |-> 4, when |-> FALSE]},
      maps |-> {{1, 2}}, loops |-> {}, gates |-> {3}]}

=============================================================================
