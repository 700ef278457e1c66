------------------------------ MODULE RunGraph ------------------------------
(***************************************************************************)
(* The frontier scheduler: runGraph walks a pipeline's graph, launching    *)
(* every unit whose inbound routes are decided, collecting results in the  *)
(* order they arrive, skipping branches nobody takes, parking approval     *)
(* gates, and starting over from the recorded step runs after a pause.     *)
(*                                                                         *)
(* A unit is what the scheduler launches as one: a map region, a loop, or  *)
(* a single step; nodeReady and regionReady are one rule over units. The   *)
(* scheduler's state has one owner, so its loops are split into steps only *)
(* for the model's sake: nothing but a cancellation comes between them.    *)
(***************************************************************************)
EXTENDS Naturals, FiniteSets

CONSTANTS
    Steps,      \* the step names of the pipeline
    Graphs,     \* the graphs a run may be given
    BodyRecords \* TRUE: each member of a completed region has a completed step run

\* A graph: its routes, its map regions and (outermost) loops as sets of steps,
\* and its approval steps. A route with a condition has when = TRUE.
Route == [from : Steps, to : Steps, when : BOOLEAN]
Graph == [routes : SUBSET Route, maps : SUBSET (SUBSET Steps),
          loops : SUBSET (SUBSET Steps), gates : SUBSET Steps]

\* topoOrder emits every step: each set of steps has one nothing in it leads to.
Acyclic(g) ==
    \A S \in SUBSET Steps : S # {} =>
        \E n \in S : \A r \in g.routes : r.to = n => r.from \notin S

\* Nested loops count as their outermost loop, and no step is in two regions.
Disjoint(g) ==
    LET all == g.maps \cup g.loops IN
    /\ {} \notin all
    /\ \A R, S \in all : R # S => R \cap S = {}

\* validateRegionBoundary and validateLoopBoundary.
NoCrossing(regions, g) ==
    \A r \in g.routes : \A R, S \in regions : r.from \in R /\ r.to \in S => R = S

\* validateGraph, with validateMaps and validateLoops: what the API stores.
ValidateGraph(g) ==
    /\ Acyclic(g) /\ Disjoint(g)
    /\ NoCrossing(g.maps, g) /\ NoCrossing(g.loops, g)
    /\ g.gates \cap UNION (g.maps \cup g.loops) = {}

\* The units a graph is scheduled in, and whether a route enters one of them.
UnitsOf(g) == (g.maps \cup g.loops) \cup {{n} : n \in Steps \ UNION (g.maps \cup g.loops)}
Enters(r, U) == r.to \in U /\ r.from \notin U

\* Graphs the scheduler is certain of are narrower than what validation takes.
\* Either a region starts at one step: all routes from outside lead there, and
\* the rest of it is fed from inside alone.
SingleEntry(R, g) ==
    \E e \in R :
        /\ \A r \in g.routes : r.to = e => r.from \notin R
        /\ \A n \in R \ {e} : \E r \in g.routes : r.to = n /\ r.from \in R
        /\ \A r \in g.routes : r.to \in R \ {e} => r.from \in R

\* Or nothing leaves it, and it is entered only behind its first steps.
LateEntry(R, g) ==
    /\ \A r \in g.routes : r.from \in R => r.to \in R
    /\ \A r \in g.routes : Enters(r, R) => \E s \in g.routes : s.to = r.to /\ s.from \in R

\* And no path leaves a unit and comes back.
UnitsAcyclic(g) ==
    \A V \in SUBSET UnitsOf(g) : V # {} =>
        \E U \in V : \A r \in g.routes : Enters(r, U) => r.from \notin UNION V

Regular(g) ==
    /\ \A R \in g.maps \cup g.loops : SingleEntry(R, g) \/ LateEntry(R, g)
    /\ UnitsAcyclic(g)

ASSUME GraphConstants ==
    /\ BodyRecords \in BOOLEAN
    /\ \A g \in Graphs : g \in Graph /\ ValidateGraph(g)

NodeState == {"pending", "running", "completed", "failed", "skipped", "awaiting", "cancelled"}
EdgeState == {"pending", "taken", "notTaken"}
Settled   == {"completed", "failed", "skipped", "cancelled"} \* nodeState.terminal

VARIABLES
    graph,   \* the graph of this run
    nodes,   \* runState.nodes
    edges,   \* runState.edges
    work,    \* resolveOutbound's queue: settled nodes with routes to decide
    pc,      \* the scheduler: at the "top" of its loop, "launched", or "done"
    visit,   \* regions skipSkippedRegions has still to look at
    final,   \* finalStatus
    ctx,     \* the run context: "live" or "dead"
    rows,    \* steps with a completed row in workflow_step_runs
    verdict, \* history: what each condition evaluated to
    decided  \* history: steps launched or skipped in this or an earlier execution

graphVars == <<graph, nodes, edges, work, pc, visit, final, ctx, rows, verdict, decided>>

Out(n) == {r \in graph.routes : r.from = n}
Regions == graph.maps \cup graph.loops
Units == UnitsOf(graph)

GraphInit ==
    /\ graph \in Graphs
    /\ nodes = [n \in Steps |-> "pending"]
    /\ edges = [r \in graph.routes |-> "pending"]
    /\ work = {} /\ pc = "top" /\ visit = {}
    /\ final = "completed" /\ ctx = "live" /\ rows = {}
    /\ verdict = [r \in graph.routes |-> "unknown"]
    /\ decided = {}

----------------------------------------------------------------------------
(* Deciding routes *)

\* decideRoute: a source that produced nothing takes no route, a route without
\* a condition is taken after success, and otherwise the condition decides. A
\* condition that cannot be evaluated counts as not satisfied.
DecideRoute(r, src, holds) ==
    CASE src \in {"skipped", "cancelled"} -> "notTaken"
      [] ~r.when -> IF src = "completed" THEN "taken" ELSE "notTaken"
      [] OTHER   -> IF holds THEN "taken" ELSE "notTaken"

\* The routes of n whose conditions are evaluated, and the answers they can
\* get: a condition over what lies behind it has one answer per run.
Evaluated(n) == {r \in Out(n) : r.when /\ nodes[n] \in {"completed", "failed"}}
Answers(n) == {yes \in SUBSET Evaluated(n) :
                  \A r \in Evaluated(n) : /\ verdict[r] = "yes" => r \in yes
                                          /\ verdict[r] = "no"  => r \notin yes}

\* Pending successors of n with all inbound routes decided and none taken.
NoCascade(n, es) == {}
Unreached(n, es) ==
    {m \in {r.to : r \in Out(n)} :
        nodes[m] = "pending" /\ \A r \in graph.routes : r.to = m => es[r] = "notTaken"}

\* The queue after n: what the cascade skipped has routes of its own to decide.
QueueKeepsHead(n, skipped) == work \cup skipped
QueueAfter(n, skipped) == (work \ {n}) \cup skipped

\* One turn of resolveOutbound's loop. The order in which the queue is served
\* does not change where the cascade ends.
ResolveOutbound(n) ==
    /\ n \in work
    /\ \E yes \in Answers(n) :
          LET es == [r \in graph.routes |->
                        IF r \in Out(n) /\ edges[r] = "pending"
                        THEN DecideRoute(r, nodes[n], r \in yes) ELSE edges[r]]
              skipped == Unreached(n, es)
          IN  /\ edges' = es
              /\ nodes' = [m \in Steps |-> IF m \in skipped THEN "skipped" ELSE nodes[m]]
              /\ work' = QueueAfter(n, skipped)
              /\ decided' = decided \cup skipped
              /\ verdict' = [r \in graph.routes |->
                                IF r \in Evaluated(n)
                                THEN IF r \in yes THEN "yes" ELSE "no"
                                ELSE verdict[r]]
    /\ UNCHANGED <<graph, pc, visit, final, ctx, rows>>

----------------------------------------------------------------------------
(* Launching *)

\* inboundOf: the routes into a unit from outside it.
InboundOf(U) == {r \in graph.routes : Enters(r, U)}

\* nodeReady and regionReady: no member has started, and the unit is an entry
\* or all its inbound routes are decided and at least one is taken.
ReadyOnFirst(U) ==
    /\ \A n \in U : nodes[n] = "pending"
    /\ InboundOf(U) # {} => \E r \in InboundOf(U) : edges[r] = "taken"
Ready(U) ==
    /\ \A n \in U : nodes[n] = "pending"
    /\ InboundOf(U) # {} => /\ \A r \in InboundOf(U) : edges[r] # "pending"
                            /\ \E r \in InboundOf(U) : edges[r] = "taken"

ReadyUnits == {U \in Units : Ready(U)}

\* The launching half of an iteration: readyRegions, readyLoops and readyNodes
\* of one and the same state; an approval step parks instead of running.
Launch ==
    /\ pc = "top" /\ work = {} /\ ctx = "live"
    /\ nodes' = [n \in Steps |-> IF n \notin UNION ReadyUnits THEN nodes[n]
                                 ELSE IF n \in graph.gates THEN "awaiting" ELSE "running"]
    /\ decided' = decided \cup UNION ReadyUnits
    /\ visit' = Regions
    /\ pc' = "launched"
    /\ UNCHANGED <<graph, edges, work, final, ctx, rows, verdict>>

\* With a dead context nothing is launched any more.
SkipLaunch ==
    /\ pc = "top" /\ work = {} /\ ctx = "dead"
    /\ final' = IF final = "completed" THEN "cancelled" ELSE final
    /\ pc' = "launched"
    /\ UNCHANGED <<graph, nodes, edges, work, visit, ctx, rows, verdict, decided>>

\* regionSkipped: untouched, and no route into it was taken.
RegionSkipped(R) ==
    /\ \A n \in R : nodes[n] = "pending"
    /\ InboundOf(R) # {}
    /\ \A r \in InboundOf(R) : edges[r] = "notTaken"

\* skipSkippedRegions, one region: Go visits the map in any order.
SkipSkippedRegion(R) ==
    /\ pc = "launched" /\ work = {} /\ R \in visit
    /\ visit' = visit \ {R}
    /\ IF RegionSkipped(R)
       THEN /\ nodes' = [n \in Steps |-> IF n \in R THEN "skipped" ELSE nodes[n]]
            /\ work' = R
            /\ decided' = decided \cup R
       ELSE UNCHANGED <<nodes, work, decided>>
    /\ UNCHANGED <<graph, edges, pc, final, ctx, rows, verdict>>

----------------------------------------------------------------------------
(* Collecting *)

LaunchedUnits == {U \in Units : \A n \in U : nodes[n] = "running"}
Awaiting == {n \in Steps : nodes[n] = "awaiting"}

\* A failure is final; a cancellation counts only against a run still green.
FinalAfter(state) ==
    CASE state = "failed" -> "failed"
      [] state = "cancelled" /\ final = "completed" -> "cancelled"
      [] OTHER -> final

\* The members of a completed unit that have a completed step run. An empty
\* allow_empty map records its first step only, and a step that no iteration
\* reached or that failed within the tolerance has none.
Recorded(U) == IF U \in Regions /\ ~BodyRecords THEN SUBSET U ELSE {U}

\* A unit reports. It may report a cancellation that is not the run's own: a
\* step whose remote job somebody cancelled does.
Collect(U, state) ==
    /\ pc = "launched" /\ work = {} /\ visit = {}
    /\ U \in LaunchedUnits
    /\ nodes' = [n \in Steps |-> IF n \in U THEN state ELSE nodes[n]]
    /\ IF state = "completed" THEN \E S \in Recorded(U) : rows' = rows \cup S
                              ELSE UNCHANGED rows
    /\ final' = FinalAfter(state)
    /\ work' = U
    /\ pc' = "top"
    /\ UNCHANGED <<graph, edges, visit, ctx, verdict, decided>>

\* Nothing in flight: the loop ends.
Drain ==
    /\ pc = "launched" /\ work = {} /\ visit = {} /\ LaunchedUnits = {}
    /\ pc' = "done"
    /\ UNCHANGED <<graph, nodes, edges, work, visit, final, ctx, rows, verdict, decided>>

Outcome == IF final = "completed" /\ Awaiting # {} THEN "paused" ELSE final

----------------------------------------------------------------------------
(* Cancellation, and the next execution after a pause *)

CancelContext ==
    /\ ctx = "live" /\ pc # "done"
    /\ ctx' = "dead"
    /\ UNCHANGED <<graph, nodes, edges, work, pc, visit, final, rows, verdict, decided>>

\* rebuildResumeState and newRunState: a step with a completed row is done.
ForgetUngated(n) == IF n \in Awaiting THEN "completed" ELSE "pending"
Rebuilt(n) == IF n \in rows \cup Awaiting THEN "completed" ELSE "pending"

\* Every parked gate has been approved, which completed its row; a worker
\* claims the run and seeds a new traversal.
Resume ==
    /\ pc = "done" /\ ctx = "live" /\ Outcome = "paused"
    /\ rows' = rows \cup Awaiting
    /\ nodes' = [n \in Steps |-> Rebuilt(n)]
    /\ edges' = [r \in graph.routes |-> "pending"]
    /\ work' = {n \in Steps : Rebuilt(n) = "completed"}
    /\ pc' = "top"
    /\ UNCHANGED <<graph, visit, final, ctx, verdict, decided>>

Scheduler ==
    \/ \E n \in Steps : ResolveOutbound(n)
    \/ Launch \/ SkipLaunch \/ Drain
    \/ \E R \in Regions : SkipSkippedRegion(R)
    \/ \E U \in Units, state \in {"completed", "failed", "cancelled"} : Collect(U, state)

GraphNext == Scheduler \/ CancelContext \/ Resume

GraphSpec == GraphInit /\ [][GraphNext]_graphVars

\* The scheduler goroutine runs, and every launched unit reports in the end.
GraphFairSpec == GraphSpec /\ WF_graphVars(Scheduler)

----------------------------------------------------------------------------
(* Properties *)

\* a can reach n: a is in every set that holds the sources of n's routes and
\* is closed under going back along routes.
Reaches(a, n) ==
    \A S \in SUBSET Steps :
        (\A r \in graph.routes : r.to \in S \cup {n} => r.from \in S) => a \in S
Upstream(U) == {a \in Steps \ U : \E n \in U : Reaches(a, n)}

\* While a unit runs or a gate waits, all that lies behind it is settled, so
\* the outputs it was given at launch were complete (visibleFor: "Every
\* ancestor is in a terminal state by the readiness rule").
AncestorsSettled ==
    \A U \in Units : (\E n \in U : nodes[n] \in {"running", "awaiting"})
        => \A a \in Upstream(U) : nodes[a] \in Settled

Ran(U) == \A n \in U : nodes[n] \in {"completed", "failed", "cancelled", "awaiting"}

\* The graph asks for U, going by how its sources ended and by the conditions.
Due(U) ==
    \/ InboundOf(U) = {}
    \/ \E r \in InboundOf(U) : DecideRoute(r, nodes[r.from], verdict[r] = "yes") = "taken"

\* When a traversal that nobody cancelled ends, it ran exactly the units the
\* graph asks for, skipped the rest, and left only what waits behind a gate:
\* no interleaving of results, cascade of skips or resume loses a branch
\* ("everything runnable has finished").
ExactFrontier ==
    pc = "done" /\ ctx = "live" =>
        \A U \in Units :
            IF Upstream(U) \cap Awaiting # {}
            THEN \A n \in U : nodes[n] = "pending"
            ELSE IF Due(U) THEN Ran(U) ELSE \A n \in U : nodes[n] = "skipped"

\* No step is launched a second time, nor after its branch was skipped, also
\* across a pause (pauseAtGates: "a double deploy for any non-idempotent step").
RunsOnce ==
    [][\A n \in Steps : nodes[n] = "pending" /\ nodes'[n] \in {"running", "awaiting"}
           => n \notin decided]_graphVars

\* A failed step fails the run whatever ends after it: a handler routed on
\* the failure, a gate parked elsewhere, a cancellation ("does not turn a red
\* run green").
FailureIsRed ==
    pc = "done" /\ (\E n \in Steps : nodes[n] = "failed") => Outcome = "failed"

\* What runs, runs on settled inputs, and what failed stays failed.
TraversalSound == AncestorsSettled /\ FailureIsRed

\* Every traversal ends: no join waits for a route nobody will decide.
Drains == pc # "done" ~> pc = "done"

=============================================================================
