------------------------------- MODULE Outpost -------------------------------
(***************************************************************************)
(* The outpost gateway and its agents.  Control-plane services enqueue      *)
(* commands; an agent in the customer's cluster claims them by long-poll,   *)
(* executes them, posts a result event and only then acknowledges.  The     *)
(* gateway keeps accepted events in an outbox that its replicas deliver to  *)
(* the consumer services, with a lease on each claimed batch, backoff and   *)
(* a dead letter.                                                           *)
(*                                                                          *)
(* Requests and answers may be lost, agents and replicas may crash, two     *)
(* agents may run with the same credentials (a pod and its replacement).    *)
(* The outbox has a clock: one tick is the timeout of one delivery.          *)
(***************************************************************************)
EXTENDS Naturals, FiniteSets

CONSTANTS
    Commands,
    Agents,
    Gateways,     \* the replicas of the gateway, each with a dispatcher
    MaxRuns,      \* bound on the executions of a command; one per agent and fault suffices
    MaxPosts,     \* the attempts of postEventWithRetry
    MaxAttempts,  \* maxDeliveryAttempts
    Batch,        \* dispatchBatchSize
    Margin,       \* the part of the lease that covers database calls, in ticks
    BackoffCap,   \* the longest backoff, in ticks
    MaxFaults     \* bound on lost messages, database errors and crashes

ASSUME OutpostAssumption ==
    /\ IsFiniteSet(Commands)
    /\ {MaxRuns, MaxPosts, MaxAttempts, Batch, Margin, BackoffCap} \subseteq Nat \ {0}

VARIABLES
    noModule,    \* the commands whose integration the agent does not run
    unrouted,    \* the commands whose events have no consumer configured
    active,      \* the outpost is not deleted
    cmd,         \* cmd[c]: the command's row; lapsed: its claim is older than the lease
    runs,        \* runs[c]: how often an agent has begun to execute the command
    agent,       \* agent[a]: the command loop of an agent
    event,       \* event[x]: the outbox row of event x; due in `timer` ticks while pending
    dispatcher,  \* dispatcher[g]: the claimed events, and the one being delivered
    received,    \* the events some consumer has received
    faults

config == <<noModule, unrouted>>  \* fixed by the deployment
vars == <<config, active, cmd, runs, agent, event, dispatcher, received, faults>>

\* The k-th execution of a command reports one event, under an id of its own.
Ids == Commands \X (1..MaxRuns)
Timeout == 1

Polling == [pc |-> "poll", batch |-> {}, cur |-> {}, outcome |-> "none", posts |-> 0]
Idle == [claimed |-> {}, cur |-> {}, wait |-> 0, slack |-> 0]
NoEvent == [status |-> "none", outcome |-> "none", attempt |-> 0, timer |-> 0]

Init ==
    /\ noModule \in SUBSET Commands /\ unrouted \in SUBSET (Commands \ noModule)
    /\ active = TRUE
    /\ cmd = [c \in Commands |-> [status |-> "none", lapsed |-> FALSE]]
    /\ runs = [c \in Commands |-> 0]
    /\ agent = [a \in Agents |-> Polling]
    /\ event = [x \in Ids |-> NoEvent]
    /\ dispatcher = [g \in Gateways |-> Idle]
    /\ received = {}
    /\ faults = 0

Fault == faults < MaxFaults /\ faults' = faults + 1
Cur(a) == CHOOSE x \in agent[a].cur : TRUE

---------------------------------------------------------------------------
(* Commands *)

(* handleEnqueueCommand, handleEnqueueOutpostCommand *)
Enqueue(c) ==
    /\ active /\ cmd[c].status = "none"
    /\ cmd' = [cmd EXCEPT ![c].status = "pending"]
    /\ UNCHANGED <<config, active, runs, agent, event, dispatcher, received, faults>>

(* handleDeleteOutpost: from now on every call of the agents is refused. *)
DeleteOutpost ==
    /\ active
    /\ active' = FALSE
    /\ UNCHANGED <<config, cmd, runs, agent, event, dispatcher, received, faults>>

\* Mutant: only commands nobody has claimed are served.
PendingOnly(c) == cmd[c].status = "pending"

Deliverable(c) == cmd[c].status = "pending" \/ (cmd[c].status = "claimed" /\ cmd[c].lapsed)

(* handleCommands: the claim commits, then the answer arrives or is lost. *)
PollCommands(a) ==
    LET batch == {c \in Commands : Deliverable(c)}
    IN  /\ active /\ agent[a].pc = "poll" /\ batch # {}
        /\ cmd' = [c \in Commands |->
              IF c \in batch THEN [status |-> "claimed", lapsed |-> FALSE] ELSE cmd[c]]
        /\ \/ agent' = [agent EXCEPT ![a].pc = "loop", ![a].batch = batch] /\ UNCHANGED faults
           \/ Fault /\ UNCHANGED agent
        /\ UNCHANGED <<config, active, runs, event, dispatcher, received>>

(* commandClaimLease runs out, which may happen while the agent works. *)
LeaseLapses(c) ==
    /\ cmd[c].status = "claimed" /\ ~cmd[c].lapsed
    /\ cmd' = [cmd EXCEPT ![c].lapsed = TRUE]
    /\ UNCHANGED <<config, active, runs, agent, event, dispatcher, received, faults>>

(* The agent is done with its current command: on to the next of the batch. *)
NextCommand(a) ==
    agent' = [agent EXCEPT ![a] =
       IF agent[a].batch = {} THEN Polling
       ELSE [Polling EXCEPT !.pc = "loop", !.batch = agent[a].batch]]

\* Mutant: the command is acknowledged as soon as it was executed.
AckFirst(c) == "ack"

FirstStep(c) == IF c \in noModule THEN "ack" ELSE "post"

(* handleCommand: run the module.  A command without one is refused with   *)
(* an acknowledgement and no event.                                        *)
Execute(a, c, outcome) ==
    /\ agent[a].pc = "loop" /\ c \in agent[a].batch
    /\ runs[c] < MaxRuns
    /\ c \in noModule => outcome = "failed"
    /\ runs' = [runs EXCEPT ![c] = @ + 1]
    /\ agent' = [agent EXCEPT ![a] =
          [pc |-> FirstStep(c), batch |-> @.batch \ {c},
           cur |-> {<<c, runs[c] + 1>>}, outcome |-> outcome, posts |-> 0]]
    /\ UNCHANGED <<config, active, cmd, event, dispatcher, received, faults>>

(* addEvent: a known id is left as it is. *)
Insert(x, outcome) ==
    IF event[x].status # "none" THEN event
    ELSE [event EXCEPT ![x] = [status |-> "pending", outcome |-> outcome,
                               attempt |-> 0, timer |-> 0]]

(* postEventWithRetry: one POST.  The gateway may store the event and its  *)
(* answer be lost.  After the last try the command is left for redelivery. *)
PostEvent(a) ==
    /\ agent[a].pc = "post"
    /\ \/ /\ active
          /\ event' = Insert(Cur(a), agent[a].outcome)
          /\ agent' = [agent EXCEPT ![a].pc = "ack"]
          /\ UNCHANGED faults
       \/ /\ IF active
             THEN Fault /\ (event' = Insert(Cur(a), agent[a].outcome) \/ UNCHANGED event)
             ELSE UNCHANGED <<faults, event>>
          /\ IF agent[a].posts + 1 < MaxPosts
             THEN agent' = [agent EXCEPT ![a].posts = @ + 1]
             ELSE NextCommand(a)
    /\ UNCHANGED <<config, active, cmd, runs, dispatcher, received>>

(* ackCommand: the row takes the reported status whatever it holds.  A      *)
(* lost acknowledgement is not retried.                                     *)
AckCommand(a) ==
    /\ agent[a].pc = "ack"
    /\ \/ active /\ cmd' = [cmd EXCEPT ![Cur(a)[1]].status = agent[a].outcome] /\ UNCHANGED faults
       \/ active /\ Fault /\ UNCHANGED cmd
       \/ ~active /\ UNCHANGED <<cmd, faults>>
    /\ NextCommand(a)
    /\ UNCHANGED <<config, active, runs, event, dispatcher, received>>

AgentCrash(a) ==
    /\ agent[a] # Polling
    /\ Fault
    /\ agent' = [agent EXCEPT ![a] = Polling]
    /\ UNCHANGED <<config, active, cmd, runs, event, dispatcher, received>>

---------------------------------------------------------------------------
(* The outbox *)

\* Mutant: the lease covers one delivery.
LeaseOfOne(n) == Timeout + Margin

(* The lease covers the sequential deliveries of a full batch. *)
Lease(n) == Batch * Timeout + Margin

(* retryBackoff doubles up to its cap. *)
Backoff(n) == LET d == 3 * 2 ^ (n - 1) IN IF d > BackoffCap THEN BackoffCap ELSE d

Due == {x \in Ids : event[x].status = "pending" /\ event[x].timer = 0}

(* claimDueEvents: up to Batch due rows, with the attempts they had. *)
ClaimDueEvents(g) ==
    /\ dispatcher[g] = Idle /\ Due # {}
    /\ \E xs \in SUBSET Due :
          /\ xs # {} /\ Cardinality(xs) <= Batch
          /\ Cardinality(xs) < Batch => xs = Due
          /\ event' = [x \in Ids |->
                IF x \in xs THEN [event[x] EXCEPT !.timer = Lease(Cardinality(xs))] ELSE event[x]]
          /\ dispatcher' = [dispatcher EXCEPT ![g] =
                [Idle EXCEPT !.claimed = {<<x, event[x].attempt>> : x \in xs},
                             !.slack = Margin - 1]]
    /\ UNCHANGED <<config, active, cmd, runs, agent, received, faults>>

Exhausted(n) == n >= MaxAttempts

(* scheduleEventRetry: dead letter after the last attempt, backoff before. *)
Retried(x, attempt) ==
    IF Exhausted(attempt)
    THEN [event EXCEPT ![x].status = "failed", ![x].attempt = attempt, ![x].timer = 0]
    ELSE [event EXCEPT ![x].attempt = attempt, ![x].timer = Backoff(attempt)]

(* deliverEvent: the next of the batch; without a consumer, a dead letter. *)
BeginDelivery(g) ==
    /\ dispatcher[g].cur = {}
    /\ \E p \in dispatcher[g].claimed :
          IF p[1][1] \in unrouted
          THEN /\ event' = Retried(p[1], MaxAttempts + 1)
               /\ dispatcher' = [dispatcher EXCEPT ![g] =
                     IF @.claimed = {p} THEN Idle
                     ELSE [@ EXCEPT !.claimed = dispatcher[g].claimed \ {p}]]
          ELSE /\ dispatcher' = [dispatcher EXCEPT ![g].claimed = @ \ {p}, ![g].cur = {p}]
               /\ UNCHANGED event
    /\ UNCHANGED <<config, active, cmd, runs, agent, received, faults>>

EndDelivery(g) ==
    dispatcher' = [dispatcher EXCEPT ![g] =
       IF @.claimed = {} THEN Idle ELSE [@ EXCEPT !.cur = {}, !.wait = 0]]

(* The consumer accepts and the row is marked, unless the mark fails. *)
DeliverySucceeds(g) ==
    /\ \E p \in dispatcher[g].cur :
          /\ received' = received \cup {p[1]}
          /\ \/ event' = [event EXCEPT ![p[1]].status = "delivered", ![p[1]].timer = 0]
                /\ UNCHANGED faults
             \/ Fault /\ UNCHANGED event
    /\ EndDelivery(g)
    /\ UNCHANGED <<config, active, cmd, runs, agent>>

(* A refusal, an error or a timeout; the consumer may have received it. *)
DeliveryFails(g) ==
    /\ \E p \in dispatcher[g].cur :
          /\ received' \in {received, received \cup {p[1]}}
          /\ \/ event' = Retried(p[1], p[2] + 1) /\ UNCHANGED faults
             \/ Fault /\ UNCHANGED event
    /\ EndDelivery(g)
    /\ UNCHANGED <<config, active, cmd, runs, agent>>

GatewayCrash(g) ==
    /\ dispatcher[g] # Idle
    /\ Fault
    /\ dispatcher' = [dispatcher EXCEPT ![g] = Idle]
    /\ UNCHANGED <<config, active, cmd, runs, agent, event, received>>

(* A delivery ends within its timeout; what a dispatcher spends between    *)
(* deliveries stays below the margin.                                      *)
MayWait(g) ==
    dispatcher[g] # Idle =>
       \/ dispatcher[g].cur # {} /\ dispatcher[g].wait < Timeout
       \/ dispatcher[g].slack > 0

Wait(d) ==
    CASE d = Idle -> Idle
      [] d # Idle /\ d.cur # {} /\ d.wait < Timeout -> [d EXCEPT !.wait = @ + 1]
      [] OTHER -> [d EXCEPT !.slack = IF @ > 0 THEN @ - 1 ELSE 0]

Tick ==
    /\ \E x \in Ids : event[x].timer > 0
    /\ \A g \in Gateways : MayWait(g)
    /\ event' = [x \in Ids |->
          [event[x] EXCEPT !.timer = IF event[x].timer > 0 THEN @ - 1 ELSE 0]]
    /\ dispatcher' = [g \in Gateways |-> Wait(dispatcher[g])]
    /\ UNCHANGED <<config, active, cmd, runs, agent, received, faults>>

---------------------------------------------------------------------------
AgentStep(a) ==
    \/ \E c \in agent[a].batch, o \in {"done", "failed"} : Execute(a, c, o)
    \/ PostEvent(a)
    \/ AckCommand(a)

Dispatch(g) == BeginDelivery(g) \/ DeliverySucceeds(g) \/ DeliveryFails(g)

Next ==
    \/ \E c \in Commands : Enqueue(c) \/ LeaseLapses(c)
    \/ DeleteOutpost
    \/ \E a \in Agents : PollCommands(a) \/ AgentStep(a) \/ AgentCrash(a)
    \/ \E g \in Gateways : ClaimDueEvents(g) \/ Dispatch(g) \/ GatewayCrash(g)
    \/ Tick

Spec == Init /\ [][Next]_vars

(* Agents poll and work, leases run out, dispatchers tick, time passes. *)
Fairness ==
    /\ \A a \in Agents : WF_vars(AgentStep(a)) /\ WF_vars(PollCommands(a))
    /\ \A c \in Commands : WF_vars(LeaseLapses(c))
    /\ \A g \in Gateways : WF_vars(Dispatch(g)) /\ WF_vars(ClaimDueEvents(g))
    /\ WF_vars(Tick)

FairSpec == Spec /\ Fairness

---------------------------------------------------------------------------

(* No result is lost: a command that is acknowledged as done or failed has *)
(* an accepted event that reports that outcome, in whatever order lost     *)
(* answers, redeliveries and two agents put the posts and the acks.        *)
ResultBeforeAck ==
    \A c \in Commands \ noModule :
       cmd[c].status \in {"done", "failed"} =>
          \E k \in 1..MaxRuns : event[<<c, k>>].outcome = cmd[c].status

InBatch(g) == {p[1] : p \in dispatcher[g].claimed \cup dispatcher[g].cur}

(* The lease covers a whole batch: no event is in the hands of two         *)
(* dispatchers, however slow the deliveries before it were.                *)
NoConcurrentDelivery ==
    \A g, h \in Gateways : g # h => InBatch(g) \cap InBatch(h) = {}

(* The outbox tells the truth: a delivered event has reached its consumer, *)
(* and a dead letter has used up its attempts or has no consumer.          *)
OutboxIsTruthful ==
    \A x \in Ids :
       /\ event[x].status = "delivered" => x \in received
       /\ event[x].status = "failed" => x[1] \in unrouted \/ event[x].attempt = MaxAttempts

(* Results are accounted for, from the agent to the consumer. *)
ResultsAccounted == ResultBeforeAck /\ OutboxIsTruthful

(* Everything comes to an end: an accepted event is delivered or dead-     *)
(* lettered, and a command is acknowledged, through lost answers, crashed  *)
(* agents and expired claims, unless the outpost is deleted.               *)
Settles ==
    /\ \A x \in Ids : event[x].status = "pending" ~> event[x].status \in {"delivered", "failed"}
    /\ \A c \in Commands :
          cmd[c].status = "pending" ~> cmd[c].status \in {"done", "failed"} \/ ~active

(* "CmdFailed is a terminal ack state": the status a poller has read as    *)
(* the outcome does not change any more.                                   *)
OutcomeIsFinal ==
    [][\A c \in Commands : cmd[c].status \in {"done", "failed"} => cmd'[c] = cmd[c]]_vars
=============================================================================
