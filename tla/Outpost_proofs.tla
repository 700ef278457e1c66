--------------------------- MODULE Outpost_proofs ---------------------------
(***************************************************************************)
(* Theorems about the outpost gateway and its agents, for any number of    *)
(* commands, agents, gateway replicas and faults, and any batch size,      *)
(* margin and backoff.                                                     *)
(***************************************************************************)
EXTENDS Outpost, FiniteSetTheorems, TLAPS

Outcomes == {"none", "done", "failed"}
AgentType ==
    [pc : {"poll", "loop", "post", "ack"}, batch : SUBSET Commands, cur : SUBSET Ids,
     outcome : Outcomes, posts : Nat]
EventType ==
    [status : {"none", "pending", "delivered", "failed"}, outcome : Outcomes,
     attempt : Nat, timer : Nat]
Claims == Ids \X Nat
DispatcherType == [claimed : SUBSET Claims, cur : SUBSET Claims, wait : 0..Timeout, slack : Nat]

(* The types of the variables, the event log of the consumers aside. *)
OutTypeOK ==
    /\ cmd \in [Commands -> [status : {"none", "pending", "claimed", "done", "failed"},
                             lapsed : BOOLEAN]]
    /\ runs \in [Commands -> 0..MaxRuns]
    /\ agent \in [Agents -> AgentType]
    /\ event \in [Ids -> EventType]
    /\ dispatcher \in [Gateways -> DispatcherType]

---------------------------------------------------------------------------
(* The outbox: a dispatcher d, what it has in hand, how long that may take *)

Held(d) == d.claimed \cup d.cur

(* The ticks that d may still take: one for each delivery, and its slack. *)
Remaining(d) ==
    Cardinality(d.claimed) + (IF d.cur = {} THEN 0 ELSE Timeout - d.wait) + d.slack

(* One delivery at a time, of events that are all different. *)
Shape(d) ==
    /\ d \in DispatcherType
    /\ IsFiniteSet(d.claimed)
    /\ d.cur = {} => d.wait = 0
    /\ d.cur # {} => \E p \in Claims : d.cur = {p} /\ p \notin d.claimed
    /\ \A p, q \in Held(d) : p[1] = q[1] => p = q

Shapes == \A g \in Gateways : Shape(dispatcher[g])

(* What a dispatcher holds is pending, leased for longer than it may take, *)
(* and has an attempt left.                                                *)
Leased ==
    \A g \in Gateways : \A p \in Held(dispatcher[g]) :
        /\ event[p[1]].status = "pending"
        /\ event[p[1]].timer > Remaining(dispatcher[g])
        /\ p[2] < MaxAttempts

(* Nobody else holds it. *)
Exclusive ==
    \A g, h \in Gateways : \A p \in Held(dispatcher[g]), q \in Held(dispatcher[h]) :
        p[1] = q[1] => g = h

PendingHasTries ==
    \A x \in Ids : event[x].status = "pending" => event[x].attempt < MaxAttempts

OutboxInv ==
    /\ OutTypeOK /\ Shapes /\ Leased /\ Exclusive /\ PendingHasTries /\ OutboxIsTruthful

LEMMA RemainingNat ==
  ASSUME NEW d, Shape(d)
  PROVE  /\ Cardinality(d.claimed) \in Nat /\ d.wait \in 0..1 /\ d.slack \in Nat
         /\ Remaining(d) \in Nat
<1>1. Cardinality(d.claimed) \in Nat
  BY FS_CardinalityType DEF Shape
<1>2. d.wait \in 0..1 /\ d.slack \in Nat
  BY DEF Shape, DispatcherType, Timeout
<1> QED
  BY <1>1, <1>2 DEF Remaining, Timeout

LEMMA IdleShape ==
  Shape(Idle) /\ Held(Idle) = {} /\ Remaining(Idle) = 0
<1>1. /\ Idle \in DispatcherType /\ Idle.claimed = {} /\ Idle.cur = {} /\ Idle.wait = 0
      /\ Idle.slack = 0
  BY DEF Idle, DispatcherType, Timeout
<1>2. IsFiniteSet({}) /\ Cardinality({}) = 0
  BY FS_EmptySet
<1> QED
  BY <1>1, <1>2 DEF Shape, Held, Remaining

(* retryBackoff: a number, however often it doubles. *)
LEMMA BackoffNat ==
  ASSUME NEW n \in Nat \ {0} PROVE Backoff(n) \in Nat
<1>1. n - 1 \in Nat
  OBVIOUS
<1>2. IsFiniteSet(1..(n - 1)) /\ Cardinality(1..(n - 1)) = n - 1
  BY <1>1, FS_Interval
<1>3. /\ IsFiniteSet(SUBSET (1..(n - 1)))
      /\ Cardinality(SUBSET (1..(n - 1))) = 2 ^ Cardinality(1..(n - 1))
  BY <1>2, FS_SUBSET
<1>4. Cardinality(SUBSET (1..(n - 1))) \in Nat
  BY <1>3, FS_CardinalityType
<1>5. 2 ^ (n - 1) \in Nat
  BY <1>2, <1>3, <1>4
<1> DEFINE e == 2 ^ (n - 1)
<1>6. BackoffCap \in Nat /\ e \in Nat
  BY <1>5, OutpostAssumption
<1>7. Backoff(n) = IF 3 * e > BackoffCap THEN BackoffCap ELSE 3 * e
  BY DEF Backoff
<1> HIDE DEF e
<1> QED
  BY <1>6, <1>7

LEMMA InitOutboxInv == Init => OutboxInv
<1> SUFFICES ASSUME Init PROVE OutboxInv
  OBVIOUS
<1>1. Polling \in AgentType /\ NoEvent \in EventType
  BY DEF Polling, AgentType, NoEvent, EventType, Outcomes
<1>2. OutTypeOK /\ Shapes
  BY <1>1, IdleShape, OutpostAssumption DEF Init, OutTypeOK, Shapes, Shape
<1>3. Leased /\ Exclusive
  BY IdleShape DEF Init, Leased, Exclusive
<1>4. PendingHasTries /\ OutboxIsTruthful
  BY DEF Init, PendingHasTries, OutboxIsTruthful, NoEvent
<1> QED
  BY <1>2, <1>3, <1>4 DEF OutboxInv

(* Dispatcher g lets go of some of what it has, and takes no longer. *)
LEMMA LetGo ==
  ASSUME OutboxInv, NEW g \in Gateways, NEW d, Shape(d),
         dispatcher' = [dispatcher EXCEPT ![g] = d],
         Held(d) \subseteq Held(dispatcher[g]), Remaining(d) <= Remaining(dispatcher[g]),
         \A h \in Gateways : \A p \in Held(dispatcher'[h]) : event'[p[1]] = event[p[1]]
  PROVE  /\ dispatcher' \in [Gateways -> DispatcherType]
         /\ Shapes' /\ Leased' /\ Exclusive'
<1>0. /\ OutTypeOK /\ Shapes /\ Leased /\ Exclusive
  BY DEF OutboxInv
<1>1. /\ dispatcher'[g] = d /\ \A h \in Gateways : h # g => dispatcher'[h] = dispatcher[h]
      /\ DOMAIN dispatcher' = Gateways /\ dispatcher' \in [Gateways -> DispatcherType]
  BY <1>0 DEF OutTypeOK, Shape
<1>2. Shapes'
  BY <1>0, <1>1 DEF Shapes
<1>3. \A h \in Gateways : Held(dispatcher'[h]) \subseteq Held(dispatcher[h])
  BY <1>1
<1>4. Exclusive'
  BY <1>0, <1>3 DEF Exclusive
<1>5. Leased'
  <2>1. ASSUME NEW h \in Gateways, NEW p \in Held(dispatcher'[h])
        PROVE  /\ event'[p[1]].status = "pending"
               /\ event'[p[1]].timer > Remaining(dispatcher'[h])
               /\ p[2] < MaxAttempts
    <3>1. /\ event[p[1]].status = "pending" /\ event[p[1]].timer > Remaining(dispatcher[h])
          /\ p[2] < MaxAttempts /\ event'[p[1]] = event[p[1]]
      BY <1>0, <1>3 DEF Leased
    <3>2. /\ Remaining(dispatcher'[h]) <= Remaining(dispatcher[h])
          /\ Remaining(dispatcher'[h]) \in Nat /\ Remaining(dispatcher[h]) \in Nat
      <4>1. Remaining(dispatcher'[h]) \in Nat /\ Remaining(dispatcher[h]) \in Nat
        BY <1>0, <1>1, RemainingNat DEF Shapes
      <4> QED
        BY <4>1, <1>1
    <3>3. p[1] \in Ids /\ event[p[1]].timer \in Nat
      <4>1. p \in Held(dispatcher[h]) /\ dispatcher[h] \in DispatcherType
        BY <1>0, <1>3 DEF OutTypeOK
      <4>2. p \in Claims
        BY <4>1 DEF Held, DispatcherType
      <4> QED
        BY <4>2, <1>0 DEF Claims, OutTypeOK, EventType
    <3> QED
      BY <3>1, <3>2, <3>3
  <2> QED
    BY <2>1 DEF Leased
<1> QED
  BY <1>1, <1>2, <1>4, <1>5

(* A claim that dispatcher g has dropped is in nobody's hands. *)
LEMMA Dropped ==
  ASSUME OutboxInv, NEW g \in Gateways, NEW d, NEW p \in Held(dispatcher[g]), p \notin Held(d),
         Held(d) \subseteq Held(dispatcher[g]), dispatcher' = [dispatcher EXCEPT ![g] = d],
         NEW h \in Gateways, NEW q \in Held(dispatcher'[h])
  PROVE  q[1] # p[1]
<1>0. OutTypeOK /\ Shapes /\ Exclusive
  BY DEF OutboxInv
<1>1. /\ h = g => dispatcher'[h] = d
      /\ h # g => dispatcher'[h] = dispatcher[h]
  BY <1>0 DEF OutTypeOK
<1>2. CASE h = g
  <2>1. q \in Held(dispatcher[g]) /\ q # p
    BY <1>1, <1>2
  <2> QED
    BY <2>1, <1>0 DEF Shapes, Shape
<1>3. CASE h # g
  BY <1>0, <1>1, <1>3 DEF Exclusive
<1> QED
  BY <1>2, <1>3

LEMMA HeldTypes ==
  ASSUME OutboxInv, NEW g \in Gateways, NEW p \in Held(dispatcher[g])
  PROVE  /\ p \in Claims /\ p[1] \in Ids /\ p[2] \in Nat /\ p[2] < MaxAttempts
         /\ event[p[1]] \in EventType /\ event[p[1]].status = "pending"
<1>1. p \in Claims
  BY DEF OutboxInv, OutTypeOK, DispatcherType, Held
<1> QED
  BY <1>1 DEF Claims, OutboxInv, Leased, OutTypeOK

(* scheduleEventRetry writes one row: a dead letter, or a later attempt. *)
LEMMA RetriedRow ==
  ASSUME OutTypeOK, NEW x \in Ids, NEW n \in Nat \ {0}, event' = Retried(x, n)
  PROVE  /\ event' \in [Ids -> EventType]
         /\ \A y \in Ids : y # x => event'[y] = event[y]
         /\ event'[x].attempt = n /\ event'[x].outcome = event[x].outcome
         /\ n >= MaxAttempts => event'[x].status = "failed"
         /\ n < MaxAttempts => event'[x].status = event[x].status
<1>0. event[x] \in EventType /\ Backoff(n) \in Nat /\ MaxAttempts \in Nat
  BY BackoffNat, OutpostAssumption DEF OutTypeOK
<1>1. CASE Exhausted(n)
  <2>1. event' = [event EXCEPT ![x].status = "failed", ![x].attempt = n, ![x].timer = 0]
    BY <1>1 DEF Retried
  <2> DEFINE v == [[[event[x] EXCEPT !.status = "failed"] EXCEPT !.attempt = n] EXCEPT !.timer = 0]
  <2>2. /\ v \in EventType /\ v.status = "failed" /\ v.attempt = n
        /\ v.outcome = event[x].outcome
    BY <1>0 DEF EventType
  <2>3. event' = [event EXCEPT ![x] = v]
    BY <2>1 DEF OutTypeOK
  <2> HIDE DEF v
  <2> QED
    BY <2>2, <2>3, <1>0, <1>1 DEF OutTypeOK, Exhausted
<1>2. CASE ~Exhausted(n)
  <2>1. event' = [event EXCEPT ![x].attempt = n, ![x].timer = Backoff(n)]
    BY <1>2 DEF Retried
  <2> DEFINE v == [[event[x] EXCEPT !.attempt = n] EXCEPT !.timer = Backoff(n)]
  <2>2. /\ v \in EventType /\ v.status = event[x].status /\ v.attempt = n
        /\ v.outcome = event[x].outcome
    BY <1>0 DEF EventType
  <2>3. event' = [event EXCEPT ![x] = v]
    BY <2>1 DEF OutTypeOK
  <2> HIDE DEF v
  <2> QED
    BY <2>2, <2>3, <1>0, <1>2 DEF OutTypeOK, Exhausted
<1> QED
  BY <1>1, <1>2

(* Dispatcher g settles claim p: the row says what happened. *)
LEMMA Settled ==
  ASSUME OutboxInv, NEW g \in Gateways, NEW d, NEW p \in Held(dispatcher[g]),
         Shape(d), p \notin Held(d), Held(d) \subseteq Held(dispatcher[g]),
         Remaining(d) <= Remaining(dispatcher[g]),
         dispatcher' = [dispatcher EXCEPT ![g] = d],
         \/ event' = event
         \/ event' = [event EXCEPT ![p[1]].status = "delivered", ![p[1]].timer = 0]
            /\ p[1] \in received'
         \/ event' = Retried(p[1], p[2] + 1)
         \/ event' = Retried(p[1], MaxAttempts + 1) /\ p[1][1] \in unrouted,
         received \subseteq received', UNCHANGED <<unrouted, cmd, runs, agent>>
  PROVE  OutboxInv'
<1>0. OutTypeOK /\ PendingHasTries /\ OutboxIsTruthful /\ MaxAttempts \in Nat
  BY OutpostAssumption DEF OutboxInv
<1>1. p[1] \in Ids /\ p[2] \in Nat /\ p[2] < MaxAttempts
      /\ event[p[1]] \in EventType /\ event[p[1]].status = "pending"
  BY HeldTypes
<1>2. /\ event' \in [Ids -> EventType]
      /\ \A y \in Ids : y # p[1] => event'[y] = event[y]
      /\ event'[p[1]].status = "pending" => event'[p[1]].attempt < MaxAttempts
      /\ event'[p[1]].status = "delivered" => p[1] \in received'
      /\ event'[p[1]].status = "failed" =>
            p[1][1] \in unrouted \/ event'[p[1]].attempt = MaxAttempts
  <2>1. CASE event' = event
    BY <2>1, <1>0, <1>1 DEF OutTypeOK, PendingHasTries
  <2>2. CASE event' = [event EXCEPT ![p[1]].status = "delivered", ![p[1]].timer = 0]
             /\ p[1] \in received'
    BY <2>2, <1>0, <1>1 DEF OutTypeOK, EventType
  <2>3. CASE event' = Retried(p[1], p[2] + 1)
    <3>1. p[2] + 1 \in Nat \ {0}
      BY <1>1
    <3>2. /\ event' \in [Ids -> EventType]
          /\ \A y \in Ids : y # p[1] => event'[y] = event[y]
          /\ event'[p[1]].attempt = p[2] + 1
          /\ p[2] + 1 >= MaxAttempts => event'[p[1]].status = "failed"
          /\ p[2] + 1 < MaxAttempts => event'[p[1]].status = "pending"
      BY <3>1, <2>3, <1>0, <1>1, RetriedRow
    <3> QED
      BY <3>2, <1>0, <1>1
  <2>4. CASE event' = Retried(p[1], MaxAttempts + 1) /\ p[1][1] \in unrouted
    <3>1. MaxAttempts + 1 \in Nat \ {0}
      BY <1>0
    <3>2. /\ event' \in [Ids -> EventType]
          /\ \A y \in Ids : y # p[1] => event'[y] = event[y]
          /\ MaxAttempts + 1 >= MaxAttempts => event'[p[1]].status = "failed"
      BY <3>1, <2>4, <1>0, <1>1, RetriedRow
    <3> QED
      BY <3>2, <2>4, <1>0
  <2> QED
    BY <2>1, <2>2, <2>3, <2>4
<1>3. \A h \in Gateways : \A q \in Held(dispatcher'[h]) : q[1] # p[1] /\ q[1] \in Ids
  <2>1. ASSUME NEW h \in Gateways, NEW q \in Held(dispatcher'[h]) PROVE q[1] # p[1]
    BY Dropped
  <2>2. ASSUME NEW h \in Gateways, NEW q \in Held(dispatcher'[h]) PROVE q[1] \in Ids
    <3>1. Held(dispatcher'[h]) \subseteq Held(dispatcher[h])
      BY <1>0 DEF OutTypeOK
    <3> QED
      BY <3>1, HeldTypes
  <2> QED
    BY <2>1, <2>2
<1>4. \A h \in Gateways : \A q \in Held(dispatcher'[h]) : event'[q[1]] = event[q[1]]
  BY <1>2, <1>3
<1>5. dispatcher' \in [Gateways -> DispatcherType] /\ Shapes' /\ Leased' /\ Exclusive'
  BY <1>4, LetGo
<1>6. OutTypeOK'
  BY <1>0, <1>2, <1>5 DEF OutTypeOK
<1>7. PendingHasTries'
  BY <1>0, <1>2 DEF PendingHasTries
<1>8. OutboxIsTruthful'
  BY <1>0, <1>2 DEF OutboxIsTruthful
<1> QED
  BY <1>5, <1>6, <1>7, <1>8 DEF OutboxInv

(* A batch without one of its claims, and with that one being delivered. *)
Without(d, p) == [d EXCEPT !.claimed = d.claimed \ {p}]
Delivering(d, p) == [Without(d, p) EXCEPT !.cur = {p}]

LEMMA ShapeDrop ==
  ASSUME NEW d, Shape(d), d.cur = {}, NEW p \in d.claimed
  PROVE  /\ Shape(Without(d, p)) /\ Held(Without(d, p)) = Held(d) \ {p}
         /\ Remaining(Without(d, p)) <= Remaining(d)
         /\ Shape(Delivering(d, p)) /\ Held(Delivering(d, p)) = Held(d)
         /\ Remaining(Delivering(d, p)) = Remaining(d)
<1> DEFINE e == Without(d, p)
           f == Delivering(d, p)
<1>0. /\ d \in DispatcherType /\ IsFiniteSet(d.claimed) /\ d.wait = 0
      /\ \A q, r \in Held(d) : q[1] = r[1] => q = r
      /\ Held(d) = d.claimed
  BY DEF Shape, Held
<1>1. /\ IsFiniteSet(d.claimed \ {p}) /\ Cardinality(d.claimed \ {p}) = Cardinality(d.claimed) - 1
      /\ Cardinality(d.claimed) \in Nat
  BY <1>0, FS_RemoveElement, FS_CardinalityType
<1>2. p \in Claims /\ d.slack \in Nat
  BY <1>0 DEF DispatcherType
<1>3. /\ e \in DispatcherType /\ e.claimed = d.claimed \ {p} /\ e.cur = {} /\ e.wait = 0
      /\ e.slack = d.slack
  BY <1>0 DEF DispatcherType, Without
<1>4. /\ f \in DispatcherType /\ f.claimed = d.claimed \ {p} /\ f.cur = {p} /\ f.wait = 0
      /\ f.slack = d.slack
  BY <1>2, <1>3 DEF DispatcherType, Delivering
<1> HIDE DEF e, f
<1>5. Held(e) = Held(d) \ {p} /\ Held(f) = Held(d)
  BY <1>0, <1>3, <1>4 DEF Held
<1>6. Shape(e)
  BY <1>0, <1>1, <1>3, <1>5 DEF Shape
<1>7. Shape(f)
  BY <1>0, <1>1, <1>2, <1>4, <1>5 DEF Shape
<1>8. Remaining(e) <= Remaining(d)
  BY <1>1, <1>2, <1>3 DEF Remaining
<1>9. Remaining(f) = Remaining(d)
  BY <1>1, <1>2, <1>4 DEF Remaining, Timeout
<1> QED
  BY <1>5, <1>6, <1>7, <1>8, <1>9 DEF e, f

LEMMA OutboxBeginDelivery ==
  ASSUME OutboxInv, NEW g \in Gateways, BeginDelivery(g) PROVE OutboxInv'
<1>0. Shape(dispatcher[g]) /\ dispatcher[g].cur = {} /\ OutTypeOK
  BY DEF OutboxInv, Shapes, BeginDelivery
<1> DEFINE d == dispatcher[g]
<1>1. PICK p \in dispatcher[g].claimed :
         IF p[1][1] \in unrouted
         THEN /\ event' = Retried(p[1], MaxAttempts + 1)
              /\ dispatcher' = [dispatcher EXCEPT ![g] =
                    IF @.claimed = {p} THEN Idle
                    ELSE [@ EXCEPT !.claimed = dispatcher[g].claimed \ {p}]]
         ELSE /\ dispatcher' = [dispatcher EXCEPT ![g].claimed = @ \ {p}, ![g].cur = {p}]
              /\ UNCHANGED event
  BY DEF BeginDelivery
<1>2. UNCHANGED <<unrouted, cmd, runs, agent, received>>
  BY DEF BeginDelivery, config
<1>3. p \in Held(d)
  BY DEF Held
<1> DEFINE e == Without(d, p)
           f == Delivering(d, p)
<1>shape. /\ Shape(e) /\ Held(e) = Held(d) \ {p} /\ Remaining(e) <= Remaining(d)
          /\ Shape(f) /\ Held(f) = Held(d) /\ Remaining(f) = Remaining(d)
  BY <1>0, ShapeDrop
<1>4. CASE p[1][1] \in unrouted
  <2> DEFINE v == IF d.claimed = {p} THEN Idle ELSE e
  <2>1. Shape(v) /\ p \notin Held(v) /\ Held(v) \subseteq Held(d) /\ Remaining(v) <= Remaining(d)
    <3> HIDE DEF e
    <3>1. CASE d.claimed = {p}
      BY <3>1, <1>0, IdleShape, RemainingNat
    <3>2. CASE d.claimed # {p}
      BY <3>2, <1>shape
    <3> QED
      BY <3>1, <3>2
  <2>2. dispatcher' = [dispatcher EXCEPT ![g] = v] /\ event' = Retried(p[1], MaxAttempts + 1)
    <3>1. CASE d.claimed = {p}
      BY <3>1, <1>1, <1>4
    <3>2. CASE d.claimed # {p}
      <4>1. dispatcher' = [dispatcher EXCEPT ![g] = e]
        BY <3>2, <1>0, <1>1, <1>4 DEF OutTypeOK, Without
      <4> HIDE DEF e
      <4> QED
        BY <4>1, <3>2, <1>1, <1>4
    <3> QED
      BY <3>1, <3>2
  <2> HIDE DEF v
  <2> QED
    BY <2>1, <2>2, <1>2, <1>3, <1>4, Settled
<1>5. CASE p[1][1] \notin unrouted
  <2>2. dispatcher' = [dispatcher EXCEPT ![g] = f] /\ event' = event
    BY <1>0, <1>1, <1>5 DEF OutTypeOK, Without, Delivering
  <2> HIDE DEF e, f
  <2>3. Remaining(f) <= Remaining(d)
    BY <1>shape, <1>0, RemainingNat
  <2>4. dispatcher' \in [Gateways -> DispatcherType] /\ Shapes' /\ Leased' /\ Exclusive'
    BY <1>shape, <2>2, <2>3, LetGo
  <2>5. OutTypeOK' /\ PendingHasTries' /\ OutboxIsTruthful'
    BY <2>2, <2>4, <1>2 DEF OutboxInv, OutTypeOK, PendingHasTries, OutboxIsTruthful
  <2> QED
    BY <2>4, <2>5 DEF OutboxInv
<1> QED
  BY <1>4, <1>5

(* The delivery in hand is over. *)
LEMMA Ended ==
  ASSUME OutboxInv, NEW g \in Gateways, NEW p \in dispatcher[g].cur, EndDelivery(g)
  PROVE  \E d : /\ dispatcher' = [dispatcher EXCEPT ![g] = d] /\ Shape(d) /\ p \notin Held(d)
                /\ Held(d) \subseteq Held(dispatcher[g]) /\ Remaining(d) <= Remaining(dispatcher[g])
<1> DEFINE d == dispatcher[g]
           e == IF d.claimed = {} THEN Idle ELSE [d EXCEPT !.cur = {}, !.wait = 0]
<1>0. Shape(d) /\ d.cur = {p} /\ p \notin d.claimed /\ OutTypeOK
  BY DEF OutboxInv, Shapes, Shape
<1>1. dispatcher' = [dispatcher EXCEPT ![g] = e]
  BY <1>0 DEF EndDelivery, OutTypeOK
<1>2. Shape(e) /\ p \notin Held(e) /\ Held(e) \subseteq Held(d) /\ Remaining(e) <= Remaining(d)
  <2>1. CASE d.claimed = {}
    BY <2>1, <1>0, IdleShape, RemainingNat
  <2>2. CASE d.claimed # {}
    <3>1. /\ e \in DispatcherType /\ e.claimed = d.claimed /\ e.cur = {} /\ e.wait = 0
          /\ e.slack = d.slack
      <4>1. e = [[d EXCEPT !.cur = {}] EXCEPT !.wait = 0] /\ d \in DispatcherType
        BY <2>2, <1>0 DEF Shape
      <4>2. 0 \in 0..Timeout
        BY DEF Timeout
      <4> HIDE DEF e, d
      <4> QED
        BY <4>1, <4>2 DEF DispatcherType
    <3> HIDE DEF e
    <3>2. Held(e) = d.claimed
      BY <3>1 DEF Held
    <3>3. Shape(e)
      BY <3>1, <3>2, <1>0 DEF Shape, Held
    <3>4. Remaining(e) <= Remaining(d)
      BY <3>1, <1>0, RemainingNat DEF Remaining, Timeout
    <3> QED
      BY <3>2, <3>3, <3>4, <1>0 DEF Held
  <2> QED
    BY <2>1, <2>2
<1> HIDE DEF e
<1> QED
  BY <1>1, <1>2

LEMMA OutboxDelivery ==
  ASSUME OutboxInv, NEW g \in Gateways, DeliverySucceeds(g) \/ DeliveryFails(g) PROVE OutboxInv'
<1>1. PICK p \in dispatcher[g].cur :
         /\ received \subseteq received'
         /\ \/ event' = event
            \/ event' = [event EXCEPT ![p[1]].status = "delivered", ![p[1]].timer = 0]
               /\ p[1] \in received'
            \/ event' = Retried(p[1], p[2] + 1)
  BY DEF DeliverySucceeds, DeliveryFails
<1>2. EndDelivery(g) /\ UNCHANGED <<unrouted, cmd, runs, agent>>
  BY DEF DeliverySucceeds, DeliveryFails, config
<1>3. PICK d : /\ dispatcher' = [dispatcher EXCEPT ![g] = d] /\ Shape(d) /\ p \notin Held(d)
               /\ Held(d) \subseteq Held(dispatcher[g])
               /\ Remaining(d) <= Remaining(dispatcher[g])
  BY <1>2, Ended
<1>4. p \in Held(dispatcher[g])
  BY DEF Held
<1> QED
  BY <1>1, <1>2, <1>3, <1>4, Settled

LEMMA OutboxGatewayCrash ==
  ASSUME OutboxInv, NEW g \in Gateways, GatewayCrash(g) PROVE OutboxInv'
<1>1. /\ dispatcher' = [dispatcher EXCEPT ![g] = Idle]
      /\ UNCHANGED <<unrouted, cmd, runs, agent, event, received>>
  BY DEF GatewayCrash, config
<1>2. 0 <= Remaining(dispatcher[g])
  BY RemainingNat DEF OutboxInv, Shapes
<1>3. dispatcher' \in [Gateways -> DispatcherType] /\ Shapes' /\ Leased' /\ Exclusive'
  BY <1>1, <1>2, IdleShape, LetGo
<1>4. OutTypeOK' /\ PendingHasTries' /\ OutboxIsTruthful'
  BY <1>1, <1>3 DEF OutboxInv, OutTypeOK, PendingHasTries, OutboxIsTruthful
<1> QED
  BY <1>3, <1>4 DEF OutboxInv

LEMMA IdsFinite == IsFiniteSet(Ids)
<1>1. IsFiniteSet(1..MaxRuns)
  BY FS_Interval, OutpostAssumption
<1> QED
  BY <1>1, FS_Product, OutpostAssumption DEF Ids

(* A fresh batch: the lease outlasts it. *)
LEMMA OutboxClaimDueEvents ==
  ASSUME OutboxInv, NEW g \in Gateways, ClaimDueEvents(g) PROVE OutboxInv'
<1>0. OutTypeOK /\ Shapes /\ Leased /\ Exclusive /\ PendingHasTries /\ OutboxIsTruthful
  BY DEF OutboxInv
<1>1. PICK xs \in SUBSET Due :
         /\ Cardinality(xs) <= Batch
         /\ event' = [x \in Ids |->
               IF x \in xs THEN [event[x] EXCEPT !.timer = Lease(Cardinality(xs))] ELSE event[x]]
         /\ dispatcher' = [dispatcher EXCEPT ![g] =
               [Idle EXCEPT !.claimed = {<<x, event[x].attempt>> : x \in xs},
                            !.slack = Margin - 1]]
  BY DEF ClaimDueEvents
<1>2. UNCHANGED <<unrouted, cmd, runs, agent, received>>
  BY DEF ClaimDueEvents, config
<1>3. /\ xs \subseteq Ids /\ \A x \in xs : event[x].status = "pending" /\ event[x].timer = 0
  BY DEF Due
<1>4. IsFiniteSet(xs) /\ Cardinality(xs) \in Nat /\ Batch \in Nat /\ Margin \in Nat \ {0}
  BY <1>3, IdsFinite, FS_Subset, FS_CardinalityType, OutpostAssumption
<1> DEFINE L == Batch + Margin
           C == {<<x, event[x].attempt>> : x \in xs}
           d == [Idle EXCEPT !.claimed = C, !.slack = Margin - 1]
<1>5. /\ \A x \in Ids \ xs : event'[x] = event[x]
      /\ \A x \in xs : event'[x] = [event[x] EXCEPT !.timer = L]
  <2>1. Lease(Cardinality(xs)) = L
    BY <1>4 DEF Lease, Timeout
  <2> QED
    BY <2>1, <1>1, <1>3
<1>6. /\ event' \in [Ids -> EventType]
      /\ \A x \in Ids : /\ event'[x].status = event[x].status
                        /\ event'[x].attempt = event[x].attempt
      /\ \A x \in xs : event'[x].timer = L
  <2>1. ASSUME NEW x \in Ids
        PROVE  /\ event'[x] \in EventType /\ event'[x].status = event[x].status
               /\ event'[x].attempt = event[x].attempt
               /\ x \in xs => event'[x].timer = L
    <3>1. event[x] \in EventType /\ L \in Nat
      BY <1>0, <1>4 DEF OutTypeOK
    <3> HIDE DEF L
    <3>2. CASE x \in xs
      BY <3>1, <3>2, <1>5 DEF EventType
    <3>3. CASE x \notin xs
      BY <3>1, <3>3, <1>5
    <3> QED
      BY <3>2, <3>3
  <2>2. event' = [x \in Ids |-> event'[x]]
    BY <1>1
  <2> QED
    BY <2>1, <2>2, <1>3
<1>7. C \subseteq Claims /\ \A p \in C : p[1] \in xs /\ p[2] = event[p[1]].attempt
  <2>1. \A x \in xs : event[x].attempt \in Nat /\ x \in Ids
    BY <1>0, <1>3 DEF OutTypeOK, EventType
  <2> QED
    BY <2>1 DEF Claims
<1>8. IsFiniteSet(C) /\ Cardinality(C) <= Cardinality(xs)
  <2> DEFINE f == [x \in xs |-> <<x, event[x].attempt>>]
  <2>1. f \in Surjection(xs, C)
    BY DEF Surjection
  <2> HIDE DEF f
  <2> QED
    BY <2>1, <1>4, FS_Surjection
<1>9. /\ d \in DispatcherType /\ d.claimed = C /\ d.cur = {} /\ d.wait = 0 /\ d.slack = Margin - 1
  <2>1. /\ Idle \in DispatcherType /\ Idle.cur = {} /\ Idle.wait = 0 /\ Margin - 1 \in Nat
    BY <1>4 DEF Idle, DispatcherType, Timeout
  <2> HIDE DEF C
  <2> QED
    BY <2>1, <1>7 DEF DispatcherType
<1>10. dispatcher' = [dispatcher EXCEPT ![g] = d]
  BY <1>1
<1>11. dispatcher'[g] = d /\ \A h \in Gateways : h # g => dispatcher'[h] = dispatcher[h]
  BY <1>0, <1>10 DEF OutTypeOK
<1>12. dispatcher' \in [Gateways -> DispatcherType]
  BY <1>0, <1>9, <1>10 DEF OutTypeOK
<1> HIDE DEF d, C
<1>13. Held(d) = C /\ Shape(d)
  <2>1. Held(d) = C
    BY <1>9 DEF Held
  <2>2. \A p, q \in C : p[1] = q[1] => p = q
    BY <1>7 DEF Claims
  <2> QED
    BY <2>1, <2>2, <1>8, <1>9 DEF Shape
<1>14. Remaining(d) < L
  <2>1. Cardinality(C) \in Nat
    BY <1>8, FS_CardinalityType
  <2> QED
    BY <2>1, <1>1, <1>4, <1>8, <1>9 DEF Remaining
<1>15. ASSUME NEW h \in Gateways, NEW p \in Held(dispatcher[h])
       PROVE  p[1] \in Ids \ xs
  <2>1. p[1] \in Ids /\ event[p[1]].timer \in Nat
    BY HeldTypes DEF EventType
  <2>2. event[p[1]].timer > Remaining(dispatcher[h]) /\ Remaining(dispatcher[h]) \in Nat
    BY <1>0, RemainingNat DEF Leased, Shapes
  <2> QED
    BY <2>1, <2>2, <1>3
<1>16. Shapes'
  BY <1>0, <1>11, <1>13 DEF Shapes
<1>17. Leased'
  <2>1. ASSUME NEW h \in Gateways, NEW p \in Held(dispatcher'[h])
        PROVE  /\ event'[p[1]].status = "pending"
               /\ event'[p[1]].timer > Remaining(dispatcher'[h])
               /\ p[2] < MaxAttempts
    <3>1. CASE h = g
      <4>1. p \in C /\ p[1] \in xs /\ p[2] = event[p[1]].attempt
        BY <3>1, <1>7, <1>11, <1>13
      <4>2. event[p[1]].attempt < MaxAttempts
        BY <4>1, <1>0, <1>3 DEF PendingHasTries
      <4>3. event'[p[1]].status = "pending" /\ event'[p[1]].timer = L
        BY <4>1, <1>3, <1>6
      <4>4. L \in Nat /\ Remaining(d) \in Nat
        BY <1>4, <1>13, RemainingNat
      <4> QED
        BY <4>1, <4>2, <4>3, <4>4, <3>1, <1>11, <1>14
    <3>2. CASE h # g
      <4>1. p \in Held(dispatcher[h]) /\ dispatcher'[h] = dispatcher[h]
        BY <3>2, <1>11
      <4>2. event'[p[1]] = event[p[1]]
        BY <4>1, <1>5, <1>15
      <4> QED
        BY <4>1, <4>2, <1>0 DEF Leased
    <3> QED
      BY <3>1, <3>2
  <2> QED
    BY <2>1 DEF Leased
<1>18. Exclusive'
  <2>1. ASSUME NEW h \in Gateways, NEW i \in Gateways, NEW p \in Held(dispatcher'[h]),
               NEW q \in Held(dispatcher'[i]), p[1] = q[1]
        PROVE  h = i
    <3>1. CASE h # g /\ i # g
      BY <3>1, <2>1, <1>0, <1>11 DEF Exclusive
    <3>2. CASE h = g /\ i # g
      BY <3>2, <2>1, <1>7, <1>11, <1>13, <1>15
    <3>3. CASE h # g /\ i = g
      BY <3>3, <2>1, <1>7, <1>11, <1>13, <1>15
    <3> QED
      BY <3>1, <3>2, <3>3
  <2> QED
    BY <2>1 DEF Exclusive
<1>19. PendingHasTries' /\ OutboxIsTruthful'
  BY <1>0, <1>2, <1>6 DEF PendingHasTries, OutboxIsTruthful
<1>20. OutTypeOK'
  BY <1>0, <1>2, <1>6, <1>12 DEF OutTypeOK
<1> QED
  BY <1>16, <1>17, <1>18, <1>19, <1>20 DEF OutboxInv

(* A tick of the clock brings every busy dispatcher one tick nearer its end. *)
LEMMA Waited ==
  ASSUME NEW d, Shape(d), d # Idle,
         (d.cur # {} /\ d.wait < Timeout) \/ d.slack > 0
  PROVE  /\ Shape(Wait(d)) /\ Held(Wait(d)) = Held(d)
         /\ Remaining(Wait(d)) = Remaining(d) - 1
<1>0. d \in DispatcherType /\ d.wait \in 0..1 /\ d.slack \in Nat /\ Cardinality(d.claimed) \in Nat
  BY RemainingNat DEF Shape
<1>1. CASE d.cur # {} /\ d.wait < Timeout
  <2> DEFINE e == [d EXCEPT !.wait = d.wait + 1]
  <2>1. Wait(d) = e
    BY <1>1 DEF Wait
  <2>2. d.wait + 1 \in 0..Timeout /\ d.wait = 0
    BY <1>0, <1>1 DEF Timeout
  <2>3. /\ e \in DispatcherType /\ e.claimed = d.claimed /\ e.cur = d.cur /\ e.wait = 1
        /\ e.slack = d.slack
    BY <2>2, <1>0 DEF DispatcherType
  <2> HIDE DEF e
  <2>4. Held(e) = Held(d)
    BY <2>3 DEF Held
  <2>5. Shape(e)
    BY <2>3, <2>4, <1>1 DEF Shape
  <2>6. Remaining(e) = Remaining(d) - 1
    BY <2>2, <2>3, <1>0, <1>1 DEF Remaining, Timeout
  <2> QED
    BY <2>1, <2>4, <2>5, <2>6
<1>2. CASE ~(d.cur # {} /\ d.wait < Timeout)
  <2> DEFINE e == [d EXCEPT !.slack = IF d.slack > 0 THEN d.slack - 1 ELSE 0]
  <2>1. Wait(d) = e
    BY <1>2 DEF Wait
  <2>2. d.slack - 1 \in Nat /\ d.slack > 0
    BY <1>0, <1>2
  <2>3. /\ e \in DispatcherType /\ e.claimed = d.claimed /\ e.cur = d.cur /\ e.wait = d.wait
        /\ e.slack = d.slack - 1
    BY <2>2, <1>0 DEF DispatcherType
  <2> HIDE DEF e
  <2>4. Held(e) = Held(d)
    BY <2>3 DEF Held
  <2>5. Shape(e)
    BY <2>3, <2>4 DEF Shape
  <2>6. Remaining(e) = Remaining(d) - 1
    BY <2>2, <2>3, <1>0 DEF Remaining, Timeout
  <2> QED
    BY <2>1, <2>4, <2>5, <2>6
<1> QED
  BY <1>1, <1>2

LEMMA OutboxTick ==
  ASSUME OutboxInv, Tick PROVE OutboxInv'
<1>0. OutTypeOK /\ Shapes /\ Leased /\ Exclusive /\ PendingHasTries /\ OutboxIsTruthful
  BY DEF OutboxInv
<1>1. /\ \A g \in Gateways : dispatcher'[g] = Wait(dispatcher[g])
      /\ dispatcher' = [g \in Gateways |-> dispatcher'[g]]
      /\ UNCHANGED <<unrouted, cmd, runs, agent, received>>
  BY DEF Tick, config
<1>2. ASSUME NEW g \in Gateways
      PROVE  /\ Shape(dispatcher'[g]) /\ Held(dispatcher'[g]) = Held(dispatcher[g])
             /\ dispatcher[g] # Idle => /\ Remaining(dispatcher'[g]) = Remaining(dispatcher[g]) - 1
                                        /\ Remaining(dispatcher'[g]) \in Nat
  <2>1. CASE dispatcher[g] = Idle
    <3>1. Wait(dispatcher[g]) = Idle
      BY <2>1 DEF Wait
    <3> QED
      BY <3>1, <2>1, <1>1, IdleShape
  <2>2. CASE dispatcher[g] # Idle
    <3>1. Shape(dispatcher[g])
      BY <1>0 DEF Shapes
    <3>2. (dispatcher[g].cur # {} /\ dispatcher[g].wait < Timeout) \/ dispatcher[g].slack > 0
      BY <2>2 DEF Tick, MayWait
    <3> QED
      BY <3>1, <3>2, <2>2, <1>1, Waited, RemainingNat
  <2> QED
    BY <2>1, <2>2
<1>3. dispatcher' \in [Gateways -> DispatcherType] /\ Shapes'
  BY <1>1, <1>2 DEF Shapes, Shape
<1>4. ASSUME NEW x \in Ids
      PROVE  /\ event'[x] \in EventType /\ event'[x].status = event[x].status
             /\ event'[x].attempt = event[x].attempt /\ event'[x].outcome = event[x].outcome
             /\ event[x].timer > 0 => event'[x].timer = event[x].timer - 1
  <2>1. event[x] \in EventType
    BY <1>0 DEF OutTypeOK
  <2> DEFINE t == IF event[x].timer > 0 THEN event[x].timer - 1 ELSE 0
  <2>2. event'[x] = [event[x] EXCEPT !.timer = t]
    BY DEF Tick
  <2>3. t \in Nat /\ (event[x].timer > 0 => t = event[x].timer - 1)
    BY <2>1 DEF EventType
  <2> HIDE DEF t
  <2> QED
    BY <2>1, <2>2, <2>3 DEF EventType
<1>5. event' \in [Ids -> EventType]
  <2>1. event' = [x \in Ids |-> event'[x]]
    BY DEF Tick
  <2> QED
    BY <2>1, <1>4
<1>6. Leased'
  <2>1. ASSUME NEW g \in Gateways, NEW p \in Held(dispatcher'[g])
        PROVE  /\ event'[p[1]].status = "pending"
               /\ event'[p[1]].timer > Remaining(dispatcher'[g])
               /\ p[2] < MaxAttempts
    <3>1. p \in Held(dispatcher[g]) /\ dispatcher[g] # Idle
      BY <1>2, IdleShape
    <3>2. /\ p[1] \in Ids /\ p[2] < MaxAttempts /\ event[p[1]].status = "pending"
          /\ event[p[1]] \in EventType
      BY <3>1, HeldTypes
    <3>3. event[p[1]].timer > Remaining(dispatcher[g]) /\ event[p[1]].timer \in Nat
      BY <3>1, <3>2, <1>0 DEF Leased, EventType
    <3>4. Remaining(dispatcher[g]) \in Nat
      BY <1>0, RemainingNat DEF Shapes
    <3>5. /\ Remaining(dispatcher'[g]) = Remaining(dispatcher[g]) - 1
          /\ Remaining(dispatcher'[g]) \in Nat
      BY <3>1, <1>2
    <3> QED
      BY <3>2, <3>3, <3>4, <3>5, <1>4
  <2> QED
    BY <2>1 DEF Leased
<1>7. Exclusive'
  BY <1>0, <1>2 DEF Exclusive
<1>8. PendingHasTries' /\ OutboxIsTruthful'
  BY <1>0, <1>1, <1>4 DEF PendingHasTries, OutboxIsTruthful
<1>9. OutTypeOK'
  BY <1>0, <1>1, <1>3, <1>5 DEF OutTypeOK
<1> QED
  BY <1>3, <1>6, <1>7, <1>8, <1>9 DEF OutboxInv

(* The agents and the command queue leave the outbox alone, but for new events. *)
LEMMA OutboxAside ==
  ASSUME OutboxInv, OutTypeOK', UNCHANGED <<unrouted, dispatcher, received>>,
         \A x \in Ids : \/ event'[x] = event[x]
                        \/ /\ event[x].status = "none"
                           /\ event'[x].status = "pending" /\ event'[x].attempt = 0
  PROVE  OutboxInv'
<1>0. OutTypeOK /\ Shapes /\ Leased /\ Exclusive /\ PendingHasTries /\ OutboxIsTruthful
  BY DEF OutboxInv
<1>1. Shapes' /\ Exclusive'
  BY <1>0 DEF Shapes, Exclusive
<1>2. Leased'
  <2>1. ASSUME NEW g \in Gateways, NEW p \in Held(dispatcher[g]) PROVE event'[p[1]] = event[p[1]]
    BY HeldTypes
  <2> QED
    BY <2>1, <1>0 DEF Leased
<1>3. PendingHasTries' /\ OutboxIsTruthful'
  BY <1>0, OutpostAssumption DEF PendingHasTries, OutboxIsTruthful
<1> QED
  BY <1>1, <1>2, <1>3 DEF OutboxInv

---------------------------------------------------------------------------
(* Commands and their results *)

Reports(a) == agent[a].pc \in {"post", "ack"}

(* An agent that reports has one execution in hand, numbered when it began. *)
Working ==
    \A a \in Agents : Reports(a) =>
        /\ agent[a].outcome \in {"done", "failed"}
        /\ \E x \in Ids : agent[a].cur = {x} /\ x[2] <= runs[x[1]]

(* No two agents report the same execution: a redelivered command is run   *)
(* under a number of its own.                                              *)
OwnRuns ==
    \A a, b \in Agents : Reports(a) /\ Reports(b) /\ agent[a].cur = agent[b].cur => a = b

(* An event belongs to an execution that has begun. *)
EventsRan ==
    \A x \in Ids : /\ event[x].status # "none" => x[2] <= runs[x[1]]
                   /\ event[x].status = "none" => event[x].outcome = "none"

(* What was stored for the execution in hand is what its agent reports ... *)
OwnResult ==
    \A a \in Agents : \A x \in Ids : Reports(a) /\ agent[a].cur = {x} =>
        (event[x].status # "none" => event[x].outcome = agent[a].outcome)

(* ... and it is stored before the agent acknowledges. *)
StoredBeforeAck ==
    \A a \in Agents : \A x \in Ids :
        agent[a].pc = "ack" /\ agent[a].cur = {x} /\ x[1] \notin noModule =>
            event[x].status # "none"

CommandInv ==
    /\ Working /\ OwnRuns /\ EventsRan /\ OwnResult /\ StoredBeforeAck /\ ResultBeforeAck

LEMMA InitCommandInv == Init => CommandInv
<1> SUFFICES ASSUME Init PROVE CommandInv
  OBVIOUS
<1>1. \A a \in Agents : agent[a].pc = "poll"
  BY DEF Init, Polling
<1>2. \A x \in Ids : event[x].status = "none" /\ event[x].outcome = "none"
  BY DEF Init, NoEvent
<1>3. \A c \in Commands : cmd[c].status = "none"
  BY DEF Init
<1> QED
  BY <1>1, <1>2, <1>3 DEF CommandInv, Working, OwnRuns, EventsRan, OwnResult, StoredBeforeAck,
     ResultBeforeAck, Reports

(* Steps in which agents at most stop reporting and events keep their      *)
(* outcomes.                                                               *)
LEMMA CommandAside ==
  ASSUME CommandInv, UNCHANGED <<noModule, runs>>,
         \A a \in Agents : agent'[a] = agent[a] \/ agent'[a].pc \in {"poll", "loop"},
         \A x \in Ids : /\ event'[x].outcome = event[x].outcome
                        /\ event'[x].status = "none" <=> event[x].status = "none",
         \A c \in Commands : \/ cmd'[c].status \in {cmd[c].status, "pending", "claimed"}
                             \/ c \in noModule
                             \/ \E k \in 1..MaxRuns : event[<<c, k>>].outcome = cmd'[c].status
  PROVE  CommandInv'
<1>0. Working /\ OwnRuns /\ EventsRan /\ OwnResult /\ StoredBeforeAck /\ ResultBeforeAck
  BY DEF CommandInv
<1>1. \A a \in Agents : Reports(a)' => Reports(a) /\ agent'[a] = agent[a]
  BY DEF Reports
<1>2. Working' /\ OwnRuns' /\ EventsRan'
  BY <1>0, <1>1 DEF Working, OwnRuns, EventsRan
<1>3. OwnResult'
  BY <1>0, <1>1 DEF OwnResult
<1>4. StoredBeforeAck'
  BY <1>0 DEF StoredBeforeAck
<1>5. ResultBeforeAck'
  <2>1. ASSUME NEW c \in Commands \ noModule, cmd'[c].status \in {"done", "failed"}
        PROVE  \E k \in 1..MaxRuns : event'[<<c, k>>].outcome = cmd'[c].status
    <3>1. PICK k \in 1..MaxRuns : event[<<c, k>>].outcome = cmd'[c].status
      BY <2>1, <1>0 DEF ResultBeforeAck
    <3>2. <<c, k>> \in Ids
      BY DEF Ids
    <3> QED
      BY <3>1, <3>2
  <2> QED
    BY <2>1 DEF ResultBeforeAck
<1> QED
  BY <1>2, <1>3, <1>4, <1>5 DEF CommandInv

(* An agent that goes on to the next command of its batch. *)
LEMMA WentOn ==
  ASSUME OutTypeOK, NEW a \in Agents, NextCommand(a)
  PROVE  /\ agent' \in [Agents -> AgentType]
         /\ agent'[a].pc \in {"poll", "loop"}
         /\ \A b \in Agents : b # a => agent'[b] = agent[b]
<1> DEFINE v == IF agent[a].batch = {} THEN Polling
                ELSE [Polling EXCEPT !.pc = "loop", !.batch = agent[a].batch]
<1>0. Polling \in AgentType /\ agent[a].batch \in SUBSET Commands /\ Polling.pc = "poll"
  BY DEF Polling, AgentType, OutTypeOK, Outcomes
<1>1. v \in AgentType /\ v.pc \in {"poll", "loop"}
  BY <1>0 DEF AgentType
<1>2. agent' = [agent EXCEPT ![a] = v]
  BY DEF NextCommand
<1> HIDE DEF v
<1> QED
  BY <1>1, <1>2 DEF OutTypeOK

OutInv == OutboxInv /\ CommandInv

(* Steps outside the outbox that store no event. *)
LEMMA OutAside ==
  ASSUME OutInv, OutTypeOK', UNCHANGED <<noModule, unrouted, runs, event, dispatcher, received>>,
         \A a \in Agents : agent'[a] = agent[a] \/ agent'[a].pc \in {"poll", "loop"},
         \A c \in Commands : \/ cmd'[c].status \in {cmd[c].status, "pending", "claimed"}
                             \/ c \in noModule
                             \/ \E k \in 1..MaxRuns : event[<<c, k>>].outcome = cmd'[c].status
  PROVE  OutInv'
<1>1. OutboxInv'
  BY OutboxAside DEF OutInv
<1>2. CommandInv'
  BY CommandAside DEF OutInv
<1> QED
  BY <1>1, <1>2 DEF OutInv

LEMMA OutQueue ==
  ASSUME OutInv,
         \/ \E c \in Commands : Enqueue(c) \/ LeaseLapses(c)
         \/ DeleteOutpost
         \/ \E a \in Agents : PollCommands(a) \/ AgentCrash(a)
  PROVE  OutInv'
<1>0. OutTypeOK
  BY DEF OutInv, OutboxInv
<1>1. UNCHANGED <<noModule, unrouted, runs, event, dispatcher, received>>
  BY DEF Enqueue, LeaseLapses, DeleteOutpost, PollCommands, AgentCrash, config
<1>2. /\ cmd' \in [Commands -> [status : {"none", "pending", "claimed", "done", "failed"},
                               lapsed : BOOLEAN]]
      /\ \A c \in Commands : cmd'[c].status \in {cmd[c].status, "pending", "claimed"}
  <2>1. CASE cmd' = cmd
    BY <2>1, <1>0 DEF OutTypeOK
  <2>2. ASSUME NEW c \in Commands, Enqueue(c) \/ LeaseLapses(c)
        PROVE  /\ cmd' \in [Commands -> [status : {"none", "pending", "claimed", "done", "failed"},
                                         lapsed : BOOLEAN]]
               /\ \A e \in Commands : cmd'[e].status \in {cmd[e].status, "pending", "claimed"}
    <3> DEFINE Rows == [status : {"none", "pending", "claimed", "done", "failed"},
                        lapsed : BOOLEAN]
    <3>1. PICK row \in Rows : /\ cmd' = [cmd EXCEPT ![c] = row]
                              /\ row.status \in {cmd[c].status, "pending"}
      <4>1. cmd[c] \in Rows
        BY <1>0 DEF OutTypeOK
      <4>2. CASE Enqueue(c)
        <5> DEFINE row == [cmd[c] EXCEPT !.status = "pending"]
        <5>1. row \in Rows /\ row.status = "pending"
          BY <4>1
        <5>2. cmd' = [cmd EXCEPT ![c] = row]
          BY <4>2 DEF Enqueue
        <5> QED
          BY <5>1, <5>2
      <4>3. CASE LeaseLapses(c)
        <5> DEFINE row == [cmd[c] EXCEPT !.lapsed = TRUE]
        <5>1. row \in Rows /\ row.status = cmd[c].status
          BY <4>1
        <5>2. cmd' = [cmd EXCEPT ![c] = row]
          BY <4>3 DEF LeaseLapses
        <5> QED
          BY <5>1, <5>2
      <4> QED
        BY <2>2, <4>2, <4>3
    <3> QED
      BY <3>1, <1>0 DEF OutTypeOK
  <2>3. ASSUME NEW a \in Agents, PollCommands(a)
        PROVE  /\ cmd' \in [Commands -> [status : {"none", "pending", "claimed", "done", "failed"},
                                         lapsed : BOOLEAN]]
               /\ \A e \in Commands : cmd'[e].status \in {cmd[e].status, "pending", "claimed"}
    <3> DEFINE batch == {c \in Commands : Deliverable(c)}
    <3>1. cmd' = [c \in Commands |->
                    IF c \in batch THEN [status |-> "claimed", lapsed |-> FALSE] ELSE cmd[c]]
      BY <2>3 DEF PollCommands
    <3> HIDE DEF batch
    <3> DEFINE taken == [status |-> "claimed", lapsed |-> FALSE]
               Rows == [status : {"none", "pending", "claimed", "done", "failed"},
                        lapsed : BOOLEAN]
    <3>2. taken \in Rows /\ taken.status = "claimed"
      OBVIOUS
    <3>3. cmd \in [Commands -> Rows]
      BY <1>0 DEF OutTypeOK
    <3>4. cmd' = [c \in Commands |-> IF c \in batch THEN taken ELSE cmd[c]]
      BY <3>1
    <3> HIDE DEF taken, Rows
    <3>5. cmd' \in [Commands -> Rows]
      BY <3>2, <3>3, <3>4
    <3>6. ASSUME NEW e \in Commands PROVE cmd'[e].status \in {cmd[e].status, "pending", "claimed"}
      <4>1. cmd'[e] = taken \/ cmd'[e] = cmd[e]
        BY <3>4
      <4> QED
        BY <4>1, <3>2
    <3> QED
      BY <3>5, <3>6 DEF Rows
  <2> QED
    BY <2>1, <2>2, <2>3 DEF DeleteOutpost, AgentCrash
<1>3. /\ agent' \in [Agents -> AgentType]
      /\ \A a \in Agents : agent'[a] = agent[a] \/ agent'[a].pc \in {"poll", "loop"}
  <2>1. CASE agent' = agent
    BY <2>1, <1>0 DEF OutTypeOK
  <2>2. ASSUME NEW a \in Agents, AgentCrash(a)
        PROVE  /\ agent' \in [Agents -> AgentType]
               /\ \A b \in Agents : agent'[b] = agent[b] \/ agent'[b].pc \in {"poll", "loop"}
    <3>1. Polling \in AgentType /\ Polling.pc = "poll"
      BY DEF Polling, AgentType, Outcomes
    <3> QED
      BY <3>1, <2>2, <1>0 DEF AgentCrash, OutTypeOK
  <2>3. ASSUME NEW a \in Agents, PollCommands(a), agent' # agent
        PROVE  /\ agent' \in [Agents -> AgentType]
               /\ \A b \in Agents : agent'[b] = agent[b] \/ agent'[b].pc \in {"poll", "loop"}
    <3> DEFINE batch == {c \in Commands : Deliverable(c)}
    <3>1. agent' = [agent EXCEPT ![a].pc = "loop", ![a].batch = batch] /\ batch \in SUBSET Commands
      BY <2>3 DEF PollCommands
    <3> HIDE DEF batch
    <3> DEFINE v == [[agent[a] EXCEPT !.pc = "loop"] EXCEPT !.batch = batch]
    <3>2. v \in AgentType /\ v.pc = "loop"
      BY <3>1, <1>0 DEF OutTypeOK, AgentType
    <3>3. agent' = [agent EXCEPT ![a] = v]
      BY <3>1, <1>0 DEF OutTypeOK
    <3> HIDE DEF v
    <3> QED
      BY <3>2, <3>3, <1>0 DEF OutTypeOK
  <2> QED
    BY <2>1, <2>2, <2>3 DEF Enqueue, LeaseLapses, DeleteOutpost
<1>4. OutTypeOK'
  BY <1>0, <1>1, <1>2, <1>3 DEF OutTypeOK
<1> QED
  BY <1>1, <1>2, <1>3, <1>4, OutAside

(* An execution gets a number nobody has used. *)
LEMMA OutExecute ==
  ASSUME OutInv, NEW a \in Agents, NEW c \in agent[a].batch, NEW o \in {"done", "failed"},
         Execute(a, c, o)
  PROVE  OutInv'
<1>0. OutTypeOK /\ Working /\ OwnRuns /\ EventsRan /\ OwnResult /\ StoredBeforeAck
      /\ ResultBeforeAck
  BY DEF OutInv, OutboxInv, CommandInv
<1>1. /\ runs[c] < MaxRuns /\ runs' = [runs EXCEPT ![c] = @ + 1]
      /\ UNCHANGED <<noModule, unrouted, cmd, event, dispatcher, received>>
  BY DEF Execute, config
<1>2. c \in Commands /\ runs[c] \in Nat /\ MaxRuns \in Nat /\ agent[a] \in AgentType
  BY <1>0, OutpostAssumption DEF OutTypeOK, AgentType
<1> DEFINE x == <<c, runs[c] + 1>>
           v == [pc |-> FirstStep(c), batch |-> agent[a].batch \ {c}, cur |-> {x},
                 outcome |-> o, posts |-> 0]
<1>3. x \in Ids /\ x[1] = c /\ x[2] = runs[c] + 1
  BY <1>1, <1>2 DEF Ids
<1>4. agent' = [agent EXCEPT ![a] = v]
  BY DEF Execute
<1>5. v \in AgentType /\ v.pc \in {"post", "ack"} /\ v.cur = {x} /\ v.outcome = o
      /\ (v.pc = "ack" => c \in noModule)
  <2>1. FirstStep(c) \in {"post", "ack"} /\ (FirstStep(c) = "ack" => c \in noModule)
    BY DEF FirstStep
  <2>2. agent[a].batch \ {c} \in SUBSET Commands /\ {x} \in SUBSET Ids
    BY <1>2, <1>3 DEF AgentType
  <2> QED
    BY <2>1, <2>2 DEF AgentType, Outcomes
<1> HIDE DEF v
<1>6. /\ agent' \in [Agents -> AgentType] /\ agent'[a] = v
      /\ \A b \in Agents : b # a => agent'[b] = agent[b]
  BY <1>0, <1>4, <1>5 DEF OutTypeOK
<1>7. /\ runs' \in [Commands -> 0..MaxRuns] /\ runs'[c] = runs[c] + 1
      /\ \A e \in Commands : runs[e] <= runs'[e] /\ runs[e] \in Nat /\ runs'[e] \in Nat
  BY <1>0, <1>1, <1>2 DEF OutTypeOK
<1>8. \A y \in Ids : y[1] \in Commands /\ y[2] \in Nat
  BY OutpostAssumption DEF Ids
<1>9. OutTypeOK'
  BY <1>0, <1>1, <1>6, <1>7 DEF OutTypeOK
<1>10. OutboxInv'
  BY <1>1, <1>9, OutboxAside DEF OutInv
<1>11. event[x].status = "none"
  BY <1>0, <1>2, <1>3 DEF EventsRan
<1>12. \A b \in Agents : Reports(b) => agent[b].cur # {x}
  <2>1. ASSUME NEW b \in Agents, Reports(b), agent[b].cur = {x} PROVE FALSE
    <3>1. PICK y \in Ids : agent[b].cur = {y} /\ y[2] <= runs[y[1]]
      BY <2>1, <1>0 DEF Working
    <3>2. y = x
      BY <3>1, <2>1
    <3> QED
      BY <3>1, <3>2, <1>2, <1>3
  <2> QED
    BY <2>1
<1>13. \A b \in Agents : b # a => (Reports(b)' <=> Reports(b))
  BY <1>6 DEF Reports
<1> HIDE DEF x
<1>14. Working'
  <2>1. ASSUME NEW b \in Agents, Reports(b)'
        PROVE  /\ agent'[b].outcome \in {"done", "failed"}
               /\ \E y \in Ids : agent'[b].cur = {y} /\ y[2] <= runs'[y[1]]
    <3>1. CASE b = a
      BY <3>1, <1>2, <1>3, <1>5, <1>6, <1>7
    <3>2. CASE b # a
      <4>1. Reports(b) /\ agent'[b] = agent[b]
        BY <3>2, <2>1, <1>6, <1>13
      <4>2. PICK y \in Ids : agent[b].cur = {y} /\ y[2] <= runs[y[1]]
        BY <4>1, <1>0 DEF Working
      <4>3. y[2] <= runs'[y[1]]
        BY <4>2, <1>7, <1>8
      <4> QED
        BY <4>1, <4>2, <4>3, <1>0 DEF Working
    <3> QED
      BY <3>1, <3>2
  <2> QED
    BY <2>1 DEF Working
<1>15. OwnRuns'
  BY <1>0, <1>5, <1>6, <1>12, <1>13 DEF OwnRuns
<1>16. EventsRan'
  <2>1. ASSUME NEW y \in Ids, event[y].status # "none" PROVE y[2] <= runs'[y[1]]
    <3>1. y[2] <= runs[y[1]]
      BY <2>1, <1>0 DEF EventsRan
    <3> QED
      BY <3>1, <1>7, <1>8
  <2> QED
    BY <2>1, <1>0, <1>1 DEF EventsRan
<1>17. OwnResult'
  <2>1. ASSUME NEW b \in Agents, NEW y \in Ids, Reports(b)', agent'[b].cur = {y},
               event[y].status # "none"
        PROVE  event[y].outcome = agent'[b].outcome
    <3>1. CASE b = a
      BY <3>1, <2>1, <1>5, <1>6, <1>11
    <3>2. CASE b # a
      BY <3>2, <2>1, <1>0, <1>6, <1>13 DEF OwnResult
    <3> QED
      BY <3>1, <3>2
  <2> QED
    BY <2>1, <1>1 DEF OwnResult
<1>18. StoredBeforeAck'
  <2>1. ASSUME NEW b \in Agents, NEW y \in Ids, agent'[b].pc = "ack", agent'[b].cur = {y},
               y[1] \notin noModule
        PROVE  event[y].status # "none"
    <3>1. CASE b = a
      BY <3>1, <2>1, <1>3, <1>5, <1>6
    <3>2. CASE b # a
      BY <3>2, <2>1, <1>0, <1>6 DEF StoredBeforeAck
    <3> QED
      BY <3>1, <3>2
  <2> QED
    BY <2>1, <1>1 DEF StoredBeforeAck
<1>19. ResultBeforeAck'
  BY <1>0, <1>1 DEF ResultBeforeAck
<1> QED
  BY <1>10, <1>14, <1>15, <1>16, <1>17, <1>18, <1>19 DEF OutInv, CommandInv

(* The agent's current execution. *)
LEMMA CurIs ==
  ASSUME NEW a \in Agents, NEW x, agent[a].cur = {x} PROVE Cur(a) = x
  BY DEF Cur

(* addEvent stores what agent a reports, once. *)
LEMMA OutInsert ==
  ASSUME OutInv, NEW a \in Agents, Reports(a), NEW x \in Ids, agent[a].cur = {x},
         event' = event \/ event' = Insert(x, agent[a].outcome),
         agent' \in [Agents -> AgentType],
         \A b \in Agents : b # a => agent'[b] = agent[b],
         \/ agent'[a].pc \in {"poll", "loop"}
         \/ /\ agent'[a].pc \in {"post", "ack"}
            /\ agent'[a].cur = {x} /\ agent'[a].outcome = agent[a].outcome,
         agent'[a].pc = "ack" => event' = Insert(x, agent[a].outcome),
         UNCHANGED <<noModule, unrouted, cmd, runs, dispatcher, received>>
  PROVE  OutInv'
<1>0. OutTypeOK /\ Working /\ OwnRuns /\ EventsRan /\ OwnResult /\ StoredBeforeAck
      /\ ResultBeforeAck
  BY DEF OutInv, OutboxInv, CommandInv
<1> DEFINE o == agent[a].outcome
<1>1. o \in {"done", "failed"} /\ x[2] <= runs[x[1]]
  BY <1>0 DEF Working
<1> HIDE DEF o
<1>2. /\ event' \in [Ids -> EventType]
      /\ \A y \in Ids : \/ event'[y] = event[y]
                        \/ /\ y = x /\ event[y].status = "none" /\ event'[y].status = "pending"
                           /\ event'[y].attempt = 0 /\ event'[y].outcome = o
      /\ event' = Insert(x, o) => event'[x].status # "none"
  <2>1. CASE event' = event /\ event' # Insert(x, o)
    BY <2>1, <1>0 DEF OutTypeOK
  <2>2. CASE event' = Insert(x, o) /\ event[x].status # "none"
    BY <2>2, <1>0 DEF OutTypeOK, Insert
  <2>3. CASE event' = Insert(x, o) /\ event[x].status = "none"
    <3> DEFINE v == [status |-> "pending", outcome |-> o, attempt |-> 0, timer |-> 0]
    <3>1. v \in EventType /\ v.status = "pending" /\ v.attempt = 0 /\ v.outcome = o
      BY <1>1 DEF EventType, Outcomes
    <3>2. event' = [event EXCEPT ![x] = v]
      BY <2>3 DEF Insert
    <3> HIDE DEF v
    <3> QED
      BY <3>1, <3>2, <2>3, <1>0 DEF OutTypeOK
  <2> QED
    BY <2>1, <2>2, <2>3 DEF o
<1>3. OutTypeOK'
  BY <1>0, <1>2 DEF OutTypeOK
<1>4. OutboxInv'
  BY <1>2, <1>3, OutboxAside DEF OutInv
<1>5. \A b \in Agents : Reports(b)' => /\ Reports(b) /\ agent'[b].cur = agent[b].cur
                                       /\ agent'[b].outcome = agent[b].outcome
  BY DEF Reports
<1>6. Working' /\ OwnRuns'
  BY <1>0, <1>5 DEF Working, OwnRuns
<1>7. EventsRan'
  BY <1>0, <1>1, <1>2 DEF EventsRan
<1>8. OwnResult'
  <2>1. ASSUME NEW b \in Agents, NEW y \in Ids, Reports(b)', agent'[b].cur = {y},
               event'[y].status # "none"
        PROVE  event'[y].outcome = agent'[b].outcome
    <3>1. Reports(b) /\ agent[b].cur = {y} /\ agent'[b].outcome = agent[b].outcome
      BY <2>1, <1>5
    <3>2. CASE event'[y] = event[y]
      BY <3>1, <3>2, <2>1, <1>0 DEF OwnResult
    <3>3. CASE y = x /\ event'[y].outcome = o
      <4>1. b = a
        BY <3>1, <3>3, <1>0 DEF OwnRuns
      <4> QED
        BY <4>1, <3>1, <3>3 DEF o
    <3> QED
      BY <3>2, <3>3, <1>2
  <2> QED
    BY <2>1 DEF OwnResult
<1>9. StoredBeforeAck'
  <2>1. ASSUME NEW b \in Agents, NEW y \in Ids, agent'[b].pc = "ack", agent'[b].cur = {y},
               y[1] \notin noModule
        PROVE  event'[y].status # "none"
    <3>1. CASE b = a
      <4>1. y = x /\ event' = Insert(x, o)
        BY <3>1, <2>1 DEF o
      <4> QED
        BY <4>1, <1>2
    <3>2. CASE b # a
      BY <3>2, <2>1, <1>0, <1>2 DEF StoredBeforeAck
    <3> QED
      BY <3>1, <3>2
  <2> QED
    BY <2>1 DEF StoredBeforeAck
<1>10. ResultBeforeAck'
  <2>1. ASSUME NEW c \in Commands \ noModule, cmd[c].status \in {"done", "failed"}
        PROVE  \E k \in 1..MaxRuns : event'[<<c, k>>].outcome = cmd[c].status
    <3>1. PICK k \in 1..MaxRuns : event[<<c, k>>].outcome = cmd[c].status
      BY <2>1, <1>0 DEF ResultBeforeAck
    <3>2. <<c, k>> \in Ids
      BY DEF Ids
    <3>3. event[<<c, k>>].status # "none"
      BY <3>1, <3>2, <2>1, <1>0 DEF EventsRan
    <3> QED
      BY <3>1, <3>2, <3>3, <1>2
  <2> QED
    BY <2>1 DEF ResultBeforeAck
<1> QED
  BY <1>4, <1>6, <1>7, <1>8, <1>9, <1>10 DEF OutInv, CommandInv

LEMMA OutPostEvent ==
  ASSUME OutInv, NEW a \in Agents, PostEvent(a) PROVE OutInv'
<1>0. OutTypeOK /\ Working /\ agent[a] \in AgentType
  BY DEF OutInv, OutboxInv, CommandInv, OutTypeOK
<1>1. Reports(a) /\ agent[a].pc = "post"
  BY DEF PostEvent, Reports
<1>2. PICK x \in Ids : agent[a].cur = {x}
  BY <1>0, <1>1 DEF Working
<1>3. Cur(a) = x /\ UNCHANGED <<noModule, unrouted, cmd, runs, dispatcher, received>>
  BY <1>2, CurIs DEF PostEvent, config
<1>4. \/ event' = Insert(x, agent[a].outcome) /\ agent' = [agent EXCEPT ![a].pc = "ack"]
      \/ /\ event' = event \/ event' = Insert(x, agent[a].outcome)
         /\ agent' = [agent EXCEPT ![a].posts = @ + 1] \/ NextCommand(a)
  BY <1>3 DEF PostEvent
<1>5. CASE event' = Insert(x, agent[a].outcome) /\ agent' = [agent EXCEPT ![a].pc = "ack"]
  <2>1. /\ agent' \in [Agents -> AgentType] /\ agent'[a].pc = "ack"
        /\ agent'[a].cur = {x} /\ agent'[a].outcome = agent[a].outcome
        /\ \A b \in Agents : b # a => agent'[b] = agent[b]
    BY <1>0, <1>2, <1>5 DEF OutTypeOK, AgentType
  <2> QED
    BY <2>1, <1>1, <1>2, <1>3, <1>5, OutInsert
<1>6. CASE /\ event' = event \/ event' = Insert(x, agent[a].outcome)
           /\ agent' = [agent EXCEPT ![a].posts = @ + 1]
  <2>1. /\ agent' \in [Agents -> AgentType] /\ agent'[a].pc = "post"
        /\ agent'[a].cur = {x} /\ agent'[a].outcome = agent[a].outcome
        /\ \A b \in Agents : b # a => agent'[b] = agent[b]
    <3>1. agent[a].posts + 1 \in Nat
      BY <1>0 DEF AgentType
    <3>2. [agent[a] EXCEPT !.posts = @ + 1] \in AgentType
      BY <1>0, <3>1 DEF AgentType
    <3>3. agent' = [agent EXCEPT ![a] = [agent[a] EXCEPT !.posts = @ + 1]]
      BY <1>6
    <3>4. agent \in [Agents -> AgentType]
      BY <1>0 DEF OutTypeOK
    <3>5. /\ agent' \in [Agents -> AgentType]
          /\ agent'[a] = [agent[a] EXCEPT !.posts = @ + 1]
          /\ \A b \in Agents : b # a => agent'[b] = agent[b]
      BY <3>2, <3>3, <3>4
    <3> QED
      BY <1>0, <1>1, <1>2, <3>5 DEF AgentType
  <2> QED
    BY <2>1, <1>1, <1>2, <1>3, <1>6, OutInsert
<1>7. CASE /\ event' = event \/ event' = Insert(x, agent[a].outcome)
           /\ NextCommand(a)
  <2>1. /\ agent' \in [Agents -> AgentType] /\ agent'[a].pc \in {"poll", "loop"}
        /\ \A b \in Agents : b # a => agent'[b] = agent[b]
    BY <1>0, <1>7, WentOn
  <2> QED
    BY <2>1, <1>1, <1>2, <1>3, <1>7, OutInsert
<1> QED
  BY <1>4, <1>5, <1>6, <1>7

LEMMA OutAckCommand ==
  ASSUME OutInv, NEW a \in Agents, AckCommand(a) PROVE OutInv'
<1>0. OutTypeOK /\ Working /\ OwnResult /\ StoredBeforeAck
  BY DEF OutInv, OutboxInv, CommandInv
<1>1. Reports(a) /\ agent[a].pc = "ack" /\ NextCommand(a)
      /\ UNCHANGED <<noModule, unrouted, runs, event, dispatcher, received>>
  BY DEF AckCommand, Reports, config
<1>2. PICK x \in Ids : agent[a].cur = {x}
  BY <1>0, <1>1 DEF Working
<1>3. Cur(a) = x /\ x[1] \in Commands /\ x[2] \in 1..MaxRuns /\ x = <<x[1], x[2]>>
  BY <1>2, CurIs DEF Ids
<1>4. agent[a].outcome \in {"done", "failed"}
  BY <1>0, <1>1 DEF Working
<1>5. cmd' = cmd \/ cmd' = [cmd EXCEPT ![x[1]].status = agent[a].outcome]
  BY <1>3 DEF AckCommand
<1>6. /\ cmd' \in [Commands -> [status : {"none", "pending", "claimed", "done", "failed"},
                               lapsed : BOOLEAN]]
      /\ \A c \in Commands : \/ cmd'[c].status = cmd[c].status
                             \/ c = x[1] /\ cmd'[c].status = agent[a].outcome
  <2>1. CASE cmd' = cmd
    BY <1>0, <2>1 DEF OutTypeOK
  <2>2. CASE cmd' = [cmd EXCEPT ![x[1]].status = agent[a].outcome]
    <3> DEFINE c0 == x[1]
               o == agent[a].outcome
               v == [cmd[c0] EXCEPT !.status = o]
    <3>1. c0 \in Commands /\ o \in {"done", "failed"} /\ cmd' = [cmd EXCEPT ![c0] = v]
      BY <1>3, <1>4, <2>2
    <3>2. /\ cmd[c0] \in [status : {"none", "pending", "claimed", "done", "failed"}, lapsed : BOOLEAN]
          /\ cmd \in [Commands -> [status : {"none", "pending", "claimed", "done", "failed"},
                                   lapsed : BOOLEAN]]
      BY <1>0, <3>1 DEF OutTypeOK
    <3> HIDE DEF c0, o
    <3>3. /\ v \in [status : {"none", "pending", "claimed", "done", "failed"}, lapsed : BOOLEAN]
          /\ v.status = o
      BY <3>1, <3>2
    <3> HIDE DEF v
    <3>4. /\ cmd' \in [Commands -> [status : {"none", "pending", "claimed", "done", "failed"},
                                    lapsed : BOOLEAN]]
          /\ cmd'[c0] = v /\ \A c \in Commands : c # c0 => cmd'[c] = cmd[c]
      BY <3>1, <3>2, <3>3
    <3> QED
      BY <3>3, <3>4 DEF c0, o
  <2> QED
    BY <1>5, <2>1, <2>2
<1>7. /\ agent' \in [Agents -> AgentType] /\ agent'[a].pc \in {"poll", "loop"}
      /\ \A b \in Agents : b # a => agent'[b] = agent[b]
  BY <1>0, <1>1, WentOn
<1>8. x[1] \in noModule \/ event[<<x[1], x[2]>>].outcome = agent[a].outcome
  BY <1>0, <1>1, <1>2, <1>3 DEF OwnResult, StoredBeforeAck
<1>9. \A c \in Commands : \/ cmd'[c].status \in {cmd[c].status, "pending", "claimed"}
                          \/ c \in noModule
                          \/ \E k \in 1..MaxRuns : event[<<c, k>>].outcome = cmd'[c].status
  BY <1>3, <1>6, <1>8
<1>10. OutTypeOK'
  BY <1>0, <1>1, <1>6, <1>7 DEF OutTypeOK
<1> QED
  BY <1>1, <1>7, <1>9, <1>10, OutAside

(* The dispatchers change no outcome. *)
LEMMA OutDispatch ==
  ASSUME OutInv, OutboxInv',
         \/ \E g \in Gateways : ClaimDueEvents(g) \/ Dispatch(g) \/ GatewayCrash(g)
         \/ Tick
  PROVE  OutInv'
<1>0. OutTypeOK /\ OutboxInv /\ CommandInv
  BY DEF OutInv, OutboxInv
<1>1. UNCHANGED <<noModule, runs, agent, cmd>>
  BY DEF ClaimDueEvents, Dispatch, BeginDelivery, DeliverySucceeds, DeliveryFails, GatewayCrash,
     Tick, config
<1>2. ASSUME NEW y \in Ids
      PROVE  /\ event'[y].outcome = event[y].outcome
             /\ event'[y].status = "none" <=> event[y].status = "none"
  <2>0. event[y] \in EventType
    BY <1>0 DEF OutTypeOK
  <2>1. CASE event' = event
    BY <2>1
  <2>2. CASE Tick
    <3> DEFINE t == IF event[y].timer > 0 THEN event[y].timer - 1 ELSE 0
    <3>1. event'[y] = [event[y] EXCEPT !.timer = t]
      BY <2>2 DEF Tick
    <3> HIDE DEF t
    <3> QED
      BY <3>1, <2>0 DEF EventType
  <2>3. ASSUME NEW g \in Gateways, ClaimDueEvents(g)
        PROVE  /\ event'[y].outcome = event[y].outcome
               /\ event'[y].status = "none" <=> event[y].status = "none"
    <3>1. PICK xs \in SUBSET Due :
             event' = [x \in Ids |->
               IF x \in xs THEN [event[x] EXCEPT !.timer = Lease(Cardinality(xs))] ELSE event[x]]
      BY <2>3 DEF ClaimDueEvents
    <3>2. event'[y] = event[y] \/ event'[y] = [event[y] EXCEPT !.timer = Lease(Cardinality(xs))]
      BY <3>1
    <3> QED
      BY <3>2, <2>0 DEF EventType
  <2>4. ASSUME NEW g \in Gateways, NEW p \in Held(dispatcher[g]),
               \/ event' = [event EXCEPT ![p[1]].status = "delivered", ![p[1]].timer = 0]
               \/ \E n \in {p[2] + 1, MaxAttempts + 1} : event' = Retried(p[1], n)
        PROVE  /\ event'[y].outcome = event[y].outcome
               /\ event'[y].status = "none" <=> event[y].status = "none"
    <3>1. p[1] \in Ids /\ p[2] \in Nat /\ event[p[1]].status = "pending"
      BY <1>0, HeldTypes
    <3>2. CASE event' = [event EXCEPT ![p[1]].status = "delivered", ![p[1]].timer = 0]
      BY <3>1, <3>2, <2>0, <1>0 DEF OutTypeOK, EventType
    <3>3. ASSUME NEW n \in {p[2] + 1, MaxAttempts + 1}, event' = Retried(p[1], n)
          PROVE  /\ event'[y].outcome = event[y].outcome
                 /\ event'[y].status = "none" <=> event[y].status = "none"
      <4>1. n \in Nat \ {0} /\ MaxAttempts \in Nat
        BY <3>1, OutpostAssumption
      <4>2. /\ \A z \in Ids : z # p[1] => event'[z] = event[z]
            /\ event'[p[1]].outcome = event[p[1]].outcome
            /\ n >= MaxAttempts => event'[p[1]].status = "failed"
            /\ n < MaxAttempts => event'[p[1]].status = event[p[1]].status
        BY <4>1, <3>1, <3>3, <1>0, RetriedRow
      <4> QED
        BY <4>1, <4>2, <3>1
    <3> QED
      BY <3>2, <3>3, <2>4
  <2>5. ASSUME NEW g \in Gateways, Dispatch(g), event' # event
        PROVE  /\ event'[y].outcome = event[y].outcome
               /\ event'[y].status = "none" <=> event[y].status = "none"
    <3>1. PICK p \in dispatcher[g].claimed \cup dispatcher[g].cur :
               \/ event' = [event EXCEPT ![p[1]].status = "delivered", ![p[1]].timer = 0]
               \/ event' = Retried(p[1], p[2] + 1)
               \/ event' = Retried(p[1], MaxAttempts + 1)
      BY <2>5 DEF Dispatch, BeginDelivery, DeliverySucceeds, DeliveryFails
    <3> QED
      BY <3>1, <2>4 DEF Held
  <2> QED
    BY <2>1, <2>2, <2>3, <2>5 DEF GatewayCrash
<1>3. CommandInv'
  BY <1>0, <1>1, <1>2, CommandAside
<1> QED
  BY <1>3 DEF OutInv

LEMMA OutNext == OutInv /\ [Next]_vars => OutInv'
<1> SUFFICES ASSUME OutInv, [Next]_vars PROVE OutInv'
  OBVIOUS
<1>1. CASE UNCHANGED vars
  <2>1. UNCHANGED <<noModule, unrouted, cmd, runs, agent, event, dispatcher, received>>
    BY <1>1 DEF vars, config
  <2>2. OutTypeOK'
    BY <2>1 DEF OutInv, OutboxInv, OutTypeOK
  <2> QED
    BY <2>1, <2>2, OutAside
<1>2. ASSUME NEW a \in Agents, AgentStep(a) PROVE OutInv'
  BY <1>2, OutExecute, OutPostEvent, OutAckCommand DEF AgentStep
<1>3. CASE \/ \E g \in Gateways : ClaimDueEvents(g) \/ Dispatch(g) \/ GatewayCrash(g)
           \/ Tick
  <2>1. OutboxInv'
    BY <1>3, OutboxClaimDueEvents, OutboxBeginDelivery, OutboxDelivery, OutboxGatewayCrash,
       OutboxTick DEF Dispatch, OutInv
  <2> QED
    BY <2>1, <1>3, OutDispatch
<1> QED
  BY <1>1, <1>2, <1>3, OutQueue DEF Next

LEMMA OutInvariant == Spec => []OutInv
<1>1. Init => OutInv
  BY InitOutboxInv, InitCommandInv DEF OutInv
<1> QED
  BY <1>1, OutNext, PTL DEF Spec

(* No event is in the hands of two dispatchers: the lease that claimDueEvents *)
(* takes outlasts the deliveries of a full batch, for every batch size and   *)
(* number of replicas, as long as a delivery respects its timeout and the    *)
(* work between deliveries the margin.                                       *)
THEOREM DeliveriesAreExclusive == Spec => []NoConcurrentDelivery
<1>1. OutInv => NoConcurrentDelivery
  <2> SUFFICES ASSUME OutInv, NEW g \in Gateways, NEW h \in Gateways, g # h,
                      NEW x \in InBatch(g) \cap InBatch(h)
               PROVE  FALSE
    BY DEF NoConcurrentDelivery
  <2>1. PICK p \in Held(dispatcher[g]) : p[1] = x
    BY DEF InBatch, Held
  <2>2. PICK q \in Held(dispatcher[h]) : q[1] = x
    BY DEF InBatch, Held
  <2> QED
    BY <2>1, <2>2 DEF OutInv, OutboxInv, Exclusive
<1> QED
  BY <1>1, OutInvariant, PTL

(* A command acknowledged as done or failed has an accepted event with that *)
(* outcome, a delivered event has reached its consumer, and a dead letter   *)
(* has used up its attempts or has no consumer.                             *)
THEOREM ResultsAreAccounted == Spec => []ResultsAccounted
<1>1. OutInv => ResultsAccounted
  BY DEF OutInv, OutboxInv, CommandInv, ResultsAccounted
<1> QED
  BY <1>1, OutInvariant, PTL

=============================================================================
