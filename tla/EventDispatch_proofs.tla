------------------------ MODULE EventDispatch_proofs ------------------------
(***************************************************************************)
(* Theorems about the dispatch of events, for any number of triggers,      *)
(* events, actions, replicas, deliveries, faults and edits of triggers.    *)
(***************************************************************************)
EXTENDS EventDispatch, FiniteSetTheorems, TLAPS

Busy == {"act", "read", "failed", "done"}
Labels == {"ready", "load", "match", "ended"} \cup Busy
RunnerType ==
    [pc : Labels, at : Replicas \cup {"none"}, todo : SUBSET (Events \cup Pairs),
     cur : SUBSET Pairs, next : 1..NumActions, n : Nat]

(* The types of the variables that decide what fires. *)
DispatchTypeOK ==
    /\ row \in [Pairs -> [status : {"none", "pending", "failed", "dead", "done"},
                          attempts : Nat, due : BOOLEAN]]
    /\ runner \in [Runners -> RunnerType]
    /\ fired \in [Pairs -> [1..NumActions -> 0..2]]
    /\ failures \in [Pairs -> Nat]

(* A runner that is at work has one pair in hand, and pairs to follow. *)
RunnerShape ==
    /\ \A x \in Runners : runner[x].pc \in Busy => \E p \in Pairs : runner[x].cur = {p}
    /\ \A x \in Runners : runner[x].pc \in Busy \cup {"match"} => runner[x].todo \subseteq Pairs
    /\ \A r \in Replicas : runner[r].pc # "load"

Works(x, p) == runner[x].pc \in Busy /\ runner[x].cur = {p}

(* A pair without a row has not been started. *)
Unstarted ==
    \A p \in Pairs : row[p].status = "none" =>
        /\ \A x \in Runners : ~Works(x, p)
        /\ \A k \in 1..NumActions : fired[p][k] = 0

(* What a retry loop has selected has failed before. *)
RetriesFailed ==
    \A r \in Replicas, p \in Pairs : p \in runner[r].todo =>
        failures[p] > 0 /\ row[p].status # "none"

(* While no run of a pair has failed, its row says so ... *)
QuietRow ==
    \A p \in Pairs : failures[p] = 0 => row[p].status \in {"none", "pending", "done"}

(* ... the only runner it ever had is still at it ... *)
QuietRunner ==
    \A p \in Pairs, x, y \in Runners :
        failures[p] = 0 /\ Works(x, p) =>
            /\ runner[x].pc \in {"act", "done"}
            /\ Works(y, p) => x = y

(* ... and has the rest of the actions before it. *)
QuietRest ==
    \A p \in Pairs, x \in Runners :
        failures[p] = 0 /\ Works(x, p) /\ runner[x].pc = "act" =>
            \A k \in runner[x].next..NumActions : fired[p][k] = 0

FireInv ==
    /\ DispatchTypeOK /\ RunnerShape /\ Unstarted /\ RetriesFailed
    /\ QuietRow /\ QuietRunner /\ QuietRest /\ NoDoubleFire

LEMMA CurIs ==
  ASSUME NEW x \in Runners, NEW p, runner[x].cur = {p} PROVE Cur(x) = p
  BY DEF Cur

LEMMA RunnerRecord ==
  ASSUME NEW l \in Labels, NEW a \in Replicas \cup {"none"}, NEW T \in SUBSET (Events \cup Pairs),
         NEW C \in SUBSET Pairs, NEW k \in 1..NumActions, NEW m \in Nat
  PROVE  [pc |-> l, at |-> a, todo |-> T, cur |-> C, next |-> k, n |-> m] \in RunnerType
  BY DEF RunnerType

(* Runner x turns to the pairs that are left: what that does to runners. *)
LEMMA Turned ==
  ASSUME DispatchTypeOK, NEW x \in Runners, NEW T \in SUBSET Pairs, runner' = TurnTo(x, T)
  PROVE  /\ runner' \in [Runners -> RunnerType]
         /\ \A y \in Runners \ {x} : runner'[y] = runner[y]
         /\ runner'[x].pc \in {"match", "ready", "ended"}
         /\ runner'[x].todo = T
<1> USE DispatchAssumption
<1> DEFINE v == CASE T # {} -> [Ready EXCEPT !.pc = "match", !.at = runner[x].at, !.todo = T]
                  [] T = {} /\ x \in Replicas -> [Ready EXCEPT !.at = x]
                  [] OTHER -> Ended
<1>1. runner' = [runner EXCEPT ![x] = v]
  BY DEF TurnTo
<1>2. v \in RunnerType /\ v.pc \in {"match", "ready", "ended"} /\ v.todo = T
  <2>0. runner[x].at \in Replicas \cup {"none"} /\ 1 \in 1..NumActions
    BY DEF DispatchTypeOK, RunnerType
  <2>1. CASE T # {}
    <3>1. v = [pc |-> "match", at |-> runner[x].at, todo |-> T, cur |-> {}, next |-> 1, n |-> 0]
      BY <2>1 DEF Ready
    <3> HIDE DEF v
    <3>2. T \in SUBSET (Events \cup Pairs)
      OBVIOUS
    <3>3. v \in RunnerType
      <4>1. "match" \in Labels /\ {} \in SUBSET Pairs /\ 0 \in Nat
        BY DEF Labels
      <4> QED
        BY <4>1, <3>1, <3>2, <2>0, RunnerRecord, Zenon
    <3> QED
      BY <3>1, <3>3
  <2>2. CASE T = {} /\ x \in Replicas
    <3>1. v = [Ready EXCEPT !.at = x]
      BY <2>2
    <3> QED
      BY <3>1, <2>0, <2>2 DEF Ready, RunnerType, Labels
  <2>3. CASE T = {} /\ x \notin Replicas
    <3>1. v = Ended
      BY <2>3
    <3> QED
      BY <3>1, <2>0, <2>3 DEF Ready, Ended, RunnerType, Labels
  <2> QED
    BY <2>1, <2>2, <2>3
<1> HIDE DEF v
<1> QED
  BY <1>1, <1>2 DEF DispatchTypeOK

(* Initially no pair has a row and no runner a pair. *)
LEMMA InitFireInv == Init => FireInv
<1> SUFFICES ASSUME Init PROVE FireInv
  OBVIOUS
<1> USE DispatchAssumption
<1>0. /\ runner \in [Runners -> RunnerType]
      /\ \A x \in Runners : runner[x].pc = "ready" /\ runner[x].todo = {}
  <2>1. ASSUME NEW x \in Runners
        PROVE  runner[x] \in RunnerType /\ runner[x].pc = "ready" /\ runner[x].todo = {}
    <3>1. PICK a \in Replicas \cup {"none"} :
             runner[x] = [pc |-> "ready", at |-> a, todo |-> {}, cur |-> {}, next |-> 1, n |-> 0]
      BY DEF Init, Ready
    <3>2. 1 \in 1..NumActions /\ "ready" \in Labels /\ {} \in SUBSET Pairs
          /\ {} \in SUBSET (Events \cup Pairs) /\ 0 \in Nat
      BY DEF Labels
    <3>3. runner[x] \in RunnerType
      BY <3>1, <3>2 DEF RunnerType
    <3> QED
      BY <3>1, <3>3
  <2>2. DOMAIN runner = Runners /\ runner = [x \in Runners |-> runner[x]]
    BY DEF Init
  <2> QED
    BY <2>1, <2>2
<1>1. DispatchTypeOK
  BY <1>0 DEF Init, DispatchTypeOK, NoRow
<1>2. RunnerShape /\ Unstarted /\ RetriesFailed
  BY <1>0 DEF Init, RunnerShape, Unstarted, RetriesFailed, Works, Busy, Runners
<1>3. QuietRow /\ QuietRunner /\ QuietRest /\ NoDoubleFire
  BY <1>0 DEF Init, QuietRow, QuietRunner, QuietRest, NoDoubleFire, Works, Busy, NoRow
<1> QED
  BY <1>1, <1>2, <1>3 DEF FireInv

(* A runner that is between pairs, with what it may have before it. *)
Parked(y) ==
    /\ runner'[y].pc \notin Busy
    /\ runner'[y].pc = "match" => runner'[y].todo \subseteq Pairs
    /\ y \in Replicas =>
          /\ runner'[y].pc # "load"
          /\ \A p \in Pairs : p \in runner'[y].todo => failures[p] > 0 /\ row[p].status # "none"

(* Steps after which every runner is as it was or between pairs, and that  *)
(* write no more than a result, fire nothing twice.                        *)
LEMMA FireParked ==
  ASSUME FireInv, DispatchTypeOK',
         \A y \in Runners : runner'[y] = runner[y] \/ Parked(y),
         UNCHANGED <<fired, failures>>,
         \A p \in Pairs : \/ row'[p].status = row[p].status
                          \/ /\ row'[p].status # "none"
                             /\ failures[p] = 0 => row'[p].status = "done"
  PROVE  FireInv'
<1>inv. /\ DispatchTypeOK /\ RunnerShape /\ Unstarted /\ RetriesFailed
        /\ QuietRow /\ QuietRunner /\ QuietRest /\ NoDoubleFire
  BY DEF FireInv
<1>0. ASSUME NEW x \in Runners, NEW p \in Pairs, Works(x, p)'
      PROVE  Works(x, p) /\ runner'[x] = runner[x]
  BY <1>0 DEF Works, Parked
<1>rep. \A r \in Replicas : r \in Runners
  BY DEF Runners
<1>1. RunnerShape'
  <2>1. ASSUME NEW x \in Runners
        PROVE  /\ runner'[x].pc \in Busy => \E p \in Pairs : runner'[x].cur = {p}
               /\ runner'[x].pc \in Busy \cup {"match"} => runner'[x].todo \subseteq Pairs
               /\ x \in Replicas => runner'[x].pc # "load"
    BY <1>inv DEF RunnerShape, Parked
  <2> QED
    BY <2>1, <1>rep DEF RunnerShape
<1>2. Unstarted'
  BY <1>0, <1>inv DEF Unstarted
<1>3. RetriesFailed'
  <2>1. ASSUME NEW r \in Replicas, NEW p \in Pairs, p \in runner'[r].todo
        PROVE  failures[p] > 0 /\ row[p].status # "none"
    BY <2>1, <1>rep, <1>inv DEF RetriesFailed, Parked
  <2> QED
    BY <2>1 DEF RetriesFailed
<1>4. QuietRow'
  BY <1>inv DEF QuietRow
<1>5. QuietRunner'
  BY <1>0, <1>inv DEF QuietRunner
<1>6. QuietRest'
  BY <1>0, <1>inv DEF QuietRest
<1>7. NoDoubleFire'
  BY <1>inv DEF NoDoubleFire
<1> QED
  BY <1>1, <1>2, <1>3, <1>4, <1>5, <1>6, <1>7 DEF FireInv

(* Runner x begins a run of pair p. *)
LEMMA Ran ==
  ASSUME DispatchTypeOK, NEW x \in Runners, NEW p \in Pairs, runner' = Run(x, p)
  PROVE  /\ runner' \in [Runners -> RunnerType]
         /\ \A y \in Runners \ {x} : runner'[y] = runner[y]
         /\ runner'[x].pc = "act" /\ runner'[x].cur = {p} /\ runner'[x].next = 1
         /\ runner'[x].todo = runner[x].todo \ {p}
<1> DEFINE v == [pc |-> "act", at |-> runner[x].at, todo |-> runner[x].todo \ {p},
                 cur |-> {p}, next |-> 1, n |-> runner[x].n]
<1>1. /\ "act" \in Labels /\ 1 \in 1..NumActions /\ {p} \in SUBSET Pairs
      /\ runner[x] \in RunnerType
  BY DispatchAssumption DEF DispatchTypeOK, Labels, Busy
<1>2. /\ runner[x].at \in Replicas \cup {"none"} /\ runner[x].n \in Nat
      /\ runner[x].todo \ {p} \in SUBSET (Events \cup Pairs)
  BY <1>1 DEF RunnerType
<1>3. v \in RunnerType
  BY <1>1, <1>2, RunnerRecord, Zenon
<1>4. /\ DOMAIN runner' = Runners
      /\ \A y \in Runners \ {x} : runner'[y] = runner[y]
      /\ runner'[x] = v
  <2>1. runner \in [Runners -> RunnerType]
    BY DEF DispatchTypeOK
  <2>2. runner'[x] = [[[[runner[x] EXCEPT !.pc = "act"] EXCEPT !.todo = @ \ {p}]
                          EXCEPT !.cur = {p}] EXCEPT !.next = 1]
    BY <2>1 DEF Run
  <2>3. runner[x] = [pc |-> runner[x].pc, at |-> runner[x].at, todo |-> runner[x].todo,
                     cur |-> runner[x].cur, next |-> runner[x].next, n |-> runner[x].n]
    BY <1>1 DEF RunnerType
  <2>4. runner'[x] = v
    BY <2>2, <2>3
  <2> QED
    BY <2>1, <2>4 DEF Run
<1>5. runner' = [y \in Runners |-> runner'[y]]
  BY <1>4 DEF Run, DispatchTypeOK
<1>6. runner' \in [Runners -> RunnerType]
  BY <1>3, <1>4, <1>5 DEF DispatchTypeOK
<1> QED
  BY <1>4, <1>6

(* A run that starts where none was, or after a failure, keeps the invariant. *)
LEMMA FireRan ==
  ASSUME FireInv, NEW x \in Runners, NEW p \in Pairs, runner[x].pc = "match", p \in runner[x].todo,
         runner' = Run(x, p), UNCHANGED <<fired, failures>>,
         \/ row[p].status = "none" /\ row' = [row EXCEPT ![p].status = "pending"]
         \/ failures[p] > 0 /\ row[p].status # "none" /\ row' = row
  PROVE  FireInv'
<1>inv. /\ DispatchTypeOK /\ RunnerShape /\ Unstarted /\ RetriesFailed
        /\ QuietRow /\ QuietRunner /\ QuietRest /\ NoDoubleFire
  BY DEF FireInv
<1>ran. /\ runner' \in [Runners -> RunnerType]
        /\ \A y \in Runners \ {x} : runner'[y] = runner[y]
        /\ runner'[x].pc = "act" /\ runner'[x].cur = {p} /\ runner'[x].next = 1
        /\ runner'[x].todo = runner[x].todo \ {p}
  BY <1>inv, Ran
<1>row. \A s \in Pairs : /\ row'[s].status # "none" <=> row[s].status # "none" \/ s = p
                         /\ s # p => row'[s] = row[s]
                         /\ row'[p].status = row[p].status \/ row'[p].status = "pending"
  BY <1>inv DEF DispatchTypeOK
<1>0. DispatchTypeOK'
  <2>1. row' \in [Pairs -> [status : {"none", "pending", "failed", "dead", "done"},
                            attempts : Nat, due : BOOLEAN]]
    <3>1. CASE row' = row
      BY <1>inv, <3>1 DEF DispatchTypeOK
    <3>2. CASE row' = [row EXCEPT ![p].status = "pending"]
      <4> DEFINE v == [row[p] EXCEPT !.status = "pending"]
      <4>1. row[p] \in [status : {"none", "pending", "failed", "dead", "done"},
                       attempts : Nat, due : BOOLEAN]
        BY <1>inv DEF DispatchTypeOK
      <4>2. v \in [status : {"none", "pending", "failed", "dead", "done"},
                  attempts : Nat, due : BOOLEAN]
        BY <4>1
      <4>3. row' = [row EXCEPT ![p] = v]
        BY <3>2
      <4> HIDE DEF v
      <4> QED
        BY <1>inv, <4>2, <4>3 DEF DispatchTypeOK
    <3> QED
      BY <3>1, <3>2
  <2> QED
    BY <2>1, <1>inv, <1>ran DEF DispatchTypeOK
<1>works. /\ \A y \in Runners, s \in Pairs : y # x => (Works(y, s)' <=> Works(y, s))
          /\ \A s \in Pairs : Works(x, s)' <=> s = p
  BY <1>ran DEF Works, Busy
<1>1. RunnerShape'
  BY <1>inv, <1>ran DEF RunnerShape, Runners, Busy
<1>2. Unstarted'
  BY <1>inv, <1>row, <1>works DEF Unstarted
<1>3. RetriesFailed'
  <2>1. ASSUME NEW r \in Replicas, NEW s \in Pairs, s \in runner'[r].todo
        PROVE  failures[s] > 0 /\ row[s].status # "none"
    BY <2>1, <1>inv, <1>ran DEF RetriesFailed, Runners
  <2> QED
    BY <2>1, <1>row DEF RetriesFailed
<1>4. QuietRow'
  BY <1>inv, <1>row DEF QuietRow
<1>5. QuietRunner'
  <2>1. ASSUME NEW s \in Pairs, NEW y \in Runners, NEW z \in Runners,
               failures[s] = 0, Works(y, s)'
        PROVE  runner'[y].pc \in {"act", "done"} /\ (Works(z, s)' => y = z)
    <3>1. CASE s = p
      <4>1. \A u \in Runners : ~Works(u, p)
        BY <3>1, <2>1, <1>inv DEF Unstarted
      <4> QED
        BY <4>1, <3>1, <2>1, <1>works, <1>ran
    <3>2. CASE s # p
      BY <3>2, <2>1, <1>works, <1>ran, <1>inv DEF QuietRunner
    <3> QED
      BY <3>1, <3>2
  <2> QED
    BY <2>1 DEF QuietRunner
<1>6. QuietRest'
  <2>1. ASSUME NEW s \in Pairs, NEW y \in Runners, failures[s] = 0, Works(y, s)',
               runner'[y].pc = "act", NEW k \in runner'[y].next..NumActions
        PROVE  fired[s][k] = 0
    <3>1. CASE y = x
      <4>1. s = p /\ row[p].status = "none" /\ k \in 1..NumActions
        BY <3>1, <2>1, <1>works, <1>ran
      <4> QED
        BY <4>1, <1>inv DEF Unstarted
    <3>2. CASE y # x
      BY <3>2, <2>1, <1>works, <1>ran, <1>inv DEF QuietRest
    <3> QED
      BY <3>1, <3>2
  <2> QED
    BY <2>1 DEF QuietRest
<1>7. NoDoubleFire'
  BY <1>inv DEF NoDoubleFire
<1> QED
  BY <1>0, <1>1, <1>2, <1>3, <1>4, <1>5, <1>6, <1>7 DEF FireInv

(* A step that moves runner x alone: what it must show of the new record. *)
LEMMA Moved ==
  ASSUME DispatchTypeOK, NEW x \in Runners, NEW v \in RunnerType,
         runner' = [runner EXCEPT ![x] = v]
  PROVE  /\ runner' \in [Runners -> RunnerType]
         /\ runner'[x] = v
         /\ \A y \in Runners \ {x} : runner'[y] = runner[y]
  BY DEF DispatchTypeOK

LEMMA RunnerFields ==
  ASSUME DispatchTypeOK, NEW x \in Runners
  PROVE  /\ runner[x] = [pc |-> runner[x].pc, at |-> runner[x].at, todo |-> runner[x].todo,
                         cur |-> runner[x].cur, next |-> runner[x].next, n |-> runner[x].n]
         /\ runner[x].pc \in Labels /\ runner[x].at \in Replicas \cup {"none"}
         /\ runner[x].todo \in SUBSET (Events \cup Pairs) /\ runner[x].cur \in SUBSET Pairs
         /\ runner[x].next \in 1..NumActions /\ runner[x].n \in Nat
<1>1. runner[x] \in RunnerType
  BY DEF DispatchTypeOK
<1> QED
  BY <1>1 DEF RunnerType

(* Steps that leave the runners and what they did alone. *)
LEMMA FireAside ==
  ASSUME FireInv, UNCHANGED <<runner, fired, failures>>,
         row' \in [Pairs -> [status : {"none", "pending", "failed", "dead", "done"},
                             attempts : Nat, due : BOOLEAN]],
         \A p \in Pairs : row'[p].status = row[p].status
  PROVE  FireInv'
<1>1. DispatchTypeOK'
  BY DEF FireInv, DispatchTypeOK
<1> QED
  BY <1>1, FireParked

LEMMA FireDeliver ==
  ASSUME FireInv, NEW d \in Deliveries, NEW e \in Events, NEW r \in Replicas, Deliver(d, e, r)
  PROVE  FireInv'
<1>0. DispatchTypeOK /\ d \in Runners /\ d \notin Replicas
  BY DispatchAssumption DEF FireInv, Runners
<1>1. runner \in [Runners -> RunnerType] /\ runner[d] \in RunnerType
  BY <1>0 DEF DispatchTypeOK
<1> DEFINE v == [[[runner[d] EXCEPT !.pc = "load"] EXCEPT !.at = r] EXCEPT !.todo = {e}]
<1>2. v \in RunnerType /\ v.pc = "load"
  <2>1. "load" \in Labels /\ r \in Replicas \cup {"none"} /\ {e} \in SUBSET (Events \cup Pairs)
    BY DEF Labels
  <2> QED
    BY <2>1, <1>1 DEF RunnerType
<1>3. runner' = [runner EXCEPT ![d] = v]
  BY <1>0, <1>1 DEF Deliver
<1> HIDE DEF v
<1>4. /\ runner' \in [Runners -> RunnerType] /\ runner'[d] = v
      /\ \A y \in Runners \ {d} : runner'[y] = runner[y]
  BY <1>0, <1>2, <1>3, Moved, Zenon
<1>5. DispatchTypeOK'
  BY <1>0, <1>4 DEF DispatchTypeOK, Deliver
<1>6. Parked(d)
  BY <1>0, <1>2, <1>4 DEF Parked, Busy
<1> QED
  BY <1>4, <1>5, <1>6, FireParked DEF Deliver

(* A runner that turns to what is left, after a result or none. *)
LEMMA FireTurned ==
  ASSUME FireInv, NEW x \in Runners, NEW T \in SUBSET Pairs, runner' = TurnTo(x, T),
         UNCHANGED <<fired, failures>>,
         x \in Replicas => \A p \in T : failures[p] > 0 /\ row[p].status # "none",
         row' \in [Pairs -> [status : {"none", "pending", "failed", "dead", "done"},
                             attempts : Nat, due : BOOLEAN]],
         \A p \in Pairs : \/ row'[p].status = row[p].status
                          \/ /\ row'[p].status # "none"
                             /\ failures[p] = 0 => row'[p].status = "done"
  PROVE  FireInv'
<1>0. DispatchTypeOK
  BY DEF FireInv
<1>1. /\ runner' \in [Runners -> RunnerType]
      /\ \A y \in Runners \ {x} : runner'[y] = runner[y]
      /\ runner'[x].pc \in {"match", "ready", "ended"}
      /\ runner'[x].todo = T
  BY <1>0, Turned
<1>2. DispatchTypeOK'
  BY <1>0, <1>1 DEF DispatchTypeOK
<1>3. Parked(x)
  BY <1>1 DEF Parked, Busy
<1> QED
  BY <1>1, <1>2, <1>3, FireParked

LEMMA FireLoadTriggers ==
  ASSUME FireInv, NEW x \in Runners, LoadTriggers(x) PROVE FireInv'
<1>1. x \notin Replicas
  BY DEF FireInv, RunnerShape, LoadTriggers
<1>2. PICK T \in SUBSET Pairs : runner' = TurnTo(x, T)
  <2>1. {p \in Matches : p[2] \in runner[x].todo /\ trigger[p[1]] = "on"} \in SUBSET Pairs
    BY DispatchAssumption DEF Pairs
  <2> QED
    BY <2>1 DEF LoadTriggers
<1> QED
  BY <1>1, <1>2, FireTurned DEF LoadTriggers, FireInv, DispatchTypeOK

LEMMA FireClaim ==
  ASSUME FireInv, NEW x \in Runners, NEW p \in runner[x].todo, Claim(x, p) PROVE FireInv'
<1>1. /\ runner[x].pc = "match" /\ x \notin Replicas /\ runner[x].todo \subseteq Pairs
      /\ UNCHANGED <<fired, failures>>
  BY DispatchAssumption DEF Claim, FireInv, RunnerShape
<1>2. CASE runner' = Skip(x, p) /\ row' = row
  <2>1. runner[x].todo \ {p} \in SUBSET Pairs /\ runner' = TurnTo(x, runner[x].todo \ {p})
    BY <1>1, <1>2 DEF Skip
  <2> QED
    BY <2>1, <1>1, <1>2, FireTurned DEF FireInv, DispatchTypeOK
<1>3. CASE Unclaimed(p) /\ runner' = Run(x, p) /\ row' = [row EXCEPT ![p].status = "pending"]
  BY <1>1, <1>3, FireRan DEF Unclaimed
<1> QED
  BY <1>2, <1>3 DEF Claim

LEMMA FireRetryNext ==
  ASSUME FireInv, NEW x \in Runners, NEW p \in runner[x].todo, RetryNext(x, p) PROVE FireInv'
<1>1. /\ runner[x].pc = "match" /\ x \in Replicas /\ runner[x].todo \subseteq Pairs
      /\ UNCHANGED <<row, fired, failures>>
      /\ \A s \in runner[x].todo : failures[s] > 0 /\ row[s].status # "none"
  BY DEF RetryNext, FireInv, RunnerShape, RetriesFailed
<1>2. CASE runner' = Skip(x, p)
  <2>1. runner[x].todo \ {p} \in SUBSET Pairs /\ runner' = TurnTo(x, runner[x].todo \ {p})
    BY <1>1, <1>2 DEF Skip
  <2> QED
    BY <2>1, <1>1, <1>2, FireTurned DEF FireInv, DispatchTypeOK
<1>3. CASE runner' = Run(x, p)
  BY <1>1, <1>3, FireRan
<1> QED
  BY <1>2, <1>3 DEF RetryNext

LEMMA FireRecord ==
  ASSUME FireInv, NEW x \in Runners, Record(x) PROVE FireInv'
<1>0. DispatchTypeOK
  BY DEF FireInv
<1>1. /\ runner[x].pc \in {"done", "failed"} /\ runner[x].todo \in SUBSET Pairs
      /\ runner' = TurnTo(x, runner[x].todo) /\ UNCHANGED <<fired, failures>>
  BY DEF Record, FireInv, RunnerShape, Busy
<1>2. PICK p \in Pairs : runner[x].cur = {p}
  BY <1>1 DEF FireInv, RunnerShape, Busy
<1>3. Cur(x) = p /\ Works(x, p)
  BY <1>1, <1>2, CurIs DEF Works, Busy
<1>4. failures[p] = 0 => runner[x].pc = "done"
  BY <1>1, <1>3 DEF FireInv, QuietRunner
<1>5. /\ Recorded(x) \in [status : {"none", "pending", "failed", "dead", "done"},
                         attempts : Nat, due : BOOLEAN]
      /\ Recorded(x).status \in {"done", "dead", "failed"}
      /\ runner[x].pc = "done" => Recorded(x).status = "done"
  <2>1. row[p] \in [status : {"none", "pending", "failed", "dead", "done"},
                   attempts : Nat, due : BOOLEAN]
    BY <1>0 DEF DispatchTypeOK
  <2>2. CASE runner[x].pc = "done"
    <3>1. Recorded(x) = [[row[p] EXCEPT !.status = "done"] EXCEPT !.due = FALSE]
      BY <1>3, <2>1, <2>2 DEF Recorded
    <3>2. [row[p] EXCEPT !.status = "done"] \in
             [status : {"none", "pending", "failed", "dead", "done"}, attempts : Nat, due : BOOLEAN]
      BY <2>1
    <3> QED
      BY <2>1, <3>1, <3>2
  <2>3. CASE runner[x].pc # "done"
    <3>1. runner[x].n \in Nat
      BY <1>0, RunnerFields
    <3>2. PICK l \in {"dead", "failed"} :
             Recorded(x) = [status |-> l, attempts |-> runner[x].n, due |-> FALSE]
      BY <2>3 DEF Recorded
    <3> QED
      BY <2>3, <3>1, <3>2
  <2> QED
    BY <2>2, <2>3
<1>6. /\ row' \in [Pairs -> [status : {"none", "pending", "failed", "dead", "done"},
                             attempts : Nat, due : BOOLEAN]]
      /\ \A s \in Pairs : s # p => row'[s] = row[s]
      /\ row'[p] = row[p] \/ row'[p] = Recorded(x)
  BY <1>0, <1>3, <1>5 DEF Record, DispatchTypeOK
<1>7. x \in Replicas => \A s \in runner[x].todo : failures[s] > 0 /\ row[s].status # "none"
  BY <1>1 DEF FireInv, RetriesFailed
<1>8. \A s \in Pairs : \/ row'[s].status = row[s].status
                       \/ /\ row'[s].status # "none"
                          /\ failures[s] = 0 => row'[s].status = "done"
  BY <1>4, <1>5, <1>6
<1> QED
  BY <1>1, <1>6, <1>7, <1>8, FireTurned

LEMMA FireRetryScan ==
  ASSUME FireInv, NEW r \in Replicas, RetryScan(r) PROVE FireInv'
<1>0. DispatchTypeOK /\ r \in Runners
  BY DEF FireInv, Runners
<1>1. PICK batch \in SUBSET DueRows :
         runner' = [runner EXCEPT ![r].pc = "match", ![r].todo = batch]
  BY DEF RetryScan, kSubset
<1>2. batch \in SUBSET Pairs /\ \A p \in batch : failures[p] > 0 /\ row[p].status # "none"
  BY <1>0 DEF DueRows, FireInv, QuietRow, DispatchTypeOK
<1>3. runner \in [Runners -> RunnerType] /\ runner[r] \in RunnerType
  BY <1>0 DEF DispatchTypeOK
<1> DEFINE v == [[runner[r] EXCEPT !.pc = "match"] EXCEPT !.todo = batch]
<1>4. v \in RunnerType /\ v.pc = "match" /\ v.todo = batch
  <2>1. "match" \in Labels /\ batch \in SUBSET (Events \cup Pairs)
    BY <1>2 DEF Labels
  <2> QED
    BY <2>1, <1>3 DEF RunnerType
<1>5. runner' = [runner EXCEPT ![r] = v]
  BY <1>0, <1>1, <1>3
<1> HIDE DEF v
<1>6. /\ runner' \in [Runners -> RunnerType] /\ runner'[r] = v
      /\ \A y \in Runners \ {r} : runner'[y] = runner[y]
  BY <1>0, <1>4, <1>5, Moved, Zenon
<1>7. DispatchTypeOK'
  BY <1>0, <1>6 DEF DispatchTypeOK, RetryScan
<1>8. Parked(r)
  BY <1>2, <1>4, <1>6 DEF Parked, Busy
<1> QED
  BY <1>6, <1>7, <1>8, FireParked DEF RetryScan

LEMMA FireCrash ==
  ASSUME FireInv, NEW r \in Replicas, Crash(r) PROVE FireInv'
<1>0. DispatchTypeOK
  BY DEF FireInv
<1> DEFINE fresh(x) == IF x = r THEN [Ready EXCEPT !.at = r] ELSE Ended
<1>1. \A x \in Runners : fresh(x) \in RunnerType /\ fresh(x).pc \in {"ready", "ended"}
                         /\ fresh(x).todo = {}
  <2>1. 1 \in 1..NumActions
    BY DispatchAssumption
  <2> QED
    BY <2>1 DEF Ready, Ended, RunnerType, Labels
<1>2. runner' = [x \in Runners |-> IF runner[x].at # r THEN runner[x] ELSE fresh(x)]
  BY DEF Crash
<1> HIDE DEF fresh
<1>3. runner' \in [Runners -> RunnerType]
  BY <1>0, <1>1, <1>2 DEF DispatchTypeOK
<1>4. DispatchTypeOK'
  BY <1>0, <1>3 DEF DispatchTypeOK, Crash
<1>5. \A y \in Runners : runner'[y] = runner[y] \/ Parked(y)
  BY <1>1, <1>2 DEF Parked, Busy
<1> QED
  BY <1>4, <1>5, FireParked DEF Crash

(* Steps of a run: the runner keeps its pair. *)
LEMMA FireActionSucceeds ==
  ASSUME FireInv, NEW x \in Runners, ActionSucceeds(x) PROVE FireInv'
<1>inv. /\ DispatchTypeOK /\ RunnerShape /\ Unstarted /\ RetriesFailed
        /\ QuietRow /\ QuietRunner /\ QuietRest /\ NoDoubleFire
  BY DEF FireInv
<1>1. PICK p \in Pairs : runner[x].cur = {p}
  BY <1>inv DEF RunnerShape, ActionSucceeds, Busy
<1>2. Cur(x) = p /\ Works(x, p) /\ runner[x].pc = "act"
  BY <1>1, CurIs DEF Works, Busy, ActionSucceeds
<1>3. runner[x].next \in 1..NumActions /\ NumActions \in Nat
  BY <1>inv, RunnerFields, DispatchAssumption
<1>4. /\ runner' \in [Runners -> RunnerType]
      /\ \A y \in Runners \ {x} : runner'[y] = runner[y]
      /\ runner'[x].cur = {p} /\ runner'[x].todo = runner[x].todo
      /\ runner'[x].pc \in {"act", "done"}
      /\ runner'[x].pc = "act" => runner'[x].next = runner[x].next + 1
  <2>1. CASE runner[x].next < NumActions
    <3>1. runner' = [runner EXCEPT ![x] = [runner[x] EXCEPT !.next = runner[x].next + 1]]
      BY <2>1, <1>inv DEF ActionSucceeds, DispatchTypeOK
    <3>2. [runner[x] EXCEPT !.next = runner[x].next + 1] \in RunnerType
      <4>1. runner[x].next + 1 \in 1..NumActions
        BY <2>1, <1>3
      <4>2. runner[x] \in RunnerType
        BY <1>inv DEF DispatchTypeOK
      <4> QED
        BY <4>1, <4>2 DEF RunnerType
    <3> QED
      BY <3>1, <3>2, <1>inv, <1>1, <1>2, Moved DEF RunnerType
  <2>2. CASE ~(runner[x].next < NumActions)
    <3>1. runner' = [runner EXCEPT ![x] = [runner[x] EXCEPT !.pc = "done"]]
      BY <2>2, <1>inv DEF ActionSucceeds, DispatchTypeOK
    <3>2. [runner[x] EXCEPT !.pc = "done"] \in RunnerType
      BY <1>inv DEF DispatchTypeOK, RunnerType, Labels, Busy
    <3> QED
      BY <3>1, <3>2, <1>inv, <1>1, <1>2, Moved DEF RunnerType
  <2> QED
    BY <2>1, <2>2
<1>5. /\ fired' \in [Pairs -> [1..NumActions -> 0..2]]
      /\ \A s \in Pairs : s # p => fired'[s] = fired[s]
      /\ \A k \in 1..NumActions : k # runner[x].next => fired'[p][k] = fired[p][k]
      /\ fired'[p][runner[x].next] = Once(fired[p][runner[x].next])
  <2>1. fired \in [Pairs -> [1..NumActions -> 0..2]]
    BY <1>inv DEF DispatchTypeOK
  <2>2. fired' = [fired EXCEPT ![p][runner[x].next] = Once(@)]
    BY <1>2 DEF ActionSucceeds, Effect
  <2>3. Once(fired[p][runner[x].next]) \in 0..2
    BY DEF Once
  <2> QED
    BY <2>1, <2>2, <2>3, <1>3
<1>6. UNCHANGED <<row, failures>>
  BY DEF ActionSucceeds
<1>works. \A y \in Runners, s \in Pairs : Works(y, s)' <=> Works(y, s)
  BY <1>1, <1>2, <1>4 DEF Works, Busy
<1>7. DispatchTypeOK'
  BY <1>inv, <1>4, <1>5, <1>6 DEF DispatchTypeOK
<1>8. RunnerShape'
  BY <1>inv, <1>2, <1>4 DEF RunnerShape, Runners, Busy
<1>9. Unstarted'
  BY <1>inv, <1>2, <1>5, <1>6, <1>works DEF Unstarted
<1>10. RetriesFailed'
  <2>1. ASSUME NEW r \in Replicas PROVE runner'[r].todo = runner[r].todo
    BY <1>4 DEF Runners
  <2> QED
    BY <2>1, <1>inv, <1>6 DEF RetriesFailed
<1>11. QuietRow'
  BY <1>inv, <1>6 DEF QuietRow
<1>12. QuietRunner'
  <2>1. ASSUME NEW s \in Pairs, NEW y \in Runners, NEW z \in Runners,
               failures[s] = 0, Works(y, s)'
        PROVE  runner'[y].pc \in {"act", "done"} /\ (Works(z, s)' => y = z)
    BY <2>1, <1>inv, <1>4, <1>works DEF QuietRunner
  <2> QED
    BY <2>1, <1>6 DEF QuietRunner
<1>13. QuietRest'
  <2>1. ASSUME NEW s \in Pairs, NEW y \in Runners, failures[s] = 0, Works(y, s)',
               runner'[y].pc = "act", NEW k \in runner'[y].next..NumActions
        PROVE  fired'[s][k] = 0
    <3>1. Works(y, s)
      BY <2>1, <1>works
    <3>2. CASE y = x
      <4>1. s = p /\ k \in runner[x].next..NumActions /\ k \in 1..NumActions /\ k # runner[x].next
        BY <3>2, <2>1, <1>3, <1>4 DEF Works
      <4> QED
        BY <4>1, <2>1, <1>2, <1>5, <1>inv DEF QuietRest
    <3>3. CASE y # x
      <4>1. s # p
        BY <3>1, <3>3, <2>1, <1>2, <1>inv DEF QuietRunner
      <4> QED
        BY <4>1, <3>1, <3>3, <2>1, <1>4, <1>5, <1>inv DEF QuietRest
    <3> QED
      BY <3>2, <3>3
  <2> QED
    BY <2>1, <1>6 DEF QuietRest
<1>14. NoDoubleFire'
  <2>1. ASSUME NEW s \in Pairs, failures[s] = 0, NEW k \in 1..NumActions
        PROVE  fired'[s][k] <= 1
    <3>1. CASE s = p /\ k = runner[x].next
      <4>1. fired[p][k] = 0
        BY <3>1, <2>1, <1>2, <1>3, <1>inv DEF QuietRest
      <4> QED
        BY <4>1, <3>1, <1>5 DEF Once
    <3>2. CASE ~(s = p /\ k = runner[x].next)
      BY <3>2, <2>1, <1>5, <1>inv DEF NoDoubleFire
    <3> QED
      BY <3>1, <3>2
  <2> QED
    BY <2>1, <1>6 DEF NoDoubleFire
<1> QED
  BY <1>7, <1>8, <1>9, <1>10, <1>11, <1>12, <1>13, <1>14 DEF FireInv

(* A run that fails, and one that reads the attempts, are of a pair that   *)
(* has failed: nothing is claimed of it any more.                          *)
LEMMA FireFailing ==
  ASSUME FireInv, NEW x \in Runners, NEW p \in Pairs, Works(x, p), DispatchTypeOK',
         \A y \in Runners \ {x} : runner'[y] = runner[y],
         runner'[x].pc \in Busy, runner'[x].cur = {p}, runner'[x].todo = runner[x].todo,
         \A s \in Pairs : s # p => fired'[s] = fired[s] /\ failures'[s] = failures[s],
         failures'[p] > 0, row' = row
  PROVE  FireInv'
<1>inv. /\ DispatchTypeOK /\ RunnerShape /\ Unstarted /\ RetriesFailed
        /\ QuietRow /\ QuietRunner /\ QuietRest /\ NoDoubleFire
  BY DEF FireInv
<1>works. \A y \in Runners, s \in Pairs : Works(y, s)' <=> Works(y, s)
  BY DEF Works
<1>quiet. /\ failures'[p] # 0
          /\ \A s \in Pairs : failures'[s] = 0 => failures[s] = 0 /\ s # p /\ fired'[s] = fired[s]
  OBVIOUS
<1>8. RunnerShape'
  <2>1. ASSUME NEW y \in Runners
        PROVE  /\ runner'[y].pc \in Busy => \E s \in Pairs : runner'[y].cur = {s}
               /\ runner'[y].pc \in Busy \cup {"match"} => runner'[y].todo \subseteq Pairs
               /\ y \in Replicas => runner'[y].pc # "load"
    <3>1. CASE y = x
      BY <3>1, <1>inv DEF RunnerShape, Works, Busy
    <3>2. CASE y # x
      BY <3>2, <1>inv DEF RunnerShape
    <3> QED
      BY <3>1, <3>2
  <2> QED
    BY <2>1 DEF RunnerShape, Runners
<1>9. Unstarted'
  BY <1>inv, <1>works DEF Unstarted
<1>10. RetriesFailed'
  <2>1. ASSUME NEW r \in Replicas PROVE runner'[r].todo = runner[r].todo
    BY DEF Runners
  <2>2. \A s \in Pairs : failures[s] > 0 => failures'[s] > 0
    BY <1>quiet
  <2> QED
    BY <2>1, <2>2, <1>inv DEF RetriesFailed
<1>11. QuietRow'
  BY <1>inv, <1>quiet DEF QuietRow
<1>12. QuietRunner'
  <2>1. ASSUME NEW s \in Pairs, NEW y \in Runners, NEW z \in Runners,
               failures'[s] = 0, Works(y, s)'
        PROVE  runner'[y].pc \in {"act", "done"} /\ (Works(z, s)' => y = z)
    <3>1. Works(y, s) /\ failures[s] = 0 /\ s # p
      BY <2>1, <1>works, <1>quiet
    <3>2. y # x
      BY <3>1 DEF Works
    <3> QED
      BY <3>1, <3>2, <1>inv, <1>works DEF QuietRunner
  <2> QED
    BY <2>1 DEF QuietRunner
<1>13. QuietRest'
  <2>1. ASSUME NEW s \in Pairs, NEW y \in Runners, failures'[s] = 0, Works(y, s)',
               runner'[y].pc = "act", NEW k \in runner'[y].next..NumActions
        PROVE  fired'[s][k] = 0
    <3>1. Works(y, s) /\ failures[s] = 0 /\ s # p /\ fired'[s] = fired[s]
      BY <2>1, <1>works, <1>quiet
    <3>2. y # x
      BY <3>1 DEF Works
    <3> QED
      BY <3>1, <3>2, <2>1, <1>inv DEF QuietRest
  <2> QED
    BY <2>1 DEF QuietRest
<1>14. NoDoubleFire'
  BY <1>inv, <1>quiet DEF NoDoubleFire
<1> QED
  BY <1>8, <1>9, <1>10, <1>11, <1>12, <1>13, <1>14 DEF FireInv

LEMMA FireActionFails ==
  ASSUME FireInv, NEW x \in Runners, ActionFails(x) PROVE FireInv'
<1>inv. DispatchTypeOK /\ RunnerShape
  BY DEF FireInv
<1>1. PICK p \in Pairs : runner[x].cur = {p}
  BY <1>inv DEF RunnerShape, ActionFails, Busy
<1>2. Cur(x) = p /\ Works(x, p)
  BY <1>1, CurIs DEF Works, Busy, ActionFails
<1>3. /\ runner' \in [Runners -> RunnerType]
      /\ \A y \in Runners \ {x} : runner'[y] = runner[y]
      /\ runner'[x].cur = {p} /\ runner'[x].todo = runner[x].todo /\ runner'[x].pc = "read"
  <2>1. runner' = [runner EXCEPT ![x] = [runner[x] EXCEPT !.pc = "read"]]
    BY <1>inv DEF ActionFails, Goto, AfterFailure, DispatchTypeOK
  <2>2. [runner[x] EXCEPT !.pc = "read"] \in RunnerType
    BY <1>inv DEF DispatchTypeOK, RunnerType, Labels, Busy
  <2> QED
    BY <2>1, <2>2, <1>inv, <1>1, Moved DEF RunnerType
<1>4. /\ fired' \in [Pairs -> [1..NumActions -> 0..2]]
      /\ \A s \in Pairs : s # p => fired'[s] = fired[s]
  <2>1. fired \in [Pairs -> [1..NumActions -> 0..2]] /\ runner[x].next \in 1..NumActions
    BY <1>inv, RunnerFields DEF DispatchTypeOK
  <2>2. CASE fired' = fired
    BY <2>1, <2>2
  <2>3. CASE fired' = [fired EXCEPT ![p][runner[x].next] = Once(@)]
    <3>1. Once(fired[p][runner[x].next]) \in 0..2
      BY DEF Once
    <3> QED
      BY <2>1, <2>3, <3>1
  <2> QED
    BY <2>2, <2>3, <1>2 DEF ActionFails, Effect
<1>5. /\ failures' \in [Pairs -> Nat] /\ failures'[p] = failures[p] + 1
      /\ \A s \in Pairs : s # p => failures'[s] = failures[s]
  BY <1>inv, <1>2 DEF ActionFails, DispatchTypeOK
<1>6. DispatchTypeOK' /\ row' = row
  BY <1>inv, <1>3, <1>4, <1>5 DEF DispatchTypeOK, ActionFails
<1>7. failures'[p] > 0
  BY <1>5, <1>inv DEF DispatchTypeOK
<1>8. runner'[x].pc \in Busy
  BY <1>3 DEF Busy
<1> QED
  BY <1>2, <1>3, <1>4, <1>5, <1>6, <1>7, <1>8, FireFailing

LEMMA FireReadAttempts ==
  ASSUME FireInv, NEW x \in Runners, ReadAttempts(x) PROVE FireInv'
<1>inv. DispatchTypeOK /\ RunnerShape /\ QuietRunner
  BY DEF FireInv
<1>1. PICK p \in Pairs : runner[x].cur = {p}
  BY <1>inv DEF RunnerShape, ReadAttempts, Busy
<1>2. Cur(x) = p /\ Works(x, p)
  BY <1>1, CurIs DEF Works, Busy, ReadAttempts
<1>3. failures[p] > 0
  <2>1. failures[p] # 0
    BY <1>2, <1>inv DEF QuietRunner, ReadAttempts
  <2> QED
    BY <2>1, <1>inv DEF DispatchTypeOK
<1>4. PICK m \in Nat : runner' = [runner EXCEPT ![x].pc = "failed", ![x].n = m]
  <2>1. row[p].attempts + 1 \in Nat /\ 1 \in Nat
    BY <1>inv DEF DispatchTypeOK
  <2> QED
    BY <2>1, <1>2 DEF ReadAttempts
<1>5. /\ runner' \in [Runners -> RunnerType]
      /\ \A y \in Runners \ {x} : runner'[y] = runner[y]
      /\ runner'[x].cur = {p} /\ runner'[x].todo = runner[x].todo /\ runner'[x].pc = "failed"
  <2>1. runner' = [runner EXCEPT ![x] = [[runner[x] EXCEPT !.pc = "failed"] EXCEPT !.n = m]]
    BY <1>inv, <1>4 DEF DispatchTypeOK
  <2>2. [[runner[x] EXCEPT !.pc = "failed"] EXCEPT !.n = m] \in RunnerType
    BY <1>inv DEF DispatchTypeOK, RunnerType, Labels, Busy
  <2> QED
    BY <2>1, <2>2, <1>inv, <1>1, Moved DEF RunnerType
<1>6. DispatchTypeOK' /\ UNCHANGED <<row, fired, failures>>
  BY <1>inv, <1>5 DEF DispatchTypeOK, ReadAttempts
<1>8. runner'[x].pc \in Busy
  BY <1>5 DEF Busy
<1> QED
  BY <1>2, <1>3, <1>5, <1>6, <1>8, FireFailing

LEMMA FireNext == FireInv /\ [Next]_vars => FireInv'
<1> SUFFICES ASSUME FireInv, [Next]_vars PROVE FireInv'
  OBVIOUS
<1>row. row \in [Pairs -> [status : {"none", "pending", "failed", "dead", "done"},
                           attempts : Nat, due : BOOLEAN]]
  BY DEF FireInv, DispatchTypeOK
<1>1. CASE UNCHANGED <<row, runner, fired, failures>>
  BY <1>1, <1>row, FireAside
<1>2. ASSUME NEW p \in Pairs, BackoffElapses(p) PROVE FireInv'
  <2>1. /\ row' \in [Pairs -> [status : {"none", "pending", "failed", "dead", "done"},
                               attempts : Nat, due : BOOLEAN]]
        /\ \A s \in Pairs : row'[s].status = row[s].status
    BY <1>2, <1>row DEF BackoffElapses
  <2> QED
    BY <2>1, <1>2, FireAside DEF BackoffElapses
<1>3. ASSUME NEW x \in Runners, Step(x) PROVE FireInv'
  <2>1. ASSUME NEW p \in runner[x].todo, Claim(x, p) \/ RetryNext(x, p) PROVE FireInv'
    BY <2>1, FireClaim, FireRetryNext
  <2> QED
    BY <2>1, <1>3, FireLoadTriggers, FireActionSucceeds, FireActionFails, FireReadAttempts,
       FireRecord DEF Step
<1>4. ASSUME NEW t \in Triggers,
             ReadTrigger(t) \/ DeleteTrigger(t) \/ \E s \in {"on", "off"} : SaveTrigger(t, s)
      PROVE  UNCHANGED <<row, runner, fired, failures>>
  BY <1>4 DEF ReadTrigger, DeleteTrigger, SaveTrigger
<1> QED
  BY <1>1, <1>2, <1>3, <1>4, FireDeliver, FireRetryScan, FireCrash DEF Next, vars

(* While no run of a pair has failed, none of its actions has taken effect *)
(* twice: claimDispatch's insert and the retry query keep every second     *)
(* runner away, for any number of redeliveries, replicas and crashes.      *)
THEOREM NothingFiresTwice == Spec => []NoDoubleFire
<1>1. FireInv => NoDoubleFire
  BY DEF FireInv
<1> QED
  BY <1>1, InitFireInv, FireNext, PTL DEF Spec

---------------------------------------------------------------------------
(* The runners that have seen a run of p fail and not read its attempts yet: *)
(* each stands for a failure that no counter shows.                          *)
Reading(p) == {x \in Runners : runner[x].pc = "read" /\ runner[x].cur = {p}}

(* Those failures, and the recorded ones, did happen. *)
AttemptsCovered ==
    \A p \in Pairs : row[p].attempts + Cardinality(Reading(p)) <= failures[p]

(* A number about to be written is as true as the one in the row. *)
WritesCovered ==
    \A p \in Pairs, x \in Runners : runner[x].pc = "failed" /\ runner[x].cur = {p} =>
        runner[x].n + Cardinality(Reading(p)) <= failures[p]

DeadWasTried ==
    \A p \in Pairs : row[p].status = "dead" => failures[p] >= MaxAttempts

(* The actions before the next one have taken effect. *)
RunProgress ==
    \A p \in Pairs, x \in Runners : runner[x].cur = {p} =>
        /\ runner[x].pc = "act" => \A k \in 1..NumActions : k < runner[x].next => fired[p][k] >= 1
        /\ runner[x].pc = "done" => \A k \in 1..NumActions : fired[p][k] >= 1

DoneHasFired ==
    \A p \in Pairs : row[p].status = "done" => \A k \in 1..NumActions : fired[p][k] >= 1

TruthInv ==
    /\ AttemptsCovered /\ WritesCovered /\ DeadWasTried /\ RunProgress /\ DoneHasFired

LEMMA ReadingFinite ==
  ASSUME NEW p PROVE IsFiniteSet(Reading(p)) /\ Cardinality(Reading(p)) \in Nat
<1>1. IsFiniteSet(Runners) /\ Reading(p) \subseteq Runners
  BY DispatchAssumption DEF Runners, Reading
<1>2. IsFiniteSet(Reading(p))
  BY <1>1, FS_Subset, Zenon
<1> QED
  BY <1>2, FS_CardinalityType, Zenon

LEMMA InitTruthInv == Init => TruthInv
<1> SUFFICES ASSUME Init PROVE TruthInv
  OBVIOUS
<1>1. \A x \in Runners : runner[x].pc = "ready"
  BY DEF Init, Ready
<1>2. ASSUME NEW p \in Pairs PROVE Cardinality(Reading(p)) = 0
  <2>1. Reading(p) = {}
    BY <1>1 DEF Reading
  <2> QED
    BY <2>1, FS_EmptySet
<1>3. \A p \in Pairs : row[p].attempts = 0 /\ row[p].status = "none" /\ failures[p] = 0
  BY DEF Init, NoRow
<1> QED
  BY <1>1, <1>2, <1>3
     DEF TruthInv, AttemptsCovered, WritesCovered, DeadWasTried, RunProgress, DoneHasFired

(* Steps in which no runner fails, reads or finishes. *)
LEMMA TruthQuiet ==
  ASSUME FireInv, TruthInv, DispatchTypeOK', UNCHANGED <<fired, failures>>,
         \A y \in Runners : \/ runner'[y] = runner[y]
                            \/ /\ runner'[y].pc \notin {"read", "failed", "done"}
                               /\ runner'[y].pc = "act" => runner'[y].next = 1,
         \A p \in Pairs :
            /\ row'[p].attempts + Cardinality(Reading(p)) <= failures[p]
            /\ row'[p].status = "dead" => failures[p] >= MaxAttempts
            /\ row'[p].status = "done" => \A k \in 1..NumActions : fired[p][k] >= 1
  PROVE  TruthInv'
<1>inv. DispatchTypeOK /\ WritesCovered /\ RunProgress
  BY DEF FireInv, TruthInv
<1>1. ASSUME NEW p \in Pairs
      PROVE  /\ Cardinality(Reading(p)') <= Cardinality(Reading(p))
             /\ Cardinality(Reading(p)) \in Nat /\ Cardinality(Reading(p)') \in Nat
  <2>1. Reading(p)' \subseteq Reading(p)
    BY DEF Reading
  <2>2. IsFiniteSet(Reading(p))
    BY ReadingFinite
  <2> QED
    BY <2>1, <2>2, FS_Subset, FS_CardinalityType, Zenon
<1>2. AttemptsCovered'
  <2>1. ASSUME NEW p \in Pairs
        PROVE  row'[p].attempts + Cardinality(Reading(p)') <= failures'[p]
    <3>1. row'[p].attempts \in Nat /\ failures[p] \in Nat
      BY <1>inv DEF DispatchTypeOK
    <3> QED
      BY <3>1, <1>1
  <2> QED
    BY <2>1 DEF AttemptsCovered
<1>3. WritesCovered'
  <2>1. ASSUME NEW p \in Pairs, NEW x \in Runners, runner'[x].pc = "failed", runner'[x].cur = {p}
        PROVE  runner'[x].n + Cardinality(Reading(p)') <= failures'[p]
    <3>1. runner'[x] = runner[x]
      BY <2>1
    <3>2. runner[x].n \in Nat /\ failures[p] \in Nat
      BY <1>inv, RunnerFields DEF DispatchTypeOK
    <3>3. runner[x].n + Cardinality(Reading(p)) <= failures[p]
      BY <3>1, <2>1, <1>inv DEF WritesCovered
    <3> QED
      BY <3>1, <3>2, <3>3, <1>1
  <2> QED
    BY <2>1 DEF WritesCovered
<1>4. DeadWasTried' /\ DoneHasFired'
  BY DEF DeadWasTried, DoneHasFired
<1>5. RunProgress'
  <2>1. ASSUME NEW p \in Pairs, NEW x \in Runners, runner'[x].cur = {p}, NEW k \in 1..NumActions,
               (runner'[x].pc = "act" /\ k < runner'[x].next) \/ runner'[x].pc = "done"
        PROVE  fired[p][k] >= 1
    <3>1. runner'[x] = runner[x]
      BY <2>1
    <3> QED
      BY <3>1, <2>1, <1>inv DEF RunProgress
  <2> QED
    BY <2>1 DEF RunProgress
<1> QED
  BY <1>2, <1>3, <1>4, <1>5 DEF TruthInv

(* The row as it stands meets what TruthQuiet asks of it. *)
LEMMA RowStands ==
  ASSUME TruthInv, NEW p \in Pairs
  PROVE  /\ row[p].attempts + Cardinality(Reading(p)) <= failures[p]
         /\ row[p].status = "dead" => failures[p] >= MaxAttempts
         /\ row[p].status = "done" => \A k \in 1..NumActions : fired[p][k] >= 1
  BY DEF TruthInv, AttemptsCovered, DeadWasTried, DoneHasFired

LEMMA TruthTurned ==
  ASSUME FireInv, FireInv', TruthInv, NEW x \in Runners, NEW T \in SUBSET Pairs,
         runner' = TurnTo(x, T), UNCHANGED <<row, fired, failures>>
  PROVE  TruthInv'
<1>0. DispatchTypeOK /\ DispatchTypeOK'
  BY DEF FireInv
<1>1. /\ \A y \in Runners \ {x} : runner'[y] = runner[y]
      /\ runner'[x].pc \in {"match", "ready", "ended"}
  BY <1>0, Turned
<1> QED
  BY <1>0, <1>1, RowStands, TruthQuiet

LEMMA TruthRan ==
  ASSUME FireInv, FireInv', TruthInv, NEW x \in Runners, NEW p \in Pairs,
         runner' = Run(x, p), UNCHANGED <<fired, failures>>,
         row' = row \/ row' = [row EXCEPT ![p].status = "pending"]
  PROVE  TruthInv'
<1>0. DispatchTypeOK /\ DispatchTypeOK'
  BY DEF FireInv
<1>1. /\ \A y \in Runners \ {x} : runner'[y] = runner[y]
      /\ runner'[x].pc = "act" /\ runner'[x].next = 1
  BY <1>0, Ran
<1>2. \A s \in Pairs : /\ row'[s].attempts = row[s].attempts
                       /\ row'[s].status = row[s].status \/ row'[s].status = "pending"
  BY <1>0 DEF DispatchTypeOK
<1>3. ASSUME NEW s \in Pairs
      PROVE  /\ row'[s].attempts + Cardinality(Reading(s)) <= failures[s]
             /\ row'[s].status = "dead" => failures[s] >= MaxAttempts
             /\ row'[s].status = "done" => \A k \in 1..NumActions : fired[s][k] >= 1
  <2>1. /\ row[s].attempts + Cardinality(Reading(s)) <= failures[s]
        /\ row[s].status = "dead" => failures[s] >= MaxAttempts
        /\ row[s].status = "done" => \A k \in 1..NumActions : fired[s][k] >= 1
    BY RowStands
  <2> QED
    BY <2>1, <1>2
<1> QED
  BY <1>0, <1>1, <1>3, TruthQuiet

LEMMA TruthRecord ==
  ASSUME FireInv, FireInv', TruthInv, NEW x \in Runners, Record(x) PROVE TruthInv'
<1>0. DispatchTypeOK /\ DispatchTypeOK' /\ WritesCovered /\ RunProgress
  BY DEF FireInv, TruthInv
<1>1. /\ runner[x].pc \in {"done", "failed"} /\ runner[x].todo \in SUBSET Pairs
      /\ runner' = TurnTo(x, runner[x].todo) /\ UNCHANGED <<fired, failures>>
  BY DEF Record, FireInv, RunnerShape, Busy
<1>2. PICK p \in Pairs : runner[x].cur = {p}
  BY <1>1 DEF FireInv, RunnerShape, Busy
<1>3. Cur(x) = p
  BY <1>2, CurIs
<1>4. /\ \A y \in Runners \ {x} : runner'[y] = runner[y]
      /\ runner'[x].pc \in {"match", "ready", "ended"}
  BY <1>0, <1>1, Turned
<1>5. /\ \A s \in Pairs : s # p => row'[s] = row[s]
      /\ row'[p] = row[p] \/ row'[p] = Recorded(x)
  BY <1>0, <1>3 DEF Record, DispatchTypeOK
<1>6. /\ Recorded(x).attempts + Cardinality(Reading(p)) <= failures[p]
      /\ Recorded(x).status = "dead" => failures[p] >= MaxAttempts
      /\ Recorded(x).status = "done" => \A k \in 1..NumActions : fired[p][k] >= 1
  <2>1. CASE runner[x].pc = "done"
    <3>1. Recorded(x).attempts = row[p].attempts /\ Recorded(x).status = "done"
      BY <2>1, <1>0, <1>3 DEF Recorded, DispatchTypeOK
    <3>2. row[p].attempts + Cardinality(Reading(p)) <= failures[p]
      BY RowStands
    <3> QED
      BY <3>1, <3>2, <2>1, <1>0, <1>2 DEF RunProgress
  <2>2. CASE runner[x].pc = "failed"
    <3>1. /\ Recorded(x).attempts = runner[x].n
          /\ Recorded(x).status = IF Exhausted(runner[x].n) THEN "dead" ELSE "failed"
      BY <2>2 DEF Recorded
    <3>2. runner[x].n + Cardinality(Reading(p)) <= failures[p]
      BY <2>2, <1>0, <1>2 DEF WritesCovered
    <3>3. /\ Cardinality(Reading(p)) \in Nat /\ runner[x].n \in Nat /\ MaxAttempts \in Nat
          /\ failures[p] \in Nat
      BY <1>0, ReadingFinite, RunnerFields, DispatchAssumption DEF DispatchTypeOK
    <3>4. Exhausted(runner[x].n) => failures[p] >= MaxAttempts
      BY <3>2, <3>3 DEF Exhausted
    <3> QED
      BY <3>1, <3>2, <3>4
  <2> QED
    BY <2>1, <2>2, <1>1
<1>7. ASSUME NEW s \in Pairs
      PROVE  /\ row'[s].attempts + Cardinality(Reading(s)) <= failures[s]
             /\ row'[s].status = "dead" => failures[s] >= MaxAttempts
             /\ row'[s].status = "done" => \A k \in 1..NumActions : fired[s][k] >= 1
  <2>1. CASE row'[s] = row[s]
    BY <2>1, RowStands
  <2>2. CASE s = p /\ row'[p] = Recorded(x)
    BY <2>2, <1>6
  <2> QED
    BY <2>1, <2>2, <1>5
<1> QED
  BY <1>0, <1>1, <1>4, <1>7, TruthQuiet

(* An effect is never taken back. *)
LEMMA EffectGrows ==
  ASSUME DispatchTypeOK, NEW x \in Runners, NEW p \in Pairs, runner[x].cur = {p},
         Effect(x) \/ UNCHANGED fired
  PROVE  /\ \A s \in Pairs, k \in 1..NumActions : fired[s][k] >= 1 => fired'[s][k] >= 1
         /\ Effect(x) => fired'[p][runner[x].next] >= 1
<1>1. Cur(x) = p /\ runner[x].next \in 1..NumActions
  BY CurIs, RunnerFields
<1>2. fired \in [Pairs -> [1..NumActions -> 0..2]]
  BY DEF DispatchTypeOK
<1>3. CASE Effect(x)
  <2>1. fired' = [fired EXCEPT ![p][runner[x].next] = Once(fired[p][runner[x].next])]
    BY <1>1, <1>2, <1>3 DEF Effect
  <2>2. Once(fired[p][runner[x].next]) >= 1
    BY DEF Once
  <2>3. ASSUME NEW s \in Pairs, NEW k \in 1..NumActions
        PROVE  fired'[s][k] = IF s = p /\ k = runner[x].next
                              THEN Once(fired[p][runner[x].next]) ELSE fired[s][k]
    BY <2>1, <1>1, <1>2
  <2> QED
    BY <2>2, <2>3, <1>1
<1>4. CASE UNCHANGED fired /\ ~Effect(x)
  BY <1>4
<1> QED
  BY <1>3, <1>4

(* A step of a run of p, given what it does to the counters of p. *)
LEMMA TruthRun ==
  ASSUME FireInv, FireInv', TruthInv, NEW x \in Runners, NEW p \in Pairs, runner[x].cur = {p},
         row' = row, runner'[x].cur = {p},
         \A y \in Runners \ {x} : runner'[y] = runner[y],
         \A s \in Pairs, k \in 1..NumActions : fired[s][k] >= 1 => fired'[s][k] >= 1,
         \A s \in Pairs \ {p} : failures'[s] = failures[s],
         NEW c \in Int, Cardinality(Reading(p)') = Cardinality(Reading(p)) + c,
         failures'[p] >= failures[p], failures'[p] >= failures[p] + c,
         runner'[x].pc = "failed" => runner'[x].n + Cardinality(Reading(p)') <= failures'[p],
         runner'[x].pc = "act" =>
             \A k \in 1..NumActions : k < runner'[x].next => fired'[p][k] >= 1,
         runner'[x].pc = "done" => \A k \in 1..NumActions : fired'[p][k] >= 1
  PROVE  TruthInv'
<1>0. DispatchTypeOK /\ DispatchTypeOK' /\ AttemptsCovered /\ WritesCovered /\ RunProgress
  BY DEF FireInv, TruthInv
<1>1. ASSUME NEW s \in Pairs \ {p} PROVE Cardinality(Reading(s)') = Cardinality(Reading(s))
  <2>1. Reading(s)' = Reading(s)
    BY DEF Reading
  <2> QED
    BY <2>1
<1>nat. \A s \in Pairs : /\ Cardinality(Reading(s)) \in Nat /\ failures[s] \in Nat
                         /\ failures'[s] \in Nat /\ row[s].attempts \in Nat
  BY <1>0, ReadingFinite DEF DispatchTypeOK
<1>2. AttemptsCovered'
  <2>1. ASSUME NEW s \in Pairs
        PROVE  row'[s].attempts + Cardinality(Reading(s)') <= failures'[s]
    <3>1. row[s].attempts + Cardinality(Reading(s)) <= failures[s]
      BY <1>0 DEF AttemptsCovered
    <3> QED
      BY <3>1, <1>1, <1>nat
  <2> QED
    BY <2>1 DEF AttemptsCovered
<1>3. WritesCovered'
  <2>1. ASSUME NEW s \in Pairs, NEW y \in Runners, runner'[y].pc = "failed", runner'[y].cur = {s}
        PROVE  runner'[y].n + Cardinality(Reading(s)') <= failures'[s]
    <3>1. CASE y = x
      <4>1. s = p
        BY <3>1, <2>1
      <4> QED
        BY <4>1, <3>1, <2>1
    <3>2. CASE y # x
      <4>1. runner'[y] = runner[y]
        BY <3>2
      <4>2. runner[y].n + Cardinality(Reading(s)) <= failures[s]
        BY <4>1, <2>1, <1>0 DEF WritesCovered
      <4>3. runner[y].n \in Nat
        BY <1>0, RunnerFields
      <4> QED
        BY <4>1, <4>2, <4>3, <1>1, <1>nat
    <3> QED
      BY <3>1, <3>2
  <2> QED
    BY <2>1 DEF WritesCovered
<1>4. DeadWasTried'
  <2>1. MaxAttempts \in Nat
    BY DispatchAssumption
  <2>2. ASSUME NEW s \in Pairs, row[s].status = "dead" PROVE failures'[s] >= MaxAttempts
    <3>1. failures[s] >= MaxAttempts
      BY <2>2, RowStands
    <3> QED
      BY <3>1, <2>1, <1>nat
  <2> QED
    BY <2>2 DEF DeadWasTried
<1>5. DoneHasFired'
  <2>1. ASSUME NEW s \in Pairs, row[s].status = "done", NEW k \in 1..NumActions
        PROVE  fired'[s][k] >= 1
    BY <2>1, RowStands
  <2> QED
    BY <2>1 DEF DoneHasFired
<1>6. RunProgress'
  <2>1. ASSUME NEW s \in Pairs, NEW y \in Runners, runner'[y].cur = {s}, NEW k \in 1..NumActions,
               (runner'[y].pc = "act" /\ k < runner'[y].next) \/ runner'[y].pc = "done"
        PROVE  fired'[s][k] >= 1
    <3>1. CASE y = x
      <4>1. s = p
        BY <3>1, <2>1
      <4> QED
        BY <4>1, <3>1, <2>1
    <3>2. CASE y # x
      BY <3>2, <2>1, <1>0 DEF RunProgress
    <3> QED
      BY <3>1, <3>2
  <2> QED
    BY <2>1 DEF RunProgress
<1> QED
  BY <1>2, <1>3, <1>4, <1>5, <1>6 DEF TruthInv

LEMMA TruthActionSucceeds ==
  ASSUME FireInv, FireInv', TruthInv, NEW x \in Runners, ActionSucceeds(x) PROVE TruthInv'
<1>0. DispatchTypeOK /\ RunProgress
  BY DEF FireInv, TruthInv
<1>1. PICK p \in Pairs : runner[x].cur = {p}
  BY DEF FireInv, RunnerShape, ActionSucceeds, Busy
<1>2. /\ runner[x].next \in 1..NumActions /\ NumActions \in Nat /\ runner[x].pc = "act"
      /\ UNCHANGED <<row, failures>> /\ Effect(x)
  BY <1>0, RunnerFields, DispatchAssumption DEF ActionSucceeds
<1>3. /\ \A y \in Runners \ {x} : runner'[y] = runner[y]
      /\ runner'[x].cur = {p}
      /\ \/ runner'[x].pc = "act" /\ runner'[x].next = runner[x].next + 1
         \/ runner'[x].pc = "done" /\ runner[x].next = NumActions
  BY <1>0, <1>1, <1>2 DEF ActionSucceeds, DispatchTypeOK, RunnerType
<1>4. /\ \A s \in Pairs, k \in 1..NumActions : fired[s][k] >= 1 => fired'[s][k] >= 1
      /\ fired'[p][runner[x].next] >= 1
  BY <1>0, <1>1, <1>2, EffectGrows
<1>5. Cardinality(Reading(p)') = Cardinality(Reading(p)) + 0
  <2>1. Reading(p)' = Reading(p)
    BY <1>2, <1>3 DEF Reading
  <2>2. Cardinality(Reading(p)) \in Nat
    BY ReadingFinite
  <2> QED
    BY <2>1, <2>2
<1>6. \A k \in 1..NumActions : k <= runner[x].next => fired'[p][k] >= 1
  <2>1. \A k \in 1..NumActions : k < runner[x].next => fired[p][k] >= 1
    BY <1>0, <1>1, <1>2 DEF RunProgress
  <2> QED
    BY <2>1, <1>2, <1>4
<1>7. /\ runner'[x].pc = "act" =>
             \A k \in 1..NumActions : k < runner'[x].next => fired'[p][k] >= 1
      /\ runner'[x].pc = "done" => \A k \in 1..NumActions : fired'[p][k] >= 1
      /\ runner'[x].pc # "failed"
  BY <1>2, <1>3, <1>6
<1>8. failures'[p] >= failures[p] /\ failures'[p] >= failures[p] + 0
  BY <1>0, <1>2 DEF DispatchTypeOK
<1> QED
  BY <1>1, <1>2, <1>3, <1>4, <1>5, <1>7, <1>8, TruthRun

LEMMA TruthActionFails ==
  ASSUME FireInv, FireInv', TruthInv, NEW x \in Runners, ActionFails(x) PROVE TruthInv'
<1>0. DispatchTypeOK
  BY DEF FireInv
<1>1. PICK p \in Pairs : runner[x].cur = {p}
  BY DEF FireInv, RunnerShape, ActionFails, Busy
<1>2. Cur(x) = p /\ runner[x].pc = "act" /\ row' = row
  BY <1>1, CurIs DEF ActionFails
<1>3. /\ \A y \in Runners \ {x} : runner'[y] = runner[y]
      /\ runner'[x].cur = {p} /\ runner'[x].pc = "read"
  BY <1>0, <1>1 DEF ActionFails, Goto, AfterFailure, DispatchTypeOK, RunnerType
<1>4. \A s \in Pairs, k \in 1..NumActions : fired[s][k] >= 1 => fired'[s][k] >= 1
  BY <1>0, <1>1, EffectGrows DEF ActionFails
<1>5. Cardinality(Reading(p)') = Cardinality(Reading(p)) + 1
  <2>1. Reading(p)' = Reading(p) \cup {x} /\ x \notin Reading(p)
    BY <1>2, <1>3 DEF Reading
  <2>2. IsFiniteSet(Reading(p))
    BY ReadingFinite
  <2> QED
    BY <2>1, <2>2, FS_AddElement
<1>6. /\ \A s \in Pairs \ {p} : failures'[s] = failures[s]
      /\ failures'[p] = failures[p] + 1
  BY <1>0, <1>2 DEF ActionFails, DispatchTypeOK
<1>7. failures'[p] >= failures[p] /\ failures'[p] >= failures[p] + 1
  BY <1>0, <1>6 DEF DispatchTypeOK
<1> QED
  BY <1>1, <1>2, <1>3, <1>4, <1>5, <1>6, <1>7, TruthRun

LEMMA TruthReadAttempts ==
  ASSUME FireInv, FireInv', TruthInv, NEW x \in Runners, ReadAttempts(x) PROVE TruthInv'
<1>0. DispatchTypeOK
  BY DEF FireInv
<1>1. PICK p \in Pairs : runner[x].cur = {p}
  BY DEF FireInv, RunnerShape, ReadAttempts, Busy
<1>2. Cur(x) = p /\ runner[x].pc = "read" /\ UNCHANGED <<row, fired, failures>>
  BY <1>1, CurIs DEF ReadAttempts
<1>3. /\ \A y \in Runners \ {x} : runner'[y] = runner[y]
      /\ runner'[x].cur = {p} /\ runner'[x].pc = "failed"
      /\ runner'[x].n \in {1, row[p].attempts + 1}
  <2>1. PICK m \in {1, row[p].attempts + 1} :
           runner' = [runner EXCEPT ![x].pc = "failed", ![x].n = m]
    BY <1>2 DEF ReadAttempts
  <2> QED
    BY <2>1, <1>0, <1>1 DEF DispatchTypeOK, RunnerType
<1>5. Cardinality(Reading(p)') = Cardinality(Reading(p)) + (-1)
  <2>1. Reading(p)' = Reading(p) \ {x} /\ x \in Reading(p)
    BY <1>1, <1>2, <1>3 DEF Reading
  <2>2. IsFiniteSet(Reading(p)) /\ Cardinality(Reading(p)) \in Nat
    BY ReadingFinite
  <2>3. Cardinality(Reading(p)') = Cardinality(Reading(p)) - 1
    BY <2>1, <2>2, FS_RemoveElement
  <2> QED
    BY <2>2, <2>3
<1>6. row[p].attempts + Cardinality(Reading(p)) <= failures[p]
  BY RowStands
<1>7. /\ row[p].attempts \in Nat /\ failures[p] \in Nat /\ Cardinality(Reading(p)) \in Nat
  BY <1>0, ReadingFinite DEF DispatchTypeOK
<1>8. runner'[x].n + Cardinality(Reading(p)') <= failures'[p]
  BY <1>2, <1>3, <1>5, <1>6, <1>7
<1>9. failures'[p] >= failures[p] /\ failures'[p] >= failures[p] + (-1) /\ -1 \in Int
  BY <1>2, <1>7
<1> QED
  BY <1>1, <1>2, <1>3, <1>5, <1>8, <1>9, TruthRun

LEMMA TruthNext == FireInv /\ FireInv' /\ TruthInv /\ [Next]_vars => TruthInv'
<1> SUFFICES ASSUME FireInv, FireInv', TruthInv, [Next]_vars PROVE TruthInv'
  OBVIOUS
<1>0. DispatchTypeOK /\ DispatchTypeOK'
  BY DEF FireInv
<1>1. ASSUME UNCHANGED <<row, fired, failures>>,
             \A y \in Runners : \/ runner'[y] = runner[y]
                                \/ runner'[y].pc \in {"ready", "load", "match", "ended"}
      PROVE  TruthInv'
  BY <1>0, <1>1, RowStands, TruthQuiet
<1>2. ASSUME NEW d \in Deliveries, NEW e \in Events, NEW r \in Replicas, Deliver(d, e, r)
      PROVE  TruthInv'
  <2>1. \A y \in Runners : runner'[y] = runner[y] \/ runner'[y].pc = "load"
    BY <1>0, <1>2 DEF Deliver, DispatchTypeOK, RunnerType
  <2> QED
    BY <2>1, <1>1, <1>2 DEF Deliver
<1>3. ASSUME NEW r \in Replicas, RetryScan(r) PROVE TruthInv'
  <2>1. \A y \in Runners : runner'[y] = runner[y] \/ runner'[y].pc = "match"
    BY <1>0, <1>3 DEF RetryScan, DispatchTypeOK, RunnerType
  <2> QED
    BY <2>1, <1>1, <1>3 DEF RetryScan
<1>4. ASSUME NEW r \in Replicas, Crash(r) PROVE TruthInv'
  <2>1. \A y \in Runners : runner'[y] = runner[y] \/ runner'[y].pc \in {"ready", "ended"}
    BY <1>4 DEF Crash, Ready, Ended
  <2> QED
    BY <2>1, <1>1, <1>4 DEF Crash
<1>5. ASSUME NEW p \in Pairs, BackoffElapses(p) PROVE TruthInv'
  <2>1. \A s \in Pairs : row'[s].status = row[s].status /\ row'[s].attempts = row[s].attempts
    BY <1>0, <1>5 DEF BackoffElapses, DispatchTypeOK
  <2>2. UNCHANGED <<runner, fired, failures>>
    BY <1>5 DEF BackoffElapses
  <2> QED
    BY <2>1, <2>2, <1>0, RowStands, TruthQuiet
<1>6. ASSUME NEW x \in Runners, NEW p \in runner[x].todo, Claim(x, p) \/ RetryNext(x, p)
      PROVE  TruthInv'
  <2>1. runner[x].todo \subseteq Pairs /\ p \in Pairs /\ UNCHANGED <<fired, failures>>
    BY <1>6 DEF Claim, RetryNext, FireInv, RunnerShape
  <2>2. CASE runner' = Skip(x, p) /\ row' = row
    <3>1. runner[x].todo \ {p} \in SUBSET Pairs /\ runner' = TurnTo(x, runner[x].todo \ {p})
      BY <2>1, <2>2 DEF Skip
    <3> QED
      BY <3>1, <2>1, <2>2, TruthTurned
  <2>3. CASE runner' = Run(x, p) /\ (row' = row \/ row' = [row EXCEPT ![p].status = "pending"])
    BY <2>1, <2>3, TruthRan
  <2> QED
    BY <2>2, <2>3, <1>6 DEF Claim, RetryNext
<1>7. ASSUME NEW x \in Runners, LoadTriggers(x) PROVE TruthInv'
  <2>1. {p \in Matches : p[2] \in runner[x].todo /\ trigger[p[1]] = "on"} \in SUBSET Pairs
    BY DispatchAssumption DEF Pairs
  <2>2. PICK T \in SUBSET Pairs : runner' = TurnTo(x, T)
    BY <2>1, <1>7 DEF LoadTriggers
  <2> QED
    BY <2>2, <1>7, TruthTurned DEF LoadTriggers
<1>8. ASSUME NEW x \in Runners, Step(x) PROVE TruthInv'
  BY <1>6, <1>7, <1>8, TruthActionSucceeds, TruthActionFails, TruthReadAttempts, TruthRecord
     DEF Step
<1>9. ASSUME NEW t \in Triggers,
             ReadTrigger(t) \/ DeleteTrigger(t) \/ \E s \in {"on", "off"} : SaveTrigger(t, s)
      PROVE  UNCHANGED <<row, runner, fired, failures>>
  BY <1>9 DEF ReadTrigger, DeleteTrigger, SaveTrigger
<1> QED
  BY <1>1, <1>2, <1>3, <1>4, <1>5, <1>8, <1>9 DEF Next, vars

(* The row of a pair tells the truth: attempts lost by concurrent retries  *)
(* and late writes are never invented, a dead one failed maxDispatchAttempts *)
(* times, and a done one has had every action take effect, whatever number  *)
(* of replicas retried it at once.                                          *)
THEOREM RowsAreTruthful == Spec => []RowIsTruthful
<1>1. ASSUME FireInv, TruthInv PROVE RowIsTruthful
  <2>1. ASSUME NEW p \in Pairs PROVE row[p].attempts <= failures[p]
    <3>1. row[p].attempts \in Nat /\ failures[p] \in Nat /\ Cardinality(Reading(p)) \in Nat
      BY <1>1, ReadingFinite DEF FireInv, DispatchTypeOK
    <3>2. row[p].attempts + Cardinality(Reading(p)) <= failures[p]
      BY <1>1, RowStands
    <3> QED
      BY <3>1, <3>2
  <2> QED
    BY <2>1, <1>1, RowStands DEF RowIsTruthful
<1>2. Init => FireInv /\ TruthInv
  BY InitFireInv, InitTruthInv
<1>3. FireInv /\ TruthInv /\ [Next]_vars => (FireInv /\ TruthInv)'
  BY FireNext, TruthNext
<1> QED
  BY <1>1, <1>2, <1>3, PTL DEF Spec

=============================================================================
