--------------------------- MODULE Fanout_proofs ---------------------------
(***************************************************************************)
(* Theorems about the fan-outs of a run, for any tasks, legs, iterations,  *)
(* limits, tolerance and budget.                                           *)
(***************************************************************************)
EXTENDS Fanout, FiniteSetTheorems, SequenceTheorems, TLAPS

----------------------------------------------------------------------------
(* The inductive invariant *)

TaskAt == {"init", "leg", "slot", "exec", "release", "done"}
IterAt == {"slot", "check", "create", "clone", "body", "leg", "exec", "gather",
           "cleanup", "report", "done"}
LoopAt == {"attempt", "body", "leg", "exec", "decide", "done"}
Pass == [status : Status, met : {"yes", "no", "error", "unasked"}]

FanTypeOK ==
    /\ shape \subseteq Units
    /\ pc \in [Units -> TaskAt \cup IterAt \cup LoopAt]
    /\ res \in [Units -> Status \cup {"none"}]
    /\ row \in [Units -> Status \cup {"none", "open"}]
    /\ slot \subseteq Units /\ vols \subseteq Units
    /\ ctx \in {"live", "dead"} /\ tripped \in BOOLEAN
    /\ status \in Status /\ lstatus \in Status
    /\ until \in BOOLEAN /\ passes \in Seq(Pass)
    /\ ret \in [Nodes -> Status \cup {"absent", "no", "aborted"}]

(* Where the goroutine of each kind of unit may be. *)
Places ==
    /\ \A u \in Units : u \notin shape => pc[u] = "done"
    /\ \A u \in Tasks \cup Legs : pc[u] \in TaskAt
    /\ \A i \in Iters : pc[i] \in IterAt
    /\ \A u \in Loops : pc[u] \in LoopAt /\ (pc[u] = "decide" => res[u] \in Status)

(* A task has no row before its group starts; a body's row is open only      *)
(* while its step waits for a leg or runs.                                   *)
RowsOpen ==
    /\ \A t \in Tasks : pc[t] = "init" => row[t] = "none"
    /\ \A u \in Bodies : row[u] = "open" => pc[u] \in {"leg", "exec"}

(* A node that has returned has nothing left to do. *)
ReturnedIsOver ==
    /\ Returned("matrix") => AllCollected
    /\ ret["map"] # "no" => \A i \in Has("map") : pc[i] = "done"
    /\ ret["loop"] # "no" => \A u \in Has("loop") : pc[u] = "done"

(* The group's status is the worst row so far, and what it returns. *)
GroupSoFar ==
    /\ status = "failed" <=> \E t \in Has("matrix") : row[t] = "failed"
    /\ status = "completed" <=> \A t \in Has("matrix") : row[t] \notin {"failed", "cancelled"}
    /\ Returned("matrix") => ret["matrix"] = status

(* The map has tripped exactly when its reported failures exceed the         *)
(* tolerance, and that decides what it returns in a run nobody cancelled.    *)
TripIsExact ==
    /\ tripped <=> Cardinality(Failures) > MaxFail
    /\ Returned("map") /\ ctx = "live" => ret["map"] = ToleranceOnly

(* The attempts of a loop that is still running. *)
LoopSoFar ==
    /\ ret["loop"] = "no" =>
          /\ Len(passes) < LoopTimes
          /\ \A k \in 1..Len(passes) : passes[k].met \in {"no", "unasked"}
          /\ ~until =>
                /\ lstatus = "completed" => \A k \in 1..Len(passes) : passes[k].status = "completed"
                /\ lstatus # "completed" => \E k \in 1..Len(passes) : passes[k].status = lstatus
    /\ LoopVerdict

(* An iteration past its wait for a slot holds one, and slots are limited. *)
Inside == {"check", "create", "clone", "body", "leg", "exec", "gather", "cleanup", "report"}
SlotsHeld ==
    /\ \A i \in Iters : pc[i] \in Inside => i \in slot
    /\ Cardinality(slot \cap Iters) <= MapConcurrency

FanInv ==
    /\ FanTypeOK /\ Places /\ RowsOpen /\ ReturnedIsOver /\ GroupSoFar
    /\ TripIsExact /\ LoopSoFar /\ SlotsHeld

(* An iteration that was given up had a dead context, if nobody else cancels *)
(* its job; a green map therefore gave none up.                              *)
GivenUpIsDead ==
    /\ \A i \in Has("map") : res[i] = "cancelled" => Dead(i)
    /\ GreenRanAll

(* While the map goes on, a clone belongs to an iteration that has a slot.   *)
(* Once its context is dead no more are made, and some may be left behind.   *)
Cloned == {"clone", "body", "leg", "exec", "gather", "cleanup"}
ClonesHeld ==
    /\ vols \subseteq Iters
    /\ ctx = "live" /\ ~tripped => \A i \in vols : pc[i] \in Cloned
    /\ ClonesWithinSlots

----------------------------------------------------------------------------
(* Facts about the constants *)

LEMMA OfNodes ==
  /\ Of("matrix") = Tasks /\ Of("scatter") = Legs /\ Of("map") = Iters /\ Of("loop") = Loops
  /\ Has("matrix") = shape \cap Tasks /\ Has("scatter") = shape \cap Legs
  /\ Has("map") = shape \cap Iters /\ Has("loop") = shape \cap Loops
  /\ Concurrency("map") = MapConcurrency
  BY DEF Of, Has, Concurrency

LEMMA Disjoint ==
  /\ Tasks \cap Legs = {} /\ Tasks \cap Iters = {} /\ Tasks \cap Loops = {}
  /\ Legs \cap Iters = {} /\ Legs \cap Loops = {} /\ Iters \cap Loops = {}
<1>1. \A m, n \in Nodes : m # n => Of(m) \cap Of(n) = {}
  BY FanoutConstants
<1>2. {"matrix", "scatter", "map", "loop"} \subseteq Nodes
  BY DEF Nodes
<1> QED
  BY <1>1, <1>2, OfNodes

LEMMA Numbers ==
  /\ MapConcurrency \in Nat \ {0}
  /\ LoopTimes \in Nat /\ LoopTimes >= 1
<1>1. MapConcurrency \in Nat \ {0}
  BY FanoutConstants, OfNodes DEF Nodes
<1>2. LoopTimes \in Nat /\ LoopTimes >= 1
  BY FanoutConstants DEF LoopTimes
<1> QED
  BY <1>1, <1>2

(* An iteration's node is the map. *)
LEMMA IterNode == ASSUME NEW i \in Iters PROVE NodeOf(i) = "map"
<1>1. "map" \in Nodes /\ i \in Of("map")
  BY OfNodes DEF Nodes
<1>2. \A n \in Nodes : i \in Of(n) => n = "map"
  BY <1>1, FanoutConstants
<1> QED
  BY <1>1, <1>2, Zenon DEF NodeOf

LEMMA LoopIsOne == ASSUME NEW u \in Loops, NEW v \in Loops PROVE u = v
<1>1. IsFiniteSet(Loops)
  BY FanoutConstants, FS_Subset DEF Units
<1>2. Cardinality(Loops) \in Nat /\ Cardinality(Loops) <= 1
  BY <1>1, FS_CardinalityType, FanoutConstants
<1>3. SUFFICES ASSUME u # v PROVE FALSE
  OBVIOUS
<1>4. {u, v} \subseteq Loops /\ IsFiniteSet({u, v})
  BY <1>1, FS_Subset
<1>5. Cardinality({u, v}) = 2
  <2>1. IsFiniteSet({u}) /\ Cardinality({u}) = 1
    BY FS_Singleton
  <2>2. {u, v} = {u} \cup {v} /\ v \notin {u}
    BY <1>3
  <2> QED
    BY <2>1, <2>2, FS_AddElement
<1> QED
  BY <1>1, <1>2, <1>4, <1>5, FS_Subset

(* The tolerated failures are a number that depends on the run's shape only. *)
LEMMA MaxFailNat == ASSUME shape \subseteq Units PROVE MaxFail \in Nat
<1>1. IsFiniteSet(Has("map"))
  <2>1. Has("map") \subseteq Units
    BY OfNodes
  <2> QED
    BY <2>1, FanoutConstants, FS_Subset
<1>2. PICK n \in Nat : n = Cardinality(Has("map"))
  BY <1>1, FS_CardinalityType
<1>3. PICK t \in Nat : t = FailureTolerance
  BY FanoutConstants
<1>4. \A m \in Nat : m \div 100 \in Nat
  OBVIOUS
<1>5. t * n \in Nat
  OBVIOUS
<1>6. MaxFail = IF t >= 100 THEN n ELSE (t * n) \div 100
  BY <1>2, <1>3 DEF MaxFail
<1> QED
  BY <1>4, <1>5, <1>6

(* What a goroutine's place says about its unit. *)
LEMMA Kinds ==
  ASSUME FanTypeOK, Places, NEW u \in Units
  PROVE  /\ pc[u] # "done" => u \in shape
         /\ pc[u] \in {"check", "create", "clone", "gather", "cleanup", "report"} => u \in Iters
         /\ pc[u] \in {"attempt", "decide"} => u \in Loops
         /\ pc[u] = "body" => u \in Bodies
         /\ pc[u] \in {"init", "release"} => u \in Tasks \cup Legs
         /\ pc[u] = "slot" => u \notin Loops
  BY DEF Places, Units, Bodies, TaskAt, IterAt, LoopAt

----------------------------------------------------------------------------
(* How a goroutine's step changes the state *)

(* A goroutine moves its own unit only, and a unit that is done stays so. *)
Alone(u) ==
    /\ shape' = shape /\ ctx' = ctx /\ until' = until
    /\ \A v \in Units : v # u =>
          /\ pc'[v] = pc[v] /\ res'[v] = res[v] /\ row'[v] = row[v]
          /\ (v \in slot' <=> v \in slot) /\ (v \in vols' <=> v \in vols)
    /\ pc[u] = "done" => pc'[u] = "done" /\ res'[u] = res[u]

LEMMA LegSteps ==
  ASSUME FanTypeOK, Places, NEW u \in Units,
         AcquireLeg(u) \/ GiveUpLeg(u) \/ AcquireSlot(u) \/ GiveUpSlot(u) \/ Release(u)
  PROVE  FanTypeOK' /\ Places' /\ Alone(u)
<1> USE Disjoint, Kinds
<1>1. CASE AcquireLeg(u)
  BY <1>1 DEF AcquireLeg, Goto, FanTypeOK, Places, Alone, TaskAt, IterAt, LoopAt, Bodies, Units,
     loopVars
<1>2. CASE GiveUpLeg(u)
  BY <1>2 DEF GiveUpLeg, Goto, Result, AfterBody, FanTypeOK, Places, Alone, TaskAt, IterAt, LoopAt,
     Bodies, Units, loopVars, Status
<1>3. CASE AcquireSlot(u)
  BY <1>3 DEF AcquireSlot, Goto, FanTypeOK, Places, Alone, TaskAt, IterAt, LoopAt, Bodies, Units,
     loopVars
<1>4. CASE GiveUpSlot(u)
  BY <1>4 DEF GiveUpSlot, Goto, Result, FanTypeOK, Places, Alone, TaskAt, IterAt, LoopAt,
     Bodies, Units, loopVars, Status
<1>5. CASE Release(u)
  BY <1>5 DEF Release, Goto, FanTypeOK, Places, Alone, TaskAt, IterAt, LoopAt, Bodies, Units,
     loopVars
<1> QED
  BY <1>1, <1>2, <1>3, <1>4, <1>5

LEMMA StepSteps ==
  ASSUME FanTypeOK, Places, NEW u \in Units,
         \/ \E o \in Status : ExecuteTask(u, o) \/ ExecuteLeg(u, o) \/ ExecuteBody(u, o)
         \/ CollectTask(u)
  PROVE  FanTypeOK' /\ Places' /\ Alone(u)
<1> USE Disjoint, Kinds
<1>1. ASSUME NEW o \in Status, ExecuteTask(u, o) PROVE FanTypeOK' /\ Places' /\ Alone(u)
  BY <1>1 DEF ExecuteTask, Goto, Result, FanTypeOK, Places, Alone, TaskAt, IterAt, LoopAt,
     Bodies, Units, loopVars
<1>2. ASSUME NEW o \in Status, ExecuteLeg(u, o) PROVE FanTypeOK' /\ Places' /\ Alone(u)
  BY <1>2 DEF ExecuteLeg, LegStatus, Goto, Result, Row, FanTypeOK, Places, Alone, TaskAt, IterAt,
     LoopAt, Bodies, Units, loopVars, Status
<1>3. ASSUME NEW o \in Status, ExecuteBody(u, o) PROVE FanTypeOK' /\ Places' /\ Alone(u)
  BY <1>3 DEF ExecuteBody, AfterBody, Goto, Result, Row, FanTypeOK, Places, Alone, TaskAt, IterAt,
     LoopAt, Bodies, Units, loopVars
<1>4. CASE CollectTask(u)
  <2>1. StatusAfter(res[u]) \in Status
    BY DEF StatusAfter, Status, FanTypeOK
  <2> QED
    BY <1>4, <2>1 DEF CollectTask, Row, FanTypeOK, Places, Alone, Units, loopVars
<1> QED
  BY <1>1, <1>2, <1>3, <1>4

LEMMA MapSteps ==
  ASSUME FanTypeOK, Places, NEW u \in Units,
         \/ Check(u) \/ CreateVolume(u) \/ CloneVolume(u) \/ StartBody(u)
         \/ \E s \in Status : Gather(u, s)
         \/ Cleanup(u) \/ Report(u)
  PROVE  FanTypeOK' /\ Places' /\ Alone(u)
<1> USE Disjoint, Kinds
<1>1. CASE Check(u)
  BY <1>1 DEF Check, Goto, Result, FanTypeOK, Places, Alone, TaskAt, IterAt, LoopAt, Units,
     loopVars, Status
<1>2. CASE CreateVolume(u)
  <2>1. u \in Iters
    BY <1>2 DEF CreateVolume
  <2>2. /\ pc' = [pc EXCEPT ![u] = pc'[u]] /\ pc'[u] \in {"clone", "report"}
        /\ res' = [res EXCEPT ![u] = res'[u]] /\ res'[u] \in {res[u], "failed"}
        /\ vols' \in {vols, vols \cup {u}}
    BY <1>2 DEF CreateVolume, Goto, Result, FanTypeOK
  <2> QED
    BY <1>2, <2>1, <2>2 DEF CreateVolume, FanTypeOK, Places, Alone, TaskAt, IterAt, LoopAt, Units,
       loopVars, Status
<1>3. CASE CloneVolume(u)
  BY <1>3 DEF CloneVolume, Goto, Result, FanTypeOK, Places, Alone, TaskAt, IterAt, LoopAt, Units,
     loopVars, Status
<1>4. CASE StartBody(u)
  BY <1>4 DEF StartBody, AfterBody, Goto, Result, Row, FanTypeOK, Places, Alone, TaskAt, IterAt,
     LoopAt, Bodies, Units, loopVars, Status
<1>5. ASSUME NEW s \in Status, Gather(u, s) PROVE FanTypeOK' /\ Places' /\ Alone(u)
  BY <1>5 DEF Gather, Goto, Result, FanTypeOK, Places, Alone, TaskAt, IterAt, LoopAt, Units,
     loopVars
<1>6. CASE Cleanup(u)
  BY <1>6 DEF Cleanup, ClonesAfter, Goto, FanTypeOK, Places, Alone, TaskAt, IterAt, LoopAt, Units,
     loopVars
<1>7. CASE Report(u)
  BY <1>7 DEF Report, Goto, FanTypeOK, Places, Alone, TaskAt, IterAt, LoopAt, Units, loopVars
<1> QED
  BY <1>1, <1>2, <1>3, <1>4, <1>5, <1>6, <1>7

LEMMA LoopSteps ==
  ASSUME FanTypeOK, Places, NEW u \in Units,
         Attempt(u) \/ \E met \in {"yes", "no", "error", "unasked"} : Decide(u, met)
  PROVE  FanTypeOK' /\ Places' /\ Alone(u)
<1> USE Disjoint, Kinds
<1>1. CASE Attempt(u)
  BY <1>1 DEF Attempt, Goto, FanTypeOK, Places, Alone, TaskAt, IterAt, LoopAt, Units,
     loopVars, Status, Nodes
<1>2. ASSUME NEW met \in {"yes", "no", "error", "unasked"}, Decide(u, met)
      PROVE  FanTypeOK' /\ Places' /\ Alone(u)
  <2>1. u \in Loops /\ IterStatus(u) \in Status
    BY <1>2 DEF Decide, IterStatus, Worst, Status, Places
  <2>2. [status |-> IterStatus(u), met |-> met] \in Pass
    BY <2>1 DEF Pass
  <2>3. passes' \in Seq(Pass)
    BY <1>2, <2>2 DEF Decide, FanTypeOK
  <2>4. lstatus' \in Status
    BY <1>2, <2>1 DEF Decide, Worst, Status, FanTypeOK
  <2>5. /\ pc' = [pc EXCEPT ![u] = pc'[u]] /\ pc'[u] \in {"done", "attempt"}
        /\ ret' = [ret EXCEPT !["loop"] = ret'["loop"]]
        /\ ret'["loop"] \in Status \cup {ret["loop"]}
        /\ row' = [row EXCEPT ![u] = row'[u]] /\ row'[u] \in {row[u], "failed"}
    BY <1>2, <2>4 DEF Decide, LoopFail, Goto, Row, FanTypeOK, Status, Nodes
  <2>6. UNCHANGED <<shape, res, legs, slot, vols, ctx, tripped, status, until>> /\ pc[u] = "decide"
    BY <1>2 DEF Decide
  <2>7. FanTypeOK'
    <3>1. /\ pc' \in [Units -> TaskAt \cup IterAt \cup LoopAt]
          /\ row' \in [Units -> Status \cup {"none", "open"}]
          /\ ret' \in [Nodes -> Status \cup {"absent", "no", "aborted"}]
      BY <2>5 DEF FanTypeOK, TaskAt, Nodes, Status, LoopAt
    <3> QED
      BY <2>3, <2>4, <2>6, <3>1 DEF FanTypeOK
  <2>8. Places'
    BY <2>1, <2>5, <2>6 DEF FanTypeOK, Places, TaskAt, IterAt, LoopAt, Units
  <2>9. Alone(u)
    BY <2>5, <2>6 DEF FanTypeOK, Alone
  <2> QED
    BY <2>7, <2>8, <2>9
<1> QED
  BY <1>1, <1>2

LEMMA GoroutineSteps ==
  ASSUME FanTypeOK, Places, NEW u \in Units, Goroutine(u)
  PROVE  FanTypeOK' /\ Places' /\ Alone(u)
  BY LegSteps, StepSteps, MapSteps, LoopSteps DEF Goroutine

(* What each variable owes to which step of a goroutine. *)
Local(u) ==
    /\ u \in Tasks /\ pc'[u] = "init" => pc[u] = "init" /\ row'[u] = row[u]
    /\ u \in Bodies /\ row'[u] = "open" => pc'[u] \in {"leg", "exec"}
    /\ CollectTask(u) \/ (status' = status /\ (u \in Tasks => row'[u] = row[u]))
    /\ \/ UNCHANGED <<passes, lstatus, ret>>
       \/ Attempt(u)
       \/ \E met \in {"yes", "no", "error", "unasked"} : Decide(u, met)
    /\ \/ Report(u)
       \/ /\ tripped' = tripped
          /\ u \in Iters => ((pc'[u] = "done" /\ res'[u] = "failed") <=>
                                (pc[u] = "done" /\ res[u] = "failed"))
    /\ u \in Iters => (pc'[u] \in Inside => u \in slot')
    /\ AcquireSlot(u) \/ slot' \subseteq slot

LEMMA LegEffects ==
  ASSUME FanInv, NEW u \in Units,
         AcquireLeg(u) \/ GiveUpLeg(u) \/ AcquireSlot(u) \/ GiveUpSlot(u) \/ Release(u)
  PROVE  Local(u)
<1> USE Disjoint, Kinds
<1>0. FanTypeOK /\ Places /\ RowsOpen /\ SlotsHeld
  BY DEF FanInv
<1>1. CASE AcquireLeg(u)
  BY <1>0, <1>1 DEF AcquireLeg, Goto, FanTypeOK, Places, RowsOpen, SlotsHeld, Inside, Local, Bodies,
     TaskAt, IterAt, LoopAt, loopVars
<1>2. CASE GiveUpLeg(u)
  BY <1>0, <1>2 DEF GiveUpLeg, Goto, Result, AfterBody, FanTypeOK, Places, RowsOpen, SlotsHeld,
     Inside, Local, Bodies, TaskAt, IterAt, LoopAt, loopVars
<1>3. CASE AcquireSlot(u)
  BY <1>0, <1>3 DEF AcquireSlot, Goto, FanTypeOK, Places, RowsOpen, SlotsHeld, Inside, Local, Bodies,
     TaskAt, IterAt, LoopAt, loopVars
<1>4. CASE GiveUpSlot(u)
  BY <1>0, <1>4 DEF GiveUpSlot, Goto, Result, FanTypeOK, Places, RowsOpen, SlotsHeld, Inside, Local,
     Bodies, TaskAt, IterAt, LoopAt, loopVars
<1>5. CASE Release(u)
  BY <1>0, <1>5 DEF Release, Goto, FanTypeOK, Places, RowsOpen, SlotsHeld, Inside, Local, Bodies,
     TaskAt, IterAt, LoopAt, loopVars
<1> QED
  BY <1>1, <1>2, <1>3, <1>4, <1>5

LEMMA StepEffects ==
  ASSUME FanInv, NEW u \in Units,
         \/ \E o \in Status : ExecuteTask(u, o) \/ ExecuteLeg(u, o) \/ ExecuteBody(u, o)
         \/ CollectTask(u)
  PROVE  Local(u)
<1> USE Disjoint, Kinds
<1>0. FanTypeOK /\ Places /\ RowsOpen /\ SlotsHeld
  BY DEF FanInv
<1>1. ASSUME NEW o \in Status, ExecuteTask(u, o) PROVE Local(u)
  BY <1>0, <1>1 DEF ExecuteTask, Goto, Result, FanTypeOK, Places, RowsOpen, SlotsHeld, Inside, Local,
     Bodies, TaskAt, IterAt, LoopAt, loopVars
<1>2. ASSUME NEW o \in Status, ExecuteLeg(u, o) PROVE Local(u)
  BY <1>0, <1>2 DEF ExecuteLeg, Goto, Result, Row, FanTypeOK, Places, RowsOpen, SlotsHeld, Inside,
     Local, Bodies, TaskAt, IterAt, LoopAt, loopVars
<1>3. ASSUME NEW o \in Status, ExecuteBody(u, o) PROVE Local(u)
  BY <1>0, <1>3 DEF ExecuteBody, AfterBody, Goto, Result, Row, FanTypeOK, Places, RowsOpen, SlotsHeld,
     Inside, Local, Bodies, TaskAt, IterAt, LoopAt, loopVars, Status
<1>4. CASE CollectTask(u)
  <2>1. u \in Tasks /\ row[u] = "open"
    BY <1>4, OfNodes DEF CollectTask
  <2> QED
    BY <1>0, <1>4, <2>1 DEF CollectTask, Row, FanTypeOK, Places, RowsOpen, SlotsHeld, Local, Bodies,
       loopVars
<1> QED
  BY <1>1, <1>2, <1>3, <1>4

LEMMA MapEffects ==
  ASSUME FanInv, NEW u \in Units,
         \/ Check(u) \/ CreateVolume(u) \/ CloneVolume(u) \/ StartBody(u)
         \/ \E s \in Status : Gather(u, s)
         \/ Cleanup(u) \/ Report(u)
  PROVE  Local(u)
<1> USE Disjoint, Kinds
<1>0. FanTypeOK /\ Places /\ RowsOpen /\ SlotsHeld
  BY DEF FanInv
<1>1. CASE Check(u)
  BY <1>0, <1>1 DEF Check, Goto, Result, FanTypeOK, Places, RowsOpen, SlotsHeld, Inside, Local,
     Bodies, loopVars
<1>2. CASE CreateVolume(u)
  BY <1>0, <1>2 DEF CreateVolume, Goto, Result, FanTypeOK, Places, RowsOpen, SlotsHeld, Inside, Local,
     Bodies, loopVars
<1>3. CASE CloneVolume(u)
  BY <1>0, <1>3 DEF CloneVolume, Goto, Result, FanTypeOK, Places, RowsOpen, SlotsHeld, Inside, Local,
     Bodies, loopVars
<1>4. CASE StartBody(u)
  BY <1>0, <1>4 DEF StartBody, AfterBody, Goto, Result, Row, FanTypeOK, Places, RowsOpen, SlotsHeld,
     Inside, Local, Bodies, loopVars
<1>5. ASSUME NEW s \in Status, Gather(u, s) PROVE Local(u)
  BY <1>0, <1>5 DEF Gather, Goto, Result, FanTypeOK, Places, RowsOpen, SlotsHeld, Inside, Local,
     Bodies, loopVars
<1>6. CASE Cleanup(u)
  BY <1>0, <1>6 DEF Cleanup, Goto, FanTypeOK, Places, RowsOpen, SlotsHeld, Inside, Local, Bodies,
     loopVars
<1>7. CASE Report(u)
  BY <1>0, <1>7 DEF Report, Goto, FanTypeOK, Places, RowsOpen, SlotsHeld, Inside, Local, Bodies,
     loopVars
<1> QED
  BY <1>1, <1>2, <1>3, <1>4, <1>5, <1>6, <1>7

LEMMA LoopEffects ==
  ASSUME FanInv, NEW u \in Units,
         Attempt(u) \/ \E met \in {"yes", "no", "error", "unasked"} : Decide(u, met)
  PROVE  Local(u)
<1> USE Disjoint, Kinds
<1>0. FanTypeOK /\ Places /\ RowsOpen /\ SlotsHeld
  BY DEF FanInv
<1>1. CASE Attempt(u)
  BY <1>0, <1>1 DEF Attempt, Goto, FanTypeOK, Places, RowsOpen, SlotsHeld, Inside, Local, Bodies,
     loopVars
<1>2. ASSUME NEW met \in {"yes", "no", "error", "unasked"}, Decide(u, met) PROVE Local(u)
  <2>1. /\ u \in Loops /\ row[u] # "open" /\ UNCHANGED <<slot, status, tripped>>
        /\ pc' = [pc EXCEPT ![u] = pc'[u]] /\ pc'[u] \in {"done", "attempt"}
        /\ row' = [row EXCEPT ![u] = row'[u]] /\ row'[u] \in {row[u], "failed"}
    BY <1>0, <1>2 DEF Decide, LoopFail, Goto, Row, FanTypeOK, RowsOpen, Bodies
  <2> QED
    BY <1>0, <1>2, <2>1 DEF FanTypeOK, Local, Bodies
<1> QED
  BY <1>1, <1>2

LEMMA GoroutineEffects ==
  ASSUME FanInv, NEW u \in Units, Goroutine(u)
  PROVE  FanTypeOK' /\ Places' /\ Alone(u) /\ Local(u)
  BY GoroutineSteps, LegEffects, StepEffects, MapEffects, LoopEffects DEF Goroutine, FanInv

(* The map's context stays cancelled. *)
LEMMA TripStays ==
  ASSUME NEW u \in Units, Local(u), tripped PROVE tripped'
<1>1. CASE Report(u)
  <2>1. tripped' = (tripped \/ (res[u] = "failed" /\ Exceeds(Cardinality(Failures) + 1)))
    BY <1>1 DEF Report
  <2> QED
    BY <2>1, Zenon
<1> QED
  BY <1>1 DEF Local

(* The waiters and the run's context move no goroutine but those they start. *)
LEMMA WaiterSteps ==
  ASSUME FanTypeOK, Places, Waiter \/ CancelContext \/ UNCHANGED vars
  PROVE  /\ FanTypeOK' /\ Places'
         /\ UNCHANGED <<shape, res, slot, vols, tripped, status, passes, lstatus, until>>
<1>1. ASSUME NEW n \in Nodes, StartGroup(n)
      PROVE  /\ FanTypeOK' /\ Places'
             /\ UNCHANGED <<shape, res, slot, vols, tripped, status, passes, lstatus, until>>
  <2>1. UNCHANGED <<shape, res, legs, slot, vols, ctx, tripped, status, loopVars>>
    BY <1>1 DEF StartGroup
  <2>2. Has(n) \subseteq shape /\ Has(n) \subseteq Tasks \cup Legs
    BY <1>1, OfNodes DEF StartGroup
  <2>3. /\ row' \in [Units -> Status \cup {"none", "open"}]
        /\ \E l \in {"leg", "done"} : pc' = [v \in Units |-> IF v \in Has(n) THEN l ELSE pc[v]]
        /\ ret' \in [Nodes -> Status \cup {"absent", "no", "aborted"}]
    BY <1>1 DEF StartGroup, FanTypeOK
  <2>4. FanTypeOK'
    BY <2>1, <2>3 DEF FanTypeOK, loopVars, TaskAt
  <2>5. Places'
    BY <2>1, <2>2, <2>3, Disjoint DEF FanTypeOK, Places, TaskAt, Units
  <2> QED
    BY <2>1, <2>4, <2>5 DEF loopVars
<1>2. CASE GroupReturns
  BY <1>2 DEF GroupReturns, FanTypeOK, Places, loopVars
<1>3. CASE MapReturns
  <2>1. MapStatus \in Status
    BY DEF MapStatus, WorstResult, Status
  <2> QED
    BY <1>3, <2>1 DEF MapReturns, FanTypeOK, Places, loopVars
<1>4. ASSUME NEW s \in Status, ScatterReturns(s)
      PROVE  /\ FanTypeOK' /\ Places'
             /\ UNCHANGED <<shape, res, slot, vols, tripped, status, passes, lstatus, until>>
  BY <1>4 DEF ScatterReturns, FanTypeOK, Places, loopVars
<1>5. CASE CancelContext
  BY <1>5 DEF CancelContext, FanTypeOK, Places, loopVars
<1>6. CASE UNCHANGED vars
  BY <1>6 DEF vars, FanTypeOK, Places, loopVars
<1> QED
  BY <1>1, <1>2, <1>3, <1>4, <1>5, <1>6 DEF Waiter

----------------------------------------------------------------------------
(* The matrix group, and what is over *)

(* A goroutine returns no node but the loop, and ends the loop with it. *)
LEMMA Returns ==
  ASSUME FanInv, NEW u \in Units, Goroutine(u)
  PROVE  /\ ret'["matrix"] = ret["matrix"] /\ ret'["map"] = ret["map"]
         /\ \/ ret'["loop"] = ret["loop"]
            \/ u \in Loops /\ u \in shape /\ pc[u] # "done" /\ pc'[u] = "done"
<1>0. FanTypeOK /\ Places /\ Local(u)
  BY GoroutineEffects DEF FanInv
<1>1. CASE Attempt(u)
  BY <1>0, <1>1, Kinds DEF Attempt, Goto, FanTypeOK, Nodes
<1>2. ASSUME NEW met \in {"yes", "no", "error", "unasked"}, Decide(u, met)
      PROVE  /\ ret'["matrix"] = ret["matrix"] /\ ret'["map"] = ret["map"]
             /\ \/ ret'["loop"] = ret["loop"]
                \/ u \in Loops /\ u \in shape /\ pc[u] # "done" /\ pc'[u] = "done"
  BY <1>0, <1>2, Kinds DEF Decide, LoopFail, Goto, FanTypeOK, Nodes
<1>3. CASE UNCHANGED ret
  BY <1>3
<1> QED
  BY <1>0, <1>1, <1>2, <1>3 DEF Local

LEMMA OverNext ==
  ASSUME FanInv, NEW u \in Units, Goroutine(u)
  PROVE  RowsOpen' /\ ReturnedIsOver'
<1>0. /\ FanTypeOK /\ Places /\ RowsOpen /\ ReturnedIsOver
      /\ Alone(u) /\ Local(u)
  BY GoroutineEffects DEF FanInv
<1>h. /\ Has("matrix") = shape \cap Tasks /\ Has("map") = shape \cap Iters
      /\ Has("loop") = shape \cap Loops
      /\ Has("matrix")' = Has("matrix") /\ Has("map")' = Has("map") /\ Has("loop")' = Has("loop")
  BY <1>0, OfNodes DEF Alone, Has
<1>1. RowsOpen'
  <2>1. ASSUME NEW t \in Tasks, pc'[t] = "init" PROVE row'[t] = "none"
    BY <1>0, <2>1 DEF RowsOpen, Alone, Local, Units
  <2>2. ASSUME NEW v \in Bodies, row'[v] = "open" PROVE pc'[v] \in {"leg", "exec"}
    BY <1>0, <2>2 DEF RowsOpen, Alone, Local, Units, Bodies
  <2> QED
    BY <2>1, <2>2 DEF RowsOpen
<1>2. Returned("matrix")' => AllCollected'
  <2> SUFFICES ASSUME Returned("matrix")', NEW t \in Has("matrix") PROVE row'[t] \in Status
    BY <1>h DEF AllCollected
  <2>1. row[t] \in Status
    BY <1>0, Returns DEF Returned, ReturnedIsOver, AllCollected
  <2>2. row'[t] = row[t]
    BY <1>0, <1>h, <2>1 DEF Alone, Local, Units, CollectTask, Status
  <2> QED
    BY <2>1, <2>2
<1>3. ret'["map"] # "no" => \A i \in Has("map")' : pc'[i] = "done"
  BY <1>0, <1>h, Returns DEF ReturnedIsOver, Alone, Units
<1>4. ret'["loop"] # "no" => \A v \in Has("loop")' : pc'[v] = "done"
  <2> SUFFICES ASSUME ret'["loop"] # "no", NEW v \in Loops, v \in shape PROVE pc'[v] = "done"
    BY <1>h
  <2>1. CASE ret'["loop"] = ret["loop"]
    BY <1>0, <1>h, <2>1 DEF ReturnedIsOver, Alone, Units
  <2>2. CASE u \in Loops /\ pc'[u] = "done"
    BY <2>2, LoopIsOne
  <2> QED
    BY <2>1, <2>2, Returns
<1> QED
  BY <1>1, <1>2, <1>3, <1>4 DEF ReturnedIsOver

LEMMA GroupNext ==
  ASSUME FanInv, NEW u \in Units, Goroutine(u)
  PROVE  GroupSoFar'
<1>0. /\ FanTypeOK /\ Places /\ RowsOpen /\ ReturnedIsOver /\ GroupSoFar
      /\ Alone(u) /\ Local(u)
  BY GoroutineEffects DEF FanInv
<1>h. Has("matrix") = shape \cap Tasks /\ Has("matrix")' = Has("matrix")
  BY <1>0, OfNodes DEF Alone, Has
<1>1. CASE ~CollectTask(u)
  <2>1. status' = status /\ \A t \in Has("matrix") : row'[t] = row[t]
    BY <1>0, <1>1, <1>h DEF Alone, Local, Units
  <2> QED
    BY <1>0, <1>h, <2>1, Returns DEF GroupSoFar, Returned
<1>2. CASE CollectTask(u)
  <2>1. /\ u \in Has("matrix") /\ row[u] = "open" /\ res[u] \in Status /\ row'[u] = res[u]
        /\ status' = StatusAfter(res[u])
    BY <1>0, <1>2 DEF CollectTask, Row, FanTypeOK
  <2>2. \A t \in Has("matrix") : t # u => row'[t] = row[t]
    BY <1>0, <1>h DEF Alone, Units
  <2>3. ~Returned("matrix")'
    BY <1>0, <2>1, Returns DEF Returned, ReturnedIsOver, AllCollected, Status
  <2>4. status' = "failed" <=> (status = "failed" \/ res[u] = "failed")
    BY <1>0, <2>1 DEF StatusAfter, Status, FanTypeOK
  <2>5. status' = "completed" <=> (status = "completed" /\ res[u] = "completed")
    BY <1>0, <2>1 DEF StatusAfter, Status, FanTypeOK
  <2>6. (\E t \in Has("matrix") : row'[t] = "failed")
           <=> ((\E t \in Has("matrix") : row[t] = "failed") \/ res[u] = "failed")
    BY <2>1, <2>2
  <2>7. (\A t \in Has("matrix") : row'[t] \notin {"failed", "cancelled"})
           <=> ((\A t \in Has("matrix") : row[t] \notin {"failed", "cancelled"})
                   /\ res[u] = "completed")
    BY <2>1, <2>2 DEF Status
  <2> QED
    BY <1>0, <1>h, <2>3, <2>4, <2>5, <2>6, <2>7 DEF GroupSoFar
<1> QED
  BY <1>1, <1>2

----------------------------------------------------------------------------
(* The map's tolerance and its slots *)

LEMMA TripNext ==
  ASSUME FanInv, NEW u \in Units, Goroutine(u)
  PROVE  TripIsExact'
<1>0. /\ FanTypeOK /\ Places /\ ReturnedIsOver /\ TripIsExact /\ Alone(u) /\ Local(u)
  BY GoroutineEffects DEF FanInv
<1>h. Has("map") = shape \cap Iters /\ Has("map")' = Has("map") /\ MaxFail' = MaxFail
  BY <1>0, OfNodes DEF Alone, Has, MaxFail
<1>1. CASE ~Report(u)
  <2>1. tripped' = tripped
    BY <1>0, <1>1 DEF Local
  <2>2. Failures' = Failures
    <3>1. \A i \in Has("map") : (pc'[i] = "done" /\ res'[i] = "failed") <=>
                                   (pc[i] = "done" /\ res[i] = "failed")
      BY <1>0, <1>1, <1>h DEF Local, Alone, Units
    <3> QED
      BY <1>h, <3>1 DEF Failures
  <2> QED
    BY <1>0, <1>h, <2>1, <2>2, Returns DEF TripIsExact, Returned, ToleranceOnly, Alone
<1>2. CASE Report(u)
  <2>1. u \in Has("map") /\ pc[u] = "report" /\ pc'[u] = "done" /\ res' = res
    BY <1>0, <1>2, <1>h, Kinds DEF Report, Goto, FanTypeOK
  <2>2. ~Returned("map")'
    BY <1>0, <2>1, Returns DEF Returned, ReturnedIsOver, Status
  <2>3. \A i \in Has("map") : i # u => pc'[i] = pc[i]
    BY <1>0, <1>h DEF Alone, Units
  <2>4. Failures' = IF res[u] = "failed" THEN Failures \cup {u} ELSE Failures
    BY <1>h, <2>1, <2>3 DEF Failures
  <2>5. u \notin Failures
    BY <2>1 DEF Failures
  <2>6. IsFiniteSet(Failures)
    BY <1>0, FanoutConstants, FS_Subset DEF Failures, Has, FanTypeOK
  <2>7. Cardinality(Failures) \in Nat /\ MaxFail \in Nat
    BY <1>0, <2>6, FS_CardinalityType, MaxFailNat DEF FanTypeOK
  <2>8. tripped' = (tripped \/ (res[u] = "failed" /\ Cardinality(Failures) + 1 > MaxFail))
    BY <1>2 DEF Report, Exceeds
  <2>9. tripped' <=> Cardinality(Failures') > MaxFail
    <3>1. CASE res[u] = "failed"
      <4>1. Cardinality(Failures') = Cardinality(Failures) + 1
        BY <2>4, <2>5, <2>6, <3>1, FS_AddElement
      <4>2. tripped <=> Cardinality(Failures) > MaxFail
        BY <1>0 DEF TripIsExact
      <4>3. tripped' <=> (tripped \/ Cardinality(Failures) + 1 > MaxFail)
        BY <2>8, <3>1, Zenon
      <4>4. (Cardinality(Failures) > MaxFail \/ Cardinality(Failures) + 1 > MaxFail)
               <=> Cardinality(Failures) + 1 > MaxFail
        BY <2>7
      <4> QED
        BY <4>1, <4>2, <4>3, <4>4, Zenon
    <3>2. CASE res[u] # "failed"
      BY <1>0, <2>4, <2>8, <3>2 DEF TripIsExact
    <3> QED
      BY <3>1, <3>2
  <2> QED
    BY <1>h, <2>2, <2>9 DEF TripIsExact
<1> QED
  BY <1>1, <1>2

LEMMA SlotsNext ==
  ASSUME FanInv, NEW u \in Units, Goroutine(u)
  PROVE  SlotsHeld'
<1>0. /\ FanTypeOK /\ FanTypeOK' /\ Places /\ SlotsHeld /\ Alone(u) /\ Local(u)
  BY GoroutineEffects DEF FanInv
<1>1. \A i \in Iters : pc'[i] \in Inside => i \in slot'
  BY <1>0 DEF SlotsHeld, Alone, Local, Units
<1>2. Cardinality(slot' \cap Iters) <= MapConcurrency
  <2>0. IsFiniteSet(slot \cap Iters) /\ IsFiniteSet(slot' \cap Iters)
    BY <1>0, FanoutConstants, FS_Subset DEF FanTypeOK, Units
  <2>1. CASE slot' \cap Iters \subseteq slot \cap Iters
    BY <1>0, <2>0, <2>1, FS_Subset, FS_CardinalityType, Numbers DEF SlotsHeld
  <2>2. CASE AcquireSlot(u) /\ u \in Iters
    <3>1. Cardinality(slot \cap Iters) < MapConcurrency
      BY <2>2, IterNode, OfNodes DEF AcquireSlot, SlotFree
    <3>2. slot' \cap Iters = (slot \cap Iters) \cup {u}
      BY <2>2 DEF AcquireSlot
    <3>3. Cardinality(slot \cap Iters) \in Nat
      BY <2>0, FS_CardinalityType
    <3>4. Cardinality((slot \cap Iters) \cup {u}) \in
            {Cardinality(slot \cap Iters), Cardinality(slot \cap Iters) + 1}
      <4>1. CASE u \in slot \cap Iters
        <5>1. (slot \cap Iters) \cup {u} = slot \cap Iters
          BY <4>1
        <5> QED
          BY <5>1
      <4>2. CASE u \notin slot \cap Iters
        BY <2>0, <4>2, FS_AddElement
      <4> QED
        BY <4>1, <4>2
    <3> QED
      BY <3>1, <3>2, <3>3, <3>4, Numbers
  <2>3. AcquireSlot(u) => slot' = slot \cup {u}
    BY DEF AcquireSlot
  <2> QED
    BY <1>0, <2>1, <2>2, <2>3 DEF Local
<1> QED
  BY <1>1, <1>2 DEF SlotsHeld

----------------------------------------------------------------------------
(* The loop *)

(* A loop that is not touched keeps its verdict, also when the run is then   *)
(* cancelled.                                                                *)
LEMMA LoopKept ==
  ASSUME LoopSoFar, UNCHANGED <<passes, lstatus, until>>, ret'["loop"] = ret["loop"],
         ctx' = ctx \/ ctx' = "dead"
  PROVE  LoopSoFar'
<1>1. LoopVerdict'
  <2>1. LoopVerdict /\ (Returned("loop")' <=> Returned("loop")) /\ (ctx' = "live" => ctx = "live")
    BY DEF LoopSoFar, Returned
  <2> QED
    BY <2>1 DEF LoopVerdict
<1> QED
  BY <1>1 DEF LoopSoFar

(* The worst of two verdicts is one of them. *)
LEMMA WorstOf ==
  ASSUME NEW r \in Status, NEW s \in Status
  PROVE  /\ Worst(r, s) \in Status /\ Worst(r, s) \in {r, s}
         /\ Worst(r, s) = "completed" => r = "completed" /\ s = "completed"
  BY DEF Worst, Status

LEMMA AttemptLoop ==
  ASSUME FanInv, NEW u \in Units, Attempt(u)
  PROVE  LoopSoFar'
<1>0. FanTypeOK /\ Places /\ ReturnedIsOver /\ LoopSoFar
  BY DEF FanInv
<1>1. ret["loop"] = "no"
  BY <1>0, Kinds, OfNodes DEF Attempt, ReturnedIsOver
<1>2. UNCHANGED <<passes, lstatus, until, ctx>>
  BY DEF Attempt, loopVars
<1>3. CASE UNCHANGED ret
  BY <1>0, <1>2, <1>3, LoopKept
<1>4. CASE ctx = "dead" /\ ret'["loop"] = "cancelled"
  <2>1. /\ Len(passes) < LoopTimes
        /\ \A k \in 1..Len(passes) : passes[k].met \in {"no", "unasked"}
    BY <1>0, <1>1 DEF LoopSoFar
  <2>2. Len(passes) \in Nat /\ LoopTimes \in Nat
    BY <1>0, Numbers DEF FanTypeOK
  <2>3. LoopVerdict'
    BY <1>2, <1>4, <2>1, <2>2 DEF LoopVerdict
  <2> QED
    BY <1>4, <2>3 DEF LoopSoFar
<1> QED
  BY <1>0, <1>3, <1>4 DEF Attempt, FanTypeOK, Nodes

LEMMA DecideLoop ==
  ASSUME FanInv, NEW u \in Units, NEW met \in {"yes", "no", "error", "unasked"}, Decide(u, met)
  PROVE  LoopSoFar'
<1> DEFINE n == Len(passes)
           s == IterStatus(u)
           over == LastPass \/ met \in {"yes", "error"}
<1>0. FanTypeOK /\ Places /\ ReturnedIsOver /\ LoopSoFar
  BY DEF FanInv
<1>1. ret["loop"] = "no" /\ u \in Loops /\ s \in Status
  BY <1>0, Kinds, OfNodes DEF Decide, ReturnedIsOver, Places, IterStatus, Worst, Status
<1>2. /\ n \in Nat /\ LoopTimes \in Nat /\ n < LoopTimes
      /\ \A k \in 1..n : passes[k].met \in {"no", "unasked"}
  BY <1>0, <1>1, Numbers DEF LoopSoFar, FanTypeOK
<1>3. ~until => /\ lstatus = "completed" => \A k \in 1..n : passes[k].status = "completed"
                /\ lstatus # "completed" => \E k \in 1..n : passes[k].status = lstatus
  BY <1>0, <1>1 DEF LoopSoFar
<1>4. /\ met \in IF until THEN {"yes", "no", "error"} ELSE {"unasked"}
      /\ passes' = Append(passes, [status |-> s, met |-> met])
      /\ lstatus' = IF until THEN lstatus ELSE Worst(lstatus, s)
      /\ UNCHANGED <<until, ctx>>
  BY DEF Decide
<1>5. /\ over \in BOOLEAN
      /\ ~over => ret' = ret
      /\ over /\ met \in {"no", "error"} => ret' = [ret EXCEPT !["loop"] = "failed"]
      /\ over /\ met \notin {"no", "error"} =>
            ret' = [ret EXCEPT !["loop"] = IF until THEN "completed" ELSE lstatus']
  BY DEF Decide, LoopFail, LastPass
<1>6. /\ over <=> (n + 1 >= LoopTimes \/ met \in {"yes", "error"})
  BY DEF LastPass
<1>7. lstatus \in Status /\ until \in BOOLEAN /\ ret["loop"] = "no" /\ passes \in Seq(Pass)
      /\ ret \in [Nodes -> Status \cup {"absent", "no", "aborted"}] /\ "loop" \in Nodes
  BY <1>0, <1>1 DEF FanTypeOK, Nodes
<1> HIDE DEF s, over
<1>8. /\ Len(passes') = n + 1
      /\ passes'[n + 1].status = s /\ passes'[n + 1].met = met
      /\ \A k \in 1..n : passes'[k] = passes[k]
  BY <1>2, <1>4, <1>7
<1> HIDE DEF n
<1>9. ~until => /\ lstatus' = "completed" => \A k \in 1..(n + 1) : passes'[k].status = "completed"
                /\ lstatus' # "completed" => \E k \in 1..(n + 1) : passes'[k].status = lstatus'
  <2> SUFFICES ASSUME ~until
               PROVE  /\ lstatus' = "completed" => \A k \in 1..(n + 1) : passes'[k].status = "completed"
                      /\ lstatus' # "completed" => \E k \in 1..(n + 1) : passes'[k].status = lstatus'
    OBVIOUS
  <2>1. /\ lstatus' \in {lstatus, s}
        /\ lstatus' = "completed" => lstatus = "completed" /\ s = "completed"
    BY <1>1, <1>4, <1>7, WorstOf
  <2>2. ASSUME lstatus' = "completed", NEW k \in 1..(n + 1) PROVE passes'[k].status = "completed"
    BY <1>2, <1>3, <1>8, <2>1, <2>2
  <2>3. ASSUME lstatus' # "completed" PROVE \E k \in 1..(n + 1) : passes'[k].status = lstatus'
    <3>1. CASE lstatus' = s
      BY <1>2, <1>8, <3>1
    <3>2. CASE lstatus' = lstatus
      <4>1. PICK k \in 1..n : passes[k].status = lstatus
        BY <1>3, <2>3, <3>2
      <4>2. k \in 1..(n + 1) /\ passes'[k].status = lstatus'
        BY <1>2, <1>8, <3>2, <4>1
      <4> QED
        BY <4>2
    <3> QED
      BY <2>1, <3>1, <3>2
  <2> QED
    BY <2>2, <2>3
<1>10. ~over => /\ Len(passes') < LoopTimes
                /\ \A k \in 1..Len(passes') : passes'[k].met \in {"no", "unasked"}
  BY <1>2, <1>4, <1>6, <1>8
<1>11. ret'["loop"] = "no" => ~over
  <2>1. lstatus' \in Status
    BY <1>1, <1>4, <1>7, WorstOf
  <2> QED
    BY <1>5, <1>7, <2>1 DEF Status
<1>12. ASSUME over PROVE LoopVerdict'
  <2>1. n + 1 <= LoopTimes /\ n + 1 \in Nat /\ n + 1 > 0
    BY <1>2
  <2>2. \A k \in 1..(n + 1) - 1 : passes'[k].met \in {"no", "unasked"}
    BY <1>2, <1>8
  <2>3. until => (ret'["loop"] = "completed" <=> met = "yes")
    BY <1>4, <1>5, <1>7, <1>12
  <2>4. n + 1 = LoopTimes \/ met \in {"yes", "error"}
    BY <1>2, <1>6, <1>12
  <2>5. ~until => ret'["loop"] = lstatus'
    BY <1>4, <1>5, <1>7, <1>12
  <2>6. ~until /\ ret'["loop"] = "completed" =>
            \A k \in 1..(n + 1) : passes'[k].status = "completed"
    BY <1>9, <2>5
  <2>7. ~until /\ ret'["loop"] # "completed" =>
            \E k \in 1..(n + 1) : passes'[k].status = ret'["loop"]
    BY <1>9, <2>5
  <2> QED
    BY <1>4, <1>8, <2>1, <2>2, <2>3, <2>4, <2>6, <2>7 DEF LoopVerdict
<1>13. ~over => LoopVerdict'
  BY <1>5, <1>7 DEF LoopVerdict, Returned, Status
<1>14. LoopVerdict'
  BY <1>5, <1>12, <1>13
<1> QED
  BY <1>4, <1>8, <1>9, <1>10, <1>11, <1>14 DEF LoopSoFar

LEMMA LoopNext ==
  ASSUME FanInv, NEW u \in Units, Goroutine(u)
  PROVE  LoopSoFar'
<1>0. LoopSoFar /\ Alone(u) /\ Local(u)
  BY GoroutineEffects DEF FanInv
<1>1. CASE UNCHANGED <<passes, lstatus, ret>>
  BY <1>0, <1>1, LoopKept DEF Alone
<1> QED
  BY <1>0, <1>1, AttemptLoop, DecideLoop DEF Local

----------------------------------------------------------------------------
(* The waiters *)

(* Starting a group of tasks or legs. *)
LEMMA StartGroupNext ==
  ASSUME FanInv, NEW n \in Nodes, StartGroup(n)
  PROVE  FanInv'
<1>0. /\ FanTypeOK /\ Places /\ RowsOpen /\ ReturnedIsOver /\ GroupSoFar /\ TripIsExact
      /\ LoopSoFar /\ SlotsHeld
  BY DEF FanInv
<1>1. /\ FanTypeOK' /\ Places'
      /\ UNCHANGED <<shape, res, slot, vols, tripped, status, passes, lstatus, until>>
  BY <1>0, WaiterSteps DEF Waiter
<1>2. n \in {"matrix", "scatter"} /\ Has(n) # {} /\ Has(n) \subseteq Tasks \cup Legs /\ ctx' = ctx
      /\ \A u \in Has(n) : pc[u] = "init"
  BY OfNodes DEF StartGroup
<1>3. /\ \A u \in Units : u \notin Has(n) => pc'[u] = pc[u] /\ row'[u] = row[u]
      /\ \A u \in Has(n) : pc'[u] \in {"leg", "done"} /\ row'[u] \in {"open", row[u]}
      /\ ret'["map"] = ret["map"] /\ ret'["loop"] = ret["loop"]
      /\ ret'["matrix"] \in {ret["matrix"], "aborted"}
  <2>1. Has(n) \subseteq Units
    BY <1>2 DEF Units
  <2> QED
    BY <1>0, <1>2, <2>1 DEF StartGroup, FanTypeOK, Nodes
<1>h. /\ Has("matrix") = shape \cap Tasks /\ Has("map") = shape \cap Iters
      /\ Has("loop") = shape \cap Loops /\ MaxFail' = MaxFail
      /\ Has("matrix")' = Has("matrix") /\ Has("map")' = Has("map") /\ Has("loop")' = Has("loop")
  BY <1>1, OfNodes DEF Has, MaxFail
<1>4. RowsOpen'
  <2>1. ASSUME NEW t \in Tasks, pc'[t] = "init" PROVE row'[t] = "none"
    BY <1>0, <1>3, <2>1 DEF RowsOpen, Units
  <2>2. ASSUME NEW u \in Bodies, row'[u] = "open" PROVE pc'[u] \in {"leg", "exec"}
    BY <1>0, <1>2, <1>3, <2>2, Disjoint DEF RowsOpen, Units, Bodies
  <2> QED
    BY <2>1, <2>2 DEF RowsOpen
<1>5. \A t \in Has("matrix") : row'[t] = row[t] \/ (row[t] = "none" /\ row'[t] = "open")
  BY <1>0, <1>2, <1>3, <1>h DEF RowsOpen, Units
<1>6. ReturnedIsOver'
  <2>1. Returned("matrix")' => AllCollected'
    <3> SUFFICES ASSUME Returned("matrix")' PROVE AllCollected'
      OBVIOUS
    <3>1. AllCollected
      BY <1>0, <1>3 DEF Returned, ReturnedIsOver, Status
    <3> QED
      BY <1>5, <1>h, <3>1 DEF AllCollected, Status
  <2>2. \A u \in Bodies : pc'[u] = pc[u]
    BY <1>2, <1>3, Disjoint DEF Bodies, Units
  <2> QED
    BY <1>0, <1>3, <1>h, <2>1, <2>2 DEF ReturnedIsOver, Bodies
<1>7. GroupSoFar'
  BY <1>0, <1>1, <1>3, <1>5, <1>h DEF GroupSoFar, Returned, Status
<1>8. TripIsExact'
  <2>1. \A i \in Has("map") : pc'[i] = pc[i]
    BY <1>2, <1>3, <1>h, Disjoint DEF Units
  <2>2. Failures' = Failures
    BY <1>1, <1>h, <2>1 DEF Failures
  <2> QED
    BY <1>0, <1>1, <1>2, <1>3, <1>h, <2>2 DEF TripIsExact, Returned, ToleranceOnly
<1>9. LoopSoFar'
  BY <1>0, <1>1, <1>2, <1>3, LoopKept
<1>10. SlotsHeld'
  <2>1. \A i \in Iters : pc'[i] = pc[i]
    BY <1>2, <1>3, Disjoint DEF Units
  <2> QED
    BY <1>0, <1>1, <2>1 DEF SlotsHeld
<1> QED
  BY <1>1, <1>4, <1>6, <1>7, <1>8, <1>9, <1>10 DEF FanInv

(* The waiters that return, and the end of the run's context. *)
LEMMA ReturnNext ==
  ASSUME FanInv,
         \/ GroupReturns \/ MapReturns \/ CancelContext \/ UNCHANGED vars
         \/ \E s \in Status : ScatterReturns(s)
  PROVE  FanInv'
<1>0. /\ FanTypeOK /\ Places /\ RowsOpen /\ ReturnedIsOver /\ GroupSoFar /\ TripIsExact
      /\ LoopSoFar /\ SlotsHeld
  BY DEF FanInv
<1>1. /\ FanTypeOK' /\ Places'
      /\ UNCHANGED <<shape, res, slot, vols, tripped, status, passes, lstatus, until>>
  BY <1>0, WaiterSteps DEF Waiter
<1>2. UNCHANGED <<pc, row>> /\ (ctx' = ctx \/ ctx' = "dead")
  BY DEF GroupReturns, MapReturns, CancelContext, ScatterReturns, vars
<1>h. /\ Has("matrix") = shape \cap Tasks /\ Has("map") = shape \cap Iters
      /\ Has("loop") = shape \cap Loops /\ MaxFail' = MaxFail /\ Failures' = Failures
      /\ Has("matrix")' = Has("matrix") /\ Has("map")' = Has("map") /\ Has("loop")' = Has("loop")
  BY <1>1, <1>2, OfNodes DEF Has, MaxFail, Failures
<1>3. /\ ret'["loop"] = ret["loop"]
      /\ ret'["matrix"] = ret["matrix"] \/ (ret'["matrix"] = status /\ AllCollected)
  BY <1>0 DEF GroupReturns, MapReturns, CancelContext, ScatterReturns, vars, FanTypeOK, Nodes
<1>4. \/ ret'["map"] = ret["map"]
      \/ /\ \A i \in Has("map") : pc[i] = "done"
         /\ ctx' = "live" => ret'["map"] = ToleranceOnly
  BY <1>0 DEF GroupReturns, MapReturns, CancelContext, ScatterReturns, vars, FanTypeOK, Nodes,
     MapStatus, ToleranceOnly
<1>5. RowsOpen' /\ SlotsHeld'
  BY <1>0, <1>1, <1>2 DEF RowsOpen, SlotsHeld
<1>6. ReturnedIsOver'
  BY <1>0, <1>1, <1>2, <1>3, <1>4, <1>h DEF ReturnedIsOver, Returned, AllCollected
<1>7. GroupSoFar'
  BY <1>0, <1>1, <1>2, <1>3, <1>h DEF GroupSoFar, Returned
<1>8. TripIsExact'
  BY <1>0, <1>1, <1>2, <1>4, <1>h DEF TripIsExact, Returned, ToleranceOnly
<1>9. LoopSoFar'
  BY <1>0, <1>1, <1>2, <1>3, LoopKept
<1> QED
  BY <1>1, <1>5, <1>6, <1>7, <1>8, <1>9 DEF FanInv

----------------------------------------------------------------------------
(* Every step together *)

LEMMA InitFanInv == Init => FanInv
<1> SUFFICES ASSUME Init PROVE FanInv
  OBVIOUS
<1>0. shape \subseteq Units
  BY FanoutConstants DEF Init
<1>1. FanTypeOK
  <2>1. /\ pc \in [Units -> TaskAt \cup IterAt \cup LoopAt]
        /\ res \in [Units -> Status \cup {"none"}]
        /\ row \in [Units -> Status \cup {"none", "open"}]
    BY DEF Init, TaskAt, IterAt, LoopAt
  <2>2. until \in BOOLEAN
    BY DEF Init
  <2>3. status \in Status /\ lstatus \in Status /\ passes \in Seq(Pass)
    BY DEF Init, Status
  <2>4. ret \in [Nodes -> Status \cup {"absent", "no", "aborted"}]
    BY DEF Init
  <2>5. /\ slot \subseteq Units /\ vols \subseteq Units /\ ctx \in {"live", "dead"}
        /\ tripped \in BOOLEAN
    BY DEF Init
  <2> QED
    BY <1>0, <2>1, <2>2, <2>3, <2>4, <2>5 DEF FanTypeOK
<1>2. Places
  BY Disjoint DEF Init, Places, TaskAt, IterAt, LoopAt, Units
<1>h. /\ Has("matrix") = shape \cap Tasks /\ Has("map") = shape \cap Iters
      /\ Has("loop") = shape \cap Loops
  BY OfNodes
<1>3. RowsOpen
  BY DEF Init, RowsOpen, Units, Bodies
<1>4. \A n \in Nodes : ret[n] \in {"absent", "no"} /\ (ret[n] = "absent" => Has(n) = {})
  BY DEF Init
<1>5. ReturnedIsOver
  BY <1>4 DEF ReturnedIsOver, Returned, Status, Nodes
<1>6. GroupSoFar
  BY <1>4, <1>h DEF Init, GroupSoFar, Returned, Status, Nodes, Units
<1>7. TripIsExact
  <2>1. Failures = {}
    BY <1>h DEF Init, Failures, Units
  <2>2. Cardinality(Failures) = 0 /\ MaxFail \in Nat
    BY <1>0, <2>1, FS_EmptySet, MaxFailNat
  <2>3. tripped = FALSE /\ ~Returned("map")
    BY <1>4 DEF Init, Returned, Status, Nodes
  <2> QED
    BY <2>2, <2>3 DEF TripIsExact
<1>8. LoopSoFar
  <2>1. passes = <<>> /\ (~until => lstatus = "completed") /\ ~Returned("loop")
    BY <1>4 DEF Init, Returned, Status, Nodes
  <2> QED
    BY <2>1, Numbers DEF LoopSoFar, LoopVerdict
<1>9. SlotsHeld
  <2>1. slot \cap Iters = {} /\ \A i \in Iters : pc[i] \in {"slot", "done"}
    BY DEF Init, Units
  <2>2. Cardinality(slot \cap Iters) = 0
    BY <2>1, FS_EmptySet
  <2> QED
    BY <2>1, <2>2, Numbers DEF SlotsHeld, Inside
<1> QED
  BY <1>1, <1>2, <1>3, <1>5, <1>6, <1>7, <1>8, <1>9 DEF FanInv

LEMMA NextFanInv == FanInv /\ [Next]_vars => FanInv'
<1> SUFFICES ASSUME FanInv, [Next]_vars PROVE FanInv'
  OBVIOUS
<1>1. ASSUME NEW u \in Units, Goroutine(u) PROVE FanInv'
  BY <1>1, GoroutineEffects, OverNext, GroupNext, TripNext, LoopNext, SlotsNext DEF FanInv
<1>2. ASSUME NEW n \in Nodes, StartGroup(n) PROVE FanInv'
  BY <1>2, StartGroupNext
<1> QED
  BY <1>1, <1>2, ReturnNext DEF Next, Waiter

(* What the goroutines and waiters of a run keep: rows, results, slots and   *)
(* verdicts so far agree, whatever the interleaving.                         *)
THEOREM FanoutInvariant == Spec => []FanInv
  BY InitFanInv, NextFanInv, PTL DEF Spec

(* The verdict of a map, a matrix group and a loop is that of their parts,   *)
(* in whatever order results arrive, also when a failure cancels the rest    *)
(* (runMapRegion, runTaskGroup, runLoopRegion).                              *)
THEOREM FanoutVerdicts == Spec => []Verdicts
<1>1. FanInv => Verdicts
  <2> SUFFICES ASSUME FanInv PROVE Verdicts
    OBVIOUS
  <2>0. GroupSoFar /\ TripIsExact /\ LoopSoFar /\ FanTypeOK
    BY DEF FanInv
  <2>1. ToleranceDecides
    BY <2>0 DEF TripIsExact, ToleranceDecides, ToleranceOnly, FanTypeOK
  <2>2. GroupVerdict
    <3> SUFFICES ASSUME Returned("matrix") PROVE GroupVerdict
      BY DEF GroupVerdict
    <3>1. /\ status \in Status /\ ret["matrix"] = status
          /\ status = "failed" <=> \E t \in Has("matrix") : row[t] = "failed"
          /\ status = "completed" <=> \A t \in Has("matrix") : row[t] \notin {"failed", "cancelled"}
      BY <2>0 DEF GroupSoFar, FanTypeOK
    <3>2. CASE status = "failed"
      BY <3>1, <3>2 DEF GroupVerdict
    <3>3. CASE status = "cancelled"
      <4>1. /\ ~\E t \in Has("matrix") : row[t] = "failed"
            /\ \E t \in Has("matrix") : row[t] = "cancelled"
        BY <3>1, <3>3
      <4> QED
        BY <3>1, <3>3, <4>1 DEF GroupVerdict
    <3>4. CASE status = "completed"
      <4>1. /\ ~\E t \in Has("matrix") : row[t] = "failed"
            /\ ~\E t \in Has("matrix") : row[t] = "cancelled"
        BY <3>1, <3>4
      <4> QED
        BY <3>1, <3>4, <4>1 DEF GroupVerdict
    <3> QED
      BY <3>1, <3>2, <3>3, <3>4 DEF Status
  <2>3. LoopVerdict
    BY <2>0 DEF LoopSoFar
  <2> QED
    BY <2>1, <2>2, <2>3 DEF Verdicts
<1> QED
  BY <1>1, FanoutInvariant, PTL

----------------------------------------------------------------------------
(* What a node that has returned leaves behind *)

(* No iteration is recorded as cancelled but under a dead context, provided  *)
(* that nobody else cancels the map's jobs.                                  *)
LEMMA GivenUpStep ==
  ASSUME JobCancels \cap Iters = {}, FanInv, NEW u \in Units, Goroutine(u),
         u \in Iters, res'[u] = "cancelled"
  PROVE  res[u] = "cancelled" \/ Dead(u)
<1> USE Disjoint, Kinds
<1>0. FanTypeOK /\ Places
  BY DEF FanInv
<1>1. CASE AcquireLeg(u) \/ GiveUpLeg(u) \/ AcquireSlot(u) \/ GiveUpSlot(u) \/ Release(u)
  BY <1>0, <1>1 DEF AcquireLeg, GiveUpLeg, AcquireSlot, GiveUpSlot, Release
<1>2. ASSUME NEW o \in Status, ExecuteTask(u, o) \/ ExecuteLeg(u, o) \/ ExecuteBody(u, o)
      PROVE  res[u] = "cancelled" \/ Dead(u)
  BY <1>0, <1>2 DEF ExecuteTask, ExecuteLeg, ExecuteBody, Result, StepOutcomes, FanTypeOK, Status
<1>3. CASE CollectTask(u) \/ Cleanup(u) \/ Report(u) \/ Attempt(u)
  BY <1>3 DEF CollectTask, Cleanup, Report, Attempt
<1>4. CASE Check(u) \/ CreateVolume(u) \/ CloneVolume(u) \/ StartBody(u)
  BY <1>0, <1>4 DEF Check, CreateVolume, CloneVolume, StartBody, Result, FanTypeOK
<1>5. ASSUME NEW s \in Status, Gather(u, s) PROVE res[u] = "cancelled" \/ Dead(u)
  BY <1>0, <1>5 DEF Gather, Result, FanTypeOK
<1>6. ASSUME NEW met \in {"yes", "no", "error", "unasked"}, Decide(u, met)
      PROVE  res[u] = "cancelled" \/ Dead(u)
  BY <1>6 DEF Decide
<1> QED
  BY <1>1, <1>2, <1>3, <1>4, <1>5, <1>6 DEF Goroutine

LEMMA NextGivenUp ==
  ASSUME JobCancels \cap Iters = {}, FanInv, FanInv', GivenUpIsDead, [Next]_vars
  PROVE  GivenUpIsDead'
<1>0. /\ FanTypeOK /\ FanTypeOK' /\ Places /\ ReturnedIsOver
      /\ \A i \in Has("map") : res[i] = "cancelled" => Dead(i)
      /\ GreenRanAll /\ Has("map") = shape \cap Iters
  BY OfNodes DEF FanInv, GivenUpIsDead
<1>1. ASSUME NEW u \in Units, Goroutine(u) PROVE GivenUpIsDead'
  <2>1. Alone(u) /\ Local(u)
    BY <1>1, GoroutineEffects
  <2>2. Has("map")' = Has("map") /\ ctx' = ctx /\ ret'["map"] = ret["map"] /\ (tripped => tripped')
    <3>1. tripped => tripped'
      BY <2>1, TripStays
    <3> QED
      BY <1>1, <2>1, <3>1, Returns DEF Alone, Has
  <2>3. ASSUME NEW i \in Has("map"), res'[i] = "cancelled" PROVE Dead(i)'
    <3>1. CASE i # u
      BY <1>0, <2>1, <2>2, <2>3, <3>1 DEF Alone, Dead, Units
    <3>2. CASE i = u
      <4>1. Dead(i)
        BY <1>0, <1>1, <2>3, <3>2, GivenUpStep
      <4> QED
        BY <2>2, <4>1 DEF Dead
    <3> QED
      BY <3>1, <3>2
  <2>4. GreenRanAll'
    <3> SUFFICES ASSUME ret["map"] = "completed", NEW i \in Has("map") PROVE res'[i] # "cancelled"
      BY <2>2 DEF GreenRanAll
    <3>1. pc[i] = "done" /\ res[i] # "cancelled"
      BY <1>0 DEF ReturnedIsOver, GreenRanAll
    <3> QED
      BY <1>0, <2>1, <3>1 DEF Alone, Units
  <2> QED
    BY <2>2, <2>3, <2>4 DEF GivenUpIsDead
<1>2. CASE Waiter \/ CancelContext \/ UNCHANGED vars
  <2>1. UNCHANGED <<shape, res, tripped>> /\ Has("map")' = Has("map")
    BY <1>0, <1>2, WaiterSteps DEF Has
  <2>2. ctx' = ctx \/ ctx' = "dead"
    BY <1>2 DEF Waiter, CancelContext, vars, StartGroup, GroupReturns, MapReturns, ScatterReturns
  <2>3. \A i \in Has("map") : res'[i] = "cancelled" => Dead(i)'
    BY <1>0, <2>1, <2>2 DEF Dead
  <2>4. GreenRanAll'
    <3>1. CASE MapReturns
      <4>1. ret'["map"] = MapStatus
        BY <1>0, <3>1 DEF MapReturns, FanTypeOK, Nodes
      <4> SUFFICES ASSUME MapStatus = "completed", NEW i \in Has("map") PROVE res[i] # "cancelled"
        BY <2>1, <4>1 DEF GreenRanAll
      <4>2. CASE ctx = "dead"
        <5>1. WorstResult = "completed"
          BY <4>2 DEF MapStatus
        <5> QED
          BY <5>1 DEF WorstResult
      <4>3. CASE ctx # "dead"
        BY <1>0, <4>3 DEF MapStatus, Dead
      <4> QED
        BY <4>2, <4>3
    <3>2. CASE ret'["map"] = ret["map"]
      BY <1>0, <2>1, <3>2 DEF GreenRanAll
    <3>3. MapReturns \/ ret'["map"] = ret["map"]
      BY <1>0, <1>2 DEF Waiter, CancelContext, vars, StartGroup, GroupReturns, ScatterReturns,
         FanTypeOK, Nodes
    <3> QED
      BY <3>1, <3>2, <3>3
  <2> QED
    BY <2>1, <2>3, <2>4 DEF GivenUpIsDead
<1> QED
  BY <1>1, <1>2 DEF Next

(* A returned fan-out is complete, provided that nobody but the run cancels  *)
(* the jobs of the map's iterations: an iteration whose job was cancelled    *)
(* elsewhere is passed over by runMapRegion. For the matrix group and the    *)
(* loop nothing is assumed.                                                  *)
THEOREM FanoutIsComplete ==
  ASSUME JobCancels \cap Iters = {}
  PROVE  Spec => []ReturnedIsComplete
<1>1. Init => GivenUpIsDead
  <2> SUFFICES ASSUME Init PROVE GivenUpIsDead
    OBVIOUS
  <2>1. shape \subseteq Units /\ Has("map") \subseteq Units /\ "map" \in Nodes
    BY FanoutConstants, OfNodes DEF Init, Nodes, Has
  <2>2. \A u \in Units : res[u] = "none"
    BY DEF Init
  <2> QED
    BY <2>1, <2>2 DEF GivenUpIsDead, GreenRanAll
<1>2. FanInv /\ FanInv' /\ GivenUpIsDead /\ [Next]_vars => GivenUpIsDead'
  BY NextGivenUp
<1>3. FanInv /\ GivenUpIsDead => ReturnedIsComplete
  <2> SUFFICES ASSUME FanInv, GivenUpIsDead PROVE ReturnedIsComplete
    OBVIOUS
  <2>0. RowsOpen /\ ReturnedIsOver /\ GreenRanAll
    BY DEF FanInv, GivenUpIsDead
  <2>1. Returned("matrix") => \A u \in Has("matrix") : row[u] # "open"
    BY <2>0 DEF ReturnedIsOver, AllCollected, Status
  <2>2. Returned("map") => \A u \in Has("map") : row[u] # "open"
    BY <2>0, OfNodes DEF ReturnedIsOver, RowsOpen, Returned, Status, Bodies
  <2>3. Returned("loop") => \A u \in Has("loop") : row[u] # "open"
    BY <2>0, OfNodes DEF ReturnedIsOver, RowsOpen, Returned, Status, Bodies
  <2> QED
    BY <2>0, <2>1, <2>2, <2>3 DEF ReturnedIsComplete, RowsSettled
<1> QED
  BY <1>1, <1>2, <1>3, FanoutInvariant, PTL DEF Spec

----------------------------------------------------------------------------
(* Clone volumes *)

(* While the map goes on, no step leaves a clone behind: what exists after   *)
(* it is in the hands of an iteration. Under a dead context none is made.    *)
LEMMA CloneStep ==
  ASSUME CloneFails = FALSE, FanInv, ClonesHeld, NEW u \in Units, Goroutine(u)
  PROVE  /\ vols' \subseteq vols \cup {u}
         /\ u \in vols' \ vols => u \in Iters /\ u \in slot /\ ctx = "live" /\ ~tripped
         /\ u \in vols' /\ u \in Iters /\ ctx = "live" /\ ~tripped => pc'[u] \in Cloned
<1> USE Disjoint, Kinds
<1>0. /\ FanTypeOK /\ Places /\ SlotsHeld /\ vols \subseteq Iters
      /\ ctx = "live" /\ ~tripped => \A i \in vols : pc[i] \in Cloned
  BY DEF FanInv, ClonesHeld
<1>1. CASE AcquireLeg(u) \/ GiveUpLeg(u) \/ AcquireSlot(u) \/ GiveUpSlot(u) \/ Release(u)
  BY <1>0, <1>1 DEF AcquireLeg, GiveUpLeg, AcquireSlot, GiveUpSlot, Release, Goto, AfterBody,
     FanTypeOK, Cloned, Bodies
<1>2. ASSUME NEW o \in Status, ExecuteTask(u, o) \/ ExecuteLeg(u, o) \/ ExecuteBody(u, o)
      PROVE  vols' = vols /\ (u \in Iters => pc'[u] \in Cloned)
  BY <1>0, <1>2 DEF ExecuteTask, ExecuteLeg, ExecuteBody, Goto, AfterBody, FanTypeOK, Cloned
<1>3. CASE CollectTask(u)
  BY <1>0, <1>3 DEF CollectTask
<1>4. CASE Check(u)
  BY <1>0, <1>4 DEF Check, Goto, FanTypeOK, Cloned, Dead
<1>5. CASE CreateVolume(u)
  BY <1>0, <1>5 DEF CreateVolume, Goto, FanTypeOK, Cloned, Dead, SlotsHeld, Inside
<1>6. CASE CloneVolume(u)
  BY <1>0, <1>6 DEF CloneVolume, Goto, FanTypeOK, Cloned, Dead
<1>7. CASE StartBody(u)
  BY <1>0, <1>7 DEF StartBody, Goto, AfterBody, FanTypeOK, Cloned
<1>8. ASSUME NEW s \in Status, Gather(u, s)
      PROVE  vols' = vols /\ (u \in Iters => pc'[u] \in Cloned)
  BY <1>0, <1>8 DEF Gather, Goto, FanTypeOK, Cloned
<1>9. CASE Cleanup(u)
  BY <1>0, <1>9 DEF Cleanup, ClonesAfter, Goto, FanTypeOK
<1>10. CASE Report(u)
  BY <1>0, <1>10 DEF Report, Goto, FanTypeOK, Cloned
<1>11. CASE Attempt(u)
  BY <1>0, <1>11 DEF Attempt
<1>12. ASSUME NEW met \in {"yes", "no", "error", "unasked"}, Decide(u, met)
       PROVE  vols' = vols /\ u \notin Iters
  BY <1>0, <1>12 DEF Decide
<1>13. vols' = vols => /\ vols' \subseteq vols \cup {u}
                       /\ u \in vols' \ vols => u \in Iters /\ u \in slot /\ ctx = "live" /\ ~tripped
  OBVIOUS
<1> QED
  BY <1>1, <1>2, <1>3, <1>4, <1>5, <1>6, <1>7, <1>8, <1>9, <1>10, <1>11, <1>12, <1>13 DEF Goroutine

LEMMA NextClonesHeld ==
  ASSUME CloneFails = FALSE, FanInv, ClonesHeld, [Next]_vars
  PROVE  ClonesHeld'
<1>0. /\ FanTypeOK /\ Places /\ SlotsHeld /\ vols \subseteq Iters
      /\ ctx = "live" /\ ~tripped => \A i \in vols : pc[i] \in Cloned
      /\ ClonesWithinSlots
  BY DEF FanInv, ClonesHeld
<1>f. /\ IsFiniteSet(Iters) /\ IsFiniteSet(vols) /\ Cardinality(vols) \in Nat
      /\ MapConcurrency \in Nat
  <2>1. IsFiniteSet(Iters)
    BY FanoutConstants, FS_Subset DEF Units
  <2>2. IsFiniteSet(vols)
    BY <1>0, <2>1, FS_Subset
  <2> QED
    BY <2>1, <2>2, FS_CardinalityType, Numbers
<1>1. ASSUME NEW u \in Units, Goroutine(u) PROVE ClonesHeld'
  <2>1. Alone(u) /\ Local(u)
    BY <1>1, GoroutineEffects
  <2>2. ctx' = ctx /\ (tripped => tripped')
    <3>1. tripped => tripped'
      BY <2>1, TripStays
    <3> QED
      BY <2>1, <3>1 DEF Alone
  <2>3. /\ vols' \subseteq vols \cup {u}
        /\ u \in vols' \ vols => u \in Iters /\ u \in slot /\ ctx = "live" /\ ~tripped
        /\ u \in vols' /\ u \in Iters /\ ctx = "live" /\ ~tripped => pc'[u] \in Cloned
    BY <1>1, CloneStep
  <2>4. vols' \subseteq Iters
    BY <1>0, <2>3
  <2>5. ctx' = "live" /\ ~tripped' => \A i \in vols' : pc'[i] \in Cloned
    BY <1>0, <2>1, <2>2, <2>3, <2>4 DEF Alone, Units
  <2>6. Cardinality(vols') <= MapConcurrency
    <3>1. CASE vols' \subseteq vols
      <4>1. Cardinality(vols') \in Nat /\ Cardinality(vols') <= Cardinality(vols)
        BY <1>f, <3>1, FS_Subset, FS_CardinalityType
      <4> QED
        BY <1>0, <1>f, <4>1 DEF ClonesWithinSlots
    <3>2. CASE u \in vols' \ vols
      <4>1. vols' \subseteq slot \cap Iters
        <5>1. \A i \in vols : i \in slot
          BY <1>0, <2>3, <3>2 DEF SlotsHeld, Cloned, Inside
        <5> QED
          BY <1>0, <2>3, <2>4, <3>2, <5>1
      <4>2. IsFiniteSet(slot \cap Iters)
        BY <1>f, FS_Subset
      <4>3. /\ Cardinality(vols') \in Nat /\ Cardinality(slot \cap Iters) \in Nat
            /\ Cardinality(vols') <= Cardinality(slot \cap Iters)
        BY <4>1, <4>2, FS_Subset, FS_CardinalityType
      <4> QED
        BY <1>0, <1>f, <4>3 DEF SlotsHeld
    <3> QED
      BY <2>3, <3>1, <3>2
  <2> QED
    BY <2>4, <2>5, <2>6 DEF ClonesHeld, ClonesWithinSlots
<1>2. CASE Waiter \/ CancelContext \/ UNCHANGED vars
  <2>1. UNCHANGED <<vols, tripped>>
    BY <1>0, <1>2, WaiterSteps
  <2>2. ctx' = ctx \/ ctx' = "dead"
    BY <1>2 DEF Waiter, CancelContext, vars, StartGroup, GroupReturns, MapReturns, ScatterReturns
  <2>3. \A i \in Iters : pc'[i] = pc[i]
    <3>1. ASSUME NEW n \in Nodes, StartGroup(n), NEW i \in Iters PROVE pc'[i] = pc[i]
      <4>1. i \in Units /\ i \notin Has(n)
        BY <3>1, OfNodes, Disjoint DEF StartGroup, Units
      <4> QED
        BY <3>1, <4>1 DEF StartGroup
    <3> QED
      BY <1>2, <3>1 DEF Waiter, CancelContext, vars, GroupReturns, MapReturns, ScatterReturns
  <2>4. ctx' = "live" /\ ~tripped' => \A i \in vols' : pc'[i] \in Cloned
    BY <1>0, <2>1, <2>2, <2>3
  <2> QED
    BY <1>0, <2>1, <2>4 DEF ClonesHeld, ClonesWithinSlots
<1> QED
  BY <1>1, <1>2 DEF Next

(* There are never more clone volumes than iterations may run at once, if a  *)
(* clone that was created can be filled: prepareIterVolume leaves one that   *)
(* cannot behind. A run that is cancelled in between may leave clones too,   *)
(* but makes no more.                                                        *)
THEOREM ClonesAreBounded ==
  ASSUME CloneFails = FALSE
  PROVE  Spec => []ClonesWithinSlots
<1>1. Init => ClonesHeld
  BY FS_EmptySet, Numbers DEF Init, ClonesHeld, ClonesWithinSlots
<1>2. FanInv /\ ClonesHeld /\ [Next]_vars => ClonesHeld'
  BY NextClonesHeld
<1>3. ClonesHeld => ClonesWithinSlots
  BY DEF ClonesHeld
<1> QED
  BY <1>1, <1>2, <1>3, FanoutInvariant, PTL DEF Spec

=============================================================================
