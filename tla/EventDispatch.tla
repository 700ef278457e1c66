--------------------------- MODULE EventDispatch ---------------------------
(***************************************************************************)
(* The events service: an event is appended to the log, the enabled        *)
(* triggers of its tenant are matched, and each matching trigger runs its  *)
(* actions.  The row of a (trigger, event) pair is the claim that keeps a   *)
(* redelivered event from firing twice, and it carries the retries.         *)
(*                                                                         *)
(* Two kinds of runner execute actions: the goroutine that every accepted  *)
(* delivery starts, and the retry loop of every replica, which selects the *)
(* due rows without claiming them.  Each database call and each action is  *)
(* a step of its own.  Actions may fail at any time, and may have taken     *)
(* effect when they do; database errors and crashes are bounded.            *)
(***************************************************************************)
EXTENDS Naturals, FiniteSets, FiniteSetsExt

CONSTANTS
    Triggers, Events, \* an event is its id: an adapter's redelivery is another event
    Matches,          \* the <<trigger, event>> pairs whose filter accepts
    Replicas,
    NumActions,       \* the number of actions of a trigger
    MaxAttempts,      \* maxDispatchAttempts
    RetryBatch,       \* the LIMIT of the retry query
    Deliveries,       \* the deliveries of events by emitters, each a goroutine
    MaxEdits,         \* bound on the edits of triggers
    MaxFaults         \* bound on database errors and crashes

ASSUME DispatchAssumption ==
    /\ Matches \subseteq Triggers \X Events
    /\ Deliveries \cap Replicas = {} /\ IsFiniteSet(Deliveries \cup Replicas)
    /\ {NumActions, MaxAttempts, RetryBatch} \subseteq Nat \ {0}

VARIABLES
    trigger,   \* trigger[t]: "on", "off" or "gone"
    editing,   \* the triggers a PUT has read and not saved yet
    edits,     \* how many edits were made
    log,       \* the stored events
    row,       \* row[p]: the dispatch row of pair p
    runner,    \* runner[x]: the goroutine of delivery x, or the retry loop of replica x
    fired,     \* fired[p][k]: how often action k took effect (0, 1, 2 = more)
    failures,  \* failures[p]: how many runs of the pair have failed
    faults     \* the faults so far

vars == <<trigger, editing, edits, log, row, runner, fired, failures, faults>>

Runners == Deliveries \cup Replicas
Pairs == Triggers \X Events
NoRow == [status |-> "none", attempts |-> 0, due |-> FALSE]

Ready == [pc |-> "ready", at |-> "none", todo |-> {}, cur |-> {}, next |-> 1, n |-> 0]
Ended == [Ready EXCEPT !.pc = "ended"]

Init ==
    /\ trigger = [t \in Triggers |-> "on"]
    /\ editing = {}
    /\ edits = 0
    /\ log = {}
    /\ row = [p \in Pairs |-> NoRow]
    /\ runner = [x \in Runners |-> IF x \in Replicas THEN [Ready EXCEPT !.at = x] ELSE Ready]
    /\ fired = [p \in Pairs |-> [k \in 1..NumActions |-> 0]]
    /\ failures = [p \in Pairs |-> 0]
    /\ faults = 0

Goto(x, label) == runner' = [runner EXCEPT ![x].pc = label]

(* A database call fails: one of the bounded faults. *)
Fault == faults < MaxFaults /\ faults' = faults + 1

(* Runner x turns to the pairs that are left: a delivery's goroutine ends  *)
(* after the last one, a retry loop waits for the next tick.               *)
TurnTo(x, todo) ==
    [runner EXCEPT ![x] =
       CASE todo # {} -> [Ready EXCEPT !.pc = "match", !.at = runner[x].at, !.todo = todo]
         [] todo = {} /\ x \in Replicas -> [Ready EXCEPT !.at = x]
         [] OTHER -> Ended]

\* The pair that runner x works on.
Cur(x) == CHOOSE p \in runner[x].cur : TRUE

---------------------------------------------------------------------------
(* Intake *)

(* handleInternalEvent and the adapters: store the event (a known id is a  *)
(* no-op), start the goroutine, answer 202.                                *)
Deliver(d, e, r) ==
    /\ runner[d].pc = "ready"
    /\ log' = log \cup {e}
    /\ runner' = [runner EXCEPT ![d].pc = "load", ![d].at = r, ![d].todo = {e}]
    /\ UNCHANGED <<trigger, editing, edits, row, fired, failures, faults>>

(* triggersForTenant and the filters; a failed query ends the goroutine. *)
LoadTriggers(d) ==
    /\ runner[d].pc = "load"
    /\ \/ runner' = TurnTo(d, {p \in Matches : p[2] \in runner[d].todo /\ trigger[p[1]] = "on"})
          /\ UNCHANGED faults
       \/ Fault /\ runner' = TurnTo(d, {})
    /\ UNCHANGED <<trigger, editing, edits, log, row, fired, failures>>

Run(x, p) == [runner EXCEPT ![x].pc = "act", ![x].todo = @ \ {p}, ![x].cur = {p},
                            ![x].next = 1]
Skip(x, p) == TurnTo(x, runner[x].todo \ {p})

\* Mutant: no unique index on the pair.
Unindexed(p) == TRUE

(* The insert succeeds for the first runner of the pair only. *)
Unclaimed(p) == row[p].status = "none"

(* claimDispatch: an insert that fails, for whatever reason, skips the trigger. *)
Claim(d, p) ==
    /\ d \in Deliveries /\ runner[d].pc = "match" /\ p \in runner[d].todo
    /\ \/ /\ Unclaimed(p)
          /\ row' = [row EXCEPT ![p].status = "pending"]
          /\ runner' = Run(d, p)
          /\ UNCHANGED faults
       \/ ~Unclaimed(p) /\ runner' = Skip(d, p) /\ UNCHANGED <<row, faults>>
       \/ Unclaimed(p) /\ Fault /\ runner' = Skip(d, p) /\ UNCHANGED row
    /\ UNCHANGED <<trigger, editing, edits, log, fired, failures>>

---------------------------------------------------------------------------
(* runAndRecord *)

\* A counter that saturates at 2, "more than once".
Once(n) == IF n = 0 THEN 1 ELSE 2

Effect(x) == fired' = [fired EXCEPT ![Cur(x)][runner[x].next] = Once(@)]

(* runActions: in order, up to the first failure.  A failure is reported   *)
(* for an action that did not happen and for one whose answer was lost.    *)
ActionSucceeds(x) ==
    /\ runner[x].pc = "act"
    /\ Effect(x)
    /\ runner' = IF runner[x].next < NumActions
                 THEN [runner EXCEPT ![x].next = @ + 1]
                 ELSE [runner EXCEPT ![x].pc = "done"]
    /\ UNCHANGED <<trigger, editing, edits, log, row, failures, faults>>

\* Mutant: the error of the last action is dropped.
LastErrorDropped(x) == IF runner[x].next = NumActions THEN "done" ELSE "read"

\* Where a failed action leads.
AfterFailure(x) == "read"

ActionFails(x) ==
    /\ runner[x].pc = "act"
    /\ Effect(x) \/ UNCHANGED fired
    /\ failures' = [failures EXCEPT ![Cur(x)] = @ + 1]
    /\ Goto(x, AfterFailure(x))
    /\ UNCHANGED <<trigger, editing, edits, log, row, faults>>

(* The attempt counter is read before it is written back; a failed read    *)
(* is not noticed and leaves zero.                                         *)
ReadAttempts(x) ==
    /\ runner[x].pc = "read"
    /\ \/ /\ runner' = [runner EXCEPT ![x].pc = "failed", ![x].n = row[Cur(x)].attempts + 1]
          /\ UNCHANGED faults
       \/ Fault /\ runner' = [runner EXCEPT ![x].pc = "failed", ![x].n = 1]
    /\ UNCHANGED <<trigger, editing, edits, log, row, fired, failures>>

Exhausted(n) == n >= MaxAttempts

(* The update of the row, keyed by the pair and guarded by nothing else. *)
Recorded(x) ==
    IF runner[x].pc = "done"
    THEN [row[Cur(x)] EXCEPT !.status = "done", !.due = FALSE]
    ELSE [status   |-> IF Exhausted(runner[x].n) THEN "dead" ELSE "failed",
          attempts |-> runner[x].n, due |-> FALSE]

Record(x) ==
    /\ runner[x].pc \in {"done", "failed"}
    /\ \/ row' = [row EXCEPT ![Cur(x)] = Recorded(x)] /\ UNCHANGED faults
       \/ Fault /\ UNCHANGED row
    /\ runner' = TurnTo(x, runner[x].todo)
    /\ UNCHANGED <<trigger, editing, edits, log, fired, failures>>

---------------------------------------------------------------------------
(* The retry loop *)

BackoffElapses(p) ==
    /\ row[p].status = "failed" /\ ~row[p].due
    /\ row' = [row EXCEPT ![p].due = TRUE]
    /\ UNCHANGED <<trigger, editing, edits, log, runner, fired, failures, faults>>

\* Mutant: the query looks for the rows that nobody has run yet.
PendingRows == {p \in Pairs : row[p].status = "pending" /\ row[p].due}

DueRows == {p \in Pairs : row[p].status = "failed" /\ row[p].due}

(* retryDue: at most RetryBatch due rows, in no particular order. *)
RetryScan(r) ==
    /\ r \in Replicas /\ runner[r].pc = "ready" /\ DueRows # {}
    /\ \E batch \in kSubset(Min({RetryBatch, Cardinality(DueRows)}), DueRows) :
          runner' = [runner EXCEPT ![r].pc = "match", ![r].todo = batch]
    /\ UNCHANGED <<trigger, editing, edits, log, row, fired, failures, faults>>

(* A row of a deleted trigger is passed over; a disabled one is retried. *)
RetryNext(r, p) ==
    /\ r \in Replicas /\ runner[r].pc = "match" /\ p \in runner[r].todo
    /\ \/ trigger[p[1]] # "gone" /\ runner' = Run(r, p) /\ UNCHANGED faults
       \/ trigger[p[1]] = "gone" /\ runner' = Skip(r, p) /\ UNCHANGED faults
       \/ trigger[p[1]] # "gone" /\ Fault /\ runner' = Skip(r, p)
    /\ UNCHANGED <<trigger, editing, edits, log, row, fired, failures>>

---------------------------------------------------------------------------
(* Triggers, and crashes *)

(* handleUpdateTrigger reads the trigger and saves the whole row, which    *)
(* writes it again if it was deleted in between.                           *)
ReadTrigger(t) ==
    /\ trigger[t] # "gone" /\ t \notin editing /\ edits < MaxEdits
    /\ editing' = editing \cup {t}
    /\ edits' = edits + 1
    /\ UNCHANGED <<trigger, log, row, runner, fired, failures, faults>>

SaveTrigger(t, enabled) ==
    /\ t \in editing
    /\ editing' = editing \ {t}
    /\ trigger' = [trigger EXCEPT ![t] = enabled]
    /\ UNCHANGED <<edits, log, row, runner, fired, failures, faults>>

DeleteTrigger(t) ==
    /\ trigger[t] # "gone" /\ edits < MaxEdits
    /\ edits' = edits + 1
    /\ trigger' = [trigger EXCEPT ![t] = "gone"]
    /\ UNCHANGED <<editing, log, row, runner, fired, failures, faults>>

(* A replica stops: its goroutines are gone, its retry loop starts afresh. *)
Crash(r) ==
    /\ Fault
    /\ \E x \in Runners : runner[x].at = r /\ runner[x].pc \notin {"ready", "ended"}
    /\ runner' = [x \in Runners |->
          IF runner[x].at # r THEN runner[x] ELSE IF x = r THEN [Ready EXCEPT !.at = r] ELSE Ended]
    /\ UNCHANGED <<trigger, editing, edits, log, row, fired, failures>>

---------------------------------------------------------------------------
Step(x) ==
    \/ LoadTriggers(x)
    \/ \E p \in runner[x].todo : Claim(x, p) \/ RetryNext(x, p)
    \/ ActionSucceeds(x) \/ ActionFails(x) \/ ReadAttempts(x) \/ Record(x)

Next ==
    \/ \E d \in Deliveries, e \in Events, r \in Replicas : Deliver(d, e, r)
    \/ \E x \in Runners : Step(x)
    \/ \E p \in Pairs : BackoffElapses(p)
    \/ \E r \in Replicas : RetryScan(r) \/ Crash(r)
    \/ \E t \in Triggers :
          ReadTrigger(t) \/ DeleteTrigger(t) \/ \E s \in {"on", "off"} : SaveTrigger(t, s)

Spec == Init /\ [][Next]_vars

(* Goroutines run to their end, every replica's ticker keeps firing, and   *)
(* time passes.                                                            *)
Fairness ==
    /\ \A x \in Runners : WF_vars(Step(x))
    /\ \A r \in Replicas : WF_vars(RetryScan(r))
    /\ \A p \in Pairs : WF_vars(BackoffElapses(p))

FairSpec == Spec /\ Fairness

---------------------------------------------------------------------------

(* A redelivered event never fires a trigger twice: as long as no run of   *)
(* a pair has failed, each of its actions has taken effect at most once,   *)
(* however many replicas were handed the event, before or after edits and  *)
(* crashes.                                                                *)
NoDoubleFire ==
    \A p \in Pairs : failures[p] = 0 => \A k \in 1..NumActions : fired[p][k] <= 1

(* The row tells the truth about its dispatch.  It is given up only after  *)
(* maxDispatchAttempts runs that really failed: two replicas that retry    *)
(* the same row, and writes that arrive late, lose attempts but never      *)
(* invent one.  And one recorded as done has had every action of the       *)
(* trigger take effect, even when they succeeded in different runs.        *)
RowIsTruthful ==
    \A p \in Pairs :
       /\ row[p].attempts <= failures[p]
       /\ row[p].status = "dead" => failures[p] >= MaxAttempts
       /\ row[p].status = "done" => \A k \in 1..NumActions : fired[p][k] >= 1

(* A failed dispatch is retried until it is done or dead, unless its       *)
(* trigger is deleted; a claimed one leaves pending unless a database      *)
(* error or a crash interrupts it (nothing selects a pending row again).   *)
DispatchSettles ==
    \A p \in Pairs :
       /\ row[p].status = "failed" ~> row[p].status \in {"done", "dead"} \/ trigger[p[1]] = "gone"
       /\ row[p].status = "pending" ~> row[p].status # "pending" \/ faults > 0

(* "The retry loop covers a crash before it runs": an accepted event has a *)
(* row for every trigger that matches it, in the end.                      *)
AcceptedIsDispatched ==
    \A p \in Matches :
       p[2] \in log /\ trigger[p[1]] = "on"
          ~> row[p].status \in {"done", "dead"} \/ trigger[p[1]] # "on"
=============================================================================
