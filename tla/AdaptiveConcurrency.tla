------------------------ MODULE AdaptiveConcurrency ------------------------
(***************************************************************************)
(* The write side of one batch of the migration tool: the adaptive         *)
(* concurrency controller (AdaptiveConcurrencyController.cs) and the write *)
(* tasks of MigrationRunner.WriteBatchAsync that it throttles.             *)
(*                                                                         *)
(* A batch is a set of items.  Every item has a task that waits for a      *)
(* permit of the controller's semaphore, upserts its item and gives the    *)
(* permit back, whatever the outcome of the upsert was.  When all the      *)
(* tasks of the batch are finished the number of throttled ones is         *)
(* reported, and the controller may REPLACE the semaphore by one of        *)
(* another size.  A task that waits or holds a permit at that moment would *)
(* be left with the old semaphore; `orphans' remembers these tasks.        *)
(*                                                                         *)
(* A definition named Mutant_X is not part of the model: it is the wrong   *)
(* version of the definition after it that a property is tried against.    *)
(***************************************************************************)
EXTENDS Integers, FiniteSets

CONSTANTS
    Items,              (* the items a batch may hold                       *)
    Floor,              (* _floor: the least concurrency                    *)
    Ceiling,            (* _ceiling: the greatest concurrency               *)
    RampUpAfter,        (* _rampUpAfterBatches: clean batches per ramp-up   *)
    RampUpStep,         (* _rampUpStep: what one ramp-up adds               *)
    InitialConcurrency  (* the concurrency asked for; the constructor clamps it *)

(* Math.Clamp throws when the floor exceeds the ceiling, so no controller  *)
(* exists without the third conjunct.                                      *)
ASSUME ControllerAssumption ==
    /\ IsFiniteSet(Items)
    /\ Floor \in Nat \ {0} /\ Ceiling \in Nat
    /\ Floor <= Ceiling
    /\ RampUpAfter \in Nat \ {0}
    /\ RampUpStep \in Nat \ {0}
    /\ InitialConcurrency \in Int

VARIABLES
    currentConcurrency,       (* _currentConcurrency                          *)
    consecutiveCleanBatches,  (* _consecutiveCleanBatches, see CountClean     *)
    permits,                  (* _semaphore.CurrentCount                      *)
    task,                     (* the write task of every item                 *)
    orphans                   (* tasks that use a semaphore that was replaced *)

controllerVars == <<currentConcurrency, consecutiveCleanBatches, permits, orphans>>
vars == <<controllerVars, task>>

Outcome == {"ok", "throttled", "failed"}
TaskState == {"none", "waiting", "writing"} \cup Outcome

Larger(a, b) == IF a >= b THEN a ELSE b
Smaller(a, b) == IF a <= b THEN a ELSE b

InBatch == {i \in Items : task[i] # "none"}
Writing == {i \in Items : task[i] = "writing"}
Outstanding == {i \in Items : task[i] \in {"waiting", "writing"}}
Throttled == {i \in Items : task[i] = "throttled"}

(* The constructor's clamp of the requested concurrency. *)
Clamped == Larger(Floor, Smaller(Ceiling, InitialConcurrency))

(* Task.WhenAll(tasks): there is a batch and every task of it is finished. *)
Mutant_BatchWrittenEarly == \E i \in Items : task[i] \in Outcome
BatchWritten == InBatch # {} /\ Outstanding = {}

-----------------------------------------------------------------------------
(* The constructor, once per run of the tool. *)
Init ==
    /\ currentConcurrency = Clamped
    /\ consecutiveCleanBatches = 0
    /\ permits = Clamped
    /\ orphans = {}
    /\ task = [i \in Items |-> "none"]

(* A run that ends or is killed leaves nothing behind; the next one makes  *)
(* a controller of its own.                                                *)
NewController ==
    /\ currentConcurrency' = Clamped
    /\ consecutiveCleanBatches' = 0
    /\ permits' = Clamped
    /\ orphans' = {}
    /\ task' = [i \in Items |-> "none"]

(* WriteBatchAsync starts one task per item; each begins with WaitAsync.   *)
(* The second definition is the use the controller is made for: one batch  *)
(* at a time, and never an empty one.                                      *)
StartTasks(batch) ==
    /\ task' = [i \in Items |-> IF i \in batch THEN "waiting" ELSE "none"]
    /\ UNCHANGED controllerVars

StartBatch(batch) ==
    /\ InBatch = {}
    /\ batch # {} /\ batch \subseteq Items
    /\ StartTasks(batch)

(* WaitAsync completes.  A task whose semaphore was replaced gets nothing: *)
(* all later releases go to the new semaphore.                             *)
Mutant_AcquireUnbounded(i) ==
    /\ task[i] = "waiting" /\ i \notin orphans
    /\ permits' = permits - 1
    /\ task' = [task EXCEPT ![i] = "writing"]
    /\ UNCHANGED <<currentConcurrency, consecutiveCleanBatches, orphans>>
Acquire(i) ==
    /\ task[i] = "waiting" /\ i \notin orphans
    /\ permits > 0
    /\ permits' = permits - 1
    /\ task' = [task EXCEPT ![i] = "writing"]
    /\ UNCHANGED <<currentConcurrency, consecutiveCleanBatches, orphans>>

(* The upsert ends, well or not, and the finally block gives a permit to   *)
(* the semaphore that is current NOW, which refuses one beyond its maximum *)
(* (SemaphoreFullException).                                               *)
Mutant_ReleaseOnSuccessOnly(i, outcome) ==
    /\ task[i] = "writing"
    /\ outcome \in Outcome
    /\ permits' = IF outcome = "ok" THEN Smaller(currentConcurrency, permits + 1)
                                    ELSE permits
    /\ task' = [task EXCEPT ![i] = outcome]
    /\ orphans' = orphans \ {i}
    /\ UNCHANGED <<currentConcurrency, consecutiveCleanBatches>>
Release(i, outcome) ==
    /\ task[i] = "writing"
    /\ outcome \in Outcome
    /\ permits' = Smaller(currentConcurrency, permits + 1)
    /\ task' = [task EXCEPT ![i] = outcome]
    /\ orphans' = orphans \ {i}
    /\ UNCHANGED <<currentConcurrency, consecutiveCleanBatches>>

(* AdjustSemaphore: a new semaphore with all its permits free.  The test   *)
(* `newConcurrency != _currentConcurrency' of the ramp-down is here; a     *)
(* ramp-up always changes the value.                                       *)
AdjustSemaphore(new) ==
    IF new # currentConcurrency
    THEN /\ currentConcurrency' = new
         /\ permits' = new
         /\ orphans' = orphans \cup Outstanding
    ELSE UNCHANGED <<currentConcurrency, permits, orphans>>

(* (int)(_currentConcurrency * 0.5), but not below the floor. *)
Mutant_RampedDownFreely == currentConcurrency \div 2
RampedDown == Larger(Floor, currentConcurrency \div 2)
RampedUp == Smaller(Ceiling, currentConcurrency + RampUpStep)

(* consecutiveCleanBatches++.  The count is only ever compared with        *)
(* RampUpAfter, so the model stops counting there.                         *)
CountClean == Smaller(RampUpAfter, consecutiveCleanBatches + 1)

Mutant_ReportThrottledKeepingCount ==
    /\ UNCHANGED consecutiveCleanBatches
    /\ AdjustSemaphore(RampedDown)
ReportThrottled ==
    /\ consecutiveCleanBatches' = 0
    /\ AdjustSemaphore(RampedDown)

ReportClean ==
    IF CountClean >= RampUpAfter /\ currentConcurrency < Ceiling
    THEN /\ consecutiveCleanBatches' = 0
         /\ AdjustSemaphore(RampedUp)
    ELSE /\ consecutiveCleanBatches' = CountClean
         /\ UNCHANGED <<currentConcurrency, permits, orphans>>

(* The controller learns how many 429s the batch met.  It does not look    *)
(* whether tasks still run: "we only call this between batches" (:91).     *)
AdaptToResult ==
    /\ IF Throttled # {} THEN ReportThrottled ELSE ReportClean
    /\ task' = [i \in Items |-> "none"]

(* The call as it is meant, after Task.WhenAll. *)
ReportBatchResult ==
    /\ BatchWritten
    /\ AdaptToResult

Next ==
    \/ NewController
    \/ \E batch \in SUBSET Items : StartBatch(batch)
    \/ \E i \in Items : Acquire(i)
    \/ \E i \in Items, outcome \in Outcome : Release(i, outcome)
    \/ ReportBatchResult

(* A free permit goes to a waiting task, an upsert returns (the SDK bounds *)
(* its retries and its time), and the consumer reports a finished batch.   *)
Fairness ==
    /\ \A i \in Items : WF_vars(Acquire(i))
    /\ \A i \in Items : WF_vars(\E outcome \in Outcome : Release(i, outcome))
    /\ WF_vars(ReportBatchResult)

Safe == Init /\ [][Next]_vars
Spec == Safe /\ Fairness

-----------------------------------------------------------------------------
(* The fields of the controller and the states of the write tasks: the     *)
(* semaphore never goes below zero.                                        *)
TypeOK ==
    /\ currentConcurrency \in Nat
    /\ consecutiveCleanBatches \in 0..RampUpAfter
    /\ permits \in Nat
    /\ task \in [Items -> TaskState]
    /\ orphans \in SUBSET Items

(* "Concurrency is clamped between a floor and ceiling", through every     *)
(* sequence of ramp-ups and ramp-downs and whatever was asked for at first *)
(* (AdaptiveConcurrencyController.cs:10).                                  *)
ConcurrencyWithinLimits ==
    /\ Floor <= currentConcurrency
    /\ currentConcurrency <= Ceiling

(* No permit is lost and none is made: a task of any outcome gives its     *)
(* permit back, to the semaphore it took it from.  So no more upserts are  *)
(* in flight than the current concurrency, and Release never throws        *)
(* SemaphoreFullException.                                                 *)
PermitsConserved == permits + Cardinality(Writing) = currentConcurrency

(* The semaphore is replaced "between batches, not mid-batch"              *)
(* (AdaptiveConcurrencyController.cs:91): no task is ever left waiting for *)
(* a semaphore that nobody releases.                                       *)
NoOrphanedTask == orphans = {}

(* A started batch is reported, or its run ends: permits that come back    *)
(* let every waiting task through, however small the concurrency is.       *)
BatchCompletes == InBatch # {} ~> InBatch = {}
=============================================================================
