------------------------ MODULE BulkOperationProofs ------------------------
(***************************************************************************)
(* Theorems about BulkOperation, for every set of items, every concurrency *)
(* and every number of retries, with and without other clients and         *)
(* cancellation.                                                           *)
(*                                                                         *)
(* The invariant that carries them is IInv.  Its core is ItemOK, which     *)
(* says what is known of an item in each state of its task: as long as a   *)
(* task is at work nothing was applied and it has sent one request per     *)
(* attempt; a task that succeeded has done its work for good; one that     *)
(* failed is named by the failures.  ResultOK carries this over to the     *)
(* answer of the call.                                                     *)
(***************************************************************************)
EXTENDS BulkOperation, FiniteSetTheorems, TLAPS

AtWork(i) == task[i] \in {"waiting", "sending", "delaying"}

ItemOK(i) ==
    /\ task[i] # "none" => i \in itemList
    /\ AtWork(i) => phase = "running"
    /\ task[i] \in {"none", "waiting", "cancelled"} => requests[i] = 0
    /\ task[i] \in {"none", "waiting"} => attempt[i] = 0
    /\ task[i] \in {"sending", "delaying"} => requests[i] = attempt[i]
    /\ task[i] \notin {"succeeded", "failed"} => applied[i] = 0
    /\ task[i] = "succeeded" => ~Undone(i)
    /\ task[i] = "failed" => i \in FailedItems
    /\ task[i] = "cancelled" => cancelled
    /\ requests[i] <= MaxRetries + 1
    /\ applied[i] <= 1

FailureOK(f) ==
    /\ task[f.item] = "failed"
    /\ f.exception = "throttled" => requests[f.item] = MaxRetries + 1

ResultOK ==
    /\ phase \in {"reading", "given"} => \A i \in Items : task[i] = "none"
    /\ phase = "running" => \A i \in itemList : task[i] # "none"
    /\ result # "none" <=> phase = "returned"
    /\ result = "done" => failedItems = {}
    /\ result \in {"done", "failed"} =>
          \A i \in itemList : task[i] \in {"succeeded", "failed"}
    /\ result = "cancelled" => cancelled

ItemsOK == \A i \in Items : ItemOK(i)
FailuresOK == \A f \in failedItems : FailureOK(f)

IInv ==
    /\ TypeOK
    /\ PermitsConserved
    /\ ItemsOK
    /\ FailuresOK
    /\ ResultOK

-----------------------------------------------------------------------------
(* How the number of tasks that hold a permit changes. *)
LEMMA HoldingIsFinite == IsFiniteSet(Holding) /\ Cardinality(Holding) \in Nat
<1>1. Holding \subseteq Items
  BY DEF Holding
<1>2. IsFiniteSet(Holding)
  BY <1>1, FS_Subset, BulkAssumption
<1>. QED
  BY <1>2, FS_CardinalityType

(* No task at work, no permit taken.                                       *)
LEMMA NoneHolding ==
  ASSUME \A i \in Items : task[i] \notin {"sending", "delaying"}
  PROVE  Cardinality(Holding) = 0
<1>1. Holding = {}
  BY DEF Holding
<1>. QED
  BY <1>1, FS_EmptySet

(* A task that enters holds one more permit.                               *)
LEMMA OneEnters ==
  ASSUME TypeOK, NEW i \in Items, task[i] = "waiting",
         task' = [task EXCEPT ![i] = "sending"]
  PROVE  Cardinality(Holding') = Cardinality(Holding) + 1
<1>1. Holding' = Holding \cup {i} /\ i \notin Holding
  BY DEF TypeOK, Holding
<1>. QED
  BY <1>1, HoldingIsFinite, FS_AddElement

(* A task that ends holds one less.                                        *)
LEMMA OneLeaves ==
  ASSUME TypeOK, NEW i \in Items, task[i] \in {"sending", "delaying"},
         NEW s, s \notin {"sending", "delaying"},
         task' = [task EXCEPT ![i] = s]
  PROVE  /\ Cardinality(Holding') = Cardinality(Holding) - 1
         /\ Cardinality(Holding) >= 1
<1>1. Holding' = Holding \ {i} /\ i \in Holding
  BY DEF TypeOK, Holding
<1>2. Cardinality(Holding') = Cardinality(Holding) - 1
  BY <1>1, HoldingIsFinite, FS_RemoveElement
<1>3. Cardinality(Holding) # 0
  BY <1>1, HoldingIsFinite, FS_EmptySet
<1>. QED
  BY <1>2, <1>3, HoldingIsFinite

(* The finally block: whatever ends a task gives the permit back.          *)
LEMMA LeavingConserves ==
  ASSUME IInv, NEW i \in Items, task[i] \in {"sending", "delaying"},
         NEW s \in {"succeeded", "failed"},
         NEW failure \in SUBSET Failure,
         Leave(i, s, failure)
  PROVE  /\ permits' \in 0..MaxConcurrency
         /\ permits' + Cardinality(Holding') = MaxConcurrency
         /\ task' \in [Items -> TaskState]
         /\ failedItems' \subseteq Failure
<1>1. /\ Cardinality(Holding') = Cardinality(Holding) - 1
      /\ Cardinality(Holding) >= 1
  BY OneLeaves DEF Leave, IInv
<1>2. permits' = permits + 1
  BY DEF Leave
<1>0. /\ permits \in Nat /\ MaxConcurrency \in Nat
      /\ permits + Cardinality(Holding) = MaxConcurrency
  BY BulkAssumption DEF IInv, PermitsConserved, TypeOK
<1>3. /\ permits' \in 0..MaxConcurrency
      /\ permits' + Cardinality(Holding') = MaxConcurrency
  BY <1>0, <1>1, <1>2, HoldingIsFinite
<1>4. task' \in [Items -> TaskState] /\ failedItems' \subseteq Failure
  BY DEF Leave, IInv, TypeOK, TaskState
<1>. QED
  BY <1>3, <1>4

(* A task that is at work ends as a failure. *)
LEMMA ThrownIsRecorded ==
  ASSUME IInv, NEW i \in Items, task[i] \in {"sending", "delaying"},
         NEW exception \in {"error", "throttled", "cancelled"},
         Thrown(i, exception)
  PROVE  /\ permits' \in 0..MaxConcurrency
         /\ permits' + Cardinality(Holding') = MaxConcurrency
         /\ task' \in [Items -> TaskState]
         /\ failedItems' \subseteq Failure
         /\ task' = [task EXCEPT ![i] = "failed"]
         /\ failedItems' = failedItems \cup {[item |-> i, exception |-> exception]}
         /\ FailedItems' = FailedItems \cup {i}
<1>1. {[item |-> i, exception |-> exception]} \in SUBSET Failure
  BY DEF Failure
<1>2. /\ permits' \in 0..MaxConcurrency
      /\ permits' + Cardinality(Holding') = MaxConcurrency
      /\ task' \in [Items -> TaskState]
      /\ failedItems' \subseteq Failure
  BY <1>1, LeavingConserves DEF Thrown
<1>3. /\ task' = [task EXCEPT ![i] = "failed"]
      /\ failedItems' = failedItems \cup {[item |-> i, exception |-> exception]}
  BY DEF Thrown, Leave
<1>4. FailedItems' = FailedItems \cup {i}
  <2>1. FailedItems' = {f.item : f \in failedItems \cup {[item |-> i, exception |-> exception]}}
    BY <1>3 DEF FailedItems
  <2>2. [item |-> i, exception |-> exception].item = i
    OBVIOUS
  <2>. QED
    BY <2>1, <2>2 DEF FailedItems
<1>. QED
  BY <1>2, <1>3, <1>4

-----------------------------------------------------------------------------
(* A call that has not begun satisfies the invariant.                      *)
LEMMA InitEstablishesIInv == Init => IInv
<1>. SUFFICES ASSUME Init PROVE IInv
  OBVIOUS
<1>1. TypeOK
  <2>1. /\ task \in [Items -> TaskState]
        /\ attempt \in [Items -> 0..MaxRetries]
        /\ permits \in 0..MaxConcurrency
        /\ requests \in [Items -> Nat] /\ applied \in [Items -> Nat]
    BY BulkAssumption DEF Init, TaskState
  <2>2. phase \in {"reading", "given", "running", "returned"} /\ unread \subseteq Items
    BY DEF Init
  <2>. QED
    BY <2>1, <2>2 DEF Init, TypeOK
<1>2. PermitsConserved
  BY NoneHolding, BulkAssumption DEF Init, PermitsConserved
<1>3. ItemsOK
  BY BulkAssumption DEF Init, ItemsOK, ItemOK, AtWork
<1>4. FailuresOK /\ ResultOK
  BY DEF Init, FailuresOK, ResultOK
<1>. QED
  BY <1>1, <1>2, <1>3, <1>4 DEF IInv

(* Steps that leave the tasks alone. *)
LEMMA QuietSteps ==
  ASSUME IInv,
         UNCHANGED <<tasks, counters>>,
         \/ \E i \in Items : ReadItem(i) \/ RemoveItem(i) \/ AddItem(i)
         \/ ReadFails \/ CancelToken \/ Return
  PROVE  IInv'
<1>. USE DEF tasks, counters, call
<1>1. ASSUME NEW i \in Items, ReadItem(i)
      PROVE  IInv'
  BY <1>1 DEF ReadItem, IInv, TypeOK, PermitsConserved, Holding, ItemsOK, ItemOK, AtWork,
     Undone, FailedItems, FailuresOK, FailureOK, ResultOK
<1>2. ASSUME NEW i \in Items, RemoveItem(i)
      PROVE  IInv'
  BY <1>2 DEF RemoveItem, IInv, TypeOK, PermitsConserved, Holding, ItemsOK, ItemOK, AtWork,
     Undone, FailedItems, FailuresOK, FailureOK, ResultOK
<1>3. ASSUME NEW i \in Items, AddItem(i)
      PROVE  IInv'
  BY <1>3 DEF AddItem, IInv, TypeOK, PermitsConserved, Holding, ItemsOK, ItemOK, AtWork,
     Undone, FailedItems, FailuresOK, FailureOK, ResultOK
<1>4. CASE ReadFails
  BY <1>4 DEF ReadFails, IInv, TypeOK, PermitsConserved, Holding, ItemsOK, ItemOK, AtWork,
     Undone, FailedItems, FailuresOK, FailureOK, ResultOK
<1>5. CASE CancelToken
  BY <1>5 DEF CancelToken, IInv, TypeOK, PermitsConserved, Holding, ItemsOK, ItemOK, AtWork,
     Undone, FailedItems, FailuresOK, FailureOK, ResultOK
<1>6. CASE Return
  <2>. USE <1>6 DEF Return, TasksOver
  <2>1. \A i \in Items : ~AtWork(i)
    BY DEF Unfinished, AtWork
  <2>2. TypeOK' /\ PermitsConserved'
    BY DEF IInv, TypeOK, PermitsConserved, Holding
  <2>3. ItemsOK'
    BY <2>1 DEF IInv, ItemsOK, ItemOK, AtWork, Undone, FailedItems
  <2>4. FailuresOK'
    BY DEF IInv, FailuresOK, FailureOK
  <2>5. ASSUME Cancelled = {}, NEW i \in itemList
        PROVE  task[i] \in {"succeeded", "failed"}
    BY <2>1, <2>5 DEF IInv, TypeOK, TaskState, ResultOK, Cancelled, AtWork
  <2>6. Cancelled # {} => cancelled
    BY DEF Cancelled, IInv, ItemsOK, ItemOK
  <2>7. ASSUME Cancelled # {} PROVE ResultOK'
    <3>1. phase' = "returned" /\ result' = "cancelled" /\ cancelled'
      BY <2>6, <2>7
    <3>. QED
      BY <3>1 DEF ResultOK
  <2>8. ASSUME Cancelled = {}, failedItems # {} PROVE ResultOK'
    <3>1. phase' = "returned" /\ result' = "failed" /\ itemList' = itemList /\ task' = task
      BY <2>8
    <3>. QED
      BY <2>5, <2>8, <3>1 DEF ResultOK
  <2>9. ASSUME Cancelled = {}, failedItems = {} PROVE ResultOK'
    <3>1. phase' = "returned" /\ result' = "done" /\ itemList' = itemList /\ task' = task
          /\ failedItems' = {}
      BY <2>9
    <3>. QED
      BY <2>5, <2>9, <3>1 DEF ResultOK
  <2>10. ResultOK'
    BY <2>7, <2>8, <2>9
  <2>. QED
    BY <2>2, <2>3, <2>4, <2>10 DEF IInv
<1>. QED
  BY <1>1, <1>2, <1>3, <1>4, <1>5, <1>6

(* So does a call that starts its tasks.                                   *)
LEMMA StartingTasks ==
  ASSUME IInv, NEW items \in SUBSET Items,
         phase \in {"reading", "given"},
         StartTasks(items)
  PROVE  IInv'
<1>. USE DEF StartTasks
<1>1. TypeOK'
  <2>1. task' \in [Items -> TaskState]
    BY DEF TaskState
  <2>. QED
    BY <2>1 DEF IInv, TypeOK, counters
<1>2. PermitsConserved'
  <2>1. Cardinality(Holding) = 0 /\ Cardinality(Holding') = 0
    <3>1. Holding = {} /\ Holding' = {}
      BY DEF Holding, IInv, ResultOK
    <3>. QED
      BY <3>1, FS_EmptySet
  <2>. QED
    BY <2>1 DEF IInv, PermitsConserved
<1>3. ASSUME NEW i \in Items
      PROVE  ItemOK(i)'
  <2>1. task[i] = "none" /\ ItemOK(i)
    BY DEF IInv, ItemsOK, ResultOK
  <2>2. requests[i] = 0 /\ attempt[i] = 0 /\ applied[i] = 0
    BY <2>1 DEF ItemOK
  <2>3. task'[i] = IF i \in items THEN "waiting" ELSE "none"
    OBVIOUS
  <2>4. i \in items => phase' = "running" /\ i \in itemList'
    OBVIOUS
  <2>5. UNCHANGED <<requests, attempt, applied>>
    BY DEF counters
  <2>. QED
    BY <2>2, <2>3, <2>4, <2>5, BulkAssumption DEF ItemOK, AtWork
<1>4. FailuresOK' /\ failedItems = {}
  BY DEF IInv, TypeOK, Failure, FailuresOK, FailureOK, ResultOK
<1>5. ResultOK'
  BY <1>4 DEF IInv, ResultOK
<1>. QED
  BY <1>1, <1>2, <1>3, <1>4, <1>5 DEF IInv, ItemsOK

-----------------------------------------------------------------------------
(* A step of one task: what the other items know stays true, and the call  *)
(* has not returned.                                                       *)
LEMMA OthersKeep ==
  ASSUME IInv, NEW i \in Items, AtWork(i),
         NEW s \in TaskState, s # "none",
         task' = [task EXCEPT ![i] = s],
         UNCHANGED <<call, cancelled>>,
         failedItems \subseteq failedItems',
         \A j \in Items \ {i} : /\ requests'[j] = requests[j]
                                /\ attempt'[j] = attempt[j]
                                /\ applied'[j] = applied[j]
                                /\ operation = "delete" /\ j \in store' => j \in store
  PROVE  /\ \A j \in Items \ {i} : ItemOK(j)'
         /\ \A f \in failedItems : FailureOK(f)'
         /\ ResultOK'
<1>. USE DEF IInv
<1>1. phase = "running" /\ result = "none" /\ i \in itemList
  BY DEF ItemsOK, ItemOK, AtWork, ResultOK
<1>2. ASSUME NEW j \in Items \ {i}
      PROVE  ItemOK(j)'
  <2>1. ItemOK(j) /\ task'[j] = task[j]
    BY DEF ItemsOK, TypeOK
  <2>2. FailedItems \subseteq FailedItems'
    BY DEF FailedItems
  <2>3. ~Undone(j) => ~Undone(j)'
    BY BulkAssumption DEF Undone, call, TypeOK
  <2>. QED
    BY <2>1, <2>2, <2>3 DEF ItemOK, AtWork, call
<1>3. ASSUME NEW f \in failedItems
      PROVE  FailureOK(f)'
  <2>1. FailureOK(f) /\ f.item \in Items
    BY DEF FailuresOK, TypeOK, Failure
  <2>2. f.item # i
    BY <2>1 DEF FailureOK, AtWork
  <2>. QED
    BY <2>1, <2>2 DEF FailureOK, TypeOK
<1>4. ResultOK'
  <2>1. phase' = "running" /\ result' = "none" /\ itemList' = itemList
    BY <1>1 DEF call
  <2>2. ASSUME NEW j \in itemList
        PROVE  task'[j] # "none"
    BY <1>1, <2>2 DEF TypeOK, ResultOK
  <2>. QED
    BY <2>1, <2>2 DEF ResultOK
<1>. QED
  BY <1>2, <1>3, <1>4

(* Every step of a task preserves the invariant.                           *)
LEMMA TaskSteps ==
  ASSUME IInv, NEW i \in Items, TaskStep(i)
  PROVE  IInv'
<1>. USE DEF IInv
<1>0. ItemOK(i) /\ MaxRetries \in Nat /\ task[i] \in TaskState
      /\ requests[i] \in Nat /\ applied[i] \in Nat /\ attempt[i] \in 0..MaxRetries
  BY BulkAssumption DEF ItemsOK, TypeOK
<1>1. CASE Enter(i)
  <2>. USE <1>1 DEF Enter, counters
  <2>1. Cardinality(Holding') = Cardinality(Holding) + 1
    BY OneEnters
  <2>2. TypeOK' /\ PermitsConserved'
    BY <2>1, HoldingIsFinite, BulkAssumption DEF TypeOK, PermitsConserved, TaskState, call
  <2>3. /\ \A j \in Items \ {i} : ItemOK(j)'
        /\ \A f \in failedItems : FailureOK(f)'
        /\ ResultOK'
    BY OthersKeep, "sending" \in TaskState DEF AtWork, TaskState
  <2>4. ItemOK(i)'
    BY <1>0 DEF ItemOK, AtWork, call, TypeOK
  <2>. QED
    BY <2>2, <2>3, <2>4 DEF ItemsOK, FailuresOK
<1>2. CASE CancelWait(i)
  <2>. USE <1>2 DEF CancelWait, counters
  <2>1. Holding' = Holding
    BY DEF Holding, TypeOK
  <2>2. TypeOK' /\ PermitsConserved'
    BY <2>1 DEF TypeOK, PermitsConserved, TaskState, call
  <2>3. /\ \A j \in Items \ {i} : ItemOK(j)'
        /\ \A f \in failedItems : FailureOK(f)'
        /\ ResultOK'
    BY OthersKeep, "cancelled" \in TaskState DEF AtWork, TaskState
  <2>4. ItemOK(i)'
    BY <1>0 DEF ItemOK, AtWork, call, TypeOK
  <2>. QED
    BY <2>2, <2>3, <2>4 DEF ItemsOK, FailuresOK
<1>3. CASE Retry(i)
  <2>. USE <1>3 DEF Retry, counters
  <2>1. Holding' = Holding
    BY DEF Holding, TypeOK
  <2>2. TypeOK' /\ PermitsConserved'
    BY <2>1 DEF TypeOK, PermitsConserved, TaskState, call
  <2>3. /\ \A j \in Items \ {i} : ItemOK(j)'
        /\ \A f \in failedItems : FailureOK(f)'
        /\ ResultOK'
    BY OthersKeep, "sending" \in TaskState DEF AtWork, TaskState
  <2>4. ItemOK(i)'
    BY <1>0 DEF ItemOK, AtWork, call, TypeOK
  <2>. QED
    BY <2>2, <2>3, <2>4 DEF ItemsOK, FailuresOK
<1>4. CASE Succeed(i)
  <2>. USE <1>4 DEF Succeed
  <2>1. Leave(i, "succeeded", {}) /\ task[i] = "sending"
    OBVIOUS
  <2>2. /\ permits' \in 0..MaxConcurrency
        /\ permits' + Cardinality(Holding') = MaxConcurrency
        /\ task' \in [Items -> TaskState]
        /\ failedItems' \subseteq Failure
    BY <2>1, LeavingConserves
  <2>3. /\ task' = [task EXCEPT ![i] = "succeeded"]
        /\ failedItems' = failedItems
    BY <2>1 DEF Leave
  <2>0. /\ store' \subseteq Items /\ applied' \in [Items -> Nat]
        /\ requests' \in [Items -> Nat]
    BY DEF TypeOK, Apply, Requested
  <2>4. TypeOK' /\ PermitsConserved'
    BY <2>0, <2>2 DEF TypeOK, PermitsConserved, call
  <2>5. /\ \A j \in Items \ {i} : ItemOK(j)'
        /\ \A f \in failedItems : FailureOK(f)'
        /\ ResultOK'
    <3>1. \A j \in Items \ {i} : /\ requests'[j] = requests[j]
                                 /\ attempt'[j] = attempt[j]
                                 /\ applied'[j] = applied[j]
                                 /\ operation = "delete" /\ j \in store' => j \in store
      BY DEF Apply, Requested, TypeOK
    <3>. QED
      BY <2>1, <2>3, <3>1, OthersKeep, "succeeded" \in TaskState DEF AtWork, TaskState
  <2>6. ItemOK(i)'
    <3>1. applied'[i] = 1 /\ requests'[i] = attempt[i] + 1 /\ task'[i] = "succeeded"
      BY <1>0, <2>1, <2>3 DEF ItemOK, Apply, Requested, TypeOK
    <3>2. ~Undone(i)'
      BY <3>1, BulkAssumption DEF Undone, Apply, call, TypeOK
    <3>. QED
      BY <1>0, <2>1, <3>1, <3>2 DEF ItemOK, AtWork, call
  <2>. QED
    BY <2>3, <2>4, <2>5, <2>6 DEF ItemsOK, FailuresOK
<1>5. CASE Fail(i)
  <2>. USE <1>5 DEF Fail, AfterError
  <2>1. /\ permits' \in 0..MaxConcurrency
        /\ permits' + Cardinality(Holding') = MaxConcurrency
        /\ task' \in [Items -> TaskState]
        /\ failedItems' \subseteq Failure
        /\ task' = [task EXCEPT ![i] = "failed"]
        /\ failedItems' = failedItems \cup {[item |-> i, exception |-> "error"]}
        /\ FailedItems' = FailedItems \cup {i}
    BY ThrownIsRecorded
  <2>2. /\ store' \subseteq Items /\ applied' \in [Items -> Nat]
        /\ requests' \in [Items -> Nat]
    BY DEF TypeOK, Apply, Requested
  <2>3. TypeOK' /\ PermitsConserved'
    BY <2>1, <2>2 DEF TypeOK, PermitsConserved, call
  <2>4. \A j \in Items \ {i} : /\ requests'[j] = requests[j]
                               /\ attempt'[j] = attempt[j]
                               /\ applied'[j] = applied[j]
                               /\ operation = "delete" /\ j \in store' => j \in store
    BY DEF Apply, Requested, TypeOK
  <2>5. /\ \A j \in Items \ {i} : ItemOK(j)'
        /\ \A f \in failedItems : FailureOK(f)'
        /\ ResultOK'
    BY <2>1, <2>4, OthersKeep, "failed" \in TaskState DEF AtWork, TaskState
  <2>6. applied'[i] <= 1 /\ requests'[i] = attempt[i] + 1 /\ task'[i] = "failed"
    BY <1>0, <2>1 DEF ItemOK, Apply, Requested, TypeOK
  <2>7. ItemOK(i)'
    BY <1>0, <2>1, <2>6 DEF ItemOK, AtWork, call
  <2>8. FailureOK([item |-> i, exception |-> "error"])'
    BY <2>6 DEF FailureOK
  <2>. QED
    BY <2>1, <2>3, <2>5, <2>7, <2>8 DEF ItemsOK, FailuresOK
<1>6. ASSUME NEW exception \in {"throttled", "cancelled"},
             task[i] \in {"sending", "delaying"}, Thrown(i, exception),
             exception = "throttled" => requests'[i] = MaxRetries + 1,
             requests' \in [Items -> Nat], requests'[i] <= MaxRetries + 1,
             \A j \in Items \ {i} : requests'[j] = requests[j],
             UNCHANGED <<store, removed, call, cancelled, attempt, applied>>
      PROVE  IInv'
  <2>1. /\ permits' \in 0..MaxConcurrency
        /\ permits' + Cardinality(Holding') = MaxConcurrency
        /\ task' \in [Items -> TaskState]
        /\ failedItems' \subseteq Failure
        /\ task' = [task EXCEPT ![i] = "failed"]
        /\ failedItems' = failedItems \cup {[item |-> i, exception |-> exception]}
        /\ FailedItems' = FailedItems \cup {i}
    BY <1>6, ThrownIsRecorded
  <2>2. TypeOK' /\ PermitsConserved'
    BY <1>6, <2>1 DEF TypeOK, PermitsConserved, call
  <2>3. /\ \A j \in Items \ {i} : ItemOK(j)'
        /\ \A f \in failedItems : FailureOK(f)'
        /\ ResultOK'
    BY <1>6, <2>1, OthersKeep, "failed" \in TaskState DEF AtWork, TaskState
  <2>4. task'[i] = "failed"
    BY <2>1 DEF TypeOK
  <2>5. ItemOK(i)'
    BY <1>0, <1>6, <2>1, <2>4 DEF ItemOK, AtWork, call
  <2>6. FailureOK([item |-> i, exception |-> exception])'
    BY <1>6, <2>4 DEF FailureOK
  <2>. QED
    BY <2>1, <2>2, <2>3, <2>5, <2>6 DEF ItemsOK, FailuresOK
<1>7. CASE Throttle(i)
  <2>. USE <1>7 DEF Throttle
  <2>1. /\ requests'[i] = attempt[i] + 1 /\ requests' \in [Items -> Nat]
        /\ \A j \in Items \ {i} : requests'[j] = requests[j]
    BY <1>0 DEF ItemOK, Requested, TypeOK
  <2>2. CASE LastAttempt(i) /\ Thrown(i, "throttled") /\ UNCHANGED attempt
    BY <1>0, <1>6, <2>1, <2>2 DEF LastAttempt
  <2>3. CASE ~LastAttempt(i) /\ cancelled /\ Thrown(i, "cancelled") /\ UNCHANGED attempt
    BY <1>0, <1>6, <2>1, <2>3
  <2>4. CASE /\ ~LastAttempt(i)
             /\ task' = [task EXCEPT ![i] = "delaying"]
             /\ attempt' = [attempt EXCEPT ![i] = @ + 1]
             /\ UNCHANGED <<permits, failedItems>>
    <3>1. attempt'[i] = attempt[i] + 1 /\ attempt' \in [Items -> 0..MaxRetries]
          /\ \A j \in Items \ {i} : attempt'[j] = attempt[j]
      BY <1>0, <2>4 DEF TypeOK, LastAttempt
    <3>2. Holding' = Holding
      BY <2>4 DEF Holding, TypeOK
    <3>3. TypeOK' /\ PermitsConserved'
      BY <2>1, <2>4, <3>1, <3>2 DEF TypeOK, PermitsConserved, TaskState, call
    <3>4. /\ \A j \in Items \ {i} : ItemOK(j)'
          /\ \A f \in failedItems : FailureOK(f)'
          /\ ResultOK'
      BY <2>1, <2>4, <3>1, OthersKeep, "delaying" \in TaskState DEF AtWork, TaskState
    <3>5. task'[i] = "delaying"
      BY <2>4 DEF TypeOK
    <3>6. ItemOK(i)'
      BY <1>0, <2>1, <3>1, <3>5 DEF ItemOK, AtWork, call
    <3>. QED
      BY <2>4, <3>3, <3>4, <3>6 DEF ItemsOK, FailuresOK
  <2>. QED
    BY <2>2, <2>3, <2>4
<1>8. CASE CancelDelay(i)
  <2>1. requests[i] <= MaxRetries + 1
    BY <1>0 DEF ItemOK
  <2>. QED
    BY <1>6, <1>8, <2>1 DEF CancelDelay, counters, TypeOK
<1>. QED
  BY <1>1, <1>2, <1>3, <1>4, <1>5, <1>7, <1>8 DEF TaskStep

(* Every step of the call and of the other clients preserves it.           *)
LEMMA NextPreservesIInv == IInv /\ [Next]_vars => IInv'
<1>. SUFFICES ASSUME IInv, [Next]_vars PROVE IInv'
  OBVIOUS
<1>1. ASSUME NEW i \in Items, ReadItem(i) \/ RemoveItem(i) \/ AddItem(i)
      PROVE  IInv'
  <2>1. UNCHANGED <<tasks, counters>>
    BY <1>1 DEF ReadItem, RemoveItem, AddItem
  <2>. QED
    BY <1>1, <2>1, QuietSteps
<1>2. CASE ReadFails \/ CancelToken \/ Return
  <2>1. UNCHANGED <<tasks, counters>>
    BY <1>2 DEF ReadFails, CancelToken, Return
  <2>. QED
    BY <1>2, <2>1, QuietSteps
<1>3. ASSUME NEW items \in SUBSET Items, StartSaving(items)
      PROVE  IInv'
  BY <1>3, StartingTasks DEF StartSaving
<1>4. CASE StartDeleting
  BY <1>4, StartingTasks DEF StartDeleting, IInv, TypeOK
<1>5. ASSUME NEW i \in Items, TaskStep(i)
      PROVE  IInv'
  BY <1>5, TaskSteps
<1>6. CASE UNCHANGED vars
  BY <1>6 DEF vars, tasks, call, counters, IInv, TypeOK, PermitsConserved, Holding, ItemsOK,
     ItemOK, AtWork, Undone, FailedItems, FailuresOK, FailureOK, ResultOK
<1>. QED
  BY <1>1, <1>2, <1>3, <1>4, <1>5, <1>6 DEF Next

-----------------------------------------------------------------------------
(* The inductive invariant holds of every bulk save and bulk delete.       *)
THEOREM BulkInvariant == Safe => []IInv
  BY InitEstablishesIInv, NextPreservesIInv, PTL DEF Safe

(* Every variable keeps its type. *)
THEOREM BulkTypeOK == Safe => []TypeOK
  BY BulkInvariant, PTL DEF IInv

(* A call that returns normally has done everything, and one that throws   *)
(* the AggregateException names whatever it has not done.                  *)
THEOREM NothingMissedSilently == Safe => []ReturnIsTrue
<1>1. IInv => ReturnIsTrue
  <2>. SUFFICES ASSUME IInv PROVE ReturnIsTrue
    OBVIOUS
  <2>1. /\ result = "done" => failedItems = {}
        /\ result = "cancelled" => cancelled
    BY DEF IInv, ResultOK
  <2>2. ASSUME result \in {"done", "failed"}, NEW i \in itemList, Undone(i)
        PROVE  i \in FailedItems
    <3>1. task[i] \in {"succeeded", "failed"} /\ i \in Items
      BY <2>2 DEF IInv, ResultOK, TypeOK
    <3>. QED
      BY <2>2, <3>1 DEF IInv, ItemsOK, ItemOK
  <2>. QED
    BY <2>1, <2>2 DEF ReturnIsTrue
<1>. QED
  BY <1>1, BulkInvariant, PTL

(* No item is applied twice. *)
THEOREM NothingAppliedTwice == Safe => []AppliedOnce
<1>1. IInv => AppliedOnce
  BY DEF IInv, ItemsOK, ItemOK, AppliedOnce
<1>. QED
  BY <1>1, BulkInvariant, PTL

(* The retries are neither fewer nor more than MaxRetries. *)
THEOREM RetriesAreBounded == Safe => []RetryBudget
<1>1. IInv => RetryBudget
  BY DEF IInv, ItemsOK, ItemOK, FailuresOK, FailureOK, RetryBudget
<1>. QED
  BY <1>1, BulkInvariant, PTL

(* No more than MaxConcurrency items are at work.                          *)
THEOREM BulkPermitsConserved == Safe => []PermitsConserved
  BY BulkInvariant, PTL DEF IInv
=============================================================================
