--------------------------- MODULE BulkOperation ---------------------------
(***************************************************************************)
(* One call of SaveAllAsync or DeleteAllByTenantIdAsync                    *)
(* (CosmosTenantItemRepository.cs): a task per item, a semaphore that      *)
(* bounds how many of them are at work, a retry of requests that the       *)
(* server throttles, a list of the items that failed and a token that may  *)
(* be cancelled at any moment.  Meanwhile other clients may add and remove *)
(* items of the tenant.                                                    *)
(*                                                                         *)
(* `requests' and `applied' count what the call sends and what the server  *)
(* applies of it, `removed' is what the others took away; the code has no  *)
(* such variables.                                                         *)
(***************************************************************************)
EXTENDS Integers, FiniteSets

CONSTANTS
    Items,           (* the items of the tenant, ids are never used again   *)
    Operations,      (* the kinds of calls: "save", "delete"                *)
    MaxConcurrency,  (* maxConcurrency; SemaphoreSlim refuses 0             *)
    MaxRetries,      (* maxRetries, unchecked by the code: with a negative  *)
                     (* one no attempt is made and no item is reported      *)
    MayCancel,       (* whether the caller may cancel the token             *)
    OthersWork       (* whether other clients add and remove items          *)

ASSUME BulkAssumption ==
    /\ IsFiniteSet(Items)
    /\ Operations \subseteq {"save", "delete"}
    /\ MaxConcurrency \in Nat \ {0}
    /\ MaxRetries \in Nat
    /\ MayCancel \in BOOLEAN /\ OthersWork \in BOOLEAN

VARIABLES
    store,        (* the items the server has                               *)
    removed,      (* items that other clients removed                       *)
    operation,    (* SaveAllAsync or DeleteAllByTenantIdAsync               *)
    phase,        (* where the call is                                      *)
    unread,       (* GetAllAsync: the part of the tenant it has not read    *)
    itemList,     (* itemList                                               *)
    task, attempt, permits, failedItems,
    cancelled,    (* cancellationToken                                      *)
    result,       (* how the call ended                                     *)
    requests, applied

tasks == <<task, attempt, permits, failedItems>>
call == <<operation, phase, unread, itemList, result>>
counters == <<requests, applied>>
vars == <<store, removed, call, tasks, cancelled, counters>>

TaskState == {"none", "waiting", "sending", "delaying", "succeeded", "failed", "cancelled"}
Failure == [item : Items, exception : {"error", "throttled", "cancelled"}]

Holding == {i \in Items : task[i] \in {"sending", "delaying"}}
Unfinished == {i \in Items : task[i] \in {"waiting", "sending", "delaying"}}
Cancelled == {i \in Items : task[i] = "cancelled"}
FailedItems == {f.item : f \in failedItems}

-----------------------------------------------------------------------------
Init ==
    /\ store \in SUBSET Items
    /\ removed = {}
    /\ operation \in Operations
    /\ phase = IF operation = "delete" THEN "reading" ELSE "given"
    /\ unread = IF operation = "delete" THEN Items ELSE {}
    /\ itemList = {}
    /\ task = [i \in Items |-> "none"]
    /\ attempt = [i \in Items |-> 0]
    /\ permits = MaxConcurrency
    /\ failedItems = {}
    /\ cancelled = FALSE
    /\ result = "none"
    /\ requests = [i \in Items |-> 0]
    /\ applied = [i \in Items |-> 0]

(* DeleteAllByTenantIdAsync: GetAllAsync reads the tenant, which may change *)
(* while it does.                                                          *)
ReadItem(i) ==
    /\ phase = "reading" /\ i \in unread
    /\ unread' = unread \ {i}
    /\ itemList' = IF i \in store THEN itemList \cup {i} ELSE itemList
    /\ UNCHANGED <<store, removed, operation, phase, result, tasks, cancelled, counters>>

(* The query throws, and so does the call. *)
ReadFails ==
    /\ phase = "reading"
    /\ phase' = "returned" /\ result' = "thrown"
    /\ UNCHANGED <<store, removed, operation, unread, itemList, tasks, cancelled, counters>>

(* A task for every item; without items the call returns at once.          *)
StartTasks(items) ==
    /\ itemList' = items
    /\ task' = [i \in Items |-> IF i \in items THEN "waiting" ELSE "none"]
    /\ IF items = {} THEN phase' = "returned" /\ result' = "done"
                     ELSE phase' = "running" /\ UNCHANGED result
    /\ UNCHANGED <<store, removed, operation, unread, attempt, permits, failedItems,
                   cancelled, counters>>

StartSaving(items) == phase = "given" /\ StartTasks(items)
StartDeleting == phase = "reading" /\ unread = {} /\ StartTasks(itemList)

-----------------------------------------------------------------------------
(* semaphore.WaitAsync(cancellationToken): a permit, or the task ends as a *)
(* cancelled one, outside the try block.                                   *)
Mutant_EnterUnbounded(i) ==
    /\ task[i] = "waiting" /\ ~cancelled
    /\ permits' = permits - 1
    /\ task' = [task EXCEPT ![i] = "sending"]
    /\ UNCHANGED <<store, removed, call, attempt, failedItems, cancelled, counters>>
Enter(i) ==
    /\ task[i] = "waiting" /\ ~cancelled
    /\ permits > 0
    /\ permits' = permits - 1
    /\ task' = [task EXCEPT ![i] = "sending"]
    /\ UNCHANGED <<store, removed, call, attempt, failedItems, cancelled, counters>>

CancelWait(i) ==
    /\ task[i] = "waiting" /\ cancelled
    /\ task' = [task EXCEPT ![i] = "cancelled"]
    /\ UNCHANGED <<store, removed, call, attempt, permits, failedItems, cancelled, counters>>

(* SaveAsync or DeleteAsync is applied by the server. *)
Apply(i) ==
    /\ store' = IF operation = "save" THEN store \cup {i} ELSE store \ {i}
    /\ applied' = [applied EXCEPT ![i] = @ + 1]

Requested(i) == requests' = [requests EXCEPT ![i] = @ + 1]

(* The finally block; `failure' is what the catch block has added.         *)
Mutant_Leave(i, end, failure) ==
    /\ task' = [task EXCEPT ![i] = end]
    /\ permits' = IF failure = {} THEN permits + 1 ELSE permits
    /\ failedItems' = failedItems \cup failure
Leave(i, end, failure) ==
    /\ task' = [task EXCEPT ![i] = end]
    /\ permits' = permits + 1
    /\ failedItems' = failedItems \cup failure

Mutant_Thrown(i, exception) ==
    Leave(i, "succeeded", {})
Thrown(i, exception) ==
    Leave(i, "failed", {[item |-> i, exception |-> exception]})

(* There is nothing to delete any more: NotFound is an error. *)
MaySucceed(i) == operation = "save" \/ i \in store

Succeed(i) ==
    /\ task[i] = "sending" /\ MaySucceed(i)
    /\ Apply(i) /\ Requested(i)
    /\ Leave(i, "succeeded", {})
    /\ UNCHANGED <<removed, call, attempt, cancelled>>

(* Any error but 429 ends the item's task; a request that timed out may    *)
(* have been applied.                                                      *)
Mutant_AfterError(i) ==
    IF attempt[i] < MaxRetries
    THEN /\ attempt' = [attempt EXCEPT ![i] = @ + 1]
         /\ task' = [task EXCEPT ![i] = "delaying"]
         /\ UNCHANGED <<permits, failedItems>>
    ELSE Thrown(i, "error") /\ UNCHANGED attempt
AfterError(i) == Thrown(i, "error") /\ UNCHANGED attempt

Fail(i) ==
    /\ task[i] = "sending"
    /\ \/ UNCHANGED <<store, applied>>
       \/ MaySucceed(i) /\ Apply(i)
    /\ Requested(i)
    /\ AfterError(i)
    /\ UNCHANGED <<removed, call, cancelled>>

(* 429: the request was not applied and is sent again after a delay, with  *)
(* the permit in hand, unless this was the last attempt.  Task.Delay       *)
(* throws at once when the token is cancelled.                             *)
Mutant_LastAttempt(i) == attempt[i] = MaxRetries - 1
LastAttempt(i) == attempt[i] = MaxRetries

Throttle(i) ==
    /\ task[i] = "sending"
    /\ Requested(i)
    /\ \/ /\ LastAttempt(i)
          /\ Thrown(i, "throttled") /\ UNCHANGED attempt
       \/ /\ ~LastAttempt(i) /\ cancelled
          /\ Thrown(i, "cancelled") /\ UNCHANGED attempt
       \/ /\ ~LastAttempt(i) /\ ~cancelled
          /\ task' = [task EXCEPT ![i] = "delaying"]
          /\ attempt' = [attempt EXCEPT ![i] = @ + 1]
          /\ UNCHANGED <<permits, failedItems>>
    /\ UNCHANGED <<store, removed, call, cancelled, applied>>

(* The delay is over; it may have ended just before the cancellation.      *)
Retry(i) ==
    /\ task[i] = "delaying"
    /\ task' = [task EXCEPT ![i] = "sending"]
    /\ UNCHANGED <<store, removed, call, attempt, permits, failedItems, cancelled, counters>>

CancelDelay(i) ==
    /\ task[i] = "delaying" /\ cancelled
    /\ Thrown(i, "cancelled")
    /\ UNCHANGED <<store, removed, call, attempt, cancelled, counters>>

-----------------------------------------------------------------------------
(* Task.WhenAll throws if a task was cancelled, whatever failedItems says; *)
(* else the failed items are thrown as one AggregateException.             *)
TasksOver == phase = "running" /\ Unfinished = {}

Return ==
    /\ TasksOver
    /\ phase' = "returned"
    /\ result' = CASE Cancelled # {}                       -> "cancelled"
                   [] Cancelled = {} /\ failedItems # {}   -> "failed"
                   [] Cancelled = {} /\ failedItems = {}   -> "done"
    /\ UNCHANGED <<store, removed, operation, unread, itemList, tasks, cancelled, counters>>

CancelToken ==
    /\ MayCancel /\ ~cancelled
    /\ phase # "returned"
    /\ cancelled' = TRUE
    /\ UNCHANGED <<store, removed, call, tasks, counters>>

(* Other clients. *)
RemoveItem(i) ==
    /\ OthersWork
    /\ i \in store
    /\ store' = store \ {i}
    /\ removed' = removed \cup {i}
    /\ UNCHANGED <<call, tasks, cancelled, counters>>

AddItem(i) ==
    /\ OthersWork
    /\ i \notin store \cup itemList \cup removed
    /\ operation = "delete"
    /\ store' = store \cup {i}
    /\ UNCHANGED <<removed, call, tasks, cancelled, counters>>

TaskStep(i) ==
    \/ Enter(i) \/ CancelWait(i)
    \/ Succeed(i) \/ Fail(i) \/ Throttle(i)
    \/ Retry(i) \/ CancelDelay(i)

Next ==
    \/ \E i \in Items : ReadItem(i) \/ TaskStep(i) \/ RemoveItem(i) \/ AddItem(i)
    \/ \E items \in SUBSET Items : StartSaving(items)
    \/ ReadFails
    \/ StartDeleting
    \/ Return
    \/ CancelToken

(* Requests are answered, delays end, a free permit goes to one who waits. *)
Fairness ==
    /\ WF_vars(\E i \in Items : ReadItem(i))
    /\ WF_vars(StartDeleting) /\ WF_vars(Return)
    /\ \A i \in Items : WF_vars(TaskStep(i))

Safe == Init /\ [][Next]_vars
Spec == Safe /\ Fairness

-----------------------------------------------------------------------------
(* The types; no attempt exceeds maxRetries and the semaphore stays within *)
(* its bounds.                                                             *)
TypeOK ==
    /\ store \subseteq Items
    /\ removed \subseteq Items
    /\ operation \in Operations
    /\ phase \in {"reading", "given", "running", "returned"}
    /\ unread \subseteq Items /\ itemList \subseteq Items
    /\ task \in [Items -> TaskState]
    /\ attempt \in [Items -> 0..MaxRetries]
    /\ permits \in 0..MaxConcurrency
    /\ failedItems \subseteq Failure
    /\ cancelled \in BOOLEAN
    /\ result \in {"none", "thrown", "done", "failed", "cancelled"}
    /\ requests \in [Items -> Nat]
    /\ applied \in [Items -> Nat]

(* What the call has to do for an item and has not done. *)
Undone(i) == IF operation = "save" THEN applied[i] = 0 ELSE i \in store

(* Nothing is missed silently: when the call returns normally, or throws   *)
(* the AggregateException, every item that is not saved or not deleted is  *)
(* among the failures; and only a cancellation the caller asked for is     *)
(* reported as one.                                                        *)
ReturnIsTrue ==
    /\ result = "done" => failedItems = {}
    /\ result \in {"done", "failed"} => \A i \in itemList : Undone(i) => i \in FailedItems
    /\ result = "cancelled" => cancelled

(* A write that may have been applied is not sent again: the call applies  *)
(* no item twice, although requests time out and are retried.              *)
AppliedOnce == \A i \in Items : applied[i] <= 1

(* "Maximum number of retry attempts for throttled requests"               *)
(* (CosmosTenantItemRepository.cs:184): an item is given up for throttling *)
(* after exactly 1 + MaxRetries requests, and no item takes more.          *)
RetryBudget ==
    /\ \A i \in Items : requests[i] <= MaxRetries + 1
    /\ \A f \in failedItems :
          f.exception = "throttled" => requests[f.item] = MaxRetries + 1

(* No more than MaxConcurrency items are at work, those that wait for a    *)
(* retry included, and no end of a task loses its permit.                  *)
PermitsConserved == permits + Cardinality(Holding) = MaxConcurrency

(* The call ends, however often it is throttled and even if the token is   *)
(* cancelled while tasks wait for a permit.                                *)
CallReturns == phase = "running" ~> phase = "returned"
=============================================================================
