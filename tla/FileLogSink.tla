---------------------------- MODULE FileLogSink ----------------------------
(***************************************************************************)
(* The log sink of the query diagnostics (FileCosmosQueryLogSink.cs):      *)
(* threads that record events, a bounded queue, one background thread that *)
(* writes them to a file, and Dispose, which completes the queue, waits    *)
(* for the thread for five seconds, cancels it and disposes of the queue.  *)
(*                                                                         *)
(* Every event is recorded once, by a thread of its own.  The queue is a   *)
(* BlockingCollection; what is used of it is modelled by its documented    *)
(* behaviour: TryAdd throws once adding is completed, everything throws    *)
(* once it is disposed of, and the consuming enumerable tests IsCompleted  *)
(* before it waits for the next event.                                     *)
(***************************************************************************)
EXTENDS Integers, Sequences, FiniteSets

CONSTANTS
    Events,         (* the events that are recorded                          *)
    QueueCapacity,  (* QueueCapacity of the options                          *)
    DiskFails       (* whether AppendAllText may throw                       *)

ASSUME SinkAssumption ==
    /\ QueueCapacity \in Nat \ {0}
    /\ DiskFails \in BOOLEAN

VARIABLES
    event,      (* what became of every event                                *)
    queue,      (* _queue                                                    *)
    accepted,   (* every event the queue took, in order                      *)
    file,       (* the lines of the file                                     *)
    dropped,    (* _droppedCount                                             *)
    worker,     (* where ProcessQueue is                                     *)
    hand,       (* the event it writes, as a sequence of at most one         *)
    disposer,   (* where Dispose is                                          *)
    timedOut,   (* whether its join timed out                                *)
    cancelled   (* _shutdownCts                                              *)

vars == <<event, queue, accepted, file, dropped, worker, hand, disposer, timedOut,
          cancelled>>

EventState == {"new", "recording", "accepted", "dropped", "ignored", "refused"}
WorkerState == {"enumerating", "taking", "writing", "ended", "crashed"}
DisposerState == {"none", "joining", "joined", "cancelled", "returned"}

AddingCompleted == disposer # "none"
QueueDisposed == disposer = "returned"
ProcessAlive == worker # "crashed"

-----------------------------------------------------------------------------
Init ==
    /\ event = [e \in Events |-> "new"]
    /\ queue = <<>> /\ accepted = <<>> /\ file = <<>>
    /\ dropped = 0
    /\ worker = "enumerating" /\ hand = <<>>
    /\ disposer = "none" /\ timedOut = FALSE /\ cancelled = FALSE

(* Record: the test of IsAddingCompleted, which throws after Dispose.      *)
Record(e) ==
    /\ ProcessAlive
    /\ event[e] = "new"
    /\ event' = [event EXCEPT ![e] =
                   CASE QueueDisposed                     -> "refused"
                     [] AddingCompleted /\ ~QueueDisposed -> "ignored"
                     [] ~AddingCompleted                  -> "recording"]
    /\ UNCHANGED <<queue, accepted, file, dropped, worker, hand, disposer, timedOut, cancelled>>

(* Record: TryAdd.  Dispose may have begun or ended since the test; the    *)
(* exception this throws is caught by the repository.                      *)
Mutant_TryAddUnbounded(e) ==
    /\ ProcessAlive
    /\ event[e] = "recording"
    /\ \/ /\ AddingCompleted
          /\ event' = [event EXCEPT ![e] = "refused"]
          /\ UNCHANGED <<queue, accepted, dropped>>
       \/ /\ ~AddingCompleted
          /\ event' = [event EXCEPT ![e] = "accepted"]
          /\ queue' = Append(queue, e) /\ accepted' = Append(accepted, e)
          /\ UNCHANGED dropped
    /\ UNCHANGED <<file, worker, hand, disposer, timedOut, cancelled>>
TryAdd(e) ==
    /\ ProcessAlive
    /\ event[e] = "recording"
    /\ \/ /\ AddingCompleted
          /\ event' = [event EXCEPT ![e] = "refused"]
          /\ UNCHANGED <<queue, accepted, dropped>>
       \/ /\ ~AddingCompleted /\ Len(queue) < QueueCapacity
          /\ event' = [event EXCEPT ![e] = "accepted"]
          /\ queue' = Append(queue, e) /\ accepted' = Append(accepted, e)
          /\ UNCHANGED dropped
       \/ /\ ~AddingCompleted /\ Len(queue) >= QueueCapacity
          /\ event' = [event EXCEPT ![e] = "dropped"]
          /\ dropped' = dropped + 1
          /\ UNCHANGED <<queue, accepted>>
    /\ UNCHANGED <<file, worker, hand, disposer, timedOut, cancelled>>

-----------------------------------------------------------------------------
(* ProcessQueue *)

(* The enumerable tests IsCompleted, which throws when the queue is        *)
(* disposed of.  ProcessQueue catches OperationCanceledException only, and *)
(* an exception that leaves a thread ends the process.                     *)
Enumerate ==
    /\ worker = "enumerating"
    /\ worker' = CASE QueueDisposed                                       -> "crashed"
                   [] AddingCompleted /\ ~QueueDisposed /\ queue = <<>>   -> "ended"
                   [] ~QueueDisposed /\ ~(AddingCompleted /\ queue = <<>>) -> "taking"
    /\ UNCHANGED <<event, queue, accepted, file, dropped, hand, disposer, timedOut, cancelled>>

(* Then it takes the next event; an empty queue makes it wait.  The tests  *)
(* of disposal and of the token may lie on either side of a DisposeQueue.  *)
NextOf(q) == Head(q)

Take ==
    /\ worker = "taking"
    /\ \/ /\ QueueDisposed
          /\ worker' = "crashed" /\ UNCHANGED <<queue, hand>>
       \/ /\ cancelled
          /\ worker' = "ended" /\ UNCHANGED <<queue, hand>>
       \/ /\ ~QueueDisposed /\ ~cancelled /\ queue # <<>>
          /\ hand' = <<NextOf(queue)>> /\ queue' = Tail(queue)
          /\ worker' = "writing"
       \/ /\ ~QueueDisposed /\ ~cancelled /\ queue = <<>> /\ AddingCompleted
          /\ worker' = "enumerating" /\ UNCHANGED <<queue, hand>>
    /\ UNCHANGED <<event, accepted, file, dropped, disposer, timedOut, cancelled>>

(* AppendAllText; what it throws is swallowed and the event with it.       *)
Mutant_AfterWriteFailed == "ended"
AfterWriteFailed == "enumerating"

Mutant_WriteRequeuing ==
    /\ worker = "writing"
    /\ hand' = <<>> /\ worker' = "enumerating"
    /\ \/ file' = file \o hand /\ UNCHANGED queue
       \/ DiskFails /\ queue' = queue \o hand /\ UNCHANGED file
    /\ UNCHANGED <<event, accepted, dropped, disposer, timedOut, cancelled>>
Write ==
    /\ worker = "writing"
    /\ hand' = <<>>
    /\ \/ file' = file \o hand /\ worker' = "enumerating"
       \/ DiskFails /\ worker' = AfterWriteFailed /\ UNCHANGED file
    /\ UNCHANGED <<event, queue, accepted, dropped, disposer, timedOut, cancelled>>

-----------------------------------------------------------------------------
(* Dispose *)
CompleteAdding ==
    /\ ProcessAlive
    /\ disposer = "none"
    /\ disposer' = "joining"
    /\ UNCHANGED <<event, queue, accepted, file, dropped, worker, hand, timedOut, cancelled>>

(* _worker.Join(TimeSpan.FromSeconds(5)): its result is not looked at, so  *)
(* that Dispose goes on alike when the writes outlast the five seconds.    *)
Mutant_WorkerJoined == TRUE
WorkerJoined == worker = "ended"
Mutant_JoinTimesOut == FALSE
JoinTimesOut == worker # "ended"

Join ==
    /\ ProcessAlive
    /\ disposer = "joining"
    /\ \/ WorkerJoined /\ UNCHANGED timedOut
       \/ JoinTimesOut /\ timedOut' = TRUE
    /\ disposer' = "joined"
    /\ UNCHANGED <<event, queue, accepted, file, dropped, worker, hand, cancelled>>

Cancel ==
    /\ ProcessAlive
    /\ disposer = "joined"
    /\ disposer' = "cancelled" /\ cancelled' = TRUE
    /\ UNCHANGED <<event, queue, accepted, file, dropped, worker, hand, timedOut>>

DisposeQueue ==
    /\ ProcessAlive
    /\ disposer = "cancelled"
    /\ disposer' = "returned"
    /\ UNCHANGED <<event, queue, accepted, file, dropped, worker, hand, timedOut, cancelled>>

Dispose == CompleteAdding \/ Join \/ Cancel \/ DisposeQueue
ProcessQueue == Enumerate \/ Take \/ Write

Next ==
    \/ \E e \in Events : Record(e) \/ TryAdd(e)
    \/ ProcessQueue
    \/ Dispose

(* The thread runs on, but a write that is stuck in the file system may    *)
(* stay there; a Dispose that was called goes on, and Join times out.      *)
Fairness ==
    /\ WF_vars(Enumerate \/ Take)
    /\ WF_vars(Join \/ Cancel \/ DisposeQueue)
DiskResponds == WF_vars(Write)

Safe == Init /\ [][Next]_vars
Spec == Safe /\ Fairness

-----------------------------------------------------------------------------
Count(state) == Cardinality({e \in Events : event[e] = state})

(* The types; the queue never holds more than its capacity, and the        *)
(* dropped count is the number of events that were dropped.                *)
TypeOK ==
    /\ event \in [Events -> EventState]
    /\ queue \in Seq(Events) /\ Len(queue) <= QueueCapacity
    /\ accepted \in Seq(Events) /\ file \in Seq(Events)
    /\ dropped = Count("dropped")
    /\ worker \in WorkerState
    /\ hand \in Seq(Events) /\ Len(hand) = (IF worker = "writing" THEN 1 ELSE 0)
    /\ disposer \in DisposerState /\ timedOut \in BOOLEAN
    /\ cancelled \in BOOLEAN

(* What the queue took is in the file in the same order, once, or still    *)
(* under way: a failed write leaves its event out and disturbs no other.   *)
(* The first n events are no longer under way, and the lines of the file   *)
(* are some of them, at the places `at' among them.                        *)
FileInOrder ==
    \E n \in 0..Len(accepted) :
        /\ SubSeq(accepted, n + 1, Len(accepted)) = hand \o queue
        /\ \E at \in [DOMAIN file -> 1..n] :
              /\ \A i, j \in DOMAIN file : i < j => at[i] < at[j]
              /\ \A i \in DOMAIN file : file[i] = accepted[at[i]]

(* Dispose "blocks until the background writer has flushed everything      *)
(* currently queued" (FileCosmosQueryLogSink.cs:157-158): when it has      *)
(* returned, and its join did not time out, every event the queue took was *)
(* handed to the file system.                                              *)
FlushedOnDispose ==
    disposer = "returned" /\ ~timedOut => hand = <<>> /\ queue = <<>>

(* A Dispose whose join does not time out never pulls the queue from under *)
(* the worker, whatever the disk throws and whoever records meanwhile.     *)
SurvivesTimelyDispose == ~timedOut => ProcessAlive

(* "A broken sink must not prevent a query from completing"                *)
(* (ICosmosQueryLogSink.cs:27-28): it does not take the process down.      *)
ProcessSurvives == ProcessAlive

(* Dispose always returns, even if the disk never answers again. *)
DisposeReturns == disposer # "none" ~> disposer = "returned" \/ ~ProcessAlive

(* A failing disk stops nothing: as long as every write ends in some way,  *)
(* an event the queue took leaves it, unless the sink is disposed of.      *)
QueueDrains ==
    DiskResponds =>
        \A e \in Events :
            (\E i \in DOMAIN queue : queue[i] = e)
            ~> (\A i \in DOMAIN queue : queue[i] # e) \/ cancelled
=============================================================================
