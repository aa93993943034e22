----------------------------- MODULE Migration -----------------------------
(***************************************************************************)
(* Runs of the container migration (MigrationRunner.RunAsync): a producer  *)
(* that reads pages of the source container and transforms them, a bounded *)
(* channel, a consumer that writes batches to the destination container    *)
(* and records them in the progress directory (ProgressTracker.cs), and a  *)
(* tool that may be killed at any moment and started again.                *)
(*                                                                         *)
(* What survives a run is the destination of every account and the         *)
(* progress directory; everything else is memory of the process.  The      *)
(* write tasks of a batch and the concurrency controller are those of      *)
(* AdaptiveConcurrency.                                                    *)
(***************************************************************************)
EXTENDS Integers, Sequences, FiniteSets

CONSTANTS
    Docs,            (* the documents of the source container               *)
    Ids,             (* document ids                                        *)
    IdOf,            (* the id of a document; unique only within a partition *)
    Transformable,   (* the documents DocumentTransformer accepts           *)
    Endpoints,       (* Cosmos DB accounts the tool is pointed at           *)
    Modes,           (* the modes of the runs: "live", "dry", "validate"    *)
    BatchSize,       (* MaxItemCount of the source query                    *)
    ChannelCapacity, (* BoundedChannelOptions(3)                            *)
    MaxRuns,         (* bound: how often the tool is started                *)
    Faults,          (* bound: what may go wrong in a run                   *)
    Floor, Ceiling, RampUpAfter, RampUpStep, InitialConcurrency

ASSUME MigrationAssumption ==
    /\ IdOf \in [Docs -> Ids]
    /\ Transformable \subseteq Docs
    /\ Modes \subseteq {"live", "dry", "validate"}
    /\ BatchSize \in Nat \ {0}
    /\ ChannelCapacity \in Nat \ {0}
    /\ MaxRuns \in Nat
    /\ Faults \subseteq {"kill", "source", "disk"}
    /\ "none" \notin Endpoints

(* What the controller of the write tasks assumes (AdaptiveConcurrency).   *)
ASSUME WriterAssumption ==
    /\ IsFiniteSet(Docs)
    /\ Floor \in Nat \ {0} /\ Ceiling \in Nat
    /\ Floor <= Ceiling
    /\ RampUpAfter \in Nat \ {0}
    /\ RampUpStep \in Nat \ {0}
    /\ InitialConcurrency \in Int

VARIABLES
    \* What the runs leave behind.
    ready,           (* the endpoints whose destination container exists    *)
    dest,            (* the documents every destination holds               *)
    successFiles,    (* {progressDir}/success: batch number -> ids          *)
    failedFiles,     (* {progressDir}/failed: batch number -> ids           *)
    \* The run that is under way.
    run,             (* how many runs were started                          *)
    phase, mode, target,
    completedIds, batchCounter,            \* ProgressTracker
    producer, unread, pending, channel,    \* RunProducerAsync
    consumer,                              \* RunConsumerAsync
    stats,                                 \* MigrationStats, SkippedCount
    \* The controller and the write tasks.
    currentConcurrency, consecutiveCleanBatches, permits, task, orphans

Writer == INSTANCE AdaptiveConcurrency WITH Items <- Docs

disk == <<successFiles, failedFiles>>
tracker == <<completedIds, batchCounter>>
source == <<producer, unread, pending>>
process == <<run, phase, mode, target>>
writer == <<currentConcurrency, consecutiveCleanBatches, permits, task, orphans>>
vars == <<ready, dest, disk, process, tracker, source, channel, consumer, stats, writer>>

IdsOf(docs) == {IdOf[d] : d \in docs}
IdsIn(files) == UNION {files[n] : n \in DOMAIN files}
Recorded == IdsIn(successFiles)
RecordedFailures == IdsIn(failedFiles)

Stats == [processed: Nat, skipped: Nat, transformErrors: Nat, transformed: Nat,
          written: Nat, writeErrors: Nat, throttles: Nat]
NoFiles == [n \in {} |-> {}]
NoStats == [processed |-> 0, skipped |-> 0, transformErrors |-> 0,
            transformed |-> 0, written |-> 0, writeErrors |-> 0, throttles |-> 0]

(* The numbers in use are counted, not read. *)
Mutant_CountExistingBatchFiles ==
    Cardinality(DOMAIN successFiles) + Cardinality(DOMAIN failedFiles) - 1
CountExistingBatchFiles == Cardinality(DOMAIN successFiles) + Cardinality(DOMAIN failedFiles)

(* File.WriteAllLines: a file of that number is overwritten. *)
WriteAllLines(files, n, ids) ==
    [k \in DOMAIN files \cup {n} |-> IF k = n THEN ids ELSE files[k]]

Succeeded == {d \in Docs : task[d] = "ok"}
Mutant_NotWritten == {d \in Docs : task[d] = "failed"}
NotWritten == {d \in Docs : task[d] \in {"throttled", "failed"}}

-----------------------------------------------------------------------------
(* The memory of a process that does not run. *)
IdleMemory ==
    /\ mode = "none" /\ target = "none"
    /\ completedIds = {} /\ batchCounter = 0
    /\ producer = "off" /\ unread = {} /\ pending = {} /\ channel = <<>>
    /\ consumer = "off" /\ stats = NoStats

LoseMemory ==
    /\ mode' = "none" /\ target' = "none"
    /\ completedIds' = {} /\ batchCounter' = 0
    /\ producer' = "off" /\ unread' = {} /\ pending' = {} /\ channel' = <<>>
    /\ consumer' = "off" /\ stats' = NoStats
    /\ Writer!NewController

Init ==
    /\ ready = {}
    /\ dest = [e \in Endpoints |-> {}]
    /\ successFiles = NoFiles /\ failedFiles = NoFiles
    /\ run = 0 /\ phase = "down"
    /\ IdleMemory
    /\ Writer!Init

(* /validate-only: the destination is created when it does not exist; the  *)
(* progress directory is not looked at.                                    *)
Validate(e) ==
    /\ phase = "down" /\ run < MaxRuns
    /\ "validate" \in Modes
    /\ run' = run + 1
    /\ ready' = ready \cup {e}
    /\ UNCHANGED <<dest, disk, phase, mode, target, tracker, source, channel,
                   consumer, stats, writer>>

(* RunAsync up to the constructor of the tracker, which loads the ids of   *)
(* the success files.  The progress directory is named after the database  *)
(* and the containers, so every account shares it.                         *)
Start(e, m) ==
    /\ phase = "down" /\ run < MaxRuns
    /\ m \in Modes \ {"validate"}
    /\ run' = run + 1
    /\ phase' = "preparing" /\ mode' = m /\ target' = e
    /\ completedIds' = Recorded
    /\ batchCounter' = CountExistingBatchFiles
    /\ UNCHANGED <<ready, dest, disk, source, channel, consumer, stats, writer>>

(* ClearFailures deletes file after file, and only if ids were loaded.     *)
ClearFailures(n) ==
    /\ phase = "preparing" /\ completedIds # {}
    /\ n \in DOMAIN failedFiles
    /\ failedFiles' = [k \in DOMAIN failedFiles \ {n} |-> failedFiles[k]]
    /\ UNCHANGED <<ready, dest, successFiles, process, tracker, source, channel,
                   consumer, stats, writer>>

(* The rest of RunAsync before the two tasks: the destination is created,  *)
(* unless this is a dry run, then the controller and the channel.          *)
BeginCopy ==
    /\ phase = "preparing"
    /\ completedIds # {} => DOMAIN failedFiles = {}
    /\ phase' = "copying"
    /\ ready' = IF mode = "dry" THEN ready ELSE ready \cup {target}
    /\ producer' = "reading" /\ unread' = Docs /\ consumer' = "reading"
    /\ Writer!NewController
    /\ UNCHANGED <<dest, disk, run, mode, target, tracker, pending, channel, stats>>

-----------------------------------------------------------------------------
(* RunProducerAsync *)

(* One page: ids that were recorded are skipped, documents that cannot be  *)
(* transformed are counted, the others become a batch unless there are     *)
(* none.  The pages are those the query gives, of at most BatchSize.       *)
Skipped(page) == {d \in page : IdOf[d] \in completedIds}

ReadPage(page) ==
    LET skipped == Skipped(page)
        items == (page \ skipped) \cap Transformable
    IN /\ producer = "reading"
       /\ page # {} /\ page \subseteq unread
       /\ Cardinality(page) <= BatchSize
       /\ unread' = unread \ page
       /\ pending' = items
       /\ producer' = IF items = {} THEN "reading" ELSE "writing"
       /\ stats' = [stats EXCEPT
                      !.processed = @ + Cardinality(page),
                      !.skipped = @ + Cardinality(skipped),
                      !.transformErrors = @ + Cardinality((page \ skipped) \ Transformable),
                      !.transformed = @ + Cardinality(items)]
       /\ UNCHANGED <<ready, dest, disk, process, tracker, channel, consumer, writer>>

(* WriteAsync waits while the channel is full. *)
EnqueueBatch ==
    /\ producer = "writing"
    /\ Len(channel) < ChannelCapacity
    /\ channel' = Append(channel, pending)
    /\ pending' = {}
    /\ producer' = "reading"
    /\ UNCHANGED <<ready, dest, disk, process, tracker, unread, consumer, stats, writer>>

(* No page is left, or reading one throws: the channel is completed.       *)
EndProducer ==
    /\ producer = "reading"
    /\ \/ unread = {} /\ producer' = "done"
       \/ "source" \in Faults /\ producer' = "faulted"
    /\ UNCHANGED <<ready, dest, disk, process, tracker, unread, pending, channel,
                   consumer, stats, writer>>

(* The finally block completes the channel after a fault, too.             *)
Mutant_ChannelCompleted == producer = "done"
ChannelCompleted == producer \in {"done", "faulted"}

-----------------------------------------------------------------------------
(* RunConsumerAsync *)

(* The next batch: a dry run drops it, a live one starts its write tasks.  *)
Mutant_ConsumeBatchAnyMode ==
    /\ consumer = "reading" /\ channel # <<>>
    /\ channel' = Tail(channel)
    /\ Writer!StartTasks(Head(channel))
    /\ consumer' = "writing"
    /\ UNCHANGED <<ready, dest, disk, process, tracker, source, stats>>
ConsumeBatch ==
    /\ consumer = "reading" /\ channel # <<>>
    /\ channel' = Tail(channel)
    /\ \/ /\ mode = "dry"
          /\ UNCHANGED <<consumer, writer>>
       \/ /\ mode = "live"
          /\ Writer!StartTasks(Head(channel))
          /\ consumer' = "writing"
    /\ UNCHANGED <<ready, dest, disk, process, tracker, source, stats>>

WaitForPermit(d) ==
    /\ Writer!Acquire(d)
    /\ UNCHANGED <<ready, dest, disk, process, tracker, source, channel, consumer, stats>>

(* UpsertItemAsync: a 429 leaves the destination alone; an upsert that     *)
(* fails otherwise (a timeout, a lost connection) may have been applied.   *)
Applied(d, outcome) ==
    CASE outcome = "ok"        -> {[dest EXCEPT ![target] = @ \cup {d}]}
      [] outcome = "throttled" -> {dest}
      [] outcome = "failed"    -> {dest, [dest EXCEPT ![target] = @ \cup {d}]}

Upsert(d, outcome) ==
    /\ Writer!Release(d, outcome)
    /\ dest' \in Applied(d, outcome)
    /\ UNCHANGED <<ready, disk, process, tracker, source, channel, consumer, stats>>

(* WriteBatchAsync returns and its counts are added to the statistics.     *)
Mutant_EndBatchUnawaited ==
    /\ consumer = "writing"
    /\ consumer' = "recording successes"
    /\ stats' = [stats EXCEPT
                   !.writeErrors = @ + Cardinality(NotWritten),
                   !.written = @ + Cardinality(Writer!InBatch) - Cardinality(NotWritten),
                   !.throttles = @ + Cardinality(Writer!Throttled)]
    /\ UNCHANGED <<ready, dest, disk, process, tracker, source, channel, writer>>
EndBatch ==
    /\ consumer = "writing" /\ Writer!BatchWritten
    /\ consumer' = "recording successes"
    /\ stats' = [stats EXCEPT
                   !.writeErrors = @ + Cardinality(NotWritten),
                   !.written = @ + Cardinality(Writer!InBatch) - Cardinality(NotWritten),
                   !.throttles = @ + Cardinality(Writer!Throttled)]
    /\ UNCHANGED <<ready, dest, disk, process, tracker, source, channel, writer>>

(* RecordSuccess and RecordFailure share the counter of the batch files.   *)
Mutant_IdsToRecord == IdsOf(Writer!InBatch)
IdsToRecord == IdsOf(Succeeded)

RecordSuccess ==
    /\ consumer = "recording successes"
    /\ IF Succeeded # {}
       THEN /\ batchCounter' = batchCounter + 1
            /\ successFiles' = WriteAllLines(successFiles, batchCounter', IdsToRecord)
       ELSE UNCHANGED <<batchCounter, successFiles>>
    /\ consumer' = "recording failures"
    /\ UNCHANGED <<ready, dest, failedFiles, process, completedIds, source, channel,
                   stats, writer>>

RecordFailure ==
    /\ consumer = "recording failures"
    /\ IF NotWritten # {}
       THEN /\ batchCounter' = batchCounter + 1
            /\ failedFiles' = WriteAllLines(failedFiles, batchCounter', IdsOf(NotWritten))
       ELSE UNCHANGED <<batchCounter, failedFiles>>
    /\ consumer' = "reporting"
    /\ UNCHANGED <<ready, dest, successFiles, process, completedIds, source, channel,
                   stats, writer>>

(* Writing a batch file throws, with any part of it on the disk: nothing   *)
(* catches this, the consumer's task is over and nobody reads the channel. *)
RecordFails ==
    /\ "disk" \in Faults
    /\ batchCounter' = batchCounter + 1
    /\ \/ /\ consumer = "recording successes" /\ Succeeded # {}
          /\ \/ UNCHANGED successFiles
             \/ \E part \in SUBSET IdsToRecord :
                   successFiles' = WriteAllLines(successFiles, batchCounter', part)
          /\ UNCHANGED failedFiles
       \/ /\ consumer = "recording failures" /\ NotWritten # {}
          /\ \/ UNCHANGED failedFiles
             \/ \E part \in SUBSET IdsOf(NotWritten) :
                   failedFiles' = WriteAllLines(failedFiles, batchCounter', part)
          /\ UNCHANGED successFiles
    /\ consumer' = "faulted"
    /\ UNCHANGED <<ready, dest, process, completedIds, source, channel, stats, writer>>

(* The call of ReportBatchResult, which tests nothing. *)
ReportBatch ==
    /\ consumer = "reporting"
    /\ Writer!AdaptToResult
    /\ consumer' = "reading"
    /\ UNCHANGED <<ready, dest, disk, process, tracker, source, channel, stats>>

(* ReadAllAsync ends when the channel is completed and empty. *)
EndConsumer ==
    /\ consumer = "reading"
    /\ ChannelCompleted /\ channel = <<>>
    /\ consumer' = "done"
    /\ UNCHANGED <<ready, dest, disk, process, tracker, source, channel, stats, writer>>

-----------------------------------------------------------------------------
(* Task.WhenAll: both tasks are over, well or not, and so is the process.  *)
EndRun ==
    /\ phase = "copying"
    /\ ChannelCompleted /\ consumer \in {"done", "faulted"}
    /\ phase' = "down" /\ LoseMemory
    /\ UNCHANGED <<ready, dest, disk, run>>

(* The process is killed; also a fault before the two tasks are started.   *)
Kill ==
    /\ "kill" \in Faults
    /\ phase # "down"
    /\ phase' = "down" /\ LoseMemory
    /\ UNCHANGED <<ready, dest, disk, run>>

ProducerStep ==
    \/ \E page \in SUBSET unread : ReadPage(page)
    \/ EnqueueBatch
    \/ EndProducer

WriteStep ==
    \/ \E d \in Docs : WaitForPermit(d)
    \/ \E d \in Docs, outcome \in Writer!Outcome : Upsert(d, outcome)

ConsumerStep ==
    \/ ConsumeBatch
    \/ EndBatch
    \/ RecordSuccess
    \/ RecordFailure
    \/ RecordFails
    \/ ReportBatch
    \/ EndConsumer

RunStep ==
    \/ \E e \in Endpoints : Validate(e)
    \/ \E e \in Endpoints, m \in Modes : Start(e, m)
    \/ \E n \in DOMAIN failedFiles : ClearFailures(n)
    \/ BeginCopy
    \/ EndRun
    \/ Kill

Next == ProducerStep \/ WriteStep \/ ConsumerStep \/ RunStep

(* The two tasks and the write tasks go on while they can: every call they *)
(* wait for returns or throws.  Nobody promises another run.               *)
Fairness ==
    /\ WF_vars(ProducerStep)
    /\ WF_vars(ConsumerStep)
    /\ \A d \in Docs : /\ WF_vars(WaitForPermit(d))
                       /\ WF_vars(\E outcome \in Writer!Outcome : Upsert(d, outcome))
    /\ WF_vars(BeginCopy)
    /\ WF_vars(\E n \in DOMAIN failedFiles : ClearFailures(n))
    /\ WF_vars(EndRun)

Safe == Init /\ [][Next]_vars
Spec == Safe /\ Fairness

-----------------------------------------------------------------------------
IsDirectory(files) == DOMAIN files \subseteq Nat /\ IsFiniteSet(DOMAIN files)

(* The types of what is on the disk, in the containers and in the process. *)
TypeOK ==
    /\ ready \subseteq Endpoints
    /\ dest \in [Endpoints -> SUBSET Docs]
    /\ IsDirectory(successFiles) /\ Recorded \subseteq Ids
    /\ IsDirectory(failedFiles) /\ RecordedFailures \subseteq Ids
    /\ run \in 0..MaxRuns
    /\ phase \in {"down", "preparing", "copying"}
    /\ mode \in {"none", "live", "dry"}
    /\ target \in Endpoints \cup {"none"}
    /\ completedIds \subseteq Ids /\ batchCounter \in Nat
    /\ producer \in {"off", "reading", "writing", "done", "faulted"}
    /\ unread \subseteq Docs /\ pending \subseteq Docs
    /\ channel \in Seq(SUBSET Docs)
    /\ consumer \in {"off", "reading", "writing", "recording successes",
                     "recording failures", "reporting", "done", "faulted"}
    /\ stats \in Stats
    /\ task \in [Docs -> Writer!TaskState]

(* A run skips "documents that were already written successfully"          *)
(* (ProgressTracker.cs:3-5) and no others: a document of the page that is  *)
(* left out because of its id is in the destination of this run.           *)
SkipsOnlyWritten ==
    [][\A d \in Docs :
         d \in unread \ unread' /\ phase' = "copying" /\ IdOf[d] \in completedIds
         => d \in dest[target]]_vars

(* No id is recorded before its time: an id that a success file names, or  *)
(* that a run took from one, is the id of a document that was written to   *)
(* some account, although a kill or a full disk may come at any moment and *)
(* although ids repeat.                                                    *)
RecordedWasWritten ==
    \A id \in Recorded \cup completedIds :
        \E e \in Endpoints : \E d \in dest[e] : IdOf[d] = id

Finished == producer = "done" /\ consumer = "done"

(* The printed summary (MigrationRunner.cs:126-134) is true: when both     *)
(* tasks have ended without a fault every document was read and is in      *)
(* exactly one of the counts.                                              *)
SummaryAddsUp ==
    Finished => /\ stats.processed = Cardinality(Docs)
                /\ stats.processed = stats.skipped + stats.transformErrors + stats.transformed
                /\ mode = "live" => stats.transformed = stats.written + stats.writeErrors
                /\ stats.throttles <= stats.writeErrors

(* The summary does not boast: the destination holds as many documents as  *)
(* were written or skipped.                                                *)
SummaryIsBacked ==
    Finished /\ mode = "live" =>
        stats.skipped + stats.written <= Cardinality(dest[target])

(* A live run that ends without a fault leaves no document behind without  *)
(* a trace: what it could transform is in the destination or is named by a *)
(* failed file, however the batches, the 429s and the earlier runs went.   *)
NothingForgotten ==
    Finished /\ mode = "live" =>
        \A d \in Transformable :
            d \in dest[target] \/ IdOf[d] \in RecordedFailures

(* Progress is kept: what a success file named is named ever after, so a   *)
(* resumed run can skip it (ProgressTracker.cs:3-5).                       *)
ProgressIsKept == [][Recorded \subseteq Recorded']_vars

(* A dry run does "not write to destination" and records nothing as        *)
(* written (MigrateContainerCommand.cs:72).                                *)
DryRunOnlyReads == [][mode = "dry" => UNCHANGED <<ready, dest, successFiles>>]_vars

(* The controller replaces its semaphore "between batches, not mid-batch"  *)
(* (AdaptiveConcurrencyController.cs:91) only because its caller is        *)
(* disciplined: neither StartTasks nor AdaptToResult tests anything.  The  *)
(* consumer starts a batch only when the one before was reported, never an *)
(* empty one, and reports only when every task of the batch is over, so a  *)
(* run is a behaviour of AdaptiveConcurrency and orphans no task.          *)
DrivesWriter == Writer!Safe

(* Runs implement ResumableCopy: whatever pages, batches, 429s, kills and  *)
(* full disks do, each document is copied by a step of its own, to the     *)
(* account of the run and only if its id was not recorded when the run     *)
(* began; nothing is recorded before it is copied; and a run finishes only *)
(* when what it had to copy is copied or recorded as failed.  Dry runs do  *)
(* not copy.                                                               *)
LiveTarget == IF mode = "live" THEN target ELSE "none"
LiveSkips == IF mode = "live" THEN completedIds ELSE {}
LiveFinished == mode = "live" /\ Finished
Promise == INSTANCE ResumableCopy WITH
    copied <- dest, recorded <- Recorded, refused <- RecordedFailures,
    target <- LiveTarget, known <- LiveSkips, finished <- LiveFinished
ImplementsResumableCopy == Promise!Spec

(* Producer and consumer never wait for each other for ever: a run that    *)
(* was started ends, however small the channel and the concurrency are,    *)
(* unless the consumer's task has faulted and left the producer alone with *)
(* a full channel.                                                         *)
RunEnds ==
    phase # "down" ~> \/ phase = "down"
                      \/ /\ consumer = "faulted" /\ producer = "writing"
                         /\ Len(channel) = ChannelCapacity
=============================================================================
