-------------------------- MODULE MigrationProofs --------------------------
(***************************************************************************)
(* Theorems about Migration, for every set of documents, every assignment  *)
(* of ids, any number of accounts, runs and faults, and every batch size,  *)
(* channel capacity and concurrency.                                       *)
(*                                                                         *)
(* The inductive invariant MInv ties the memory of the run to what it      *)
(* leaves behind: a task is "ok" only if its document is in the            *)
(* destination of the run, there are tasks only while a live run copies,   *)
(* and so an id that reaches a success file names a written document.      *)
(***************************************************************************)
EXTENDS Migration, FiniteSetTheorems, SequenceTheorems, TLAPS

(* Where the write tasks can be: nowhere but in a live run that copies.    *)
TasksInLiveRun ==
    \/ phase = "copying" /\ mode = "live" /\ target \in Endpoints
    \/ \A d \in Docs : task[d] = "none"

TasksInRun ==
    /\ phase # "copying" => consumer = "off" /\ producer = "off"
    /\ phase # "down" => target \in Endpoints
    /\ phase = "down" => mode = "none"
    /\ consumer \in {"writing", "recording successes", "recording failures", "reporting"}
       => mode = "live"

OkIsWritten == \A d \in Docs : task[d] = "ok" => d \in dest[target]

MInv ==
    /\ TypeOK
    /\ TasksInLiveRun
    /\ TasksInRun
    /\ OkIsWritten
    /\ RecordedWasWritten

-----------------------------------------------------------------------------
(* What a batch file holds after it was written, and what is recorded. *)
LEMMA WrittenFile ==
  ASSUME NEW files, IsDirectory(files), NEW n \in Nat, NEW ids
  PROVE  /\ IsDirectory(WriteAllLines(files, n, ids))
         /\ IdsIn(WriteAllLines(files, n, ids)) \subseteq IdsIn(files) \cup ids
<1>1. DOMAIN WriteAllLines(files, n, ids) = DOMAIN files \cup {n}
  BY DEF WriteAllLines
<1>2. IsFiniteSet(DOMAIN files \cup {n})
  BY FS_AddElement DEF IsDirectory
<1>3. IdsIn(WriteAllLines(files, n, ids)) \subseteq IdsIn(files) \cup ids
  BY DEF WriteAllLines, IdsIn
<1>. QED
  BY <1>1, <1>2, <1>3 DEF IsDirectory

(* What is recorded after a batch file was deleted.                        *)
LEMMA DeletedFile ==
  ASSUME NEW files, IsDirectory(files), NEW n
  PROVE  LET kept == [k \in DOMAIN files \ {n} |-> files[k]]
         IN  IsDirectory(kept) /\ IdsIn(kept) \subseteq IdsIn(files)
<1>1. IsFiniteSet(DOMAIN files \ {n})
  BY FS_RemoveElement DEF IsDirectory
<1>. QED
  BY <1>1 DEF IsDirectory, IdsIn

(* Any set of documents is finite.                                         *)
LEMMA TasksAreFinite ==
  ASSUME NEW S \in SUBSET Docs
  PROVE  IsFiniteSet(S) /\ Cardinality(S) \in Nat
  BY FS_Subset, FS_CardinalityType, WriterAssumption

(* The statistics stay natural numbers. *)
LEMMA PageStats ==
  ASSUME NEW s \in Stats, NEW p \in Nat, NEW k \in Nat, NEW e \in Nat, NEW t \in Nat
  PROVE  [s EXCEPT !.processed = @ + p, !.skipped = @ + k,
                   !.transformErrors = @ + e, !.transformed = @ + t] \in Stats
<1>1. /\ s.processed + p \in Nat /\ s.skipped + k \in Nat
      /\ s.transformErrors + e \in Nat /\ s.transformed + t \in Nat
  BY DEF Stats
<1>2. ASSUME NEW p2 \in Nat, NEW k2 \in Nat, NEW e2 \in Nat, NEW t2 \in Nat
      PROVE  [s EXCEPT !.processed = p2, !.skipped = k2,
                       !.transformErrors = e2, !.transformed = t2] \in Stats
  BY DEF Stats
<1>. QED
  BY <1>1, <1>2

(* The statistics stay natural numbers when a batch is counted.            *)
LEMMA BatchStats ==
  ASSUME NEW s \in Stats, NEW w \in Nat, NEW e \in Nat, NEW t \in Nat, e <= w
  PROVE  [s EXCEPT !.writeErrors = @ + e, !.written = @ + w - e,
                   !.throttles = @ + t] \in Stats
<1>1. /\ s.writeErrors + e \in Nat /\ s.written + w - e \in Nat
      /\ s.throttles + t \in Nat
  BY DEF Stats
<1>2. ASSUME NEW e2 \in Nat, NEW w2 \in Nat, NEW t2 \in Nat
      PROVE  [s EXCEPT !.writeErrors = e2, !.written = w2, !.throttles = t2] \in Stats
  BY DEF Stats
<1>. QED
  BY <1>1, <1>2

(* A reset of the memory, by the end of the run or by a kill. *)
LEMMA ResetPreservesMInv ==
  ASSUME MInv, LoseMemory, phase' = "down", UNCHANGED <<ready, dest, disk, run>>
  PROVE  MInv'
<1>. USE DEF LoseMemory, Writer!NewController, disk
<1>1. TypeOK'
  <2>1. UNCHANGED <<successFiles, failedFiles, Recorded, RecordedFailures>>
    BY DEF Recorded, RecordedFailures, IdsIn, IsDirectory
  <2>2. stats' \in Stats /\ channel' \in Seq(SUBSET Docs)
    BY DEF Stats, NoStats
  <2>3. task' \in [Docs -> Writer!TaskState]
    BY DEF Writer!TaskState
  <2>. QED
    BY <2>1, <2>2, <2>3 DEF MInv, TypeOK
<1>2. TasksInLiveRun' /\ TasksInRun' /\ OkIsWritten'
  BY DEF TasksInLiveRun, TasksInRun, OkIsWritten
<1>3. RecordedWasWritten'
  BY DEF MInv, RecordedWasWritten, Recorded, IdsIn
<1>. QED
  BY <1>1, <1>2, <1>3 DEF MInv

(* The tool that was never started satisfies the invariant.                *)
LEMMA InitEstablishesMInv == Init => MInv
<1>. SUFFICES ASSUME Init PROVE MInv
  OBVIOUS
<1>. USE DEF Init, IdleMemory, Writer!Init
<1>1. Recorded = {} /\ RecordedFailures = {} /\ DOMAIN successFiles = {} /\ DOMAIN failedFiles = {}
  BY DEF Recorded, RecordedFailures, IdsIn, NoFiles
<1>2. TypeOK
  <2>1. IsDirectory(successFiles) /\ IsDirectory(failedFiles)
    BY <1>1, FS_EmptySet DEF IsDirectory
  <2>2. stats \in Stats /\ task \in [Docs -> Writer!TaskState]
    BY DEF Stats, NoStats, Writer!TaskState
  <2>. QED
    BY <1>1, <2>1, <2>2, MigrationAssumption DEF TypeOK
<1>. QED
  BY <1>1, <1>2 DEF MInv, TasksInLiveRun, TasksInRun, OkIsWritten, RecordedWasWritten

(* The producer touches neither the tasks nor what is left behind. *)
LEMMA ProducerPreservesMInv == MInv /\ ProducerStep => MInv'
<1>. SUFFICES ASSUME MInv, ProducerStep PROVE MInv'
  OBVIOUS
<1>1. /\ UNCHANGED <<ready, dest, disk, process, tracker, consumer, writer>>
      /\ producer # "off"
  BY DEF ProducerStep, ReadPage, EnqueueBatch, EndProducer, source
<1>2. producer' \in {"reading", "writing", "done", "faulted"}
  BY DEF ProducerStep, ReadPage, EnqueueBatch, EndProducer
<1>3. unread' \subseteq Docs /\ pending' \subseteq Docs
  BY DEF MInv, TypeOK, ProducerStep, ReadPage, EnqueueBatch, EndProducer
<1>4. channel' \in Seq(SUBSET Docs)
  <2>1. CASE EnqueueBatch
    BY <2>1, AppendProperties DEF EnqueueBatch, MInv, TypeOK
  <2>. QED
    BY <2>1 DEF MInv, TypeOK, ProducerStep, ReadPage, EndProducer
<1>5. stats' \in Stats
  <2>1. ASSUME NEW page \in SUBSET unread, ReadPage(page)
        PROVE  stats' \in Stats
    <3>1. page \in SUBSET Docs /\ Skipped(page) \in SUBSET Docs
      BY DEF MInv, TypeOK, Skipped
    <3>2. /\ Cardinality(page) \in Nat /\ Cardinality(Skipped(page)) \in Nat
          /\ Cardinality((page \ Skipped(page)) \ Transformable) \in Nat
          /\ Cardinality((page \ Skipped(page)) \cap Transformable) \in Nat
      BY <3>1, TasksAreFinite
    <3>3. stats' = [stats EXCEPT
                      !.processed = @ + Cardinality(page),
                      !.skipped = @ + Cardinality(Skipped(page)),
                      !.transformErrors = @ + Cardinality((page \ Skipped(page)) \ Transformable),
                      !.transformed = @ + Cardinality((page \ Skipped(page)) \cap Transformable)]
      BY <2>1 DEF ReadPage
    <3>. QED
      BY <3>2, <3>3, PageStats DEF MInv, TypeOK
  <2>. QED
    BY <2>1 DEF MInv, TypeOK, ProducerStep, EnqueueBatch, EndProducer
<1>6. TypeOK'
  BY <1>1, <1>2, <1>3, <1>4, <1>5
     DEF MInv, TypeOK, disk, process, tracker, writer, Recorded, RecordedFailures, IdsIn, IsDirectory
<1>7. TasksInLiveRun' /\ OkIsWritten' /\ RecordedWasWritten'
  BY <1>1 DEF MInv, TasksInLiveRun, OkIsWritten, RecordedWasWritten, Recorded, IdsIn,
     disk, process, tracker, writer
<1>8. TasksInRun'
  BY <1>1 DEF MInv, TasksInRun, process
<1>. QED
  BY <1>6, <1>7, <1>8 DEF MInv

(* A task that waits or writes belongs to a live run that copies. *)
LEMMA TaskNeedsRun ==
  ASSUME MInv, NEW d \in Docs, task[d] # "none"
  PROVE  phase = "copying" /\ mode = "live" /\ target \in Endpoints
  BY DEF MInv, TasksInLiveRun

(* The write tasks preserve the invariant.                                 *)
LEMMA WriteStepPreservesMInv == MInv /\ WriteStep => MInv'
<1>. SUFFICES ASSUME MInv, WriteStep PROVE MInv'
  OBVIOUS
<1>1. ASSUME NEW d \in Docs, WaitForPermit(d)
      PROVE  MInv'
  <2>. USE <1>1 DEF WaitForPermit, Writer!Acquire
  <2>1. phase = "copying" /\ mode = "live" /\ target \in Endpoints
    BY TaskNeedsRun
  <2>2. TypeOK'
    BY DEF MInv, TypeOK, disk, process, tracker, source, Recorded, RecordedFailures, IdsIn, IsDirectory,
       Writer!TaskState
  <2>3. TasksInLiveRun' /\ TasksInRun'
    BY <2>1 DEF MInv, TasksInRun, TasksInLiveRun, process, source
  <2>4. OkIsWritten'
    BY DEF MInv, TypeOK, OkIsWritten, process
  <2>5. RecordedWasWritten'
    BY DEF MInv, RecordedWasWritten, Recorded, IdsIn, disk, tracker
  <2>. QED
    BY <2>2, <2>3, <2>4, <2>5 DEF MInv
<1>2. ASSUME NEW d \in Docs, NEW outcome \in Writer!Outcome, Upsert(d, outcome)
      PROVE  MInv'
  <2>. USE <1>2 DEF Upsert, Writer!Release
  <2>1. phase = "copying" /\ mode = "live" /\ target \in Endpoints
    BY TaskNeedsRun
  <2>2. /\ dest' \in [Endpoints -> SUBSET Docs]
        /\ \A e \in Endpoints : dest[e] \subseteq dest'[e]
        /\ outcome = "ok" => d \in dest'[target]
    <3>. DEFINE more == [dest EXCEPT ![target] = @ \cup {d}]
    <3>1. dest' \in Applied(d, outcome) /\ outcome \in {"ok", "throttled", "failed"}
      BY DEF Writer!Outcome
    <3>2. dest' = more \/ (dest' = dest /\ outcome # "ok")
      BY <3>1 DEF Applied
    <3>3. dest \in [Endpoints -> SUBSET Docs]
      BY DEF MInv, TypeOK
    <3>. QED
      BY <2>1, <3>2, <3>3
  <2>3. TypeOK'
    BY <2>2 DEF MInv, TypeOK, disk, process, tracker, source, Recorded, RecordedFailures,
       IdsIn, IsDirectory, Writer!TaskState
  <2>4. TasksInLiveRun' /\ TasksInRun'
    BY <2>1 DEF MInv, TasksInRun, TasksInLiveRun, process, source
  <2>5. OkIsWritten'
    BY <2>1, <2>2 DEF MInv, TypeOK, OkIsWritten, process
  <2>6. RecordedWasWritten'
    BY <2>2 DEF MInv, RecordedWasWritten, Recorded, IdsIn, disk, tracker
  <2>. QED
    BY <2>3, <2>4, <2>5, <2>6 DEF MInv
<1>. QED
  BY <1>1, <1>2 DEF WriteStep

(* The steps of the consumer that start, count and report a batch. *)
LEMMA BatchStepPreservesMInv ==
  ASSUME MInv, ConsumeBatch \/ EndBatch \/ ReportBatch \/ EndConsumer
  PROVE  MInv'
<1>1. /\ UNCHANGED <<ready, dest, disk, process, tracker, source>>
      /\ consumer # "off"
  BY DEF ConsumeBatch, EndBatch, ReportBatch, EndConsumer
<1>2. phase = "copying" /\ target \in Endpoints
  BY <1>1 DEF MInv, TasksInRun, TypeOK
<1>3. channel' \in Seq(SUBSET Docs)
  BY HeadTailProperties DEF ConsumeBatch, EndBatch, ReportBatch, EndConsumer, MInv, TypeOK
<1>4. /\ consumer' \in {"reading", "writing", "recording successes", "done"}
      /\ consumer' \in {"writing", "recording successes"} => mode = "live"
  BY DEF ConsumeBatch, EndBatch, ReportBatch, EndConsumer, MInv, TasksInRun
<1>5. /\ task' \in [Docs -> Writer!TaskState]
      /\ \A d \in Docs : task'[d] = "ok" => task[d] = "ok"
      /\ mode # "live" => \A d \in Docs : task'[d] = "none"
  <2>1. CASE ConsumeBatch
    BY <2>1, <1>2 DEF ConsumeBatch, Writer!StartTasks, MInv, TypeOK, TasksInLiveRun, writer,
       Writer!TaskState
  <2>2. CASE EndBatch \/ EndConsumer
    BY <2>2, <1>2 DEF EndBatch, EndConsumer, MInv, TypeOK, TasksInLiveRun, writer
  <2>3. CASE ReportBatch
    BY <2>3 DEF ReportBatch, Writer!AdaptToResult, Writer!TaskState
  <2>. QED
    BY <2>1, <2>2, <2>3
<1>6. stats' \in Stats
  <2>1. CASE EndBatch
    <3>1. /\ NotWritten \in SUBSET Writer!InBatch /\ Writer!InBatch \in SUBSET Docs
          /\ Writer!Throttled \in SUBSET Docs
      BY DEF NotWritten, Writer!InBatch, Writer!Throttled
    <3>2. /\ Cardinality(Writer!InBatch) \in Nat /\ Cardinality(NotWritten) \in Nat
          /\ Cardinality(Writer!Throttled) \in Nat
          /\ Cardinality(NotWritten) <= Cardinality(Writer!InBatch)
      BY <3>1, TasksAreFinite, FS_Subset
    <3>3. stats' = [stats EXCEPT
                      !.writeErrors = @ + Cardinality(NotWritten),
                      !.written = @ + Cardinality(Writer!InBatch) - Cardinality(NotWritten),
                      !.throttles = @ + Cardinality(Writer!Throttled)]
      BY <2>1 DEF EndBatch
    <3>. QED
      BY <3>2, <3>3, BatchStats DEF MInv, TypeOK
  <2>. QED
    BY <2>1 DEF ConsumeBatch, ReportBatch, EndConsumer, MInv, TypeOK
<1>7. TypeOK'
  BY <1>1, <1>3, <1>4, <1>5, <1>6
     DEF MInv, TypeOK, disk, process, tracker, source, Recorded, RecordedFailures, IdsIn, IsDirectory
<1>8. TasksInLiveRun' /\ TasksInRun'
  BY <1>1, <1>2, <1>4, <1>5 DEF MInv, TypeOK, TasksInLiveRun, TasksInRun, process, source
<1>9. OkIsWritten' /\ RecordedWasWritten'
  BY <1>1, <1>5 DEF MInv, OkIsWritten, RecordedWasWritten, Recorded, IdsIn, disk, process,
     tracker
<1>. QED
  BY <1>7, <1>8, <1>9 DEF MInv

(* The steps that write a batch file. *)
LEMMA RecordStepPreservesMInv ==
  ASSUME MInv, RecordSuccess \/ RecordFailure \/ RecordFails
  PROVE  MInv'
<1>1. /\ UNCHANGED <<ready, dest, process, completedIds, source, channel, stats, writer>>
      /\ consumer \in {"recording successes", "recording failures"}
      /\ consumer' \in {"recording failures", "reporting", "faulted"}
  BY DEF RecordSuccess, RecordFailure, RecordFails
<1>2. phase = "copying" /\ mode = "live" /\ target \in Endpoints
  BY <1>1 DEF MInv, TasksInRun
<1>3. batchCounter' \in Nat
  <2>1. batchCounter \in Nat
    BY DEF MInv, TypeOK
  <2>2. batchCounter' = batchCounter \/ batchCounter' = batchCounter + 1
    BY DEF RecordSuccess, RecordFailure, RecordFails
  <2>. QED
    BY <2>1, <2>2
<1>4. /\ IsDirectory(successFiles')
      /\ Recorded' \subseteq Recorded \cup IdsToRecord
  <2>1. IsDirectory(successFiles)
    BY DEF MInv, TypeOK
  <2>2. CASE successFiles' = successFiles
    BY <2>1, <2>2 DEF Recorded, IdsIn, IsDirectory
  <2>3. ASSUME NEW part \in SUBSET IdsToRecord,
               successFiles' = WriteAllLines(successFiles, batchCounter', part)
        PROVE  /\ IsDirectory(successFiles')
               /\ Recorded' \subseteq Recorded \cup IdsToRecord
    BY <2>1, <2>3, <1>3, WrittenFile DEF Recorded
  <2>. QED
    BY <2>2, <2>3 DEF RecordSuccess, RecordFailure, RecordFails
<1>5. /\ IsDirectory(failedFiles')
      /\ RecordedFailures' \subseteq RecordedFailures \cup IdsOf(NotWritten)
  <2>1. IsDirectory(failedFiles)
    BY DEF MInv, TypeOK
  <2>2. CASE failedFiles' = failedFiles
    BY <2>1, <2>2 DEF RecordedFailures, IdsIn, IsDirectory
  <2>3. ASSUME NEW part \in SUBSET IdsOf(NotWritten),
               failedFiles' = WriteAllLines(failedFiles, batchCounter', part)
        PROVE  /\ IsDirectory(failedFiles')
               /\ RecordedFailures' \subseteq RecordedFailures \cup IdsOf(NotWritten)
    BY <2>1, <2>3, <1>3, WrittenFile DEF RecordedFailures
  <2>. QED
    BY <2>2, <2>3 DEF RecordSuccess, RecordFailure, RecordFails
<1>6. IdsToRecord \subseteq Ids /\ IdsOf(NotWritten) \subseteq Ids
  BY MigrationAssumption DEF IdsToRecord, IdsOf, Succeeded, NotWritten
<1>7. TypeOK'
  BY <1>1, <1>3, <1>4, <1>5, <1>6 DEF MInv, TypeOK, process, source, writer
<1>8. TasksInLiveRun' /\ TasksInRun' /\ OkIsWritten'
  BY <1>1, <1>2 DEF MInv, TasksInLiveRun, TasksInRun, OkIsWritten, process, source, writer
<1>9. RecordedWasWritten'
  <2>1. \A id \in IdsToRecord : \E d \in dest[target] : IdOf[d] = id
    BY DEF MInv, OkIsWritten, IdsToRecord, IdsOf, Succeeded
  <2>. QED
    BY <1>1, <1>2, <1>4, <2>1 DEF MInv, RecordedWasWritten
<1>. QED
  BY <1>7, <1>8, <1>9 DEF MInv

(* The steps of RunAsync outside its two tasks. *)
LEMMA RunStepPreservesMInv == MInv /\ RunStep => MInv'
<1>. SUFFICES ASSUME MInv, RunStep PROVE MInv'
  OBVIOUS
<1>1. ASSUME NEW e \in Endpoints, Validate(e)
      PROVE  MInv'
  BY <1>1, MigrationAssumption
     DEF Validate, MInv, TypeOK, TasksInLiveRun, TasksInRun, OkIsWritten,
         RecordedWasWritten, Recorded, RecordedFailures, IdsIn, disk, tracker, source, writer
<1>2. ASSUME NEW e \in Endpoints, NEW m \in Modes, Start(e, m)
      PROVE  MInv'
  <2>. USE <1>2 DEF Start
  <2>1. \A d \in Docs : task[d] = "none"
    BY DEF MInv, TasksInLiveRun
  <2>2. CountExistingBatchFiles \in Nat
    <3>1. IsFiniteSet(DOMAIN successFiles) /\ IsFiniteSet(DOMAIN failedFiles)
      BY DEF MInv, TypeOK, IsDirectory
    <3>2. Cardinality(DOMAIN successFiles) \in Nat /\ Cardinality(DOMAIN failedFiles) \in Nat
      BY <3>1, FS_CardinalityType
    <3>. QED
      BY <3>2 DEF CountExistingBatchFiles
  <2>3. TypeOK'
    <3>1. run' \in 0..MaxRuns
      <4>1. run \in 0..MaxRuns
        BY DEF MInv, TypeOK
      <4>2. run < MaxRuns /\ run' = run + 1
        OBVIOUS
      <4>. QED
        BY <4>1, <4>2, MigrationAssumption
    <3>2. mode' \in {"none", "live", "dry"}
      BY MigrationAssumption
    <3>3. completedIds' \subseteq Ids /\ batchCounter' \in Nat
      BY <2>2 DEF MInv, TypeOK
    <3>. QED
      BY <3>1, <3>2, <3>3
         DEF MInv, TypeOK, Recorded, RecordedFailures, IdsIn, IsDirectory, disk, source, writer
  <2>4. TasksInLiveRun' /\ TasksInRun' /\ OkIsWritten'
    BY <2>1 DEF MInv, TypeOK, TasksInLiveRun, TasksInRun, OkIsWritten, source, writer
  <2>5. RecordedWasWritten'
    BY DEF MInv, RecordedWasWritten, Recorded, IdsIn, disk
  <2>. QED
    BY <2>3, <2>4, <2>5 DEF MInv
<1>3. ASSUME NEW n \in DOMAIN failedFiles, ClearFailures(n)
      PROVE  MInv'
  <2>. USE <1>3 DEF ClearFailures
  <2>1. /\ IsDirectory(failedFiles')
        /\ RecordedFailures' \subseteq RecordedFailures
    BY DeletedFile DEF MInv, TypeOK, RecordedFailures
  <2>2. TypeOK'
    BY <2>1 DEF MInv, TypeOK, Recorded, IdsIn, process, tracker, source, writer
  <2>. QED
    BY <2>2 DEF MInv, TasksInLiveRun, TasksInRun, OkIsWritten, RecordedWasWritten,
       Recorded, IdsIn, process, tracker, source, writer
<1>4. CASE BeginCopy
  <2>. USE <1>4 DEF BeginCopy, Writer!NewController
  <2>1. task' = [d \in Docs |-> "none"] /\ target \in Endpoints
    BY DEF MInv, TasksInRun
  <2>2. TypeOK'
    BY <2>1 DEF MInv, TypeOK, Recorded, RecordedFailures, IdsIn, disk, tracker,
       Writer!TaskState
  <2>. QED
    BY <2>1, <2>2 DEF MInv, TasksInLiveRun, TasksInRun, OkIsWritten, RecordedWasWritten,
       Recorded, IdsIn, disk, tracker
<1>5. CASE EndRun \/ Kill
  BY <1>5, ResetPreservesMInv DEF EndRun, Kill
<1>. QED
  BY <1>1, <1>2, <1>3, <1>4, <1>5 DEF RunStep

(* Every step of a run, its kill and its restart preserve it.              *)
LEMMA NextPreservesMInv == MInv /\ [Next]_vars => MInv'
<1>1. MInv /\ ConsumerStep => MInv'
  BY BatchStepPreservesMInv, RecordStepPreservesMInv DEF ConsumerStep
<1>2. MInv /\ UNCHANGED vars => MInv'
  <2>. SUFFICES ASSUME MInv, UNCHANGED vars PROVE MInv'
    OBVIOUS
  <2>. USE DEF vars, disk, process, tracker, source, writer
  <2>1. TypeOK'
    BY DEF MInv, TypeOK, IsDirectory, Recorded, RecordedFailures, IdsIn, IsDirectory
  <2>2. TasksInLiveRun' /\ TasksInRun' /\ OkIsWritten'
    BY DEF MInv, TasksInLiveRun, TasksInRun, OkIsWritten
  <2>3. RecordedWasWritten'
    BY DEF MInv, RecordedWasWritten, Recorded, IdsIn
  <2>. QED
    BY <2>1, <2>2, <2>3 DEF MInv
<1>. QED
  BY <1>1, <1>2, ProducerPreservesMInv, WriteStepPreservesMInv, RunStepPreservesMInv DEF Next

(* The inductive invariant holds of all runs.                              *)
THEOREM MigrationInvariant == Safe => []MInv
  BY InitEstablishesMInv, NextPreservesMInv, PTL DEF Safe

(* Every variable keeps its type. *)
THEOREM MigrationTypeOK == Safe => []TypeOK
  BY MigrationInvariant, PTL DEF MInv

(* Whatever faults there are, and however ids repeat, an id that the       *)
(* progress directory names belongs to a document that was written.        *)
THEOREM RecordedIdsWereWritten == Safe => []RecordedWasWritten
  BY MigrationInvariant, PTL DEF MInv

-----------------------------------------------------------------------------
UniqueIds == \A d1, d2 \in Docs : IdOf[d1] = IdOf[d2] => d1 = d2
OneAccount == \A e1, e2 \in Endpoints : e1 = e2

(* When every document has an id of its own and the progress directory     *)
(* serves one account only, a run skips nothing but what was written.  The *)
(* two runs that break either assumption show that both are needed.        *)
THEOREM SkippingIsSafe ==
  ASSUME UniqueIds, OneAccount
  PROVE  Safe => SkipsOnlyWritten
<1>. DEFINE SkipStep ==
       \A d \in Docs :
         d \in unread \ unread' /\ phase' = "copying" /\ IdOf[d] \in completedIds
         => d \in dest[target]
<1>1. MInv /\ MInv' /\ [Next]_vars => [SkipStep]_vars
  <2>. SUFFICES ASSUME MInv, MInv', [Next]_vars,
                       NEW d \in Docs, d \in unread \ unread', phase' = "copying",
                       IdOf[d] \in completedIds
                PROVE  d \in dest[target]
    OBVIOUS
  <2>1. PICK e \in Endpoints : \E d2 \in dest[e] : IdOf[d2] = IdOf[d]
    BY DEF MInv, RecordedWasWritten
  <2>2. PICK d2 \in dest[e] : IdOf[d2] = IdOf[d]
    BY <2>1
  <2>3. d2 = d
    BY <2>2 DEF MInv, TypeOK, UniqueIds
  <2>4. phase # "down"
    BY DEF Next, ProducerStep, ReadPage, EnqueueBatch, EndProducer, WriteStep, WaitForPermit,
       Upsert, ConsumerStep, ConsumeBatch, EndBatch, RecordSuccess, RecordFailure, RecordFails,
       ReportBatch, EndConsumer, RunStep, Validate, Start, ClearFailures, BeginCopy, EndRun,
       Kill, vars, process, source
  <2>5. target = e
    BY <2>4 DEF MInv, TasksInRun, OneAccount
  <2>. QED
    BY <2>2, <2>3, <2>5
<1>. QED
  BY <1>1, MigrationInvariant, PTL DEF Safe, SkipsOnlyWritten

-----------------------------------------------------------------------------
(* A dry run neither makes the destination nor writes to it, and it leaves *)
(* the recorded successes alone.                                           *)
THEOREM DryRunsOnlyRead == Safe => DryRunOnlyReads
<1>1. MInv /\ [Next]_vars => [mode = "dry" => UNCHANGED <<ready, dest, successFiles>>]_vars
  <2>. SUFFICES ASSUME MInv, [Next]_vars, mode = "dry"
                PROVE  UNCHANGED <<ready, dest, successFiles>>
    OBVIOUS
  <2>1. ~ WriteStep
    BY TaskNeedsRun DEF WriteStep, WaitForPermit, Upsert, Writer!Acquire, Writer!Release
  <2>2. CASE ProducerStep
    BY <2>2 DEF ProducerStep, ReadPage, EnqueueBatch, EndProducer, disk
  <2>3. CASE ConsumerStep
    BY <2>3 DEF ConsumerStep, ConsumeBatch, EndBatch, RecordSuccess, RecordFailure,
       RecordFails, ReportBatch, EndConsumer, MInv, TasksInRun, disk
  <2>4. CASE RunStep
    <3>1. phase # "down"
      BY DEF MInv, TasksInRun
    <3>. QED
      BY <2>4, <3>1 DEF RunStep, Validate, Start, ClearFailures, BeginCopy, EndRun, Kill, disk
  <2>5. CASE UNCHANGED vars
    BY <2>5 DEF vars, disk
  <2>. QED
    BY <2>1, <2>2, <2>3, <2>4, <2>5 DEF Next
<1>. QED
  BY <1>1, MigrationInvariant, PTL DEF Safe, DryRunOnlyReads

=============================================================================
