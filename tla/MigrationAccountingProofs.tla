----------------------- MODULE MigrationAccountingProofs -----------------------
(***************************************************************************)
(* The accounts of a migration run: what the summary says at the end is    *)
(* true, and no document is left behind without a trace.                   *)
(*                                                                         *)
(* The inductive invariant AInv follows every document the producer reads: *)
(* it is skipped, refused, or in exactly one batch, which is in the hands  *)
(* of the producer, in the channel, or in the hands of the consumer, until *)
(* its write tasks are counted and it is in the destination or in a failed *)
(* file of this run.                                                       *)
(*                                                                         *)
(* Two more results rest on it.  Files are numbered in turn, and no number *)
(* is used twice, as long as no failed file is deleted; and a migration,   *)
(* seen without its machinery, is a ResumableCopy.                         *)
(***************************************************************************)
EXTENDS MigrationProofs

(* The documents of a queue of batches, and batches that share none.       *)
Within(queue) == UNION {queue[i] : i \in DOMAIN queue}
Apart(queue) == \A i, j \in DOMAIN queue : i # j => queue[i] \cap queue[j] = {}

(* What the producer has read, and what of it became part of a batch.      *)
Read == Docs \ unread
Transformed == (Read \ Skipped(Read)) \cap Transformable

(* No document is in two batches.                                          *)
BatchesApart ==
    /\ pending \cup Within(channel) \cup Writer!InBatch \subseteq Transformed
    /\ Apart(channel)
    /\ pending \cap Within(channel) = {}
    /\ Writer!InBatch \cap (pending \cup Within(channel)) = {}

(* What the two tasks hold at each of their stages.                        *)
StagesAgree ==
    /\ phase # "copying" => stats = NoStats /\ pending = {} /\ channel = <<>>
    /\ producer # "writing" => pending = {}
    /\ producer = "done" => unread = {}
    /\ consumer \in {"reading", "done"} => Writer!InBatch = {}
    /\ consumer = "done" => ChannelCompleted /\ channel = <<>>
    /\ consumer \in {"recording successes", "recording failures", "reporting"}
       => Writer!Outstanding = {}

(* The counts of the producer are those of the documents it has read.      *)
PagesCounted ==
    phase = "copying" =>
        /\ stats.processed = Cardinality(Read)
        /\ stats.skipped = Cardinality(Skipped(Read))
        /\ stats.transformErrors = Cardinality((Read \ Skipped(Read)) \ Transformable)
        /\ stats.transformed = Cardinality(Transformed)

(* The counts of the consumer are those of the batches that were written.  *)
InProgress ==
    pending \cup Within(channel)
            \cup (IF consumer = "writing" THEN Writer!InBatch ELSE {})
Counted == Transformed \ InProgress

BatchesCounted ==
    /\ stats.throttles <= stats.writeErrors
    /\ phase = "copying" /\ mode = "live" =>
          /\ stats.written + stats.writeErrors = Cardinality(Counted)
          /\ stats.written <= Cardinality(Counted \cap dest[target])

(* A batch that is over left a trace of each of its documents.  This run   *)
(* overwrites none of its own files: their numbers only grow.              *)
Named(d) == \E n \in DOMAIN failedFiles : n <= batchCounter /\ IdOf[d] \in failedFiles[n]
Handled == Transformed \ (pending \cup Within(channel) \cup Writer!InBatch)

Traced ==
    phase = "copying" /\ mode = "live" /\ consumer # "faulted" =>
        /\ \A d \in Handled : d \in dest[target] \/ Named(d)
        /\ consumer = "reporting" => \A d \in NotWritten : Named(d)

AInv == BatchesApart /\ StagesAgree /\ PagesCounted /\ BatchesCounted /\ Traced

-----------------------------------------------------------------------------
(* A document that is added to a set, or two sets without a common         *)
(* document: their sizes add up.                                           *)
LEMMA SizesAddUp ==
  ASSUME NEW S \in SUBSET Docs, NEW T \in SUBSET Docs, S \cap T = {}
  PROVE  /\ Cardinality(S) \in Nat /\ Cardinality(T) \in Nat
         /\ Cardinality(S \cup T) = Cardinality(S) + Cardinality(T)
<1>1. IsFiniteSet(S) /\ IsFiniteSet(T) /\ Cardinality(S) \in Nat /\ Cardinality(T) \in Nat
  BY TasksAreFinite
<1>2. Cardinality(S \cap T) = 0
  BY FS_EmptySet
<1>3. Cardinality(S \cup T) = Cardinality(S) + Cardinality(T) - Cardinality(S \cap T)
  BY <1>1, FS_Union
<1>. QED
  BY <1>1, <1>2, <1>3

(* A batch that joins the end of the channel.                              *)
LEMMA Enqueued ==
  ASSUME NEW queue \in Seq(SUBSET Docs), NEW batch \in SUBSET Docs
  PROVE  /\ Within(Append(queue, batch)) = Within(queue) \cup batch
         /\ Apart(queue) /\ batch \cap Within(queue) = {} => Apart(Append(queue, batch))
<1>. DEFINE longer == Append(queue, batch)
<1>1. /\ DOMAIN queue = 1..Len(queue) /\ Len(queue) \in Nat
      /\ DOMAIN longer = DOMAIN queue \cup {Len(queue) + 1}
      /\ Len(queue) + 1 \notin DOMAIN queue
      /\ \A i \in DOMAIN queue : longer[i] = queue[i]
      /\ longer[Len(queue) + 1] = batch
  BY AppendProperties
<1>2. Within(longer) = Within(queue) \cup batch
  BY <1>1 DEF Within
<1>3. ASSUME Apart(queue), batch \cap Within(queue) = {}
      PROVE  Apart(longer)
  <2>1. \A i \in DOMAIN queue : queue[i] \cap batch = {}
    BY <1>3 DEF Within
  <2>. QED
    BY <1>1, <1>3, <2>1 DEF Apart
<1>. QED
  BY <1>2, <1>3

(* The batch that the consumer takes from the front.                       *)
LEMMA Dequeued ==
  ASSUME NEW queue \in Seq(SUBSET Docs), queue # <<>>
  PROVE  /\ Within(queue) = Head(queue) \cup Within(Tail(queue))
         /\ Apart(queue) => /\ Head(queue) \cap Within(Tail(queue)) = {}
                            /\ Apart(Tail(queue))
<1>. DEFINE rest == Tail(queue)
<1>1. /\ Len(queue) \in Nat \ {0} /\ DOMAIN queue = 1..Len(queue)
      /\ DOMAIN rest = 1..(Len(queue) - 1)
      /\ \A i \in DOMAIN rest : rest[i] = queue[i + 1]
      /\ Head(queue) = queue[1]
  BY HeadTailProperties
<1>2. /\ 1 \in DOMAIN queue
      /\ \A i \in DOMAIN rest : i + 1 \in DOMAIN queue /\ i + 1 # 1
      /\ \A i, j \in DOMAIN rest : i # j => i + 1 # j + 1
      /\ \A i \in DOMAIN queue \ {1} : i - 1 \in DOMAIN rest /\ (i - 1) + 1 = i
  BY <1>1
<1>3. Within(queue) = Head(queue) \cup Within(rest)
  <2>1. Within(rest) \subseteq Within(queue) /\ Head(queue) \subseteq Within(queue)
    BY <1>1, <1>2 DEF Within
  <2>2. ASSUME NEW i \in DOMAIN queue
        PROVE  queue[i] \subseteq Head(queue) \cup Within(rest)
    <3>1. CASE i = 1
      BY <1>1, <3>1
    <3>2. CASE i # 1
      <4>1. i - 1 \in DOMAIN rest /\ rest[i - 1] = queue[i]
        BY <1>1, <1>2, <3>2
      <4>. QED
        BY <4>1 DEF Within
    <3>. QED
      BY <3>1, <3>2
  <2>. QED
    BY <2>1, <2>2 DEF Within
<1>4. ASSUME Apart(queue)
      PROVE  Head(queue) \cap Within(rest) = {} /\ Apart(rest)
  BY <1>1, <1>2, <1>4 DEF Apart, Within
<1>. QED
  BY <1>3, <1>4
-----------------------------------------------------------------------------
(* The memory of a process that does not copy. *)
Idle ==
    /\ phase # "copying" /\ stats = NoStats /\ pending = {} /\ channel = <<>>
    /\ producer = "off" /\ consumer = "off"
    /\ \A d \in Docs : task[d] = "none"

(* A process that does not copy keeps no accounts. *)
LEMMA IdleKeepsAInv == Idle => AInv
<1>. SUFFICES ASSUME Idle PROVE AInv
  OBVIOUS
<1>. USE DEF Idle
<1>1. Writer!InBatch = {} /\ Within(channel) = {}
  BY DEF Writer!InBatch, Within
<1>2. BatchesApart
  BY <1>1 DEF BatchesApart, Apart
<1>3. StagesAgree /\ PagesCounted /\ Traced
  BY <1>1 DEF StagesAgree, PagesCounted, Traced
<1>4. BatchesCounted
  BY DEF BatchesCounted, NoStats
<1>. QED
  BY <1>2, <1>3, <1>4 DEF AInv

(* One page: its documents join the read ones, and what became of each is  *)
(* added to the count of its kind.                                         *)
LEMMA ReadPagePreservesAInv ==
  ASSUME MInv, AInv, NEW page \in SUBSET unread, ReadPage(page)
  PROVE  AInv'
<1>. DEFINE skipped == Skipped(page)
            refused == (page \ skipped) \ Transformable
            items == (page \ skipped) \cap Transformable
<1>. USE DEF ReadPage
<1>1. /\ unread \subseteq Docs /\ page \subseteq Docs /\ stats \in Stats
      /\ phase = "copying" /\ UNCHANGED <<phase, mode, target, completedIds, batchCounter>>
      /\ UNCHANGED <<failedFiles, dest, channel, consumer, task>>
      /\ pending = {} /\ pending' = items
  BY DEF MInv, TypeOK, TasksInRun, AInv, StagesAgree, process, tracker, disk, writer
<1>2. /\ Read' = Read \cup page /\ Read \cap page = {}
      /\ Read \subseteq Docs
  BY <1>1 DEF Read
<1>3. /\ Skipped(Read)' = Skipped(Read) \cup skipped /\ Skipped(Read) \cap skipped = {}
      /\ Skipped(Read) \subseteq Read /\ skipped \subseteq page
  BY <1>1, <1>2 DEF Skipped
<1>4. /\ Transformed' = Transformed \cup items /\ Transformed \cap items = {}
      /\ Transformed \subseteq Docs
      /\ (Read' \ Skipped(Read)') \ Transformable
           = ((Read \ Skipped(Read)) \ Transformable) \cup refused
      /\ ((Read \ Skipped(Read)) \ Transformable) \cap refused = {}
  BY <1>2, <1>3 DEF Transformed
<1>5. /\ Writer!InBatch' = Writer!InBatch /\ Within(channel') = Within(channel)
      /\ Apart(channel') = Apart(channel)
  BY <1>1 DEF Writer!InBatch
<1>6. BatchesApart'
  BY <1>1, <1>4, <1>5 DEF AInv, BatchesApart
<1>7. StagesAgree'
  BY <1>1, <1>5 DEF AInv, StagesAgree, ChannelCompleted, Writer!Outstanding
<1>8. PagesCounted'
  <2>1. /\ stats'.processed = stats.processed + Cardinality(page)
        /\ stats'.skipped = stats.skipped + Cardinality(skipped)
        /\ stats'.transformErrors = stats.transformErrors + Cardinality(refused)
        /\ stats'.transformed = stats.transformed + Cardinality(items)
    BY <1>1 DEF Stats
  <2>2. /\ Cardinality(Read') = Cardinality(Read) + Cardinality(page)
        /\ Cardinality(Skipped(Read)') = Cardinality(Skipped(Read)) + Cardinality(skipped)
        /\ Cardinality((Read' \ Skipped(Read)') \ Transformable)
             = Cardinality((Read \ Skipped(Read)) \ Transformable) + Cardinality(refused)
        /\ Cardinality(Transformed') = Cardinality(Transformed) + Cardinality(items)
    <3>1. Cardinality(Read') = Cardinality(Read) + Cardinality(page)
      BY <1>1, <1>2, SizesAddUp
    <3>2. Cardinality(Skipped(Read)') = Cardinality(Skipped(Read)) + Cardinality(skipped)
      BY <1>1, <1>2, <1>3, SizesAddUp
    <3>3. Cardinality((Read' \ Skipped(Read)') \ Transformable)
             = Cardinality((Read \ Skipped(Read)) \ Transformable) + Cardinality(refused)
      <4>1. /\ (Read \ Skipped(Read)) \ Transformable \in SUBSET Docs
            /\ refused \in SUBSET Docs
        BY <1>1, <1>2
      <4>. QED
        BY <1>4, <4>1, SizesAddUp
    <3>4. Cardinality(Transformed') = Cardinality(Transformed) + Cardinality(items)
      <4>1. Transformed \in SUBSET Docs /\ items \in SUBSET Docs
        BY <1>1, <1>4
      <4>. QED
        BY <1>4, <4>1, SizesAddUp
    <3>. QED
      BY <3>1, <3>2, <3>3, <3>4
  <2>. QED
    BY <1>1, <2>1, <2>2 DEF AInv, PagesCounted
<1>9. Counted' = Counted /\ Handled' = Handled
  BY <1>1, <1>4, <1>5 DEF Counted, InProgress, Handled, AInv, BatchesApart
<1>10. BatchesCounted'
  <2>1. /\ stats'.written = stats.written /\ stats'.writeErrors = stats.writeErrors
        /\ stats'.throttles = stats.throttles
    BY <1>1 DEF Stats
  <2>. QED
    BY <1>1, <1>9, <2>1 DEF AInv, BatchesCounted
<1>11. Traced'
  BY <1>1, <1>9 DEF AInv, Traced, Named, NotWritten
<1>. QED
  BY <1>6, <1>7, <1>8, <1>10, <1>11 DEF AInv

(* What only these variables determine stays as it is when they do. *)
LEMMA SamePages ==
  ASSUME PagesCounted, UNCHANGED <<phase, unread, completedIds>>,
         stats'.processed = stats.processed, stats'.skipped = stats.skipped,
         stats'.transformErrors = stats.transformErrors,
         stats'.transformed = stats.transformed
  PROVE  /\ Read' = Read /\ Transformed' = Transformed
         /\ PagesCounted'
<1>1. Read' = Read
  BY DEF Read
<1>2. Skipped(Read)' = Skipped(Read)
  BY <1>1 DEF Skipped
<1>3. Transformed' = Transformed
  BY <1>1, <1>2 DEF Transformed
<1>. QED
  BY <1>1, <1>2, <1>3 DEF PagesCounted

(* A batch that goes from the producer to the channel. *)
LEMMA EnqueuePreservesAInv ==
  ASSUME MInv, AInv, EnqueueBatch
  PROVE  AInv'
<1>. USE DEF EnqueueBatch
<1>1. /\ channel \in Seq(SUBSET Docs) /\ pending \in SUBSET Docs
      /\ phase = "copying" /\ UNCHANGED <<phase, mode, target, completedIds, batchCounter>>
      /\ UNCHANGED <<failedFiles, dest, unread, consumer, task, stats>>
      /\ channel' = Append(channel, pending) /\ pending' = {}
  BY DEF MInv, TypeOK, TasksInRun, process, tracker, disk, writer
<1>2. Read' = Read /\ Transformed' = Transformed /\ PagesCounted'
  BY <1>1, SamePages DEF AInv
<1>3. Writer!InBatch' = Writer!InBatch
  BY <1>1 DEF Writer!InBatch
<1>4. /\ Within(channel') = Within(channel) \cup pending
      /\ Apart(channel')
  BY <1>1, Enqueued DEF AInv, BatchesApart
<1>5. BatchesApart'
  BY <1>1, <1>2, <1>3, <1>4 DEF AInv, BatchesApart
<1>6. StagesAgree'
  BY <1>1, <1>3 DEF AInv, StagesAgree, ChannelCompleted, Writer!Outstanding
<1>7. Counted' = Counted /\ Handled' = Handled
  BY <1>1, <1>2, <1>3, <1>4 DEF Counted, InProgress, Handled
<1>8. BatchesCounted' /\ Traced'
  BY <1>1, <1>7 DEF AInv, BatchesCounted, Traced, Named, NotWritten
<1>. QED
  BY <1>2, <1>5, <1>6, <1>8 DEF AInv

(* The steps that leave all batches where they are, except EndBatch. *)
LEMMA SameBatches ==
  ASSUME BatchesApart, Transformed' = Transformed, UNCHANGED <<pending, channel>>,
         Writer!InBatch' = Writer!InBatch
  PROVE  /\ BatchesApart' /\ Handled' = Handled
         /\ consumer' = "writing" <=> consumer = "writing" => Counted' = Counted
<1>1. Within(channel') = Within(channel) /\ Apart(channel') = Apart(channel)
  OBVIOUS
<1>2. BatchesApart' /\ Handled' = Handled
  BY <1>1 DEF BatchesApart, Handled
<1>3. ASSUME consumer' = "writing" <=> consumer = "writing"
      PROVE  Counted' = Counted
  BY <1>1, <1>3 DEF Counted, InProgress
<1>. QED
  BY <1>2, <1>3
(* The producer ends, with nothing left to read or by a fault.             *)
LEMMA EndProducerPreservesAInv ==
  ASSUME MInv, AInv, EndProducer
  PROVE  AInv'
<1>. USE DEF EndProducer
<1>1. /\ phase = "copying" /\ UNCHANGED <<phase, mode, target, completedIds, batchCounter>>
      /\ UNCHANGED <<failedFiles, dest, unread, pending, channel, consumer, task, stats>>
  BY DEF MInv, TasksInRun, process, tracker, disk, writer
<1>2. Transformed' = Transformed /\ PagesCounted'
  BY <1>1, SamePages DEF AInv
<1>3. Writer!InBatch' = Writer!InBatch
  BY <1>1 DEF Writer!InBatch
<1>4. BatchesApart' /\ Handled' = Handled /\ Counted' = Counted
  BY <1>1, <1>2, <1>3, SameBatches DEF AInv
<1>5. StagesAgree'
  BY <1>1, <1>3 DEF AInv, StagesAgree, ChannelCompleted, Writer!Outstanding
<1>6. BatchesCounted' /\ Traced'
  BY <1>1, <1>4 DEF AInv, BatchesCounted, Traced, Named, NotWritten
<1>. QED
  BY <1>2, <1>4, <1>5, <1>6 DEF AInv

(* The consumer takes a batch: a live run hands it to its write tasks.     *)
LEMMA ConsumePreservesAInv ==
  ASSUME MInv, AInv, ConsumeBatch
  PROVE  AInv'
<1>. USE DEF ConsumeBatch
<1>1. /\ channel \in Seq(SUBSET Docs) /\ channel # <<>> /\ channel' = Tail(channel)
      /\ phase = "copying" /\ UNCHANGED <<phase, mode, target, completedIds, batchCounter>>
      /\ UNCHANGED <<failedFiles, dest, producer, unread, pending, stats>>
      /\ consumer = "reading" /\ Writer!InBatch = {}
  BY DEF MInv, TypeOK, TasksInRun, AInv, StagesAgree, process, tracker, disk, source
<1>2. Transformed' = Transformed /\ PagesCounted'
  BY <1>1, SamePages DEF AInv
<1>3. /\ Within(channel) = Head(channel) \cup Within(channel')
      /\ Head(channel) \cap Within(channel') = {}
      /\ Apart(channel')
  BY <1>1, Dequeued DEF AInv, BatchesApart
<1>4. CASE mode = "dry"
  <2>1. UNCHANGED <<consumer, task>>
    BY <1>4 DEF writer
  <2>2. Writer!InBatch' = {}
    BY <1>1, <2>1 DEF Writer!InBatch
  <2>3. BatchesApart'
    BY <1>1, <1>2, <1>3, <2>2 DEF AInv, BatchesApart
  <2>4. StagesAgree' /\ BatchesCounted' /\ Traced'
    BY <1>1, <1>4, <2>1, <2>2 DEF AInv, StagesAgree, BatchesCounted, Traced
  <2>. QED
    BY <1>2, <2>3, <2>4 DEF AInv
<1>5. CASE mode = "live"
  <2>1. consumer' = "writing" /\ Writer!StartTasks(Head(channel))
    BY <1>5
  <2>2. Writer!InBatch' = Head(channel)
    <3>1. Head(channel) \in SUBSET Docs
      BY <1>1, HeadTailProperties
    <3>. QED
      BY <2>1, <3>1 DEF Writer!InBatch, Writer!StartTasks
  <2>3. BatchesApart'
    BY <1>1, <1>2, <1>3, <2>2 DEF AInv, BatchesApart
  <2>4. StagesAgree'
    BY <1>1, <2>1 DEF AInv, StagesAgree
  <2>5. Counted' = Counted /\ Handled' = Handled
    BY <1>1, <1>2, <1>3, <2>1, <2>2 DEF Counted, InProgress, Handled
  <2>6. BatchesCounted' /\ Traced'
    BY <1>1, <2>1, <2>5 DEF AInv, BatchesCounted, Traced, Named
  <2>. QED
    BY <1>2, <2>3, <2>4, <2>6 DEF AInv
<1>. QED
  BY <1>4, <1>5

(* A write task waits or writes only while the consumer waits for it.      *)
LEMMA TasksWhileWriting ==
  ASSUME MInv, AInv, NEW d \in Docs, task[d] \in {"waiting", "writing"}
  PROVE  consumer \notin {"reading", "recording successes", "recording failures",
                          "reporting", "done"}
<1>1. d \in Writer!InBatch /\ d \in Writer!Outstanding
  BY DEF Writer!InBatch, Writer!Outstanding
<1>. QED
  BY <1>1 DEF AInv, StagesAgree

(* The write tasks stay in their batch, and the destination only grows.    *)
LEMMA WriteStepPreservesAInv ==
  ASSUME MInv, AInv, WriteStep
  PROVE  AInv'
<1>1. PICK d \in Docs, next \in Writer!TaskState \ {"none"} :
        /\ task[d] \in {"waiting", "writing"}
        /\ task' = [task EXCEPT ![d] = next]
        /\ WaitForPermit(d) \/ \E outcome \in Writer!Outcome : Upsert(d, outcome)
  <2>1. CASE \E d \in Docs : WaitForPermit(d)
    <3>1. PICK d \in Docs : WaitForPermit(d)
      BY <2>1
    <3>2. task[d] = "waiting" /\ task' = [task EXCEPT ![d] = "writing"]
      BY <3>1 DEF WaitForPermit, Writer!Acquire
    <3>3. "writing" \in Writer!TaskState \ {"none"}
      BY DEF Writer!TaskState
    <3>. QED
      BY <3>1, <3>2, <3>3
  <2>2. CASE \E d \in Docs, outcome \in Writer!Outcome : Upsert(d, outcome)
    <3>1. PICK d \in Docs, outcome \in Writer!Outcome : Upsert(d, outcome)
      BY <2>2
    <3>2. task[d] = "writing" /\ task' = [task EXCEPT ![d] = outcome]
      BY <3>1 DEF Upsert, Writer!Release
    <3>3. outcome \in Writer!TaskState \ {"none"}
      BY DEF Writer!TaskState, Writer!Outcome
    <3>. QED
      BY <3>1, <3>2, <3>3
  <2>. QED
    BY <2>1, <2>2 DEF WriteStep
<1>2. /\ phase = "copying" /\ UNCHANGED <<phase, mode, target, completedIds, batchCounter>>
      /\ UNCHANGED <<failedFiles, producer, unread, pending, channel, consumer, stats>>
      /\ task \in [Docs -> Writer!TaskState]
  BY <1>1, TaskNeedsRun DEF MInv, TypeOK, WaitForPermit, Upsert, process, tracker, disk, source
<1>3. consumer \notin {"reading", "recording successes", "recording failures",
                       "reporting", "done"}
  BY <1>1, TasksWhileWriting
<1>4. dest[target] \subseteq dest'[target]
  <2>1. CASE WaitForPermit(d)
    BY <2>1 DEF WaitForPermit
  <2>2. ASSUME NEW outcome \in Writer!Outcome, Upsert(d, outcome)
        PROVE  dest[target] \subseteq dest'[target]
    <3>1. dest' = dest \/ dest' = [dest EXCEPT ![target] = @ \cup {d}]
      BY <2>2 DEF Upsert, Applied, Writer!Outcome
    <3>. QED
      BY <1>1, <3>1, TaskNeedsRun DEF MInv, TypeOK
  <2>. QED
    BY <1>1, <2>1, <2>2
<1>5. Transformed' = Transformed /\ PagesCounted'
  BY <1>2, SamePages DEF AInv
<1>6. Writer!InBatch' = Writer!InBatch
  BY <1>1, <1>2 DEF Writer!InBatch
<1>7. BatchesApart' /\ Handled' = Handled /\ Counted' = Counted
  BY <1>2, <1>5, <1>6, SameBatches DEF AInv
<1>8. StagesAgree'
  BY <1>2, <1>3 DEF AInv, StagesAgree, ChannelCompleted
<1>9. BatchesCounted'
  <2>1. /\ Counted \cap dest[target] \in SUBSET (Counted \cap dest'[target])
        /\ Counted \cap dest'[target] \in SUBSET Docs
    BY <1>4 DEF Counted, Transformed, Read
  <2>2. /\ Cardinality(Counted \cap dest[target]) \in Nat
        /\ Cardinality(Counted \cap dest'[target]) \in Nat
        /\ Cardinality(Counted \cap dest[target]) <= Cardinality(Counted \cap dest'[target])
    BY <2>1, TasksAreFinite, FS_Subset
  <2>3. stats.written \in Nat
    BY DEF MInv, TypeOK, Stats
  <2>4. \A n, m, k \in Nat : n <= m /\ m <= k => n <= k
    OBVIOUS
  <2>. QED
    BY <1>2, <1>7, <2>2, <2>3, <2>4 DEF AInv, BatchesCounted
<1>10. Traced'
  BY <1>2, <1>3, <1>4, <1>7 DEF AInv, Traced, Named
<1>. QED
  BY <1>5, <1>7, <1>8, <1>9, <1>10 DEF AInv
(* The batch is counted: each of its documents was written or was not, and *)
(* what was written is in the destination.                                 *)
LEMMA EndBatchPreservesAInv ==
  ASSUME MInv, AInv, EndBatch
  PROVE  AInv'
<1>. DEFINE ok == Writer!InBatch \ NotWritten
<1>1. /\ phase = "copying" /\ UNCHANGED <<phase, mode, target, completedIds, batchCounter>>
      /\ UNCHANGED <<failedFiles, dest, producer, unread, pending, channel, task>>
      /\ consumer = "writing" /\ consumer' = "recording successes" /\ mode = "live"
      /\ stats \in Stats /\ task \in [Docs -> Writer!TaskState] /\ Writer!Outstanding = {}
  BY DEF EndBatch, MInv, TypeOK, TasksInRun, Writer!BatchWritten, process, tracker, disk,
     source, writer
<1>2. /\ NotWritten \subseteq Writer!InBatch /\ Writer!InBatch \subseteq Docs
      /\ Writer!Throttled \subseteq NotWritten
      /\ ok \subseteq dest[target]
  <2>1. \A d \in ok : task[d] = "ok"
    BY <1>1 DEF NotWritten, Writer!InBatch, Writer!Outstanding, Writer!TaskState, Writer!Outcome
  <2>. QED
    BY <2>1 DEF NotWritten, Writer!InBatch, Writer!Throttled, MInv, OkIsWritten
<1>3. /\ Cardinality(NotWritten) \in Nat /\ Cardinality(ok) \in Nat
      /\ Cardinality(Writer!Throttled) \in Nat
      /\ Cardinality(Writer!Throttled) <= Cardinality(NotWritten)
      /\ Cardinality(Writer!InBatch) = Cardinality(ok) + Cardinality(NotWritten)
  <2>1. /\ NotWritten \in SUBSET Docs /\ ok \in SUBSET Docs /\ ok \cap NotWritten = {}
        /\ Writer!InBatch = ok \cup NotWritten
    BY <1>2
  <2>2. /\ IsFiniteSet(NotWritten) /\ Cardinality(Writer!Throttled) \in Nat
        /\ Cardinality(Writer!Throttled) <= Cardinality(NotWritten)
    BY <1>2, <2>1, TasksAreFinite, FS_Subset
  <2>. QED
    BY <2>1, <2>2, SizesAddUp
<1>4. /\ stats'.processed = stats.processed /\ stats'.skipped = stats.skipped
      /\ stats'.transformErrors = stats.transformErrors
      /\ stats'.transformed = stats.transformed
      /\ stats'.writeErrors = stats.writeErrors + Cardinality(NotWritten)
      /\ stats'.written = stats.written + Cardinality(Writer!InBatch) - Cardinality(NotWritten)
      /\ stats'.throttles = stats.throttles + Cardinality(Writer!Throttled)
  BY <1>1 DEF EndBatch, Stats
<1>5. /\ stats.written \in Nat /\ stats.writeErrors \in Nat /\ stats.throttles \in Nat
  BY <1>1 DEF Stats
<1>7. Transformed' = Transformed /\ PagesCounted'
  BY <1>1, <1>4, SamePages DEF AInv
<1>8. Writer!InBatch' = Writer!InBatch
  BY <1>1 DEF Writer!InBatch
<1>9. BatchesApart' /\ Handled' = Handled
  BY <1>1, <1>7, <1>8, SameBatches DEF AInv
<1>10. StagesAgree'
  BY <1>1, <1>8 DEF AInv, StagesAgree, Writer!Outstanding
<1>11. Counted' = Counted \cup Writer!InBatch /\ Counted \cap Writer!InBatch = {}
  BY <1>1, <1>7, <1>8 DEF Counted, InProgress, AInv, BatchesApart
<1>12. BatchesCounted'
  <2>1. Counted \subseteq Docs
    BY DEF Counted, Transformed, Read
  <2>2. /\ Cardinality(Counted) \in Nat
        /\ Cardinality(Counted') = Cardinality(Counted) + Cardinality(Writer!InBatch)
    BY <1>2, <1>11, <2>1, SizesAddUp
  <2>3. Cardinality((Counted \cap dest[target]) \cup ok)
          = Cardinality(Counted \cap dest[target]) + Cardinality(ok)
    <3>1. /\ Counted \cap dest[target] \in SUBSET Docs /\ ok \in SUBSET Docs
          /\ (Counted \cap dest[target]) \cap ok = {}
      BY <1>2, <1>11, <2>1
    <3>. QED
      BY <3>1, SizesAddUp
  <2>4. /\ Cardinality(Counted \cap dest[target]) \in Nat
        /\ Cardinality(Counted' \cap dest'[target']) \in Nat
        /\ Cardinality((Counted \cap dest[target]) \cup ok) \in Nat
        /\ Cardinality((Counted \cap dest[target]) \cup ok)
             <= Cardinality(Counted' \cap dest'[target'])
    <3>1. (Counted \cap dest[target]) \cup ok \subseteq Counted' \cap dest'[target']
      BY <1>1, <1>2, <1>11
    <3>2. /\ Counted' \cap dest'[target'] \in SUBSET Docs
          /\ Counted \cap dest[target] \in SUBSET Docs
      BY <1>2, <1>11, <2>1
    <3>. QED
      BY <3>1, <3>2, TasksAreFinite, FS_Subset
  <2>5. /\ stats.throttles <= stats.writeErrors
        /\ stats.written + stats.writeErrors = Cardinality(Counted)
        /\ stats.written <= Cardinality(Counted \cap dest[target])
    BY <1>1 DEF AInv, BatchesCounted
  <2>. DEFINE w == stats.written
              e == stats.writeErrors
              t == stats.throttles
              o == Cardinality(ok)
              f == Cardinality(NotWritten)
              h == Cardinality(Writer!Throttled)
              all == Cardinality(Writer!InBatch)
              n == Cardinality(Counted)
              k == Cardinality(Counted \cap dest[target])
              m == Cardinality(Counted' \cap dest'[target'])
  <2>6. /\ w \in Nat /\ e \in Nat /\ t \in Nat /\ o \in Nat /\ f \in Nat /\ h \in Nat
        /\ n \in Nat /\ k \in Nat /\ m \in Nat
        /\ t <= e /\ h <= f /\ w + e = n /\ w <= k /\ all = o + f /\ k + o <= m
    BY <1>3, <1>5, <2>2, <2>3, <2>4, <2>5
  <2>7. /\ stats'.written = w + all - f /\ stats'.writeErrors = e + f
        /\ stats'.throttles = t + h /\ Cardinality(Counted') = n + all
    BY <1>4, <2>2
  <2>. HIDE DEF w, e, t, o, f, h, all, n, k, m
  <2>8. t + h <= e + f /\ (w + all - f) + (e + f) = n + all /\ w + all - f <= m
    BY <2>6
  <2>. QED
    BY <2>7, <2>8 DEF BatchesCounted, m
<1>13. Traced'
  BY <1>1, <1>9 DEF AInv, Traced, Named
<1>. QED
  BY <1>7, <1>9, <1>10, <1>12, <1>13 DEF AInv

(* Writing a batch file moves no document; a file that names one stays.    *)
LEMMA RecordStepPreservesAInv ==
  ASSUME MInv, AInv, RecordSuccess \/ RecordFailure \/ RecordFails
  PROVE  AInv'
<1>1. /\ phase = "copying" /\ UNCHANGED <<phase, mode, target, completedIds>>
      /\ UNCHANGED <<dest, producer, unread, pending, channel, task, stats>>
      /\ consumer \in {"recording successes", "recording failures"}
      /\ consumer' \in {"recording failures", "reporting", "faulted"}
  BY DEF RecordSuccess, RecordFailure, RecordFails, MInv, TasksInRun, process, source, writer
<1>2. Transformed' = Transformed /\ PagesCounted'
  BY <1>1, SamePages DEF AInv
<1>3. Writer!InBatch' = Writer!InBatch
  BY <1>1 DEF Writer!InBatch
<1>4. BatchesApart' /\ Handled' = Handled /\ Counted' = Counted
  BY <1>1, <1>2, <1>3, SameBatches DEF AInv
<1>5. StagesAgree'
  BY <1>1 DEF AInv, StagesAgree, Writer!Outstanding
<1>6. BatchesCounted'
  BY <1>1, <1>4 DEF AInv, BatchesCounted
<1>7. Traced'
  <2>1. CASE RecordSuccess
    <3>1. /\ failedFiles' = failedFiles /\ consumer' = "recording failures"
          /\ batchCounter' = batchCounter \/ batchCounter' = batchCounter + 1
          /\ batchCounter \in Nat /\ DOMAIN failedFiles \subseteq Nat
      BY <2>1 DEF RecordSuccess, MInv, TypeOK, IsDirectory
    <3>2. \A d \in Docs : Named(d) => Named(d)'
      <4>1. ASSUME NEW n \in DOMAIN failedFiles, n <= batchCounter
            PROVE  n <= batchCounter'
        <5>1. n \in Nat /\ batchCounter \in Nat /\ batchCounter' \in {batchCounter, batchCounter + 1}
          BY <3>1
        <5>. QED
          BY <4>1, <5>1
      <4>. QED
        BY <3>1, <4>1 DEF Named
    <3>. QED
      BY <1>1, <1>4, <3>1, <3>2 DEF AInv, Traced, Handled, Transformed, Read
  <2>2. CASE RecordFailure /\ NotWritten = {}
    BY <1>1, <1>4, <2>2 DEF RecordFailure, AInv, Traced, Named, NotWritten
  <2>3. CASE RecordFailure /\ NotWritten # {}
    <3>1. /\ batchCounter' = batchCounter + 1
          /\ failedFiles' = WriteAllLines(failedFiles, batchCounter + 1, IdsOf(NotWritten))
          /\ batchCounter \in Nat /\ DOMAIN failedFiles \subseteq Nat
      BY <2>3 DEF RecordFailure, MInv, TypeOK, IsDirectory
    <3>2. \A d \in Docs : Named(d) => Named(d)'
      <4>1. \A n \in DOMAIN failedFiles : n <= batchCounter =>
               /\ n \in DOMAIN failedFiles' /\ n <= batchCounter'
               /\ failedFiles'[n] = failedFiles[n]
        BY <3>1 DEF WriteAllLines
      <4>. QED
        BY <4>1 DEF Named
    <3>3. \A d \in NotWritten : Named(d)'
      <4>1. /\ batchCounter' \in DOMAIN failedFiles' /\ batchCounter' <= batchCounter'
            /\ failedFiles'[batchCounter'] = IdsOf(NotWritten)
        BY <3>1 DEF WriteAllLines
      <4>2. \A d \in NotWritten : IdOf[d] \in IdsOf(NotWritten)
        BY DEF IdsOf
      <4>. QED
        BY <4>1, <4>2 DEF Named
    <3>4. NotWritten' = NotWritten
      BY <1>1 DEF NotWritten
    <3>5. Handled \subseteq Docs
      BY DEF Handled, Transformed, Read
    <3>. QED
      BY <1>1, <1>4, <3>2, <3>3, <3>4, <3>5 DEF AInv, Traced
  <2>4. CASE RecordFails
    BY <2>4 DEF RecordFails, Traced
  <2>. QED
    BY <2>1, <2>2, <2>3, <2>4
<1>. QED
  BY <1>2, <1>4, <1>5, <1>6, <1>7 DEF AInv
(* The batch is reported: each of its documents is in the destination or   *)
(* in the failed file that was just written.                               *)
LEMMA ReportPreservesAInv ==
  ASSUME MInv, AInv, ReportBatch
  PROVE  AInv'
<1>1. /\ phase = "copying" /\ UNCHANGED <<phase, mode, target, completedIds, batchCounter>>
      /\ UNCHANGED <<failedFiles, dest, producer, unread, pending, channel, stats>>
      /\ consumer = "reporting" /\ consumer' = "reading" /\ mode = "live"
      /\ task \in [Docs -> Writer!TaskState] /\ task' = [d \in Docs |-> "none"]
      /\ Writer!Outstanding = {}
  BY DEF ReportBatch, Writer!AdaptToResult, MInv, TypeOK, TasksInRun, AInv, StagesAgree,
     process, tracker, disk, source
<1>2. Transformed' = Transformed /\ PagesCounted'
  BY <1>1, SamePages DEF AInv
<1>3. Writer!InBatch' = {}
  BY <1>1 DEF Writer!InBatch
<1>4. BatchesApart'
  BY <1>1, <1>2, <1>3 DEF AInv, BatchesApart
<1>5. StagesAgree'
  BY <1>1, <1>3 DEF AInv, StagesAgree
<1>6. BatchesCounted'
  <2>1. Counted' = Counted
    BY <1>1, <1>2 DEF Counted, InProgress
  <2>. QED
    BY <1>1, <2>1 DEF AInv, BatchesCounted
<1>7. Traced'
  <2>1. Handled' \subseteq Handled \cup Writer!InBatch
    BY <1>1, <1>2, <1>3 DEF Handled
  <2>2. \A d \in Writer!InBatch : task[d] = "ok" \/ d \in NotWritten
    BY <1>1 DEF Writer!InBatch, Writer!Outstanding, NotWritten, Writer!TaskState, Writer!Outcome
  <2>3. \A d \in Writer!InBatch : d \in dest[target] \/ Named(d)
    BY <1>1, <2>2 DEF AInv, Traced, MInv, OkIsWritten, Writer!InBatch
  <2>. QED
    BY <1>1, <2>1, <2>3 DEF AInv, Traced, Named
<1>. QED
  BY <1>2, <1>4, <1>5, <1>6, <1>7 DEF AInv

(* The consumer ends when the channel is completed and empty.              *)
LEMMA EndConsumerPreservesAInv ==
  ASSUME MInv, AInv, EndConsumer
  PROVE  AInv'
<1>1. /\ phase = "copying" /\ UNCHANGED <<phase, mode, target, completedIds, batchCounter>>
      /\ UNCHANGED <<failedFiles, dest, producer, unread, pending, channel, task, stats>>
      /\ consumer = "reading" /\ consumer' = "done" /\ ChannelCompleted /\ channel = <<>>
  BY DEF EndConsumer, MInv, TasksInRun, process, tracker, disk, source, writer
<1>2. Transformed' = Transformed /\ PagesCounted'
  BY <1>1, SamePages DEF AInv
<1>3. Writer!InBatch' = Writer!InBatch
  BY <1>1 DEF Writer!InBatch
<1>4. BatchesApart' /\ Handled' = Handled /\ Counted' = Counted
  BY <1>1, <1>2, <1>3, SameBatches DEF AInv
<1>5. StagesAgree'
  BY <1>1, <1>3 DEF AInv, StagesAgree, ChannelCompleted
<1>6. BatchesCounted' /\ Traced'
  BY <1>1, <1>4 DEF AInv, BatchesCounted, Traced, Named
<1>. QED
  BY <1>2, <1>4, <1>5, <1>6 DEF AInv

(* The copy begins with nothing read and nothing counted.                  *)
LEMMA BeginCopyPreservesAInv ==
  ASSUME MInv, AInv, BeginCopy
  PROVE  AInv'
<1>1. /\ phase' = "copying" /\ unread' = Docs /\ pending' = {} /\ channel' = <<>>
      /\ stats' = NoStats /\ producer' = "reading" /\ consumer' = "reading"
      /\ task' = [d \in Docs |-> "none"]
  BY DEF BeginCopy, Writer!NewController, AInv, StagesAgree
<1>2. /\ Read' = {} /\ Skipped(Read)' = {} /\ Transformed' = {}
      /\ Writer!InBatch' = {} /\ Within(channel') = {}
  BY <1>1 DEF Read, Skipped, Transformed, Writer!InBatch, Within
<1>3. BatchesApart'
  BY <1>1, <1>2 DEF BatchesApart, Apart
<1>4. StagesAgree'
  BY <1>1, <1>2 DEF StagesAgree
<1>5. Cardinality({}) = 0 /\ Counted' = {} /\ Handled' = {}
  BY <1>2, FS_EmptySet DEF Counted, Handled
<1>6. PagesCounted'
  <2>1. (Read' \ Skipped(Read)') \ Transformable = {}
    BY <1>2
  <2>. QED
    BY <1>1, <1>2, <1>5, <2>1 DEF PagesCounted, NoStats
<1>7. BatchesCounted'
  <2>1. (Counted \cap dest[target])' = {}
    BY <1>5
  <2>. QED
    BY <1>1, <1>5, <2>1 DEF BatchesCounted, NoStats
<1>8. Traced'
  BY <1>1, <1>5 DEF Traced
<1>. QED
  BY <1>3, <1>4, <1>6, <1>7, <1>8 DEF AInv

(* The steps outside the copy. *)
LEMMA RunStepPreservesAInv ==
  ASSUME MInv, MInv', AInv, RunStep
  PROVE  AInv'
<1>0. Idle' => AInv'
  BY IdleKeepsAInv, PTL
<1>1. CASE BeginCopy
  BY <1>1, BeginCopyPreservesAInv
<1>2. CASE ~ BeginCopy
  <2>1. CASE EndRun \/ Kill
    BY <1>0, <2>1 DEF Idle, EndRun, Kill, LoseMemory, Writer!NewController
  <2>2. CASE ~ (EndRun \/ Kill)
    <3>1. /\ phase # "copying" /\ phase' # "copying"
          /\ UNCHANGED <<source, channel, consumer, stats, writer>>
      BY <1>2, <2>2 DEF RunStep, Validate, Start, ClearFailures, process
    <3>2. stats' = NoStats /\ pending' = {} /\ channel' = <<>>
      BY <3>1 DEF AInv, StagesAgree, source
    <3>3. producer' = "off" /\ consumer' = "off" /\ \A d \in Docs : task'[d] = "none"
      BY <3>1 DEF MInv, TasksInRun, TasksInLiveRun
    <3>. QED
      BY <1>0, <3>1, <3>2, <3>3 DEF Idle
  <2>. QED
    BY <2>1, <2>2
<1>. QED
  BY <1>1, <1>2

(* Every step preserves the accounts.                                      *)
LEMMA NextPreservesAInv ==
  ASSUME MInv, MInv', AInv, [Next]_vars
  PROVE  AInv'
<1>1. CASE ProducerStep
  BY <1>1, ReadPagePreservesAInv, EnqueuePreservesAInv, EndProducerPreservesAInv
     DEF ProducerStep
<1>2. CASE WriteStep
  BY <1>2, WriteStepPreservesAInv
<1>3. CASE ConsumerStep
  BY <1>3, ConsumePreservesAInv, EndBatchPreservesAInv, RecordStepPreservesAInv,
     ReportPreservesAInv, EndConsumerPreservesAInv DEF ConsumerStep
<1>4. CASE RunStep
  BY <1>4, RunStepPreservesAInv
<1>5. CASE UNCHANGED vars
  <2>1. UNCHANGED <<dest, failedFiles, phase, mode, target, completedIds, batchCounter,
                    producer, unread, pending, channel, consumer, stats, task>>
    BY <1>5 DEF vars, disk, process, tracker, source, writer
  <2>2. Transformed' = Transformed /\ PagesCounted'
    BY <2>1, SamePages DEF AInv
  <2>3. Writer!InBatch' = Writer!InBatch
    BY <2>1 DEF Writer!InBatch
  <2>4. BatchesApart' /\ Handled' = Handled /\ Counted' = Counted
    BY <2>1, <2>2, <2>3, SameBatches DEF AInv
  <2>5. StagesAgree' /\ BatchesCounted' /\ Traced'
    BY <2>1, <2>3, <2>4 DEF AInv, StagesAgree, ChannelCompleted, Writer!Outstanding,
       BatchesCounted, Traced, Named, NotWritten
  <2>. QED
    BY <2>2, <2>4, <2>5 DEF AInv
<1>. QED
  BY <1>1, <1>2, <1>3, <1>4, <1>5 DEF Next

(* The accounts of every run agree with what it did, at every moment.      *)
THEOREM AccountsAgree == Safe => [](MInv /\ AInv)
<1>1. Init => AInv
  BY IdleKeepsAInv DEF Idle, Init, IdleMemory, Writer!Init
<1>2. MInv /\ MInv' /\ AInv /\ [Next]_vars => AInv'
  BY NextPreservesAInv
<1>. QED
  BY <1>1, <1>2, MigrationInvariant, PTL DEF Safe

-----------------------------------------------------------------------------
(* A batch is never empty, from the page it comes from to its report.      *)
BatchesFilled ==
    /\ producer = "writing" => pending # {}
    /\ \A i \in DOMAIN channel : channel[i] # {}
    /\ consumer \in {"writing", "recording successes", "recording failures", "reporting"}
       => Writer!InBatch # {}

LEMMA NextKeepsBatchesFilled ==
  ASSUME MInv, AInv, BatchesFilled, [Next]_vars
  PROVE  BatchesFilled'
<1>. DEFINE occupied == {"writing", "recording successes", "recording failures", "reporting"}
<1>0. /\ channel \in Seq(SUBSET Docs) /\ pending \in SUBSET Docs
      /\ task \in [Docs -> Writer!TaskState]
  BY DEF MInv, TypeOK
<1>1. CASE ProducerStep
  <2>1. UNCHANGED <<consumer, task>>
    BY <1>1 DEF ProducerStep, ReadPage, EnqueueBatch, EndProducer, writer
  <2>2. Writer!InBatch' = Writer!InBatch
    BY <2>1 DEF Writer!InBatch
  <2>3. producer' = "writing" => pending' # {}
    BY <1>1 DEF ProducerStep, ReadPage, EnqueueBatch, EndProducer
  <2>4. \A i \in DOMAIN channel' : channel'[i] # {}
    <3>1. CASE EnqueueBatch
      <4>1. channel' = Append(channel, pending) /\ pending # {}
        BY <3>1 DEF EnqueueBatch, BatchesFilled
      <4>2. /\ Len(channel) \in Nat /\ DOMAIN channel = 1..Len(channel)
            /\ DOMAIN channel' = 1..(Len(channel) + 1)
            /\ \A i \in DOMAIN channel : channel'[i] = channel[i]
            /\ channel'[Len(channel) + 1] = pending
        BY <1>0, <4>1, AppendProperties
      <4>3. ASSUME NEW i \in DOMAIN channel'
            PROVE  i \in DOMAIN channel \/ i = Len(channel) + 1
        BY <4>2
      <4>4. \A i \in DOMAIN channel : channel[i] # {}
        BY DEF BatchesFilled
      <4>. QED
        BY <4>1, <4>2, <4>3, <4>4, Zenon
    <3>2. CASE ~ EnqueueBatch
      BY <1>1, <3>2 DEF ProducerStep, ReadPage, EndProducer, BatchesFilled
    <3>. QED
      BY <3>1, <3>2
  <2>. QED
    BY <2>1, <2>2, <2>3, <2>4 DEF BatchesFilled
<1>2. CASE WriteStep
  <2>1. UNCHANGED <<producer, pending, channel, consumer>>
    BY <1>2 DEF WriteStep, WaitForPermit, Upsert, source
  <2>2. ASSUME NEW d \in Docs, task[d] # "none"
        PROVE  task'[d] # "none"
    BY <1>0, <1>2, <2>2 DEF WriteStep, WaitForPermit, Upsert, Writer!Acquire, Writer!Release,
       Writer!Outcome
  <2>3. Writer!InBatch # {} => Writer!InBatch' # {}
    BY <2>2 DEF Writer!InBatch
  <2>. QED
    BY <2>1, <2>3 DEF BatchesFilled
<1>3. CASE ConsumeBatch
  <2>1. /\ UNCHANGED <<producer, pending>> /\ channel' = Tail(channel) /\ channel # <<>>
        /\ consumer = "reading"
    BY <1>3 DEF ConsumeBatch, source
  <2>2. /\ \A i \in DOMAIN channel' : channel'[i] # {}
        /\ Head(channel) # {} /\ Head(channel) \in SUBSET Docs
    BY <1>0, <2>1, HeadTailProperties DEF BatchesFilled
  <2>3. CASE mode = "dry"
    BY <1>3, <2>1, <2>2, <2>3 DEF ConsumeBatch, BatchesFilled
  <2>4. CASE mode = "live"
    <3>1. Writer!InBatch' = Head(channel)
      BY <1>3, <2>2, <2>4 DEF ConsumeBatch, Writer!StartTasks, Writer!InBatch
    <3>. QED
      BY <2>1, <2>2, <3>1 DEF BatchesFilled
  <2>. QED
    BY <1>3, <2>3, <2>4 DEF ConsumeBatch
<1>4. CASE ReportBatch \/ EndConsumer
  <2>1. UNCHANGED <<producer, pending, channel>> /\ consumer' \notin occupied
    BY <1>4 DEF ReportBatch, EndConsumer, source
  <2>. QED
    BY <2>1 DEF BatchesFilled
<1>5. CASE EndBatch \/ RecordSuccess \/ RecordFailure \/ RecordFails
  <2>1. UNCHANGED <<producer, pending, channel, task>> /\ consumer \in occupied
    BY <1>5 DEF EndBatch, RecordSuccess, RecordFailure, RecordFails, source, writer
  <2>2. Writer!InBatch' = Writer!InBatch
    BY <2>1 DEF Writer!InBatch
  <2>. QED
    BY <2>1, <2>2 DEF BatchesFilled
<1>6. CASE RunStep
  <2>1. CASE BeginCopy \/ EndRun \/ Kill
    <3>1. producer' \in {"off", "reading"} /\ consumer' \in {"off", "reading"}
      BY <2>1 DEF BeginCopy, EndRun, Kill, LoseMemory
    <3>2. channel' = <<>>
      BY <2>1 DEF BeginCopy, EndRun, Kill, LoseMemory, AInv, StagesAgree
    <3>3. \A i \in DOMAIN channel' : channel'[i] # {}
      BY <3>2
    <3>. QED
      BY <3>1, <3>3 DEF BatchesFilled
  <2>2. CASE ~ (BeginCopy \/ EndRun \/ Kill)
    <3>1. UNCHANGED <<source, channel, consumer, task>>
      BY <1>6, <2>2 DEF RunStep, Validate, Start, ClearFailures, writer
    <3>2. Writer!InBatch' = Writer!InBatch
      BY <3>1 DEF Writer!InBatch
    <3>. QED
      BY <3>1, <3>2 DEF BatchesFilled, source
  <2>. QED
    BY <2>1, <2>2
<1>7. CASE UNCHANGED vars
  <2>1. UNCHANGED <<source, channel, consumer, task>>
    BY <1>7 DEF vars, writer
  <2>2. Writer!InBatch' = Writer!InBatch
    BY <2>1 DEF Writer!InBatch
  <2>. QED
    BY <2>1, <2>2 DEF BatchesFilled, source
<1>. QED
  BY <1>1, <1>2, <1>3, <1>4, <1>5, <1>6, <1>7 DEF Next, ConsumerStep

(* The consumer uses the controller as it is meant to be used, although    *)
(* neither tests anything: it starts a batch only when the one before is   *)
(* reported and reports only when all tasks are over, so a run, seen       *)
(* through its controller and its write tasks, is a behaviour of           *)
(* AdaptiveConcurrency.                                                    *)
THEOREM MigrationDrivesWriter == Safe => DrivesWriter
<1>1. Init => Writer!Init /\ BatchesFilled
  BY DEF Init, IdleMemory, BatchesFilled
<1>2. MInv /\ AInv /\ BatchesFilled /\ [Next]_vars => BatchesFilled'
  BY NextKeepsBatchesFilled
<1>3. MInv /\ AInv /\ BatchesFilled /\ [Next]_vars => [Writer!Next]_(Writer!vars)
  <2>. SUFFICES ASSUME MInv, AInv, BatchesFilled, [Next]_vars
                PROVE  Writer!Next \/ UNCHANGED Writer!vars
    OBVIOUS
  <2>. USE DEF Writer!vars, Writer!controllerVars
  <2>1. CASE ProducerStep
    BY <2>1 DEF ProducerStep, ReadPage, EnqueueBatch, EndProducer, writer
  <2>2. ASSUME NEW d \in Docs, WaitForPermit(d)
        PROVE  Writer!Next
    BY <2>2 DEF WaitForPermit, Writer!Next
  <2>3. ASSUME NEW d \in Docs, NEW outcome \in Writer!Outcome, Upsert(d, outcome)
        PROVE  Writer!Next
    BY <2>3 DEF Upsert, Writer!Next
  <2>4. CASE ConsumeBatch
    <3>1. CASE mode = "dry"
      BY <2>4, <3>1 DEF ConsumeBatch, writer
    <3>2. CASE mode = "live"
      <4>1. Writer!StartTasks(Head(channel)) /\ consumer = "reading" /\ channel # <<>>
        BY <2>4, <3>2 DEF ConsumeBatch
      <4>2. Head(channel) # {} /\ Head(channel) \in SUBSET Docs
        BY <4>1, HeadTailProperties DEF BatchesFilled, MInv, TypeOK
      <4>3. Writer!InBatch = {}
        BY <4>1 DEF AInv, StagesAgree
      <4>. QED
        BY <4>1, <4>2, <4>3 DEF Writer!StartBatch, Writer!Next
    <3>. QED
      BY <2>4, <3>1, <3>2 DEF ConsumeBatch
  <2>5. CASE ReportBatch
    <3>1. Writer!BatchWritten /\ Writer!AdaptToResult
      BY <2>5 DEF ReportBatch, Writer!BatchWritten, BatchesFilled, AInv, StagesAgree
    <3>. QED
      BY <3>1 DEF Writer!ReportBatchResult, Writer!Next
  <2>6. CASE EndBatch \/ RecordSuccess \/ RecordFailure \/ RecordFails \/ EndConsumer
    BY <2>6 DEF EndBatch, RecordSuccess, RecordFailure, RecordFails, EndConsumer, writer
  <2>7. CASE RunStep
    <3>1. CASE BeginCopy \/ EndRun \/ Kill
      BY <3>1 DEF BeginCopy, EndRun, Kill, LoseMemory, Writer!Next
    <3>2. ASSUME NEW e \in Endpoints, NEW m \in Modes, Validate(e) \/ Start(e, m)
          PROVE  UNCHANGED Writer!vars
      BY <3>2 DEF Validate, Start, writer
    <3>3. ASSUME NEW e \in Endpoints, Validate(e)
          PROVE  UNCHANGED Writer!vars
      BY <3>3 DEF Validate, writer
    <3>4. ASSUME NEW n \in DOMAIN failedFiles, ClearFailures(n)
          PROVE  UNCHANGED Writer!vars
      BY <3>4 DEF ClearFailures, writer
    <3>. QED
      BY <2>7, <3>1, <3>2, <3>3, <3>4 DEF RunStep
  <2>8. CASE UNCHANGED vars
    BY <2>8 DEF vars, writer
  <2>. QED
    BY <2>1, <2>2, <2>3, <2>4, <2>5, <2>6, <2>7, <2>8 DEF Next, WriteStep, ConsumerStep
<1>. QED
  BY <1>1, <1>2, <1>3, AccountsAgree, PTL DEF Safe, DrivesWriter, Writer!Safe

-----------------------------------------------------------------------------
(* When both tasks have ended no document is unread or in a batch.         *)
LEMMA FinishedRun ==
  ASSUME MInv, AInv, Finished
  PROVE  /\ phase = "copying" /\ Read = Docs
         /\ Counted = Transformed /\ Handled = Transformed
<1>1. /\ phase = "copying" /\ unread = {} /\ pending = {} /\ channel = <<>>
      /\ Writer!InBatch = {} /\ consumer = "done"
  BY DEF Finished, MInv, TasksInRun, AInv, StagesAgree
<1>2. Within(channel) = {}
  BY <1>1 DEF Within
<1>. QED
  BY <1>1, <1>2 DEF Read, Counted, InProgress, Handled

(* The summary that a run prints at its end is true: every document was    *)
(* read and is in exactly one of its counts.                               *)
THEOREM SummaryIsTrue == Safe => []SummaryAddsUp
<1>1. MInv /\ AInv => SummaryAddsUp
  <2>. SUFFICES ASSUME MInv, AInv, Finished
                PROVE  /\ stats.processed = Cardinality(Docs)
                       /\ stats.processed = stats.skipped + stats.transformErrors
                                            + stats.transformed
                       /\ mode = "live" => stats.transformed = stats.written + stats.writeErrors
                       /\ stats.throttles <= stats.writeErrors
    BY DEF SummaryAddsUp
  <2>. DEFINE skipped == Skipped(Docs)
              refused == (Docs \ skipped) \ Transformable
  <2>1. /\ phase = "copying" /\ Read = Docs /\ Counted = Transformed
        /\ Transformed = (Docs \ skipped) \cap Transformable
    BY FinishedRun DEF Transformed
  <2>2. /\ stats.processed = Cardinality(Docs) /\ stats.skipped = Cardinality(skipped)
        /\ stats.transformErrors = Cardinality(refused)
        /\ stats.transformed = Cardinality(Transformed)
    BY <2>1 DEF AInv, PagesCounted
  <2>3. /\ skipped \subseteq Docs
        /\ Docs = (skipped \cup refused) \cup Transformed
        /\ skipped \cap refused = {} /\ (skipped \cup refused) \cap Transformed = {}
    BY <2>1 DEF Skipped
  <2>4. /\ Cardinality(skipped) \in Nat /\ Cardinality(refused) \in Nat
        /\ Cardinality(skipped \cup refused) = Cardinality(skipped) + Cardinality(refused)
        /\ Cardinality(Docs) = Cardinality(skipped \cup refused) + Cardinality(Transformed)
    BY <2>1, <2>3, SizesAddUp
  <2>5. /\ mode = "live" => stats.written + stats.writeErrors = Cardinality(Counted)
        /\ stats.throttles <= stats.writeErrors
    BY <2>1 DEF AInv, BatchesCounted
  <2>. QED
    BY <2>1, <2>2, <2>4, <2>5
<1>. QED
  BY <1>1, AccountsAgree, PTL

(* When every document has an id of its own and the progress directory     *)
(* serves one account, what a run skips is in its destination.             *)
LEMMA SkippedIsWritten ==
  ASSUME UniqueIds, OneAccount, MInv, phase = "copying"
  PROVE  Skipped(Docs) \subseteq dest[target]
<1>. SUFFICES ASSUME NEW d \in Docs, IdOf[d] \in completedIds
              PROVE  d \in dest[target]
  BY DEF Skipped
<1>1. PICK e \in Endpoints : \E d2 \in dest[e] : IdOf[d2] = IdOf[d]
  BY DEF MInv, RecordedWasWritten
<1>2. target = e
  BY DEF MInv, TasksInRun, OneAccount
<1>. QED
  BY <1>1, <1>2 DEF MInv, TypeOK, UniqueIds

(* The summary does not boast: what it calls written or skipped is in the  *)
(* destination, and no document is called both.                            *)
THEOREM SummaryDoesNotBoast ==
  ASSUME UniqueIds, OneAccount
  PROVE  Safe => []SummaryIsBacked
<1>1. MInv /\ AInv => SummaryIsBacked
  <2>. SUFFICES ASSUME MInv, AInv, Finished, mode = "live"
                PROVE  stats.skipped + stats.written <= Cardinality(dest[target])
    BY DEF SummaryIsBacked
  <2>. DEFINE skipped == Skipped(Docs)
              written == Transformed \cap dest[target]
  <2>1. /\ phase = "copying" /\ Read = Docs /\ Counted = Transformed
        /\ Transformed = (Docs \ skipped) \cap Transformable
    BY FinishedRun DEF Transformed
  <2>2. dest[target] \in SUBSET Docs
    BY <2>1 DEF MInv, TypeOK, TasksInRun
  <2>3. /\ skipped \cup written \in SUBSET dest[target] /\ skipped \cap written = {}
        /\ skipped \in SUBSET Docs /\ written \in SUBSET Docs
    BY <2>1, <2>2, SkippedIsWritten
  <2>4. Cardinality(skipped \cup written) <= Cardinality(dest[target])
    BY <2>2, <2>3, TasksAreFinite, FS_Subset
  <2>5. /\ Cardinality(skipped) \in Nat /\ Cardinality(written) \in Nat
        /\ Cardinality(skipped \cup written) = Cardinality(skipped) + Cardinality(written)
    BY <2>3, SizesAddUp
  <2>6. stats.skipped = Cardinality(skipped) /\ stats.written <= Cardinality(written)
    BY <2>1 DEF AInv, PagesCounted, BatchesCounted
  <2>7. stats.written \in Nat /\ Cardinality(dest[target]) \in Nat
    BY <2>2, TasksAreFinite DEF MInv, TypeOK, Stats
  <2>. QED
    BY <2>4, <2>5, <2>6, <2>7
<1>. QED
  BY <1>1, AccountsAgree, PTL

(* A run answers for every document it did not skip, whatever the ids and  *)
(* the accounts: after a live run without a fault the document is in the   *)
(* destination, or a failed file names it.                                 *)
NothingTriedIsForgotten ==
    Finished /\ mode = "live" =>
        \A d \in Transformable :
            IdOf[d] \notin completedIds =>
                d \in dest[target] \/ IdOf[d] \in RecordedFailures

(* What a live run tries to write leaves a trace, for all ids and accounts. *)
THEOREM TriedIsTraced == Safe => []NothingTriedIsForgotten
<1>1. MInv /\ AInv => NothingTriedIsForgotten
  <2>. SUFFICES ASSUME MInv, AInv, Finished, mode = "live",
                       NEW d \in Transformable, IdOf[d] \notin completedIds
                PROVE  d \in dest[target] \/ IdOf[d] \in RecordedFailures
    BY DEF NothingTriedIsForgotten
  <2>1. phase = "copying" /\ Read = Docs /\ Handled = Transformed /\ d \in Docs
    BY FinishedRun, MigrationAssumption
  <2>2. d \in Handled
    BY <2>1 DEF Transformed, Skipped
  <2>3. d \in dest[target] \/ Named(d)
    BY <2>1, <2>2 DEF AInv, Traced, Finished
  <2>. QED
    BY <2>3 DEF Named, RecordedFailures, IdsIn
<1>. QED
  BY <1>1, AccountsAgree, PTL

(* A live run that ends without a fault leaves no document behind without  *)
(* a trace, the skipped ones included, when the ids are unique and there   *)
(* is one account.                                                         *)
THEOREM NothingIsForgotten ==
  ASSUME UniqueIds, OneAccount
  PROVE  Safe => []NothingForgotten
<1>1. MInv /\ AInv /\ NothingTriedIsForgotten => NothingForgotten
  <2>. SUFFICES ASSUME MInv, AInv, NothingTriedIsForgotten, Finished, mode = "live",
                       NEW d \in Transformable
                PROVE  d \in dest[target] \/ IdOf[d] \in RecordedFailures
    BY DEF NothingForgotten
  <2>1. CASE IdOf[d] \in completedIds
    <3>1. phase = "copying" /\ d \in Skipped(Docs)
      BY <2>1, FinishedRun, MigrationAssumption DEF Skipped
    <3>. QED
      BY <3>1, SkippedIsWritten
  <2>2. CASE IdOf[d] \notin completedIds
    BY <2>2 DEF NothingTriedIsForgotten
  <2>. QED
    BY <2>1, <2>2
<1>. QED
  BY <1>1, AccountsAgree, TriedIsTraced, PTL
-----------------------------------------------------------------------------
(* The numbers of the batch files, while no failure is cleared: they are   *)
(* 1, 2, 3, ... without a gap, no number is used in both directories, and  *)
(* the tracker of a run that can still record knows the last one.          *)
NumberedInTurn ==
    \E last \in Nat :
        /\ DOMAIN successFiles \cup DOMAIN failedFiles = 1..last
        /\ CountExistingBatchFiles = last
        /\ phase # "down" /\ consumer # "faulted" => batchCounter = last

(* No run deletes a failed file.                                           *)
FailuresStay == DOMAIN failedFiles \subseteq DOMAIN failedFiles'

(* A step that leaves the directories and the counter alone, and brings no *)
(* dead consumer back to life.                                             *)
LEMMA NumbersStay ==
  ASSUME NumberedInTurn, UNCHANGED disk,
         phase' # "down" /\ consumer' # "faulted"
         => phase # "down" /\ consumer # "faulted" /\ batchCounter' = batchCounter
  PROVE  NumberedInTurn'
BY DEF NumberedInTurn, disk, CountExistingBatchFiles

(* A file with the next number is a new file: none is overwritten.         *)
LEMMA NewFile ==
  ASSUME NEW files, IsDirectory(files), NEW n \in Nat, n \notin DOMAIN files, NEW ids
  PROVE  /\ DOMAIN WriteAllLines(files, n, ids) = DOMAIN files \cup {n}
         /\ Cardinality(DOMAIN WriteAllLines(files, n, ids)) = Cardinality(DOMAIN files) + 1
         /\ Cardinality(DOMAIN files) \in Nat
         /\ IdsIn(files) \subseteq IdsIn(WriteAllLines(files, n, ids))
<1>1. DOMAIN WriteAllLines(files, n, ids) = DOMAIN files \cup {n}
  BY DEF WriteAllLines
<1>2. /\ Cardinality(DOMAIN files \cup {n}) = Cardinality(DOMAIN files) + 1
      /\ Cardinality(DOMAIN files) \in Nat
  BY FS_AddElement, FS_CardinalityType DEF IsDirectory
<1>3. IdsIn(files) \subseteq IdsIn(WriteAllLines(files, n, ids))
  BY DEF WriteAllLines, IdsIn
<1>. QED
  BY <1>1, <1>2, <1>3

(* Recording, whether it succeeds or not: the next number, or no file at   *)
(* all and a consumer that is dead.                                        *)
LEMMA RecordTakesNextNumber ==
  ASSUME MInv, NumberedInTurn, RecordSuccess \/ RecordFailure \/ RecordFails
  PROVE  NumberedInTurn' /\ Recorded \subseteq Recorded'
<1>1. PICK last \in Nat :
        /\ DOMAIN successFiles \cup DOMAIN failedFiles = 1..last
        /\ CountExistingBatchFiles = last
        /\ batchCounter = last
  BY DEF NumberedInTurn, MInv, TasksInRun, RecordSuccess, RecordFailure, RecordFails
<1>2. /\ last + 1 \in Nat /\ last + 1 \notin DOMAIN successFiles
      /\ last + 1 \notin DOMAIN failedFiles
      /\ IsDirectory(successFiles) /\ IsDirectory(failedFiles)
      /\ 1..last \cup {last + 1} = 1..last + 1
  <2>1. last + 1 \in Nat /\ last + 1 \notin 1..last /\ 1..last \cup {last + 1} = 1..last + 1
    OBVIOUS
  <2>2. IsDirectory(successFiles) /\ IsDirectory(failedFiles)
    BY DEF MInv, TypeOK
  <2>. QED
    BY <2>1, <2>2, <1>1
<1>3. /\ Cardinality(DOMAIN successFiles) \in Nat /\ Cardinality(DOMAIN failedFiles) \in Nat
      /\ Cardinality(DOMAIN successFiles) + Cardinality(DOMAIN failedFiles) = last
  BY <1>1, <1>2, FS_CardinalityType DEF IsDirectory, CountExistingBatchFiles
<1>4. CASE UNCHANGED <<successFiles, failedFiles>>
  <2>1. consumer' # "faulted" => phase # "down" /\ consumer # "faulted"
                                 /\ batchCounter' = batchCounter
    <3>1. RecordSuccess => batchCounter' = batchCounter
      <4>1. ASSUME RecordSuccess, Succeeded # {} PROVE FALSE
        <5>1. successFiles' = WriteAllLines(successFiles, last + 1, IdsToRecord)
          BY <4>1, <1>1 DEF RecordSuccess
        <5>2. last + 1 \in DOMAIN successFiles'
          BY <5>1 DEF WriteAllLines
        <5>. QED
          BY <5>2, <1>2, <1>4
      <4>. QED
        BY <4>1 DEF RecordSuccess
    <3>2. RecordFailure => batchCounter' = batchCounter
      <4>1. ASSUME RecordFailure, NotWritten # {} PROVE FALSE
        <5>1. failedFiles' = WriteAllLines(failedFiles, last + 1, IdsOf(NotWritten))
          BY <4>1, <1>1 DEF RecordFailure
        <5>2. last + 1 \in DOMAIN failedFiles'
          BY <5>1 DEF WriteAllLines
        <5>. QED
          BY <5>2, <1>2, <1>4
      <4>. QED
        BY <4>1 DEF RecordFailure
    <3>. QED
      BY <3>1, <3>2 DEF RecordSuccess, RecordFailure, RecordFails, MInv, TasksInRun
  <2>2. NumberedInTurn'
    BY <2>1, <1>4, NumbersStay DEF disk
  <2>. QED
    BY <2>2, <1>4 DEF Recorded
<1>5. ASSUME batchCounter' = last + 1, failedFiles' = failedFiles,
             NEW ids, successFiles' = WriteAllLines(successFiles, last + 1, ids)
      PROVE  NumberedInTurn' /\ Recorded \subseteq Recorded'
  <2>1. /\ DOMAIN successFiles' = DOMAIN successFiles \cup {last + 1}
        /\ Cardinality(DOMAIN successFiles') = Cardinality(DOMAIN successFiles) + 1
        /\ IdsIn(successFiles) \subseteq IdsIn(successFiles')
    BY <1>2, <1>5, NewFile
  <2>2. DOMAIN successFiles' \cup DOMAIN failedFiles' = 1..last + 1
    BY <2>1, <1>1, <1>2, <1>5
  <2>3. CountExistingBatchFiles' = last + 1
    BY <2>1, <1>3, <1>5 DEF CountExistingBatchFiles
  <2>4. Recorded \subseteq Recorded'
    BY <2>1 DEF Recorded, IdsIn
  <2>. QED
    BY <2>2, <2>3, <2>4, <1>2, <1>5 DEF NumberedInTurn
<1>6. ASSUME batchCounter' = last + 1, successFiles' = successFiles,
             NEW ids, failedFiles' = WriteAllLines(failedFiles, last + 1, ids)
      PROVE  NumberedInTurn' /\ Recorded \subseteq Recorded'
  <2>1. /\ DOMAIN failedFiles' = DOMAIN failedFiles \cup {last + 1}
        /\ Cardinality(DOMAIN failedFiles') = Cardinality(DOMAIN failedFiles) + 1
    BY <1>2, <1>6, NewFile
  <2>2. DOMAIN successFiles' \cup DOMAIN failedFiles' = 1..last + 1
    BY <2>1, <1>1, <1>2, <1>6
  <2>3. CountExistingBatchFiles' = last + 1
    BY <2>1, <1>3, <1>6 DEF CountExistingBatchFiles
  <2>4. Recorded' = Recorded
    BY <1>6 DEF Recorded
  <2>. QED
    BY <2>2, <2>3, <2>4, <1>2, <1>6 DEF NumberedInTurn
<1>7. \/ UNCHANGED <<successFiles, failedFiles>>
      \/ /\ batchCounter' = last + 1 /\ failedFiles' = failedFiles
         /\ \E ids : successFiles' = WriteAllLines(successFiles, last + 1, ids)
      \/ /\ batchCounter' = last + 1 /\ successFiles' = successFiles
         /\ \E ids : failedFiles' = WriteAllLines(failedFiles, last + 1, ids)
  BY <1>1 DEF RecordSuccess, RecordFailure, RecordFails
<1>. QED
  BY <1>4, <1>5, <1>6, <1>7

(* Every other step.                                                       *)
LEMMA OthersKeepNumbers ==
  ASSUME MInv, NumberedInTurn, FailuresStay, [Next]_vars,
         ~RecordSuccess, ~RecordFailure, ~RecordFails
  PROVE  NumberedInTurn' /\ Recorded' = Recorded
<1>1. CASE UNCHANGED vars
  BY <1>1, NumbersStay DEF vars, disk, process, tracker, Recorded
<1>2. CASE ProducerStep \/ WriteStep
  <2>1. UNCHANGED <<disk, process, tracker, consumer>>
    BY <1>2 DEF ProducerStep, ReadPage, EnqueueBatch, EndProducer, WriteStep, WaitForPermit,
                Upsert
  <2>. QED
    BY <2>1, NumbersStay DEF disk, process, tracker, Recorded
<1>3. CASE ConsumerStep
  <2>1. /\ UNCHANGED <<disk, process, tracker>>
        /\ consumer # "faulted" /\ consumer # "off"
    BY <1>3 DEF ConsumerStep, ConsumeBatch, EndBatch, ReportBatch, EndConsumer
  <2>. QED
    BY <2>1, NumbersStay DEF disk, process, tracker, Recorded
<1>4. CASE \E n \in DOMAIN failedFiles : ClearFailures(n)
  <2>1. PICK n \in DOMAIN failedFiles : ClearFailures(n)
    BY <1>4
  <2>2. n \notin DOMAIN failedFiles'
    BY <2>1 DEF ClearFailures
  <2>. QED
    BY <2>1, <2>2 DEF FailuresStay
<1>5. CASE \E e \in Endpoints, m \in Modes : Start(e, m)
  <2>1. UNCHANGED disk /\ batchCounter' = CountExistingBatchFiles
    BY <1>5 DEF Start
  <2>. QED
    BY <2>1 DEF NumberedInTurn, disk, CountExistingBatchFiles, Recorded
<1>6. CASE (\E e \in Endpoints : Validate(e)) \/ BeginCopy \/ EndRun \/ Kill
  <2>1. /\ UNCHANGED disk
        /\ phase' # "down" => phase # "down" /\ consumer # "faulted"
                              /\ batchCounter' = batchCounter
    BY <1>6 DEF Validate, BeginCopy, EndRun, Kill, MInv, TasksInRun, tracker
  <2>. QED
    BY <2>1, NumbersStay DEF disk, Recorded
<1>. QED
  BY <1>1, <1>2, <1>3, <1>4, <1>5, <1>6 DEF Next, RunStep, ConsumerStep

(* Progress is kept as long as no run clears failures, through any number  *)
(* of runs, kills and full disks: it is the deletion of failed files, and  *)
(* nothing else, that makes the count of the files smaller than the last   *)
(* number in use and a success file be overwritten                         *)
(* (ProgressTracker.cs:59-83, 106-117).                                    *)
THEOREM ProgressKeptUntilCleared ==
  Safe /\ [][FailuresStay]_vars => ProgressIsKept
<1>1. Init => NumberedInTurn
  <2>. SUFFICES ASSUME Init PROVE NumberedInTurn
    OBVIOUS
  <2>1. DOMAIN successFiles = {} /\ DOMAIN failedFiles = {} /\ phase = "down"
    BY DEF Init, NoFiles
  <2>2. CountExistingBatchFiles = 0
    BY <2>1, FS_EmptySet DEF CountExistingBatchFiles
  <2>. QED
    BY <2>1, <2>2 DEF NumberedInTurn
<1>2. FailuresStay \/ UNCHANGED vars => FailuresStay
  BY DEF vars, disk, FailuresStay
<1>3. MInv /\ NumberedInTurn /\ [Next]_vars /\ [FailuresStay]_vars
      => NumberedInTurn' /\ [Recorded \subseteq Recorded']_vars
  BY <1>2, RecordTakesNextNumber, OthersKeepNumbers
<1>. QED
  BY <1>1, <1>3, MigrationInvariant, PTL DEF Safe, ProgressIsKept
-----------------------------------------------------------------------------
(* A migration implements ResumableCopy.                                   *)

(* What the promise is about. *)
Seen == <<dest, Recorded, RecordedFailures, LiveTarget, LiveSkips, LiveFinished>>

(* A document whose write task exists is one the run has to copy.          *)
LEMMA BatchIsDue ==
  ASSUME MInv, AInv, NEW d \in Writer!InBatch
  PROVE  /\ d \in Docs /\ d \in Promise!Due
         /\ mode = "live" /\ target \in Endpoints /\ phase = "copying"
         /\ ~Finished
<1>1. d \in Docs /\ task[d] # "none"
  BY DEF Writer!InBatch
<1>2. mode = "live" /\ target \in Endpoints /\ phase = "copying"
  BY <1>1 DEF MInv, TasksInLiveRun
<1>3. d \in Transformable /\ IdOf[d] \notin completedIds
  BY DEF AInv, BatchesApart, Transformed, Skipped
<1>4. ~Finished
  BY DEF AInv, StagesAgree, Finished
<1>. QED
  BY <1>1, <1>2, <1>3, <1>4 DEF Promise!Due, LiveSkips

(* Between runs nothing is being copied.                                   *)
LEMMA NotCopying ==
  ASSUME MInv, phase # "copying"
  PROVE  ~LiveFinished /\ (phase = "down" => LiveTarget = "none" /\ LiveSkips = {})
BY DEF MInv, TasksInRun, LiveFinished, Finished, LiveTarget, LiveSkips

(* Reading and enqueueing are no business of the promise.                  *)
LEMMA ProducerIsUnseen ==
  ASSUME MInv, AInv, ProducerStep
  PROVE  UNCHANGED Seen
<1>1. /\ UNCHANGED <<dest, disk, mode, target, completedIds, consumer>>
      /\ producer \in {"reading", "writing"}
      /\ producer' \in {"reading", "writing"} \/ producer = "reading"
  BY DEF ProducerStep, ReadPage, EnqueueBatch, EndProducer, process, tracker
<1>2. Recorded' = Recorded /\ RecordedFailures' = RecordedFailures
  BY <1>1 DEF disk, Recorded, RecordedFailures, IdsIn
<1>3. ~Finished
  BY <1>1 DEF Finished
<1>4. ~Finished'
  BY <1>1 DEF Finished, AInv, StagesAgree, ChannelCompleted
<1>. QED
  BY <1>1, <1>2, <1>3, <1>4 DEF Seen, LiveTarget, LiveSkips, LiveFinished

(* An upsert copies its document, or nothing.                              *)
LEMMA UpsertCopies ==
  ASSUME MInv, AInv, NEW d \in Docs, NEW outcome \in Writer!Outcome, Upsert(d, outcome)
  PROVE  Promise!Copy(d) \/ UNCHANGED Seen
<1>1. d \in Writer!InBatch
  BY DEF Upsert, Writer!Release, Writer!InBatch
<1>2. /\ d \in Promise!Due /\ mode = "live" /\ target \in Endpoints /\ ~Finished
  BY <1>1, BatchIsDue
<1>3. /\ UNCHANGED <<Recorded, RecordedFailures, LiveTarget, LiveSkips, LiveFinished>>
  BY DEF Upsert, disk, process, tracker, source, Recorded, RecordedFailures, IdsIn,
         LiveTarget, LiveSkips, LiveFinished, Finished
<1>4. dest' = dest \/ dest' = [dest EXCEPT ![target] = @ \cup {d}]
  BY DEF Upsert, Applied, Writer!Outcome
<1>5. LiveTarget = target /\ target # "none" /\ ~LiveFinished
  BY <1>2, MigrationAssumption DEF LiveTarget, LiveFinished
<1>6. CASE dest' = dest
  BY <1>3, <1>6 DEF Seen
<1>7. CASE dest' = [dest EXCEPT ![target] = @ \cup {d}]
  BY <1>2, <1>3, <1>5, <1>7 DEF Promise!Copy, Promise!Copying
<1>. QED
  BY <1>4, <1>6, <1>7

(* What is recorded as written is in the destination, and what is recorded *)
(* as failed was due.                                                      *)
LEMMA RecordingIsHonest ==
  ASSUME MInv, AInv, RecordSuccess \/ RecordFailure \/ RecordFails
  PROVE  Promise!Record \/ Promise!Refuse
<1>1. /\ UNCHANGED <<dest, mode, target, completedIds, producer>>
      /\ consumer \in {"recording successes", "recording failures"}
      /\ consumer' \in {"recording failures", "reporting", "faulted"}
  BY DEF RecordSuccess, RecordFailure, RecordFails, process, source
<1>2. mode = "live" /\ target \in Endpoints
  <2>1. mode = "live" /\ phase = "copying"
    BY <1>1 DEF MInv, TasksInRun
  <2>. QED
    BY <2>1 DEF MInv, TasksInRun
<1>3. /\ UNCHANGED <<LiveTarget, LiveSkips, LiveFinished>>
      /\ Promise!Copying
  BY <1>1, <1>2, MigrationAssumption
     DEF LiveTarget, LiveSkips, LiveFinished, Finished, Promise!Copying
<1>4. IdsOf(Succeeded) \subseteq Promise!IdsOf(Promise!Due \cap dest[LiveTarget])
  <2>1. \A d \in Succeeded : d \in Promise!Due /\ d \in dest[target]
    BY BatchIsDue DEF Succeeded, Writer!InBatch, MInv, OkIsWritten
  <2>. QED
    BY <2>1, <1>2 DEF IdsOf, Promise!IdsOf, LiveTarget
<1>5. IdsOf(NotWritten) \subseteq Promise!IdsOf(Promise!Due)
  <2>1. \A d \in NotWritten : d \in Promise!Due
    BY BatchIsDue DEF NotWritten, Writer!InBatch
  <2>. QED
    BY <2>1 DEF IdsOf, Promise!IdsOf
<1>6. batchCounter + 1 \in Nat /\ IsDirectory(successFiles) /\ IsDirectory(failedFiles)
  <2>1. batchCounter \in Nat /\ IsDirectory(successFiles) /\ IsDirectory(failedFiles)
    BY DEF MInv, TypeOK
  <2>. QED
    BY <2>1
<1>7. ASSUME failedFiles' = failedFiles, Recorded' \subseteq Recorded \cup IdsOf(Succeeded)
      PROVE  Promise!Record
  <2>1. RecordedFailures' = RecordedFailures
    BY <1>7 DEF RecordedFailures
  <2>. QED
    BY <2>1, <1>1, <1>3, <1>4, <1>7 DEF Promise!Record
<1>8. ASSUME successFiles' = successFiles,
             RecordedFailures' \subseteq RecordedFailures \cup IdsOf(NotWritten)
      PROVE  Promise!Refuse
  <2>1. Recorded' = Recorded
    BY <1>8 DEF Recorded
  <2>. QED
    BY <2>1, <1>1, <1>3, <1>5, <1>8 DEF Promise!Refuse
<1>9. \/ /\ failedFiles' = failedFiles
         /\ \/ successFiles' = successFiles
            \/ \E part \in SUBSET IdsOf(Succeeded) :
                  successFiles' = WriteAllLines(successFiles, batchCounter + 1, part)
      \/ /\ successFiles' = successFiles
         /\ \/ failedFiles' = failedFiles
            \/ \E part \in SUBSET IdsOf(NotWritten) :
                  failedFiles' = WriteAllLines(failedFiles, batchCounter + 1, part)
  BY DEF RecordSuccess, RecordFailure, RecordFails, IdsToRecord
<1>10. ASSUME NEW part \in SUBSET IdsOf(Succeeded), failedFiles' = failedFiles,
              successFiles' = WriteAllLines(successFiles, batchCounter + 1, part)
       PROVE  Promise!Record
  <2>1. IdsIn(successFiles') \subseteq IdsIn(successFiles) \cup part
    BY <1>6, <1>10, WrittenFile
  <2>. QED
    BY <2>1, <1>7, <1>10 DEF Recorded, IdsIn
<1>11. ASSUME NEW part \in SUBSET IdsOf(NotWritten), successFiles' = successFiles,
              failedFiles' = WriteAllLines(failedFiles, batchCounter + 1, part)
       PROVE  Promise!Refuse
  <2>1. IdsIn(failedFiles') \subseteq IdsIn(failedFiles) \cup part
    BY <1>6, <1>11, WrittenFile
  <2>. QED
    BY <2>1, <1>8, <1>11 DEF RecordedFailures, IdsIn
<1>12. CASE UNCHANGED <<successFiles, failedFiles>>
  BY <1>7, <1>12 DEF Recorded
<1>. QED
  BY <1>9, <1>10, <1>11, <1>12

(* The last step of the consumer finishes a live run whose producer has    *)
(* come to its end.                                                        *)
LEMMA EndFinishes ==
  ASSUME MInv, MInv', AInv, AInv', NothingTriedIsForgotten', EndConsumer
  PROVE  Promise!Finish \/ UNCHANGED Seen
<1>1. /\ UNCHANGED <<dest, successFiles, failedFiles, mode, target, completedIds, producer>>
      /\ consumer = "reading" /\ consumer' = "done"
  BY DEF EndConsumer, disk, process, tracker, source
<1>2. /\ UNCHANGED <<dest, Recorded, RecordedFailures, LiveTarget, LiveSkips>>
      /\ ~LiveFinished
  BY <1>1 DEF Recorded, RecordedFailures, IdsIn, LiveTarget, LiveSkips, LiveFinished, Finished
<1>3. CASE ~LiveFinished'
  BY <1>2, <1>3 DEF Seen, LiveFinished
<1>4. CASE LiveFinished'
  <2>1. mode = "live" /\ Finished' /\ mode' = "live"
    BY <1>1, <1>4 DEF LiveFinished
  <2>2. phase' = "copying" /\ target' \in Endpoints
    BY <2>1 DEF MInv, TasksInRun, Finished
  <2>3. LiveTarget = target /\ target # "none"
    BY <2>1, <2>2, <1>1, MigrationAssumption DEF LiveTarget
  <2>4. \A d \in Transformable : IdOf[d] \notin completedIds
           => d \in dest[target] \/ IdOf[d] \in RecordedFailures
    BY <2>1, <1>1, <1>2 DEF NothingTriedIsForgotten
  <2>5. \A d \in Promise!Due : d \in dest[LiveTarget] \/ IdOf[d] \in RecordedFailures
    BY <2>1, <2>3, <2>4 DEF Promise!Due, LiveSkips
  <2>6. LiveFinished' = TRUE
    BY <1>4 DEF LiveFinished
  <2>. QED
    BY <1>2, <2>3, <2>5, <2>6 DEF Promise!Finish, Promise!Copying
<1>. QED
  BY <1>3, <1>4

(* Starting, clearing failures, ending and dying.                          *)
LEMMA RunStepIsPromised ==
  ASSUME MInv, MInv', AInv, RunStep
  PROVE  Promise!Next \/ UNCHANGED Seen
<1>1. CASE \E e \in Endpoints : Validate(e)
  BY <1>1 DEF Validate, disk, tracker, source, Seen, Recorded, RecordedFailures, IdsIn,
              LiveTarget, LiveSkips, LiveFinished, Finished
<1>2. ASSUME NEW e \in Endpoints, NEW m \in Modes, Start(e, m)
      PROVE  Promise!Begin(e) \/ UNCHANGED Seen
  <2>1. /\ phase = "down" /\ phase' = "preparing" /\ mode' = m /\ target' = e
        /\ completedIds' = Recorded /\ m \in {"live", "dry"}
        /\ UNCHANGED <<dest, successFiles, failedFiles>>
    BY <1>2, MigrationAssumption DEF Start, disk
  <2>2. UNCHANGED <<dest, Recorded, RecordedFailures>>
    BY <2>1 DEF Recorded, RecordedFailures, IdsIn
  <2>3. ~LiveFinished /\ LiveTarget = "none" /\ LiveSkips = {}
    BY <2>1, NotCopying
  <2>4. ~LiveFinished'
    BY <2>1 DEF MInv, TasksInRun, LiveFinished, Finished
  <2>5. UNCHANGED LiveFinished
    BY <2>3, <2>4 DEF LiveFinished
  <2>6. CASE m = "live"
    <3>1. LiveTarget' = e /\ LiveSkips' = Recorded
      BY <2>1, <2>6 DEF LiveTarget, LiveSkips
    <3>. QED
      BY <3>1, <2>2, <2>3, <2>5 DEF Promise!Begin
  <2>7. CASE m = "dry"
    <3>1. LiveTarget' = "none" /\ LiveSkips' = {}
      BY <2>1, <2>7 DEF LiveTarget, LiveSkips
    <3>. QED
      BY <3>1, <2>2, <2>3, <2>5 DEF Seen
  <2>. QED
    BY <2>1, <2>6, <2>7
<1>3. ASSUME NEW n \in DOMAIN failedFiles, ClearFailures(n)
      PROVE  Promise!Clear
  <2>1. /\ UNCHANGED <<dest, successFiles, mode, target, completedIds, producer, consumer>>
        /\ failedFiles' = [k \in DOMAIN failedFiles \ {n} |-> failedFiles[k]]
        /\ phase # "copying"
    BY <1>3 DEF ClearFailures, process, tracker, source
  <2>2. UNCHANGED <<dest, Recorded, LiveTarget, LiveSkips, LiveFinished>>
    BY <2>1 DEF Recorded, IdsIn, LiveTarget, LiveSkips, LiveFinished, Finished
  <2>3. RecordedFailures' \subseteq RecordedFailures
    BY <2>1 DEF RecordedFailures, IdsIn
  <2>. QED
    BY <2>1, <2>2, <2>3, NotCopying DEF Promise!Clear
<1>4. CASE BeginCopy
  <2>1. /\ UNCHANGED <<dest, successFiles, failedFiles, mode, target, completedIds>>
        /\ phase # "copying" /\ consumer' = "reading"
    BY <1>4 DEF BeginCopy, disk, tracker
  <2>2. ~LiveFinished /\ ~LiveFinished'
    BY <2>1, NotCopying DEF LiveFinished, Finished
  <2>. QED
    BY <2>1, <2>2 DEF Seen, Recorded, RecordedFailures, IdsIn, LiveTarget, LiveSkips,
                      LiveFinished
<1>5. CASE EndRun \/ Kill
  <2>1. UNCHANGED <<dest, successFiles, failedFiles>> /\ mode' = "none"
    BY <1>5 DEF EndRun, Kill, LoseMemory, disk
  <2>2. LiveTarget' = "none" /\ LiveSkips' = {} /\ LiveFinished' = FALSE
    BY <2>1 DEF LiveTarget, LiveSkips, LiveFinished
  <2>3. UNCHANGED <<dest, Recorded, RecordedFailures>>
    BY <2>1 DEF Recorded, RecordedFailures, IdsIn
  <2>. QED
    BY <2>2, <2>3 DEF Promise!End, Promise!Next
<1>. QED
  BY <1>1, <1>2, <1>3, <1>4, <1>5 DEF RunStep, Promise!Next

(* Every step of a migration is a step of the promise or none of its       *)
(* business.                                                               *)
LEMMA StepIsPromised ==
  ASSUME MInv, MInv', AInv, AInv', NothingTriedIsForgotten', [Next]_vars
  PROVE  Promise!Next \/ UNCHANGED Seen
<1>1. CASE UNCHANGED vars
  BY <1>1 DEF vars, disk, process, tracker, source, Seen, Recorded, RecordedFailures, IdsIn,
              LiveTarget, LiveSkips, LiveFinished, Finished
<1>2. CASE ProducerStep
  BY <1>2, ProducerIsUnseen
<1>3. ASSUME NEW d \in Docs, WaitForPermit(d) PROVE UNCHANGED Seen
  BY <1>3 DEF WaitForPermit, disk, process, tracker, source, Seen, Recorded,
              RecordedFailures, IdsIn, LiveTarget, LiveSkips, LiveFinished, Finished
<1>4. ASSUME NEW d \in Docs, NEW outcome \in Writer!Outcome, Upsert(d, outcome)
      PROVE  Promise!Next \/ UNCHANGED Seen
  BY <1>4, UpsertCopies DEF Promise!Next
<1>5. CASE ConsumeBatch \/ EndBatch \/ ReportBatch
  <2>1. /\ UNCHANGED <<dest, successFiles, failedFiles, mode, target, completedIds>>
        /\ consumer # "done" /\ consumer' # "done"
    BY <1>5 DEF ConsumeBatch, EndBatch, ReportBatch, disk, process, tracker
  <2>. QED
    BY <2>1 DEF Seen, Recorded, RecordedFailures, IdsIn, LiveTarget, LiveSkips, LiveFinished,
                Finished
<1>6. CASE RecordSuccess \/ RecordFailure \/ RecordFails
  BY <1>6, RecordingIsHonest DEF Promise!Next
<1>7. CASE EndConsumer
  BY <1>7, EndFinishes DEF Promise!Next
<1>8. CASE RunStep
  BY <1>8, RunStepIsPromised
<1>. QED
  BY <1>1, <1>2, <1>3, <1>4, <1>5, <1>6, <1>7, <1>8 DEF Next, WriteStep, ConsumerStep

(* Runs after runs implement ResumableCopy: initial states map to initial  *)
(* states, and every step of producer, consumer, write tasks and process   *)
(* maps to one step of the promise or to none (MigrationRunner.cs:139-283, *)
(* ProgressTracker.cs).                                                    *)
THEOREM MigrationIsResumableCopy == Safe => ImplementsResumableCopy
<1>1. Init => Promise!Init
  BY DEF Init, IdleMemory, NoFiles, Promise!Init, Recorded, RecordedFailures, IdsIn,
         LiveTarget, LiveSkips, LiveFinished
<1>2. MInv /\ MInv' /\ AInv /\ AInv' /\ NothingTriedIsForgotten' /\ [Next]_vars
      => [Promise!Next]_(Promise!vars)
  BY StepIsPromised DEF Seen, Promise!vars
<1>. QED
  BY <1>1, <1>2, AccountsAgree, TriedIsTraced, PTL
     DEF Safe, ImplementsResumableCopy, Promise!Spec
=============================================================================
