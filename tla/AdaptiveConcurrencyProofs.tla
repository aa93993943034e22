--------------------- MODULE AdaptiveConcurrencyProofs ---------------------
(***************************************************************************)
(* Theorems about AdaptiveConcurrency, for every set of items, all limits  *)
(* and every initial concurrency.                                          *)
(*                                                                         *)
(* The invariant that carries them is IInv: the types, the limits, the     *)
(* conservation of permits and the absence of orphans need each other.  A  *)
(* release conserves permits because its task's permit came from the       *)
(* current semaphore, which is so because no task is orphaned; and none    *)
(* is because a batch is reported only when no task is outstanding.        *)
(*                                                                         *)
(* StreakInv ties the count of clean batches to the reports that the       *)
(* observer of MCAdaptiveConcurrency has seen: a ramp-up follows as many   *)
(* clean batches in a row as the controller was told to wait for.          *)
(***************************************************************************)
EXTENDS MCAdaptiveConcurrency, FiniteSetTheorems, SequenceTheorems, TLAPS

IInv ==
    /\ TypeOK
    /\ ConcurrencyWithinLimits
    /\ PermitsConserved
    /\ NoOrphanedTask

(* The clamp of the constructor and the two moves of the controller stay   *)
(* within the limits.                                                      *)
LEMMA ClampedWithinLimits == Clamped \in Nat /\ Floor <= Clamped /\ Clamped <= Ceiling
  BY ControllerAssumption DEF Clamped, Larger, Smaller

(* A ramp-down stays within the limits.                                    *)
LEMMA RampedDownWithinLimits ==
  ASSUME currentConcurrency \in Nat, ConcurrencyWithinLimits
  PROVE  RampedDown \in Nat /\ Floor <= RampedDown /\ RampedDown <= Ceiling
  BY ControllerAssumption DEF ConcurrencyWithinLimits, RampedDown, Larger

(* So does a ramp-up.                                                      *)
LEMMA RampedUpWithinLimits ==
  ASSUME currentConcurrency \in Nat, ConcurrencyWithinLimits
  PROVE  RampedUp \in Nat /\ Floor <= RampedUp /\ RampedUp <= Ceiling
  BY ControllerAssumption DEF ConcurrencyWithinLimits, RampedUp, Smaller

(* How the number of tasks that hold a permit changes. *)
LEMMA WritingIsFinite == IsFiniteSet(Writing) /\ Cardinality(Writing) \in Nat
<1>1. Writing \subseteq Items
  BY DEF Writing
<1>2. IsFiniteSet(Writing)
  BY <1>1, FS_Subset, ControllerAssumption
<1>. QED
  BY <1>2, FS_CardinalityType

(* An acquired permit makes one more writing task.                         *)
LEMMA OneMoreWriting ==
  ASSUME TypeOK, NEW i \in Items, task[i] # "writing",
         task' = [task EXCEPT ![i] = "writing"]
  PROVE  Cardinality(Writing') = Cardinality(Writing) + 1
<1>1. Writing' = Writing \cup {i} /\ i \notin Writing
  BY DEF TypeOK, Writing
<1>. QED
  BY <1>1, WritingIsFinite, FS_AddElement

(* A finished upsert makes one less.                                       *)
LEMMA OneLessWriting ==
  ASSUME TypeOK, NEW i \in Items, task[i] = "writing",
         NEW s \in TaskState, s # "writing",
         task' = [task EXCEPT ![i] = s]
  PROVE  /\ Cardinality(Writing') = Cardinality(Writing) - 1
         /\ Cardinality(Writing) >= 1
<1>1. Writing' = Writing \ {i} /\ i \in Writing
  BY DEF TypeOK, Writing
<1>2. Cardinality(Writing') = Cardinality(Writing) - 1
  BY <1>1, WritingIsFinite, FS_RemoveElement
<1>3. Cardinality(Writing) # 0
  BY <1>1, WritingIsFinite, FS_EmptySet
<1>. QED
  BY <1>2, <1>3, WritingIsFinite

(* A reset controller has no writing task.                                 *)
LEMMA NoneWriting ==
  ASSUME task' = [i \in Items |-> "none"]
  PROVE  Cardinality(Writing') = 0
<1>1. Writing' = {}
  BY DEF Writing
<1>. QED
  BY <1>1, FS_EmptySet

(* A new controller satisfies the invariant.                               *)
LEMMA InitEstablishesIInv == Init => IInv
<1>. SUFFICES ASSUME Init PROVE IInv
  OBVIOUS
<1>1. Writing = {}
  BY DEF Init, Writing
<1>2. Cardinality(Writing) = 0
  BY <1>1, FS_EmptySet
<1>. QED
  BY <1>2, ClampedWithinLimits, ControllerAssumption
     DEF Init, IInv, TypeOK, TaskState, ConcurrencyWithinLimits, PermitsConserved,
         NoOrphanedTask

(* Every step of the controller and of its tasks preserves it.             *)
LEMMA NextPreservesIInv == IInv /\ [Next]_vars => IInv'
<1>. SUFFICES ASSUME IInv, [Next]_vars PROVE IInv'
  OBVIOUS
<1>. USE DEF IInv
<1>1. CASE NewController
  <2>1. Cardinality(Writing') = 0
    BY <1>1, NoneWriting DEF NewController
  <2>. QED
    BY <1>1, <2>1, ClampedWithinLimits, ControllerAssumption
       DEF NewController, TypeOK, TaskState, ConcurrencyWithinLimits, PermitsConserved,
           NoOrphanedTask
<1>2. ASSUME NEW batch \in SUBSET Items, StartBatch(batch)
      PROVE  IInv'
  <2>1. Writing = {} /\ Writing' = {}
    BY <1>2 DEF StartBatch, StartTasks, Writing, InBatch
  <2>. QED
    BY <1>2, <2>1 DEF StartBatch, StartTasks, controllerVars, TypeOK, TaskState,
       ConcurrencyWithinLimits, PermitsConserved, NoOrphanedTask
<1>3. ASSUME NEW i \in Items, Acquire(i)
      PROVE  IInv'
  <2>1. Cardinality(Writing') = Cardinality(Writing) + 1
    BY <1>3, OneMoreWriting DEF Acquire
  <2>2. TypeOK'
    BY <1>3 DEF Acquire, TypeOK, TaskState
  <2>. QED
    BY <1>3, <2>1, <2>2, WritingIsFinite
       DEF Acquire, TypeOK, ConcurrencyWithinLimits, PermitsConserved, NoOrphanedTask
<1>4. ASSUME NEW i \in Items, NEW outcome \in Outcome, Release(i, outcome)
      PROVE  IInv'
  <2>1. /\ Cardinality(Writing') = Cardinality(Writing) - 1
        /\ Cardinality(Writing) >= 1
    BY <1>4, OneLessWriting DEF Release, Outcome, TaskState
  <2>2. permits' = permits + 1
    BY <1>4, <2>1, WritingIsFinite DEF Release, TypeOK, PermitsConserved, Smaller
  <2>3. TypeOK'
    BY <1>4, <2>2 DEF Release, TypeOK, TaskState
  <2>. QED
    BY <1>4, <2>1, <2>2, <2>3, WritingIsFinite
       DEF Release, TypeOK, ConcurrencyWithinLimits, PermitsConserved, NoOrphanedTask
<1>5. CASE ReportBatchResult
  <2>1. Cardinality(Writing) = 0
    <3>1. Writing = {}
      BY <1>5 DEF ReportBatchResult, AdaptToResult, BatchWritten, Outstanding, Writing
    <3>. QED
      BY <3>1, FS_EmptySet
  <2>2. Cardinality(Writing') = 0
    BY <1>5, NoneWriting DEF ReportBatchResult, AdaptToResult
  <2>3. permits = currentConcurrency
    BY <2>1 DEF PermitsConserved, TypeOK
  <2>4. orphans' = {}
    BY <1>5 DEF ReportBatchResult, AdaptToResult, ReportThrottled, ReportClean, AdjustSemaphore,
       BatchWritten, NoOrphanedTask
  <2>5. task' \in [Items -> TaskState]
    BY <1>5 DEF ReportBatchResult, AdaptToResult, TaskState
  <2>6. CASE Throttled # {}
    BY <1>5, <2>2, <2>3, <2>4, <2>5, <2>6, RampedDownWithinLimits, ControllerAssumption
       DEF ReportBatchResult, AdaptToResult, ReportThrottled, AdjustSemaphore, TypeOK,
           ConcurrencyWithinLimits, PermitsConserved, NoOrphanedTask
  <2>7. CASE Throttled = {}
    <3>1. CountClean \in 0..RampUpAfter
      BY ControllerAssumption DEF CountClean, Smaller, TypeOK
    <3>. QED
      BY <1>5, <2>2, <2>3, <2>4, <2>5, <2>7, <3>1, RampedUpWithinLimits, ControllerAssumption
         DEF ReportBatchResult, AdaptToResult, ReportClean, AdjustSemaphore, TypeOK,
             ConcurrencyWithinLimits, PermitsConserved, NoOrphanedTask
  <2>. QED
    BY <2>6, <2>7
<1>6. CASE UNCHANGED vars
  BY <1>6 DEF vars, controllerVars, TypeOK, ConcurrencyWithinLimits, PermitsConserved,
     NoOrphanedTask, Writing
<1>. QED
  BY <1>1, <1>2, <1>3, <1>4, <1>5, <1>6 DEF Next

(* The inductive invariant holds of the controller and its write tasks.    *)
THEOREM ControllerInvariant == Safe => []IInv
  BY InitEstablishesIInv, NextPreservesIInv, PTL DEF Safe

(* Every variable keeps its type. *)
THEOREM ControllerTypeOK == Safe => []TypeOK
  BY ControllerInvariant, PTL DEF IInv

(* The concurrency is never below the floor nor above the ceiling. *)
THEOREM ConcurrencyIsClamped == Safe => []ConcurrencyWithinLimits
  BY ControllerInvariant, PTL DEF IInv

(* Permits are neither lost nor made, so that at most currentConcurrency   *)
(* upserts are in flight.                                                  *)
THEOREM PermitsAreConserved == Safe => []PermitsConserved
  BY ControllerInvariant, PTL DEF IInv

(* Replacing the semaphore strands no task. *)
THEOREM NoTaskIsOrphaned == Safe => []NoOrphanedTask
  BY ControllerInvariant, PTL DEF IInv
-----------------------------------------------------------------------------
(* The count of clean batches is true: the observer saw at least as many,  *)
(* and the last of them were clean and ran at the current concurrency.     *)
Report == [level: Nat, clean: BOOLEAN]
CleanReport == [level |-> currentConcurrency, clean |-> TRUE]

StreakInv ==
    /\ recent \in Seq(Report)
    /\ Len(recent) <= RampUpAfter
    /\ consecutiveCleanBatches <= Len(recent)
    /\ \A k \in 1..consecutiveCleanBatches : recent[Len(recent) + 1 - k] = CleanReport

(* What the observer remembers after another report: that report last, and *)
(* before it what it remembered, without the oldest if there are too many. *)
LEMMA ReportIsRemembered ==
  ASSUME NEW s \in Seq(Report), NEW report \in Report, Len(s) <= RampUpAfter
  PROVE  LET t == LastBatches(Append(s, report))
         IN  /\ t \in Seq(Report)
             /\ Len(t) = IF Len(s) = RampUpAfter THEN RampUpAfter ELSE Len(s) + 1
             /\ t[Len(t)] = report
             /\ \A k \in 1..(Len(t) - 1) : t[Len(t) - k] = s[Len(s) + 1 - k]
<1>. DEFINE longer == Append(s, report)
            t == LastBatches(longer)
<1>1. /\ Len(s) \in Nat /\ RampUpAfter \in Nat \ {0}
      /\ longer \in Seq(Report) /\ longer # <<>> /\ Len(longer) = Len(s) + 1
      /\ \A i \in 1..Len(s) : longer[i] = s[i]
      /\ longer[Len(s) + 1] = report
  BY AppendProperties, ControllerAssumption
<1>2. CASE Len(s) = RampUpAfter
  <2>1. t = Tail(longer)
    BY <1>1, <1>2 DEF LastBatches
  <2>2. /\ t \in Seq(Report) /\ Len(t) = Len(s)
        /\ \A i \in 1..Len(t) : t[i] = longer[i + 1]
    BY <1>1, <2>1, HeadTailProperties
  <2>. HIDE DEF t
  <2>3. t[Len(t)] = report
    BY <1>1, <1>2, <2>2
  <2>4. ASSUME NEW k \in 1..(Len(t) - 1)
        PROVE  t[Len(t) - k] = s[Len(s) + 1 - k]
    <3>1. /\ Len(t) - k \in 1..Len(t) /\ (Len(t) - k) + 1 = Len(s) + 1 - k
          /\ Len(s) + 1 - k \in 1..Len(s)
      BY <1>1, <2>2
    <3>. QED
      BY <1>1, <2>2, <3>1
  <2>. QED
    BY <1>2, <2>2, <2>3, <2>4 DEF t
<1>3. CASE Len(s) # RampUpAfter
  <2>1. t = longer
    BY <1>1, <1>3 DEF LastBatches
  <2>. HIDE DEF t
  <2>2. ASSUME NEW k \in 1..(Len(t) - 1)
        PROVE  t[Len(t) - k] = s[Len(s) + 1 - k]
    <3>1. Len(t) - k = Len(s) + 1 - k /\ Len(s) + 1 - k \in 1..Len(s)
      BY <1>1, <2>1
    <3>. QED
      BY <1>1, <2>1, <3>1
  <2>. QED
    BY <1>1, <1>3, <2>1, <2>2 DEF t
<1>. QED
  BY <1>2, <1>3

(* A clean batch lengthens the streak by one.                              *)
LEMMA CleanBatchLengthensStreak ==
  ASSUME TypeOK, StreakInv, Throttled = {},
         recent' = LastBatches(Append(recent, BatchReport))
  PROVE  /\ recent' \in Seq(Report) /\ Len(recent') <= RampUpAfter
         /\ CountClean \in 1..Len(recent')
         /\ \A k \in 1..CountClean : recent'[Len(recent') + 1 - k] = CleanReport
<1>1. /\ BatchReport \in Report /\ BatchReport = CleanReport
      /\ recent \in Seq(Report) /\ Len(recent) <= RampUpAfter
  BY DEF BatchReport, Report, CleanReport, TypeOK, StreakInv
<1>2. /\ recent' \in Seq(Report)
      /\ Len(recent') = IF Len(recent) = RampUpAfter THEN RampUpAfter ELSE Len(recent) + 1
      /\ recent'[Len(recent')] = CleanReport
      /\ \A k \in 1..(Len(recent') - 1) :
            recent'[Len(recent') - k] = recent[Len(recent) + 1 - k]
  <2>. DEFINE t == LastBatches(Append(recent, BatchReport))
  <2>1. /\ t \in Seq(Report)
        /\ Len(t) = IF Len(recent) = RampUpAfter THEN RampUpAfter ELSE Len(recent) + 1
        /\ t[Len(t)] = BatchReport
        /\ \A k \in 1..(Len(t) - 1) : t[Len(t) - k] = recent[Len(recent) + 1 - k]
    BY <1>1, ReportIsRemembered
  <2>. HIDE DEF t
  <2>2. recent' = t
    BY DEF t
  <2>. QED
    BY <1>1, <2>1, <2>2
<1>3. /\ Len(recent) \in Nat /\ RampUpAfter \in Nat \ {0}
      /\ consecutiveCleanBatches \in 0..RampUpAfter /\ consecutiveCleanBatches <= Len(recent)
  BY <1>1, ControllerAssumption DEF TypeOK, StreakInv
<1>4. /\ Len(recent') <= RampUpAfter
      /\ CountClean \in 1..Len(recent') /\ CountClean <= consecutiveCleanBatches + 1
  BY <1>1, <1>2, <1>3 DEF CountClean, Smaller
<1>5. ASSUME NEW k \in 1..CountClean
      PROVE  recent'[Len(recent') + 1 - k] = CleanReport
  <2>1. CASE k = 1
    BY <1>2, <1>4, <2>1
  <2>2. CASE k # 1
    <3>1. /\ k - 1 \in 1..(Len(recent') - 1) /\ k - 1 \in 1..consecutiveCleanBatches
          /\ Len(recent') + 1 - k = Len(recent') - (k - 1)
      BY <1>3, <1>4, <1>2, <2>2
    <3>2. recent'[Len(recent') - (k - 1)] = recent[Len(recent) + 1 - (k - 1)]
      BY <1>2, <3>1
    <3>3. recent[Len(recent) + 1 - (k - 1)] = CleanReport
      BY <3>1 DEF StreakInv
    <3>. QED
      BY <3>1, <3>2, <3>3
  <2>. QED
    BY <2>1, <2>2
<1>. QED
  BY <1>2, <1>4, <1>5

(* Every observed step keeps the count of the streak true.                 *)
LEMMA NextPreservesStreak ==
  ASSUME TypeOK, TypeOK', StreakInv, [ObservedNext]_<<vars, recent>>
  PROVE  StreakInv'
<1>1. CASE UNCHANGED <<recent, currentConcurrency, consecutiveCleanBatches>>
  BY <1>1 DEF StreakInv, CleanReport
<1>2. CASE WriteStep /\ UNCHANGED recent
  BY <1>1, <1>2 DEF WriteStep, StartBatch, StartTasks, Acquire, Release, controllerVars
<1>3. CASE NewController /\ recent' = <<>>
  BY <1>3, ControllerAssumption DEF NewController, StreakInv
<1>4. CASE ReportBatchResult /\ recent' = LastBatches(Append(recent, BatchReport))
  <2>1. CASE Throttled # {}
    <3>1. BatchReport \in Report /\ recent \in Seq(Report) /\ Len(recent) <= RampUpAfter
      BY DEF BatchReport, Report, TypeOK, StreakInv
    <3>2. /\ recent' \in Seq(Report)
          /\ Len(recent') = IF Len(recent) = RampUpAfter THEN RampUpAfter ELSE Len(recent) + 1
      BY <1>4, <3>1, ReportIsRemembered
    <3>3. consecutiveCleanBatches' = 0
      BY <1>4, <2>1 DEF ReportBatchResult, AdaptToResult, ReportThrottled
    <3>4. Len(recent') <= RampUpAfter /\ 0 <= Len(recent')
      BY <3>1, <3>2, ControllerAssumption
    <3>. QED
      BY <3>2, <3>3, <3>4 DEF StreakInv
  <2>2. CASE Throttled = {}
    <3>1. \/ consecutiveCleanBatches' = 0
          \/ consecutiveCleanBatches' = CountClean /\ UNCHANGED currentConcurrency
      BY <1>4, <2>2 DEF ReportBatchResult, AdaptToResult, ReportClean
    <3>2. /\ recent' \in Seq(Report) /\ Len(recent') <= RampUpAfter
          /\ CountClean \in 1..Len(recent')
          /\ \A k \in 1..CountClean : recent'[Len(recent') + 1 - k] = CleanReport
      BY <1>4, <2>2, CleanBatchLengthensStreak
    <3>3. CASE consecutiveCleanBatches' = 0
      BY <3>2, <3>3 DEF StreakInv
    <3>4. CASE consecutiveCleanBatches' = CountClean /\ UNCHANGED currentConcurrency
      <4>1. CleanReport' = CleanReport
        BY <3>4 DEF CleanReport
      <4>2. consecutiveCleanBatches' \in 1..Len(recent') /\ Len(recent') \in Nat
        BY <3>2, <3>4
      <4>3. consecutiveCleanBatches' <= Len(recent')
        BY <4>2
      <4>. QED
        BY <3>2, <3>4, <4>1, <4>3 DEF StreakInv
    <3>. QED
      BY <3>1, <3>3, <3>4
  <2>. QED
    BY <2>1, <2>2
<1>5. CASE UNCHANGED <<vars, recent>>
  BY <1>1, <1>5 DEF vars, controllerVars
<1>. QED
  BY <1>2, <1>3, <1>4, <1>5 DEF ObservedNext

(* The concurrency is raised only by the last of RampUpAfter clean batches *)
(* in a row, all run at the concurrency that is raised, or by a new        *)
(* controller.                                                             *)
THEOREM RampUpsNeedAStreak == ObservedSpec => RampUpNeedsCleanStreak
<1>. DEFINE RampUpStepOK ==
       /\ currentConcurrency' > currentConcurrency
       /\ recent' # <<>>
       => /\ Len(recent') = RampUpAfter
          /\ \A k \in 1..RampUpAfter :
                recent'[k] = [level |-> currentConcurrency, clean |-> TRUE]
<1>1. ObservedInit => IInv /\ StreakInv
  <2>1. ObservedInit => StreakInv
    BY ControllerAssumption DEF ObservedInit, Init, StreakInv
  <2>. QED
    BY <2>1, InitEstablishesIInv DEF ObservedInit
<1>2. [ObservedNext]_<<vars, recent>> => [Next]_vars
  BY DEF ObservedNext, WriteStep, Next
<1>3. IInv /\ StreakInv /\ [ObservedNext]_<<vars, recent>> => IInv' /\ StreakInv'
  BY <1>2, NextPreservesIInv, NextPreservesStreak DEF IInv
<1>4. IInv /\ StreakInv /\ [ObservedNext]_<<vars, recent>> => [RampUpStepOK]_<<vars, recent>>
  <2>. SUFFICES ASSUME IInv, StreakInv, ObservedNext,
                       currentConcurrency' > currentConcurrency, recent' # <<>>
                PROVE  /\ Len(recent') = RampUpAfter
                       /\ \A k \in 1..RampUpAfter : recent'[k] = CleanReport
    BY DEF CleanReport
  <2>1. ReportBatchResult /\ recent' = LastBatches(Append(recent, BatchReport))
    BY DEF ObservedNext, WriteStep, StartBatch, StartTasks, Acquire, Release, controllerVars, IInv, TypeOK
  <2>2. Throttled = {} /\ CountClean >= RampUpAfter
    BY <2>1, ControllerAssumption
       DEF ReportBatchResult, AdaptToResult, ReportThrottled, ReportClean, AdjustSemaphore, RampedDown, Larger,
           IInv, TypeOK, ConcurrencyWithinLimits
  <2>3. /\ recent' \in Seq(Report) /\ Len(recent') <= RampUpAfter
        /\ CountClean \in 1..Len(recent')
        /\ \A k \in 1..CountClean : recent'[Len(recent') + 1 - k] = CleanReport
    BY <2>1, <2>2, CleanBatchLengthensStreak DEF IInv
  <2>4. /\ Len(recent') \in Nat /\ RampUpAfter \in Nat
        /\ Len(recent') = RampUpAfter /\ CountClean = RampUpAfter
    BY <2>2, <2>3, ControllerAssumption
  <2>5. ASSUME NEW k \in 1..RampUpAfter
        PROVE  recent'[k] = CleanReport
    <3>1. RampUpAfter + 1 - k \in 1..RampUpAfter /\ RampUpAfter + 1 - (RampUpAfter + 1 - k) = k
      BY <2>4
    <3>. QED
      BY <2>3, <2>4, <3>1
  <2>. QED
    BY <2>4, <2>5
<1>. QED
  BY <1>1, <1>3, <1>4, PTL DEF ObservedSpec, RampUpNeedsCleanStreak
=============================================================================
