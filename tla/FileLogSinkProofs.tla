------------------------- MODULE FileLogSinkProofs -------------------------
(***************************************************************************)
(* Theorems about FileLogSink, for any events and any capacity of the      *)
(* queue: unless the join of Dispose times out, Dispose flushes and the    *)
(* process survives, even if the disk fails.                               *)
(*                                                                         *)
(* The invariant IInv says why.  Without a timeout the worker ends for one *)
(* reason only, that the queue is completed and empty, because the token   *)
(* is cancelled after the join, and the join waits for the worker's end.   *)
(*                                                                         *)
(* That the file keeps the order of the recording needs no such premise:   *)
(* at every moment the file, the worker's hand and the queue are, one      *)
(* after the other, what the queue took, in that order, without the events *)
(* whose write failed (InOrder).                                           *)
(***************************************************************************)
EXTENDS FileLogSink, FiniteSetTheorems, SequenceTheorems, TLAPS

WorkerEndsLast ==
    /\ disposer \in {"joined", "cancelled", "returned"} /\ ~timedOut => worker = "ended"
    /\ cancelled => disposer \in {"cancelled", "returned"}

EndedIsEmpty ==
    /\ worker = "ended" /\ ~timedOut => AddingCompleted /\ queue = <<>>
    /\ worker # "writing" => hand = <<>>

IInv ==
    /\ queue \in Seq(Events)
    /\ worker \in WorkerState
    /\ ~timedOut => worker # "crashed"
    /\ disposer \in DisposerState
    /\ timedOut \in BOOLEAN
    /\ WorkerEndsLast
    /\ EndedIsEmpty

(* A new sink satisfies the invariant.                                     *)
LEMMA InitEstablishesIInv == Init => IInv
<1>. SUFFICES ASSUME Init
              PROVE  IInv
  OBVIOUS
<1>1. queue \in Seq(Events) /\ hand = <<>>
  BY DEF Init
<1>2. worker \in WorkerState /\ worker # "crashed" /\ worker # "ended"
  BY DEF Init, WorkerState
<1>3. disposer \in DisposerState /\ disposer \notin {"joined", "cancelled", "returned"}
  BY DEF Init, DisposerState
<1>4. timedOut = FALSE /\ cancelled = FALSE
  BY DEF Init
<1>. QED
  BY <1>1, <1>2, <1>3, <1>4 DEF IInv, WorkerEndsLast, EndedIsEmpty

(* Recording threads preserve it.                                          *)
LEMMA RecordPreservesIInv ==
  ASSUME IInv, NEW e \in Events, Record(e) \/ TryAdd(e)
  PROVE  IInv'
<1>1. CASE Record(e)
  BY <1>1 DEF Record, IInv, WorkerEndsLast, EndedIsEmpty, AddingCompleted
<1>2. CASE TryAdd(e)
  <2>1. UNCHANGED <<worker, hand, disposer, timedOut, cancelled>>
    BY <1>2 DEF TryAdd
  <2>2. CASE UNCHANGED queue
    BY <2>1, <2>2 DEF IInv, WorkerEndsLast, EndedIsEmpty, AddingCompleted
  <2>3. CASE ~AddingCompleted /\ queue' = Append(queue, e)
    <3>1. queue' \in Seq(Events)
      BY <2>3, AppendProperties DEF IInv
    <3>. QED
      BY <2>1, <2>3, <3>1 DEF IInv, WorkerEndsLast, EndedIsEmpty, AddingCompleted
  <2>. QED
    BY <1>2, <2>2, <2>3 DEF TryAdd
<1>. QED
  BY <1>1, <1>2

(* The worker preserves it: without a timeout it meets neither a disposed  *)
(* queue nor a cancelled token.                                            *)
LEMMA WorkerPreservesIInv ==
  ASSUME IInv, ProcessQueue
  PROVE  IInv'
<1>1. CASE Enumerate
  <2>1. worker = "enumerating" /\ (~timedOut => ~QueueDisposed) /\ hand = <<>>
    BY <1>1 DEF Enumerate, IInv, WorkerEndsLast, EndedIsEmpty, QueueDisposed
  <2>2. UNCHANGED <<queue, hand, disposer, timedOut, cancelled>>
    BY <1>1 DEF Enumerate
  <2>3. CASE QueueDisposed
    <3>1. timedOut /\ worker' = "crashed"
      BY <1>1, <2>1, <2>3 DEF Enumerate, AddingCompleted, QueueDisposed, IInv
    <3>. QED
      BY <2>1, <2>2, <3>1
         DEF IInv, WorkerState, WorkerEndsLast, EndedIsEmpty, AddingCompleted
  <2>4. CASE ~QueueDisposed /\ AddingCompleted /\ queue = <<>>
    <3>1. worker' = "ended"
      BY <1>1, <2>1, <2>4 DEF Enumerate
    <3>. QED
      BY <2>1, <2>2, <2>4, <3>1
         DEF IInv, WorkerState, WorkerEndsLast, EndedIsEmpty, AddingCompleted
  <2>5. CASE ~QueueDisposed /\ ~(AddingCompleted /\ queue = <<>>)
    <3>1. worker' = "taking"
      BY <1>1, <2>1, <2>5 DEF Enumerate
    <3>. QED
      BY <2>1, <2>2, <3>1
         DEF IInv, WorkerState, WorkerEndsLast, EndedIsEmpty, AddingCompleted
  <2>. QED
    BY <2>3, <2>4, <2>5
<1>2. CASE Take
  <2>1. worker = "taking" /\ (~timedOut => ~QueueDisposed /\ ~cancelled) /\ hand = <<>>
    BY <1>2 DEF Take, IInv, WorkerEndsLast, EndedIsEmpty, QueueDisposed
  <2>2. UNCHANGED <<disposer, timedOut, cancelled>>
    BY <1>2 DEF Take
  <2>3. CASE queue # <<>> /\ queue' = Tail(queue) /\ worker' = "writing"
    <3>1. queue' \in Seq(Events)
      BY <2>3, HeadTailProperties DEF IInv
    <3>. QED
      BY <2>1, <2>2, <2>3, <3>1
         DEF IInv, WorkerState, WorkerEndsLast, EndedIsEmpty, AddingCompleted
  <2>4. CASE worker' = "enumerating" /\ UNCHANGED <<queue, hand>>
    BY <2>1, <2>2, <2>4
       DEF IInv, WorkerState, WorkerEndsLast, EndedIsEmpty, AddingCompleted
  <2>5. CASE timedOut /\ worker' \in {"crashed", "ended"} /\ UNCHANGED <<queue, hand>>
    BY <2>1, <2>2, <2>5
       DEF IInv, WorkerState, WorkerEndsLast, EndedIsEmpty, AddingCompleted
  <2>. QED
    BY <1>2, <2>1, <2>3, <2>4, <2>5 DEF Take, IInv
<1>3. CASE Write
  <2>1. worker = "writing" /\ worker' = "enumerating" /\ hand' = <<>>
    BY <1>3 DEF Write, AfterWriteFailed
  <2>2. UNCHANGED <<queue, disposer, timedOut, cancelled>>
    BY <1>3 DEF Write
  <2>. QED
    BY <2>1, <2>2 DEF IInv, WorkerState, WorkerEndsLast, EndedIsEmpty, AddingCompleted
<1>. QED
  BY <1>1, <1>2, <1>3 DEF ProcessQueue

(* Dispose preserves it: what it does without the worker's end is done     *)
(* with the timeout recorded.                                              *)
LEMMA DisposePreservesIInv ==
  ASSUME IInv, Dispose
  PROVE  IInv'
<1>1. CASE CompleteAdding
  BY <1>1 DEF CompleteAdding, IInv, DisposerState, WorkerEndsLast, EndedIsEmpty, AddingCompleted
<1>2. CASE Join
  <2>1. /\ disposer = "joining" /\ disposer' = "joined"
        /\ UNCHANGED <<queue, worker, hand, cancelled>>
    BY <1>2 DEF Join
  <2>2. ~cancelled /\ ~cancelled'
    BY <2>1 DEF IInv, WorkerEndsLast
  <2>3. CASE worker = "ended" /\ UNCHANGED timedOut
    BY <2>1, <2>2, <2>3
       DEF IInv, DisposerState, WorkerEndsLast, EndedIsEmpty, AddingCompleted
  <2>4. CASE timedOut' = TRUE
    BY <2>1, <2>2, <2>4
       DEF IInv, DisposerState, WorkerEndsLast, EndedIsEmpty, AddingCompleted
  <2>. QED
    BY <1>2, <2>3, <2>4 DEF Join, WorkerJoined
<1>3. CASE Cancel
  BY <1>3 DEF Cancel, IInv, DisposerState, WorkerEndsLast, EndedIsEmpty, AddingCompleted
<1>4. CASE DisposeQueue
  BY <1>4 DEF DisposeQueue, IInv, DisposerState, WorkerEndsLast, EndedIsEmpty, AddingCompleted
<1>. QED
  BY <1>1, <1>2, <1>3, <1>4 DEF Dispose

(* Every step preserves it.                                                *)
LEMMA NextPreservesIInv == IInv /\ [Next]_vars => IInv'
<1>1. ASSUME IInv, UNCHANGED vars
      PROVE  IInv'
  BY <1>1 DEF vars, IInv, WorkerEndsLast, EndedIsEmpty, AddingCompleted
<1>. QED
  BY <1>1, RecordPreservesIInv, WorkerPreservesIInv, DisposePreservesIInv DEF Next

(* The inductive invariant holds of every sink. *)
THEOREM SinkInvariant == Safe => []IInv
  BY InitEstablishesIInv, NextPreservesIInv, PTL DEF Safe

(* Dispose flushes what is queued: when it returns without a timeout, the  *)
(* queue and the worker's hand are empty.                                  *)
THEOREM DisposeFlushes == Safe => []FlushedOnDispose
<1>1. IInv => FlushedOnDispose
  BY DEF IInv, WorkerEndsLast, EndedIsEmpty, FlushedOnDispose
<1>. QED
  BY <1>1, SinkInvariant, PTL

(* The worker never meets a disposed queue, whatever the disk throws,      *)
(* unless the join timed out.                                              *)
THEOREM TimelyDisposeKillsNoProcess == Safe => []SurvivesTimelyDispose
<1>1. IInv => SurvivesTimelyDispose
  BY DEF IInv, SurvivesTimelyDispose, ProcessAlive
<1>. QED
  BY <1>1, SinkInvariant, PTL
-----------------------------------------------------------------------------
(* The dropped count counts a finite set, however many events there are.   *)
Dropped == {e \in Events : event[e] = "dropped"}

TInv == TypeOK /\ IsFiniteSet(Dropped)

(* The variables that an event of the queue passes through.                *)
LEMMA RecordPreservesTInv ==
  ASSUME TInv, NEW e \in Events, Record(e) \/ TryAdd(e)
  PROVE  TInv'
<1>. USE DEF TInv, TypeOK, EventState, Dropped, Count
<1>1. UNCHANGED <<file, worker, hand, disposer, timedOut, cancelled>>
  BY DEF Record, TryAdd
<1>2. CASE Record(e) \/ (TryAdd(e) /\ UNCHANGED <<queue, accepted, dropped>>)
  <2>1. UNCHANGED <<queue, accepted, dropped>>
    BY <1>2 DEF Record
  <2>2. /\ event' \in [Events -> EventState]
        /\ \A x \in Events : event'[x] = "dropped" <=> event[x] = "dropped"
    <3>1. PICK s \in {"recording", "ignored", "refused"} :
            event' = [event EXCEPT ![e] = s] /\ event[e] \in {"new", "recording"}
      <4>1. CASE Record(e)
        BY <4>1 DEF Record, QueueDisposed, AddingCompleted
      <4>2. CASE TryAdd(e) /\ UNCHANGED <<queue, accepted, dropped>>
        <5>1. Append(queue, e) # queue
          BY AppendProperties
        <5>2. dropped \in Nat
          BY FS_CardinalityType
        <5>. QED
          BY <4>2, <5>1, <5>2 DEF TryAdd
      <4>. QED
        BY <1>2, <4>1, <4>2
    <3>. QED
      BY <3>1
  <2>3. Dropped' = Dropped
    BY <2>2
  <2>. QED
    BY <1>1, <2>1, <2>2, <2>3
<1>3. CASE /\ Len(queue) < QueueCapacity
           /\ event' = [event EXCEPT ![e] = "accepted"] /\ event[e] = "recording"
           /\ queue' = Append(queue, e) /\ accepted' = Append(accepted, e)
           /\ UNCHANGED dropped
  <2>1. /\ queue' \in Seq(Events) /\ accepted' \in Seq(Events)
        /\ Len(queue') <= QueueCapacity
    BY <1>3, AppendProperties, SinkAssumption
  <2>2. event' \in [Events -> EventState] /\ Dropped' = Dropped
    BY <1>3
  <2>. QED
    BY <1>1, <1>3, <2>1, <2>2
<1>4. CASE /\ event' = [event EXCEPT ![e] = "dropped"] /\ event[e] = "recording"
           /\ dropped' = dropped + 1 /\ UNCHANGED <<queue, accepted>>
  <2>1. event' \in [Events -> EventState] /\ Dropped' = Dropped \cup {e} /\ e \notin Dropped
    BY <1>4
  <2>2. IsFiniteSet(Dropped') /\ Cardinality(Dropped') = Cardinality(Dropped) + 1
    BY <2>1, FS_AddElement
  <2>. QED
    BY <1>1, <1>4, <2>1, <2>2
<1>. QED
  BY <1>2, <1>3, <1>4 DEF TryAdd

(* The worker and Dispose keep the types.                                  *)
LEMMA OthersPreserveTInv ==
  ASSUME TInv, ProcessQueue \/ Dispose
  PROVE  TInv'
<1>. USE DEF TInv, TypeOK
<1>1. UNCHANGED <<event, accepted, dropped>>
  BY DEF ProcessQueue, Enumerate, Take, Write, Dispose, CompleteAdding, Join, Cancel, DisposeQueue
<1>2. UNCHANGED Dropped /\ UNCHANGED Count("dropped")
  BY <1>1 DEF Dropped, Count
<1>3. CASE Enumerate
  <2>1. worker' \in {"crashed", "ended", "taking"} /\ worker = "enumerating"
    BY <1>3 DEF Enumerate
  <2>2. UNCHANGED <<queue, file, hand, disposer, timedOut, cancelled>>
    BY <1>3 DEF Enumerate
  <2>. QED
    BY <1>1, <1>2, <2>1, <2>2 DEF WorkerState
<1>4. CASE Take
  <2>1. worker = "taking" /\ UNCHANGED <<file, disposer, timedOut, cancelled>>
    BY <1>4 DEF Take
  <2>2. CASE worker' \in {"crashed", "ended", "enumerating"} /\ UNCHANGED <<queue, hand>>
    BY <1>1, <1>2, <2>1, <2>2 DEF WorkerState
  <2>3. CASE /\ queue # <<>> /\ hand' = <<Head(queue)>> /\ queue' = Tail(queue)
             /\ worker' = "writing"
    <3>1. /\ Head(queue) \in Events /\ queue' \in Seq(Events)
          /\ Len(queue') <= QueueCapacity
      BY <2>3, HeadTailProperties, SinkAssumption
    <3>2. hand' \in Seq(Events) /\ Len(hand') = 1
      BY <2>3, <3>1
    <3>. QED
      BY <1>1, <1>2, <2>1, <2>3, <3>1, <3>2 DEF WorkerState
  <2>. QED
    BY <1>4, <2>2, <2>3 DEF Take, NextOf
<1>5. CASE Write
  <2>1. /\ UNCHANGED <<queue, disposer, timedOut, cancelled>>
        /\ hand' = <<>> /\ worker' = "enumerating"
        /\ file' = file \o hand \/ UNCHANGED file
    BY <1>5 DEF Write, AfterWriteFailed
  <2>2. file' \in Seq(Events)
    BY <2>1, ConcatProperties
  <2>. QED
    BY <1>1, <1>2, <2>1, <2>2 DEF WorkerState
<1>6. CASE Dispose
  <2>1. UNCHANGED <<queue, file, worker, hand>>
    BY <1>6 DEF Dispose, CompleteAdding, Join, Cancel, DisposeQueue
  <2>2. disposer' \in DisposerState /\ timedOut' \in BOOLEAN /\ cancelled' \in BOOLEAN
    BY <1>6 DEF Dispose, CompleteAdding, Join, Cancel, DisposeQueue, DisposerState
  <2>. QED
    BY <1>1, <1>2, <2>1, <2>2
<1>. QED
  BY <1>3, <1>4, <1>5, <1>6 DEF ProcessQueue

(* The types hold: the queue is never longer than its capacity, and the    *)
(* dropped count is the number of dropped events.                          *)
THEOREM SinkTypeOK == Safe => []TypeOK
<1>1. Init => TInv
  <2>. SUFFICES ASSUME Init
                PROVE  TInv
    OBVIOUS
  <2>1. Dropped = {} /\ Count("dropped") = 0 /\ IsFiniteSet(Dropped)
    BY FS_EmptySet DEF Init, Dropped, Count
  <2>2. /\ <<>> \in Seq(Events) /\ Len(<<>>) = 0 /\ Len(<<>>) <= QueueCapacity
    BY SinkAssumption
  <2>3. event \in [Events -> EventState]
    BY DEF Init, EventState
  <2>4. /\ worker \in WorkerState /\ worker # "writing" /\ disposer \in DisposerState
        /\ timedOut \in BOOLEAN /\ cancelled \in BOOLEAN /\ dropped = 0
        /\ queue = <<>> /\ accepted = <<>> /\ file = <<>> /\ hand = <<>>
    BY DEF Init, WorkerState, DisposerState
  <2>. QED
    BY <2>1, <2>2, <2>3, <2>4 DEF TInv, TypeOK
<1>2. TInv /\ [Next]_vars => TInv'
  <2>1. ASSUME TInv, UNCHANGED vars
        PROVE  TInv'
    BY <2>1 DEF vars, TInv, TypeOK, Dropped, Count
  <2>. QED
    BY <2>1, RecordPreservesTInv, OthersPreserveTInv DEF Next
<1>3. TInv => TypeOK
  BY DEF TInv
<1>. QED
  BY <1>1, <1>2, <1>3, PTL DEF Safe

-----------------------------------------------------------------------------
(* FileInOrder, element by element: of the events the queue took, the      *)
(* first n are over, the next is in the worker's hand, if any is, the rest *)
(* is the queue; the lines of the file are at the places `at'.             *)
Lines(n, at) ==
    /\ at \in [DOMAIN file -> 1..n]
    /\ \A i, j \in DOMAIN file : i < j => at[i] < at[j]
    /\ \A i \in DOMAIN file : file[i] = accepted[at[i]]

UnderWay(n) ==
    /\ Len(accepted) = n + Len(hand) + Len(queue)
    /\ \A i \in 1..Len(hand) : hand[i] = accepted[n + i]
    /\ \A i \in 1..Len(queue) : queue[i] = accepted[n + Len(hand) + i]

InOrder == \E n \in Nat : UnderWay(n) /\ \E at : Lines(n, at)

(* What is under way is what the queue took last.                          *)
LEMMA UnderWayIsSuffix ==
  ASSUME TypeOK, NEW n \in Nat, UnderWay(n)
  PROVE  SubSeq(accepted, n + 1, Len(accepted)) = hand \o queue
<1>. DEFINE last == SubSeq(accepted, n + 1, Len(accepted))
            under == hand \o queue
<1>1. /\ accepted \in Seq(Events) /\ hand \in Seq(Events) /\ queue \in Seq(Events)
      /\ Len(accepted) \in Nat /\ Len(hand) \in Nat /\ Len(queue) \in Nat
      /\ Len(accepted) = n + Len(hand) + Len(queue)
  BY DEF TypeOK, UnderWay
<1>2. /\ last \in Seq(Events) /\ Len(last) = Len(hand) + Len(queue)
      /\ \A i \in 1..(Len(hand) + Len(queue)) : last[i] = accepted[n + i]
  <2>1. \A i \in (n + 1)..Len(accepted) : accepted[i] \in Events
    BY <1>1
  <2>2. /\ last \in Seq(Events)
        /\ Len(last) = IF n + 1 <= Len(accepted) THEN Len(accepted) - (n + 1) + 1 ELSE 0
        /\ \A i \in 1..(Len(accepted) - (n + 1) + 1) : last[i] = accepted[(n + 1) + i - 1]
    BY <1>1, <2>1, SubSeqProperties
  <2>. QED
    BY <1>1, <2>2
<1>3. /\ under \in Seq(Events) /\ Len(under) = Len(hand) + Len(queue)
      /\ \A i \in 1..(Len(hand) + Len(queue)) :
            under[i] = IF i <= Len(hand) THEN hand[i] ELSE queue[i - Len(hand)]
  BY <1>1, ConcatProperties
<1>4. ASSUME NEW i \in 1..(Len(hand) + Len(queue))
      PROVE  last[i] = under[i]
  <2>1. CASE i <= Len(hand)
    BY <1>1, <1>2, <1>3, <2>1 DEF UnderWay
  <2>2. CASE i > Len(hand)
    <3>1. i - Len(hand) \in 1..Len(queue) /\ n + Len(hand) + (i - Len(hand)) = n + i
      BY <1>1, <2>2
    <3>2. queue[i - Len(hand)] = accepted[n + i]
      BY <3>1 DEF UnderWay
    <3>. QED
      BY <1>1, <1>2, <1>3, <2>2, <3>2
  <2>. QED
    BY <1>1, <2>1, <2>2
<1>. QED
  BY <1>2, <1>3, <1>4, SeqEqual
(* An order of the elements is what FileInOrder asks for.                  *)
LEMMA InOrderIsFileInOrder == TypeOK /\ InOrder => FileInOrder
<1>. SUFFICES ASSUME TypeOK, NEW n \in Nat, UnderWay(n), NEW at, Lines(n, at)
              PROVE  FileInOrder
  BY DEF InOrder
<1>1. n \in 0..Len(accepted)
  BY DEF TypeOK, UnderWay
<1>2. SubSeq(accepted, n + 1, Len(accepted)) = hand \o queue
  BY UnderWayIsSuffix
<1>. QED
  BY <1>1, <1>2 DEF FileInOrder, Lines

(* An event that the queue takes comes last.                               *)
LEMMA TryAddPreservesInOrder ==
  ASSUME TypeOK, InOrder, NEW e \in Events, TryAdd(e)
  PROVE  InOrder'
<1>1. UNCHANGED <<file, hand>>
  BY DEF TryAdd
<1>2. CASE UNCHANGED <<queue, accepted>>
  BY <1>1, <1>2 DEF InOrder, UnderWay, Lines
<1>3. CASE queue' = Append(queue, e) /\ accepted' = Append(accepted, e)
  <2>1. PICK n \in Nat : UnderWay(n) /\ \E at : Lines(n, at)
    BY DEF InOrder
  <2>2. PICK at : Lines(n, at)
    BY <2>1
  <2>3. /\ Len(accepted) \in Nat /\ Len(hand) \in Nat /\ Len(queue) \in Nat
        /\ Len(accepted) = n + Len(hand) + Len(queue)
        /\ Len(accepted') = Len(accepted) + 1 /\ Len(queue') = Len(queue) + 1
        /\ \A i \in 1..Len(accepted) : accepted'[i] = accepted[i]
        /\ \A i \in 1..Len(queue) : queue'[i] = queue[i]
        /\ accepted'[Len(accepted) + 1] = e /\ queue'[Len(queue) + 1] = e
    <3>1. accepted \in Seq(Events) /\ queue \in Seq(Events) /\ hand \in Seq(Events)
      BY DEF TypeOK
    <3>2. /\ Len(accepted') = Len(accepted) + 1
          /\ \A i \in 1..Len(accepted) : accepted'[i] = accepted[i]
          /\ accepted'[Len(accepted) + 1] = e
      BY <1>3, <3>1, AppendProperties
    <3>3. /\ Len(queue') = Len(queue) + 1
          /\ \A i \in 1..Len(queue) : queue'[i] = queue[i]
          /\ queue'[Len(queue) + 1] = e
      BY <1>3, <3>1, AppendProperties
    <3>. QED
      BY <2>1, <3>1, <3>2, <3>3 DEF UnderWay
  <2>4. UnderWay(n)'
    <3>1. \A i \in 1..Len(hand) : hand[i] = accepted'[n + i]
      BY <2>1, <2>3 DEF UnderWay
    <3>2. ASSUME NEW i \in 1..Len(queue')
          PROVE  queue'[i] = accepted'[n + Len(hand) + i]
      <4>1. CASE i = Len(queue) + 1
        BY <2>3, <4>1
      <4>2. CASE i \in 1..Len(queue)
        BY <2>1, <2>3, <4>2 DEF UnderWay
      <4>. QED
        BY <2>3, <4>1, <4>2
    <3>. QED
      BY <1>1, <2>3, <3>1, <3>2 DEF UnderWay
  <2>5. Lines(n, at)'
    <3>1. \A i \in DOMAIN file : at[i] \in 1..Len(accepted)
      BY <2>2, <2>3 DEF Lines
    <3>. QED
      BY <1>1, <2>2, <2>3, <3>1 DEF Lines
  <2>. QED
    BY <2>4, <2>5 DEF InOrder
<1>. QED
  BY <1>2, <1>3 DEF TryAdd

(* The worker takes the first event of the queue into its empty hand. *)
LEMMA TakePreservesInOrder ==
  ASSUME TypeOK, InOrder, Take
  PROVE  InOrder'
<1>1. UNCHANGED <<accepted, file>>
  BY DEF Take
<1>2. CASE UNCHANGED <<queue, hand>>
  BY <1>1, <1>2 DEF InOrder, UnderWay, Lines
<1>3. CASE queue # <<>> /\ hand' = <<Head(queue)>> /\ queue' = Tail(queue)
  <2>1. PICK n \in Nat : UnderWay(n) /\ \E at : Lines(n, at)
    BY DEF InOrder
  <2>2. /\ Len(hand) = 0 /\ Len(queue) \in Nat \ {0}
        /\ Len(hand') = 1 /\ hand'[1] = queue[1]
        /\ Len(queue') = Len(queue) - 1
        /\ \A i \in 1..Len(queue') : queue'[i] = queue[i + 1]
    BY <1>3, HeadTailProperties DEF TypeOK, Take
  <2>3. UnderWay(n)'
    <3>1. Len(accepted) = n + Len(hand') + Len(queue')
      BY <2>1, <2>2 DEF UnderWay
    <3>2. \A i \in 1..Len(hand') : hand'[i] = accepted[n + i]
      <4>1. queue[1] = accepted[n + 0 + 1]
        BY <2>1, <2>2 DEF UnderWay
      <4>. QED
        BY <2>2, <4>1
    <3>3. ASSUME NEW i \in 1..Len(queue')
          PROVE  queue'[i] = accepted[n + Len(hand') + i]
      <4>1. i + 1 \in 1..Len(queue)
        BY <2>2
      <4>2. queue[i + 1] = accepted[n + 0 + (i + 1)]
        BY <2>1, <2>2, <4>1 DEF UnderWay
      <4>3. n + 0 + (i + 1) = n + 1 + i
        OBVIOUS
      <4>. QED
        BY <2>2, <4>2, <4>3
    <3>. QED
      BY <1>1, <3>1, <3>2, <3>3 DEF UnderWay
  <2>. QED
    BY <1>1, <2>1, <2>3 DEF InOrder, Lines
<1>. QED
  BY <1>2, <1>3 DEF Take, NextOf

(* The event of the hand is over; if it became a line it is the last one.  *)
LEMMA WritePreservesInOrder ==
  ASSUME TypeOK, InOrder, Write
  PROVE  InOrder'
<1>1. /\ UNCHANGED <<accepted, queue>> /\ hand' = <<>> /\ Len(hand) = 1
      /\ file' = file \o hand \/ UNCHANGED file
  BY DEF Write, TypeOK
<1>2. PICK n \in Nat : UnderWay(n) /\ \E at : Lines(n, at)
  BY DEF InOrder
<1>3. PICK at : Lines(n, at)
  BY <1>2
<1>4. UnderWay(n + 1)'
  <2>1. Len(hand') = 0 /\ Len(queue) \in Nat /\ Len(accepted) = n + 1 + Len(queue)
    BY <1>1, <1>2 DEF UnderWay, TypeOK
  <2>2. \A i \in 1..Len(queue) : queue[i] = accepted[n + 1 + i]
    BY <1>1, <1>2 DEF UnderWay
  <2>3. \A i \in 1..Len(queue) : n + 1 + 0 + i = n + 1 + i
    BY <2>1
  <2>. QED
    BY <1>1, <2>1, <2>2, <2>3 DEF UnderWay
<1>5. CASE UNCHANGED file
  <2>1. Lines(n + 1, at)'
    BY <1>1, <1>3, <1>5 DEF Lines
  <2>. QED
    BY <1>4, <2>1 DEF InOrder
<1>6. CASE file' = file \o hand
  <2>1. /\ Len(file) \in Nat /\ DOMAIN file = 1..Len(file)
        /\ DOMAIN file' = 1..(Len(file) + 1)
        /\ \A i \in DOMAIN file : file'[i] = file[i]
        /\ file'[Len(file) + 1] = hand[1]
    <3>1. file \in Seq(Events) /\ hand \in Seq(Events) /\ Len(file) \in Nat
      BY DEF TypeOK
    <3>2. /\ file \o hand \in Seq(Events) /\ Len(file \o hand) = Len(file) + Len(hand)
          /\ \A i \in 1..(Len(file) + Len(hand)) :
                (file \o hand)[i] = IF i <= Len(file) THEN file[i] ELSE hand[i - Len(file)]
      BY <3>1, ConcatProperties
    <3>3. Len(file) + 1 \in 1..(Len(file) + 1) /\ (Len(file) + 1) - Len(file) = 1
      BY <3>1
    <3>. QED
      BY <1>1, <1>6, <3>1, <3>2, <3>3
  <2>2. hand[1] = accepted[n + 1]
    BY <1>1, <1>2 DEF UnderWay
  <2>. PICK at2 : at2 = [i \in DOMAIN file' |-> IF i \in DOMAIN file THEN at[i] ELSE n + 1]
    OBVIOUS
  <2>3. at2 \in [DOMAIN file' -> 1..(n + 1)]
    BY <1>3, <2>1 DEF Lines
  <2>4. \A i, j \in DOMAIN file' : i < j => at2[i] < at2[j]
    <3>1. \A i \in DOMAIN file : at2[i] = at[i] /\ at[i] \in 1..n
      BY <1>3, <2>1 DEF Lines
    <3>2. at2[Len(file) + 1] = n + 1
      BY <2>1
    <3>3. ASSUME NEW i \in DOMAIN file', NEW j \in DOMAIN file', i < j
          PROVE  at2[i] < at2[j]
      <4>1. i \in DOMAIN file
        BY <2>1, <3>3
      <4>2. CASE j \in DOMAIN file
        BY <1>3, <3>1, <3>3, <4>1, <4>2 DEF Lines
      <4>3. CASE j = Len(file) + 1
        <5>1. at2[i] \in 1..n /\ at2[j] = n + 1
          BY <3>1, <3>2, <4>1, <4>3
        <5>2. \A k \in 1..n : k < n + 1
          OBVIOUS
        <5>. QED
          BY <5>1, <5>2
      <4>. QED
        BY <2>1, <4>2, <4>3
    <3>. QED
      BY <3>3
  <2>5. \A i \in DOMAIN file' : file'[i] = accepted[at2[i]]
    BY <1>3, <2>1, <2>2 DEF Lines
  <2>6. Lines(n + 1, at2)'
    BY <1>1, <2>3, <2>4, <2>5 DEF Lines
  <2>. QED
    BY <1>4, <2>6 DEF InOrder
<1>. QED
  BY <1>1, <1>5, <1>6

(* The log keeps the order of the events: the file holds what the queue    *)
(* took, in the same order, each event once, without those whose write     *)
(* failed, and nothing is lost between the queue and the worker.           *)
THEOREM LogKeepsOrder == Safe => []FileInOrder
<1>1. Init => InOrder
  <2>. SUFFICES ASSUME Init
                PROVE  InOrder
    OBVIOUS
  <2>1. /\ accepted = <<>> /\ file = <<>> /\ hand = <<>> /\ queue = <<>>
    BY DEF Init
  <2>2. UnderWay(0)
    BY <2>1 DEF UnderWay
  <2>3. Lines(0, <<>>)
    BY <2>1 DEF Lines
  <2>. QED
    BY <2>2, <2>3 DEF InOrder
<1>2. TypeOK /\ InOrder /\ [Next]_vars => InOrder'
  <2>1. ASSUME InOrder, UNCHANGED <<accepted, file, hand, queue>>
        PROVE  InOrder'
    BY <2>1 DEF InOrder, UnderWay, Lines
  <2>2. ASSUME InOrder, \/ \E e \in Events : Record(e)
                        \/ Enumerate
                        \/ Dispose
                        \/ UNCHANGED vars
        PROVE  InOrder'
    BY <2>1, <2>2 DEF Record, Enumerate, Dispose, CompleteAdding, Join, Cancel, DisposeQueue, vars
  <2>. QED
    BY <2>2, TryAddPreservesInOrder, TakePreservesInOrder, WritePreservesInOrder
       DEF Next, ProcessQueue
<1>. QED
  BY <1>1, <1>2, SinkTypeOK, InOrderIsFileInOrder, PTL DEF Safe
=============================================================================
