----------------------- MODULE MCAdaptiveConcurrency -----------------------
(***************************************************************************)
(* Model checking of AdaptiveConcurrency, with an observer that remembers  *)
(* the last RampUpAfter batches: the concurrency they ran at and whether   *)
(* they met a 429.                                                         *)
(***************************************************************************)
EXTENDS AdaptiveConcurrency, Sequences

VARIABLE recent

BatchReport == [level |-> currentConcurrency, clean |-> Throttled = {}]

LastBatches(s) == IF Len(s) > RampUpAfter THEN Tail(s) ELSE s

ObservedInit ==
    /\ Init
    /\ recent = <<>>

WriteStep ==
    \/ \E batch \in SUBSET Items : StartBatch(batch)
    \/ \E i \in Items : Acquire(i)
    \/ \E i \in Items, outcome \in Outcome : Release(i, outcome)

ObservedNext ==
    \/ WriteStep /\ UNCHANGED recent
    \/ NewController /\ recent' = <<>>
    \/ ReportBatchResult /\ recent' = LastBatches(Append(recent, BatchReport))

ObservedSpec == ObservedInit /\ [][ObservedNext]_<<vars, recent>> /\ Fairness

(* The concurrency is raised only after RampUpAfter batches in a row, all  *)
(* of them clean and all of them run at the concurrency that is raised: a  *)
(* 429 or a change of the concurrency starts the count again.              *)
RampUpNeedsCleanStreak ==
    [][/\ currentConcurrency' > currentConcurrency
       /\ recent' # <<>>
       => /\ Len(recent') = RampUpAfter
          /\ \A k \in 1..RampUpAfter :
                recent'[k] = [level |-> currentConcurrency, clean |-> TRUE]
      ]_<<vars, recent>>
=============================================================================
