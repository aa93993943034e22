--------------------------- MODULE ResumableCopy ---------------------------
(***************************************************************************)
(* What the migration tool promises: a copy of one container to others, in *)
(* runs that may stop at any moment, of which each skips what an earlier   *)
(* one recorded and copies the rest again.  There are no processes, pages, *)
(* batches, files or permits here.                                         *)
(*                                                                         *)
(* Two clauses say less than one would wish, because the code does: what   *)
(* was recorded may be lost (a success file may be overwritten), and what  *)
(* was copied to one account counts as copied for all of them.             *)
(***************************************************************************)
CONSTANTS
    Docs,           (* the documents of the source                          *)
    IdOf,           (* the id of a document                                 *)
    Transformable,  (* the documents that can be copied                     *)
    Endpoints       (* the accounts to copy to                              *)

VARIABLES
    copied,         (* what every account has                               *)
    recorded,       (* the ids that are recorded as copied                  *)
    refused,        (* the ids that are recorded as failed                  *)
    target,         (* the account of the run, "none" between runs          *)
    known,          (* the ids the run skips                                *)
    finished        (* the run has come to its end                          *)

vars == <<copied, recorded, refused, target, known, finished>>

Init ==
    /\ copied = [e \in Endpoints |-> {}]
    /\ recorded = {} /\ refused = {}
    /\ target = "none" /\ known = {} /\ finished = FALSE

Copying == target # "none" /\ ~finished

(* What a run has to copy, and nothing else. *)
Due == {d \in Transformable : IdOf[d] \notin known}
IdsOf(docs) == {IdOf[d] : d \in docs}

Begin(e) ==
    /\ target = "none"
    /\ target' = e /\ known' = recorded
    /\ UNCHANGED <<copied, recorded, refused, finished>>

Copy(d) ==
    /\ Copying
    /\ d \in Due
    /\ copied' = [copied EXCEPT ![target] = @ \cup {d}]
    /\ UNCHANGED <<recorded, refused, target, known, finished>>

(* Nothing is recorded before it is copied. *)
Record ==
    /\ Copying
    /\ recorded' \subseteq recorded \cup IdsOf(Due \cap copied[target])
    /\ UNCHANGED <<copied, refused, target, known, finished>>

Refuse ==
    /\ Copying
    /\ refused' \subseteq refused \cup IdsOf(Due)
    /\ UNCHANGED <<copied, recorded, target, known, finished>>

(* Failures are forgotten, to be tried again. *)
Clear ==
    /\ ~finished
    /\ refused' \subseteq refused
    /\ UNCHANGED <<copied, recorded, target, known, finished>>

(* A run is finished when everything it had to copy is copied or refused.  *)
Finish ==
    /\ Copying
    /\ \A d \in Due : d \in copied[target] \/ IdOf[d] \in refused
    /\ finished' = TRUE
    /\ UNCHANGED <<copied, recorded, refused, target, known>>

(* A run ends, finished or not. *)
End ==
    /\ target' = "none" /\ known' = {} /\ finished' = FALSE
    /\ UNCHANGED <<copied, recorded, refused>>

Next ==
    \/ \E e \in Endpoints : Begin(e)
    \/ \E d \in Docs : Copy(d)
    \/ Record \/ Refuse \/ Clear \/ Finish \/ End

Spec == Init /\ [][Next]_vars
=============================================================================
