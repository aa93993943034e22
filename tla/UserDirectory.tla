--------------------------- MODULE UserDirectory ---------------------------
(***************************************************************************)
(* What the store of the users promises to concurrent requests: every      *)
(* change of a request takes effect once, in one step, on the document as  *)
(* it is then, and a request is told that it is done only after that.  A   *)
(* request may fail at any time, before or after its changes.              *)
(*                                                                         *)
(* Three clauses say less than one would wish, because the code does: a    *)
(* deleted user may come back, some pages do not look at the result of     *)
(* their update, and a role may be changed although the page reports an    *)
(* error.                                                                  *)
(***************************************************************************)
EXTENDS UserDocument

VARIABLES
    job,         (* the job of every request                                 *)
    directory,   (* the users                                                *)
    past,        (* every document a user ever had                           *)
    applied,     (* how many changes of a request were made                  *)
    answer       (* what a request was told                                  *)

vars == <<job, directory, past, applied, answer>>

(* Edit.OnPostToggleLockoutAsync and ManagePasskeys.OnPostDeleteAsync show *)
(* the same message whatever UpdateAsync returns.                          *)
Unchecked == {"toggle lockout", "remove passkey"}

Init ==
    /\ job \in [Requests -> Job]
    /\ directory = [u \in Users |-> IF u = ann THEN Ann ELSE Absent]
    /\ past = [u \in Users |-> IF u = ann THEN {Ann} ELSE {}]
    /\ applied = [r \in Requests |-> 0]
    /\ answer = [r \in Requests |-> "none"]

Pending(r) == answer[r] = "none"
User(r) == Target(r, job[r])
NextChange(r) == Plan(job[r])[applied[r] + 1]
Finished(r) == applied[r] = Len(Plan(job[r]))

Become(u, d) ==
    /\ directory' = [directory EXCEPT ![u] = d]
    /\ past' = [past EXCEPT ![u] = @ \cup {d}]

(* The documents a change may be made of: the present one, or if the user  *)
(* was deleted any it had.                                                 *)
Bases(u) == IF directory[u] # Absent THEN {directory[u]} ELSE past[u]

Create(r) ==
    /\ Pending(r) /\ ~Finished(r) /\ NextChange(r) = "register"
    /\ directory[User(r)] = Absent
    /\ Become(User(r), NewUser)
    /\ applied' = [applied EXCEPT ![r] = @ + 1]
    /\ UNCHANGED <<job, answer>>

Change(r) ==
    /\ Pending(r) /\ ~Finished(r)
    /\ \E d \in Bases(User(r)), t \in Times :
          \E e \in EffectsAt(NextChange(r), r, d, t) : Become(User(r), e)
    /\ applied' = [applied EXCEPT ![r] = @ + 1]
    /\ UNCHANGED <<job, answer>>

Delete(r) ==
    /\ Pending(r) /\ ~Finished(r) /\ NextChange(r) = "delete"
    /\ directory' = [directory EXCEPT ![User(r)] = Absent]
    /\ applied' = [applied EXCEPT ![r] = @ + 1]
    /\ UNCHANGED <<job, past, answer>>

(* A change of roles saves twice, and the second save may bring the user   *)
(* back too.                                                               *)
Revive(r) ==
    /\ Pending(r) /\ Finished(r) /\ job[r] \in RoleJobs \cup {"seed"}
    /\ directory[User(r)] = Absent
    /\ \E d \in past[User(r)] : Become(User(r), d)
    /\ UNCHANGED <<job, applied, answer>>

Tell(r, a) ==
    /\ Pending(r)
    /\ answer' = [answer EXCEPT ![r] = a]
    /\ UNCHANGED <<job, directory, past, applied>>

Done(r) == (Finished(r) \/ job[r] \in Unchecked) /\ Tell(r, "done")
Refuse(r) == (applied[r] = 0 \/ job[r] \in RoleJobs) /\ Tell(r, "refused")
Fail(r) == Tell(r, "failed")

Next == \E r \in Requests : \/ Create(r) \/ Change(r) \/ Delete(r) \/ Revive(r)
                            \/ Done(r) \/ Refuse(r) \/ Fail(r)

Spec == Init /\ [][Next]_vars
=============================================================================
