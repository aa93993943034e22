---------------------------- MODULE UserDocument ----------------------------
(***************************************************************************)
(* The document of a user (CosmosIdentityUser.cs) and what the pages, the  *)
(* sign-in and the seeder do to it.  Every request of theirs has a job;    *)
(* EffectsAt says which documents the job makes of a document it has read, *)
(* and an empty set is a job that is turned down.                          *)
(*                                                                         *)
(* The document is abstracted to what the jobs tell apart: its name (the   *)
(* e-mail address), whether the password is still the first one, its claim *)
(* of the administrators' role, how often it has one other claim, the      *)
(* failed sign-ins, the end of the lockout, whether it has a recovery code *)
(* left, and its passkeys.                                                 *)
(***************************************************************************)
EXTENDS Integers, Sequences

CONSTANTS
    Requests,    (* the requests, each with one job                          *)
    ann,         (* the user that exists from the start                      *)
    Absent,      (* stands for no document                                   *)
    MaxFailed,   (* Lockout.MaxFailedAccessAttempts                          *)
    MaxTime,     (* bound: periods, each as long as a lockout lasts          *)
    MaxClaims    (* bound: claims of a type and value; the jobs keep to it   *)

ASSUME UserDocumentAssumption ==
    /\ MaxFailed \in Nat \ {0} /\ MaxTime \in Nat \ {0} /\ MaxClaims \in Nat \ {0}
    /\ ann \notin Requests

Users == Requests \cup {ann}
Times == 1..MaxTime
Forever == MaxTime + 1     (* DateTimeOffset.MaxValue *)

(* A role claim holds the name of the role, or the name in capitals that   *)
(* UserManager passes if there is no such role when it is resolved.        *)
RoleClaims == {"UserAdmin", "USERADMIN"}
FirstKey == "key"

Doc == [name : {"ann", "bob"}, firstPassword : BOOLEAN, role : RoleClaims \cup {"none"},
        claims : 0..MaxClaims, failed : 0..(MaxFailed - 1), lockEnd : 0..Forever, code : BOOLEAN,
        passkeys : SUBSET (Requests \cup {FirstKey})]

Ann == [name |-> "ann", firstPassword |-> TRUE, role |-> "none", claims |-> 1,
        failed |-> 0, lockEnd |-> 0, code |-> TRUE, passkeys |-> {FirstKey}]
NewUser == [name |-> "bob", firstPassword |-> TRUE, role |-> "none", claims |-> 0,
            failed |-> 0, lockEnd |-> 0, code |-> FALSE, passkeys |-> {}]

-----------------------------------------------------------------------------
Creating == {"register", "seed"}
SignIns == {"guess", "sign in"}
RoleJobs == {"add role", "remove role"}
Ceremonies == {"enroll", "passkey sign in"}
Other == {"rename", "change password", "reset password", "add claim", "remove claim",
          "toggle lockout", "redeem code", "remove passkey", "delete", "drop role"}
Job == Creating \cup SignIns \cup RoleJobs \cup Ceremonies \cup Other

(* What a job does, change after change. *)
Plan(job) == CASE job = "seed"      -> <<"register", "add role">>
               [] job = "drop role" -> <<>>
               [] OTHER             -> <<job>>

Target(r, job) == IF job \in Creating THEN r ELSE ann

Locked(d, t) == d.lockEnd >= t

(* UserManager.AccessFailedAsync: the attempt that reaches the maximum     *)
(* locks the user out and starts the count anew.                           *)
Mutant_AccessFailed(d, t) ==
    IF d.failed + 1 > MaxFailed THEN [d EXCEPT !.failed = 0, !.lockEnd = t]
                                ELSE [d EXCEPT !.failed = @ + 1]
AccessFailed(d, t) ==
    IF d.failed + 1 >= MaxFailed THEN [d EXCEPT !.failed = 0, !.lockEnd = t]
                                 ELSE [d EXCEPT !.failed = @ + 1]

(* What PasswordSignInAsync makes of the document, with the first password *)
(* or with another.                                                        *)
SignIn(d, t, first) ==
    IF Locked(d, t) THEN {}
    ELSE {IF first /\ d.firstPassword THEN [d EXCEPT !.failed = 0] ELSE AccessFailed(d, t)}

When(condition, d) == IF condition THEN {d} ELSE {}

(* The changes a page or the store makes of a document, or none if it      *)
(* turns the request down.                                                 *)
AddToRole(d) == {[d EXCEPT !.role = n] : n \in {m \in RoleClaims : d.role = "none"}}
RemoveFromRole(d) == When(d.role # "none", [d EXCEPT !.role = "none"])
AddClaim(d) == When(d.claims < MaxClaims, [d EXCEPT !.claims = @ + 1])
RemoveClaim(d) == When(d.claims > 0, [d EXCEPT !.claims = @ - 1])
SaveProfile(d) == {[d EXCEPT !.name = "bob"]}
ChangePassword(d) == When(d.firstPassword, [d EXCEPT !.firstPassword = FALSE])
ToggleLockout(d, t) == {[d EXCEPT !.lockEnd = IF Locked(d, t) THEN 0 ELSE Forever]}
RedeemCode(d) == When(d.code, [d EXCEPT !.code = FALSE])
AddOrUpdatePasskey(d, k) == {[d EXCEPT !.passkeys = @ \cup {k}]}
RemovePasskey(d, k) == {[d EXCEPT !.passkeys = @ \ {k}]}

(* The documents that change `job' of request r makes of d at time t. *)
EffectsAt(job, r, d, t) ==
    CASE job = "guess"           -> SignIn(d, t, FALSE)
      [] job = "sign in"         -> SignIn(d, t, TRUE)
      [] job = "add role"        -> AddToRole(d)
      [] job = "remove role"     -> RemoveFromRole(d)
      [] job = "add claim"       -> AddClaim(d)
      [] job = "remove claim"    -> RemoveClaim(d)
      [] job = "rename"          -> SaveProfile(d)
      [] job = "change password" -> ChangePassword(d)
      [] job = "toggle lockout"  -> ToggleLockout(d, t)
      [] job = "redeem code"     -> RedeemCode(d)
      [] job = "enroll"          -> AddOrUpdatePasskey(d, r)
      [] job = "passkey sign in" -> IF FirstKey \in d.passkeys THEN AddOrUpdatePasskey(d, FirstKey)
                                                           ELSE {}
      [] job = "remove passkey"  -> RemovePasskey(d, FirstKey)
      [] OTHER                   -> {}
=============================================================================
