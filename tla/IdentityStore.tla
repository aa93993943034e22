--------------------------- MODULE IdentityStore ---------------------------
(***************************************************************************)
(* Concurrent requests on the users of Benday.Identity.CosmosDb: the pages *)
(* of the UI package with the script of their passkey buttons (passkey.js),*)
(* the sign-in, and the seeder, all of them through UserManager and        *)
(* CosmosDbUserStore.  A request reads a user, changes its copy in memory, *)
(* lets UserManager look for another user of that name, and saves the copy *)
(* with the etag it has read.                                              *)
(*                                                                         *)
(* UserManager, SignInManager and the browser are not part of the          *)
(* repository and are modelled by what the pages and the store rely on.    *)
(***************************************************************************)
EXTENDS UserDocument, FiniteSets

CONSTANTS
    Jobs,        (* the jobs the requests may be given, as functions         *)
    MaxClicks,   (* bound: clicks on a passkey button                        *)
    Faults       (* "crash": a request dies, or its last response is lost;   *)
                 (* "browser": a passkey prompt or its fetch fails           *)

ASSUME IdentityStoreAssumption ==
    /\ Jobs \subseteq [Requests -> Job]
    /\ MaxClicks \in Nat /\ Faults \subseteq {"crash", "browser"}
    /\ Absent \notin Doc

VARIABLES
    job,         (* the job of every request                                 *)
    store,       (* the users' documents with their etags                    *)
    roles,       (* how many documents of the administrators' role there are *)
    now,         (* the period it is                                         *)
    challenge,   (* the request whose challenge is in the browser's cookie   *)
    step,        (* where a request is                                       *)
    copy,        (* its object: etag, document, and the other users that had *)
                 (* the new name when the request began                      *)
    clicks,      (* clicks on its button                                     *)
    applied, answer, past    (* observed only: see UserDirectory             *)

storeVars == <<store, past>>
requestVars == <<step, copy, applied, answer>>
vars == <<job, store, roles, now, challenge, step, copy, clicks, applied, answer, past>>

Step == {"start", "options", "prompt", "post", "deleting", "resolving", "saving role",
         "validating", "saving", "ensuring role", "creating role", "returning", "ended"}
NoChallenge == "none"

User(r) == Target(r, job[r])
Document(u) == store[u].doc
Exists(u) == Document(u) # Absent
Named(name) == {u \in Users : Exists(u) /\ Document(u).name = name}
Finished(r) == applied[r] = Len(Plan(job[r]))

(* The pages that show the same message whatever UpdateAsync returns. *)
Unchecked == {"toggle lockout", "remove passkey"}

-----------------------------------------------------------------------------
Init ==
    /\ job \in Jobs
    /\ store = [u \in Users |-> [etag |-> IF u = ann THEN 1 ELSE 0,
                                 doc  |-> IF u = ann THEN Ann ELSE Absent]]
    /\ past = [u \in Users |-> IF u = ann THEN {Ann} ELSE {}]
    /\ roles = 1 /\ now = 1
    /\ challenge = NoChallenge
    /\ step = [r \in Requests |-> "start"]
    /\ copy = [r \in Requests |-> [etag |-> 0, doc |-> Absent, taken |-> {}]]
    /\ clicks = [r \in Requests |-> 0]
    /\ applied = [r \in Requests |-> 0]
    /\ answer = [r \in Requests |-> "none"]

GoTo(r, s) == step' = [step EXCEPT ![r] = s] /\ UNCHANGED answer
End(r, a) == step' = [step EXCEPT ![r] = "ended"] /\ answer' = [answer EXCEPT ![r] = a]
NoChange == UNCHANGED <<storeVars, copy, applied>>

Tick ==
    /\ now < MaxTime
    /\ now' = now + 1
    /\ UNCHANGED <<job, store, past, roles, challenge, requestVars, clicks>>

-----------------------------------------------------------------------------
(* A passkey button (Login.cshtml, ManagePasskeys.cshtml, passkey.js).     *)

(* The click disables the button and asks the server for options. *)
Click(r) ==
    /\ job[r] \in Ceremonies /\ step[r] = "start"
    /\ clicks[r] < MaxClicks
    /\ clicks' = [clicks EXCEPT ![r] = @ + 1]
    /\ GoTo(r, "options")
    /\ NoChange /\ UNCHANGED <<job, roles, now, challenge>>

(* The server leaves the challenge in a cookie that all tabs share; it     *)
(* answers 404 if the user is gone, and the button is enabled again.       *)
Mutant_AfterError == "disabled"
AfterError == "start"

Options(r) ==
    /\ step[r] = "options"
    /\ \/ /\ job[r] = "enroll" => Exists(ann)
          /\ challenge' = r
          /\ GoTo(r, "prompt")
       \/ /\ job[r] = "enroll" /\ ~Exists(ann)
          /\ GoTo(r, AfterError) /\ UNCHANGED challenge
    /\ NoChange /\ UNCHANGED <<job, roles, now, clicks>>

(* The authenticator signs the challenge of the options and the page posts *)
(* the credential.                                                         *)
Prompt(r) ==
    /\ step[r] = "prompt"
    /\ GoTo(r, "post")
    /\ NoChange /\ UNCHANGED <<job, roles, now, challenge, clicks>>

(* The fetch fails, or the user cancels the prompt or lets it time out:    *)
(* the catch block enables the button again.                               *)
BrowserError(r) ==
    /\ step[r] = "prompt" \/ (step[r] = "options" /\ "browser" \in Faults)
    /\ GoTo(r, AfterError)
    /\ NoChange /\ UNCHANGED <<job, roles, now, challenge, clicks>>

(* SignInManager takes the challenge out of the cookie to check the        *)
(* credential, and throws if there is none.  The registration looks first  *)
(* whether there is a user.                                                *)
Attests(r) == job[r] = "passkey sign in" \/ (job[r] = "enroll" /\ Exists(ann))

Attest(r) ==
    /\ step[r] = "post" /\ Attests(r) /\ challenge # r
    /\ End(r, IF challenge = NoChallenge THEN "failed" ELSE "refused")
    /\ challenge' = NoChallenge
    /\ NoChange /\ UNCHANGED <<job, roles, now, clicks>>

-----------------------------------------------------------------------------
(* The request reads its user, if its job allows changes the copy, and     *)
(* goes on to have it validated.                                           *)

Begun(r) == step[r] = IF job[r] \in Ceremonies THEN "post" ELSE "start"
Rivals(r) == IF User(r) \in Named("bob") THEN {} ELSE Named("bob")

(* Register, Create and the seeder make a new object; the seeder gives up  *)
(* if there is a user of that e-mail address.                              *)
New(r) ==
    /\ job[r] \in Creating /\ step[r] = "start"
    /\ \/ /\ job[r] = "seed" => Named("bob") = {}
          /\ copy' = [copy EXCEPT ![r] = [etag |-> 0, doc |-> NewUser, taken |-> Rivals(r)]]
          /\ GoTo(r, "validating")
       \/ /\ job[r] = "seed" /\ Named("bob") # {}
          /\ End(r, "refused") /\ UNCHANGED copy
    /\ UNCHANGED <<job, storeVars, roles, now, challenge, clicks, applied>>

(* FindByNameAsync of a sign-in, by the first name; FindByIdAsync,         *)
(* GetUserAsync and FindByPasskeyIdAsync otherwise.                        *)
Found(r) == IF job[r] \in SignIns THEN Named("ann") ELSE {u \in {ann} : Exists(u)}
Read(r, doc) ==
    copy' = [copy EXCEPT ![r] = [etag |-> store[ann].etag, doc |-> doc, taken |-> Rivals(r)]]

Effects(r) == UNION {EffectsAt(job[r], r, Document(u), now) : u \in Found(r)}

(* ResetAccessFailedCountAsync saves nothing if the count is zero already. *)
NeedsNoSave(r, doc) == job[r] = "sign in" /\ doc = Document(ann)

Find(r) ==
    /\ Begun(r) /\ job[r] \notin Creating \cup {"drop role"}
    /\ Attests(r) => challenge = r
    /\ \/ /\ Found(r) = {} \/ (job[r] # "delete" /\ Effects(r) = {})
          /\ End(r, IF job[r] = "reset password" /\ Found(r) # {} THEN "failed" ELSE "refused")
          /\ UNCHANGED <<copy, applied>>
       \/ /\ Found(r) # {} /\ job[r] = "delete"
          /\ Read(r, Document(ann)) /\ GoTo(r, "deleting") /\ UNCHANGED applied
       \/ /\ job[r] \in RoleJobs /\ Effects(r) # {}
          /\ Read(r, Document(ann)) /\ GoTo(r, "resolving") /\ UNCHANGED applied
       \/ /\ job[r] \notin RoleJobs
          /\ \E doc \in Effects(r) :
                /\ Read(r, doc)
                /\ \/ /\ NeedsNoSave(r, doc)
                      /\ applied' = [applied EXCEPT ![r] = 1]
                      /\ GoTo(r, "returning")
                   \/ /\ ~NeedsNoSave(r, doc)
                      /\ GoTo(r, "validating") /\ UNCHANGED applied
    /\ challenge' = IF Attests(r) THEN NoChallenge ELSE challenge
    /\ UNCHANGED <<job, storeVars, roles, now, clicks>>

-----------------------------------------------------------------------------
(* AddToRoleAsync and RemoveFromRoleAsync resolve the name of the role,    *)
(* change the claims and save the user themselves.                         *)

(* ResolveRoleNameAsync: the role's own name, or the one in capitals. *)
ResolvedName == IF roles > 0 THEN "UserAdmin" ELSE "USERADMIN"

ResolveRole(r) ==
    /\ step[r] = "resolving"
    /\ copy' = [copy EXCEPT ![r].doc.role =
                  IF job[r] = "remove role" THEN "none" ELSE ResolvedName]
    /\ GoTo(r, "saving role")
    /\ UNCHANGED <<job, storeVars, roles, now, challenge, clicks, applied>>

(* UserManager looks for a user of that name before it creates or updates; *)
(* FirstOrDefault may return any of several.                               *)
Mutant_Owners(r) == {}
Owners(r) == Named(copy[r].doc.name)

(* A result that is not looked at: the page or the seeder goes on. *)
IgnoresResult(r) == job[r] \in Unchecked \/ (job[r] = "seed" /\ Finished(r))

Validate(r) ==
    /\ step[r] = "validating"
    /\ \/ /\ Owners(r) = {} \/ User(r) \in Owners(r)
          /\ GoTo(r, "saving")
       \/ /\ Owners(r) \ {User(r)} # {}
          /\ End(r, IF IgnoresResult(r) THEN "done" ELSE "refused")
    /\ NoChange /\ UNCHANGED <<job, roles, now, challenge, clicks>>

(* SaveAsync of the repository: an upsert with IfMatchEtag, for which a    *)
(* missing document is any version or none, as the server likes.           *)
Mutant_Matches(r) == TRUE
Matches(r) == copy[r].etag \in {0, store[User(r)].etag}
MayUpsert(r) == Matches(r) \/ ~Exists(User(r))
MayRefuse(r) == ~Matches(r) \/ (~Exists(User(r)) /\ copy[r].etag # 0)

AfterSave(r) ==
    IF step[r] = "saving role" THEN "validating"
    ELSE IF job[r] = "seed" /\ applied[r] = 0 THEN "ensuring role" ELSE "returning"

NewEtag(u) == store[u].etag + 1

Save(r) ==
    LET u == User(r)
    IN /\ step[r] \in {"saving", "saving role"}
       /\ MayUpsert(r)
       /\ store' = [store EXCEPT ![u] = [etag |-> NewEtag(u), doc |-> copy[r].doc]]
       /\ past' = [past EXCEPT ![u] = @ \cup {copy[r].doc}]
       /\ copy' = [copy EXCEPT ![r].etag = NewEtag(u)]
       /\ applied' = [applied EXCEPT ![r] = IF Finished(r) THEN @ ELSE @ + 1]
       /\ GoTo(r, AfterSave(r))
       /\ UNCHANGED <<job, roles, now, challenge, clicks>>

(* An OptimisticConcurrencyException, which nobody catches. *)
SaveRefused(r) ==
    /\ step[r] \in {"saving", "saving role"}
    /\ MayRefuse(r)
    /\ End(r, "failed")
    /\ NoChange /\ UNCHANGED <<job, roles, now, challenge, clicks>>

(* DeleteAsync sends no etag and throws if there is no such document. *)
Delete(r) ==
    /\ step[r] = "deleting"
    /\ \/ /\ Exists(ann)
          /\ store' = [store EXCEPT ![ann].doc = Absent]
          /\ applied' = [applied EXCEPT ![r] = 1]
          /\ GoTo(r, "returning")
       \/ /\ ~Exists(ann)
          /\ End(r, "failed") /\ UNCHANGED <<store, applied>>
    /\ UNCHANGED <<job, past, roles, now, challenge, copy, clicks>>

Return(r) ==
    /\ step[r] = "returning"
    /\ End(r, "done")
    /\ NoChange /\ UNCHANGED <<job, roles, now, challenge, clicks>>

-----------------------------------------------------------------------------
(* The seeder creates the role if FindByNameAsync finds none; RoleManager  *)
(* looks once more, and what it reports is only printed.                   *)
EnsureRole(r) ==
    /\ step[r] = "ensuring role"
    /\ GoTo(r, IF roles = 0 THEN "creating role" ELSE "resolving")
    /\ NoChange /\ UNCHANGED <<job, roles, now, challenge, clicks>>

CreateRole(r) ==
    /\ step[r] = "creating role"
    /\ \/ roles' = roles + 1
       \/ roles > 0 /\ UNCHANGED roles
    /\ GoTo(r, "resolving")
    /\ NoChange /\ UNCHANGED <<job, now, challenge, clicks>>

(* Roles/Index deletes a role and leaves the users' claims as they are. *)
DropRole(r) ==
    /\ job[r] = "drop role" /\ step[r] = "start"
    /\ \/ roles > 0 /\ roles' = roles - 1 /\ End(r, "done")
       \/ roles = 0 /\ End(r, "refused") /\ UNCHANGED roles
    /\ NoChange /\ UNCHANGED <<job, now, challenge, clicks>>

(* The process dies, the server answers with an error, or the response to  *)
(* a save that was applied is lost: the request fails where it is.         *)
Crash(r) ==
    /\ "crash" \in Faults
    /\ step[r] \notin {"start", "options", "prompt", "ended"}
    /\ End(r, "failed")
    /\ NoChange /\ UNCHANGED <<job, roles, now, challenge, clicks>>

Ceremony(r) == Click(r) \/ Options(r) \/ Prompt(r) \/ BrowserError(r) \/ Attest(r)
Manage(r) == \/ New(r) \/ Find(r) \/ ResolveRole(r) \/ Validate(r) \/ Save(r) \/ SaveRefused(r)
             \/ Delete(r) \/ EnsureRole(r) \/ CreateRole(r) \/ DropRole(r) \/ Return(r)

Next == Tick \/ \E r \in Requests : Ceremony(r) \/ Manage(r) \/ Crash(r)

(* A request that has begun is worked on; the browser answers a fetch and  *)
(* ends a prompt at the latest by its timeout.                             *)
Fairness ==
    \A r \in Requests : WF_vars(step[r] # "start" /\ (Ceremony(r) \/ Manage(r)))

Safe == Init /\ [][Next]_vars
Spec == Safe /\ Fairness

-----------------------------------------------------------------------------
(* The types.  The etag of a copy was that of the document at some time.   *)
TypeOK ==
    /\ job \in [Requests -> Job]
    /\ store \in [Users -> [etag : Nat, doc : Doc \cup {Absent}]]
    /\ past \in [Users -> SUBSET Doc]
    /\ roles \in Nat /\ now \in Times
    /\ challenge \in Requests \cup {NoChallenge}
    /\ step \in [Requests -> Step]
    /\ copy \in [Requests -> [etag : Nat, doc : Doc \cup {Absent}, taken : SUBSET Users]]
    /\ clicks \in [Requests -> 0..MaxClicks]
    /\ applied \in [Requests -> 0..2]
    /\ answer \in [Requests -> {"none", "done", "refused", "failed"}]
    /\ \A r \in Requests : copy[r].etag <= store[User(r)].etag

(* The store implements UserDirectory: reads and conditional saves make    *)
(* every change look as if it was made in one step on the document as it   *)
(* is then, no change is made twice, none is lost, and nobody is told that *)
(* it is done before it is.                                                *)
Directory == INSTANCE UserDirectory WITH directory <- [u \in Users |-> Document(u)]
ImplementsDirectory == Directory!Spec

(* While nobody is deleted, user names are unique but for races: a request *)
(* that gives a name is not carried out if another user had that name when *)
(* it began.                                                               *)
NoDeletion == \A r \in Requests : job[r] # "delete"
DuplicatesComeFromRaces ==
    NoDeletion =>
        \A r \in Requests : job[r] \in Creating \cup {"rename"} /\ applied[r] > 0
                            => copy[r].taken = {}

(* A request that has begun is answered, or its button is enabled again,   *)
(* whatever the browser and the other requests do.                         *)
EveryRequestEnds ==
    \A r \in Requests : step[r] # "start" ~> step[r] \in {"start", "ended"}
=============================================================================
