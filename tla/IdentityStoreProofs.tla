------------------------ MODULE IdentityStoreProofs ------------------------
(***************************************************************************)
(* Theorems about IdentityStore, for any requests, jobs, bounds and        *)
(* faults: the store of the users implements UserDirectory, and while      *)
(* nobody is deleted duplicate names come from races only.                 *)
(*                                                                         *)
(* The invariant IInv says what a request holds in memory: a copy made of  *)
(* some document its user had, and, as long as the etag of the copy is     *)
(* that of the store, made of the document the store has now.  A save of   *)
(* the copy is then a change of the present document (UserDirectory!Change)*)
(* or, if the user was deleted, of a former one.                           *)
(***************************************************************************)
EXTENDS IdentityStore, TLAPS

-----------------------------------------------------------------------------
(* Where a request is, and what it has done by then. *)
SavesRole(r) == \/ job[r] \in RoleJobs /\ applied[r] = 0
                \/ job[r] = "seed" /\ applied[r] = 1
SavesAgain(r) == \/ job[r] \in RoleJobs /\ applied[r] = 1
                 \/ job[r] = "seed" /\ applied[r] = 2
SavesOnce(r) == applied[r] = 0 /\ job[r] \notin RoleJobs \cup {"delete", "drop role"}
Creates(r) == job[r] \in Creating /\ applied[r] = 0

Control(r) ==
    /\ answer[r] = "none" <=> step[r] # "ended"
    /\ step[r] \in {"start", "options", "prompt", "post", "deleting"} => applied[r] = 0
    /\ step[r] = "deleting" => job[r] = "delete"
    /\ step[r] \in {"ensuring role", "creating role"} => job[r] = "seed" /\ applied[r] = 1
    /\ step[r] \in {"resolving", "saving role"} => SavesRole(r)
    /\ step[r] \in {"validating", "saving"} => SavesOnce(r) \/ SavesAgain(r)
    /\ step[r] = "returning" => Finished(r)
    /\ Creates(r) => step[r] \in {"start", "validating", "saving", "ended"}

(* What the copy of a request is, if it was made of document b. *)
Unsaved(r) == step[r] \in {"validating", "saving", "saving role"} /\ ~SavesAgain(r)
NextChange(r) == Plan(job[r])[applied[r] + 1]
MadeOf(r, b) ==
    /\ Unsaved(r) => \E t \in Times : copy[r].doc \in EffectsAt(NextChange(r), r, b, t)
    /\ ~Unsaved(r) => copy[r].doc = b
    /\ step[r] \in {"resolving", "ensuring role", "creating role"} =>
          EffectsAt(NextChange(r), r, b, 1) # {}

Holding == {"resolving", "ensuring role", "creating role", "validating", "saving role", "saving"}

Current(r) == Exists(User(r)) /\ copy[r].etag = store[User(r)].etag
Held(r) ==
    step[r] \in Holding /\ ~Creates(r) =>
        /\ copy[r].etag > 0
        /\ \E b \in past[User(r)] : MadeOf(r, b)
        /\ Current(r) => MadeOf(r, Document(User(r)))

NotYet(r) ==
    Creates(r) =>
        /\ Document(r) = Absent
        /\ step[r] \in {"validating", "saving"} => copy[r].doc = NewUser /\ copy[r].etag = 0

PastKnown ==
    /\ \A u \in Users : Document(u) \in past[u] \cup {Absent}
    /\ \A q \in Requests : \A d \in past[q] : d.name = "bob"
    /\ store[ann].etag > 0

IInv == TypeOK /\ PastKnown /\ \A r \in Requests : Control(r) /\ Held(r) /\ NotYet(r)

-----------------------------------------------------------------------------
(* The first documents are documents.                                      *)
LEMMA FirstDocuments ==
  ASSUME UserDocumentAssumption
  PROVE  Ann \in Doc /\ NewUser \in Doc
<1>1. 0 \in 0..(MaxFailed - 1) /\ 0 \in 0..Forever /\ MaxFailed \in Nat /\ MaxTime \in Nat
  BY DEF UserDocumentAssumption, Forever
<1>. QED
  BY <1>1 DEF Ann, NewUser, Doc, UserDocumentAssumption, RoleClaims
(* A job makes documents of documents.                                     *)
LEMMA EffectsAreDocuments ==
  ASSUME UserDocumentAssumption, NEW job_ \in Job, NEW r \in Requests, NEW d \in Doc,
         NEW t \in Times
  PROVE  EffectsAt(job_, r, d, t) \subseteq Doc
<1>. DEFINE Made == EffectsAt(job_, r, d, t)
<1>1. /\ 0 \in 0..(MaxFailed - 1) /\ 0 \in 0..Forever /\ t \in 0..Forever /\ Forever \in 0..Forever
      /\ d.failed \in 0..(MaxFailed - 1) /\ d.claims \in 0..MaxClaims
      /\ MaxFailed \in Nat /\ MaxClaims \in Nat
  BY DEF UserDocumentAssumption, Forever, Times, Doc
<1>2. AccessFailed(d, t) \in Doc
  <2>1. CASE d.failed + 1 >= MaxFailed
    BY <1>1, <2>1 DEF AccessFailed, Doc
  <2>2. CASE ~(d.failed + 1 >= MaxFailed)
    <3>1. d.failed + 1 \in 0..(MaxFailed - 1)
      BY <1>1, <2>2
    <3>. QED
      BY <3>1, <2>2 DEF AccessFailed, Doc
  <2>. QED
    BY <2>1, <2>2
<1>3. \A first \in BOOLEAN : SignIn(d, t, first) \subseteq Doc
  BY <1>1, <1>2 DEF SignIn, Doc
<1>4. /\ \A n \in RoleClaims \cup {"none"} : [d EXCEPT !.role = n] \in Doc
      /\ \A n \in 0..MaxClaims : [d EXCEPT !.claims = n] \in Doc
      /\ \A n \in 0..Forever : [d EXCEPT !.lockEnd = n] \in Doc
      /\ \A ks \in SUBSET (Requests \cup {FirstKey}) : [d EXCEPT !.passkeys = ks] \in Doc
      /\ d.passkeys \subseteq Requests \cup {FirstKey}
  BY DEF Doc
<1>5. /\ [d EXCEPT !.name = "bob"] \in Doc
      /\ [d EXCEPT !.firstPassword = FALSE] \in Doc
      /\ [d EXCEPT !.code = FALSE] \in Doc
  BY DEF Doc
<1>6. CASE job_ = "guess"
  BY <1>3, <1>6 DEF EffectsAt
<1>7. CASE job_ = "sign in"
  BY <1>3, <1>7 DEF EffectsAt
<1>8. CASE job_ = "add role"
  <2>1. Made = {[d EXCEPT !.role = n] : n \in {m \in RoleClaims : d.role = "none"}}
    BY <1>8 DEF EffectsAt, AddToRole
  <2>. QED
    BY <2>1, <1>4
<1>9. CASE job_ = "remove role"
  <2>1. Made \subseteq {[d EXCEPT !.role = "none"]}
    BY <1>9 DEF EffectsAt, RemoveFromRole, When
  <2>. QED
    BY <2>1, <1>4
<1>10. CASE job_ = "add claim"
  <2>1. Made = When(d.claims < MaxClaims, [d EXCEPT !.claims = d.claims + 1])
    BY <1>10 DEF EffectsAt, AddClaim
  <2>2. d.claims < MaxClaims => d.claims + 1 \in 0..MaxClaims
    BY <1>1
  <2>. QED
    BY <2>1, <2>2, <1>4 DEF When
<1>11. CASE job_ = "remove claim"
  <2>1. Made = When(d.claims > 0, [d EXCEPT !.claims = d.claims - 1])
    BY <1>11 DEF EffectsAt, RemoveClaim
  <2>2. d.claims > 0 => d.claims - 1 \in 0..MaxClaims
    BY <1>1
  <2>. QED
    BY <2>1, <2>2, <1>4 DEF When
<1>12. CASE job_ = "rename"
  BY <1>5, <1>12 DEF EffectsAt, SaveProfile
<1>13. CASE job_ = "change password"
  <2>1. Made \subseteq {[d EXCEPT !.firstPassword = FALSE]}
    BY <1>13 DEF EffectsAt, ChangePassword, When
  <2>. QED
    BY <2>1, <1>5
<1>14. CASE job_ = "redeem code"
  <2>1. Made \subseteq {[d EXCEPT !.code = FALSE]}
    BY <1>14 DEF EffectsAt, RedeemCode, When
  <2>. QED
    BY <2>1, <1>5
<1>15. CASE job_ = "toggle lockout"
  <2>1. Made = {[d EXCEPT !.lockEnd = IF Locked(d, t) THEN 0 ELSE Forever]}
    BY <1>15 DEF EffectsAt, ToggleLockout
  <2>. QED
    BY <2>1, <1>1, <1>4
<1>16. CASE job_ \in {"enroll", "passkey sign in", "remove passkey"}
  <2>1. \A e \in Made : \E ks \in SUBSET (Requests \cup {FirstKey}) : e = [d EXCEPT !.passkeys = ks]
    <3>1. /\ d.passkeys \cup {r} \in SUBSET (Requests \cup {FirstKey})
          /\ d.passkeys \cup {FirstKey} \in SUBSET (Requests \cup {FirstKey})
          /\ d.passkeys \ {FirstKey} \in SUBSET (Requests \cup {FirstKey})
      BY <1>4
    <3>2. CASE job_ = "enroll"
      BY <3>1, <3>2 DEF EffectsAt, AddOrUpdatePasskey
    <3>3. CASE job_ = "passkey sign in"
      <4>1. Made \subseteq {[d EXCEPT !.passkeys = d.passkeys \cup {FirstKey}]}
        BY <3>3 DEF EffectsAt, AddOrUpdatePasskey, When
      <4>. QED
        BY <3>1, <4>1
    <3>4. CASE job_ = "remove passkey"
      BY <3>1, <3>4 DEF EffectsAt, RemovePasskey
    <3>. QED
      BY <3>2, <3>3, <3>4, <1>16
  <2>. QED
    BY <2>1, <1>4
<1>17. CASE job_ \in {"register", "seed", "reset password", "delete", "drop role"}
  BY <1>17 DEF EffectsAt
<1>. QED
  BY <1>6, <1>7, <1>8, <1>9, <1>10, <1>11, <1>12, <1>13, <1>14, <1>15, <1>16, <1>17
     DEF Job, Creating, SignIns, RoleJobs, Ceremonies, Other
(* What the jobs that change roles do does not depend on the time, and     *)
(* keeps the name.                                                         *)
LEMMA RoleEffects ==
  ASSUME NEW r \in Requests, NEW d \in Doc, NEW t \in Times
  PROVE  /\ EffectsAt("add role", r, d, 1) # {} =>
               \A n \in RoleClaims : [d EXCEPT !.role = n] \in EffectsAt("add role", r, d, t)
         /\ EffectsAt("remove role", r, d, 1) # {} =>
               [d EXCEPT !.role = "none"] \in EffectsAt("remove role", r, d, t)
         /\ \A e \in EffectsAt("add role", r, d, t) : e.name = d.name
<1>1. /\ EffectsAt("add role", r, d, 1) =
            {[d EXCEPT !.role = n] : n \in {m \in RoleClaims : d.role = "none"}}
      /\ EffectsAt("add role", r, d, t) =
            {[d EXCEPT !.role = n] : n \in {m \in RoleClaims : d.role = "none"}}
  BY DEF EffectsAt, AddToRole
<1>2. /\ EffectsAt("remove role", r, d, 1) = When(d.role # "none", [d EXCEPT !.role = "none"])
      /\ EffectsAt("remove role", r, d, t) = When(d.role # "none", [d EXCEPT !.role = "none"])
  BY DEF EffectsAt, RemoveFromRole
<1>4. \A e \in EffectsAt("add role", r, d, t) : e.name = d.name
  <2>. SUFFICES ASSUME NEW e \in EffectsAt("add role", r, d, t)
                PROVE  e.name = d.name
    OBVIOUS
  <2>1. PICK n \in RoleClaims : e = [d EXCEPT !.role = n]
    BY <1>1
  <2>. QED
    BY <2>1 DEF Doc
<1>5. EffectsAt("add role", r, d, 1) # {} =>
         \A n \in RoleClaims : [d EXCEPT !.role = n] \in EffectsAt("add role", r, d, t)
  <2>1. EffectsAt("add role", r, d, 1) # {} => d.role = "none"
    BY <1>1
  <2>. QED
    BY <2>1, <1>1
<1>6. EffectsAt("remove role", r, d, 1) # {} =>
         [d EXCEPT !.role = "none"] \in EffectsAt("remove role", r, d, t)
  BY <1>2 DEF When
<1>. QED
  BY <1>4, <1>5, <1>6

(* The changes of a job. *)
LEMMA Changes ==
  ASSUME NEW j \in Job
  PROVE  /\ j = "seed" => Len(Plan(j)) = 2 /\ Plan(j)[1] = "register" /\ Plan(j)[2] = "add role"
         /\ j = "drop role" => Len(Plan(j)) = 0
         /\ j \notin {"seed", "drop role"} => Len(Plan(j)) = 1 /\ Plan(j)[1] = j
BY DEF Plan

(* Whom a request is about; nobody else is about a user it creates.        *)
LEMMA Targets ==
  ASSUME UserDocumentAssumption, NEW r \in Requests
  PROVE  /\ User(r) \in Users /\ ann \in Users /\ r \in Users /\ r # ann
         /\ User(r) = IF job[r] \in Creating THEN r ELSE ann
         /\ \A q \in Requests : User(q) = r => q = r /\ job[r] \in Creating
BY DEF UserDocumentAssumption, User, Target, Users

(* Where a request is tells which change it makes next.                    *)
LEMMA WhatIsNext ==
  ASSUME TypeOK, NEW r \in Requests
  PROVE  /\ Finished(r) <=> \/ job[r] = "seed" /\ applied[r] = 2
                            \/ job[r] = "drop role" /\ applied[r] = 0
                            \/ job[r] \notin {"seed", "drop role"} /\ applied[r] = 1
         /\ SavesRole(r) => /\ ~Finished(r) /\ ~SavesAgain(r) /\ ~Creates(r)
                            /\ job[r] = "remove role" => NextChange(r) = "remove role"
                            /\ job[r] # "remove role" => NextChange(r) = "add role"
         /\ SavesAgain(r) => Finished(r) /\ ~Creates(r)
         /\ SavesOnce(r) => ~Finished(r) /\ ~SavesAgain(r)
         /\ Creates(r) => NextChange(r) = "register" /\ ~Finished(r) /\ ~SavesAgain(r)
         /\ SavesOnce(r) /\ ~Creates(r) => NextChange(r) = job[r]
<1>1. job[r] \in Job /\ applied[r] \in 0..2
  BY DEF TypeOK
<1>2. /\ job[r] = "seed" => /\ Len(Plan(job[r])) = 2 /\ Plan(job[r])[1] = "register"
                            /\ Plan(job[r])[2] = "add role"
      /\ job[r] = "drop role" => Len(Plan(job[r])) = 0
      /\ job[r] \notin {"seed", "drop role"} => Len(Plan(job[r])) = 1 /\ Plan(job[r])[1] = job[r]
  BY <1>1, Changes
<1>3. 0 + 1 = 1 /\ 1 + 1 = 2
  OBVIOUS
<1>4. CASE job[r] = "seed"
  <2>1. Finished(r) <=> applied[r] = 2
    BY <1>2, <1>4 DEF Finished
  <2>2. /\ applied[r] = 0 => NextChange(r) = "register"
        /\ applied[r] = 1 => NextChange(r) = "add role"
    BY <1>2, <1>3, <1>4 DEF NextChange
  <2>3. /\ SavesRole(r) <=> applied[r] = 1
        /\ SavesAgain(r) <=> applied[r] = 2
        /\ SavesOnce(r) <=> applied[r] = 0
        /\ Creates(r) <=> applied[r] = 0
    BY <1>4 DEF SavesRole, SavesAgain, SavesOnce, Creates, RoleJobs, Creating
  <2>4. Finished(r) <=> \/ job[r] = "seed" /\ applied[r] = 2
                        \/ job[r] = "drop role" /\ applied[r] = 0
                        \/ job[r] \notin {"seed", "drop role"} /\ applied[r] = 1
    BY <2>1, <1>4
  <2>5. SavesRole(r) => ~Finished(r) /\ ~SavesAgain(r) /\ ~Creates(r)
    BY <2>1, <2>3
  <2>6. SavesRole(r) => NextChange(r) = "add role"
    BY <2>2, <2>3
  <2>7. SavesAgain(r) => Finished(r) /\ ~Creates(r)
    BY <2>1, <2>3
  <2>8. SavesOnce(r) => ~Finished(r) /\ ~SavesAgain(r)
    BY <2>1, <2>3
  <2>9. Creates(r) => ~Finished(r) /\ ~SavesAgain(r)
    BY <2>1, <2>3
  <2>10. Creates(r) => NextChange(r) = "register"
    BY <2>2, <2>3
  <2>11. SavesOnce(r) => Creates(r)
    BY <2>3
  <2>. QED
    BY <2>4, <2>5, <2>6, <2>7, <2>8, <2>9, <2>10, <2>11, <1>4
<1>5. CASE job[r] = "drop role"
  <2>1. Finished(r) <=> applied[r] = 0
    BY <1>2, <1>5 DEF Finished
  <2>. QED
    BY <1>1, <2>1, <1>5 DEF SavesRole, SavesAgain, SavesOnce, Creates, RoleJobs, Creating
<1>6. CASE job[r] \notin {"seed", "drop role"}
  <2>1. Finished(r) <=> applied[r] = 1
    BY <1>2, <1>6 DEF Finished
  <2>2. applied[r] = 0 => NextChange(r) = job[r]
    BY <1>2, <1>3, <1>6 DEF NextChange
  <2>3. /\ SavesRole(r) <=> job[r] \in RoleJobs /\ applied[r] = 0
        /\ SavesAgain(r) <=> job[r] \in RoleJobs /\ applied[r] = 1
        /\ Creates(r) <=> job[r] = "register" /\ applied[r] = 0
        /\ SavesOnce(r) => applied[r] = 0 /\ job[r] \notin RoleJobs
    BY <1>6 DEF SavesRole, SavesAgain, SavesOnce, Creates, Creating
  <2>4. Finished(r) <=> \/ job[r] = "seed" /\ applied[r] = 2
                        \/ job[r] = "drop role" /\ applied[r] = 0
                        \/ job[r] \notin {"seed", "drop role"} /\ applied[r] = 1
    BY <2>1, <1>6
  <2>5. SavesRole(r) => ~Finished(r) /\ ~SavesAgain(r) /\ ~Creates(r)
    <3>1. SavesRole(r) => ~Finished(r) /\ ~SavesAgain(r)
      BY <2>1, <2>3
    <3>2. SavesRole(r) => ~Creates(r)
      BY <2>3 DEF RoleJobs
    <3>. QED
      BY <3>1, <3>2
  <2>6. SavesRole(r) => NextChange(r) = job[r] /\ job[r] \in RoleJobs
    BY <2>2, <2>3
  <2>7. SavesAgain(r) => Finished(r) /\ ~Creates(r)
    BY <2>1, <2>3
  <2>8. SavesOnce(r) => ~Finished(r) /\ ~SavesAgain(r)
    BY <2>1, <2>3
  <2>9. Creates(r) => ~Finished(r) /\ ~SavesAgain(r)
    BY <2>1, <2>3
  <2>10. Creates(r) => NextChange(r) = "register"
    BY <2>2, <2>3
  <2>11. SavesOnce(r) => NextChange(r) = job[r]
    BY <2>2, <2>3
  <2>. QED
    BY <2>4, <2>5, <2>6, <2>7, <2>8, <2>9, <2>10, <2>11 DEF RoleJobs
<1>. QED
  BY <1>4, <1>5, <1>6

(* A request saves a user once, or the role and then the user again. *)
LEMMA OnceIsNotRole ==
  ASSUME NEW r \in Requests, SavesOnce(r)
  PROVE  ~SavesRole(r)
<1>1. applied[r] = 0 /\ job[r] \notin RoleJobs
  BY DEF SavesOnce
<1>2. applied[r] # 1
  BY <1>1
<1>. QED
  BY <1>1, <1>2 DEF SavesRole

-----------------------------------------------------------------------------
(* What the step of one request leaves to the others. *)
Alone(r) ==
    /\ UNCHANGED job
    /\ \A q \in Requests \ {r} : /\ step'[q] = step[q] /\ copy'[q] = copy[q]
                                 /\ applied'[q] = applied[q] /\ answer'[q] = answer[q]

(* What may happen to a user: nothing, a deletion, or a save.              *)
Moves(u) ==
    /\ past[u] \subseteq past'[u]
    /\ \/ store'[u] = store[u]
       \/ store'[u].doc = Absent
       \/ store'[u].etag > store[u].etag

(* A step that leaves a request alone leaves alone what its copy is made   *)
(* of.                                                                     *)
LEMMA MadeOfStays ==
  ASSUME NEW q \in Requests, job'[q] = job[q], step'[q] = step[q], copy'[q] = copy[q],
         applied'[q] = applied[q], NEW b
  PROVE  MadeOf(q, b)' <=> MadeOf(q, b)
<1>1. /\ SavesAgain(q)' <=> SavesAgain(q)
      /\ NextChange(q)' = NextChange(q)
  BY DEF SavesAgain, NextChange
<1>2. Unsaved(q)' <=> Unsaved(q)
  BY <1>1 DEF Unsaved
<1>. QED
  BY <1>1, <1>2 DEF MadeOf

(* A request that does nothing still holds what it held.                   *)
LEMMA HeldStays ==
  ASSUME UserDocumentAssumption, TypeOK, NEW q \in Requests, Control(q), Held(q), NotYet(q),
         job'[q] = job[q], step'[q] = step[q], copy'[q] = copy[q],
         applied'[q] = applied[q], answer'[q] = answer[q],
         Moves(User(q)), Creates(q) => store'[q].doc = Absent
  PROVE  Control(q)' /\ Held(q)' /\ NotYet(q)'
<1>1. /\ SavesAgain(q)' <=> SavesAgain(q)
      /\ SavesRole(q)' <=> SavesRole(q)
      /\ SavesOnce(q)' <=> SavesOnce(q)
      /\ Creates(q)' <=> Creates(q)
      /\ Finished(q)' <=> Finished(q)
  BY DEF SavesAgain, SavesRole, SavesOnce, Creates, Finished
<1>2. Control(q)'
  BY <1>1 DEF Control
<1>3. NotYet(q)'
  BY <1>1 DEF NotYet, Document
<1>4. Held(q)'
  <2>. SUFFICES ASSUME step[q] \in Holding, ~Creates(q)
                PROVE  /\ copy'[q].etag > 0
                       /\ \E b \in past'[User(q)'] : MadeOf(q, b)'
                       /\ Current(q)' => MadeOf(q, Document(User(q)))'
    BY <1>1 DEF Held
  <2>1. User(q)' = User(q) /\ User(q) \in Users
    BY Targets DEF User
  <2>2. copy'[q].etag > 0 /\ \E b \in past[User(q)] : MadeOf(q, b)
    BY DEF Held
  <2>3. \E b \in past'[User(q)'] : MadeOf(q, b)'
    BY <2>1, <2>2, MadeOfStays DEF Moves
  <2>4. ASSUME Current(q)'
        PROVE  MadeOf(q, Document(User(q)))'
    <3>1. store'[User(q)].doc # Absent /\ copy[q].etag = store'[User(q)].etag
      BY <2>1, <2>4 DEF Current, Exists, Document
    <3>2. copy[q].etag <= store[User(q)].etag /\ copy[q].etag \in Nat /\ store[User(q)].etag \in Nat
      BY <2>1 DEF TypeOK
    <3>3. store'[User(q)] = store[User(q)]
      BY <3>1, <3>2 DEF Moves
    <3>4. MadeOf(q, store[User(q)].doc)
      BY <3>1, <3>3 DEF Held, Current, Exists, Document
    <3>5. MadeOf(q, store[User(q)].doc)'
      BY <3>4, <3>3, <2>1, MadeOfStays DEF Document
    <3>. QED
      BY <3>5 DEF Document
  <2>. QED
    BY <2>2, <2>3, <2>4
<1>. QED
  BY <1>2, <1>3, <1>4

-----------------------------------------------------------------------------
(* The types of what is neither the store's nor a request's own. *)
SideOK ==
    /\ roles \in Nat /\ now \in Times
    /\ challenge \in Requests \cup {NoChallenge}
    /\ clicks \in [Requests -> 0..MaxClicks]

Copy == [etag : Nat, doc : Doc \cup {Absent}, taken : SUBSET Users]
Answer == {"none", "done", "refused", "failed"}

(* The steps of a request that leave the store alone keep the invariant if *)
(* they keep it for the request.                                           *)
LEMMA LocalStep ==
  ASSUME UserDocumentAssumption, IInv, NEW r \in Requests, Alone(r), UNCHANGED storeVars,
         TypeOK', Control(r)', Held(r)', NotYet(r)'
  PROVE  IInv'
<1>1. store' = store /\ past' = past
  BY DEF storeVars
<1>2. PastKnown'
  BY <1>1 DEF IInv, PastKnown, Document
<1>3. ASSUME NEW q \in Requests, q # r
      PROVE  Control(q)' /\ Held(q)' /\ NotYet(q)'
  <2>1. TypeOK /\ Control(q) /\ Held(q) /\ NotYet(q)
    BY DEF IInv
  <2>2. /\ job'[q] = job[q] /\ step'[q] = step[q] /\ copy'[q] = copy[q]
        /\ applied'[q] = applied[q] /\ answer'[q] = answer[q]
    BY <1>3 DEF Alone
  <2>3. Moves(User(q))
    BY <1>1 DEF Moves
  <2>4. Creates(q) => store'[q].doc = Absent
    BY <1>1, <2>1 DEF NotYet, Document
  <2>. QED
    BY <2>1, <2>2, <2>3, <2>4, HeldStays
<1>. QED
  BY <1>2, <1>3 DEF IInv

(* A request that changes none of its own but its step and its copy.       *)
LEMMA GoStep ==
  ASSUME UserDocumentAssumption, IInv, SideOK', NEW r \in Requests, NEW s \in Step, NEW k \in Copy,
         NEW n \in 0..2, UNCHANGED <<job, storeVars>>, GoTo(r, s),
         copy' = [copy EXCEPT ![r] = k], applied' = [applied EXCEPT ![r] = n],
         k.etag <= store[User(r)].etag
  PROVE  /\ TypeOK' /\ Alone(r)
         /\ job'[r] = job[r] /\ step'[r] = s /\ copy'[r] = k /\ applied'[r] = n
         /\ answer'[r] = answer[r]
<1>1. store' = store /\ past' = past /\ job' = job /\ answer' = answer
  BY DEF storeVars, GoTo
<1>2. TypeOK
  BY DEF IInv
<1>3. step' = [step EXCEPT ![r] = s]
  BY DEF GoTo
<1>4. /\ step' \in [Requests -> Step] /\ step'[r] = s
      /\ \A q \in Requests \ {r} : step'[q] = step[q]
  BY <1>2, <1>3 DEF TypeOK
<1>5. /\ copy' \in [Requests -> Copy] /\ copy'[r] = k
      /\ \A q \in Requests \ {r} : copy'[q] = copy[q]
  BY <1>2 DEF TypeOK, Copy
<1>6. /\ applied' \in [Requests -> 0..2] /\ applied'[r] = n
      /\ \A q \in Requests \ {r} : applied'[q] = applied[q]
  BY <1>2 DEF TypeOK
<1>7. Alone(r)
  BY <1>1, <1>4, <1>5, <1>6 DEF Alone
<1>8. \A q \in Requests : copy'[q].etag <= store'[User(q)'].etag
  BY <1>1, <1>2, <1>5 DEF TypeOK, User
<1>9. TypeOK'
  BY <1>1, <1>2, <1>4, <1>5, <1>6, <1>8 DEF TypeOK, SideOK, Copy
<1>. QED
  BY <1>1, <1>4, <1>5, <1>6, <1>7, <1>9

(* A request that ends.                                                    *)
LEMMA EndStep ==
  ASSUME UserDocumentAssumption, IInv, SideOK', NEW r \in Requests,
         NEW a \in {"done", "refused", "failed"}, UNCHANGED <<job, storeVars>>,
         End(r, a), UNCHANGED <<copy, applied>>
  PROVE  IInv'
<1>1. store' = store /\ past' = past /\ job' = job /\ copy' = copy /\ applied' = applied
  BY DEF storeVars
<1>2. TypeOK
  BY DEF IInv
<1>3. /\ step' \in [Requests -> Step] /\ step'[r] = "ended"
      /\ \A q \in Requests \ {r} : step'[q] = step[q]
  BY <1>2 DEF TypeOK, End, Step
<1>4. /\ answer' \in [Requests -> Answer] /\ answer'[r] = a
      /\ \A q \in Requests \ {r} : answer'[q] = answer[q]
  BY <1>2 DEF TypeOK, End, Answer
<1>5. Alone(r)
  BY <1>1, <1>3, <1>4 DEF Alone
<1>6. TypeOK'
  BY <1>1, <1>2, <1>3, <1>4 DEF TypeOK, SideOK, Answer, User
<1>7. Control(r)'
  BY <1>3, <1>4 DEF Control
<1>8. Held(r)'
  BY <1>3 DEF Held, Holding
<1>9. NotYet(r)'
  BY <1>1, <1>3 DEF NotYet, Creates, Document, IInv
<1>. QED
  BY <1>5, <1>6, <1>7, <1>8, <1>9, LocalStep

(* Time, clicks and challenges keep their types in every step.             *)
LEMMA SideTypes ==
  ASSUME IdentityStoreAssumption, UserDocumentAssumption, TypeOK, Next
  PROVE  SideOK'
<1>1. SideOK /\ MaxClicks \in Nat /\ MaxTime \in Nat
  BY DEF TypeOK, SideOK, IdentityStoreAssumption, UserDocumentAssumption
<1>2. CASE Tick
  BY <1>1, <1>2 DEF Tick, SideOK, Times
<1>3. ASSUME NEW r \in Requests, Ceremony(r)
      PROVE  SideOK'
  <2>1. CASE Click(r)
    <3>1. /\ clicks' = [clicks EXCEPT ![r] = clicks[r] + 1] /\ clicks[r] < MaxClicks
          /\ roles' = roles /\ now' = now /\ challenge' = challenge
      BY <2>1 DEF Click
    <3>2. clicks[r] + 1 \in 0..MaxClicks
      BY <1>1, <3>1 DEF SideOK
    <3>. QED
      BY <1>1, <3>1, <3>2 DEF SideOK
  <2>2. CASE Options(r)
    BY <1>1, <2>2 DEF Options, SideOK
  <2>3. CASE Prompt(r) \/ BrowserError(r) \/ Attest(r)
    BY <1>1, <2>3 DEF Prompt, BrowserError, Attest, SideOK
  <2>. QED
    BY <1>3, <2>1, <2>2, <2>3 DEF Ceremony
<1>4. ASSUME NEW r \in Requests, Manage(r)
      PROVE  SideOK'
  <2>1. CASE New(r) \/ Find(r) \/ ResolveRole(r) \/ Validate(r) \/ Save(r) \/ SaveRefused(r)
    BY <1>1, <2>1 DEF New, Find, ResolveRole, Validate, Save, SaveRefused, SideOK
  <2>2. CASE Delete(r) \/ EnsureRole(r) \/ Return(r)
    BY <1>1, <2>2 DEF Delete, EnsureRole, Return, SideOK
  <2>3. CASE CreateRole(r) \/ DropRole(r)
    <3>1. roles' \in Nat
      <4>1. \/ roles' = roles \/ roles' = roles + 1
            \/ roles > 0 /\ roles' = roles - 1
        BY <2>3 DEF CreateRole, DropRole
      <4>. QED
        BY <1>1, <4>1 DEF SideOK
    <3>. QED
      BY <1>1, <2>3, <3>1 DEF CreateRole, DropRole, SideOK
  <2>. QED
    BY <1>4, <2>1, <2>2, <2>3 DEF Manage
<1>5. ASSUME NEW r \in Requests, Crash(r)
      PROVE  SideOK'
  BY <1>1, <1>5 DEF Crash, SideOK
<1>. QED
  BY <1>2, <1>3, <1>4, <1>5 DEF Next

(* A request on its way to the prompt and back.                            *)
Early == {"start", "options", "prompt", "post"}

(* A request that only moves between the start and the prompt keeps the    *)
(* invariant.                                                              *)
LEMMA EarlyStep ==
  ASSUME UserDocumentAssumption, IInv, SideOK', NEW r \in Requests, NEW s \in Early,
         step[r] \in Early, job[r] \notin Creating \/ s = "start", GoTo(r, s),
         NoChange, UNCHANGED job
  PROVE  IInv'
<1>1. TypeOK /\ Control(r) /\ NotYet(r) /\ s \in Step
  BY DEF IInv, Step, Early
<1>2. copy' = copy /\ applied' = applied /\ UNCHANGED storeVars /\ UNCHANGED <<job, storeVars>>
  BY DEF NoChange
<1>3. /\ copy[r] \in Copy /\ applied[r] \in 0..2
      /\ copy' = [copy EXCEPT ![r] = copy[r]] /\ applied' = [applied EXCEPT ![r] = applied[r]]
      /\ copy[r].etag <= store[User(r)].etag
  BY <1>1, <1>2 DEF TypeOK, Copy
<1>4. /\ TypeOK' /\ Alone(r)
      /\ job'[r] = job[r] /\ step'[r] = s /\ copy'[r] = copy[r] /\ applied'[r] = applied[r]
      /\ answer'[r] = answer[r]
  BY <1>1, <1>2, <1>3, GoStep
<1>5. Control(r)'
  BY <1>1, <1>4 DEF Control, Early, Creates
<1>6. Held(r)'
  BY <1>4 DEF Held, Holding, Early
<1>7. NotYet(r)'
  BY <1>1, <1>2, <1>4 DEF NotYet, Creates, Document, storeVars, Early
<1>. QED
  BY <1>2, <1>4, <1>5, <1>6, <1>7, LocalStep

(* The steps of a passkey ceremony keep the invariant.                     *)
LEMMA CeremonyKeepsIInv ==
  ASSUME UserDocumentAssumption, IInv, SideOK', NEW r \in Requests, Ceremony(r)
  PROVE  IInv'
<1>1. Control(r) /\ job[r] \in Job
  BY DEF IInv, TypeOK
<1>2. step[r] \in {"options", "prompt", "post"} => job[r] \notin Creating
  BY <1>1 DEF Control, Creates
<1>3. CASE Click(r)
  <2>1. job[r] \notin Creating
    BY <1>3 DEF Click, Ceremonies, Creating
  <2>. QED
    BY <1>3, <2>1, EarlyStep DEF Click, Early
<1>4. CASE Options(r)
  BY <1>2, <1>4, EarlyStep DEF Options, Early, AfterError
<1>5. CASE Prompt(r)
  BY <1>2, <1>5, EarlyStep DEF Prompt, Early
<1>6. CASE BrowserError(r)
  BY <1>6, EarlyStep DEF BrowserError, Early, AfterError
<1>7. CASE Attest(r)
  <2>1. PICK a \in {"done", "refused", "failed"} : End(r, a)
    BY <1>7 DEF Attest
  <2>2. UNCHANGED <<job, storeVars>> /\ UNCHANGED <<copy, applied>>
    BY <1>7 DEF Attest, NoChange
  <2>. QED
    BY <2>1, <2>2, EndStep
<1>. QED
  BY <1>3, <1>4, <1>5, <1>6, <1>7 DEF Ceremony

(* A new user in memory is not in the store yet, so the invariant holds of *)
(* it.                                                                     *)
LEMMA NewKeepsIInv ==
  ASSUME UserDocumentAssumption, IInv, SideOK', NEW r \in Requests, New(r)
  PROVE  IInv'
<1>1. TypeOK /\ Control(r) /\ NotYet(r)
  BY DEF IInv
<1>2. job[r] \in Creating /\ step[r] = "start" /\ applied[r] = 0 /\ answer[r] = "none"
  BY <1>1 DEF New, Control
<1>3. CASE End(r, "refused") /\ UNCHANGED copy
  BY <1>3, EndStep DEF New
<1>4. CASE /\ copy' = [copy EXCEPT ![r] = [etag |-> 0, doc |-> NewUser, taken |-> Rivals(r)]]
           /\ GoTo(r, "validating")
  <2>. DEFINE k == [etag |-> 0, doc |-> NewUser, taken |-> Rivals(r)]
  <2>1. Rivals(r) \subseteq Users
    BY DEF Rivals, Named
  <2>2. k \in Copy
    BY <2>1, FirstDocuments DEF Copy
  <2>3. UNCHANGED <<job, storeVars>> /\ UNCHANGED storeVars /\ applied' = applied
    BY DEF New
  <2>4. applied' = [applied EXCEPT ![r] = 0]
    BY <1>1, <1>2, <2>3 DEF TypeOK
  <2>5. k.etag <= store[User(r)].etag
    BY <1>1, Targets DEF TypeOK
  <2>6. "validating" \in Step /\ 0 \in 0..2
    BY DEF Step
  <2>. HIDE DEF k
  <2>7. /\ TypeOK' /\ Alone(r)
        /\ job'[r] = job[r] /\ step'[r] = "validating" /\ copy'[r] = k /\ applied'[r] = 0
        /\ answer'[r] = answer[r]
    BY <1>4, <2>2, <2>3, <2>4, <2>5, <2>6, GoStep DEF k
  <2>8. Control(r)'
    BY <1>2, <2>7 DEF Control, SavesOnce, Creates, Creating, RoleJobs
  <2>9. Held(r)'
    BY <1>2, <2>7 DEF Held, Creates
  <2>10. NotYet(r)'
    BY <1>1, <1>2, <2>3, <2>7 DEF NotYet, Creates, Document, storeVars, k
  <2>. QED
    BY <2>3, <2>7, <2>8, <2>9, <2>10, LocalStep
<1>. QED
  BY <1>3, <1>4 DEF New

(* Nobody but the first user has the first name: what is found is that     *)
(* user.                                                                   *)
LEMMA FoundIsAnn ==
  ASSUME UserDocumentAssumption, TypeOK, PastKnown, NEW r \in Requests, Found(r) # {}
  PROVE  Found(r) = {ann} /\ Exists(ann) /\ Document(ann) \in past[ann] /\ Document(ann) \in Doc
<1>1. ann \in Users
  BY DEF Users
<1>2. ASSUME NEW u \in Named("ann")
      PROVE  u = ann
  <2>1. u \in Users /\ Document(u) \in past[u] /\ Document(u).name = "ann"
    BY <1>2 DEF Named, Exists, PastKnown
  <2>2. u \notin Requests
    BY <2>1 DEF PastKnown
  <2>. QED
    BY <2>1, <2>2 DEF Users
<1>3. Found(r) = {ann} /\ Exists(ann)
  BY <1>2 DEF Found, Named
<1>4. Document(ann) \in past[ann]
  BY <1>1, <1>3 DEF Exists, PastKnown
<1>. QED
  BY <1>1, <1>3, <1>4 DEF TypeOK

(* A copy is found and changed in one step: it is a change of the present  *)
(* document.                                                               *)
LEMMA FindKeepsIInv ==
  ASSUME UserDocumentAssumption, IInv, SideOK', NEW r \in Requests, Find(r)
  PROVE  IInv'
<1>1. TypeOK /\ PastKnown /\ Control(r) /\ NotYet(r) /\ job[r] \in Job
  BY DEF IInv, TypeOK
<1>2. job[r] \notin Creating \cup {"drop role"} /\ UNCHANGED storeVars /\ UNCHANGED <<job, storeVars>>
  BY DEF Find
<1>3. step[r] \in {"start", "post"} /\ applied[r] = 0 /\ answer[r] = "none"
  BY <1>1 DEF Find, Begun, Control
<1>4. User(r) = ann /\ ann \in Users
  BY <1>2 DEF User, Target, Users
<1>5. CASE /\ UNCHANGED <<copy, applied>>
           /\ End(r, IF job[r] = "reset password" /\ Found(r) # {} THEN "failed" ELSE "refused")
  <2>1. PICK a \in {"done", "refused", "failed"} : End(r, a)
    BY <1>5
  <2>. QED
    BY <1>2, <1>5, <2>1, EndStep
<1>6. ASSUME Found(r) # {}, NEW doc \in Doc, Read(r, doc), NEW s \in Step, GoTo(r, s),
             NEW n \in 0..2, applied' = [applied EXCEPT ![r] = n]
      PROVE  /\ TypeOK' /\ Alone(r)
             /\ job'[r] = job[r] /\ step'[r] = s /\ applied'[r] = n /\ answer'[r] = answer[r]
             /\ copy'[r].doc = doc /\ copy'[r].etag = store[ann].etag
             /\ NotYet(r)' /\ ~Creates(r)'
  <2>. DEFINE k == [etag |-> store[ann].etag, doc |-> doc, taken |-> Rivals(r)]
  <2>1. k \in Copy
    BY <1>1, <1>4 DEF Copy, TypeOK, Rivals, Named
  <2>2. k.etag <= store[User(r)].etag
    BY <1>1, <1>4 DEF TypeOK
  <2>3. copy' = [copy EXCEPT ![r] = k]
    BY <1>6 DEF Read
  <2>4. k.doc = doc /\ k.etag = store[ann].etag
    OBVIOUS
  <2>. HIDE DEF k
  <2>5. /\ TypeOK' /\ Alone(r)
        /\ job'[r] = job[r] /\ step'[r] = s /\ copy'[r] = k /\ applied'[r] = n
        /\ answer'[r] = answer[r]
    BY <1>2, <1>6, <2>1, <2>2, <2>3, GoStep
  <2>. QED
    BY <1>2, <2>4, <2>5 DEF NotYet, Creates
<1>7. CASE /\ Found(r) # {} /\ job[r] = "delete"
           /\ Read(r, Document(ann)) /\ GoTo(r, "deleting") /\ UNCHANGED applied
  <2>1. applied' = [applied EXCEPT ![r] = 0] /\ Document(ann) \in Doc /\ "deleting" \in Step /\ 0 \in 0..2
    BY <1>1, <1>3, <1>7, FoundIsAnn DEF TypeOK, Step
  <2>2. /\ TypeOK' /\ Alone(r)
        /\ job'[r] = job[r] /\ step'[r] = "deleting" /\ applied'[r] = 0 /\ answer'[r] = answer[r]
        /\ NotYet(r)' /\ ~Creates(r)'
    BY <1>6, <1>7, <2>1
  <2>3. Control(r)'
    BY <1>3, <1>7, <2>2 DEF Control
  <2>4. Held(r)'
    BY <2>2 DEF Held, Holding
  <2>. QED
    BY <1>2, <2>2, <2>3, <2>4, LocalStep
<1>8. CASE /\ job[r] \in RoleJobs /\ Effects(r) # {}
           /\ Read(r, Document(ann)) /\ GoTo(r, "resolving") /\ UNCHANGED applied
  <2>1. Found(r) # {}
    BY <1>8 DEF Effects
  <2>2. /\ Found(r) = {ann} /\ Exists(ann) /\ Document(ann) \in past[ann] /\ Document(ann) \in Doc
        /\ applied' = [applied EXCEPT ![r] = 0] /\ "resolving" \in Step /\ 0 \in 0..2
    BY <1>1, <1>3, <1>8, <2>1, FoundIsAnn DEF TypeOK, Step
  <2>3. /\ TypeOK' /\ Alone(r)
        /\ job'[r] = job[r] /\ step'[r] = "resolving" /\ applied'[r] = 0 /\ answer'[r] = answer[r]
        /\ copy'[r].doc = Document(ann) /\ copy'[r].etag = store[ann].etag
        /\ NotYet(r)' /\ ~Creates(r)'
    BY <1>6, <1>8, <2>1, <2>2
  <2>4. SavesRole(r)' /\ ~Unsaved(r)'
    BY <1>8, <2>3 DEF SavesRole, Unsaved
  <2>5. Control(r)'
    BY <1>3, <2>3, <2>4 DEF Control
  <2>6. EffectsAt(job[r], r, Document(ann), 1) # {}
    <3>1. EffectsAt(job[r], r, Document(ann), now) # {}
      BY <1>8, <2>2 DEF Effects
    <3>. QED
      BY <1>8, <3>1 DEF EffectsAt, RemoveFromRole, AddToRole, RoleJobs, When
  <2>7. NextChange(r) = job[r]
    BY <1>1, <1>3, <1>8, WhatIsNext DEF SavesRole, RoleJobs
  <2>8. NextChange(r)' = job[r]
    BY <1>3, <2>3, <2>7 DEF NextChange
  <2>9. MadeOf(r, Document(ann))'
    <3>1. Document(ann)' = Document(ann)
      BY <1>2 DEF Document, storeVars
    <3>. QED
      BY <2>3, <2>4, <2>6, <2>8, <3>1 DEF MadeOf
  <2>10. Held(r)'
    <3>1. User(r)' = ann /\ past'[ann] = past[ann] /\ Document(ann)' = Document(ann)
      BY <1>2, <1>4, <2>3 DEF User, storeVars, Document
    <3>2. copy'[r].etag > 0
      BY <1>1, <2>3 DEF PastKnown
    <3>3. Document(ann)' \in past'[User(r)']
      BY <2>2, <3>1
    <3>. QED
      BY <2>9, <3>1, <3>2, <3>3 DEF Held
  <2>. QED
    BY <1>2, <2>3, <2>5, <2>10, LocalStep
<1>9. CASE job[r] \notin RoleJobs /\ \E doc \in Effects(r) :
                /\ Read(r, doc)
                /\ \/ /\ NeedsNoSave(r, doc)
                      /\ applied' = [applied EXCEPT ![r] = 1]
                      /\ GoTo(r, "returning")
                   \/ /\ ~NeedsNoSave(r, doc)
                      /\ GoTo(r, "validating") /\ UNCHANGED applied
  <2>1. PICK doc \in Effects(r) :
                /\ Read(r, doc)
                /\ \/ /\ NeedsNoSave(r, doc)
                      /\ applied' = [applied EXCEPT ![r] = 1]
                      /\ GoTo(r, "returning")
                   \/ /\ ~NeedsNoSave(r, doc)
                      /\ GoTo(r, "validating") /\ UNCHANGED applied
    BY <1>9
  <2>2. Found(r) # {}
    BY <2>1 DEF Effects
  <2>3. Found(r) = {ann} /\ Exists(ann) /\ Document(ann) \in past[ann] /\ Document(ann) \in Doc
    BY <1>1, <2>2, FoundIsAnn
  <2>4. doc \in EffectsAt(job[r], r, Document(ann), now) /\ now \in Times
    BY <1>1, <2>1, <2>3 DEF Effects, TypeOK
  <2>5. doc \in Doc
    BY <1>1, <2>3, <2>4, EffectsAreDocuments
  <2>6. job[r] # "delete"
    BY <2>4 DEF EffectsAt
  <2>7. CASE NeedsNoSave(r, doc) /\ applied' = [applied EXCEPT ![r] = 1] /\ GoTo(r, "returning")
    <3>1. "returning" \in Step /\ 1 \in 0..2 /\ job[r] = "sign in"
      <4>1. job[r] = "sign in"
        BY <2>7 DEF NeedsNoSave
      <4>2. "returning" \in Step
        BY DEF Step
      <4>3. 1 \in 0..2
        OBVIOUS
      <4>. QED
        BY <4>1, <4>2, <4>3
    <3>2. /\ TypeOK' /\ Alone(r)
          /\ job'[r] = job[r] /\ step'[r] = "returning" /\ applied'[r] = 1 /\ answer'[r] = answer[r]
          /\ NotYet(r)' /\ ~Creates(r)'
      BY <1>6, <2>1, <2>2, <2>5, <2>7, <3>1
    <3>3. Finished(r)'
      BY <1>1, <3>1, <3>2, Changes DEF Finished
    <3>4. Control(r)'
      BY <1>3, <3>2, <3>3 DEF Control
    <3>5. Held(r)'
      BY <3>2 DEF Held, Holding
    <3>. QED
      BY <1>2, <3>2, <3>4, <3>5, LocalStep
  <2>8. CASE GoTo(r, "validating") /\ UNCHANGED applied
    <3>1. "validating" \in Step /\ 0 \in 0..2 /\ applied' = [applied EXCEPT ![r] = 0]
      BY <1>1, <1>3, <2>8 DEF Step, TypeOK
    <3>2. /\ TypeOK' /\ Alone(r)
          /\ job'[r] = job[r] /\ step'[r] = "validating" /\ applied'[r] = 0 /\ answer'[r] = answer[r]
          /\ copy'[r].doc = doc /\ copy'[r].etag = store[ann].etag
          /\ NotYet(r)' /\ ~Creates(r)'
      BY <1>6, <2>1, <2>2, <2>5, <2>8, <3>1
    <3>3. SavesOnce(r) /\ SavesOnce(r)' /\ Unsaved(r)'
      <4>1. SavesOnce(r) /\ SavesOnce(r)'
        BY <1>2, <1>3, <1>9, <2>6, <3>2 DEF SavesOnce
      <4>2. ~SavesAgain(r)'
        BY <3>2 DEF SavesAgain
      <4>. QED
        BY <4>1, <4>2, <3>2 DEF Unsaved
    <3>4. Control(r)'
      BY <1>3, <3>2, <3>3 DEF Control
    <3>5. NextChange(r) = job[r]
      BY <1>1, <1>2, <3>3, WhatIsNext DEF Creates
    <3>6. NextChange(r)' = job[r]
      BY <1>3, <3>2, <3>5 DEF NextChange
    <3>7. MadeOf(r, Document(ann))'
      <4>1. Document(ann)' = Document(ann)
        BY <1>2 DEF Document, storeVars
      <4>2. copy'[r].doc \in EffectsAt(NextChange(r)', r, Document(ann)', now)
        BY <2>4, <3>2, <3>6, <4>1
      <4>. QED
        BY <2>4, <3>2, <3>3, <4>2 DEF MadeOf
    <3>8. Held(r)'
      <4>1. User(r)' = ann /\ past'[ann] = past[ann] /\ Document(ann)' = Document(ann)
        BY <1>2, <1>4, <3>2 DEF User, storeVars, Document
      <4>2. copy'[r].etag > 0
        BY <1>1, <3>2 DEF PastKnown
      <4>3. Document(ann)' \in past'[User(r)']
        BY <2>3, <4>1
      <4>. QED
        BY <3>7, <4>1, <4>2, <4>3 DEF Held
    <3>. QED
      BY <1>2, <3>2, <3>4, <3>8, LocalStep
  <2>. QED
    BY <2>1, <2>7, <2>8
<1>. QED
  BY <1>5, <1>7, <1>8, <1>9 DEF Find

(* Steps with a copy in hand.                                              *)
LEMMA ResolveKeepsIInv ==
  ASSUME UserDocumentAssumption, IInv, SideOK', NEW r \in Requests, ResolveRole(r)
  PROVE  IInv'
<1>. DEFINE name == IF job[r] = "remove role" THEN "none" ELSE ResolvedName
            k == [copy[r] EXCEPT !.doc = [copy[r].doc EXCEPT !.role = name]]
<1>1. TypeOK /\ Control(r) /\ Held(r) /\ job[r] \in Job
  BY DEF IInv, TypeOK
<1>2. /\ step[r] = "resolving" /\ copy' = [copy EXCEPT ![r] = k] /\ GoTo(r, "saving role")
      /\ applied' = applied /\ UNCHANGED storeVars /\ UNCHANGED <<job, storeVars>>
  BY <1>1 DEF ResolveRole, TypeOK
<1>3. SavesRole(r) /\ ~SavesAgain(r) /\ ~Creates(r) /\ ~Unsaved(r)
  BY <1>1, <1>2, WhatIsNext DEF Control, Unsaved
<1>4. /\ job[r] = "remove role" => NextChange(r) = "remove role"
      /\ job[r] # "remove role" => NextChange(r) = "add role"
  BY <1>1, <1>3, WhatIsNext
<1>5. ResolvedName \in RoleClaims /\ 1 \in Times
  BY DEF ResolvedName, RoleClaims, Times, UserDocumentAssumption
<1>6. ASSUME NEW b \in Doc, MadeOf(r, b)
      PROVE  /\ k.doc \in EffectsAt(NextChange(r), r, b, 1) /\ k.doc \in Doc
             /\ copy[r].doc = b
  <2>1. copy[r].doc = b /\ EffectsAt(NextChange(r), r, b, 1) # {}
    BY <1>2, <1>3, <1>6 DEF MadeOf
  <2>2. k.doc = [b EXCEPT !.role = name]
    BY <1>1, <2>1 DEF TypeOK
  <2>3. CASE job[r] = "remove role"
    <3>1. name = "none" /\ NextChange(r) = "remove role"
      BY <1>4, <2>3
    <3>2. [b EXCEPT !.role = "none"] \in EffectsAt("remove role", r, b, 1)
      BY <1>5, <2>1, <3>1, RoleEffects
    <3>3. [b EXCEPT !.role = "none"] \in Doc
      BY DEF Doc
    <3>. QED
      BY <2>1, <2>2, <3>1, <3>2, <3>3
  <2>4. CASE job[r] # "remove role"
    <3>1. name \in RoleClaims /\ NextChange(r) = "add role"
      BY <1>4, <1>5, <2>4
    <3>2. [b EXCEPT !.role = name] \in EffectsAt("add role", r, b, 1)
      BY <1>5, <2>1, <3>1, RoleEffects
    <3>3. [b EXCEPT !.role = name] \in Doc
      BY <3>1 DEF Doc
    <3>. QED
      BY <2>1, <2>2, <3>1, <3>2, <3>3
  <2>. QED
    BY <2>3, <2>4
<1>7. copy[r].etag > 0 /\ \E b \in past[User(r)] : MadeOf(r, b)
  BY <1>1, <1>2, <1>3 DEF Held, Holding
<1>8. past[User(r)] \subseteq Doc /\ User(r) \in Users
  BY <1>1, Targets DEF TypeOK
<1>9. PICK b \in past[User(r)] : MadeOf(r, b)
  BY <1>7
<1>10. k \in Copy /\ k.etag = copy[r].etag
  <2>1. copy[r] \in Copy
    BY <1>1 DEF TypeOK, Copy
  <2>2. k.doc = [copy[r].doc EXCEPT !.role = name] /\ k.etag = copy[r].etag
    BY <2>1 DEF Copy
  <2>3. k.doc \in Doc
    BY <1>6, <1>8, <1>9
  <2>4. \A d \in Doc : [copy[r] EXCEPT !.doc = d] \in Copy
    BY <2>1 DEF Copy
  <2>. QED
    BY <2>2, <2>3, <2>4
<1>11. /\ applied[r] \in 0..2 /\ applied' = [applied EXCEPT ![r] = applied[r]]
       /\ k.etag <= store[User(r)].etag /\ "saving role" \in Step
  BY <1>1, <1>2, <1>10 DEF TypeOK, Step
<1>. HIDE DEF k
<1>12. /\ TypeOK' /\ Alone(r)
       /\ job'[r] = job[r] /\ step'[r] = "saving role" /\ copy'[r] = k /\ applied'[r] = applied[r]
       /\ answer'[r] = answer[r]
  BY <1>2, <1>10, <1>11, GoStep
<1>13. /\ SavesRole(r)' /\ ~SavesAgain(r)' /\ ~Creates(r)'
       /\ NextChange(r)' = NextChange(r) /\ Unsaved(r)'
  <2>1. SavesRole(r)' /\ ~SavesAgain(r)' /\ ~Creates(r)' /\ NextChange(r)' = NextChange(r)
    BY <1>3, <1>12 DEF SavesRole, SavesAgain, Creates, NextChange
  <2>. QED
    BY <2>1, <1>12 DEF Unsaved
<1>14. Control(r)'
  BY <1>1, <1>2, <1>12, <1>13 DEF Control
<1>15. ASSUME NEW c \in Doc, MadeOf(r, c)
       PROVE  MadeOf(r, c)'
  BY <1>5, <1>6, <1>12, <1>13, <1>15 DEF MadeOf
<1>16. User(r)' = User(r) /\ store' = store /\ past' = past
  BY <1>2 DEF User, storeVars
<1>17. Held(r)'
  <2>1. copy'[r].etag > 0 /\ \E c \in past'[User(r)'] : MadeOf(r, c)'
    BY <1>7, <1>8, <1>9, <1>10, <1>12, <1>15, <1>16
  <2>2. ASSUME Current(r)'
        PROVE  MadeOf(r, Document(User(r)))'
    <3>1. Current(r) /\ Document(User(r))' = Document(User(r))
      BY <1>10, <1>12, <1>16, <2>2 DEF Current, Exists, Document
    <3>2. MadeOf(r, Document(User(r))) /\ Document(User(r)) \in Doc
      <4>1. Document(User(r)) \in Doc
        BY <1>1, <1>8, <3>1 DEF TypeOK, Current, Exists, Document
      <4>. QED
        BY <1>1, <1>2, <1>3, <3>1, <4>1 DEF Held, Holding
    <3>3. \A c \in Doc : MadeOf(r, c) => MadeOf(r, c)'
      BY <1>15
    <3>. QED
      BY <3>1, <3>2, <3>3 DEF MadeOf
  <2>. QED
    BY <2>1, <2>2 DEF Held
<1>18. NotYet(r)'
  BY <1>13 DEF NotYet
<1>. QED
  BY <1>2, <1>12, <1>14, <1>17, <1>18, LocalStep

(* A step that only moves on, in hand of the same copy.                    *)
LEMMA MoveOnKeepsIInv ==
  ASSUME UserDocumentAssumption, IInv, SideOK', NEW r \in Requests, NEW s \in Step,
         GoTo(r, s), NoChange, UNCHANGED job,
         \/ step[r] = "validating" /\ s = "saving"
         \/ step[r] = "ensuring role" /\ s \in {"creating role", "resolving"}
         \/ step[r] = "creating role" /\ s = "resolving"
  PROVE  IInv'
<1>1. TypeOK /\ Control(r) /\ Held(r) /\ NotYet(r)
  BY DEF IInv
<1>2. copy' = copy /\ applied' = applied /\ UNCHANGED storeVars /\ UNCHANGED <<job, storeVars>>
  BY DEF NoChange
<1>3. /\ copy[r] \in Copy /\ applied[r] \in 0..2
      /\ copy' = [copy EXCEPT ![r] = copy[r]] /\ applied' = [applied EXCEPT ![r] = applied[r]]
      /\ copy[r].etag <= store[User(r)].etag
  BY <1>1, <1>2 DEF TypeOK, Copy
<1>4. /\ TypeOK' /\ Alone(r)
      /\ job'[r] = job[r] /\ step'[r] = s /\ copy'[r] = copy[r] /\ applied'[r] = applied[r]
      /\ answer'[r] = answer[r]
  BY <1>2, <1>3, GoStep
<1>5. /\ SavesAgain(r)' <=> SavesAgain(r)
      /\ SavesRole(r)' <=> SavesRole(r)
      /\ SavesOnce(r)' <=> SavesOnce(r)
      /\ Creates(r)' <=> Creates(r)
      /\ NextChange(r)' = NextChange(r)
  BY <1>4 DEF SavesAgain, SavesRole, SavesOnce, Creates, NextChange
<1>6. s = "resolving" => SavesRole(r)
  BY <1>1 DEF Control, SavesRole
<1>7. Control(r)'
  <2>1. CASE step[r] = "validating" /\ s = "saving"
    BY <1>1, <1>4, <1>5, <2>1 DEF Control
  <2>2. CASE step[r] = "ensuring role" /\ s = "creating role"
    BY <1>1, <1>4, <1>5, <2>2 DEF Control, Creates
  <2>3. CASE step[r] \in {"ensuring role", "creating role"} /\ s = "resolving"
    BY <1>1, <1>4, <1>5, <1>6, <2>3 DEF Control, Creates
  <2>. QED
    BY <2>1, <2>2, <2>3
<1>8. \A b : MadeOf(r, b) => MadeOf(r, b)'
  <2>1. Unsaved(r)' <=> Unsaved(r)
    BY <1>4, <1>5 DEF Unsaved
  <2>2. /\ copy'[r].doc = copy[r].doc /\ step'[r] = s
        /\ s \in {"resolving", "creating role"} =>
              step[r] \in {"resolving", "ensuring role", "creating role"}
        /\ s \notin {"resolving", "creating role"} => s = "saving"
    BY <1>4
  <2>. QED
    BY <1>5, <2>1, <2>2 DEF MadeOf
<1>9. User(r)' = User(r) /\ store' = store /\ past' = past
  BY <1>2 DEF User, storeVars
<1>10. Held(r)'
  <2>1. CASE Creates(r)
    BY <1>5, <2>1 DEF Held
  <2>2. CASE ~Creates(r)
    <3>1. /\ copy[r].etag > 0 /\ \E b \in past[User(r)] : MadeOf(r, b)
          /\ Current(r) => MadeOf(r, Document(User(r)))
      BY <1>1, <2>2 DEF Held, Holding
    <3>2. /\ Current(r)' <=> Current(r)
          /\ Document(User(r))' = Document(User(r))
      BY <1>4, <1>9 DEF Current, Exists, Document
    <3>3. Current(r)' => MadeOf(r, Document(User(r)))'
      <4>1. ASSUME Current(r)'
            PROVE  MadeOf(r, Document(User(r)))'
        <5>1. MadeOf(r, store[User(r)].doc)
          BY <3>1, <3>2, <4>1 DEF Document
        <5>2. MadeOf(r, store[User(r)].doc)'
          BY <5>1, <1>8, <1>9
        <5>. QED
          BY <5>2 DEF Document
      <4>. QED
        BY <4>1
    <3>. QED
      BY <1>4, <1>8, <1>9, <3>1, <3>3 DEF Held
  <2>. QED
    BY <2>1, <2>2
<1>11. NotYet(r)'
  BY <1>1, <1>4, <1>5, <1>9 DEF NotYet, Document
<1>. QED
  BY <1>2, <1>4, <1>7, <1>10, <1>11, LocalStep

(* The steps that change the store. *)
LEMMA StoreStep ==
  ASSUME UserDocumentAssumption, IInv, NEW r \in Requests, Alone(r), TypeOK', PastKnown',
         \A u \in Users : Moves(u),
         \A q \in Requests \ {r} : store'[q] = store[q],
         Control(r)', Held(r)', NotYet(r)'
  PROVE  IInv'
<1>1. ASSUME NEW q \in Requests, q # r
      PROVE  Control(q)' /\ Held(q)' /\ NotYet(q)'
  <2>1. TypeOK /\ Control(q) /\ Held(q) /\ NotYet(q)
    BY DEF IInv
  <2>2. /\ job'[q] = job[q] /\ step'[q] = step[q] /\ copy'[q] = copy[q]
        /\ applied'[q] = applied[q] /\ answer'[q] = answer[q]
    BY <1>1 DEF Alone
  <2>3. Moves(User(q))
    BY Targets
  <2>4. Creates(q) => store'[q].doc = Absent
    BY <1>1, <2>1 DEF NotYet, Document
  <2>. QED
    BY <2>1, <2>2, <2>3, <2>4, HeldStays
<1>. QED
  BY <1>1 DEF IInv

(* Whoever holds a copy of a deleted document holds one of a past          *)
(* document.                                                               *)
LEMMA DeleteKeepsIInv ==
  ASSUME UserDocumentAssumption, IInv, SideOK', NEW r \in Requests, Delete(r)
  PROVE  IInv'
<1>1. TypeOK /\ PastKnown /\ Control(r) /\ NotYet(r)
  BY DEF IInv
<1>2. /\ step[r] = "deleting" /\ job[r] = "delete" /\ applied[r] = 0 /\ answer[r] = "none"
      /\ job' = job /\ past' = past /\ copy' = copy
  BY <1>1 DEF Delete, Control
<1>3. CASE End(r, "failed") /\ UNCHANGED <<store, applied>>
  BY <1>2, <1>3, EndStep DEF storeVars
<1>4. CASE /\ store' = [store EXCEPT ![ann].doc = Absent]
           /\ applied' = [applied EXCEPT ![r] = 1] /\ GoTo(r, "returning")
  <2>1. /\ ann \in Users /\ ann \notin Requests
    BY DEF Users, UserDocumentAssumption
  <2>2. /\ store' \in [Users -> [etag : Nat, doc : Doc \cup {Absent}]]
        /\ store'[ann].doc = Absent
        /\ \A u \in Users : store'[u].etag = store[u].etag
        /\ \A u \in Users \ {ann} : store'[u] = store[u]
    BY <1>1, <1>4, <2>1 DEF TypeOK
  <2>3. /\ step' \in [Requests -> Step] /\ step'[r] = "returning"
        /\ \A q \in Requests \ {r} : step'[q] = step[q]
    BY <1>1, <1>4 DEF TypeOK, GoTo, Step
  <2>4. /\ applied' \in [Requests -> 0..2] /\ applied'[r] = 1
        /\ \A q \in Requests \ {r} : applied'[q] = applied[q]
    BY <1>1, <1>4 DEF TypeOK
  <2>5. answer' = answer
    BY <1>4 DEF GoTo
  <2>6. Alone(r)
    BY <1>2, <2>3, <2>4, <2>5 DEF Alone
  <2>7. \A q \in Requests : copy'[q].etag <= store'[User(q)'].etag
    <3>1. \A q \in Requests : User(q)' = User(q) /\ User(q) \in Users
      BY <1>2, Targets DEF User
    <3>. QED
      BY <1>1, <1>2, <2>2, <3>1 DEF TypeOK
  <2>8. TypeOK'
    BY <1>1, <1>2, <2>2, <2>3, <2>4, <2>5, <2>7 DEF TypeOK, SideOK
  <2>9. PastKnown'
    BY <1>1, <1>2, <2>1, <2>2 DEF PastKnown, Document
  <2>10. \A u \in Users : Moves(u)
    BY <1>2, <2>2 DEF Moves
  <2>11. \A q \in Requests \ {r} : store'[q] = store[q]
    BY <2>1, <2>2 DEF Users
  <2>12. Finished(r)'
    <3>1. Len(Plan(job[r])) = 1
      BY <1>2, Changes DEF Job, Other
    <3>. QED
      BY <1>2, <2>4, <3>1 DEF Finished
  <2>13. Control(r)'
    BY <1>2, <2>3, <2>4, <2>5, <2>12 DEF Control, Creates
  <2>14. Held(r)' /\ NotYet(r)'
    BY <1>2, <2>3, <2>4 DEF Held, Holding, NotYet, Creates
  <2>. QED
    BY <2>6, <2>8, <2>9, <2>10, <2>11, <2>13, <2>14, StoreStep
<1>. QED
  BY <1>3, <1>4 DEF Delete

(* What a save puts in the place of what: a new user in the place of none; *)
(* a change of the present document or, if the user was deleted, of one it *)
(* had; or, when a request saves again, that document itself.              *)
Origins(u) == IF Exists(u) THEN {Document(u)} ELSE past[u]

(* What a save writes: a new user, a change of an origin, or an origin     *)
(* once more.                                                              *)
LEMMA WhatIsSaved ==
  ASSUME UserDocumentAssumption, IInv, NEW r \in Requests, Save(r)
  PROVE  /\ copy[r].doc \in Doc
         /\ job[r] \in Creating => copy[r].doc.name = "bob"
         /\ SavesOnce(r) \/ SavesRole(r) \/ SavesAgain(r)
         /\ Creates(r) => copy[r].doc = NewUser /\ ~Exists(User(r))
         /\ SavesAgain(r) => copy[r].doc \in Origins(User(r)) /\ copy[r].doc \in past[User(r)]
         /\ ~Creates(r) /\ ~SavesAgain(r) =>
               \E d \in Origins(User(r)), t \in Times :
                  copy[r].doc \in EffectsAt(NextChange(r), r, d, t)
<1>. DEFINE u == User(r)
<1>1. TypeOK /\ PastKnown /\ Control(r) /\ Held(r) /\ NotYet(r) /\ u \in Users
  BY Targets DEF IInv
<1>2. /\ step[r] = "saving" \/ step[r] = "saving role"
      /\ Matches(r) \/ ~Exists(u)
  BY DEF Save, MayUpsert
<1>3. SavesOnce(r) \/ SavesRole(r) \/ SavesAgain(r)
  BY <1>1, <1>2 DEF Control
<1>4. step[r] = "saving role" => SavesRole(r)
  BY <1>1 DEF Control
<1>5. CASE Creates(r)
  <2>1. step[r] = "saving" /\ ~SavesAgain(r)
    BY <1>1, <1>2, <1>4, <1>5, WhatIsNext
  <2>2. copy[r].doc = NewUser /\ ~Exists(r)
    BY <1>1, <1>5, <2>1 DEF NotYet, Exists
  <2>3. u = r
    BY <1>5, Targets DEF Creates
  <2>4. NewUser \in Doc /\ NewUser.name = "bob"
    BY FirstDocuments DEF NewUser
  <2>. QED
    BY <1>3, <1>5, <2>1, <2>2, <2>3, <2>4
<1>6. CASE ~Creates(r)
  <2>1. /\ copy[r].etag > 0 /\ \E b \in past[u] : MadeOf(r, b)
        /\ Current(r) => MadeOf(r, Document(u))
    BY <1>1, <1>2, <1>6 DEF Held, Holding
  <2>2. Exists(u) => Current(r)
    <3>1. copy[r].etag # 0
      BY <1>1, <2>1 DEF TypeOK
    <3>2. Exists(u) => copy[r].etag \in {0, store[u].etag}
      BY <1>2 DEF Matches
    <3>. QED
      BY <3>1, <3>2 DEF Current
  <2>3. Unsaved(r) <=> ~SavesAgain(r)
    BY <1>2 DEF Unsaved
  <2>4. \E d \in Origins(u) : d \in past[u] /\ MadeOf(r, d)
    <3>1. CASE Exists(u)
      <4>1. Document(u) \in past[u]
        BY <1>1, <3>1 DEF PastKnown, Exists
      <4>. QED
        BY <2>1, <2>2, <3>1, <4>1 DEF Origins
    <3>2. CASE ~Exists(u)
      BY <2>1, <3>2 DEF Origins
    <3>. QED
      BY <3>1, <3>2
  <2>5. PICK d \in Origins(u) : d \in past[u] /\ MadeOf(r, d)
    BY <2>4
  <2>6. d \in Doc
    BY <1>1, <2>5 DEF TypeOK
  <2>7. CASE SavesAgain(r)
    <3>1. copy[r].doc = d
      BY <2>3, <2>5, <2>7 DEF MadeOf
    <3>2. job[r] \in Creating => d.name = "bob"
      <4>1. job[r] \in Creating => u = r
        BY Targets
      <4>. QED
        BY <1>1, <2>5, <4>1 DEF PastKnown
    <3>. QED
      BY <1>3, <1>6, <2>5, <2>6, <2>7, <3>1, <3>2
  <2>8. CASE ~SavesAgain(r)
    <3>1. PICK t \in Times : copy[r].doc \in EffectsAt(NextChange(r), r, d, t)
      BY <2>3, <2>5, <2>8 DEF MadeOf
    <3>2. NextChange(r) \in Job
      <4>1. job[r] \in Job
        BY <1>1 DEF TypeOK
      <4>2. CASE SavesOnce(r)
        BY <1>1, <1>6, <4>1, <4>2, WhatIsNext
      <4>3. CASE SavesRole(r)
        <5>1. NextChange(r) = "add role" \/ NextChange(r) = "remove role"
          BY <1>1, <4>3, WhatIsNext
        <5>. QED
          BY <5>1 DEF Job, RoleJobs
      <4>. QED
        BY <1>3, <2>8, <4>2, <4>3
    <3>3. copy[r].doc \in Doc
      BY <2>6, <3>1, <3>2, EffectsAreDocuments
    <3>4. job[r] \in Creating => copy[r].doc.name = "bob"
      <4>. SUFFICES ASSUME job[r] \in Creating
                    PROVE  copy[r].doc.name = "bob"
        OBVIOUS
      <4>1. u = r
        BY Targets
      <4>2. d.name = "bob"
        BY <1>1, <2>5, <4>1 DEF PastKnown
      <4>3. SavesRole(r) /\ job[r] # "remove role"
        BY <1>3, <1>6, <2>8 DEF SavesOnce, Creates, Creating
      <4>4. NextChange(r) = "add role"
        BY <1>1, <4>3, WhatIsNext
      <4>5. \A e \in EffectsAt("add role", r, d, t) : e.name = d.name
        BY <2>6, RoleEffects
      <4>. QED
        BY <3>1, <4>2, <4>4, <4>5
    <3>. QED
      BY <1>3, <1>6, <2>5, <2>8, <3>1, <3>3, <3>4
  <2>. QED
    BY <2>7, <2>8
<1>. QED
  BY <1>5, <1>6

(* A save gives its document a new etag: nobody else's copy is current any *)
(* more.                                                                   *)
LEMMA SaveKeepsIInv ==
  ASSUME UserDocumentAssumption, IInv, SideOK', NEW r \in Requests, Save(r)
  PROVE  IInv'
<1>. DEFINE u == User(r)
            d == copy[r].doc
            e == NewEtag(u)
            n == IF Finished(r) THEN applied[r] ELSE applied[r] + 1
<1>1. TypeOK /\ PastKnown /\ Control(r) /\ NotYet(r) /\ u \in Users
  BY Targets DEF IInv
<1>2. /\ step[r] = "saving" \/ step[r] = "saving role"
      /\ store' = [store EXCEPT ![u] = [etag |-> e, doc |-> d]]
      /\ past' = [past EXCEPT ![u] = past[u] \cup {d}]
      /\ copy' = [copy EXCEPT ![r] = [copy[r] EXCEPT !.etag = e]]
      /\ applied' = [applied EXCEPT ![r] = n]
      /\ GoTo(r, AfterSave(r)) /\ job' = job
  BY <1>1 DEF Save, TypeOK
<1>3. /\ d \in Doc
      /\ job[r] \in Creating => d.name = "bob"
      /\ SavesOnce(r) \/ SavesRole(r) \/ SavesAgain(r)
  BY WhatIsSaved
<1>4. e \in Nat /\ e = store[u].etag + 1 /\ store[u].etag \in Nat
  BY <1>1 DEF NewEtag, TypeOK
<1>5. n \in 0..2 /\ ~Creates(r)' /\ applied'[r] = n
  <2>1. applied[r] \in 0..2 /\ job[r] \in Job
    BY <1>1 DEF TypeOK
  <2>2. n \in 0..2 /\ n # 0
    <3>1. CASE SavesAgain(r)
      <4>1. n = applied[r]
        BY <1>1, <3>1, WhatIsNext
      <4>2. applied[r] # 0
        BY <3>1 DEF SavesAgain
      <4>. QED
        BY <2>1, <4>1, <4>2
    <3>2. CASE SavesOnce(r) \/ SavesRole(r)
      <4>1. n = applied[r] + 1
        BY <1>1, <3>2, WhatIsNext
      <4>2. applied[r] = 0 \/ applied[r] = 1
        BY <3>2 DEF SavesOnce, SavesRole
      <4>. QED
        BY <4>1, <4>2
    <3>. QED
      BY <1>3, <3>1, <3>2
  <2>3. applied'[r] = n
    BY <1>1, <1>2 DEF TypeOK
  <2>. QED
    BY <2>2, <2>3 DEF Creates
<1>6. /\ store' \in [Users -> [etag : Nat, doc : Doc \cup {Absent}]]
      /\ store'[u].etag = e /\ store'[u].doc = d
      /\ \A v \in Users \ {u} : store'[v] = store[v]
  BY <1>1, <1>2, <1>3, <1>4 DEF TypeOK
<1>7. /\ past' \in [Users -> SUBSET Doc]
      /\ past'[u] = past[u] \cup {d}
      /\ \A v \in Users \ {u} : past'[v] = past[v]
  BY <1>1, <1>2, <1>3 DEF TypeOK
<1>8. /\ copy' \in [Requests -> Copy]
      /\ copy'[r].etag = e /\ copy'[r].doc = d
      /\ \A q \in Requests \ {r} : copy'[q] = copy[q]
  <2>1. copy[r] \in Copy /\ copy \in [Requests -> Copy]
    BY <1>1 DEF TypeOK, Copy
  <2>2. /\ [copy[r] EXCEPT !.etag = e] \in Copy
        /\ [copy[r] EXCEPT !.etag = e].etag = e /\ [copy[r] EXCEPT !.etag = e].doc = d
    BY <1>4, <2>1 DEF Copy
  <2>. QED
    BY <1>2, <2>1, <2>2
<1>9. /\ step' \in [Requests -> Step] /\ step'[r] = AfterSave(r)
      /\ \A q \in Requests \ {r} : step'[q] = step[q]
  <2>1. AfterSave(r) \in Step
    BY DEF AfterSave, Step
  <2>. QED
    BY <1>1, <1>2, <2>1 DEF TypeOK, GoTo
<1>10. /\ applied' \in [Requests -> 0..2]
       /\ \A q \in Requests \ {r} : applied'[q] = applied[q]
  BY <1>1, <1>2, <1>5 DEF TypeOK
<1>11. answer' = answer
  BY <1>2 DEF GoTo
<1>12. Alone(r)
  BY <1>2, <1>8, <1>9, <1>10, <1>11 DEF Alone
<1>13. \A v \in Users : Moves(v)
  BY <1>4, <1>6, <1>7 DEF Moves
<1>14. \A q \in Requests \ {r} : store'[q] = store[q]
  BY <1>6, Targets DEF Users
<1>15. TypeOK'
  <2>1. \A q \in Requests : User(q)' = User(q) /\ User(q) \in Users
    BY <1>2, Targets DEF User
  <2>2. \A q \in Requests : copy'[q].etag <= store'[User(q)'].etag
    <3>. SUFFICES ASSUME NEW q \in Requests
                  PROVE  copy'[q].etag <= store'[User(q)].etag
      BY <2>1
    <3>1. /\ copy[q].etag <= store[User(q)].etag
          /\ copy[q].etag \in Nat /\ store[User(q)].etag \in Nat
      BY <1>1, <2>1 DEF TypeOK
    <3>2. CASE q = r
      BY <1>4, <1>6, <1>8, <3>2
    <3>3. CASE q # r /\ User(q) = u
      BY <1>4, <1>6, <1>8, <3>1, <3>3
    <3>4. CASE q # r /\ User(q) # u
      BY <1>6, <1>8, <2>1, <3>1, <3>4
    <3>. QED
      BY <3>2, <3>3, <3>4
  <2>. QED
    BY <1>1, <1>2, <1>6, <1>7, <1>8, <1>9, <1>10, <1>11, <2>2 DEF TypeOK, SideOK, Copy
<1>16. PastKnown'
  <2>1. \A v \in Users : store'[v].doc \in past'[v] \cup {Absent}
    BY <1>1, <1>6, <1>7 DEF PastKnown, Document
  <2>2. \A q \in Requests : \A c \in past'[q] : c.name = "bob"
    <3>. SUFFICES ASSUME NEW q \in Requests, NEW c \in past'[q]
                  PROVE  c.name = "bob"
      OBVIOUS
    <3>1. q \in Users
      BY DEF Users
    <3>2. CASE q = u
      <4>1. job[r] \in Creating
        BY <3>2, Targets
      <4>. QED
        BY <1>1, <1>3, <1>7, <3>2, <4>1 DEF PastKnown
    <3>3. CASE q # u
      BY <1>1, <1>7, <3>1, <3>3 DEF PastKnown
    <3>. QED
      BY <3>2, <3>3
  <2>3. store'[ann].etag > 0
    <3>1. ann \in Users
      BY DEF Users
    <3>. QED
      BY <1>1, <1>4, <1>6, <3>1 DEF PastKnown
  <2>. QED
    BY <2>1, <2>2, <2>3 DEF PastKnown, Document
<1>17. answer'[r] = "none" /\ job'[r] = job[r] /\ job[r] \in Job
  BY <1>1, <1>2, <1>11 DEF Control, TypeOK
<1>18. SavesRole(r) => step'[r] = "validating" /\ SavesAgain(r)'
  <2>. SUFFICES ASSUME SavesRole(r)
                PROVE  step'[r] = "validating" /\ SavesAgain(r)'
    OBVIOUS
  <2>1. ~SavesOnce(r) /\ ~SavesAgain(r) /\ ~Finished(r)
    <3>1. ~SavesAgain(r) /\ ~Finished(r)
      BY <1>1, WhatIsNext
    <3>2. ~SavesOnce(r)
      BY OnceIsNotRole
    <3>. QED
      BY <3>1, <3>2
  <2>2. step[r] = "saving role"
    BY <1>1, <1>2, <2>1 DEF Control
  <2>3. step'[r] = "validating"
    BY <1>9, <2>2 DEF AfterSave
  <2>4. n = applied[r] + 1
    BY <2>1
  <2>5. SavesAgain(r)'
    <3>1. CASE job[r] \in RoleJobs /\ applied[r] = 0
      BY <1>5, <1>17, <2>4, <3>1 DEF SavesAgain
    <3>2. CASE job[r] = "seed" /\ applied[r] = 1
      BY <1>5, <1>17, <2>4, <3>2 DEF SavesAgain
    <3>. QED
      BY <3>1, <3>2 DEF SavesRole
  <2>. QED
    BY <2>3, <2>5
<1>19. SavesOnce(r) \/ SavesAgain(r) => step[r] = "saving"
  <2>1. SavesOnce(r) => ~SavesRole(r)
    BY OnceIsNotRole
  <2>2. SavesAgain(r) => ~SavesRole(r)
    BY <1>1, WhatIsNext
  <2>. QED
    BY <1>1, <1>2, <2>1, <2>2 DEF Control
<1>20. SavesOnce(r) /\ job[r] = "seed" =>
          step'[r] = "ensuring role" /\ applied'[r] = 1 /\ d = NewUser
  <2>. SUFFICES ASSUME SavesOnce(r), job[r] = "seed"
                PROVE  step'[r] = "ensuring role" /\ applied'[r] = 1 /\ d = NewUser
    OBVIOUS
  <2>1. applied[r] = 0 /\ step[r] = "saving" /\ ~Finished(r)
    BY <1>1, <1>19, WhatIsNext DEF SavesOnce
  <2>2. Creates(r)
    BY <2>1 DEF Creates, Creating
  <2>3. d = NewUser
    BY <2>2, WhatIsSaved
  <2>4. step'[r] = "ensuring role"
    BY <1>9, <2>1 DEF AfterSave
  <2>5. applied'[r] = 1
    <3>1. n = applied[r] + 1 /\ applied[r] = 0
      BY <2>1
    <3>2. n = 1
      BY <3>1
    <3>. QED
      BY <1>5, <3>2
  <2>. QED
    BY <2>3, <2>4, <2>5
<1>21. (SavesOnce(r) /\ job[r] # "seed") \/ SavesAgain(r) => step'[r] = "returning" /\ Finished(r)'
  <2>1. CASE SavesAgain(r)
    <3>1. Finished(r)
      BY <1>1, <2>1, WhatIsNext
    <3>2. applied'[r] = applied[r]
      BY <1>5, <3>1
    <3>3. Finished(r)'
      BY <1>17, <3>1, <3>2 DEF Finished
    <3>4. step[r] = "saving"
      BY <1>19, <2>1
    <3>5. applied[r] = 1 \/ applied[r] = 2
      BY <2>1 DEF SavesAgain
    <3>6. applied[r] # 0
      BY <3>5
    <3>7. step'[r] = "returning"
      BY <1>9, <3>4, <3>6 DEF AfterSave
    <3>. QED
      BY <3>3, <3>7
  <2>2. CASE SavesOnce(r) /\ job[r] # "seed"
    <3>1. ~Finished(r) /\ step[r] = "saving" /\ applied[r] = 0 /\ job[r] # "drop role"
      <4>1. ~Finished(r)
        BY <1>1, <2>2, WhatIsNext
      <4>2. step[r] = "saving"
        BY <1>19, <2>2
      <4>3. applied[r] = 0
        BY <2>2 DEF SavesOnce
      <4>4. job[r] # "drop role"
        BY <2>2 DEF SavesOnce
      <4>. QED
        BY <4>1, <4>2, <4>3, <4>4
    <3>2. applied'[r] = 1
      <4>1. n = applied[r] + 1 /\ applied[r] = 0
        BY <3>1
      <4>2. n = 1
        BY <4>1
      <4>. QED
        BY <1>5, <4>2
    <3>3. Len(Plan(job[r])) = 1
      BY <1>17, <2>2, <3>1, Changes
    <3>4. Finished(r)'
      BY <1>17, <3>2, <3>3 DEF Finished
    <3>5. step'[r] = "returning"
      BY <1>9, <2>2, <3>1 DEF AfterSave
    <3>. QED
      BY <3>4, <3>5
  <2>. QED
    BY <2>1, <2>2
<1>25. User(r)' = u
  BY <1>2 DEF User
<1>26. Document(User(r))' = d /\ d \in past'[u] /\ e > 0
  <2>1. Document(User(r))' = store'[u].doc
    BY <1>25 DEF Document
  <2>2. d \in past'[u]
    BY <1>7
  <2>3. e > 0
    BY <1>4
  <2>. QED
    BY <1>6, <2>1, <2>2, <2>3
<1>22. CASE SavesRole(r)
  <2>1. Control(r)'
    BY <1>5, <1>17, <1>18, <1>22 DEF Control
  <2>2. ~Unsaved(r)' /\ \A b : b = d => MadeOf(r, b)'
    BY <1>8, <1>18, <1>22 DEF Unsaved, MadeOf
  <2>3. Held(r)'
    <3>1. User(r)' = u /\ Document(User(r))' = d /\ d \in past'[u] /\ e > 0
      BY <1>25, <1>26
    <3>2. MadeOf(r, Document(User(r)))'
      BY <2>2, <3>1
    <3>. QED
      BY <1>8, <2>2, <3>1, <3>2 DEF Held
  <2>. QED
    BY <1>12, <1>13, <1>14, <1>15, <1>16, <2>1, <2>3, <1>5, StoreStep DEF NotYet
<1>23. CASE SavesOnce(r) /\ job[r] = "seed"
  <2>1. step'[r] = "ensuring role" /\ applied'[r] = 1 /\ d = NewUser
    BY <1>20, <1>23
  <2>2. Control(r)'
    BY <1>5, <1>17, <1>23, <2>1 DEF Control
  <2>3. EffectsAt("add role", r, NewUser, 1) # {}
    <3>1. EffectsAt("add role", r, NewUser, 1) = {[NewUser EXCEPT !.role = m] : m \in RoleClaims}
      BY DEF EffectsAt, AddToRole, NewUser
    <3>2. "UserAdmin" \in RoleClaims
      BY DEF RoleClaims
    <3>. QED
      BY <3>1, <3>2
  <2>4. NextChange(r)' = "add role"
    <3>1. Plan(job'[r])[2] = "add role"
      BY <1>17, <1>23, Changes
    <3>2. applied'[r] + 1 = 2
      <4>1. applied'[r] = 1
        BY <2>1
      <4>. QED
        BY <4>1
    <3>. QED
      BY <3>1, <3>2 DEF NextChange
  <2>5. ~Unsaved(r)'
    BY <2>1 DEF Unsaved
  <2>6. \A b : b = d => MadeOf(r, b)'
    BY <1>8, <2>1, <2>3, <2>4, <2>5 DEF MadeOf
  <2>7. Held(r)'
    <3>1. User(r)' = u /\ Document(User(r))' = d /\ d \in past'[u] /\ e > 0
      BY <1>25, <1>26
    <3>2. MadeOf(r, Document(User(r)))'
      BY <2>6, <3>1
    <3>. QED
      BY <1>8, <2>6, <3>1, <3>2 DEF Held
  <2>. QED
    BY <1>12, <1>13, <1>14, <1>15, <1>16, <2>2, <2>7, <1>5, StoreStep DEF NotYet
<1>24. CASE (SavesOnce(r) /\ job[r] # "seed") \/ SavesAgain(r)
  <2>1. step'[r] = "returning" /\ Finished(r)'
    BY <1>21, <1>24
  <2>2. Control(r)'
    BY <1>5, <1>17, <2>1 DEF Control
  <2>3. Held(r)' /\ NotYet(r)'
    BY <1>5, <2>1 DEF Held, Holding, NotYet
  <2>. QED
    BY <1>12, <1>13, <1>14, <1>15, <1>16, <2>2, <2>3, StoreStep
<1>. QED
  BY <1>3, <1>22, <1>23, <1>24

-----------------------------------------------------------------------------
(* A step that changes nothing but the clock, the roles or the cookie. *)
LEMMA StillStep ==
  ASSUME UserDocumentAssumption, IInv, SideOK',
         UNCHANGED <<job, store, past, step, copy, applied, answer>>
  PROVE  IInv'
<1>1. /\ job' = job /\ store' = store /\ past' = past /\ step' = step /\ copy' = copy
      /\ applied' = applied /\ answer' = answer
  OBVIOUS
<1>2. TypeOK'
  BY <1>1 DEF IInv, TypeOK, SideOK, User
<1>3. PastKnown'
  BY <1>1 DEF IInv, PastKnown, Document
<1>4. ASSUME NEW q \in Requests
      PROVE  Control(q)' /\ Held(q)' /\ NotYet(q)'
  <2>1. Moves(User(q))
    BY <1>1 DEF Moves
  <2>2. TypeOK /\ Control(q) /\ Held(q) /\ NotYet(q)
    BY DEF IInv
  <2>3. Creates(q) => store'[q].doc = Absent
    BY <1>1, <2>2 DEF NotYet, Document
  <2>. QED
    BY <1>1, <2>1, <2>2, <2>3, HeldStays
<1>. QED
  BY <1>2, <1>3, <1>4 DEF IInv

(* Every step keeps the invariant.                                         *)
LEMMA NextKeepsIInv ==
  ASSUME UserDocumentAssumption, IdentityStoreAssumption, IInv, [Next]_vars
  PROVE  IInv'
<1>1. CASE UNCHANGED vars
  <2>1. SideOK'
    BY <1>1 DEF vars, IInv, TypeOK, SideOK
  <2>. QED
    BY <1>1, <2>1, StillStep DEF vars
<1>2. CASE Next
  <2>1. SideOK'
    BY <1>2, SideTypes DEF IInv
  <2>2. CASE Tick
    BY <2>1, <2>2, StillStep DEF Tick, requestVars, storeVars
  <2>3. ASSUME NEW r \in Requests, Ceremony(r) \/ Manage(r) \/ Crash(r)
        PROVE  IInv'
    <3>1. CASE Ceremony(r)
      BY <2>1, <3>1, CeremonyKeepsIInv
    <3>2. CASE New(r)
      BY <2>1, <3>2, NewKeepsIInv
    <3>3. CASE Find(r)
      BY <2>1, <3>3, FindKeepsIInv
    <3>4. CASE ResolveRole(r)
      BY <2>1, <3>4, ResolveKeepsIInv
    <3>5. CASE Validate(r)
      <4>1. NoChange /\ UNCHANGED job /\ step[r] = "validating"
        BY <3>5 DEF Validate
      <4>2. CASE GoTo(r, "saving")
        BY <2>1, <4>1, <4>2, MoveOnKeepsIInv DEF Step
      <4>3. CASE End(r, IF IgnoresResult(r) THEN "done" ELSE "refused")
        BY <2>1, <4>1, <4>3, EndStep DEF NoChange
      <4>. QED
        BY <3>5, <4>2, <4>3 DEF Validate
    <3>6. CASE Save(r)
      BY <2>1, <3>6, SaveKeepsIInv
    <3>7. CASE SaveRefused(r)
      BY <2>1, <3>7, EndStep DEF SaveRefused, NoChange
    <3>8. CASE Delete(r)
      BY <2>1, <3>8, DeleteKeepsIInv
    <3>9. CASE EnsureRole(r)
      BY <2>1, <3>9, MoveOnKeepsIInv DEF EnsureRole, Step
    <3>10. CASE CreateRole(r)
      BY <2>1, <3>10, MoveOnKeepsIInv DEF CreateRole, Step
    <3>11. CASE DropRole(r)
      BY <2>1, <3>11, EndStep DEF DropRole, NoChange
    <3>12. CASE Return(r)
      BY <2>1, <3>12, EndStep DEF Return, NoChange
    <3>13. CASE Crash(r)
      BY <2>1, <3>13, EndStep DEF Crash, NoChange
    <3>. QED
      BY <2>3, <3>1, <3>2, <3>3, <3>4, <3>5, <3>6, <3>7, <3>8, <3>9, <3>10, <3>11, <3>12, <3>13
         DEF Manage
  <2>. QED
    BY <1>2, <2>2, <2>3 DEF Next
<1>. QED
  BY <1>1, <1>2

(* The invariant holds at the start.                                       *)
LEMMA InitIsIInv ==
  ASSUME UserDocumentAssumption, IdentityStoreAssumption, Init
  PROVE  IInv
<1>1. Ann \in Doc /\ NewUser \in Doc
  BY FirstDocuments
<1>2. job \in [Requests -> Job]
  BY DEF Init, IdentityStoreAssumption
<1>3. /\ ann \in Users /\ ann \notin Requests /\ Requests \subseteq Users
  BY DEF UserDocumentAssumption, Users
<1>4. \A r \in Requests : /\ step[r] = "start" /\ applied[r] = 0 /\ answer[r] = "none"
                          /\ copy[r].etag = 0
  BY DEF Init
<1>5. TypeOK
  <2>1. \A r \in Requests : copy[r].etag <= store[User(r)].etag
    <3>1. \A r \in Requests : User(r) \in Users
      BY Targets
    <3>2. \A u \in Users : store[u].etag \in {0, 1}
      BY DEF Init
    <3>. SUFFICES ASSUME NEW r \in Requests
                  PROVE  copy[r].etag <= store[User(r)].etag
      OBVIOUS
    <3>3. store[User(r)].etag \in {0, 1}
      BY <3>1, <3>2
    <3>4. copy[r].etag = 0
      BY <1>4
    <3>. QED
      BY <3>3, <3>4
  <2>2. store \in [Users -> [etag : Nat, doc : Doc \cup {Absent}]]
    BY <1>1 DEF Init
  <2>3. past \in [Users -> SUBSET Doc]
    BY <1>1 DEF Init
  <2>4. roles \in Nat /\ now \in Times /\ challenge \in Requests \cup {NoChallenge}
    BY DEF Init, UserDocumentAssumption, Times
  <2>5. clicks \in [Requests -> 0..MaxClicks] /\ applied \in [Requests -> 0..2]
    BY DEF Init, IdentityStoreAssumption
  <2>6. /\ step \in [Requests -> Step]
        /\ answer \in [Requests -> {"none", "done", "refused", "failed"}]
    BY DEF Init, Step
  <2>7. copy \in [Requests -> [etag : Nat, doc : Doc \cup {Absent}, taken : SUBSET Users]]
    BY DEF Init
  <2>. QED
    BY <1>2, <2>1, <2>2, <2>3, <2>4, <2>5, <2>6, <2>7 DEF TypeOK
<1>6. PastKnown
  <2>1. \A u \in Users : Document(u) \in past[u] \cup {Absent}
    BY DEF Init, Document
  <2>2. \A q \in Requests : past[q] = {}
    BY <1>3 DEF Init
  <2>3. store[ann].etag > 0
    BY <1>3 DEF Init
  <2>. QED
    BY <2>1, <2>2, <2>3 DEF PastKnown
<1>7. ASSUME NEW r \in Requests
      PROVE  Control(r) /\ Held(r) /\ NotYet(r)
  <2>1. Control(r)
    BY <1>4 DEF Control
  <2>2. Held(r)
    BY <1>4 DEF Held, Holding
  <2>3. Document(r) = Absent
    BY <1>3 DEF Init, Document
  <2>. QED
    BY <1>4, <2>1, <2>2, <2>3 DEF NotYet
<1>. QED
  BY <1>5, <1>6, <1>7 DEF IInv

(* The invariant, of every execution.                                      *)
LEMMA IInvHolds ==
  ASSUME UserDocumentAssumption, IdentityStoreAssumption
  PROVE  Safe => []IInv
<1>1. Init => IInv
  BY InitIsIInv
<1>2. IInv /\ [Next]_vars => IInv'
  BY NextKeepsIInv
<1>. QED
  BY <1>1, <1>2, PTL DEF Safe

(* The types, in particular that no copy has an etag the store has not     *)
(* given yet.                                                              *)
THEOREM IdentityTypes ==
  ASSUME UserDocumentAssumption, IdentityStoreAssumption
  PROVE  Safe => []TypeOK
<1>1. IInv => TypeOK
  BY DEF IInv
<1>. QED
  BY <1>1, IInvHolds, PTL

-----------------------------------------------------------------------------
(* The store implements the directory.  Both are about the same documents. *)
dir == [u \in Users |-> Document(u)]

(* The operators on documents and jobs mean the same in the store and in   *)
(* the directory.                                                          *)
LEMMA SameDocuments ==
  /\ Directory!Users = Users /\ Directory!Times = Times
  /\ Directory!Ann = Ann /\ Directory!NewUser = NewUser
  /\ Directory!Job = Job /\ Directory!RoleJobs = RoleJobs /\ Directory!Unchecked = Unchecked
  /\ \A r : Directory!User(r) = User(r) /\ Directory!NextChange(r) = NextChange(r)
            /\ (Directory!Finished(r) <=> Finished(r))
  /\ \A j, r, d, t : Directory!EffectsAt(j, r, d, t) = EffectsAt(j, r, d, t)
<1>1. Directory!Users = Users /\ Directory!Times = Times
  BY DEF Directory!Users, Users, Directory!Times, Times
<1>2. Directory!Ann = Ann /\ Directory!NewUser = NewUser
  BY DEF Directory!Ann, Ann, Directory!NewUser, NewUser, Directory!FirstKey, FirstKey
<1>3. Directory!Job = Job /\ Directory!RoleJobs = RoleJobs /\ Directory!Unchecked = Unchecked
  BY DEF Directory!Job, Job, Directory!RoleJobs, RoleJobs, Directory!Unchecked, Unchecked,
         Directory!Creating, Creating, Directory!SignIns, SignIns,
         Directory!Ceremonies, Ceremonies, Directory!Other, Other
<1>4. \A j : Directory!Plan(j) = Plan(j)
  BY DEF Directory!Plan, Plan
<1>5. \A r : Directory!User(r) = User(r)
  BY DEF Directory!User, User, Directory!Target, Target, Directory!Creating, Creating
<1>6. \A r : Directory!NextChange(r) = NextChange(r) /\ (Directory!Finished(r) <=> Finished(r))
  BY <1>4 DEF Directory!NextChange, NextChange, Directory!Finished, Finished
<1>7. \A j, r, d, t : Directory!EffectsAt(j, r, d, t) = EffectsAt(j, r, d, t)
  BY DEF Directory!EffectsAt, EffectsAt, Directory!SignIn, SignIn, Directory!Locked, Locked,
         Directory!AccessFailed, AccessFailed, Directory!ToggleLockout, ToggleLockout,
         Directory!AddToRole, AddToRole, Directory!RemoveFromRole, RemoveFromRole,
         Directory!AddClaim, AddClaim, Directory!RemoveClaim, RemoveClaim,
         Directory!SaveProfile, SaveProfile, Directory!ChangePassword, ChangePassword,
         Directory!RedeemCode, RedeemCode, Directory!AddOrUpdatePasskey, AddOrUpdatePasskey,
         Directory!RemovePasskey, RemovePasskey,
         Directory!When, When, Directory!RoleClaims, RoleClaims, Directory!FirstKey, FirstKey,
         Directory!Forever, Forever
<1>. QED
  BY <1>1, <1>2, <1>3, <1>5, <1>6, <1>7

(* A step nobody sees from outside. *)
LEMMA UnseenStep ==
  ASSUME UNCHANGED <<job, store, past, applied, answer>>
  PROVE  UNCHANGED Directory!vars
BY DEF Directory!vars, Document

(* A request is answered. *)
LEMMA ToldStep ==
  ASSUME NEW r \in Requests, NEW a \in Answer \ {"none"}, UNCHANGED <<job, store, past, applied>>,
         End(r, a), answer[r] = "none",
         a = "done" => Finished(r) \/ job[r] \in Unchecked,
         a = "refused" => applied[r] = 0 \/ job[r] \in RoleJobs
  PROVE  Directory!Next
<1>1. Directory!Tell(r, a)
  BY DEF Directory!Tell, Directory!Pending, End, Document
<1>2. CASE a = "done"
  BY <1>1, <1>2, SameDocuments DEF Directory!Done, Directory!Next
<1>3. CASE a = "refused"
  BY <1>1, <1>3, SameDocuments DEF Directory!Refuse, Directory!Next
<1>4. CASE a = "failed"
  BY <1>1, <1>4 DEF Directory!Fail, Directory!Next
<1>. QED
  BY <1>2, <1>3, <1>4 DEF Answer

(* A user becomes what is saved. *)
LEMMA SavedStep ==
  ASSUME NEW u \in Users, NEW d, NEW e,
         store \in [Users -> [etag : Nat, doc : Doc \cup {Absent}]],
         store' = [store EXCEPT ![u] = [etag |-> e, doc |-> d]],
         past' = [past EXCEPT ![u] = past[u] \cup {d}]
  PROVE  Directory!Become(u, d)
<1>1. /\ store'[u].doc = d
      /\ \A v \in Users \ {u} : store'[v].doc = store[v].doc
  OBVIOUS
<1>2. [v \in Users |-> store'[v].doc] = [[v \in Users |-> store[v].doc] EXCEPT ![u] = d]
  BY <1>1
<1>. QED
  BY <1>2 DEF Directory!Become, Document

(* What is left to do of a request that has not been answered. *)
LEMMA OpenRequest ==
  ASSUME IInv, NEW r \in Requests, step[r] # "ended"
  PROVE  answer[r] = "none" /\ Directory!Pending(r)
<1>1. answer[r] = "none"
  BY DEF IInv, Control
<1>. QED
  BY <1>1 DEF Directory!Pending

(* A save is a change, a revival or nothing in the directory.              *)
LEMMA SaveIsSeen ==
  ASSUME UserDocumentAssumption, IInv, NEW r \in Requests, Save(r)
  PROVE  Directory!Next \/ UNCHANGED Directory!vars
<1>. DEFINE u == User(r)
            d == copy[r].doc
<1>1. TypeOK /\ PastKnown /\ u \in Users
  BY Targets DEF IInv
<1>2. /\ step[r] # "ended"
      /\ store' = [store EXCEPT ![u] = [etag |-> NewEtag(u), doc |-> d]]
      /\ past' = [past EXCEPT ![u] = past[u] \cup {d}]
      /\ applied' = [applied EXCEPT ![r] = IF Finished(r) THEN applied[r] ELSE applied[r] + 1]
      /\ job' = job /\ answer' = answer
  BY DEF Save, GoTo
<1>3. answer[r] = "none" /\ Directory!Pending(r)
  BY <1>2, OpenRequest
<1>4. Directory!Become(u, d)
  BY <1>1, <1>2, SavedStep DEF TypeOK
<1>5. dir[u] = Document(u)
  BY <1>1 DEF dir
<1>6. CASE Creates(r)
  <2>1. d = NewUser /\ Document(u) = Absent
    BY <1>6, WhatIsSaved DEF Exists
  <2>2. ~Finished(r) /\ NextChange(r) = "register"
    BY <1>1, <1>6, WhatIsNext
  <2>3. Directory!Create(r)
    BY <1>2, <1>3, <1>4, <1>5, <2>1, <2>2, SameDocuments DEF Directory!Create, dir
  <2>. QED
    BY <2>3 DEF Directory!Next
<1>7. CASE SavesAgain(r)
  <2>1. Finished(r) /\ job[r] \in RoleJobs \cup {"seed"}
    <3>1. Finished(r)
      BY <1>1, <1>7, WhatIsNext
    <3>2. job[r] \in RoleJobs \cup {"seed"}
      BY <1>7 DEF SavesAgain
    <3>. QED
      BY <3>1, <3>2
  <2>2. d \in Origins(u) /\ d \in past[u]
    BY <1>7, WhatIsSaved
  <2>3. applied' = applied
    BY <1>1, <1>2, <2>1 DEF TypeOK
  <2>4. CASE Exists(u)
    <3>1. d = Document(u)
      BY <2>2, <2>4 DEF Origins
    <3>2. past' = past
      BY <1>1, <1>2, <2>2 DEF TypeOK
    <3>3. dir' = dir
      <4>1. dir' = [dir EXCEPT ![u] = d]
        BY <1>4 DEF Directory!Become, dir
      <4>. QED
        BY <1>1, <1>5, <3>1, <4>1 DEF dir
    <3>. QED
      BY <1>2, <2>3, <3>2, <3>3 DEF Directory!vars, dir
  <2>5. CASE ~Exists(u)
    <3>1. Directory!Revive(r)
      BY <1>2, <1>3, <1>4, <1>5, <2>1, <2>2, <2>3, <2>5, SameDocuments
         DEF Directory!Revive, Exists, dir
    <3>. QED
      BY <3>1 DEF Directory!Next
  <2>. QED
    BY <2>4, <2>5
<1>8. CASE ~Creates(r) /\ ~SavesAgain(r)
  <2>1. ~Finished(r)
    BY <1>1, <1>8, WhatIsSaved, WhatIsNext
  <2>2. PICK b \in Origins(u), t \in Times : d \in EffectsAt(NextChange(r), r, b, t)
    BY <1>8, WhatIsSaved
  <2>3. b \in Directory!Bases(u)
    BY <1>5, <2>2 DEF Directory!Bases, Origins, Exists, dir
  <2>4. Directory!Change(r)
    BY <1>2, <1>3, <1>4, <2>1, <2>2, <2>3, SameDocuments DEF Directory!Change
  <2>. QED
    BY <2>4 DEF Directory!Next
<1>. QED
  BY <1>6, <1>7, <1>8

(* A find is an answer in the directory, a change for a sign-in that needs *)
(* no save, or nothing.                                                    *)
LEMMA FindIsSeen ==
  ASSUME UserDocumentAssumption, IInv, NEW r \in Requests, Find(r)
  PROVE  Directory!Next \/ UNCHANGED Directory!vars
<1>1. TypeOK /\ PastKnown /\ Control(r) /\ job[r] \in Job
  BY DEF IInv, TypeOK
<1>2. step[r] \in {"start", "post"} /\ job' = job /\ store' = store /\ past' = past
  BY DEF Find, Begun, storeVars
<1>3. answer[r] = "none" /\ Directory!Pending(r)
  BY <1>2, OpenRequest
<1>4. applied[r] = 0
  BY <1>1, <1>2 DEF Control
<1>5. CASE \E a \in {"failed", "refused"} : End(r, a) /\ UNCHANGED applied
  BY <1>2, <1>3, <1>4, <1>5, ToldStep DEF Answer
<1>6. CASE \E s \in Step : GoTo(r, s) /\ UNCHANGED applied
  BY <1>2, <1>6, UnseenStep DEF GoTo
<1>7. ASSUME NEW doc \in Effects(r), NeedsNoSave(r, doc), Found(r) # {}, GoTo(r, "returning"),
             applied' = [applied EXCEPT ![r] = 1]
      PROVE  Directory!Next
  <2>1. job[r] = "sign in" /\ doc = Document(ann)
    BY <1>7 DEF NeedsNoSave
  <2>2. /\ Found(r) = {ann} /\ Exists(ann) /\ Document(ann) \in past[ann]
    BY <1>1, <1>7, FoundIsAnn
  <2>3. doc \in EffectsAt("sign in", r, Document(ann), now)
    BY <2>1, <2>2 DEF Effects
  <2>4. User(r) = ann /\ ann \in Users
    BY <2>1, Targets DEF Creating
  <2>5. ~Finished(r) /\ NextChange(r) = "sign in"
    <3>1. SavesOnce(r)
      BY <1>4, <2>1 DEF SavesOnce, RoleJobs
    <3>2. ~Creates(r)
      BY <2>1 DEF Creates, Creating
    <3>. QED
      BY <1>1, <2>1, <3>1, <3>2, WhatIsNext
  <2>6. dir' = [dir EXCEPT ![ann] = doc]
    BY <1>2, <2>1, <2>4 DEF Document, dir
  <2>7. past' = [past EXCEPT ![ann] = past[ann] \cup {doc}]
    <3>1. past[ann] \cup {doc} = past[ann]
      BY <2>1, <2>2
    <3>2. past' = past /\ past \in [Users -> SUBSET Doc]
      BY <1>1, <1>2 DEF TypeOK
    <3>. QED
      BY <3>1, <3>2, <2>4
  <2>8. Directory!Become(ann, doc)
    BY <2>6, <2>7 DEF Directory!Become, dir
  <2>9. Document(ann) \in Directory!Bases(ann)
    BY <2>2, <2>4 DEF Directory!Bases, Exists
  <2>10. applied' = [applied EXCEPT ![r] = applied[r] + 1]
    BY <1>4, <1>7
  <2>11. now \in Times
    BY <1>1 DEF TypeOK
  <2>12. \E d \in Directory!Bases(ann), t \in Times :
            \E e \in EffectsAt("sign in", r, d, t) : Directory!Become(ann, e)
    BY <2>3, <2>8, <2>9, <2>11
  <2>13. job' = job /\ answer' = answer
    BY <1>2, <1>7 DEF GoTo
  <2>14. Directory!Change(r)
    BY <1>3, <2>4, <2>5, <2>10, <2>12, <2>13, SameDocuments DEF Directory!Change
  <2>. QED
    BY <2>14 DEF Directory!Next
<1>8. CASE Found(r) = {} \/ (job[r] # "delete" /\ Effects(r) = {})
  <2>1. Effects(r) = {}
    BY <1>8 DEF Find, Effects
  <2>. QED
    BY <1>5, <1>6, <1>8, <2>1 DEF Find, Step
<1>9. CASE Found(r) # {}
  BY <1>5, <1>6, <1>7, <1>9 DEF Find, Step
<1>. QED
  BY <1>8, <1>9

(* Every step of the store is a step of the directory or none of its       *)
(* business.                                                               *)
LEMMA NextIsSeen ==
  ASSUME UserDocumentAssumption, IInv, [Next]_vars
  PROVE  [Directory!Next]_(Directory!vars)
<1>1. TypeOK /\ PastKnown
  BY DEF IInv
<1>2. CASE UNCHANGED vars
  BY <1>2, UnseenStep DEF vars
<1>3. CASE Tick
  BY <1>3, UnseenStep DEF Tick, requestVars, storeVars
<1>4. ASSUME NEW r \in Requests, Ceremony(r) \/ Manage(r) \/ Crash(r)
      PROVE  Directory!Next \/ UNCHANGED Directory!vars
  <2>1. Control(r) /\ job[r] \in Job
    BY <1>1 DEF IInv, TypeOK
  <2>2. CASE Find(r)
    BY <2>2, FindIsSeen
  <2>3. CASE Save(r)
    BY <2>3, SaveIsSeen
  <2>4. CASE Click(r) \/ Options(r) \/ Prompt(r) \/ BrowserError(r) \/ ResolveRole(r)
             \/ EnsureRole(r) \/ CreateRole(r)
    BY <2>4, UnseenStep DEF Click, Options, Prompt, BrowserError, ResolveRole, EnsureRole, CreateRole,
                            GoTo, NoChange, storeVars
  <2>5. CASE Attest(r)
    <3>1. applied[r] = 0 /\ answer[r] = "none"
      BY <2>1, <2>5, OpenRequest DEF Attest, Control
    <3>. QED
      BY <2>5, <3>1, ToldStep DEF Attest, NoChange, storeVars, Answer
  <2>6. CASE New(r)
    <3>1. applied[r] = 0 /\ answer[r] = "none"
      BY <2>1, <2>6, OpenRequest DEF New, Control
    <3>2. CASE GoTo(r, "validating")
      BY <2>6, <3>2, UnseenStep DEF New, GoTo, storeVars
    <3>3. CASE End(r, "refused")
      BY <2>6, <3>1, <3>3, ToldStep DEF New, storeVars, Answer
    <3>. QED
      BY <2>6, <3>2, <3>3 DEF New
  <2>7. CASE Validate(r)
    <3>1. step[r] = "validating" /\ UNCHANGED <<job, store, past, applied>>
      BY <2>7 DEF Validate, NoChange, storeVars
    <3>2. answer[r] = "none"
      BY <3>1, OpenRequest
    <3>3. CASE GoTo(r, "saving")
      BY <3>1, <3>3, UnseenStep DEF GoTo
    <3>4. CASE End(r, "done") /\ IgnoresResult(r)
      <4>1. Finished(r) \/ job[r] \in Unchecked
        BY <3>4 DEF IgnoresResult
      <4>. QED
        BY <3>1, <3>2, <3>4, <4>1, ToldStep DEF Answer
    <3>5. CASE End(r, "refused") /\ ~IgnoresResult(r)
      <4>1. SavesOnce(r) \/ SavesAgain(r)
        BY <2>1, <3>1 DEF Control
      <4>2. SavesAgain(r) => Finished(r)
        BY <1>1, WhatIsNext
      <4>3. SavesAgain(r) => job[r] \in RoleJobs
        BY <3>5, <4>2 DEF SavesAgain, IgnoresResult
      <4>4. applied[r] = 0 \/ job[r] \in RoleJobs
        BY <4>1, <4>3 DEF SavesOnce
      <4>. QED
        BY <3>1, <3>2, <3>5, <4>4, ToldStep DEF Answer
    <3>. QED
      BY <2>7, <3>3, <3>4, <3>5 DEF Validate
  <2>8. CASE SaveRefused(r) \/ Crash(r)
    <3>1. step[r] # "ended" /\ UNCHANGED <<job, store, past, applied>> /\ End(r, "failed")
      BY <2>8 DEF SaveRefused, Crash, NoChange, storeVars
    <3>. QED
      BY <3>1, OpenRequest, ToldStep DEF Answer
  <2>9. CASE Delete(r)
    <3>1. step[r] = "deleting" /\ job' = job /\ past' = past
      BY <2>9 DEF Delete
    <3>2. answer[r] = "none" /\ Directory!Pending(r)
      BY <3>1, OpenRequest
    <3>3. applied[r] = 0 /\ job[r] = "delete"
      BY <2>1, <3>1 DEF Control
    <3>4. CASE UNCHANGED <<store, applied>> /\ End(r, "failed")
      BY <3>1, <3>2, <3>4, ToldStep DEF Answer
    <3>5. CASE store' = [store EXCEPT ![ann] = [store[ann] EXCEPT !.doc = Absent]]
               /\ applied' = [applied EXCEPT ![r] = 1] /\ answer' = answer
      <4>1. User(r) = ann /\ ann \in Users
        BY <3>3, Targets DEF Creating
      <4>2. Len(Plan(job[r])) = 1 /\ Plan(job[r])[1] = "delete"
        BY <2>1, <3>3, Changes
      <4>3. ~Finished(r)
        BY <3>3, <4>2 DEF Finished
      <4>4. NextChange(r) = "delete"
        <5>1. applied[r] + 1 = 1
          BY <3>3
        <5>. QED
          BY <4>2, <5>1 DEF NextChange
      <4>5. applied' = [applied EXCEPT ![r] = applied[r] + 1]
        BY <3>3, <3>5
      <4>6. dir' = [dir EXCEPT ![ann] = Absent]
        <5>1. /\ store'[ann].doc = Absent
              /\ \A v \in Users \ {ann} : store'[v].doc = store[v].doc
          BY <1>1, <3>5, <4>1 DEF TypeOK
        <5>. QED
          BY <5>1 DEF dir, Document
      <4>7. Directory!Delete(r)
        BY <3>1, <3>2, <3>5, <4>1, <4>3, <4>4, <4>5, <4>6, SameDocuments DEF Directory!Delete, dir
      <4>. QED
        BY <4>7 DEF Directory!Next
    <3>. QED
      BY <2>9, <3>4, <3>5 DEF Delete, GoTo
  <2>10. CASE DropRole(r)
    <3>1. step[r] = "start" /\ job[r] = "drop role" /\ UNCHANGED <<job, store, past, applied>>
      BY <2>10 DEF DropRole, NoChange, storeVars
    <3>2. applied[r] = 0 /\ answer[r] = "none"
      BY <2>1, <3>1, OpenRequest DEF Control
    <3>3. Finished(r)
      BY <1>1, <3>1, <3>2, WhatIsNext
    <3>. QED
      BY <2>10, <3>1, <3>2, <3>3, ToldStep DEF DropRole, Answer
  <2>11. CASE Return(r)
    <3>1. step[r] = "returning" /\ UNCHANGED <<job, store, past, applied>> /\ End(r, "done")
      BY <2>11 DEF Return, NoChange, storeVars
    <3>2. Finished(r) /\ answer[r] = "none"
      BY <2>1, <3>1, OpenRequest DEF Control
    <3>. QED
      BY <3>1, <3>2, ToldStep DEF Answer
  <2>. QED
    BY <1>4, <2>2, <2>3, <2>4, <2>5, <2>6, <2>7, <2>8, <2>9, <2>10, <2>11 DEF Ceremony, Manage
<1>. QED
  BY <1>2, <1>3, <1>4 DEF Next

(* Whatever the interleaving of the requests, the crashes and the failing  *)
(* prompts: what CosmosDbUserStore makes of the users is what UserDirectory*)
(* promises.                                                               *)
THEOREM StoreImplementsDirectory ==
  ASSUME UserDocumentAssumption, IdentityStoreAssumption
  PROVE  Safe => ImplementsDirectory
<1>1. Init => Directory!Init
  <2>. SUFFICES ASSUME Init
                PROVE  Directory!Init
    OBVIOUS
  <2>1. job \in [Requests -> Job]
    BY DEF Init, IdentityStoreAssumption
  <2>2. dir = [u \in Users |-> IF u = ann THEN Ann ELSE Absent]
    BY DEF Init, dir, Document
  <2>3. /\ past = [u \in Users |-> IF u = ann THEN {Ann} ELSE {}]
        /\ applied = [r \in Requests |-> 0] /\ answer = [r \in Requests |-> "none"]
    BY DEF Init
  <2>. QED
    BY <2>1, <2>2, <2>3, SameDocuments DEF Directory!Init, dir
<1>2. IInv /\ [Next]_vars => [Directory!Next]_(Directory!vars)
  BY NextIsSeen
<1>. QED
  BY <1>1, <1>2, IInvHolds, PTL DEF Safe, ImplementsDirectory, Directory!Spec

-----------------------------------------------------------------------------
(* Duplicate names.  While nobody is deleted a user that has the second    *)
(* name keeps it: only a copy of the present document can be saved.        *)
Naming(r) == job[r] \in Creating \cup {"rename"} /\ applied[r] = 0
NamesHold(r) ==
    /\ job[r] \in Creating \cup {"rename"} /\ applied[r] > 0 => copy[r].taken = {}
    /\ Naming(r) /\ step[r] \in {"validating", "saving"} => copy[r].taken \subseteq Named("bob")
    /\ Naming(r) /\ step[r] = "validating" /\ job[r] = "rename" /\ Current(r) =>
          copy[r].taken = {} \/ ann \notin Named("bob")
    /\ Naming(r) /\ step[r] = "saving" /\ (job[r] = "rename" => Current(r)) => copy[r].taken = {}

NInv == Exists(ann) /\ \A r \in Requests : NamesHold(r)

(* No job takes the name bob from a user who has it.                       *)
LEMMA EffectsKeepBob ==
  ASSUME NEW j \in Job, NEW r \in Requests, NEW d \in Doc, NEW t \in Times, d.name = "bob",
         NEW e \in EffectsAt(j, r, d, t)
  PROVE  e.name = "bob"
<1>1. \A first \in BOOLEAN : \A x \in SignIn(d, t, first) : x.name = "bob"
  BY DEF SignIn, AccessFailed, Doc
<1>2. CASE j \in SignIns
  BY <1>1, <1>2 DEF EffectsAt, SignIns
<1>3. CASE j = "add role"
  <2>1. e \in EffectsAt("add role", r, d, t)
    BY <1>3
  <2>2. \A x \in EffectsAt("add role", r, d, t) : x.name = d.name
    BY RoleEffects
  <2>. QED
    BY <2>1, <2>2
<1>4. CASE j \in {"remove role", "add claim", "remove claim"}
  BY <1>4 DEF EffectsAt, RemoveFromRole, AddClaim, RemoveClaim, When, Doc
<1>5. CASE j \in {"rename", "change password", "toggle lockout"}
  BY <1>5 DEF EffectsAt, SaveProfile, ChangePassword, When, ToggleLockout, Doc
<1>6. CASE j \in {"redeem code", "enroll", "passkey sign in", "remove passkey"}
  BY <1>6 DEF EffectsAt, RedeemCode, AddOrUpdatePasskey, RemovePasskey, When, Doc
<1>7. CASE j \in {"register", "seed", "reset password", "delete", "drop role"}
  BY <1>7 DEF EffectsAt
<1>. QED
  BY <1>2, <1>3, <1>4, <1>5, <1>6, <1>7
     DEF Job, Creating, SignIns, RoleJobs, Ceremonies, Other

(* A rename gives the second name. *)
LEMMA RenameEffects ==
  ASSUME NEW r \in Requests, NEW d \in Doc, NEW t \in Times, NEW e \in EffectsAt("rename", r, d, t)
  PROVE  e.name = "bob"
BY DEF EffectsAt, SaveProfile, Doc

(* Whoever is called bob is still called so after a save.                  *)
LEMMA BobStaysBob ==
  ASSUME UserDocumentAssumption, IdentityStoreAssumption, IInv, NEW r \in Requests, Save(r)
  PROVE  Named("bob") \subseteq Named("bob")'
<1>. DEFINE u == User(r)
            d == copy[r].doc
<1>1. TypeOK /\ PastKnown /\ u \in Users /\ job[r] \in Job
  BY Targets DEF IInv, TypeOK
<1>2. d \in Doc /\ d # Absent
  BY WhatIsSaved DEF IdentityStoreAssumption
<1>3. /\ store'[u].doc = d
      /\ \A v \in Users \ {u} : store'[v].doc = store[v].doc
  BY <1>1 DEF Save, TypeOK
<1>4. ASSUME u \in Named("bob")
      PROVE  d.name = "bob"
  <2>1. Exists(u) /\ Document(u).name = "bob" /\ Document(u) \in Doc
    BY <1>1, <1>4 DEF Named, Exists, Document, TypeOK
  <2>2. Origins(u) = {Document(u)}
    BY <2>1 DEF Origins
  <2>3. CASE Creates(r)
    BY <2>3, WhatIsSaved DEF Creates
  <2>4. CASE SavesAgain(r)
    BY <2>1, <2>2, <2>4, WhatIsSaved
  <2>5. CASE ~Creates(r) /\ ~SavesAgain(r)
    <3>1. PICK t \in Times : d \in EffectsAt(NextChange(r), r, Document(u), t)
      BY <2>2, <2>5, WhatIsSaved
    <3>2. NextChange(r) \in Job
      <4>1. SavesOnce(r) => NextChange(r) = job[r]
        BY <1>1, <2>5, WhatIsNext
      <4>2. SavesRole(r) => NextChange(r) \in {"add role", "remove role"}
        BY <1>1, WhatIsNext
      <4>3. SavesOnce(r) \/ SavesRole(r)
        BY <2>5, WhatIsSaved
      <4>. QED
        BY <1>1, <4>1, <4>2, <4>3 DEF Job, RoleJobs
    <3>. QED
      BY <2>1, <3>1, <3>2, EffectsKeepBob
  <2>. QED
    BY <2>3, <2>4, <2>5
<1>5. ASSUME NEW v \in Named("bob")
      PROVE  v \in Named("bob")'
  <2>1. v \in Users /\ store[v].doc # Absent /\ store[v].doc.name = "bob"
    BY DEF Named, Exists, Document
  <2>2. store'[v].doc # Absent /\ store'[v].doc.name = "bob"
    BY <1>2, <1>3, <1>4, <2>1
  <2>. QED
    BY <2>1, <2>2 DEF Named, Exists, Document, Users
<1>. QED
  BY <1>5

(* The step of one request leaves the names of the others as they are. *)
LEMMA OthersKeepNames ==
  ASSUME UserDocumentAssumption, IInv, NInv, NEW r \in Requests, Alone(r), Exists(ann)',
         Named("bob") \subseteq Named("bob")',
         store'[ann] = store[ann] \/ store'[ann].etag > store[ann].etag,
         NamesHold(r)'
  PROVE  NInv'
<1>1. ASSUME NEW q \in Requests, q # r
      PROVE  NamesHold(q)'
  <2>1. /\ job'[q] = job[q] /\ step'[q] = step[q] /\ copy'[q] = copy[q] /\ applied'[q] = applied[q]
        /\ User(q)' = User(q)
    BY <1>1 DEF Alone, User
  <2>2. Naming(q)' <=> Naming(q)
    BY <2>1 DEF Naming
  <2>3. job[q] = "rename" => User(q) = ann
    BY Targets DEF Creating
  <2>4. job[q] = "rename" /\ Current(q)' => Current(q) /\ store'[ann] = store[ann]
    <3>. SUFFICES ASSUME job[q] = "rename", Current(q)'
                  PROVE  Current(q) /\ store'[ann] = store[ann]
      OBVIOUS
    <3>1. copy[q].etag = store'[ann].etag
      BY <2>1, <2>3 DEF Current
    <3>2. copy[q].etag <= store[ann].etag /\ copy[q].etag \in Nat /\ store[ann].etag \in Nat
      BY <2>3, Targets DEF IInv, TypeOK
    <3>3. ~(store'[ann].etag > store[ann].etag)
      BY <3>1, <3>2
    <3>4. store'[ann] = store[ann]
      BY <3>3
    <3>. QED
      BY <2>3, <3>1, <3>4 DEF Current, NInv
  <2>5. store'[ann] = store[ann] => (ann \in Named("bob")' <=> ann \in Named("bob"))
    BY Targets DEF Named, Exists, Document, Users
  <2>6. NamesHold(q)
    BY DEF NInv
  <2>7. /\ job'[q] \in Creating \cup {"rename"} /\ applied'[q] > 0 => copy'[q].taken = {}
        /\ Naming(q)' /\ step'[q] \in {"validating", "saving"} => copy'[q].taken \subseteq Named("bob")'
    BY <2>1, <2>2, <2>6 DEF NamesHold
  <2>8. Naming(q)' /\ step'[q] = "validating" /\ job'[q] = "rename" /\ Current(q)' =>
           copy'[q].taken = {} \/ ann \notin Named("bob")'
    BY <2>1, <2>2, <2>4, <2>5, <2>6 DEF NamesHold
  <2>9. Naming(q)' /\ step'[q] = "saving" /\ (job'[q] = "rename" => Current(q)') => copy'[q].taken = {}
    BY <2>1, <2>2, <2>4, <2>6 DEF NamesHold
  <2>. QED
    BY <2>7, <2>8, <2>9 DEF NamesHold
<1>. QED
  BY <1>1 DEF NInv

(* A request that does not get to its validation or its save. *)
LEMMA OtherStepKeepsNames ==
  ASSUME UserDocumentAssumption, IInv, NInv, NEW r \in Requests, Alone(r),
         UNCHANGED store, step'[r] \notin {"validating", "saving"},
         job[r] \in Creating \cup {"rename"} /\ applied'[r] > 0 =>
            applied[r] > 0 /\ copy'[r].taken = copy[r].taken
  PROVE  NInv'
<1>1. job' = job
  BY DEF Alone
<1>2. NamesHold(r)'
  BY <1>1 DEF NamesHold, NInv
<1>3. Exists(ann)' /\ Named("bob")' = Named("bob")
  BY DEF NInv, Named, Exists, Document
<1>. QED
  BY <1>2, <1>3, OthersKeepNames

(* A request that goes on or ends without a change keeps what is known of  *)
(* the names.                                                              *)
LEMMA AnswerKeepsNames ==
  ASSUME UserDocumentAssumption, IInv, NInv, NEW r \in Requests, NoChange, UNCHANGED job,
         NEW s \in Step \ {"validating", "saving"}, NEW a, GoTo(r, s) \/ (End(r, a) /\ s = "ended")
  PROVE  NInv'
<1>1. TypeOK
  BY DEF IInv
<1>2. /\ step' = [step EXCEPT ![r] = s] /\ copy' = copy /\ applied' = applied /\ job' = job
      /\ store' = store
      /\ answer' = answer \/ answer' = [answer EXCEPT ![r] = a]
  BY DEF NoChange, GoTo, End, storeVars
<1>3. step'[r] = s /\ Alone(r)
  BY <1>1, <1>2 DEF TypeOK, Alone
<1>. QED
  BY <1>2, <1>3, OtherStepKeepsNames

(* A new user that is only in memory takes no name.                        *)
LEMMA NewKeepsNames ==
  ASSUME UserDocumentAssumption, IInv, NInv, NEW r \in Requests, New(r)
  PROVE  NInv'
<1>1. TypeOK /\ applied[r] = 0 /\ job[r] \in Creating
  BY DEF IInv, Control, New
<1>2. job' = job /\ store' = store /\ applied' = applied
  BY DEF New, storeVars
<1>3. CASE End(r, "refused") /\ UNCHANGED copy
  <2>1. step'[r] = "ended" /\ Alone(r)
    BY <1>1, <1>2, <1>3 DEF End, TypeOK, Alone
  <2>. QED
    BY <1>1, <1>2, <2>1, OtherStepKeepsNames
<1>4. CASE GoTo(r, "validating") /\ copy' = [copy EXCEPT ![r] =
                                       [etag |-> 0, doc |-> NewUser, taken |-> Rivals(r)]]
  <2>1. step'[r] = "validating" /\ Alone(r) /\ copy'[r].taken = Rivals(r) /\ applied'[r] = 0
    BY <1>1, <1>2, <1>4 DEF GoTo, TypeOK, Alone
  <2>2. Rivals(r) \subseteq Named("bob")
    BY DEF Rivals
  <2>3. Exists(ann)' /\ Named("bob")' = Named("bob")
    BY <1>2 DEF NInv, Named, Exists, Document
  <2>4. job'[r] # "rename" /\ ~(applied'[r] > 0)
    BY <1>1, <1>2 DEF Creating
  <2>5. NamesHold(r)'
    BY <2>1, <2>2, <2>3, <2>4 DEF NamesHold
  <2>. QED
    BY <1>2, <2>1, <2>3, <2>5, OthersKeepNames
<1>. QED
  BY <1>3, <1>4 DEF New

(* Neither does a copy that is found and changed in memory.                *)
LEMMA FindKeepsNames ==
  ASSUME UserDocumentAssumption, IInv, NInv, NEW r \in Requests, Find(r)
  PROVE  NInv'
<1>1. TypeOK /\ applied[r] = 0 /\ job[r] \notin Creating
  BY DEF IInv, Control, Find, Begun
<1>2. job' = job /\ store' = store /\ Exists(ann)' /\ Named("bob")' = Named("bob")
  BY DEF Find, storeVars, NInv, Named, Exists, Document
<1>3. ASSUME NEW doc, Read(r, doc) \/ UNCHANGED copy, applied' = applied \/ job[r] = "sign in",
             applied' = applied \/ applied' = [applied EXCEPT ![r] = 1],
             NEW s \in Step \ {"validating", "saving"}, NEW a, GoTo(r, s) \/ (End(r, a) /\ s = "ended")
      PROVE  NInv'
  <2>1. step'[r] = s /\ Alone(r)
    BY <1>1, <1>2, <1>3 DEF GoTo, End, Read, TypeOK, Alone
  <2>2. job[r] = "rename" => ~(applied'[r] > 0)
    BY <1>1, <1>3
  <2>. QED
    BY <1>1, <1>2, <2>1, <2>2, OtherStepKeepsNames
<1>4. ASSUME NEW doc, Read(r, doc), applied' = applied, GoTo(r, "validating")
      PROVE  NInv'
  <2>1. step'[r] = "validating" /\ Alone(r) /\ copy'[r].taken = Rivals(r) /\ applied'[r] = 0
    BY <1>1, <1>2, <1>4 DEF GoTo, Read, TypeOK, Alone
  <2>2. ~(applied'[r] > 0)
    BY <2>1
  <2>3. Rivals(r) \subseteq Named("bob")
    BY DEF Rivals
  <2>4. job[r] = "rename" => Rivals(r) = {} \/ ann \notin Named("bob")
    BY Targets DEF Rivals, Creating
  <2>5. NamesHold(r)'
    BY <1>2, <2>1, <2>2, <2>3, <2>4 DEF NamesHold
  <2>. QED
    BY <1>2, <2>1, <2>5, OthersKeepNames
<1>5. CASE \/ Found(r) = {} \/ (job[r] # "delete" /\ Effects(r) = {})
  BY <1>3, <1>4, <1>5 DEF Find, Effects, Step
<1>6. CASE Found(r) # {}
  BY <1>3, <1>4, <1>6 DEF Find, Step, NeedsNoSave
<1>. QED
  BY <1>5, <1>6

(* Whoever passes the look for another user of its name has noted who had  *)
(* it.                                                                     *)
LEMMA ValidateKeepsNames ==
  ASSUME UserDocumentAssumption, IInv, NInv, NEW r \in Requests, Validate(r)
  PROVE  NInv'
<1>1. TypeOK /\ Control(r) /\ Held(r) /\ NotYet(r) /\ NamesHold(r) /\ step[r] = "validating"
  BY DEF IInv, NInv, Validate
<1>2. NoChange /\ job' = job
  BY DEF Validate
<1>3. CASE \E a : End(r, a)
  BY <1>2, <1>3, AnswerKeepsNames DEF Step
<1>4. CASE (Owners(r) = {} \/ User(r) \in Owners(r)) /\ GoTo(r, "saving")
  <2>1. step'[r] = "saving" /\ Alone(r) /\ copy' = copy /\ applied' = applied /\ store' = store
    BY <1>1, <1>2, <1>4 DEF GoTo, NoChange, storeVars, TypeOK, Alone
  <2>2. Exists(ann)' /\ Named("bob")' = Named("bob") /\ (Current(r)' <=> Current(r))
    BY <1>2, <2>1 DEF NInv, Named, Exists, Document, Current, User
  <2>3. ASSUME Naming(r), job[r] = "rename" => Current(r)
        PROVE  copy[r].taken = {}
    <3>1. copy[r].doc.name = "bob"
      <4>1. CASE Creates(r)
        BY <1>1, <4>1 DEF NotYet, NewUser
      <4>2. CASE job[r] = "rename" /\ ~Creates(r)
        <5>1. SavesOnce(r) /\ NextChange(r) = "rename" /\ ~SavesAgain(r)
          <6>1. ~SavesAgain(r)
            BY <4>2 DEF SavesAgain, RoleJobs
          <6>2. SavesOnce(r)
            BY <1>1, <6>1 DEF Control
          <6>. QED
            BY <1>1, <4>2, <6>1, <6>2, WhatIsNext
        <5>2. Unsaved(r)
          BY <1>1, <5>1 DEF Unsaved
        <5>3. MadeOf(r, Document(ann)) /\ Document(ann) \in Doc
          <6>1. User(r) = ann /\ ann \in Users
            BY <4>2, Targets DEF Creating
          <6>2. Current(r)
            BY <2>3, <4>2
          <6>. QED
            BY <1>1, <4>2, <6>1, <6>2 DEF Held, Holding, Current, Exists, Document, TypeOK
        <5>. QED
          BY <5>1, <5>2, <5>3, RenameEffects DEF MadeOf
      <4>. QED
        BY <2>3, <4>1, <4>2 DEF Naming, Creates
    <3>2. Owners(r) = Named("bob")
      BY <3>1 DEF Owners
    <3>3. copy[r].taken \subseteq Named("bob")
      BY <1>1, <2>3 DEF NamesHold
    <3>4. CASE Owners(r) = {}
      BY <3>2, <3>3, <3>4
    <3>5. CASE User(r) \in Owners(r)
      <4>1. CASE job[r] = "rename"
        <5>1. User(r) = ann
          BY <4>1, Targets DEF Creating
        <5>. QED
          BY <1>1, <2>3, <3>2, <3>5, <4>1, <5>1 DEF NamesHold
      <4>2. CASE job[r] # "rename"
        <5>1. Creates(r) /\ User(r) = r
          BY <2>3, <4>2, Targets DEF Naming, Creates
        <5>. QED
          BY <1>1, <3>2, <3>5, <5>1 DEF NotYet, Named, Exists
      <4>. QED
        BY <4>1, <4>2
    <3>. QED
      BY <1>4, <3>4, <3>5
  <2>4. Naming(r)' <=> Naming(r)
    BY <1>2, <2>1 DEF Naming
  <2>5. NamesHold(r)'
    BY <1>1, <1>2, <2>1, <2>2, <2>3, <2>4 DEF NamesHold
  <2>. QED
    BY <2>1, <2>2, <2>5, OthersKeepNames
<1>. QED
  BY <1>3, <1>4 DEF Validate

(* A save takes a name only for a request that has looked for it.          *)
LEMMA SaveKeepsNames ==
  ASSUME UserDocumentAssumption, IdentityStoreAssumption, IInv, NInv, NEW r \in Requests, Save(r)
  PROVE  NInv'
<1>. DEFINE u == User(r)
            e == NewEtag(u)
<1>1. TypeOK /\ Control(r) /\ Held(r) /\ NamesHold(r) /\ u \in Users /\ ann \in Users
  BY Targets DEF IInv, NInv
<1>2. /\ step[r] \in {"saving", "saving role"} /\ MayUpsert(r)
      /\ store' = [store EXCEPT ![u] = [etag |-> e, doc |-> copy[r].doc]]
      /\ copy' = [copy EXCEPT ![r] = [copy[r] EXCEPT !.etag = e]]
      /\ applied' = [applied EXCEPT ![r] = IF Finished(r) THEN applied[r] ELSE applied[r] + 1]
      /\ GoTo(r, AfterSave(r)) /\ job' = job
  BY DEF Save
<1>3. copy[r].doc \in Doc /\ copy[r].doc # Absent
  BY WhatIsSaved DEF IdentityStoreAssumption
<1>4. e = store[u].etag + 1 /\ store[u].etag \in Nat
  BY <1>1 DEF NewEtag, TypeOK
<1>5. /\ store'[u].doc = copy[r].doc /\ store'[u].etag = e
      /\ \A v \in Users \ {u} : store'[v] = store[v]
  BY <1>1, <1>2 DEF TypeOK
<1>6. Exists(ann)'
  BY <1>1, <1>3, <1>5 DEF NInv, Exists, Document
<1>7. store'[ann] = store[ann] \/ store'[ann].etag > store[ann].etag
  BY <1>1, <1>4, <1>5
<1>8. Named("bob") \subseteq Named("bob")'
  BY BobStaysBob
<1>9. Alone(r) /\ step'[r] = AfterSave(r)
  BY <1>1, <1>2 DEF GoTo, TypeOK, Alone
<1>10. copy'[r].taken = copy[r].taken
  <2>1. copy[r] \in Copy /\ r \in DOMAIN copy
    BY <1>1 DEF TypeOK, Copy
  <2>2. [copy[r] EXCEPT !.etag = e].taken = copy[r].taken
    BY <2>1 DEF Copy
  <2>3. copy'[r] = [copy[r] EXCEPT !.etag = e]
    BY <1>2, <2>1
  <2>. QED
    BY <2>2, <2>3
<1>11. applied'[r] > 0
  <2>1. applied[r] \in 0..2
    BY <1>1 DEF TypeOK
  <2>2. CASE Finished(r)
    <3>1. SavesAgain(r)
      BY <1>1, <2>2, WhatIsSaved, WhatIsNext
    <3>2. applied[r] = 1 \/ applied[r] = 2
      BY <3>1 DEF SavesAgain
    <3>3. applied'[r] = applied[r]
      BY <1>1, <1>2, <2>2 DEF TypeOK
    <3>. QED
      BY <3>2, <3>3
  <2>3. CASE ~Finished(r)
    <3>1. applied'[r] = applied[r] + 1
      BY <1>1, <1>2, <2>3 DEF TypeOK
    <3>. QED
      BY <2>1, <3>1
  <2>. QED
    BY <2>2, <2>3
<1>12. job[r] \in Creating \cup {"rename"} => copy[r].taken = {}
  <2>. SUFFICES ASSUME job[r] \in Creating \cup {"rename"}
                PROVE  copy[r].taken = {}
    OBVIOUS
  <2>1. CASE applied[r] > 0
    BY <1>1, <2>1 DEF NamesHold
  <2>2. CASE applied[r] = 0
    <3>1. Naming(r) /\ ~SavesRole(r) /\ ~SavesAgain(r)
      <4>1. Naming(r)
        BY <2>2 DEF Naming
      <4>2. applied[r] # 1 /\ applied[r] # 2
        BY <2>2
      <4>3. job[r] \notin RoleJobs
        BY DEF Creating, RoleJobs
      <4>. QED
        BY <4>1, <4>2, <4>3 DEF SavesRole, SavesAgain
    <3>2. step[r] = "saving"
      BY <1>1, <1>2, <3>1 DEF Control
    <3>3. job[r] = "rename" => Current(r)
      <4>. SUFFICES ASSUME job[r] = "rename"
                    PROVE  Current(r)
        OBVIOUS
      <4>1. u = ann /\ Exists(ann) /\ ~Creates(r)
        BY Targets DEF NInv, Creating, Creates
      <4>2. copy[r].etag > 0
        BY <1>1, <3>2, <4>1 DEF Held, Holding
      <4>3. copy[r].etag = store[u].etag
        <5>1. Matches(r)
          BY <1>2, <4>1 DEF MayUpsert
        <5>2. copy[r].etag # 0
          BY <4>2
        <5>. QED
          BY <5>1, <5>2 DEF Matches
      <4>. QED
        BY <4>1, <4>3 DEF Current
    <3>. QED
      BY <1>1, <3>1, <3>2, <3>3 DEF NamesHold
  <2>3. applied[r] \in 0..2
    BY <1>1 DEF TypeOK
  <2>. QED
    BY <2>1, <2>2, <2>3
<1>13. NamesHold(r)'
  <2>1. ~Naming(r)'
    BY <1>11 DEF Naming
  <2>. QED
    BY <1>2, <1>10, <1>12, <2>1 DEF NamesHold
<1>. QED
  BY <1>6, <1>7, <1>8, <1>9, <1>13, OthersKeepNames

(* Every step keeps what is known of the names, as long as nobody is       *)
(* deleted.                                                                *)
LEMMA NextKeepsNames ==
  ASSUME UserDocumentAssumption, IdentityStoreAssumption, IInv, NoDeletion, NInv, [Next]_vars
  PROVE  NInv'
<1>1. CASE UNCHANGED <<job, store, step, copy, applied>>
  <2>1. Exists(ann)' /\ Named("bob")' = Named("bob") /\ \A r : Current(r)' <=> Current(r)
    BY <1>1 DEF NInv, Named, Exists, Document, Current, User
  <2>2. \A r \in Requests : NamesHold(r)'
    BY <1>1, <2>1 DEF NInv, NamesHold, Naming
  <2>. QED
    BY <2>1, <2>2 DEF NInv
<1>2. ASSUME NEW r \in Requests, Ceremony(r) \/ Manage(r) \/ Crash(r)
      PROVE  NInv'
  <2>1. Control(r) /\ TypeOK
    BY DEF IInv
  <2>2. CASE Click(r) \/ Prompt(r) \/ BrowserError(r) \/ Options(r)
    BY <2>2, AnswerKeepsNames DEF Click, Prompt, BrowserError, Options, AfterError, Step
  <2>3. CASE Attest(r) \/ SaveRefused(r) \/ Return(r) \/ DropRole(r) \/ Crash(r)
    BY <2>3, AnswerKeepsNames DEF Attest, SaveRefused, Return, DropRole, Crash, Step
  <2>4. CASE EnsureRole(r) \/ CreateRole(r)
    BY <2>4, AnswerKeepsNames DEF EnsureRole, CreateRole, Step
  <2>5. CASE ResolveRole(r)
    <3>1. /\ job' = job /\ store' = store /\ applied' = applied /\ answer' = answer
          /\ step' = [step EXCEPT ![r] = "saving role"]
          /\ \E n : copy' = [copy EXCEPT ![r] = [copy[r] EXCEPT !.doc = n]]
      BY <2>5 DEF ResolveRole, GoTo, storeVars
    <3>2. PICK n : copy' = [copy EXCEPT ![r] = [copy[r] EXCEPT !.doc = n]]
      BY <3>1
    <3>3. copy'[r].taken = copy[r].taken
      <4>1. copy[r] \in Copy /\ r \in DOMAIN copy
        BY <2>1 DEF TypeOK, Copy
      <4>2. [copy[r] EXCEPT !.doc = n].taken = copy[r].taken
        BY <4>1 DEF Copy
      <4>3. copy'[r] = [copy[r] EXCEPT !.doc = n]
        BY <3>2, <4>1
      <4>. QED
        BY <4>2, <4>3
    <3>4. step'[r] = "saving role" /\ Alone(r)
      BY <2>1, <3>1, <3>2 DEF TypeOK, Alone
    <3>. QED
      BY <3>1, <3>3, <3>4, OtherStepKeepsNames
  <2>6. CASE New(r)
    BY <2>6, NewKeepsNames
  <2>7. CASE Find(r)
    BY <2>7, FindKeepsNames
  <2>8. CASE Validate(r)
    BY <2>8, ValidateKeepsNames
  <2>9. CASE Save(r)
    BY <2>9, SaveKeepsNames
  <2>10. CASE Delete(r)
    BY <2>1, <2>10 DEF Delete, Control, NoDeletion
  <2>. QED
    BY <1>2, <2>2, <2>3, <2>4, <2>5, <2>6, <2>7, <2>8, <2>9, <2>10 DEF Ceremony, Manage
<1>3. CASE Tick
  BY <1>1, <1>3 DEF Tick, requestVars, storeVars
<1>4. CASE UNCHANGED vars
  BY <1>1, <1>4 DEF vars
<1>. QED
  BY <1>2, <1>3, <1>4 DEF Next

(* A request keeps its job.                                                *)
LEMMA JobsAreFixed ==
  ASSUME [Next]_vars
  PROVE  job' = job
BY DEF Next, vars, Tick, Ceremony, Manage, Click, Options, Prompt, BrowserError, Attest, New, Find,
       ResolveRole, Validate, Save, SaveRefused, Delete, EnsureRole, CreateRole, DropRole, Return, Crash

(* While nobody is deleted, two users have the same name only if neither   *)
(* was there when the other one's request began.                           *)
THEOREM DuplicatesNeedARace ==
  ASSUME UserDocumentAssumption, IdentityStoreAssumption
  PROVE  Safe => []DuplicatesComeFromRaces
<1>. DEFINE Inv == NoDeletion => NInv
<1>1. Init => Inv
  <2>. SUFFICES ASSUME Init
                PROVE  NInv
    OBVIOUS
  <2>1. /\ ann \in Users /\ Ann # Absent
        /\ \A r \in Requests : applied[r] = 0 /\ step[r] = "start"
    BY Targets, FirstDocuments DEF Init, IdentityStoreAssumption, Users
  <2>2. Exists(ann)
    BY <2>1 DEF Init, Exists, Document
  <2>3. \A r \in Requests : NamesHold(r)
    <3>. SUFFICES ASSUME NEW r \in Requests
                  PROVE  NamesHold(r)
      OBVIOUS
    <3>1. step[r] \notin {"validating", "saving"}
      BY <2>1
    <3>2. ~(applied[r] > 0)
      <4>1. applied[r] = 0
        BY <2>1
      <4>. QED
        BY <4>1
    <3>. QED
      BY <3>1, <3>2 DEF NamesHold
  <2>. QED
    BY <2>2, <2>3 DEF NInv
<1>2. IInv /\ Inv /\ [Next]_vars => Inv'
  <2>. SUFFICES ASSUME IInv, Inv, [Next]_vars, NoDeletion'
                PROVE  NInv'
    OBVIOUS
  <2>1. NoDeletion
    BY JobsAreFixed DEF NoDeletion
  <2>. QED
    BY <2>1, NextKeepsNames
<1>3. Inv => DuplicatesComeFromRaces
  BY DEF DuplicatesComeFromRaces, NInv, NamesHold
<1>. QED
  BY <1>1, <1>2, <1>3, IInvHolds, PTL DEF Safe
=============================================================================
