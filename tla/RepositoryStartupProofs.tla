----------------------- MODULE RepositoryStartupProofs -----------------------
(***************************************************************************)
(* Theorems about RepositoryStartup, for any calls, objects, options and   *)
(* faults: a repository caches only what exists, and if all repositories   *)
(* ask for a hierarchical key of two paths, racing fails nobody and every  *)
(* key fits.                                                               *)
(*                                                                         *)
(* Types and ReadyMeansExists are inductive together: a call operates only *)
(* once its object has a container, an object gets one only after a        *)
(* listing, a creation or a conflict has shown it, and nothing takes it    *)
(* away.  The rest needs only that all containers have two levels.         *)
(***************************************************************************)
EXTENDS RepositoryStartup, TLAPS

SInv == TypeOK /\ ReadyMeansExists

(* The service never takes away what it has.                               *)
Grows == (database => database') /\ (container # 0 => container' = container)

(* A step that keeps the answers keeps the invariant if what it caches     *)
(* exists after it.                                                        *)
LEMMA CachingPreservesSInv ==
  ASSUME StartupAssumption, SInv, NEW c \in Calls, NEW rs \in SUBSET Resources, NEW s \in Step,
         Cache(c, rs), GoTo(c, s), Grows,
         database' \in BOOLEAN, container' \in {0, 1, 2},
         Of(c).create => /\ "database" \in rs => database'
                         /\ "container" \in rs => container' # 0,
         s = "operating" => "container" \in rs \/ "container" \in cached[ObjectOf[c]]
  PROVE  SInv'
<1>. DEFINE o == ObjectOf[c]
<1>1. o \in Objects /\ cached \in [Objects -> SUBSET Resources]
  BY DEF StartupAssumption, SInv, TypeOK
<1>2. cached' = [cached EXCEPT ![o] = @ \cup rs]
  BY DEF Cache
<1>3. cached' \in [Objects -> SUBSET Resources]
  BY <1>1, <1>2
<1>4. \A p \in Objects : cached'[p] = IF p = o THEN cached[o] \cup rs ELSE cached[p]
  BY <1>1, <1>2
<1>5. step' = [step EXCEPT ![c] = s] /\ step' \in [Calls -> Step]
  BY DEF GoTo, SInv, TypeOK
<1>6. \A d \in Calls : step'[d] = "operating" => "container" \in cached'[ObjectOf[d]]
  <2>. SUFFICES ASSUME NEW d \in Calls, step'[d] = "operating"
                PROVE  "container" \in cached'[ObjectOf[d]]
    OBVIOUS
  <2>1. ObjectOf[d] \in Objects
    BY DEF StartupAssumption
  <2>2. CASE d = c
    <3>1. s = "operating"
      BY <2>2, <1>5 DEF SInv, TypeOK
    <3>. QED
      BY <2>2, <3>1, <1>4, <1>1
  <2>3. CASE d # c
    <3>1. step[d] = "operating"
      BY <2>3, <1>5 DEF SInv, TypeOK
    <3>2. "container" \in cached[ObjectOf[d]]
      BY <3>1 DEF SInv, TypeOK
    <3>. QED
      BY <3>2, <2>1, <1>4
  <2>. QED
    BY <2>2, <2>3
<1>7. answer' = answer /\ hit' = hit
  BY DEF GoTo
<1>8. TypeOK'
  BY <1>3, <1>5, <1>6, <1>7 DEF TypeOK, SInv
<1>9. ReadyMeansExists'
  <2>. SUFFICES ASSUME NEW p \in Objects, Options[p].create
                PROVE  /\ "database" \in cached'[p] => database'
                       /\ "container" \in cached'[p] => container' # 0
    BY DEF ReadyMeansExists
  <2>1. /\ "database" \in cached[p] => database'
        /\ "container" \in cached[p] => container' # 0
    BY DEF SInv, ReadyMeansExists, Grows
  <2>2. CASE p # o
    BY <2>1, <2>2, <1>4
  <2>3. CASE p = o
    <3>1. Of(c).create
      BY <2>3 DEF Of
    <3>2. cached'[p] = cached[p] \cup rs
      BY <2>3, <1>4, <1>1
    <3>. QED
      BY <2>1, <3>1, <3>2
  <2>. QED
    BY <2>2, <2>3
<1>. QED
  BY <1>8, <1>9 DEF SInv

(* A step that ends a call and caches nothing keeps the invariant.         *)
LEMMA EndPreservesSInv ==
  ASSUME SInv, NEW c \in Calls, NEW a \in {"done", "null", "failed"}, End(c, a), Grows,
         database' \in BOOLEAN, container' \in {0, 1, 2}, UNCHANGED cached, hit' \subseteq Calls
  PROVE  SInv'
<1>1. step' \in [Calls -> Step] /\ answer' \in [Calls -> {"none", "done", "null", "failed"}]
  BY DEF End, SInv, TypeOK, Step
<1>2. \A d \in Calls : step'[d] = "operating" => step[d] = "operating"
  BY DEF End, SInv, TypeOK
<1>3. TypeOK'
  BY <1>1, <1>2 DEF SInv, TypeOK
<1>4. ReadyMeansExists'
  BY DEF SInv, ReadyMeansExists, Grows
<1>. QED
  BY <1>3, <1>4 DEF SInv

(* What a creation leaves, and where the call goes on.                     *)
LEMMA CreationOutcome ==
  ASSUME StartupAssumption, SInv, NEW c \in Calls, Creating(c),
         (Missing(c) /\ Make(c)) \/ UNCHANGED server
  PROVE  /\ Grows /\ database' \in BOOLEAN /\ container' \in {0, 1, 2}
         /\ Missing(c) /\ Make(c) => /\ step[c] = "creating database" => database'
                                     /\ step[c] = "creating container" => container' # 0
<1>1. Levels(c) \in {1, 2}
  BY DEF Levels
<1>2. Make(c) => /\ step[c] = "creating database" => database'
                 /\ step[c] = "creating container" => container' # 0
  <2>1. CASE step[c] = "creating database"
    <3>1. Make(c) => database' = TRUE
      BY <2>1 DEF Make
    <3>. QED
      BY <2>1, <3>1
  <2>2. CASE step[c] # "creating database"
    <3>1. Make(c) => container' = Levels(c)
      BY <2>2 DEF Make
    <3>2. Make(c) => container' # 0
      BY <3>1, <1>1
    <3>. QED
      BY <2>2, <3>2
  <2>. QED
    BY <2>1, <2>2
<1>3. Grows /\ database' \in BOOLEAN /\ container' \in {0, 1, 2}
  <2>1. CASE UNCHANGED server
    BY <2>1 DEF server, Grows, SInv, TypeOK
  <2>2. CASE Missing(c) /\ Make(c) /\ step[c] = "creating database"
    <3>1. database' = TRUE /\ container' = container
      BY <2>2 DEF Make
    <3>. QED
      BY <3>1 DEF Grows, SInv, TypeOK
  <2>3. CASE Missing(c) /\ Make(c) /\ step[c] # "creating database"
    <3>1. database' = database /\ container' \in {1, 2} /\ container = 0
      BY <1>1, <2>3 DEF Make, Missing
    <3>. QED
      BY <3>1 DEF Grows, SInv, TypeOK
  <2>. QED
    BY <2>1, <2>2, <2>3
<1>. QED
  BY <1>2, <1>3

(* What was created, or found to be created by another, exists when it is  *)
(* cached.                                                                 *)
LEMMA CreatedPreservesSInv ==
  ASSUME StartupAssumption, SInv, NEW c \in Calls, Creating(c), Created(c),
         (Missing(c) /\ Make(c)) \/ (~Missing(c) /\ UNCHANGED server)
  PROVE  SInv'
<1>1. /\ Grows /\ database' \in BOOLEAN /\ container' \in {0, 1, 2}
      /\ step[c] = "creating database" => database'
      /\ step[c] = "creating container" => container' # 0
  <2>1. CASE Missing(c) /\ Make(c)
    BY <2>1, CreationOutcome
  <2>2. CASE ~Missing(c) /\ UNCHANGED server
    BY <2>2, CreationOutcome DEF Missing, server
  <2>. QED
    BY <2>1, <2>2
<1>2. CASE step[c] = "creating database"
  <2>1. Cache(c, {"database"}) /\ GoTo(c, "listing containers")
    BY <1>2 DEF Created
  <2>. QED
    BY <1>1, <1>2, <2>1, CachingPreservesSInv DEF Step, Resources
<1>3. CASE step[c] = "creating container"
  <2>1. Cache(c, {"container"}) /\ GoTo(c, "operating")
    BY <1>3 DEF Created
  <2>. QED
    BY <1>1, <1>3, <2>1, CachingPreservesSInv DEF Step, Resources
<1>. QED
  BY <1>2, <1>3 DEF Creating

(* A call that goes on without caching anything. *)
LEMMA GoToPreservesSInv ==
  ASSUME StartupAssumption, SInv, NEW c \in Calls, NEW s \in Step, GoTo(c, s),
         UNCHANGED cached, UNCHANGED server,
         s = "operating" => "container" \in cached[ObjectOf[c]]
  PROVE  SInv'
<1>1. Cache(c, {})
  BY DEF Cache, SInv, TypeOK, StartupAssumption
<1>2. Grows /\ database' \in BOOLEAN /\ container' \in {0, 1, 2}
  BY DEF server, Grows, SInv, TypeOK
<1>. QED
  BY <1>1, <1>2, CachingPreservesSInv
(* Every step keeps the invariant.                                         *)
LEMMA NextPreservesSInv ==
  ASSUME StartupAssumption, SInv, [Next]_vars
  PROVE  SInv'
<1>1. ASSUME NEW c \in Calls, Begin(c)
      PROVE  SInv'
  <2>1. UNCHANGED server
    BY <1>1 DEF Begin
  <2>2. CASE Initialized(ObjectOf[c]) /\ GoTo(c, "operating") /\ UNCHANGED cached
    BY <2>1, <2>2, GoToPreservesSInv DEF Initialized, Resources, Step
  <2>3. CASE ~Of(c).create /\ Cache(c, Resources) /\ GoTo(c, "operating")
    <3>1. Grows /\ database' \in BOOLEAN /\ container' \in {0, 1, 2}
      BY <2>1 DEF server, Grows, SInv, TypeOK
    <3>. QED
      BY <2>3, <3>1, CachingPreservesSInv DEF Resources, Step
  <2>4. CASE GoTo(c, "listing databases") /\ UNCHANGED cached
    BY <2>1, <2>4, GoToPreservesSInv DEF Step
  <2>. QED
    BY <1>1, <2>2, <2>3, <2>4 DEF Begin
<1>2. ASSUME NEW c \in Calls, ListDatabases(c)
      PROVE  SInv'
  <2>1. UNCHANGED server
    BY <1>2 DEF ListDatabases
  <2>2. Grows /\ database' \in BOOLEAN /\ container' \in {0, 1, 2} /\ (database => database')
    BY <2>1 DEF server, Grows, SInv, TypeOK
  <2>3. CASE database /\ Cache(c, {"database"}) /\ GoTo(c, "listing containers")
    BY <2>2, <2>3, CachingPreservesSInv DEF Step, Resources
  <2>4. CASE UNCHANGED cached /\ GoTo(c, "creating database")
    BY <2>1, <2>4, GoToPreservesSInv DEF Step
  <2>. QED
    BY <1>2, <2>3, <2>4 DEF ListDatabases
<1>3. ASSUME NEW c \in Calls, ListContainers(c)
      PROVE  SInv'
  <2>1. UNCHANGED server
    BY <1>3 DEF ListContainers
  <2>2. /\ Grows /\ database' \in BOOLEAN /\ container' \in {0, 1, 2}
        /\ container' = container
    BY <2>1 DEF server, Grows, SInv, TypeOK
  <2>3. CASE container # 0 /\ Cache(c, {"container"}) /\ GoTo(c, "operating")
    BY <2>2, <2>3, CachingPreservesSInv DEF Step, Resources
  <2>4. CASE UNCHANGED cached /\ GoTo(c, "creating container")
    BY <2>1, <2>4, GoToPreservesSInv DEF Step
  <2>. QED
    BY <1>3, <2>3, <2>4 DEF ListContainers
<1>4. ASSUME NEW c \in Calls, Create(c)
      PROVE  SInv'
  BY <1>4, CreatedPreservesSInv DEF Create
<1>5. ASSUME NEW c \in Calls, NEW error \in {"exists", "other"}, CreateError(c, error)
      PROVE  SInv'
  <2>1. Creating(c) /\ (UNCHANGED server \/ (Missing(c) /\ Make(c)))
    BY <1>5 DEF CreateError
  <2>2. Grows /\ database' \in BOOLEAN /\ container' \in {0, 1, 2}
    BY <2>1, CreationOutcome
  <2>3. CASE error = "exists"
    <3>1. Created(c) /\ ~Missing(c) /\ UNCHANGED server
      BY <1>5, <2>3 DEF CreateError, MeansExists
    <3>. QED
      BY <2>1, <3>1, CreatedPreservesSInv
  <2>4. CASE error = "other"
    <3>1. End(c, "failed") /\ hit' = hit \cup {c} /\ UNCHANGED cached
      BY <1>5, <2>4 DEF CreateError, MeansExists
    <3>2. hit' \subseteq Calls
      BY <3>1 DEF SInv, TypeOK
    <3>. QED
      BY <2>2, <3>1, <3>2, EndPreservesSInv
  <2>. QED
    BY <2>3, <2>4
<1>6. ASSUME NEW c \in Calls, Operate(c)
      PROVE  SInv'
  <2>1. UNCHANGED <<database, container, cached, hit>>
    BY <1>6 DEF Operate
  <2>2. /\ Grows /\ database' \in BOOLEAN /\ container' \in {0, 1, 2}
        /\ UNCHANGED cached /\ hit' \subseteq Calls
    BY <2>1 DEF Grows, SInv, TypeOK
  <2>3. \E a \in {"done", "null", "failed"} : End(c, a)
    BY <1>6 DEF Operate
  <2>. QED
    BY <2>2, <2>3, EndPreservesSInv
<1>7. ASSUME NEW c \in Calls, RequestFails(c)
      PROVE  SInv'
  <2>1. /\ UNCHANGED <<database, container, cached>>
        /\ End(c, "failed") /\ hit' = hit \cup {c}
    BY <1>7 DEF RequestFails
  <2>2. /\ Grows /\ database' \in BOOLEAN /\ container' \in {0, 1, 2}
        /\ UNCHANGED cached /\ hit' \subseteq Calls
    BY <2>1 DEF Grows, SInv, TypeOK
  <2>. QED
    BY <2>1, <2>2, EndPreservesSInv
<1>8. ASSUME NEW o \in Objects, Restart(o)
      PROVE  SInv'
  <2>. DEFINE dying == {c \in Calls : ObjectOf[c] = o /\ Running(c)}
  <2>1. /\ cached' = [cached EXCEPT ![o] = {}]
        /\ step' = [c \in Calls |-> IF c \in dying THEN "ended" ELSE step[c]]
        /\ answer' = [c \in Calls |-> IF c \in dying THEN "failed" ELSE answer[c]]
        /\ hit' = hit \cup dying
        /\ UNCHANGED server
    BY <1>8 DEF Restart
  <2>2. database' = database /\ container' = container
    BY <2>1 DEF server
  <2>3. step' \in [Calls -> Step] /\ answer' \in [Calls -> {"none", "done", "null", "failed"}]
    BY <2>1 DEF SInv, TypeOK, Step
  <2>4. /\ cached' \in [Objects -> SUBSET Resources]
        /\ \A p \in Objects : p # o => cached'[p] = cached[p]
        /\ cached'[o] = {}
    BY <2>1 DEF SInv, TypeOK
  <2>5. \A c \in Calls : step'[c] = "operating" => "container" \in cached'[ObjectOf[c]]
    <3>. SUFFICES ASSUME NEW c \in Calls, step'[c] = "operating"
                  PROVE  "container" \in cached'[ObjectOf[c]]
      OBVIOUS
    <3>1. c \notin dying /\ step[c] = "operating"
      BY <2>1
    <3>2. ObjectOf[c] # o
      BY <3>1 DEF Running
    <3>3. ObjectOf[c] \in Objects
      BY DEF StartupAssumption
    <3>. QED
      BY <3>1, <3>2, <3>3, <2>4 DEF SInv, TypeOK
  <2>6. hit' \subseteq Calls
    BY <2>1 DEF SInv, TypeOK
  <2>7. TypeOK'
    BY <2>2, <2>3, <2>4, <2>5, <2>6 DEF SInv, TypeOK
  <2>8. ReadyMeansExists'
    <3>1. \A p \in Objects : \A r \in Resources : r \in cached'[p] => r \in cached[p]
      BY <2>4
    <3>. QED
      BY <3>1, <2>2 DEF SInv, ReadyMeansExists, Resources
  <2>. QED
    BY <2>7, <2>8 DEF SInv
<1>9. ASSUME UNCHANGED vars
      PROVE  SInv'
  BY <1>9 DEF vars, SInv, TypeOK, ReadyMeansExists
<1>. QED
  BY <1>1, <1>2, <1>3, <1>4, <1>5, <1>6, <1>7, <1>8, <1>9 DEF Next, CallStep

(* The inductive invariant holds of all calls. *)
THEOREM StartupInvariant == StartupAssumption => (Safe => []SInv)
<1>. SUFFICES ASSUME StartupAssumption
              PROVE  Safe => []SInv
  OBVIOUS
<1>1. Init => SInv
  <2>. SUFFICES ASSUME Init
                PROVE  SInv
    OBVIOUS
  <2>1. database \in BOOLEAN /\ container \in {0, 1, 2}
    BY DEF Init, StartupAssumption
  <2>2. /\ cached = [o \in Objects |-> {}]
        /\ step = [c \in Calls |-> "start"]
        /\ answer = [c \in Calls |-> "none"]
        /\ hit = {}
    BY DEF Init
  <2>3. TypeOK
    BY <2>1, <2>2 DEF TypeOK, Step
  <2>4. ReadyMeansExists
    BY <2>2 DEF ReadyMeansExists
  <2>. QED
    BY <2>3, <2>4 DEF SInv
<1>2. SInv /\ [Next]_vars => SInv'
  BY NextPreservesSInv
<1>. QED
  BY <1>1, <1>2, PTL DEF Safe

(* Every variable keeps its type, and a call operates only if its object   *)
(* has a container: GetContainerAsync never throws for want of one.        *)
THEOREM StartupTypeOK == StartupAssumption => (Safe => []TypeOK)
  BY StartupInvariant, PTL DEF SInv

(* A repository that is to create its structures caches only what exists.  *)
THEOREM ReadyRepositoriesExist == StartupAssumption => (Safe => []ReadyMeansExists)
  BY StartupInvariant, PTL DEF SInv

-----------------------------------------------------------------------------
(* All repositories ask for a hierarchical key of two paths, and so does   *)
(* whoever created the container before them.                              *)
AllHierarchical ==
    /\ Existing \subseteq {0, 2}
    /\ \A o \in Objects : Options[o].hierarchical /\ Options[o].paths = 2

HInv == SInv /\ container \in {0, 2} /\ OnlyFaultsFail

(* The keys of all operations fit a container of two levels if all ask for *)
(* two.                                                                    *)
LEMMA AllKeysFit ==
  ASSUME StartupAssumption, AllHierarchical, NEW c \in Calls, container = 2
  PROVE  \A operation \in Operation : Fits(c, operation)
<1>1. Of(c).hierarchical
  BY DEF StartupAssumption, AllHierarchical, Of
<1>. QED
  BY <1>1 DEF Fits, KeyLevels

(* A step that keeps the answers, or gives one call an answer it deserves. *)
LEMMA AnswersStayDeserved ==
  ASSUME OnlyFaultsFail, hit \subseteq hit', NEW c \in Calls, NEW a, TypeOK,
         End(c, a) \/ UNCHANGED answer,
         End(c, a) /\ Of(c).create /\ a \in {"failed", "null"} => c \in hit'
  PROVE  OnlyFaultsFail'
<1>. SUFFICES ASSUME NEW d \in Calls, Of(d).create, answer'[d] \in {"failed", "null"}
              PROVE  d \in hit'
  BY DEF OnlyFaultsFail, Of
<1>1. CASE UNCHANGED answer
  BY <1>1 DEF OnlyFaultsFail
<1>2. CASE End(c, a) /\ d # c
  <2>1. answer'[d] = answer[d]
    BY <1>2 DEF End, TypeOK
  <2>. QED
    BY <2>1 DEF OnlyFaultsFail
<1>3. CASE End(c, a) /\ d = c
  <2>1. answer'[c] = a
    BY <1>3 DEF End, TypeOK
  <2>. QED
    BY <2>1, <1>3
<1>. QED
  BY <1>1, <1>2, <1>3

(* Every step keeps the hierarchical container and fails nobody without a  *)
(* fault.                                                                  *)
LEMMA NextPreservesHInv ==
  ASSUME StartupAssumption, AllHierarchical, HInv, [Next]_vars
  PROVE  HInv'
<1>1. SInv'
  BY NextPreservesSInv DEF HInv
<1>2. container' \in {0, 2}
  <2>1. \A c \in Calls : Levels(c) = 2
    BY DEF StartupAssumption, AllHierarchical, Levels, Of
  <2>2. \A c \in Calls : Make(c) => container' \in {0, 2}
    BY <2>1 DEF Make, HInv
  <2>. QED
    BY <2>2 DEF HInv, Next, vars, server, CallStep, Begin, ListDatabases, ListContainers, Create,
                CreateError, Operate, RequestFails, Restart
<1>. TypeOK /\ OnlyFaultsFail
  BY DEF HInv, SInv
<1>3. OnlyFaultsFail'
  <2>1. ASSUME NEW c \in Calls, CallStep(c)
        PROVE  OnlyFaultsFail'
    <3>1. CASE UNCHANGED <<answer, hit>>
      BY <3>1, AnswersStayDeserved
    <3>2. CASE Begin(c) \/ ListDatabases(c) \/ ListContainers(c) \/ Create(c)
      BY <3>1, <3>2 DEF Begin, ListDatabases, ListContainers, Create, Created, GoTo
    <3>3. ASSUME NEW error \in {"exists", "other"}, CreateError(c, error)
          PROVE  OnlyFaultsFail'
      <4>1. CASE error = "exists"
        BY <3>1, <3>3, <4>1 DEF CreateError, MeansExists, Created, GoTo
      <4>2. CASE error = "other"
        <5>1. End(c, "failed") /\ hit' = hit \cup {c}
          BY <3>3, <4>2 DEF CreateError, MeansExists
        <5>. QED
          BY <5>1, AnswersStayDeserved
      <4>. QED
        BY <4>1, <4>2
    <3>4. CASE Operate(c)
      <4>1. hit' = hit
        BY <3>4 DEF Operate
      <4>2. CASE ~Of(c).create
        <5>1. \E a : End(c, a)
          BY <3>4 DEF Operate
        <5>. QED
          BY <4>1, <4>2, <5>1, AnswersStayDeserved
      <4>3. CASE Of(c).create
        <5>1. "container" \in cached[ObjectOf[c]]
          BY <3>4 DEF Operate, TypeOK
        <5>2. container = 2
          BY <4>3, <5>1 DEF HInv, SInv, ReadyMeansExists, Of, StartupAssumption
        <5>3. End(c, "done")
          BY <3>4, <5>2, AllKeysFit DEF Operate
        <5>. QED
          BY <4>1, <5>3, AnswersStayDeserved
      <4>. QED
        BY <4>2, <4>3
    <3>5. CASE RequestFails(c)
      <4>1. End(c, "failed") /\ hit' = hit \cup {c}
        BY <3>5 DEF RequestFails
      <4>. QED
        BY <4>1, AnswersStayDeserved
    <3>. QED
      BY <2>1, <3>2, <3>3, <3>4, <3>5 DEF CallStep
  <2>2. ASSUME NEW o \in Objects, Restart(o)
        PROVE  OnlyFaultsFail'
    <3>. DEFINE dying == {c \in Calls : ObjectOf[c] = o /\ Running(c)}
    <3>1. /\ answer' = [c \in Calls |-> IF c \in dying THEN "failed" ELSE answer[c]]
          /\ hit' = hit \cup dying
      BY <2>2 DEF Restart
    <3>. QED
      BY <3>1 DEF OnlyFaultsFail, Of
  <2>3. CASE UNCHANGED vars
    BY <2>3 DEF vars, OnlyFaultsFail, Of
  <2>. QED
    BY <2>1, <2>2, <2>3 DEF Next
<1>. QED
  BY <1>1, <1>2, <1>3 DEF HInv

(* If every repository asks for a hierarchical key, racing to create the   *)
(* database and the container fails nobody, no failure sticks, and the key *)
(* of GetByIdAsync fits the container, whoever created it.                 *)
THEOREM RacingFailsNobody ==
  StartupAssumption /\ AllHierarchical => (Safe => [](OnlyFaultsFail /\ KeysFit))
<1>. SUFFICES ASSUME StartupAssumption, AllHierarchical
              PROVE  Safe => [](OnlyFaultsFail /\ KeysFit)
  OBVIOUS
<1>1. Init => HInv
  <2>. SUFFICES ASSUME Init
                PROVE  HInv
    OBVIOUS
  <2>1. database \in BOOLEAN /\ container \in {0, 2}
    BY DEF Init, AllHierarchical
  <2>2. /\ cached = [o \in Objects |-> {}]
        /\ step = [c \in Calls |-> "start"]
        /\ answer = [c \in Calls |-> "none"]
        /\ hit = {}
    BY DEF Init
  <2>3. TypeOK
    BY <2>1, <2>2 DEF TypeOK, Step
  <2>4. ReadyMeansExists /\ OnlyFaultsFail
    BY <2>2 DEF ReadyMeansExists, OnlyFaultsFail
  <2>. QED
    BY <2>1, <2>3, <2>4 DEF SInv, HInv
<1>2. HInv /\ [Next]_vars => HInv'
  BY NextPreservesHInv
<1>3. HInv => OnlyFaultsFail /\ KeysFit
  BY AllKeysFit DEF HInv, KeysFit, Operation
<1>. QED
  BY <1>1, <1>2, <1>3, PTL DEF Safe
=============================================================================
