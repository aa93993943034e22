-------------------------- MODULE RepositoryStartup --------------------------
(***************************************************************************)
(* How a repository (CosmosRepository.cs) finds the database and container *)
(* it works on, and the partition keys its operations use there.  The      *)
(* first calls on a repository object look for the database and the        *)
(* container, create what is missing, and cache both without a lock: calls *)
(* on one object, objects of one process and processes all race to create  *)
(* the same two things.                                                    *)
(*                                                                         *)
(* Items are left out: an operation succeeds if the container exists and   *)
(* its partition key has as many levels as the container's.                *)
(***************************************************************************)
EXTENDS Naturals, FiniteSets

CONSTANTS
    Calls,       (* the calls, each on one repository object                 *)
    Objects,     (* the repository objects, of one process or of several     *)
    ObjectOf,    (* the object of a call                                     *)
    Options,     (* CosmosRepositoryOptions of an object: WithCreateStruc-   *)
                 (* tures, UseHierarchicalPartitionKey, and how many paths   *)
                 (* its PartitionKey names                                   *)
    Existing,    (* the levels of the container's key at the start; 0: none  *)
    Faults       (* "service": a request fails; "crash": a process dies      *)

Operation == {"GetByIdAsync", "DeleteAsync", "SaveAsync", "query"}

ASSUME StartupAssumption ==
    /\ ObjectOf \in [Calls -> Objects]
    /\ Options \in [Objects -> [create : BOOLEAN, hierarchical : BOOLEAN, paths : {1, 2}]]
    /\ Existing \subseteq {0, 1, 2} /\ Faults \subseteq {"service", "crash"}

VARIABLES
    database,    (* whether there is the database                            *)
    container,   (* the levels of the container's partition key; 0: none     *)
    cached,      (* which of _Database and _Container an object has          *)
    step,        (* where a call is                                          *)
    answer,      (* how a call ended                                         *)
    hit          (* observed only: the calls that the service failed         *)

server == <<database, container>>
vars == <<database, container, cached, step, answer, hit>>

Step == {"start", "listing databases", "creating database", "listing containers",
         "creating container", "operating", "ended"}
Resources == {"database", "container"}

Of(c) == Options[ObjectOf[c]]

Init ==
    /\ container \in Existing
    /\ database \in {e \in BOOLEAN : container # 0 => e}
    /\ cached = [o \in Objects |-> {}]
    /\ step = [c \in Calls |-> "start"]
    /\ answer = [c \in Calls |-> "none"]
    /\ hit = {}

GoTo(c, s) == step' = [step EXCEPT ![c] = s] /\ UNCHANGED <<answer, hit>>
End(c, a) == step' = [step EXCEPT ![c] = "ended"] /\ answer' = [answer EXCEPT ![c] = a]
Cache(c, resources) == cached' = [cached EXCEPT ![ObjectOf[c]] = @ \cup resources]

Mutant_Initialized(o) == cached[o] # {}
Initialized(o) == cached[o] = Resources

(* Initialize: nothing is to be done if both are cached; without           *)
(* WithCreateStructures both are taken to exist.                           *)
Begin(c) ==
    /\ step[c] = "start"
    /\ \/ /\ Initialized(ObjectOf[c])
          /\ GoTo(c, "operating") /\ UNCHANGED cached
       \/ /\ ~Initialized(ObjectOf[c]) /\ ~Of(c).create
          /\ Cache(c, Resources) /\ GoTo(c, "operating")
       \/ /\ ~Initialized(ObjectOf[c]) /\ Of(c).create
          /\ GoTo(c, "listing databases") /\ UNCHANGED cached
    /\ UNCHANGED server

ListDatabases(c) ==
    /\ step[c] = "listing databases"
    /\ \/ database /\ Cache(c, {"database"}) /\ GoTo(c, "listing containers")
       \/ ~database /\ UNCHANGED cached /\ GoTo(c, "creating database")
    /\ UNCHANGED server

ListContainers(c) ==
    /\ step[c] = "listing containers"
    /\ \/ container # 0 /\ Cache(c, {"container"}) /\ GoTo(c, "operating")
       \/ container = 0 /\ UNCHANGED cached /\ GoTo(c, "creating container")
    /\ UNCHANGED server

(* A container has one level unless its options name two paths and ask for *)
(* a hierarchical key.                                                     *)
Levels(c) == IF Of(c).paths = 1 \/ ~Of(c).hierarchical THEN 1 ELSE 2

Missing(c) == IF step[c] = "creating database" THEN ~database ELSE container = 0
Make(c) ==
    IF step[c] = "creating database" THEN database' = TRUE /\ UNCHANGED container
                                     ELSE container' = Levels(c) /\ UNCHANGED database

(* The errors that say another has created it: 409, or the emulator's 500  *)
(* with its message.  Any other error is thrown.                           *)
Mutant_MeansExists(error) == FALSE
Mutant_AnyError(error) == TRUE
MeansExists(error) == error = "exists"

(* The call goes on with what was created, or with what another created. *)
Created(c) ==
    IF step[c] = "creating database"
    THEN Cache(c, {"database"}) /\ GoTo(c, "listing containers")
    ELSE Cache(c, {"container"}) /\ GoTo(c, "operating")

Creating(c) == step[c] \in {"creating database", "creating container"}

Create(c) == Creating(c) /\ Missing(c) /\ Make(c) /\ Created(c)

(* An error: another was first, or the service fails before or after it    *)
(* did what was asked.                                                     *)
CreateError(c, error) ==
    /\ Creating(c)
    /\ \/ error = "exists" /\ ~Missing(c) /\ UNCHANGED server
       \/ error = "other" /\ "service" \in Faults /\ UNCHANGED server
       \/ error = "other" /\ "service" \in Faults /\ Missing(c) /\ Make(c)
    /\ IF MeansExists(error) THEN Created(c)
       ELSE /\ End(c, "failed")
            /\ hit' = IF error = "other" THEN hit \cup {c} ELSE hit
            /\ UNCHANGED cached

(* GetByIdAsync and DeleteAsync of an item always use the tenant and the   *)
(* type of the item; GetPartitionKey and GetQueryContextAsync use the type *)
(* only if the options ask for it.  A query may name fewer levels.         *)
KeyLevels(c, operation) ==
    IF operation \in {"GetByIdAsync", "DeleteAsync"} \/ Of(c).hierarchical THEN 2 ELSE 1

Fits(c, operation) ==
    \/ KeyLevels(c, operation) = container
    \/ operation = "query" /\ KeyLevels(c, operation) < container

(* The operation itself; GetByIdAsync takes a missing container for a      *)
(* missing item.                                                           *)
Operate(c) ==
    /\ step[c] = "operating"
    /\ \E operation \in Operation :
          \/ /\ container # 0
             /\ End(c, IF Fits(c, operation) THEN "done" ELSE "failed")
          \/ /\ container = 0
             /\ End(c, IF operation = "GetByIdAsync" THEN "null" ELSE "failed")
    /\ UNCHANGED <<database, container, cached, hit>>

(* An error of the service in a listing or in the operation. *)
RequestFails(c) ==
    /\ "service" \in Faults
    /\ step[c] \in {"listing databases", "listing containers", "operating"}
    /\ End(c, "failed") /\ hit' = hit \cup {c}
    /\ UNCHANGED <<database, container, cached>>

(* The process dies: its calls fail, and later ones have a new object. *)
Running(c) == step[c] \notin {"start", "ended"}
Restart(o) ==
    LET dying == {c \in Calls : ObjectOf[c] = o /\ Running(c)}
    IN /\ "crash" \in Faults /\ (cached[o] # {} \/ dying # {})
       /\ cached' = [cached EXCEPT ![o] = {}]
       /\ step' = [c \in Calls |-> IF c \in dying THEN "ended" ELSE step[c]]
       /\ answer' = [c \in Calls |-> IF c \in dying THEN "failed" ELSE answer[c]]
       /\ hit' = hit \cup dying
       /\ UNCHANGED server

CallStep(c) == \/ Begin(c) \/ ListDatabases(c) \/ ListContainers(c) \/ Create(c)
               \/ (\E error \in {"exists", "other"} : CreateError(c, error))
               \/ Operate(c) \/ RequestFails(c)

Next == (\E c \in Calls : CallStep(c)) \/ (\E o \in Objects : Restart(o))

Safe == Init /\ [][Next]_vars

-----------------------------------------------------------------------------
(* The types.  A call is operating only if its object has a container:     *)
(* GetContainerAsync never throws its "Container instance is null".        *)
TypeOK ==
    /\ database \in BOOLEAN /\ container \in {0, 1, 2}
    /\ cached \in [Objects -> SUBSET Resources]
    /\ step \in [Calls -> Step]
    /\ answer \in [Calls -> {"none", "done", "null", "failed"}]
    /\ hit \subseteq Calls
    /\ \A c \in Calls : step[c] = "operating" => "container" \in cached[ObjectOf[c]]

(* A repository that is to create its structures never caches what does    *)
(* not exist, whatever errors it met: an error that is not "it exists"     *)
(* leaves it to the next call to try again.                                *)
ReadyMeansExists ==
    \A o \in Objects : Options[o].create =>
        /\ "database" \in cached[o] => database
        /\ "container" \in cached[o] => container # 0

(* Racing to create the database and the container fails nobody, and no    *)
(* failure sticks: a call on a repository that creates its structures      *)
(* fails, or mistakes a missing container for a missing item, only if the  *)
(* service or its process failed that very call.                           *)
OnlyFaultsFail ==
    \A c \in Calls :
        Of(c).create /\ answer[c] \in {"failed", "null"} => c \in hit

(* "Gets an entity by its id and tenant id. ... Matching item or null if   *)
(* not found" (CosmosTenantItemRepository.cs:48-53): the key that          *)
(* GetByIdAsync builds fits the container its repository has found or      *)
(* created, or the request fails for every item, those that SaveAsync has  *)
(* put there included.                                                     *)
KeysFit ==
    \A c \in Calls :
        step[c] = "operating" /\ container # 0 => Fits(c, "GetByIdAsync")
=============================================================================
