----------------------------- MODULE Repository -----------------------------
(***************************************************************************)
(* Optimistic concurrency in CosmosRepository: clients (requests of a web  *)
(* application) that read items of one container, edit them in memory,     *)
(* save them one by one (SaveAsync(T)) or in lists (SaveAsync(IList<T>))   *)
(* and delete them.                                                        *)
(*                                                                         *)
(* Every write that the server applies makes a version of the document;    *)
(* `versions' is the sequence of all of them and the etag of a version is  *)
(* its index there.  Etag 0 is the empty string of a new object, and a key *)
(* of the store that has version 0 has no document.  What a document says  *)
(* is abstracted to the set of the edits it contains.                      *)
(***************************************************************************)
EXTENDS Integers, Sequences, FiniteSets

CONSTANTS
    Clients,        (* users of the repository, each with objects of its own *)
    Keys,           (* (partition, id) of documents; ids are new Guids       *)
    Partitions,     (* values of the partition key                           *)
    PartitionOf,    (* the partition of a key                                *)
    BatchSize,      (* BatchSize: items per transactional batch              *)
    ContentOnWrite, (* responses of writes carry the document: the default   *)
                    (* of CosmosClientOptions.EnableContentResponseOnWrite   *)
    Operations,     (* what clients do: "save", "list", "delete"             *)
    Faults,         (* "lost": a write is applied and its response lost;     *)
                    (* "server": the server answers with another error       *)
    MaxEdits,       (* bound: edits                                          *)
    MaxVersions,    (* bound: writes the server applies                      *)
    MaxList         (* bound: length of a list                               *)

ASSUME RepositoryAssumption ==
    /\ PartitionOf \in [Keys -> Partitions]
    /\ BatchSize \in Nat \ {0}
    /\ ContentOnWrite \in BOOLEAN
    /\ Operations \subseteq {"save", "list", "delete"}
    /\ Faults \subseteq {"lost", "server"}
    /\ MaxEdits \in Nat /\ MaxVersions \in Nat /\ MaxList \in Nat
    /\ "none" \notin Clients

VARIABLES
    versions,      (* every version the container ever had                   *)
    store,         (* the version of every document, 0 if there is none      *)
    items,         (* the clients' objects: their etag and their edits       *)
    creator,       (* the client that made the id of a key                   *)
    edits,         (* how many edits were made                               *)
    list, batch,   (* SaveAsync(IList): its argument and currentBatch        *)
    answer,        (* what the last step returned or threw to its caller     *)
    acknowledged   (* edits of the document whose saves were acknowledged    *)

vars == <<versions, store, items, creator, edits, list, batch, answer, acknowledged>>

Missing == [etag |-> 0, edits |-> {}]
Item == [etag : Nat, edits : SUBSET (1..MaxEdits)]
Version == [by : Clients, key : Keys, edits : SUBSET (1..MaxEdits)]
Answer == {"none", "saved", "list saved", "conflict", "failed", "deleted", "not found"}

Elements(s) == {s[i] : i \in DOMAIN s}

-----------------------------------------------------------------------------
(* BatchUtility.GetBatches *)

Mutant_GetBatchCount(count, size) == count \div size
GetBatchCount(count, size) ==
    IF count % size # 0 THEN count \div size + 1 ELSE count \div size

CreateArrayForBatch(s, size, number) ==
    SubSeq(s, (number - 1) * size + 1,
           IF number * size <= Len(s) THEN number * size ELSE Len(s))

-----------------------------------------------------------------------------
Init ==
    /\ versions = <<>>
    /\ store = [k \in Keys |-> 0]
    /\ items = [c \in Clients |-> [k \in Keys |-> Missing]]
    /\ creator = [k \in Keys |-> "none"]
    /\ edits = 0
    /\ list = [c \in Clients |-> <<>>]
    /\ batch = [c \in Clients |-> 0]
    /\ answer = "none"
    /\ acknowledged = [k \in Keys |-> {}]

Idle(c) == batch[c] = 0
Holds(c, k) == items[c][k] # Missing

(* A new object: its etag is empty and SaveAsync gives it an id of its own. *)
New(c, k) ==
    /\ Idle(c) /\ edits < MaxEdits
    /\ creator[k] = "none"
    /\ creator' = [creator EXCEPT ![k] = c]
    /\ edits' = edits + 1
    /\ items' = [items EXCEPT ![c][k] = [etag |-> 0, edits |-> {edits'}]]
    /\ answer' = "none"
    /\ UNCHANGED <<versions, store, list, batch, acknowledged>>

(* GetByIdAsync(tenantId, id): a fresh object, or null. *)
Get(c, k) ==
    /\ Idle(c)
    /\ items' = [items EXCEPT ![c][k] =
                   IF store[k] = 0 THEN Missing
                   ELSE [etag |-> store[k], edits |-> versions[store[k]].edits]]
    /\ answer' = "none"
    /\ UNCHANGED <<versions, store, creator, edits, list, batch, acknowledged>>

(* The caller changes a property of its object. *)
Edit(c, k) ==
    /\ Idle(c) /\ Holds(c, k) /\ edits < MaxEdits
    /\ edits' = edits + 1
    /\ items' = [items EXCEPT ![c][k].edits = @ \cup {edits'}]
    /\ answer' = "none"
    /\ UNCHANGED <<versions, store, creator, list, batch, acknowledged>>

-----------------------------------------------------------------------------
(* SaveAsync(T): an upsert with IfMatchEtag. *)

Mutant_IfMatchEtag(c, k) == 0
IfMatchEtag(c, k) == items[c][k].etag

(* An empty etag asks for nothing.  What the server does with an etag when *)
(* it has no such document is its own business: both answers are possible. *)
MayUpsert(c, k) == IfMatchEtag(c, k) \in {0, store[k]} \/ store[k] = 0
MayRefuse(c, k) == IfMatchEtag(c, k) \notin {0, store[k]}

NewVersion(c, k) == [by |-> c, key |-> k, edits |-> items[c][k].edits]

(* The response's etag becomes that of the object, if its Resource is not  *)
(* null.                                                                   *)
Mutant_EtagReturned(c, k) == items[c][k].etag
EtagReturned(c, k) == IF ContentOnWrite THEN Len(versions') ELSE items[c][k].etag

Save(c, k) ==
    /\ "save" \in Operations
    /\ Idle(c) /\ Holds(c, k)
    /\ Len(versions) < MaxVersions
    /\ MayUpsert(c, k)
    /\ versions' = Append(versions, NewVersion(c, k))
    /\ store' = [store EXCEPT ![k] = Len(versions')]
    /\ items' = [items EXCEPT ![c][k].etag = EtagReturned(c, k)]
    /\ acknowledged' = [acknowledged EXCEPT ![k] = @ \cup items[c][k].edits]
    /\ answer' = "saved"
    /\ UNCHANGED <<creator, edits, list, batch>>

(* PreconditionFailed becomes an OptimisticConcurrencyException. *)
SaveRefused(c, k) ==
    /\ "save" \in Operations
    /\ Idle(c) /\ Holds(c, k)
    /\ MayRefuse(c, k)
    /\ answer' = "conflict"
    /\ UNCHANGED <<versions, store, items, creator, edits, list, batch, acknowledged>>

(* Any other error is thrown.  The upsert may have been applied all the    *)
(* same (a timeout), and the object keeps the etag it had.                 *)
SaveFails(c, k) ==
    /\ "save" \in Operations
    /\ Idle(c) /\ Holds(c, k)
    /\ \/ "server" \in Faults /\ UNCHANGED <<versions, store>>
       \/ /\ "lost" \in Faults
          /\ Len(versions) < MaxVersions
          /\ MayUpsert(c, k)
          /\ versions' = Append(versions, NewVersion(c, k))
          /\ store' = [store EXCEPT ![k] = Len(versions')]
    /\ answer' = "failed"
    /\ UNCHANGED <<items, creator, edits, list, batch, acknowledged>>

-----------------------------------------------------------------------------
(* SaveAsync(IList<T>): batch after batch, each of them a transaction of   *)
(* unconditional upserts in the partition of its first item.               *)

StartList(c, ks) ==
    /\ "list" \in Operations
    /\ Idle(c)
    /\ ks # <<>> /\ \A i \in DOMAIN ks : Holds(c, ks[i])
    /\ list' = [list EXCEPT ![c] = ks]
    /\ batch' = [batch EXCEPT ![c] = 1]
    /\ answer' = "none"
    /\ UNCHANGED <<versions, store, items, creator, edits, acknowledged>>

CurrentBatch(c) == CreateArrayForBatch(list[c], BatchSize, batch[c])
OnePartition(ks) == \A i \in DOMAIN ks : PartitionOf[ks[i]] = PartitionOf[ks[1]]

(* The service makes a version for each operation of a batch, in order,    *)
(* and answers with their etags.  A list may name an object twice; the     *)
(* last operation on it decides.                                           *)
OperationVersion(i) == Len(versions) + i
BatchResponse(ks) == [i \in DOMAIN ks |-> OperationVersion(i)]

LastOf(ks) ==
    {last \in [Elements(ks) -> DOMAIN ks] :
        \A k \in Elements(ks) : /\ ks[last[k]] = k
                                /\ \A i \in DOMAIN ks : i > last[k] => ks[i] # k}

UpsertBatch(c, ks, last) ==
    /\ OnePartition(ks)
    /\ Len(versions) + Len(ks) <= MaxVersions
    /\ versions' = versions \o [i \in DOMAIN ks |-> NewVersion(c, ks[i])]
    /\ store' = [k \in Keys |->
          IF k \in Elements(ks) THEN OperationVersion(last[k]) ELSE store[k]]

Returned(c, a) ==
    /\ list' = [list EXCEPT ![c] = <<>>]
    /\ batch' = [batch EXCEPT ![c] = 0]
    /\ answer' = a

(* GetOperationResultAtIndex(i): what the client takes for the etag of     *)
(* batch[i].                                                               *)
Mutant_ItemResponse(ks, i) == BatchResponse(ks)[1]
ItemResponse(ks, i) == BatchResponse(ks)[i]

(* The loop that hands out the etags goes through the batch in order: an   *)
(* object that is in it twice keeps the later one.                         *)
UpdatedItems(c, ks, last) ==
    [k \in Keys |-> IF ContentOnWrite /\ k \in Elements(ks)
                    THEN [items[c][k] EXCEPT !.etag = ItemResponse(ks, last[k])]
                    ELSE items[c][k]]

(* currentBatch is not the last one of GetBatches. *)
Mutant_MoreBatches(c) == batch[c] <= GetBatchCount(Len(list[c]), BatchSize)
MoreBatches(c) == batch[c] < GetBatchCount(Len(list[c]), BatchSize)

(* The batch is applied and the etags of its objects are updated. *)
SaveBatch(c) ==
    LET ks == CurrentBatch(c)
    IN /\ batch[c] > 0
       /\ \E last \in LastOf(ks) :
             /\ UpsertBatch(c, ks, last)
             /\ items' = [items EXCEPT ![c] = UpdatedItems(c, ks, last)]
       /\ acknowledged' = [k \in Keys |-> IF k \in Elements(ks)
                                          THEN acknowledged[k] \cup items[c][k].edits
                                          ELSE acknowledged[k]]
       /\ \/ /\ MoreBatches(c)
             /\ batch' = [batch EXCEPT ![c] = @ + 1]
             /\ answer' = "none" /\ UNCHANGED list
          \/ /\ ~MoreBatches(c)
             /\ Returned(c, "list saved")
       /\ UNCHANGED <<creator, edits>>

(* The batch fails as a whole, or is applied and its response lost; the    *)
(* batches that follow are not sent.                                       *)
SaveBatchFails(c) ==
    /\ batch[c] > 0
    /\ \/ /\ ~OnePartition(CurrentBatch(c)) \/ "server" \in Faults
          /\ UNCHANGED <<versions, store>>
       \/ /\ "lost" \in Faults
          /\ \E last \in LastOf(CurrentBatch(c)) : UpsertBatch(c, CurrentBatch(c), last)
    /\ Returned(c, "failed")
    /\ UNCHANGED <<items, creator, edits, acknowledged>>

-----------------------------------------------------------------------------
(* DeleteAsync, of an item or of an id (which is looked up first, for its  *)
(* partition): unconditional, and an error when there is no such document. *)
(* A request that fails may have been applied.                             *)
Delete(c, k) ==
    /\ "delete" \in Operations
    /\ Idle(c)
    /\ \/ /\ store[k] # 0
          /\ store' = [store EXCEPT ![k] = 0]
          /\ acknowledged' = [acknowledged EXCEPT ![k] = {}]
          /\ \/ answer' = "deleted"
             \/ Faults # {} /\ answer' = "failed"
       \/ /\ store[k] = 0 /\ answer' = "not found"
          /\ UNCHANGED <<store, acknowledged>>
       \/ /\ Faults # {} /\ answer' = "failed"
          /\ UNCHANGED <<store, acknowledged>>
    /\ UNCHANGED <<versions, items, creator, edits, list, batch>>

Lists == UNION {[1..n -> Keys] : n \in 1..MaxList}

Next ==
    \E c \in Clients :
        \/ \E k \in Keys : \/ New(c, k) \/ Get(c, k) \/ Edit(c, k)
                           \/ Save(c, k) \/ SaveRefused(c, k) \/ SaveFails(c, k)
                           \/ Delete(c, k)
        \/ \E ks \in Lists : StartList(c, ks)
        \/ SaveBatch(c)
        \/ SaveBatchFails(c)

Safe == Init /\ [][Next]_vars

-----------------------------------------------------------------------------
(* The types; every document of the store is a version that was written,   *)
(* and a client that saves a list is at one of its batches.                *)
TypeOK ==
    /\ versions \in Seq(Version)
    /\ store \in [Keys -> 0..Len(versions)]
    /\ items \in [Clients -> [Keys -> Item]]
    /\ creator \in [Keys -> Clients \cup {"none"}]
    /\ edits \in 0..MaxEdits
    /\ list \in [Clients -> Seq(Keys)]
    /\ batch \in [Clients -> Nat]
    /\ \A c \in Clients : batch[c] <= GetBatchCount(Len(list[c]), BatchSize)
    /\ answer \in Answer
    /\ acknowledged \in [Keys -> SUBSET (1..MaxEdits)]

(* Optimistic concurrency: what a client was told is saved stays in the    *)
(* document until the document is deleted, whoever else reads, edits and   *)
(* saves it.                                                               *)
NoLostUpdate ==
    \A k \in Keys : store[k] # 0 => acknowledged[k] \subseteq versions[store[k]].edits

(* An etag is never attached to the wrong object or to an object that does *)
(* not know what it would overwrite: the version an object's etag names is *)
(* one of this document and the object has all its edits.                  *)
EtagNamesAncestor ==
    \A c \in Clients, k \in Keys :
        LET e == items[c][k].etag
        IN e # 0 => /\ e <= Len(versions)
                    /\ versions[e].key = k
                    /\ versions[e].edits \subseteq items[c][k].edits

(* Responses may be lost and lists may be saved over everything: a save    *)
(* that carries an etag, whether the caller hears of it or not, still      *)
(* keeps every edit of the version it replaces.                            *)
SaveKeepsWhatItReplaces ==
    [][\A c \in Clients, k \in Keys :
         /\ Save(c, k) \/ SaveFails(c, k)
         /\ items[c][k].etag # 0 /\ store[k] # 0
         => versions[store[k]].edits \subseteq versions'[store'[k]].edits]_vars

(* A conflict is somebody else's doing: while the document exists, a       *)
(* client that saved last, by itself or in a list, is not refused its next *)
(* save.                                                                   *)
ConflictIsReal ==
    [][\A c \in Clients, k \in Keys :
         SaveRefused(c, k) /\ store[k] # 0 => versions[store[k]].by # c]_vars

(* A list that is reported as saved is saved to its last item: the etag of *)
(* each of its objects names a version with all that is in the object.     *)
ListSaved ==
    [][\A c \in Clients :
         batch[c] > 0 /\ answer' = "list saved" /\ batch'[c] = 0
         => \A k \in Elements(list[c]) :
               LET i == items'[c][k]
               IN i.etag # 0 /\ versions'[i.etag].edits = i.edits]_vars
=============================================================================
