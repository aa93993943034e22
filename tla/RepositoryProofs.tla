-------------------------- MODULE RepositoryProofs --------------------------
(***************************************************************************)
(* Theorems about Repository, for any number of clients and documents and  *)
(* every batch size: etags never name a version their object does not      *)
(* know, and single saves with a known outcome lose no update.             *)
(*                                                                         *)
(* RInv is inductive under all operations and faults.  Fresh is what makes *)
(* the empty etag harmless when there are neither lists nor lost           *)
(* responses: an object without an etag is the only trace of its document. *)
(*                                                                         *)
(* OwnIsKnown makes conflicts real: the client whose write a document has  *)
(* holds its etag, or none, and is not refused.  SavedSoFar follows a list *)
(* through its batches: what they have passed is among the versions as the *)
(* client has it.                                                          *)
(***************************************************************************)
EXTENDS Repository, SequenceTheorems, TLAPS

(* The version a document has is one of its own. *)
StoreNamesOwn == \A k \in Keys : store[k] # 0 => versions[store[k]].key = k

RInv == TypeOK /\ StoreNamesOwn /\ EtagNamesAncestor

(* Without lists and lost responses: *)
NoLists == \A c \in Clients : batch[c] = 0

Unwritten(k) == \A i \in 1..Len(versions) : versions[i].key # k

Fresh ==
    /\ \A c \in Clients, k \in Keys :
          Holds(c, k) /\ items[c][k].etag = 0 => creator[k] = c /\ Unwritten(k)
    /\ \A k \in Keys : creator[k] = "none" => Unwritten(k)

DeletedForgets == \A k \in Keys : store[k] = 0 => acknowledged[k] = {}

NInv == RInv /\ NoLists /\ Fresh /\ DeletedForgets /\ NoLostUpdate

(* The batches of GetBatches cover the list: as many batches as            *)
(* GetBatchCount says hold at least as many items as there are             *)
(* (BatchUtility.cs:13-24).                                                *)
LEMMA BatchesCover ==
  ASSUME NEW count \in Nat, NEW size \in Nat \ {0}
  PROVE  /\ GetBatchCount(count, size) \in Nat
         /\ GetBatchCount(count, size) * size >= count
<1>1. PICK q \in Nat : q = count \div size
  OBVIOUS
<1>2. PICK r \in 0..size - 1 : r = count % size
  OBVIOUS
<1>3. count = size * q + r
  BY <1>1, <1>2
<1>4. CASE r = 0
  <2>1. GetBatchCount(count, size) = q
    BY <1>1, <1>2, <1>4 DEF GetBatchCount
  <2>2. q * size = size * q
    BY <1>1
  <2>. QED
    BY <1>3, <1>4, <2>1, <2>2
<1>5. CASE r # 0
  <2>1. GetBatchCount(count, size) = q + 1
    BY <1>1, <1>2, <1>5 DEF GetBatchCount
  <2>2. (q + 1) * size = size * q + size
    BY <1>1
  <2>. QED
    BY <1>1, <1>2, <1>3, <2>1, <2>2
<1>. QED
  BY <1>4, <1>5

(* The current batch is a list of keys. *)
LEMMA BatchOfKeys ==
  ASSUME TypeOK, NEW c \in Clients, batch[c] > 0
  PROVE  CurrentBatch(c) \in Seq(Keys)
<1>. DEFINE m == (batch[c] - 1) * BatchSize + 1
            n == IF batch[c] * BatchSize <= Len(list[c]) THEN batch[c] * BatchSize
                 ELSE Len(list[c])
<1>1. BatchSize \in Nat /\ BatchSize > 0
  BY RepositoryAssumption
<1>2. batch[c] \in Nat /\ list[c] \in Seq(Keys)
  BY DEF TypeOK
<1>3. (batch[c] - 1) * BatchSize \in Nat /\ batch[c] * BatchSize \in Nat
  BY <1>1, <1>2
<1>4. m \in Int /\ m >= 1 /\ n \in Int /\ n <= Len(list[c])
  BY <1>2, <1>3
<1>5. \A i \in m..n : list[c][i] \in Keys
  BY <1>2, <1>4
<1>6. SubSeq(list[c], m, n) \in Seq(Keys)
  BY <1>4, <1>5, SubSeqProperties
<1>. QED
  BY <1>6 DEF CurrentBatch, CreateArrayForBatch

(* What is saved is a version.                                             *)
LEMMA NewVersionType ==
  ASSUME TypeOK, NEW c \in Clients, NEW k \in Keys
  PROVE  NewVersion(c, k) \in Version
BY DEF TypeOK, NewVersion, Version, Item

(* Its document and its edits are those of the object.                     *)
LEMMA NewVersionFields ==
  ASSUME NEW c, NEW k
  PROVE  NewVersion(c, k).key = k /\ NewVersion(c, k).edits = items[c][k].edits
BY DEF NewVersion

(* An object with another etag is an object.                               *)
LEMMA WithEtag ==
  ASSUME NEW i \in Item, NEW n \in Nat
  PROVE  /\ [i EXCEPT !.etag = n] \in Item
         /\ [i EXCEPT !.etag = n].etag = n
         /\ [i EXCEPT !.etag = n].edits = i.edits
BY DEF Item

(* One upsert: what is appended and what stays. *)
LEMMA OneUpsert ==
  ASSUME TypeOK, NEW c \in Clients, NEW k \in Keys,
         versions' = Append(versions, NewVersion(c, k))
  PROVE  /\ versions' \in Seq(Version)
         /\ Len(versions') = Len(versions) + 1
         /\ \A i \in 1..Len(versions) : versions'[i] = versions[i]
         /\ versions'[Len(versions')] = NewVersion(c, k)
BY NewVersionType, AppendProperties DEF TypeOK

(* The elements of a history and of what is appended to it.                *)
LEMMA Appended ==
  ASSUME NEW S, NEW old \in Seq(S), NEW added \in Seq(S)
  PROVE  /\ (old \o added) \in Seq(S)
         /\ Len(old \o added) = Len(old) + Len(added)
         /\ \A i \in 1..Len(old) : (old \o added)[i] = old[i]
         /\ \A i \in 1..Len(added) : (old \o added)[Len(old) + i] = added[i]
<1>1. Len(old) \in Nat /\ Len(added) \in Nat
  OBVIOUS
<1>2. \A i \in 1..Len(old) + Len(added) :
        (old \o added)[i] = IF i <= Len(old) THEN old[i] ELSE added[i - Len(old)]
  BY ConcatProperties
<1>3. (old \o added) \in Seq(S) /\ Len(old \o added) = Len(old) + Len(added)
  BY ConcatProperties
<1>4. ASSUME NEW i \in 1..Len(old) PROVE (old \o added)[i] = old[i]
  BY <1>1, <1>2
<1>5. ASSUME NEW i \in 1..Len(added) PROVE (old \o added)[Len(old) + i] = added[i]
  <2>1. Len(old) + i \in 1..Len(old) + Len(added) /\ ~(Len(old) + i <= Len(old))
        /\ (Len(old) + i) - Len(old) = i
    BY <1>1
  <2>. QED
    BY <2>1, <1>2
<1>. QED
  BY <1>3, <1>4, <1>5

(* One batch: the versions it appends, and the ones that documents get.    *)
LEMMA OneBatch ==
  ASSUME TypeOK, NEW c \in Clients, NEW ks \in Seq(Keys), NEW last \in LastOf(ks),
         UpsertBatch(c, ks, last)
  PROVE  /\ versions' \in Seq(Version)
         /\ Len(versions') >= Len(versions)
         /\ \A i \in 1..Len(versions) : versions'[i] = versions[i]
         /\ store' \in [Keys -> 0..Len(versions')]
         /\ \A k \in Keys \ Elements(ks) : store'[k] = store[k]
         /\ \A k \in Elements(ks) : /\ store'[k] > Len(versions)
                                    /\ versions'[store'[k]] = NewVersion(c, k)
<1>0. PICK added : added = [i \in DOMAIN ks |-> NewVersion(c, ks[i])]
  OBVIOUS
<1>1. DOMAIN ks = 1..Len(ks) /\ Len(ks) \in Nat /\ \A i \in 1..Len(ks) : ks[i] \in Keys
  OBVIOUS
<1>2. added \in Seq(Version) /\ Len(added) = Len(ks)
  <2>1. added \in [1..Len(ks) -> Version]
    BY <1>0, <1>1, NewVersionType
  <2>. QED
    BY <2>1, <1>1
<1>3. versions' = versions \o added
  BY <1>0 DEF UpsertBatch
<1>4. versions \in Seq(Version) /\ Len(versions) \in Nat
  BY DEF TypeOK
<1>5. /\ versions' \in Seq(Version)
      /\ Len(versions') = Len(versions) + Len(added)
      /\ \A i \in 1..Len(versions) : versions'[i] = versions[i]
      /\ \A i \in 1..Len(added) : versions'[Len(versions) + i] = added[i]
  <2>1. (versions \o added) \in Seq(Version)
    BY <1>2, <1>4, Appended
  <2>2. Len(versions \o added) = Len(versions) + Len(added)
    BY <1>2, <1>4, Appended
  <2>3. \A i \in 1..Len(versions) : (versions \o added)[i] = versions[i]
    BY <1>2, <1>4, Appended
  <2>4. \A i \in 1..Len(added) : (versions \o added)[Len(versions) + i] = added[i]
    BY <1>2, <1>4, Appended
  <2>. QED
    BY <2>1, <2>2, <2>3, <2>4, <1>3
<1>10. Len(versions') \in Nat /\ Len(versions') >= Len(versions)
  BY <1>1, <1>2, <1>4, <1>5
<1>6. /\ last \in [Elements(ks) -> DOMAIN ks]
      /\ \A k \in Elements(ks) : ks[last[k]] = k
      /\ store' = [k \in Keys |-> IF k \in Elements(ks) THEN OperationVersion(last[k])
                                  ELSE store[k]]
  BY DEF UpsertBatch, LastOf
<1>7. ASSUME NEW k \in Elements(ks)
      PROVE  /\ k \in Keys
             /\ store'[k] \in 1..Len(versions')
             /\ store'[k] > Len(versions)
             /\ versions'[store'[k]] = NewVersion(c, k)
  <2>1. k \in Keys
    BY <1>1 DEF Elements
  <2>2. last[k] \in 1..Len(ks) /\ ks[last[k]] = k
    BY <1>1, <1>6
  <2>3. store'[k] = Len(versions) + last[k]
    BY <1>6, <2>1 DEF OperationVersion
  <2>4. added[last[k]] = NewVersion(c, k)
    BY <2>2, <1>0, <1>1
  <2>5. versions'[Len(versions) + last[k]] = added[last[k]]
    BY <2>2, <1>2, <1>5
  <2>6. versions'[store'[k]] = NewVersion(c, k)
    BY <2>3, <2>4, <2>5
  <2>7. Len(versions') = Len(versions) + Len(ks)
    BY <1>2, <1>5
  <2>8. store'[k] \in 1..Len(versions') /\ store'[k] > Len(versions)
    BY <2>2, <2>3, <2>7, <1>1, <1>4
  <2>. QED
    BY <2>1, <2>6, <2>8
<1>8. ASSUME NEW k \in Keys, k \notin Elements(ks)
      PROVE  store'[k] = store[k] /\ store'[k] \in 0..Len(versions')
  <2>1. store'[k] = store[k]
    BY <1>6, <1>8
  <2>2. store[k] \in 0..Len(versions)
    BY DEF TypeOK
  <2>. QED
    BY <2>1, <2>2, <1>10, <1>4
<1>9. store' \in [Keys -> 0..Len(versions')]
  <2>1. \A k \in Keys : store'[k] \in 0..Len(versions')
    BY <1>7, <1>8
  <2>. QED
    BY <2>1, <1>6
<1>. QED
  BY <1>5, <1>7, <1>8, <1>9, <1>10

(* The result that the client takes for an object is that of the last      *)
(* operation on its document, so the object gets the etag of what is now   *)
(* stored: the indices of the batch and of its response agree.             *)
LEMMA EtagsOfBatch ==
  ASSUME NEW c \in Clients, NEW ks \in Seq(Keys), NEW last \in LastOf(ks),
         UpsertBatch(c, ks, last), NEW k \in Keys
  PROVE  UpdatedItems(c, ks, last)[k] = IF ContentOnWrite /\ k \in Elements(ks)
                                        THEN [items[c][k] EXCEPT !.etag = store'[k]]
                                        ELSE items[c][k]
<1>1. CASE k \in Elements(ks)
  <2>1. last[k] \in DOMAIN ks
    BY <1>1 DEF LastOf
  <2>2. ItemResponse(ks, last[k]) = OperationVersion(last[k])
    BY <2>1 DEF ItemResponse, BatchResponse
  <2>3. store'[k] = OperationVersion(last[k])
    BY <1>1 DEF UpsertBatch
  <2>. QED
    BY <1>1, <2>2, <2>3 DEF UpdatedItems
<1>2. CASE k \notin Elements(ks)
  BY <1>2 DEF UpdatedItems
<1>. QED
  BY <1>1, <1>2

-----------------------------------------------------------------------------
(* A version that an etag names stays where it is, so an object that only  *)
(* gains edits keeps knowing it.                                           *)
LEMMA AncestorsStay ==
  ASSUME TypeOK, StoreNamesOwn, EtagNamesAncestor,
         versions' \in Seq(Version), Len(versions') >= Len(versions),
         \A i \in 1..Len(versions) : versions'[i] = versions[i],
         NEW c \in Clients, NEW k \in Keys, items[c][k].etag # 0
  PROVE  /\ items[c][k].etag <= Len(versions')
         /\ versions'[items[c][k].etag].key = k
         /\ versions'[items[c][k].etag].edits \subseteq items[c][k].edits
<1>1. items[c][k].etag \in Nat /\ Len(versions) \in Nat /\ Len(versions') \in Nat
  BY DEF TypeOK, Item
<1>2. items[c][k].etag \in 1..Len(versions)
  BY <1>1 DEF EtagNamesAncestor
<1>. QED
  BY <1>1, <1>2 DEF EtagNamesAncestor

(* An upsert of one object, whether its client learns the etag or not. *)
LEMMA UpsertKeepsInvariant ==
  ASSUME RInv, NEW c \in Clients, NEW k \in Keys,
         versions' = Append(versions, NewVersion(c, k)),
         store' = [store EXCEPT ![k] = Len(versions')],
         \/ UNCHANGED items
         \/ items' = [items EXCEPT ![c][k].etag = Len(versions')]
  PROVE  /\ versions' \in Seq(Version)
         /\ store' \in [Keys -> 0..Len(versions')]
         /\ items' \in [Clients -> [Keys -> Item]]
         /\ StoreNamesOwn' /\ EtagNamesAncestor'
<1>. USE DEF RInv
<1>1. /\ versions' \in Seq(Version)
      /\ Len(versions') = Len(versions) + 1
      /\ \A i \in 1..Len(versions) : versions'[i] = versions[i]
      /\ versions'[Len(versions')] = NewVersion(c, k)
  BY OneUpsert
<1>2. /\ Len(versions) \in Nat /\ Len(versions') \in Nat /\ Len(versions') # 0
      /\ Len(versions') >= Len(versions)
  BY <1>1 DEF TypeOK
<1>3. store' \in [Keys -> 0..Len(versions')]
  BY <1>1, <1>2 DEF TypeOK
<1>4. items' \in [Clients -> [Keys -> Item]]
  <2>1. CASE UNCHANGED items
    BY <2>1 DEF TypeOK
  <2>2. CASE items' = [items EXCEPT ![c][k].etag = Len(versions')]
    <3>0. items[c][k] \in Item
      BY DEF TypeOK
    <3>1. [items[c][k] EXCEPT !.etag = Len(versions')] \in Item
      BY <3>0, <1>2, WithEtag
    <3>. QED
      BY <2>2, <3>1 DEF TypeOK
  <2>. QED
    BY <2>1, <2>2
<1>5. StoreNamesOwn'
  <2>. SUFFICES ASSUME NEW k2 \in Keys, store'[k2] # 0 PROVE versions'[store'[k2]].key = k2
    BY DEF StoreNamesOwn
  <2>1. CASE k2 = k
    <3>1. store'[k2] = Len(versions')
      BY <2>1 DEF TypeOK
    <3>. QED
      BY <3>1, <2>1, <1>1 DEF NewVersion
  <2>2. CASE k2 # k
    <3>1. store'[k2] = store[k2] /\ store[k2] \in 1..Len(versions)
      BY <2>2, <1>2 DEF TypeOK
    <3>. QED
      BY <3>1, <1>1 DEF StoreNamesOwn
  <2>. QED
    BY <2>1, <2>2
<1>6. EtagNamesAncestor'
  <2>. SUFFICES ASSUME NEW c2 \in Clients, NEW k2 \in Keys, items'[c2][k2].etag # 0
                PROVE  /\ items'[c2][k2].etag <= Len(versions')
                       /\ versions'[items'[c2][k2].etag].key = k2
                       /\ versions'[items'[c2][k2].etag].edits \subseteq items'[c2][k2].edits
    BY DEF EtagNamesAncestor
  <2>1. CASE items'[c2][k2] = items[c2][k2]
    <3>1. /\ items[c2][k2].etag <= Len(versions')
          /\ versions'[items[c2][k2].etag].key = k2
          /\ versions'[items[c2][k2].etag].edits \subseteq items[c2][k2].edits
      BY <2>1, <1>1, <1>2, AncestorsStay
    <3>. QED
      BY <3>1, <2>1
  <2>2. CASE c2 = c /\ k2 = k /\ items' = [items EXCEPT ![c][k].etag = Len(versions')]
    <3>1. items'[c2][k2].etag = Len(versions') /\ items'[c2][k2].edits = items[c][k].edits
      BY <2>2 DEF TypeOK, Item
    <3>. QED
      BY <3>1, <2>2, <1>1, <1>2, NewVersionFields
  <2>3. UNCHANGED items => items'[c2][k2] = items[c2][k2]
    OBVIOUS
  <2>4. items' = [items EXCEPT ![c][k].etag = Len(versions')] /\ ~(c2 = c /\ k2 = k)
        => items'[c2][k2] = items[c2][k2]
    BY DEF TypeOK
  <2>. QED
    BY <2>1, <2>2, <2>3, <2>4
<1>. QED
  BY <1>1, <1>3, <1>4, <1>5, <1>6

(* The same for a batch. *)
LEMMA UpsertBatchKeepsInvariant ==
  ASSUME RInv, NEW c \in Clients, NEW ks \in Seq(Keys), NEW last \in LastOf(ks),
         UpsertBatch(c, ks, last),
         \/ UNCHANGED items
         \/ items' = [items EXCEPT ![c] = UpdatedItems(c, ks, last)]
  PROVE  /\ versions' \in Seq(Version)
         /\ store' \in [Keys -> 0..Len(versions')]
         /\ items' \in [Clients -> [Keys -> Item]]
         /\ StoreNamesOwn' /\ EtagNamesAncestor'
<1>. USE DEF RInv
<1>1. /\ versions' \in Seq(Version)
      /\ Len(versions') >= Len(versions)
      /\ \A i \in 1..Len(versions) : versions'[i] = versions[i]
      /\ store' \in [Keys -> 0..Len(versions')]
      /\ \A k \in Keys \ Elements(ks) : store'[k] = store[k]
      /\ \A k \in Elements(ks) : /\ store'[k] > Len(versions)
                                 /\ versions'[store'[k]] = NewVersion(c, k)
  BY OneBatch
<1>2. Len(versions) \in Nat /\ Len(versions') \in Nat
  BY <1>1 DEF TypeOK
<1>3. ASSUME NEW k \in Keys
      PROVE  UpdatedItems(c, ks, last)[k] = IF ContentOnWrite /\ k \in Elements(ks)
                                            THEN [items[c][k] EXCEPT !.etag = store'[k]]
                                            ELSE items[c][k]
  BY EtagsOfBatch
<1>4. items' \in [Clients -> [Keys -> Item]]
  <2>1. CASE UNCHANGED items
    BY <2>1 DEF TypeOK
  <2>2. CASE items' = [items EXCEPT ![c] = UpdatedItems(c, ks, last)]
    <3>1. ASSUME NEW k \in Keys PROVE UpdatedItems(c, ks, last)[k] \in Item
      <4>1. store'[k] \in Nat
        BY <1>1, <1>2
      <4>2. [items[c][k] EXCEPT !.etag = store'[k]] \in Item /\ items[c][k] \in Item
        BY <4>1, WithEtag DEF TypeOK
      <4>. QED
        BY <1>3, <4>2
    <3>2. UpdatedItems(c, ks, last) \in [Keys -> Item]
      BY <3>1 DEF UpdatedItems
    <3>. QED
      BY <2>2, <3>2 DEF TypeOK
  <2>. QED
    BY <2>1, <2>2
<1>5. StoreNamesOwn'
  <2>. SUFFICES ASSUME NEW k \in Keys, store'[k] # 0 PROVE versions'[store'[k]].key = k
    BY DEF StoreNamesOwn
  <2>1. CASE k \in Elements(ks)
    BY <2>1, <1>1, NewVersionFields
  <2>2. CASE k \notin Elements(ks)
    <3>1. store'[k] = store[k] /\ store[k] \in 1..Len(versions)
      BY <2>2, <1>1, <1>2 DEF TypeOK
    <3>. QED
      BY <3>1, <1>1 DEF StoreNamesOwn
  <2>. QED
    BY <2>1, <2>2
<1>6. EtagNamesAncestor'
  <2>. SUFFICES ASSUME NEW c2 \in Clients, NEW k \in Keys, items'[c2][k].etag # 0
                PROVE  /\ items'[c2][k].etag <= Len(versions')
                       /\ versions'[items'[c2][k].etag].key = k
                       /\ versions'[items'[c2][k].etag].edits \subseteq items'[c2][k].edits
    BY DEF EtagNamesAncestor
  <2>1. CASE items'[c2][k] = items[c2][k]
    <3>1. /\ items[c2][k].etag <= Len(versions')
          /\ versions'[items[c2][k].etag].key = k
          /\ versions'[items[c2][k].etag].edits \subseteq items[c2][k].edits
      BY <2>1, <1>1, <1>2, AncestorsStay
    <3>. QED
      BY <3>1, <2>1
  <2>2. CASE /\ c2 = c /\ ContentOnWrite /\ k \in Elements(ks)
             /\ items' = [items EXCEPT ![c] = UpdatedItems(c, ks, last)]
    <3>1. items'[c2][k] = [items[c][k] EXCEPT !.etag = store'[k]]
      BY <2>2, <1>3 DEF TypeOK
    <3>2. items[c][k] \in Item /\ store'[k] \in Nat /\ store'[k] <= Len(versions')
      BY <1>1, <1>2 DEF TypeOK
    <3>3. items'[c2][k].etag = store'[k] /\ items'[c2][k].edits = items[c][k].edits
      BY <3>1, <3>2, WithEtag
    <3>. QED
      BY <3>2, <3>3, <2>2, <1>1, NewVersionFields
  <2>3. UNCHANGED items => items'[c2][k] = items[c2][k]
    OBVIOUS
  <2>4. /\ items' = [items EXCEPT ![c] = UpdatedItems(c, ks, last)]
        /\ ~(c2 = c /\ ContentOnWrite /\ k \in Elements(ks))
        => items'[c2][k] = items[c2][k]
    BY <1>3 DEF TypeOK
  <2>. QED
    BY <2>1, <2>2, <2>3, <2>4
<1>. QED
  BY <1>1, <1>4, <1>5, <1>6

-----------------------------------------------------------------------------
(* The empty container satisfies the invariant.                            *)
LEMMA InitInvariant == Init => RInv
<1>. SUFFICES ASSUME Init PROVE RInv
  OBVIOUS
<1>1. Missing \in Item /\ Missing.etag = 0
  BY DEF Missing, Item
<1>2. TypeOK
  <2>1. \A c \in Clients : batch[c] <= GetBatchCount(Len(list[c]), BatchSize)
    <3>1. GetBatchCount(0, BatchSize) \in Nat
      BY BatchesCover, RepositoryAssumption
    <3>2. \A c \in Clients : Len(list[c]) = 0 /\ batch[c] = 0
      BY DEF Init
    <3>. QED
      BY <3>1, <3>2
  <2>. QED
    BY <1>1, <2>1, RepositoryAssumption DEF Init, TypeOK, Answer
<1>3. StoreNamesOwn /\ EtagNamesAncestor
  BY <1>1 DEF Init, StoreNamesOwn, EtagNamesAncestor
<1>. QED
  BY <1>2, <1>3 DEF RInv

(* What a client does to its own objects. *)
LEMMA ObjectStep ==
  ASSUME RInv, NEW c \in Clients, NEW k \in Keys,
         New(c, k) \/ Get(c, k) \/ Edit(c, k)
  PROVE  RInv'
<1>. USE DEF RInv
<1>1. PICK i \in Item :
        /\ items' = [items EXCEPT ![c][k] = i]
        /\ i.etag # 0 => /\ i.etag <= Len(versions)
                         /\ versions[i.etag].key = k
                         /\ versions[i.etag].edits \subseteq i.edits
  <2>1. CASE New(c, k)
    <3>1. edits' \in 1..MaxEdits
      BY <2>1, RepositoryAssumption DEF New, TypeOK
    <3>. DEFINE i == [etag |-> 0, edits |-> {edits'}]
    <3>2. i \in Item /\ i.etag = 0
      BY <3>1 DEF Item
    <3>3. items' = [items EXCEPT ![c][k] = i]
      BY <2>1 DEF New
    <3>. HIDE DEF i
    <3>. QED
      BY <3>2, <3>3
  <2>2. CASE Get(c, k)
    <3>1. CASE store[k] = 0
      <4>1. Missing \in Item /\ Missing.etag = 0
        BY DEF Missing, Item
      <4>. QED
        BY <2>2, <3>1, <4>1 DEF Get
    <3>2. CASE store[k] # 0
      <4>1. store[k] \in 1..Len(versions) /\ versions[store[k]] \in Version
        BY <3>2 DEF TypeOK
      <4>. DEFINE i == [etag |-> store[k], edits |-> versions[store[k]].edits]
      <4>2. i \in Item /\ i.etag = store[k] /\ i.edits = versions[store[k]].edits
        BY <4>1 DEF Item, Version
      <4>3. items' = [items EXCEPT ![c][k] = i]
        BY <2>2, <3>2 DEF Get
      <4>4. i.etag <= Len(versions) /\ versions[i.etag].key = k
        BY <3>2, <4>1, <4>2 DEF StoreNamesOwn
      <4>. HIDE DEF i
      <4>. QED
        BY <4>2, <4>3, <4>4
    <3>. QED
      BY <3>1, <3>2
  <2>3. CASE Edit(c, k)
    <3>. DEFINE i == [items[c][k] EXCEPT !.edits = @ \cup {edits'}]
    <3>1. edits' \in 1..MaxEdits
      BY <2>3, RepositoryAssumption DEF Edit, TypeOK
    <3>2. items[c][k] \in Item
      BY DEF TypeOK
    <3>3. /\ i \in Item /\ i.etag = items[c][k].etag
          /\ i.edits = items[c][k].edits \cup {edits'}
      BY <3>1, <3>2 DEF Item
    <3>4. items' = [items EXCEPT ![c][k] = i]
      BY <2>3 DEF Edit, TypeOK
    <3>5. i.etag # 0 => /\ i.etag <= Len(versions)
                        /\ versions[i.etag].key = k
                        /\ versions[i.etag].edits \subseteq i.edits
      BY <3>3 DEF EtagNamesAncestor
    <3>. HIDE DEF i
    <3>. QED
      BY <3>3, <3>4, <3>5
  <2>. QED
    BY <2>1, <2>2, <2>3
<1>2. UNCHANGED <<versions, store, list, batch, acknowledged>> /\ answer' = "none"
  BY DEF New, Get, Edit
<1>3. creator' \in [Keys -> Clients \cup {"none"}] /\ edits' \in 0..MaxEdits
  <2>1. edits \in 0..MaxEdits /\ MaxEdits \in Nat
    BY RepositoryAssumption DEF TypeOK
  <2>2. edits' = edits \/ (edits < MaxEdits /\ edits' = edits + 1)
    BY DEF New, Get, Edit
  <2>3. creator' = creator \/ creator' = [creator EXCEPT ![k] = c]
    BY DEF New, Get, Edit
  <2>4. creator' \in [Keys -> Clients \cup {"none"}]
    BY <2>3 DEF TypeOK
  <2>. QED
    BY <2>1, <2>2, <2>4
<1>4. items' \in [Clients -> [Keys -> Item]]
  BY <1>1 DEF TypeOK
<1>5. TypeOK'
  BY <1>2, <1>3, <1>4 DEF TypeOK, Answer
<1>6. StoreNamesOwn'
  BY <1>2 DEF StoreNamesOwn
<1>7. EtagNamesAncestor'
  <2>. SUFFICES ASSUME NEW c2 \in Clients, NEW k2 \in Keys, items'[c2][k2].etag # 0
                PROVE  /\ items'[c2][k2].etag <= Len(versions)
                       /\ versions[items'[c2][k2].etag].key = k2
                       /\ versions[items'[c2][k2].etag].edits \subseteq items'[c2][k2].edits
    BY <1>2 DEF EtagNamesAncestor
  <2>1. CASE c2 = c /\ k2 = k
    <3>1. items'[c2][k2] = i
      BY <2>1, <1>1 DEF TypeOK
    <3>. QED
      BY <3>1, <2>1, <1>1
  <2>2. CASE ~(c2 = c /\ k2 = k)
    <3>1. items'[c2][k2] = items[c2][k2]
      BY <2>2, <1>1 DEF TypeOK
    <3>. QED
      BY <3>1 DEF EtagNamesAncestor
  <2>. QED
    BY <2>1, <2>2
<1>. QED
  BY <1>5, <1>6, <1>7

(* Steps of a client that the server does not see preserve it.             *)
LEMMA UnchangedServer ==
  ASSUME RInv, UNCHANGED <<versions, items>>, UNCHANGED store
  PROVE  StoreNamesOwn' /\ EtagNamesAncestor'
BY DEF RInv, StoreNamesOwn, EtagNamesAncestor

(* SaveAsync(T), whatever comes back. *)
LEMMA SaveStep ==
  ASSUME RInv, NEW c \in Clients, NEW k \in Keys,
         Save(c, k) \/ SaveRefused(c, k) \/ SaveFails(c, k)
  PROVE  RInv'
<1>. USE DEF RInv
<1>1. CASE versions' = versions /\ store' = store /\ items' = items /\ acknowledged' = acknowledged
  <2>1. UNCHANGED <<creator, edits, list, batch>> /\ answer' \in Answer
    BY DEF Save, SaveRefused, SaveFails, Answer
  <2>. QED
    BY <1>1, <2>1, UnchangedServer DEF TypeOK
<1>2. CASE /\ versions' = Append(versions, NewVersion(c, k))
           /\ store' = [store EXCEPT ![k] = Len(versions')]
  <2>1. UNCHANGED items \/ items' = [items EXCEPT ![c][k].etag = Len(versions')]
    <3>1. CASE Save(c, k) /\ ~ContentOnWrite
      <4>1. items' = [items EXCEPT ![c][k].etag = items[c][k].etag]
        BY <3>1 DEF Save, EtagReturned
      <4>2. items[c][k] \in Item
        BY DEF TypeOK
      <4>3. [items[c][k] EXCEPT !.etag = items[c][k].etag] = items[c][k]
        BY <4>2 DEF Item
      <4>. QED
        BY <4>1, <4>3 DEF TypeOK
    <3>. QED
      BY <3>1 DEF Save, SaveRefused, SaveFails, EtagReturned
  <2>2. /\ versions' \in Seq(Version)
        /\ store' \in [Keys -> 0..Len(versions')]
        /\ items' \in [Clients -> [Keys -> Item]]
        /\ StoreNamesOwn' /\ EtagNamesAncestor'
    BY <1>2, <2>1, UpsertKeepsInvariant
  <2>3. UNCHANGED <<creator, edits, list, batch>> /\ answer' \in Answer
    BY DEF Save, SaveRefused, SaveFails, Answer
  <2>4. items[c][k] \in Item
    BY DEF TypeOK
  <2>5. acknowledged' \in [Keys -> SUBSET (1..MaxEdits)]
    <3>1. items[c][k].edits \in SUBSET (1..MaxEdits)
      BY <2>4 DEF Item
    <3>2. \/ acknowledged' = acknowledged
          \/ acknowledged' = [acknowledged EXCEPT ![k] = @ \cup items[c][k].edits]
      BY DEF Save, SaveRefused, SaveFails
    <3>3. acknowledged[k] \cup items[c][k].edits \in SUBSET (1..MaxEdits)
      BY <3>1 DEF TypeOK
    <3>. QED
      BY <3>2, <3>3 DEF TypeOK
  <2>. QED
    BY <2>2, <2>3, <2>5 DEF TypeOK
<1>. QED
  BY <1>1, <1>2 DEF Save, SaveRefused, SaveFails

(* SaveAsync(IList). *)
LEMMA ListStep ==
  ASSUME RInv, NEW c \in Clients,
         \/ \E ks \in Lists : StartList(c, ks)
         \/ SaveBatch(c)
         \/ SaveBatchFails(c)
  PROVE  RInv'
<1>. USE DEF RInv
<1>1. CASE \E ks \in Lists : StartList(c, ks)
  <2>1. PICK ks \in Lists : StartList(c, ks)
    BY <1>1
  <2>2. ks \in Seq(Keys)
    BY RepositoryAssumption DEF Lists
  <2>3. list' \in [Clients -> Seq(Keys)] /\ batch' \in [Clients -> Nat]
    BY <2>1, <2>2 DEF StartList, TypeOK
  <2>4. GetBatchCount(Len(ks), BatchSize) >= 1
    <3>1. Len(ks) \in Nat \ {0}
      BY <2>1, <2>2 DEF StartList
    <3>2. PICK n \in Nat : n = GetBatchCount(Len(ks), BatchSize)
      BY <3>1, BatchesCover, RepositoryAssumption
    <3>3. n * BatchSize >= Len(ks)
      BY <3>1, <3>2, BatchesCover, RepositoryAssumption
    <3>4. n # 0
      BY <3>1, <3>3, RepositoryAssumption
    <3>. QED
      BY <3>2, <3>4
  <2>5. \A d \in Clients : batch'[d] <= GetBatchCount(Len(list'[d]), BatchSize)
    <3>1. list'[c] = ks /\ batch'[c] = 1
      BY <2>1 DEF StartList, TypeOK
    <3>2. \A d \in Clients \ {c} : list'[d] = list[d] /\ batch'[d] = batch[d]
      BY <2>1 DEF StartList, TypeOK
    <3>. QED
      BY <2>4, <3>1, <3>2 DEF TypeOK
  <2>. QED
    BY <2>1, <2>3, <2>5, UnchangedServer DEF StartList, TypeOK, Answer
<1>2. ASSUME NEW a \in Answer, Returned(c, a)
      PROVE  /\ list' \in [Clients -> Seq(Keys)] /\ batch' \in [Clients -> Nat]
             /\ \A d \in Clients : batch'[d] <= GetBatchCount(Len(list'[d]), BatchSize)
             /\ answer' \in Answer
  <2>1. list'[c] = <<>> /\ batch'[c] = 0
    BY <1>2 DEF Returned, TypeOK
  <2>2. \A d \in Clients \ {c} : list'[d] = list[d] /\ batch'[d] = batch[d]
    BY <1>2 DEF Returned, TypeOK
  <2>3. GetBatchCount(0, BatchSize) >= 0
    BY BatchesCover, RepositoryAssumption
  <2>4. Len(list'[c]) = 0
    BY <2>1
  <2>5. list' \in [Clients -> Seq(Keys)] /\ batch' \in [Clients -> Nat]
    BY <1>2 DEF Returned, TypeOK
  <2>6. \A d \in Clients : batch'[d] <= GetBatchCount(Len(list'[d]), BatchSize)
    BY <2>1, <2>2, <2>3, <2>4 DEF TypeOK
  <2>. QED
    BY <1>2, <2>5, <2>6 DEF Returned
<1>3. CASE SaveBatch(c)
  <2>. DEFINE ks == CurrentBatch(c)
  <2>1. ks \in Seq(Keys)
    BY <1>3, BatchOfKeys DEF SaveBatch
  <2>2. PICK last \in LastOf(ks) :
          /\ UpsertBatch(c, ks, last)
          /\ items' = [items EXCEPT ![c] = UpdatedItems(c, ks, last)]
    BY <1>3 DEF SaveBatch
  <2>3. /\ versions' \in Seq(Version)
        /\ store' \in [Keys -> 0..Len(versions')]
        /\ items' \in [Clients -> [Keys -> Item]]
        /\ StoreNamesOwn' /\ EtagNamesAncestor'
    <3>. HIDE DEF ks
    <3>. QED
      BY <2>1, <2>2, UpsertBatchKeepsInvariant
  <2>4. \A k \in Keys : items[c][k].edits \in SUBSET (1..MaxEdits)
    BY DEF TypeOK, Item
  <2>5. acknowledged' \in [Keys -> SUBSET (1..MaxEdits)]
    BY <1>3, <2>4 DEF SaveBatch, TypeOK
  <2>6. /\ list' \in [Clients -> Seq(Keys)] /\ batch' \in [Clients -> Nat]
        /\ \A d \in Clients : batch'[d] <= GetBatchCount(Len(list'[d]), BatchSize)
        /\ answer' \in Answer
    <3>1. CASE Returned(c, "list saved")
      BY <3>1, <1>2 DEF Answer
    <3>2. CASE /\ MoreBatches(c)
               /\ batch' = [batch EXCEPT ![c] = @ + 1] /\ answer' = "none" /\ UNCHANGED list
      <4>1. batch' \in [Clients -> Nat]
        BY <3>2 DEF TypeOK
      <4>2. batch[c] + 1 <= GetBatchCount(Len(list[c]), BatchSize)
        <5>1. batch[c] \in Nat /\ Len(list[c]) \in Nat
          BY DEF TypeOK
        <5>2. GetBatchCount(Len(list[c]), BatchSize) \in Nat
          BY <5>1, BatchesCover, RepositoryAssumption
        <5>. QED
          BY <3>2, <5>1, <5>2 DEF MoreBatches
      <4>3. \A d \in Clients : batch'[d] <= GetBatchCount(Len(list'[d]), BatchSize)
        BY <3>2, <4>2 DEF TypeOK
      <4>. QED
        BY <3>2, <4>1, <4>3 DEF TypeOK, Answer
    <3>. QED
      BY <1>3, <3>1, <3>2 DEF SaveBatch
  <2>7. UNCHANGED <<creator, edits>>
    BY <1>3 DEF SaveBatch
  <2>. QED
    BY <2>3, <2>5, <2>6, <2>7 DEF TypeOK
<1>4. CASE SaveBatchFails(c)
  <2>1. UNCHANGED <<items, creator, edits, acknowledged>> /\ Returned(c, "failed")
    BY <1>4 DEF SaveBatchFails
  <2>2. /\ list' \in [Clients -> Seq(Keys)] /\ batch' \in [Clients -> Nat]
        /\ \A d \in Clients : batch'[d] <= GetBatchCount(Len(list'[d]), BatchSize)
        /\ answer' \in Answer
    BY <2>1, <1>2 DEF Answer
  <2>3. CASE UNCHANGED <<versions, store>>
    BY <2>1, <2>2, <2>3, UnchangedServer DEF TypeOK
  <2>4. ASSUME NEW last \in LastOf(CurrentBatch(c)), UpsertBatch(c, CurrentBatch(c), last)
        PROVE  RInv'
    <3>1. CurrentBatch(c) \in Seq(Keys)
      BY <1>4, BatchOfKeys DEF SaveBatchFails
    <3>2. /\ versions' \in Seq(Version)
          /\ store' \in [Keys -> 0..Len(versions')]
          /\ StoreNamesOwn' /\ EtagNamesAncestor'
      BY <2>1, <2>4, <3>1, UpsertBatchKeepsInvariant
    <3>. QED
      BY <2>1, <2>2, <3>2 DEF TypeOK
  <2>. QED
    BY <1>4, <2>3, <2>4 DEF SaveBatchFails
<1>. QED
  BY <1>1, <1>3, <1>4

(* A delete preserves the invariant.                                       *)
LEMMA DeleteStep ==
  ASSUME RInv, NEW c \in Clients, NEW k \in Keys, Delete(c, k)
  PROVE  RInv'
<1>. USE DEF RInv
<1>1. UNCHANGED <<versions, items, creator, edits, list, batch>>
  BY DEF Delete
<1>2. answer' \in Answer
  BY DEF Delete, Answer
<1>3. store' = store \/ store' = [store EXCEPT ![k] = 0]
  BY DEF Delete
<1>4. acknowledged' = acknowledged \/ acknowledged' = [acknowledged EXCEPT ![k] = {}]
  BY DEF Delete
<1>5. store' \in [Keys -> 0..Len(versions)] /\ acknowledged' \in [Keys -> SUBSET (1..MaxEdits)]
  <2>1. Len(versions) \in Nat
    BY DEF TypeOK
  <2>2. store' \in [Keys -> 0..Len(versions)]
    <3>1. 0 \in 0..Len(versions) /\ store \in [Keys -> 0..Len(versions)]
      BY <2>1 DEF TypeOK
    <3>. QED
      BY <3>1, <1>3
  <2>3. acknowledged' \in [Keys -> SUBSET (1..MaxEdits)]
    BY <1>4 DEF TypeOK
  <2>. QED
    BY <2>2, <2>3
<1>6. StoreNamesOwn'
  BY <1>1, <1>3 DEF StoreNamesOwn, TypeOK
<1>7. EtagNamesAncestor'
  BY <1>1 DEF EtagNamesAncestor
<1>. QED
  BY <1>1, <1>2, <1>5, <1>6, <1>7 DEF TypeOK

(* The inductive invariant holds of all clients.                           *)
THEOREM RepositoryInvariant == Safe => []RInv
<1>1. RInv /\ [Next]_vars => RInv'
  <2>. SUFFICES ASSUME RInv, [Next]_vars PROVE RInv'
    OBVIOUS
  <2>1. CASE UNCHANGED vars
    BY <2>1 DEF vars, RInv, TypeOK, StoreNamesOwn, EtagNamesAncestor
  <2>2. CASE Next
    BY <2>2, ObjectStep, SaveStep, ListStep, DeleteStep DEF Next
  <2>. QED
    BY <2>1, <2>2
<1>. QED
  BY <1>1, InitInvariant, PTL DEF Safe

(* Every variable stays in its type, whatever is saved, lost or deleted.   *)
THEOREM RepositoryTypeOK == Safe => []TypeOK
BY RepositoryInvariant, PTL DEF RInv

(* The version an object's etag names is one of its own document, and the  *)
(* object has all its edits: after single saves, lists, lost responses and *)
(* deletes (CosmosRepository.cs:1021-1023, 1120-1126).                     *)
THEOREM EtagsNameAncestors == Safe => []EtagNamesAncestor
BY RepositoryInvariant, PTL DEF RInv

(* A save that carries an etag keeps every edit of the version it          *)
(* replaces, even when the response is lost and lists are saved besides.   *)
THEOREM SavesKeepWhatTheyReplace == Safe => SaveKeepsWhatItReplaces
<1>. DEFINE Keeps ==
       \A c \in Clients, k \in Keys :
         /\ Save(c, k) \/ SaveFails(c, k)
         /\ items[c][k].etag # 0 /\ store[k] # 0
         => versions[store[k]].edits \subseteq versions'[store'[k]].edits
<1>1. RInv /\ [Next]_vars => [Keeps]_vars
  <2>. SUFFICES ASSUME RInv, NEW c \in Clients, NEW k \in Keys,
                       Save(c, k) \/ SaveFails(c, k),
                       items[c][k].etag # 0, store[k] # 0
                PROVE  versions[store[k]].edits \subseteq versions'[store'[k]].edits
    OBVIOUS
  <2>1. CASE UNCHANGED <<versions, store>>
    BY <2>1
  <2>2. CASE /\ MayUpsert(c, k)
             /\ versions' = Append(versions, NewVersion(c, k))
             /\ store' = [store EXCEPT ![k] = Len(versions')]
    <3>1. items[c][k].etag = store[k]
      BY <2>2 DEF MayUpsert, IfMatchEtag
    <3>2. versions[store[k]].edits \subseteq items[c][k].edits
      BY <3>1 DEF RInv, EtagNamesAncestor
    <3>3. versions'[Len(versions')] = NewVersion(c, k) /\ store'[k] = Len(versions')
      BY <2>2, OneUpsert DEF RInv, TypeOK
    <3>. QED
      BY <3>2, <3>3, NewVersionFields
  <2>. QED
    BY <2>1, <2>2 DEF Save, SaveFails
<1>. QED
  BY <1>1, RepositoryInvariant, PTL DEF Safe, SaveKeepsWhatItReplaces

-----------------------------------------------------------------------------
(* The empty container has lost no update.                                 *)
LEMMA NInvInit == Init => NInv
<1>. SUFFICES ASSUME Init PROVE NInv
  OBVIOUS
<1>1. NoLists /\ DeletedForgets /\ NoLostUpdate
  BY DEF Init, NoLists, DeletedForgets, NoLostUpdate
<1>2. Fresh
  BY DEF Init, Fresh, Holds, Unwritten
<1>. QED
  BY <1>1, <1>2, InitInvariant DEF NInv

(* The server is not involved. *)
LEMMA ObjectStepLosesNothing ==
  ASSUME NInv, NEW c \in Clients, NEW k \in Keys,
         New(c, k) \/ Get(c, k) \/ Edit(c, k)
  PROVE  NInv'
<1>. USE DEF NInv
<1>1. RInv'
  BY ObjectStep
<1>2. UNCHANGED <<versions, store, batch, acknowledged>>
  BY DEF New, Get, Edit
<1>3. NoLists' /\ DeletedForgets' /\ NoLostUpdate'
  BY <1>2 DEF NoLists, DeletedForgets, NoLostUpdate
<1>4. \A k2 \in Keys : Unwritten(k2)' <=> Unwritten(k2)
  BY <1>2 DEF Unwritten
<1>5. /\ items \in [Clients -> [Keys -> Item]] /\ creator \in [Keys -> Clients \cup {"none"}]
      /\ "none" \notin Clients
  BY RepositoryAssumption DEF RInv, TypeOK
<1>6. Fresh'
  <2>1. CASE New(c, k)
    <3>1. /\ creator[k] = "none" /\ creator' = [creator EXCEPT ![k] = c]
          /\ items' = [items EXCEPT ![c][k] = [etag |-> 0, edits |-> {edits'}]]
      BY <2>1 DEF New
    <3>2. ASSUME NEW c2 \in Clients, NEW k2 \in Keys, Holds(c2, k2)', items'[c2][k2].etag = 0
          PROVE  creator'[k2] = c2 /\ Unwritten(k2)
      <4>1. CASE c2 = c /\ k2 = k
        BY <4>1, <3>1, <1>5 DEF Fresh
      <4>2. CASE ~(c2 = c /\ k2 = k)
        <5>1. items'[c2][k2] = items[c2][k2]
          BY <4>2, <3>1, <1>5
        <5>2. creator[k2] = c2 /\ Unwritten(k2)
          BY <5>1, <3>2 DEF Fresh, Holds
        <5>. QED
          BY <5>2, <3>1, <1>5
      <4>. QED
        BY <4>1, <4>2
    <3>3. ASSUME NEW k2 \in Keys, creator'[k2] = "none"
          PROVE  Unwritten(k2)
      BY <3>1, <3>3, <1>5 DEF Fresh
    <3>. QED
      BY <3>2, <3>3, <1>4 DEF Fresh
  <2>2. CASE Get(c, k) \/ Edit(c, k)
    <3>1. ASSUME NEW c2 \in Clients, NEW k2 \in Keys, Holds(c2, k2)', items'[c2][k2].etag = 0
          PROVE  Holds(c2, k2) /\ items[c2][k2].etag = 0
      <4>1. CASE ~(c2 = c /\ k2 = k)
        <5>1. items'[c2][k2] = items[c2][k2]
          BY <4>1, <2>2, <1>5 DEF Get, Edit
        <5>. QED
          BY <5>1, <3>1 DEF Holds
      <4>2. CASE c2 = c /\ k2 = k /\ Edit(c, k)
        <5>1. items[c][k] \in Item
          BY <1>5
        <5>2. items'[c][k] = [items[c][k] EXCEPT !.edits = @ \cup {edits'}]
          BY <4>2, <1>5 DEF Edit
        <5>3. items'[c][k].etag = items[c][k].etag
          BY <5>1, <5>2 DEF Item
        <5>. QED
          BY <5>3, <4>2, <3>1 DEF Edit
      <4>3. CASE c2 = c /\ k2 = k /\ Get(c, k)
        <5>1. items'[c][k] = IF store[k] = 0 THEN Missing
                             ELSE [etag |-> store[k], edits |-> versions[store[k]].edits]
          BY <4>3, <1>5 DEF Get
        <5>2. store[k] # 0 => items'[c][k].etag # 0
          BY <5>1
        <5>. QED
          BY <5>1, <5>2, <4>3, <3>1 DEF Holds
      <4>. QED
        BY <4>1, <4>2, <4>3, <2>2
    <3>2. creator' = creator
      BY <2>2 DEF Get, Edit
    <3>. QED
      BY <3>1, <3>2, <1>4 DEF Fresh
  <2>. QED
    BY <2>1, <2>2
<1>. QED
  BY <1>1, <1>3, <1>6

(* The one step that could lose an update. *)
LEMMA SaveLosesNothing ==
  ASSUME ContentOnWrite, NInv, NEW c \in Clients, NEW k \in Keys, Save(c, k)
  PROVE  NInv'
<1>. USE DEF NInv
<1>1. RInv'
  BY SaveStep
<1>2. /\ versions' = Append(versions, NewVersion(c, k))
      /\ store' = [store EXCEPT ![k] = Len(versions')]
      /\ items' = [items EXCEPT ![c][k].etag = Len(versions')]
      /\ acknowledged' = [acknowledged EXCEPT ![k] = @ \cup items[c][k].edits]
      /\ UNCHANGED <<creator, edits, list, batch>>
      /\ Holds(c, k) /\ MayUpsert(c, k)
  BY DEF Save, EtagReturned
<1>3. /\ Len(versions') = Len(versions) + 1
      /\ \A i \in 1..Len(versions) : versions'[i] = versions[i]
      /\ versions'[Len(versions')] = NewVersion(c, k)
  BY <1>2, OneUpsert DEF RInv
<1>4. /\ Len(versions) \in Nat /\ Len(versions') \in Nat /\ Len(versions') # 0
      /\ items \in [Clients -> [Keys -> Item]] /\ store \in [Keys -> 0..Len(versions)]
      /\ acknowledged \in [Keys -> SUBSET (1..MaxEdits)]
  BY <1>3 DEF RInv, TypeOK
<1>5. NoLists'
  BY <1>2 DEF NoLists
<1>6. acknowledged[k] \subseteq items[c][k].edits
  <2>1. CASE store[k] = 0
    BY <2>1 DEF DeletedForgets
  <2>2. CASE store[k] # 0
    <3>1. store[k] \in 1..Len(versions) /\ versions[store[k]].key = k
      BY <2>2, <1>4 DEF RInv, StoreNamesOwn
    <3>2. items[c][k].etag # 0
      BY <3>1, <1>2 DEF Fresh, Unwritten
    <3>3. items[c][k].etag = store[k]
      BY <3>2, <2>2, <1>2 DEF MayUpsert, IfMatchEtag
    <3>. QED
      BY <3>2, <3>3, <2>2 DEF NoLostUpdate, RInv, EtagNamesAncestor
  <2>. QED
    BY <2>1, <2>2
<1>7. NoLostUpdate' /\ DeletedForgets'
  <2>1. ASSUME NEW k2 \in Keys, k2 # k
        PROVE  /\ store'[k2] = store[k2] /\ acknowledged'[k2] = acknowledged[k2]
               /\ store[k2] # 0 => versions'[store[k2]] = versions[store[k2]]
    <3>1. store'[k2] = store[k2] /\ acknowledged'[k2] = acknowledged[k2]
      BY <2>1, <1>2, <1>4
    <3>2. store[k2] # 0 => store[k2] \in 1..Len(versions)
      BY <1>4
    <3>. QED
      BY <3>1, <3>2, <1>3
  <2>2. /\ store'[k] = Len(versions')
        /\ acknowledged'[k] = acknowledged[k] \cup items[c][k].edits
    BY <1>2, <1>4
  <2>3. acknowledged'[k] \subseteq versions'[store'[k]].edits
    BY <2>2, <1>3, <1>6, NewVersionFields
  <2>. QED
    BY <2>1, <2>2, <2>3, <1>4 DEF NoLostUpdate, DeletedForgets
<1>8. ~Unwritten(k) \/ (creator[k] = c /\ items[c][k].etag = 0)
  <2>1. CASE items[c][k].etag = 0
    BY <2>1, <1>2 DEF Fresh
  <2>2. CASE items[c][k].etag # 0
    <3>1. items[c][k].etag \in 1..Len(versions) /\ versions[items[c][k].etag].key = k
      BY <2>2, <1>4 DEF RInv, EtagNamesAncestor, Item
    <3>. QED
      BY <3>1 DEF Unwritten
  <2>. QED
    BY <2>1, <2>2
<1>9. ASSUME NEW k2 \in Keys, k2 # k, Unwritten(k2) PROVE Unwritten(k2)'
  BY <1>9, <1>3, <1>4, NewVersionFields DEF Unwritten
<1>10. Fresh'
  <2>1. ASSUME NEW c2 \in Clients, NEW k2 \in Keys, Holds(c2, k2)', items'[c2][k2].etag = 0
        PROVE  creator[k2] = c2 /\ Unwritten(k2)'
    <3>1. CASE c2 = c /\ k2 = k
      <4>1. items[c][k] \in Item
        BY <1>4
      <4>2. items'[c][k] = [items[c][k] EXCEPT !.etag = Len(versions')]
        BY <1>2, <1>4
      <4>3. items'[c][k].etag = Len(versions')
        BY <4>1, <4>2, <1>4, WithEtag
      <4>. QED
        BY <4>3, <3>1, <2>1, <1>4
    <3>2. CASE ~(c2 = c /\ k2 = k)
      <4>1. items'[c2][k2] = items[c2][k2]
        BY <3>2, <1>2, <1>4
      <4>2. creator[k2] = c2 /\ Unwritten(k2)
        BY <4>1, <2>1 DEF Fresh, Holds
      <4>3. k2 # k
        BY <4>2, <3>2, <1>8
      <4>. QED
        BY <4>2, <4>3, <1>9
    <3>. QED
      BY <3>1, <3>2
  <2>2. ASSUME NEW k2 \in Keys, creator[k2] = "none" PROVE Unwritten(k2)'
    <3>1. Unwritten(k2)
      BY <2>2 DEF Fresh
    <3>2. k2 # k
      BY <3>1, <2>2, <1>8, RepositoryAssumption
    <3>. QED
      BY <3>1, <3>2, <1>9
  <2>. QED
    BY <2>1, <2>2, <1>2 DEF Fresh
<1>. QED
  BY <1>1, <1>5, <1>7, <1>10

(* A delete loses no update of a document that exists.                     *)
LEMMA DeleteLosesNothing ==
  ASSUME NInv, NEW c \in Clients, NEW k \in Keys, Delete(c, k)
  PROVE  NInv'
<1>. USE DEF NInv
<1>1. RInv'
  BY DeleteStep
<1>2. UNCHANGED <<versions, items, creator, batch>>
  BY DEF Delete
<1>3. NoLists' /\ Fresh'
  BY <1>2 DEF NoLists, Fresh, Holds, Unwritten
<1>4. DeletedForgets' /\ NoLostUpdate'
  <2>1. CASE UNCHANGED <<store, acknowledged>>
    BY <2>1, <1>2 DEF DeletedForgets, NoLostUpdate
  <2>2. CASE /\ store' = [store EXCEPT ![k] = 0]
             /\ acknowledged' = [acknowledged EXCEPT ![k] = {}]
    <3>1. \A k2 \in Keys : \/ k2 = k /\ store'[k2] = 0 /\ acknowledged'[k2] = {}
                           \/ store'[k2] = store[k2] /\ acknowledged'[k2] = acknowledged[k2]
      BY <2>2 DEF RInv, TypeOK
    <3>. QED
      BY <3>1, <1>2 DEF DeletedForgets, NoLostUpdate
  <2>. QED
    BY <2>1, <2>2 DEF Delete
<1>. QED
  BY <1>1, <1>3, <1>4

(* Clients that save their objects one by one, with the etags they were    *)
(* given, and that hear of every save that was applied lose no update,     *)
(* however their reads, saves and deletes interleave                       *)
(* (CosmosRepository.cs:1003-1046).                                        *)
THEOREM SingleSavesLoseNothing ==
  ASSUME ContentOnWrite, "list" \notin Operations, "lost" \notin Faults
  PROVE  Safe => []NoLostUpdate
<1>1. NInv /\ [Next]_vars => NInv'
  <2>. SUFFICES ASSUME NInv, [Next]_vars PROVE NInv'
    OBVIOUS
  <2>0. ASSUME UNCHANGED <<versions, store, items, creator, batch, acknowledged>>, RInv'
        PROVE  NInv'
    BY <2>0 DEF NInv, NoLists, Fresh, Holds, Unwritten, DeletedForgets, NoLostUpdate
  <2>1. CASE UNCHANGED vars
    BY <2>1, <2>0 DEF vars, NInv, RInv, TypeOK, StoreNamesOwn, EtagNamesAncestor
  <2>2. ASSUME NEW c \in Clients, NEW k \in Keys, New(c, k) \/ Get(c, k) \/ Edit(c, k)
        PROVE  NInv'
    BY <2>2, ObjectStepLosesNothing
  <2>3. ASSUME NEW c \in Clients, NEW k \in Keys, Save(c, k)
        PROVE  NInv'
    BY <2>3, SaveLosesNothing
  <2>4. ASSUME NEW c \in Clients, NEW k \in Keys, SaveRefused(c, k) \/ SaveFails(c, k)
        PROVE  NInv'
    <3>1. UNCHANGED <<versions, store, items, creator, batch, acknowledged>>
      BY <2>4 DEF SaveRefused, SaveFails
    <3>2. RInv'
      BY <2>4, SaveStep DEF NInv
    <3>. QED
      BY <3>1, <3>2, <2>0
  <2>5. ASSUME NEW c \in Clients, NEW k \in Keys, Delete(c, k)
        PROVE  NInv'
    BY <2>5, DeleteLosesNothing
  <2>6. ASSUME NEW c \in Clients,
               \/ \E ks \in Lists : StartList(c, ks)
               \/ SaveBatch(c) \/ SaveBatchFails(c)
        PROVE  FALSE
    <3>1. ~(\E ks \in Lists : StartList(c, ks))
      BY DEF StartList
    <3>2. batch[c] = 0 /\ ~(batch[c] > 0)
      BY DEF NInv, NoLists
    <3>3. ~SaveBatch(c) /\ ~SaveBatchFails(c)
      BY <3>2 DEF SaveBatch, SaveBatchFails
    <3>. QED
      BY <2>6, <3>1, <3>3
  <2>. QED
    BY <2>1, <2>2, <2>3, <2>4, <2>5, <2>6 DEF Next
<1>2. NInv => NoLostUpdate
  BY DEF NInv
<1>. QED
  BY <1>1, <1>2, NInvInit, PTL DEF Safe
-----------------------------------------------------------------------------
(* Conflicts and lists.  As long as every response arrives, the client     *)
(* that wrote the version a document has holds its etag, or none.          *)
OwnIsKnown ==
    \A c \in Clients, k \in Keys :
        store[k] # 0 /\ versions[store[k]].by = c => items[c][k].etag \in {0, store[k]}

(* The etag of an object names a version that says what the object says.   *)
Backed(c, k) ==
    items[c][k].etag # 0 /\ versions[items[c][k].etag].edits = items[c][k].edits

(* The batches of a list that come before the current one are saved.       *)
SavedSoFar ==
    \A c \in Clients : batch[c] > 0 =>
        \A j \in DOMAIN list[c] : j <= (batch[c] - 1) * BatchSize => Backed(c, list[c][j])

(* What a step may do to a document and an object of it and yet leave the  *)
(* client that wrote the document with its etag: nothing to the document   *)
(* and a fresh read, or no etag, to the object; a delete; a write of       *)
(* somebody else's; a write whose etag the object gets.                    *)
LEMMA OwnIsKnownStays ==
  ASSUME RInv, OwnIsKnown,
         \A i \in 1..Len(versions) : versions'[i] = versions[i],
         \A c \in Clients, k \in Keys :
            \/ /\ store'[k] = store[k]
               /\ items'[c][k].etag \in {items[c][k].etag, 0, store[k]}
            \/ store'[k] = 0
            \/ versions'[store'[k]].by # c
            \/ items'[c][k].etag = store'[k]
  PROVE  OwnIsKnown'
<1>. SUFFICES ASSUME NEW c \in Clients, NEW k \in Keys,
                     store'[k] # 0, versions'[store'[k]].by = c
              PROVE  items'[c][k].etag \in {0, store'[k]}
  BY DEF OwnIsKnown
<1>1. CASE store'[k] = store[k] /\ items'[c][k].etag \in {items[c][k].etag, 0, store[k]}
  <2>1. store[k] \in 1..Len(versions)
    BY <1>1 DEF RInv, TypeOK
  <2>2. versions[store[k]].by = c
    BY <2>1, <1>1
  <2>. QED
    BY <1>1, <2>1, <2>2 DEF OwnIsKnown
<1>. QED
  BY <1>1

(* A new object has no etag, a read one has that of the document, and an   *)
(* edit leaves the etag alone.                                             *)
LEMMA ObjectStepEtags ==
  ASSUME RInv, NEW c \in Clients, NEW k \in Keys,
         New(c, k) \/ Get(c, k) \/ Edit(c, k),
         NEW c2 \in Clients, NEW k2 \in Keys
  PROVE  items'[c2][k2].etag \in {items[c2][k2].etag, 0, store[k2]}
<1>. USE DEF RInv
<1>1. CASE ~(c2 = c /\ k2 = k)
  <2>1. items'[c2][k2] = items[c2][k2]
    BY <1>1 DEF New, Get, Edit, TypeOK
  <2>. QED
    BY <2>1
<1>2. CASE c2 = c /\ k2 = k /\ New(c, k)
  <2>1. items'[c][k] = [etag |-> 0, edits |-> {edits'}]
    BY <1>2 DEF New, TypeOK
  <2>. QED
    BY <1>2, <2>1
<1>3. CASE c2 = c /\ k2 = k /\ Get(c, k)
  <2>1. items'[c][k] = IF store[k] = 0 THEN Missing
                       ELSE [etag |-> store[k], edits |-> versions[store[k]].edits]
    BY <1>3 DEF Get, TypeOK
  <2>. QED
    BY <1>3, <2>1 DEF Missing
<1>4. CASE c2 = c /\ k2 = k /\ Edit(c, k)
  <2>1. items'[c][k] = [items[c][k] EXCEPT !.edits = @ \cup {edits'}]
    BY <1>4 DEF Edit, TypeOK
  <2>2. items[c][k] \in Item
    BY DEF TypeOK
  <2>3. items'[c][k].etag = items[c][k].etag
    BY <2>1, <2>2 DEF Item
  <2>. QED
    BY <1>4, <2>3
<1>. QED
  BY <1>1, <1>2, <1>3, <1>4

(* An applied save whose response arrives.                                 *)
LEMMA SaveIsKnown ==
  ASSUME ContentOnWrite, RInv, OwnIsKnown, NEW c \in Clients, NEW k \in Keys, Save(c, k)
  PROVE  OwnIsKnown'
<1>. USE DEF RInv
<1>1. /\ versions' = Append(versions, NewVersion(c, k))
      /\ store' = [store EXCEPT ![k] = Len(versions')]
      /\ items' = [items EXCEPT ![c][k].etag = Len(versions')]
  BY DEF Save, EtagReturned
<1>2. /\ \A i \in 1..Len(versions) : versions'[i] = versions[i]
      /\ versions'[Len(versions')] = NewVersion(c, k)
      /\ Len(versions') = Len(versions) + 1
  BY <1>1, OneUpsert
<1>3. store'[k] = Len(versions') /\ \A k2 \in Keys : k2 # k => store'[k2] = store[k2]
  BY <1>1 DEF TypeOK
<1>4. versions'[store'[k]].by = c
  BY <1>2, <1>3 DEF NewVersion
<1>5. items'[c][k].etag = store'[k]
  <2>1. items'[c][k] = [items[c][k] EXCEPT !.etag = Len(versions')]
    BY <1>1 DEF TypeOK
  <2>2. items[c][k] \in Item /\ Len(versions') \in Nat
    BY <1>2 DEF TypeOK
  <2>. QED
    BY <2>1, <2>2, <1>3, WithEtag
<1>6. \A c2 \in Clients, k2 \in Keys :
        ~(c2 = c /\ k2 = k) => items'[c2][k2] = items[c2][k2]
  BY <1>1 DEF TypeOK
<1>7. ASSUME NEW c2 \in Clients, NEW k2 \in Keys
      PROVE  \/ /\ store'[k2] = store[k2]
                /\ items'[c2][k2].etag \in {items[c2][k2].etag, 0, store[k2]}
             \/ store'[k2] = 0
             \/ versions'[store'[k2]].by # c2
             \/ items'[c2][k2].etag = store'[k2]
  <2>1. CASE k2 # k
    BY <2>1, <1>3, <1>6
  <2>2. CASE k2 = k
    BY <2>2, <1>4, <1>5
  <2>. QED
    BY <2>1, <2>2
<1>. QED
  BY <1>2, <1>7, OwnIsKnownStays

(* An applied batch: its objects have the etags of their operations.       *)
LEMMA BatchEtags ==
  ASSUME ContentOnWrite, RInv, NEW c \in Clients, NEW ks \in Seq(Keys),
         NEW last \in LastOf(ks), UpsertBatch(c, ks, last),
         items' = [items EXCEPT ![c] = UpdatedItems(c, ks, last)]
  PROVE  /\ \A k \in Elements(ks) : /\ k \in Keys
                                    /\ items'[c][k].etag = store'[k]
                                    /\ items'[c][k].edits = items[c][k].edits
                                    /\ store'[k] # 0
                                    /\ versions'[store'[k]] = NewVersion(c, k)
         /\ \A c2 \in Clients, k \in Keys :
               ~(c2 = c /\ k \in Elements(ks)) => items'[c2][k] = items[c2][k]
<1>. USE DEF RInv
<1>1. /\ store' \in [Keys -> 0..Len(versions')]
      /\ Len(versions) \in Nat /\ Len(versions') \in Nat
      /\ \A k \in Elements(ks) : /\ store'[k] > Len(versions)
                                 /\ versions'[store'[k]] = NewVersion(c, k)
  BY OneBatch DEF TypeOK
<1>2. ASSUME NEW k \in Keys
      PROVE  items'[c][k] = IF k \in Elements(ks)
                            THEN [items[c][k] EXCEPT !.etag = store'[k]]
                            ELSE items[c][k]
  <2>1. items'[c] = UpdatedItems(c, ks, last)
    BY DEF TypeOK
  <2>. QED
    BY <2>1, EtagsOfBatch
<1>3. ASSUME NEW k \in Elements(ks)
      PROVE  /\ k \in Keys
             /\ items'[c][k].etag = store'[k]
             /\ items'[c][k].edits = items[c][k].edits
             /\ store'[k] # 0
             /\ versions'[store'[k]] = NewVersion(c, k)
  <2>1. k \in Keys
    BY DEF Elements
  <2>2. store'[k] \in Nat /\ store'[k] # 0
    BY <2>1, <1>1
  <2>3. items[c][k] \in Item
    BY <2>1 DEF TypeOK
  <2>4. items'[c][k] = [items[c][k] EXCEPT !.etag = store'[k]]
    BY <2>1, <1>2
  <2>5. items'[c][k].etag = store'[k] /\ items'[c][k].edits = items[c][k].edits
    BY <2>2, <2>3, <2>4 DEF Item
  <2>. QED
    BY <2>1, <2>2, <2>5, <1>1
<1>4. ASSUME NEW c2 \in Clients, NEW k \in Keys, ~(c2 = c /\ k \in Elements(ks))
      PROVE  items'[c2][k] = items[c2][k]
  <2>1. CASE c2 = c
    BY <2>1, <1>2, <1>4
  <2>2. CASE c2 # c
    BY <2>2 DEF TypeOK
  <2>. QED
    BY <2>1, <2>2
<1>. QED
  BY <1>3, <1>4

(* An applied batch whose response arrives.                                *)
LEMMA BatchIsKnown ==
  ASSUME ContentOnWrite, RInv, OwnIsKnown, NEW c \in Clients, SaveBatch(c)
  PROVE  OwnIsKnown'
<1>. DEFINE ks == CurrentBatch(c)
<1>1. ks \in Seq(Keys)
  BY BatchOfKeys DEF SaveBatch, RInv
<1>2. PICK last \in LastOf(ks) :
        /\ UpsertBatch(c, ks, last)
        /\ items' = [items EXCEPT ![c] = UpdatedItems(c, ks, last)]
  BY DEF SaveBatch
<1>. HIDE DEF ks
<1>3. /\ \A i \in 1..Len(versions) : versions'[i] = versions[i]
      /\ \A k \in Keys \ Elements(ks) : store'[k] = store[k]
  BY <1>1, <1>2, OneBatch DEF RInv
<1>4. ASSUME NEW c2 \in Clients, NEW k \in Keys
      PROVE  \/ /\ store'[k] = store[k]
                /\ items'[c2][k].etag \in {items[c2][k].etag, 0, store[k]}
             \/ store'[k] = 0
             \/ versions'[store'[k]].by # c2
             \/ items'[c2][k].etag = store'[k]
  <2>1. CASE k \in Elements(ks)
    <3>1. versions'[store'[k]] = NewVersion(c, k) /\ items'[c][k].etag = store'[k]
      BY <2>1, <1>1, <1>2, BatchEtags
    <3>2. NewVersion(c, k).by = c
      BY DEF NewVersion
    <3>. QED
      BY <3>1, <3>2
  <2>2. CASE k \notin Elements(ks)
    <3>1. items'[c2][k] = items[c2][k]
      BY <2>2, <1>1, <1>2, BatchEtags
    <3>. QED
      BY <3>1, <2>2, <1>3
  <2>. QED
    BY <2>1, <2>2
<1>. QED
  BY <1>3, <1>4, OwnIsKnownStays

(* Steps that change neither the container nor an etag.                    *)
LEMMA OwnIsKnownUnchanged ==
  ASSUME OwnIsKnown, UNCHANGED <<versions, store, items>>
  PROVE  OwnIsKnown'
BY DEF OwnIsKnown

(* A conflict is somebody else's doing: when every response arrives, a     *)
(* client that was the last to write a document, by itself or in a list,   *)
(* is not refused its next save of it (CosmosRepository.cs:1003-1046,      *)
(* 1120-1126).                                                             *)
THEOREM ConflictsAreReal ==
  ASSUME ContentOnWrite, "lost" \notin Faults
  PROVE  Safe => ConflictIsReal
<1>. DEFINE Real == \A c \in Clients, k \in Keys :
                      SaveRefused(c, k) /\ store[k] # 0 => versions[store[k]].by # c
<1>1. Init => OwnIsKnown
  BY DEF Init, OwnIsKnown
<1>2. RInv /\ OwnIsKnown /\ [Next]_vars => OwnIsKnown'
  <2>. SUFFICES ASSUME RInv, OwnIsKnown, [Next]_vars PROVE OwnIsKnown'
    OBVIOUS
  <2>1. CASE UNCHANGED vars
    BY <2>1, OwnIsKnownUnchanged DEF vars
  <2>2. ASSUME NEW c \in Clients, NEW k \in Keys, New(c, k) \/ Get(c, k) \/ Edit(c, k)
        PROVE  OwnIsKnown'
    <3>1. UNCHANGED <<versions, store>>
      BY <2>2 DEF New, Get, Edit
    <3>2. \A c2 \in Clients, k2 \in Keys :
            items'[c2][k2].etag \in {items[c2][k2].etag, 0, store[k2]}
      BY <2>2, ObjectStepEtags
    <3>. QED
      BY <3>1, <3>2, OwnIsKnownStays
  <2>3. ASSUME NEW c \in Clients, NEW k \in Keys, Save(c, k)
        PROVE  OwnIsKnown'
    BY <2>3, SaveIsKnown
  <2>4. ASSUME NEW c \in Clients, NEW k \in Keys, SaveRefused(c, k) \/ SaveFails(c, k)
        PROVE  OwnIsKnown'
    BY <2>4, OwnIsKnownUnchanged DEF SaveRefused, SaveFails
  <2>5. ASSUME NEW c \in Clients, NEW k \in Keys, Delete(c, k)
        PROVE  OwnIsKnown'
    <3>1. UNCHANGED <<versions, items>>
      BY <2>5 DEF Delete
    <3>2. \A k2 \in Keys : store'[k2] \in {store[k2], 0}
      BY <2>5 DEF Delete, RInv, TypeOK
    <3>. QED
      BY <3>1, <3>2, OwnIsKnownStays
  <2>6. ASSUME NEW c \in Clients, \E ks \in Lists : StartList(c, ks)
        PROVE  OwnIsKnown'
    BY <2>6, OwnIsKnownUnchanged DEF StartList
  <2>7. ASSUME NEW c \in Clients, SaveBatch(c)
        PROVE  OwnIsKnown'
    BY <2>7, BatchIsKnown
  <2>8. ASSUME NEW c \in Clients, SaveBatchFails(c)
        PROVE  OwnIsKnown'
    BY <2>8, OwnIsKnownUnchanged DEF SaveBatchFails
  <2>. QED
    BY <2>1, <2>2, <2>3, <2>4, <2>5, <2>6, <2>7, <2>8 DEF Next
<1>3. OwnIsKnown => [Real]_vars
  BY DEF OwnIsKnown, SaveRefused, MayRefuse, IfMatchEtag
<1>. QED
  BY <1>1, <1>2, <1>3, RepositoryInvariant, PTL DEF Safe, ConflictIsReal
-----------------------------------------------------------------------------
(* An item of the list that no earlier batch held, and that the current    *)
(* one is long enough for, is an element of the current batch.             *)
LEMMA BatchHolds ==
  ASSUME TypeOK, NEW c \in Clients, batch[c] > 0,
         NEW j \in DOMAIN list[c],
         j > (batch[c] - 1) * BatchSize, j <= batch[c] * BatchSize
  PROVE  list[c][j] \in Elements(CurrentBatch(c))
<1>. DEFINE m == (batch[c] - 1) * BatchSize + 1
            n == IF batch[c] * BatchSize <= Len(list[c]) THEN batch[c] * BatchSize
                 ELSE Len(list[c])
            ks == SubSeq(list[c], m, n)
<1>1. BatchSize \in Nat /\ BatchSize > 0
  BY RepositoryAssumption
<1>2. batch[c] \in Nat /\ list[c] \in Seq(Keys) /\ Len(list[c]) \in Nat
  BY DEF TypeOK
<1>3. (batch[c] - 1) * BatchSize \in Nat /\ batch[c] * BatchSize \in Nat
  BY <1>1, <1>2
<1>4. j \in 1..Len(list[c])
  BY <1>2
<1>5. m \in Int /\ n \in Int /\ m >= 1 /\ n <= Len(list[c]) /\ j \in m..n
  BY <1>2, <1>3, <1>4
<1>6. \A i \in m..n : list[c][i] \in Keys
  BY <1>2, <1>5
<1>7. Len(ks) = n - m + 1 /\ \A i \in 1..n - m + 1 : ks[i] = list[c][m + i - 1]
  <2>1. m <= n
    BY <1>2, <1>5
  <2>. HIDE DEF m, n
  <2>2. Len(ks) = n - m + 1
    BY <2>1, <1>2, <1>5, <1>6, SubSeqProperties
  <2>3. \A i \in 1..n - m + 1 : ks[i] = list[c][m + i - 1]
    BY <2>1, <1>2, <1>5, <1>6, SubSeqProperties
  <2>. QED
    BY <2>2, <2>3
<1>8. j - m + 1 \in 1..n - m + 1 /\ m + (j - m + 1) - 1 = j
  BY <1>5
<1>9. ks[j - m + 1] = list[c][j]
  BY <1>7, <1>8
<1>10. DOMAIN ks = 1..Len(ks)
  BY <1>2, <1>5, <1>6, SubSeqProperties
<1>11. list[c][j] \in Elements(ks)
  BY <1>7, <1>8, <1>9, <1>10 DEF Elements
<1>. QED
  BY <1>11 DEF CurrentBatch, CreateArrayForBatch

(* The versions of the past stay, so an object that nobody touches stays   *)
(* backed by the version it names.                                         *)
LEMMA BackedStays ==
  ASSUME RInv, NEW c \in Clients, NEW k \in Keys, Backed(c, k),
         \A i \in 1..Len(versions) : versions'[i] = versions[i],
         items'[c][k] = items[c][k]
  PROVE  Backed(c, k)'
<1>1. items[c][k].etag \in 1..Len(versions)
  BY DEF Backed, RInv, TypeOK, Item, EtagNamesAncestor
<1>. QED
  BY <1>1 DEF Backed

(* A batch that is applied backs its own items and leaves the others and   *)
(* the versions of the past alone.                                         *)
LEMMA BatchBacksItsOwn ==
  ASSUME ContentOnWrite, RInv, NEW c \in Clients, SaveBatch(c)
  PROVE  /\ \A k \in Elements(CurrentBatch(c)) : Backed(c, k)'
         /\ \A k \in Keys \ Elements(CurrentBatch(c)) : items'[c][k] = items[c][k]
         /\ \A i \in 1..Len(versions) : versions'[i] = versions[i]
<1>. DEFINE ks == CurrentBatch(c)
<1>1. ks \in Seq(Keys)
  BY BatchOfKeys DEF SaveBatch, RInv
<1>2. PICK last \in LastOf(ks) :
        /\ UpsertBatch(c, ks, last)
        /\ items' = [items EXCEPT ![c] = UpdatedItems(c, ks, last)]
  BY DEF SaveBatch
<1>. HIDE DEF ks
<1>3. ASSUME NEW k \in Elements(ks)
      PROVE  Backed(c, k)'
  <2>1. items'[c][k].etag = store'[k] /\ versions'[store'[k]] = NewVersion(c, k)
    BY <1>1, <1>2, BatchEtags
  <2>2. store'[k] # 0 /\ items'[c][k].edits = items[c][k].edits
    BY <1>1, <1>2, BatchEtags
  <2>3. items'[c][k].etag # 0 /\ versions'[items'[c][k].etag].edits = items'[c][k].edits
    BY <2>1, <2>2, NewVersionFields
  <2>. QED
    BY <2>3 DEF Backed
<1>4. \A k \in Keys \ Elements(ks) : items'[c][k] = items[c][k]
  BY <1>1, <1>2, BatchEtags
<1>5. \A i \in 1..Len(versions) : versions'[i] = versions[i]
  BY <1>1, <1>2, OneBatch DEF RInv
<1>. QED
  BY <1>3, <1>4, <1>5 DEF ks

(* After a batch is applied, the items of it and of all earlier batches    *)
(* are backed.                                                             *)
LEMMA BatchIsBacked ==
  ASSUME ContentOnWrite, RInv, SavedSoFar, NEW c \in Clients, SaveBatch(c),
         NEW j \in DOMAIN list[c], j <= batch[c] * BatchSize,
         NEW k \in Keys, k = list[c][j]
  PROVE  Backed(c, k)'
<1>0. batch[c] > 0
  BY DEF SaveBatch
<1>1. CASE k \in Elements(CurrentBatch(c))
  BY <1>1, BatchBacksItsOwn
<1>2. CASE k \notin Elements(CurrentBatch(c))
  <2>1. ~(j > (batch[c] - 1) * BatchSize)
    BY <1>0, <1>2, BatchHolds DEF RInv
  <2>2. j <= (batch[c] - 1) * BatchSize
    <3>1. batch[c] \in Nat /\ BatchSize \in Nat /\ j \in Nat
      BY RepositoryAssumption DEF RInv, TypeOK
    <3>2. (batch[c] - 1) * BatchSize \in Int
      BY <3>1
    <3>. QED
      BY <2>1, <3>1, <3>2
  <2>3. Backed(c, k)
    BY <1>0, <2>2 DEF SavedSoFar
  <2>4. items'[c][k] = items[c][k]
    BY <1>2, BatchBacksItsOwn
  <2>5. \A i \in 1..Len(versions) : versions'[i] = versions[i]
    BY BatchBacksItsOwn
  <2>. QED
    BY <2>3, <2>4, <2>5, BackedStays
<1>. QED
  BY <1>1, <1>2

(* A step that does not save the list of client c, leaves the objects of a *)
(* client that is in the middle of a list alone.                           *)
LEMMA SavedSoFarStays ==
  ASSUME RInv, SavedSoFar,
         \A i \in 1..Len(versions) : versions'[i] = versions[i],
         NEW c \in Clients, batch[c] > 0,
         batch'[c] = batch[c], list'[c] = list[c], items'[c] = items[c],
         NEW j \in DOMAIN list'[c], j <= (batch'[c] - 1) * BatchSize,
         NEW k, k = list'[c][j]
  PROVE  Backed(c, k)'
<1>1. k \in Keys /\ Backed(c, k)
  BY DEF SavedSoFar, RInv, TypeOK
<1>. QED
  BY <1>1, BackedStays

(* What one client does. *)
ClientStep(c) ==
    \/ \E k \in Keys : \/ New(c, k) \/ Get(c, k) \/ Edit(c, k)
                       \/ Save(c, k) \/ SaveRefused(c, k) \/ SaveFails(c, k)
                       \/ Delete(c, k)
    \/ \E ks \in Lists : StartList(c, ks)
    \/ SaveBatch(c)
    \/ SaveBatchFails(c)

(* Nothing rewrites a version once it is written.                          *)
LEMMA HistoryStays ==
  ASSUME RInv, NEW c \in Clients, ClientStep(c)
  PROVE  \A i \in 1..Len(versions) : versions'[i] = versions[i]
<1>. USE DEF RInv
<1>1. CASE UNCHANGED versions
  BY <1>1
<1>2. ASSUME NEW k \in Keys, versions' = Append(versions, NewVersion(c, k))
      PROVE  \A i \in 1..Len(versions) : versions'[i] = versions[i]
  BY <1>2, OneUpsert
<1>3. ASSUME batch[c] > 0, NEW last \in LastOf(CurrentBatch(c)),
             UpsertBatch(c, CurrentBatch(c), last)
      PROVE  \A i \in 1..Len(versions) : versions'[i] = versions[i]
  BY <1>3, BatchOfKeys, OneBatch
<1>4. \/ UNCHANGED versions
      \/ \E k \in Keys : versions' = Append(versions, NewVersion(c, k))
      \/ /\ batch[c] > 0
         /\ \E last \in LastOf(CurrentBatch(c)) : UpsertBatch(c, CurrentBatch(c), last)
  BY DEF ClientStep, New, Get, Edit, Save, SaveRefused, SaveFails, Delete, StartList,
         SaveBatch, SaveBatchFails
<1>. QED
  BY <1>1, <1>2, <1>3, <1>4

(* What one client does leaves the objects and the lists of the others.    *)
LEMMA OthersUndisturbed ==
  ASSUME RInv, NEW c \in Clients, ClientStep(c), NEW c2 \in Clients, c2 # c
  PROVE  batch'[c2] = batch[c2] /\ list'[c2] = list[c2] /\ items'[c2] = items[c2]
<1>1. items'[c2] = items[c2]
  BY DEF ClientStep, New, Get, Edit, Save, SaveRefused, SaveFails, Delete, StartList,
         SaveBatch, SaveBatchFails, RInv, TypeOK
<1>2. batch'[c2] = batch[c2] /\ list'[c2] = list[c2]
  BY DEF ClientStep, New, Get, Edit, Save, SaveRefused, SaveFails, Delete, StartList,
         SaveBatch, SaveBatchFails, Returned, RInv, TypeOK
<1>. QED
  BY <1>1, <1>2

(* SavedSoFar is inductive: a client does nothing else while it saves a    *)
(* list, and every batch it saves backs the items it holds.                *)
LEMMA SavedSoFarStep ==
  ASSUME ContentOnWrite, RInv, SavedSoFar, NEW c \in Clients, ClientStep(c)
  PROVE  SavedSoFar'
<1>. SUFFICES ASSUME NEW c2 \in Clients, batch'[c2] > 0,
                     NEW j \in DOMAIN list'[c2], j <= (batch'[c2] - 1) * BatchSize,
                     NEW k, k = list'[c2][j]
              PROVE  Backed(c2, k)'
  BY DEF SavedSoFar, Backed
<1>1. CASE c2 # c
  <2>1. batch'[c2] = batch[c2] /\ list'[c2] = list[c2] /\ items'[c2] = items[c2]
    BY <1>1, OthersUndisturbed
  <2>2. batch[c2] > 0
    BY <2>1
  <2>3. \A i \in 1..Len(versions) : versions'[i] = versions[i]
    BY HistoryStays
  <2>. QED
    BY <2>1, <2>2, <2>3, SavedSoFarStays
<1>2. CASE c2 = c
  <2>1. CASE batch'[c] = batch[c] /\ batch[c] = 0
    BY <2>1, <1>2
  <2>2. ASSUME NEW a, Returned(c, a) PROVE FALSE
    <3>1. batch'[c] = 0
      BY <2>2 DEF Returned, RInv, TypeOK
    <3>. QED
      BY <3>1, <1>2
  <2>3. CASE \E ks \in Lists : StartList(c, ks)
    <3>1. PICK ks \in Lists : list'[c] = ks /\ batch'[c] = 1
      BY <2>3 DEF StartList, RInv, TypeOK
    <3>2. j \in Nat /\ j >= 1
      BY <3>1, <1>2, RepositoryAssumption DEF Lists
    <3>3. (batch'[c] - 1) * BatchSize = 0
      BY <3>1, RepositoryAssumption
    <3>. QED
      BY <3>2, <3>3, <1>2
  <2>4. CASE SaveBatch(c) /\ ~(\E a \in Answer : Returned(c, a))
    <3>1. list' = list /\ batch' = [batch EXCEPT ![c] = @ + 1]
      BY <2>4 DEF SaveBatch, Answer
    <3>2. batch'[c] - 1 = batch[c] /\ batch[c] \in Nat
      BY <3>1 DEF RInv, TypeOK
    <3>3. j \in DOMAIN list[c] /\ j <= batch[c] * BatchSize /\ k = list[c][j]
      BY <3>1, <3>2, <1>2
    <3>4. k \in Keys
      BY <3>3 DEF RInv, TypeOK
    <3>. QED
      BY <2>4, <3>3, <3>4, <1>2, BatchIsBacked
  <2>5. \/ batch'[c] = batch[c] /\ batch[c] = 0
        \/ \E ks \in Lists : StartList(c, ks)
        \/ SaveBatch(c)
        \/ SaveBatchFails(c)
    BY DEF ClientStep, New, Get, Edit, Save, SaveRefused, SaveFails, Delete, Idle
  <2>. QED
    BY <2>1, <2>2, <2>3, <2>4, <2>5 DEF SaveBatchFails
<1>. QED
  BY <1>1, <1>2

(* A step that reports the list of client c as saved. *)
ReportsSaved(c) == batch[c] > 0 /\ answer' = "list saved" /\ batch'[c] = 0

(* It applies a batch of the list.                                         *)
LEMMA ReportIsASave ==
  ASSUME RInv, NEW d \in Clients, ClientStep(d), NEW c \in Clients, ReportsSaved(c)
  PROVE  SaveBatch(c) /\ batch'[c] = 0
<1>1. batch[c] \in Nat /\ batch[c] > 0 /\ batch'[c] = 0
  BY DEF ReportsSaved, RInv, TypeOK
<1>2. ASSUME c # d PROVE FALSE
  BY <1>1, <1>2, OthersUndisturbed
<1>3. ~Idle(c)
  BY <1>1 DEF Idle
<1>4. answer' # "none" /\ answer' # "failed"
  BY DEF ReportsSaved
<1>5. ~SaveBatchFails(c) /\ ~(\E ks \in Lists : StartList(c, ks))
  BY <1>4 DEF SaveBatchFails, Returned, StartList
<1>6. \A k \in Keys : /\ ~New(c, k) /\ ~Get(c, k) /\ ~Edit(c, k)
                      /\ ~Save(c, k) /\ ~SaveRefused(c, k) /\ ~SaveFails(c, k)
                      /\ ~Delete(c, k)
  BY <1>3 DEF New, Get, Edit, Save, SaveRefused, SaveFails, Delete
<1>7. ClientStep(c)
  BY <1>2
<1>. QED
  BY <1>1, <1>5, <1>6, <1>7 DEF ClientStep

(* More batches hold more.                                                 *)
LEMMA ProductGrows ==
  ASSUME NEW b \in Nat, NEW n \in Nat, b >= n, NEW size \in Nat \ {0}
  PROVE  b * size >= n * size
OBVIOUS

(* And the last one: with it every item of the list is backed.             *)
LEMMA LastBatch ==
  ASSUME ContentOnWrite, RInv, SavedSoFar, NEW c \in Clients, SaveBatch(c), batch'[c] = 0,
         NEW k \in Elements(list[c])
  PROVE  Backed(c, k)'
<1>1. PICK j \in DOMAIN list[c] : k = list[c][j]
  BY DEF Elements
<1>2. batch[c] \in Nat /\ list[c] \in Seq(Keys) /\ Len(list[c]) \in Nat
  BY DEF RInv, TypeOK
<1>3. BatchSize \in Nat \ {0}
  BY RepositoryAssumption
<1>4. batch[c] >= GetBatchCount(Len(list[c]), BatchSize)
  <2>1. ~(batch' = [batch EXCEPT ![c] = @ + 1])
    BY <1>2 DEF RInv, TypeOK
  <2>2. GetBatchCount(Len(list[c]), BatchSize) \in Nat
    BY <1>2, <1>3, BatchesCover
  <2>3. ~MoreBatches(c)
    BY <2>1 DEF SaveBatch
  <2>. QED
    BY <2>2, <2>3, <1>2 DEF MoreBatches
<1>5. j <= batch[c] * BatchSize
  <2>1. PICK n \in Nat : n = GetBatchCount(Len(list[c]), BatchSize)
    BY <1>2, <1>3, BatchesCover
  <2>2. n * BatchSize >= Len(list[c])
    BY <2>1, <1>2, <1>3, BatchesCover
  <2>3. batch[c] * BatchSize >= n * BatchSize
    BY <2>1, <1>4, <1>2, <1>3, ProductGrows
  <2>4. j \in 1..Len(list[c])
    BY <1>2
  <2>5. n * BatchSize \in Nat /\ batch[c] * BatchSize \in Nat
    BY <1>2, <1>3
  <2>. QED
    BY <2>2, <2>3, <2>4, <2>5, <1>2
<1>6. k \in Keys
  BY <1>1, <1>2
<1>. QED
  BY <1>1, <1>5, <1>6, BatchIsBacked

(* A list that is reported as saved is saved to its last item, whatever    *)
(* its length, the batch size, the partitions of its items, the other      *)
(* clients and the responses lost before it (CosmosRepository.cs:1078-1131). *)
THEOREM ListsAreSaved ==
  ASSUME ContentOnWrite
  PROVE  Safe => ListSaved
<1>. DEFINE Saved == \A c \in Clients :
              batch[c] > 0 /\ answer' = "list saved" /\ batch'[c] = 0
              => \A k \in Elements(list[c]) :
                    LET i == items'[c][k]
                    IN i.etag # 0 /\ versions'[i.etag].edits = i.edits
<1>1. Init => SavedSoFar
  BY DEF Init, SavedSoFar
<1>2. RInv /\ SavedSoFar /\ [Next]_vars => SavedSoFar'
  <2>1. RInv /\ SavedSoFar /\ UNCHANGED vars => SavedSoFar'
    BY DEF vars, SavedSoFar, Backed
  <2>2. RInv /\ SavedSoFar /\ Next => SavedSoFar'
    <3>. SUFFICES ASSUME RInv, SavedSoFar, NEW c \in Clients, ClientStep(c)
                  PROVE  SavedSoFar'
      BY DEF Next, ClientStep
    <3>. QED
      BY SavedSoFarStep
  <2>. QED
    BY <2>1, <2>2
<1>3. RInv /\ SavedSoFar /\ [Next]_vars => [Saved]_vars
  <2>1. ASSUME RInv, SavedSoFar, NEW d \in Clients, ClientStep(d) PROVE Saved
    <3>1. ASSUME NEW c \in Clients, batch[c] > 0, answer' = "list saved", batch'[c] = 0,
                 NEW k \in Elements(list[c])
          PROVE  items'[c][k].etag # 0
                 /\ versions'[items'[c][k].etag].edits = items'[c][k].edits
      <4>1. SaveBatch(c) /\ batch'[c] = 0
        BY <2>1, <3>1, ReportIsASave DEF ReportsSaved
      <4>. QED
        BY <2>1, <4>1, LastBatch DEF Backed
    <3>. QED
      BY <3>1
  <2>2. Next => \E d \in Clients : ClientStep(d)
    BY DEF Next, ClientStep
  <2>. HIDE DEF Saved
  <2>. QED
    BY <2>1, <2>2
<1>. QED
  BY <1>1, <1>2, <1>3, RepositoryInvariant, PTL DEF Safe, ListSaved
=============================================================================
