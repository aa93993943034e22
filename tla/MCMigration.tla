---------------------------- MODULE MCMigration ----------------------------
(***************************************************************************)
(* Instances of Migration for model checking.                              *)
(***************************************************************************)
EXTENDS Migration

CONSTANTS a, b, c

(* Every document has an id of its own. *)
MCDocs == {a, b, c}
MCUniqueIds == [d \in MCDocs |-> d]

(* The documents a and b live in two partitions and have the same id. *)
MCSharedIds == [d \in MCDocs |-> IF d = b THEN a ELSE d]
=============================================================================
