---------------------------- MODULE MCRepository ----------------------------
(***************************************************************************)
(* Instances of Repository for model checking.                             *)
(***************************************************************************)
EXTENDS Repository, TLC

CONSTANTS k1, k2, k3, t1, t2

MCPartitions == {t1, t2}

(* Two documents of one tenant. *)
TwoKeys == {k1, k2}
OneTenant == [k \in TwoKeys |-> t1]

(* A third one of another tenant: a list may put two objects into one      *)
(* batch or mix partitions.                                                *)
ThreeKeys == {k1, k2, k3}
TwoTenants == [k \in ThreeKeys |-> IF k = k3 THEN t2 ELSE t1]

(* Clients are alike, and so are k1 and k2 in both arrangements. *)
Symmetry == Permutations(Clients) \cup Permutations(TwoKeys)
=============================================================================
