------------------------ MODULE MCRepositoryStartup ------------------------
(***************************************************************************)
(* Instances of RepositoryStartup for model checking: two calls on one     *)
(* object, one on an object of another process, and one on a repository    *)
(* that does not create its structures.                                    *)
(***************************************************************************)
EXTENDS RepositoryStartup

CONSTANTS o1, o2, o3, c1, c2, c3, c4

MCObjects == {o1, o2, o3}
MCCalls == {c1, c2, c3, c4}
MCObjectOf == [c \in MCCalls |-> CASE c = c3 -> o2 [] c = c4 -> o3 [] OTHER -> o1]

With(hierarchical) ==
    [o \in MCObjects |-> [create |-> o # o3, hierarchical |-> hierarchical, paths |-> 2]]
HierarchicalKeys == With(TRUE)
FlatKeys == With(FALSE)
=============================================================================
