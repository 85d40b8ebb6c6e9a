--------------------------- MODULE MCInotifyDtree ---------------------------
(* One or two monitored roots, and the directories there are at the start. *)
EXTENDS InotifyDtree, TLC

OneRoot  == << <<"r">> >>
TwoRoots == << <<"r">>, <<"s">> >>

RootOnly  == {<<"r">>}
RootsOnly == {<<"r">>, <<"s">>}
Nested    == {<<"r">>, <<"r", "a">>, <<"r", "a", "b">>}

MutatorSymmetry == Permutations(Mutators)
=============================================================================
