-------------------------- MODULE MCCoordinatorHost --------------------------
(***************************************************************************)
(* TLC instance: two factory start processes, each operator command once,  *)
(* one issue and two runs.                                                 *)
(***************************************************************************)
EXTENDS CoordinatorHost, TLC

CONSTANTS s1, s2

OneIssue == {1}
StarterSymmetry == Permutations(Starters)
=============================================================================
