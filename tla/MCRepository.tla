---------------------------- MODULE MCRepository ----------------------------
(* Instances of the native repository for TLC.                               *)
EXTENDS RepositoryEvolution, TLC

Symmetric == Permutations(Contents) \cup Permutations(Paths)
=============================================================================
