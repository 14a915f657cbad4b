----------------------------- MODULE MCLineage -----------------------------
(* Instances of the causal record for TLC.                                   *)
EXTENDS CausalQueries, TLC

CONSTANTS s1, s2, r1, r2, w1, x

Interchangeable == Permutations({r1, r2}) \cup Permutations({s1, s2})
=============================================================================
