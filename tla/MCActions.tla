------------------------------ MODULE MCActions -----------------------------
(* Small instances of ActionsSystem: constants of the MCActions*.cfg files.  *)
EXTENDS ActionsSystem, TLC

CONSTANTS a1, a2, k1, k2, gpu, p1

NoFunction    == << >>
OneAgentEach  == (a1 :> k1) @@ (a2 :> k2)
SharedRunner  == (a1 :> k1) @@ (a2 :> k1)
GpuOnFirst    == (k1 :> {gpu}) @@ (k2 :> {})
OneRunner     == k1 :> {gpu}

(* The processes of one kind are interchangeable.                            *)
ExecutorSymmetry == Permutations(Executors)
=============================================================================
