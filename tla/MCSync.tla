------------------------------- MODULE MCSync -------------------------------
(* An instance of two clones and their hosted repository for TLC.            *)
EXTENDS HostedSync, TLC

CONSTANTS c1, c2, k1, k2, a, b

OneEach == (k1 :> {a}) @@ (k2 :> {b})
=============================================================================
