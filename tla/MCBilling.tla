----------------------------- MODULE MCBilling -----------------------------
(* Instances of the billing of a workspace for TLC.                          *)
EXTENDS Billing, TLC

CONSTANTS s1, s2, free, developer, team

TwoSubs == {s1, s2}
TwoPlans == (s1 :> developer) @@ (s2 :> team)
=============================================================================
