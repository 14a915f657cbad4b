----------------------------- MODULE MCWebhooks -----------------------------
(* An instance of a repository, its webhook and two workers for TLC.         *)
EXTENDS Webhooks, TLC

CONSTANTS c1, k1, a, h1, w1, w2

JustOne == k1 :> {a}
=============================================================================
