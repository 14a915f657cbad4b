----------------------------- MODULE MCSessions -----------------------------
(* An instance of the commands of the CLI beside other clients, for TLC.     *)
EXTENDS SessionClient, TLC

CONSTANTS s1, r1, r2, w1, w2, x, y
=============================================================================
