--------------------------- MODULE PullLifecycle ---------------------------
(***************************************************************************)
(* What the collaboration service promises of a pull request, without the  *)
(* order in which it reads what it decides on: it is opened once, becomes  *)
(* ready when enough reviewers have approved it and one of its             *)
(* verification runs has passed, stays ready, and is merged only when      *)
(* ready. Nothing undoes a merge.                                          *)
(***************************************************************************)
CONSTANT Pulls

VARIABLE stage

Stages == {"absent", "open", "ready", "merged"}

TypeOK == stage \in [Pulls -> Stages]

Init == stage = [p \in Pulls |-> "absent"]

(* What one step of the service may do to one pull request.                *)
Move(p) ==
  \/ stage'[p] = stage[p]
  \/ stage[p] = "absent" /\ stage'[p] = "open"
  \/ stage[p] = "open"   /\ stage'[p] = "ready"
  \/ stage[p] = "ready"  /\ stage'[p] = "merged"

Next == /\ stage' \in [Pulls -> Stages]
        /\ \A p \in Pulls : Move(p)

Spec == Init /\ [][Next]_stage
=============================================================================
