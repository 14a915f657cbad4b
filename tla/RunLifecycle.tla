---------------------------- MODULE RunLifecycle ----------------------------
(***************************************************************************)
(* What the Actions queue promises of every run, whoever executes it: a run *)
(* is queued once, is held by the hosted executor without a term or by a    *)
(* private runner for a term, comes back to the queue only after the term   *)
(* of its holder has lapsed, and once it is done it stays done.  A step of  *)
(* the system may move several runs, each of them along this relation.      *)
(***************************************************************************)
CONSTANTS Runs, Runners

VARIABLE stage

(* Stages are pairs so that a leased run names its holder.                   *)
Plain(name) == <<name>>
Leased(k)   == <<"leased", k>>
Lapsed(k)   == <<"lapsed", k>>

Stages == {Plain("absent"), Plain("queued"), Plain("hosted"), Plain("done")}
            \cup {Leased(k) : k \in Runners} \cup {Lapsed(k) : k \in Runners}

Init == stage = [r \in Runs |-> Plain("absent")]

(* from -> to is a legal move of one run.                                    *)
Move(from, to) ==
  \/ from = Plain("absent") /\ to = Plain("queued")
  \/ from = Plain("queued") /\ to \in {Plain("hosted"), Plain("done")}
  \/ from = Plain("queued") /\ \E k \in Runners : to = Leased(k)
  \/ from = Plain("hosted") /\ to = Plain("done")
  \/ \E k \in Runners : from = Leased(k) /\ to \in {Lapsed(k), Plain("done")}
  \/ \E k \in Runners : from = Lapsed(k) /\ to \in {Plain("queued"), Plain("done")}
  \/ \E k, l \in Runners : from = Lapsed(k) /\ to = Leased(l)

Next ==
  /\ stage' \in [Runs -> Stages]
  /\ \A r \in Runs : stage'[r] = stage[r] \/ Move(stage[r], stage'[r])

Spec == Init /\ [][Next]_stage
=============================================================================
