--------------------------- MODULE PrivateRunners ---------------------------
(***************************************************************************)
(* Self-hosted runners: the private runner server, which leases runs to    *)
(* registered runners, and the agents, processes that authenticate with a  *)
(* runner's token, claim a run, execute its checks and report them.        *)
(* A request of an agent is handled in the server by several statements;   *)
(* what a handler has read or locked so far is server state that outlives  *)
(* the agent.                                                              *)
(***************************************************************************)
EXTENDS ActionRuns

CONSTANTS
  Agents,       (* agent processes                                         *)
  RunnerOf,     (* the runner whose token an agent uses                    *)
  RunnerLabels, (* labels of a runner                                      *)
  Concurrency,  (* max_concurrency of every runner                         *)
  NoAgent       (* nobody waits for the answer of a request any more       *)

ASSUME RunnerAssumption ==
  /\ RunnerOf \in [Agents -> Runners]
  /\ RunnerLabels \in [Runners -> SUBSET Labels]
  /\ Concurrency \in Nat \ {0}
  /\ NoAgent \notin Agents

VARIABLES
  runnerStatus, (* private_runners.status                                  *)
  agent,        (* phase of every agent and the run it works on            *)
  claim,        (* open claim transaction of an agent, with the expired    *)
                (* rows it has requeued and so holds row locks on          *)
  heartbeats,   (* heartbeat handlers between their check and their update *)
  completions   (* complete handlers between their check and their update  *)

runnerVars == <<runnerStatus, agent, claim, heartbeats, completions>>

NoJob       == [phase |-> "idle", run |-> 0]
AgentStates == {NoJob} \cup [phase: {"reconstruct", "checks", "reporting"}, run: Runs]

(* The agent reports a result for every check; what follows a failure fails. *)
Results == [Steps -> {"success", "failure"}]
AgentResults(r) ==
  {[s \in Steps |-> Bool(\E i \in Steps : i < first /\ attr[r].order[i] = s)] :
     first \in 1..(NumSteps + 1)}

Completions == [by: Agents \cup {NoAgent}, run: Runs, runner: Runners, results: Results]

RunnerTypeOK ==
  /\ runnerStatus \in [Runners -> {"active", "disabled", "revoked"}]
  /\ agent \in [Agents -> AgentStates]
  /\ claim \in [Agents -> [open: BOOLEAN, requeued: SUBSET Runs]]
  /\ heartbeats \subseteq Runs \X Runners
  /\ completions \subseteq Completions

NoClaim == [open |-> FALSE, requeued |-> {}]

RunnerInit ==
  /\ runnerStatus = [k \in Runners |-> "active"]
  /\ agent = [a \in Agents |-> NoJob]
  /\ claim = [a \in Agents |-> NoClaim]
  /\ heartbeats = {}
  /\ completions = {}

Locked == UNION {claim[a].requeued : a \in Agents}
Job(a) == agent[a].run

(* runnerIdentity() *)
Authenticated(a) == runnerStatus[RunnerOf[a]] = "active"

(* assignedRun(): the run is leased to the runner and the lease is alive.    *)
AssignedRun(k, r) == status[r] = "running" /\ assigned[r] = k /\ lease[r] = "live"

Leased(k) == {r \in Runs : AssignedRun(k, r)}

-----------------------------------------------------------------------------
(* POST claim: one transaction, cut where another one can commit in between.  *)

(* Mutants of Expired: live leases are requeued as well; private runs are    *)
(* not requeued.                                                             *)
ExpiredOrLive == {r \in Runs : /\ attr[r].target \in {"private", "either"}
                               /\ status[r] = "running"
                               /\ assigned[r] # NoRunner}
ExpiredEither == {r \in Runs : /\ attr[r].target = "either"
                               /\ status[r] = "running"
                               /\ assigned[r] # NoRunner
                               /\ lease[r] = "expired"}

Expired == {r \in Runs : /\ attr[r].target \in {"private", "either"}
                         /\ status[r] = "running"
                         /\ assigned[r] # NoRunner
                         /\ lease[r] = "expired"}

(* Mutant of BelowLimit: one too many.                                       *)
WithinLimit(k) == Cardinality(Leased(k)) <= Concurrency

BelowLimit(k) == Cardinality(Leased(k)) < Concurrency

(* Requeue the expired leases and count the live ones of the runner.  A row  *)
(* another open transaction has requeued makes the update wait for it.  At   *)
(* the concurrency limit the transaction rolls back and nothing is claimed.  *)
ClaimBegin(a) ==
  /\ agent[a].phase = "idle"
  /\ ~claim[a].open
  /\ Authenticated(a)
  /\ Expired \cap Locked = {}
  /\ BelowLimit(RunnerOf[a])
  /\ claim' = [claim EXCEPT ![a] = [open |-> TRUE, requeued |-> Expired]]
  /\ UNCHANGED <<tableVars, runnerStatus, agent, heartbeats, completions>>

(* Mutant of Claimable: the labels are not compared.                         *)
ClaimableAnyLabels(a) ==
  {r \in Runs : /\ attr[r].target \in {"private", "either"}
                /\ status[r] = "queued" \/ r \in claim[a].requeued}

Claimable(a) ==
  {r \in Runs : /\ attr[r].target \in {"private", "either"}
                /\ attr[r].labels \subseteq RunnerLabels[RunnerOf[a]]
                /\ status[r] = "queued" \/ r \in claim[a].requeued}

(* The answer may be lost: the run is then leased and nobody works on it.    *)
ClaimCommit(a, r, delivered) ==
  LET requeued == claim[a].requeued \ {r} IN
  /\ claim[a].open
  /\ r \in Oldest(Claimable(a))
  /\ delivered \/ faults < MaxFaults
  /\ status' = [q \in Runs |->
       IF q = r THEN "running" ELSE IF q \in requeued THEN "queued" ELSE status[q]]
  /\ assigned' = [q \in Runs |->
       IF q = r THEN RunnerOf[a] ELSE IF q \in requeued THEN NoRunner ELSE assigned[q]]
  /\ lease' = [q \in Runs |->
       IF q = r THEN "live" ELSE IF q \in requeued THEN "none" ELSE lease[q]]
  /\ claim' = [claim EXCEPT ![a] = NoClaim]
  /\ faults' = IF delivered THEN faults ELSE faults + 1
  /\ agent' = [agent EXCEPT ![a] =
       IF delivered THEN [phase |-> "reconstruct", run |-> r] ELSE NoJob]
  /\ UNCHANGED <<policy, workflows, inserted, attr, conclusion, check, inserting,
                 verification, runnerStatus, heartbeats, completions>>

(* Nothing to claim: the rollback undoes the requeueing as well.             *)
ClaimRollback(a) ==
  /\ claim[a].open
  /\ Claimable(a) = {}
  /\ claim' = [claim EXCEPT ![a] = NoClaim]
  /\ UNCHANGED <<tableVars, runnerStatus, agent, heartbeats, completions>>

-----------------------------------------------------------------------------
(* The agent's job.                                                          *)

(* Manifest, objects and secrets of a job are served while its lease lives.  *)
Served(a) == Authenticated(a) /\ AssignedRun(RunnerOf[a], Job(a))

(* reconstruct(); nothing renews the lease meanwhile.                         *)
AgentReconstruct(a) ==
  /\ agent[a].phase = "reconstruct"
  /\ Served(a)
  /\ attr[Job(a)].commit
  /\ agent' = [agent EXCEPT ![a].phase = "checks"]
  /\ UNCHANGED <<tableVars, runnerStatus, claim, heartbeats, completions>>

(* POST heartbeat, first the check ...                                       *)
HeartbeatCheck(a) ==
  /\ agent[a].phase \in {"checks", "reporting"}
  /\ Authenticated(a)
  /\ AssignedRun(RunnerOf[a], Job(a))
  /\ heartbeats' = heartbeats \cup {<<Job(a), RunnerOf[a]>>}
  /\ UNCHANGED <<tableVars, runnerStatus, agent, claim, completions>>

(* ... then the update, which tests the assignment and nothing else.         *)
HeartbeatCommit(r, k) ==
  /\ <<r, k>> \in heartbeats
  /\ r \notin Locked
  /\ lease' = [lease EXCEPT ![r] = IF assigned[r] = k THEN "live" ELSE @]
  /\ heartbeats' = heartbeats \ {<<r, k>>}
  /\ UNCHANGED <<policy, workflows, inserted, attr, status, conclusion, assigned,
                 check, inserting, verification, faults, runnerStatus, agent, claim,
                 completions>>

(* POST complete, the checks: the run is leased, and the results are those   *)
(* of its checks.                                                            *)
CompleteCheck(a, results) ==
  /\ agent[a].phase = "checks"
  /\ Authenticated(a)
  /\ AssignedRun(RunnerOf[a], Job(a))
  /\ results \in AgentResults(Job(a))
  /\ completions' = completions \cup
       {[by |-> a, run |-> Job(a), runner |-> RunnerOf[a], results |-> results]}
  /\ agent' = [agent EXCEPT ![a].phase = "reporting"]
  /\ UNCHANGED <<tableVars, runnerStatus, claim, heartbeats>>

(* POST complete, the transaction: the checks are overwritten whoever has    *)
(* the run by now; the run is concluded if it is still assigned to the       *)
(* runner.  An agent still waiting for the answer is done with the job.      *)
CompleteCommit(c) ==
  LET mine == assigned[c.run] = c.runner IN
  /\ c \in completions
  /\ c.run \notin Locked
  /\ check' = [check EXCEPT ![c.run] = c.results]
  /\ IF mine
       THEN /\ Conclude(c.run, \A s \in Steps : c.results[s] = "success")
            /\ lease' = [lease EXCEPT ![c.run] = "none"]
       ELSE UNCHANGED <<status, conclusion, lease>>
  /\ completions' = completions \ {c}
  /\ agent' = [a \in Agents |-> IF a = c.by THEN NoJob ELSE agent[a]]
  /\ UNCHANGED <<policy, workflows, inserted, attr, assigned, inserting, verification,
                 faults, runnerStatus, claim, heartbeats>>

(* A request of the job is refused: the run is not leased to the runner any  *)
(* more, or it has no commit and so no manifest.  The agent reports nothing  *)
(* and forgets the job, which stays leased until its lease runs out.         *)
AgentRefused(a) ==
  /\ agent[a].phase \in {"reconstruct", "checks"}
  /\ \/ ~Served(a)
     \/ agent[a].phase = "reconstruct" /\ ~attr[Job(a)].commit
  /\ agent' = [agent EXCEPT ![a] = NoJob]
  /\ UNCHANGED <<tableVars, runnerStatus, claim, heartbeats, completions>>

(* The agent dies, or one of its requests fails or times out: it forgets the *)
(* job.  A handler of the server that is already running goes on.            *)
AgentCrash(a) ==
  /\ faults < MaxFaults
  /\ agent[a].phase # "idle"
  /\ faults' = faults + 1
  /\ agent' = [agent EXCEPT ![a] = NoJob]
  /\ completions' = {IF c.by = a THEN [c EXCEPT !.by = NoAgent] ELSE c : c \in completions}
  /\ UNCHANGED <<policy, workflows, inserted, attr, status, conclusion, assigned,
                 lease, check, inserting, verification, runnerStatus, claim, heartbeats>>

-----------------------------------------------------------------------------
(* Time and administration.                                                  *)

Attended(r) == \E a \in Agents : Job(a) = r /\ RunnerOf[a] = assigned[r] /\ Authenticated(a)

(* Nobody renews the lease of an abandoned run, so it runs out.  An agent at *)
(* work loses its lease only by being slow, which is a fault.                *)
LeaseExpires(r) ==
  /\ lease[r] = "live"
  /\ Attended(r) => faults < MaxFaults
  /\ lease' = [lease EXCEPT ![r] = "expired"]
  /\ faults' = IF Attended(r) THEN faults + 1 ELSE faults
  /\ UNCHANGED <<policy, workflows, inserted, attr, status, conclusion, assigned,
                 check, inserting, verification, runnerVars>>

(* POST enable, disable, revoke; a revocation is for ever.                   *)
SetRunnerStatus(k, s) ==
  /\ runnerStatus[k] # "revoked"
  /\ runnerStatus' = [runnerStatus EXCEPT ![k] = s]
  /\ UNCHANGED <<tableVars, agent, claim, heartbeats, completions>>

-----------------------------------------------------------------------------
(* What a live agent, and the handlers of its requests, do of themselves.    *)
AgentWork(a) ==
  \/ ClaimBegin(a)
  \/ \E r \in Runs : ClaimCommit(a, r, TRUE)
  \/ ClaimRollback(a)
  \/ AgentReconstruct(a)
  \/ \E results \in Results : CompleteCheck(a, results)
  \/ AgentRefused(a)

HeartbeatWork(r)  == \E k \in Runners : HeartbeatCommit(r, k)
CompletionWork(r) == \E c \in completions : c.run = r /\ CompleteCommit(c)

RunnerNext ==
  \/ \E a \in Agents : \/ AgentWork(a)
                       \/ \E r \in Runs : ClaimCommit(a, r, FALSE)
                       \/ HeartbeatCheck(a)
                       \/ AgentCrash(a)
  \/ \E r \in Runs : HeartbeatWork(r) \/ CompletionWork(r)
  \/ \E r \in Runs : LeaseExpires(r)
  \/ "runners" \in Sources /\ \E k \in Runners, s \in {"active", "disabled", "revoked"} :
                                SetRunnerStatus(k, s)
=============================================================================
