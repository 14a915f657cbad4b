---------------------------- MODULE ActionsSystem ---------------------------
(***************************************************************************)
(* The Actions subsystem: the queue with its native runner, the hosted     *)
(* executors and the private runners, all working on the same rows.        *)
(***************************************************************************)
EXTENDS HostedExecutor, PrivateRunners

vars == <<tableVars, executor, runnerVars>>

SystemTypeOK == TypeOK /\ ExecutorTypeOK /\ RunnerTypeOK

SystemInit == Init /\ ExecutorInit /\ RunnerInit

Next ==
  \/ TableNext /\ UNCHANGED <<executor, runnerVars>>
  \/ ExecutorNext /\ UNCHANGED runnerVars
  \/ RunnerNext /\ UNCHANGED executor

Spec == SystemInit /\ [][Next]_vars

(* The runner, the executors and the agents are loops that never stop by     *)
(* themselves, the server executes the statements of a request it has        *)
(* accepted, and time passes.  Nothing makes a client send a request, and    *)
(* nothing makes an enqueueing request survive to its last insert.  A        *)
(* statement that waits for a row lock is served before later ones (the      *)
(* database queues them), hence strong fairness where Locked is in a guard.  *)
Fairness ==
  /\ \A r \in Runs : WF_vars(RunActionOnce(r) /\ UNCHANGED <<executor, runnerVars>>)
  /\ \A e \in Executors : WF_vars(HostedWork(e) /\ UNCHANGED runnerVars)
  /\ \A a \in Agents : SF_vars(AgentWork(a) /\ UNCHANGED executor)
  /\ \A r \in Runs : /\ SF_vars(CompletionWork(r) /\ UNCHANGED executor)
                     /\ SF_vars(HeartbeatWork(r) /\ UNCHANGED executor)
                     /\ WF_vars(LeaseExpires(r) /\ UNCHANGED executor)

FairSpec == Spec /\ Fairness

-----------------------------------------------------------------------------
(* The promise of the queue, and how the rows implement it.                  *)

Stage(r) ==
  CASE status[r] = "absent"    -> <<"absent">>
    [] status[r] = "queued"    -> <<"queued">>
    [] status[r] = "completed" -> <<"done">>
    [] status[r] = "running" /\ assigned[r] = NoRunner -> <<"hosted">>
    [] status[r] = "running" /\ assigned[r] # NoRunner /\ lease[r] = "live" ->
         <<"leased", assigned[r]>>
    [] OTHER -> <<"lapsed", assigned[r]>>

Lifecycle == INSTANCE RunLifecycle WITH stage <- [r \in Runs |-> Stage(r)]

(* Every run goes through the lifecycle of RunLifecycle, whatever the        *)
(* interleaving of claims, heartbeats, completions and crashes: a live lease *)
(* is never taken away and a completed run is never executed again.          *)
RunsFollowLifecycle == Lifecycle!Spec

(* A run the policy sends to private runners is never claimed by the hosted  *)
(* executor, also when the policy changes while runs are queued.             *)
PrivateRunsStayPrivate ==
  \A e \in Executors : executor[e].phase # "idle" => attr[RunOf(e)].target # "private"

(* While a hosted executor works on a run, the run belongs to no private     *)
(* runner, no other executor works on it, and nobody else has concluded it   *)
(* or put it back into the queue.                                            *)
HostedHoldsAlone ==
  \A e \in Executors : executor[e].phase # "idle" =>
    /\ status[RunOf(e)] \in {"running", "completed"}
    /\ executor[e].phase \in {"reconstruct", "checks", "container"} => status[RunOf(e)] = "running"
    /\ assigned[RunOf(e)] = NoRunner
    /\ \A f \in Executors : f # e => RunOf(f) # RunOf(e)

(* A run is leased only to a runner that has every label the policy asked    *)
(* for when the run was inserted, and only if the policy allowed private     *)
(* execution then; a queued run is assigned to nobody.                       *)
LeasedWithinPolicy ==
  \A r \in Runs : assigned[r] # NoRunner =>
    /\ attr[r].target \in {"private", "either"}
    /\ attr[r].labels \subseteq RunnerLabels[assigned[r]]
    /\ status[r] \in {"running", "completed"}

(* A runner never has more live leases than its max_concurrency.             *)
ConcurrencyRespected == \A k \in Runners : Cardinality(Leased(k)) <= Concurrency

(* A pull request counts as verified only if some run of it has concluded    *)
(* with success, and a failure only if one has failed.                       *)
VerificationHasEvidence ==
  \A p \in PRs :
    /\ verification[p] = "passed" =>
         \E r \in Runs : attr[r].pr = p /\ conclusion[r] = "success"
    /\ verification[p] = "failed" =>
         \E r \in Runs : attr[r].pr = p /\ conclusion[r] = "failure"

(* Administrators leave the runners alone in the end.                        *)
AdministrationSettles ==
  \A k \in Runners : \/ <>[](runnerStatus[k] = "active")
                     \/ <>[](runnerStatus[k] # "active")

Capable(a, r) == Authenticated(a) /\ attr[r].labels \subseteq RunnerLabels[RunnerOf[a]]

(* A run only private runners may take, and whose source can be rebuilt, is  *)
(* retried until it is done, although its holder crashes, loses its lease,    *)
(* loses the answer to its claim or is disabled or revoked: it completes     *)
(* unless no active runner has its labels.                                   *)
PrivateRunsComplete ==
  AdministrationSettles =>
    \A r \in Runs :
      status[r] = "queued" /\ attr[r].target = "private" /\ attr[r].commit
        ~> status[r] = "completed" \/ \A a \in Agents : ~Capable(a, r)

(* Every run the hosted executor has started is completed.                   *)
StartedRunsComplete ==
  \A r \in Runs :
    status[r] = "running" /\ assigned[r] = NoRunner ~> status[r] = "completed"

(* Every queued run of a trigger the native runner or the hosted executor    *)
(* serves is completed.                                                      *)
QueuedRunsComplete ==
  \A r \in Runs :
    /\ status[r] = "queued"
    /\ attr[r].trigger \in NativeTriggers \/ attr[r].kind = "customer_workflow"
    ~> status[r] = "completed"
=============================================================================
