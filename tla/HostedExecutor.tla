--------------------------- MODULE HostedExecutor ---------------------------
(***************************************************************************)
(* The hosted workflow executor: a process that claims one customer         *)
(* workflow run at a time and then writes its progress statement by         *)
(* statement.  Its claim has no lease: nothing but the executor itself ever *)
(* moves the run on.                                                        *)
(***************************************************************************)
EXTENDS ActionRuns

CONSTANT Executors   \* executor processes

VARIABLE executor    \* what each process is doing, lost when it crashes

Phases == {"idle", "reconstruct", "checks", "container", "cleanup", "failing", "failed"}

(* `run` is 0 when idle; `next` indexes the run's checks in id order;        *)
(* `broken` is the local variable failed of execute().                       *)
ExecutorStates ==
  [phase: Phases, run: 0..MaxRuns, next: 1..(NumSteps + 1), broken: BOOLEAN]

Idle == [phase |-> "idle", run |-> 0, next |-> 1, broken |-> FALSE]

ExecutorTypeOK == executor \in [Executors -> ExecutorStates]

ExecutorInit == executor = [e \in Executors |-> Idle]

RunOf(e)  == executor[e].run
(* The check the loop of execute() has reached.                              *)
StepOf(e) == attr[RunOf(e)].order[executor[e].next]

(* Mutants of HostedQueue: runs at work are claimed as well; runs that a      *)
(* private runner may take, too, are left to it.                             *)
HostedQueueWithRunning ==
  {r \in Runs : status[r] \in {"queued", "running"} /\ attr[r].kind = "customer_workflow"}
HostedQueueHostedOnly ==
  {r \in Runs : status[r] = "queued" /\ attr[r].kind = "customer_workflow"
                                     /\ attr[r].target = "hosted"}

HostedQueue ==
  {r \in Runs : status[r] = "queued" /\ attr[r].kind = "customer_workflow"}

SetCheck(r, s, state) == check' = [check EXCEPT ![r][s] = state]

-----------------------------------------------------------------------------
HostedClaim(e, r) ==
  /\ executor[e].phase = "idle"
  /\ r \in Oldest(HostedQueue)
  /\ status' = [status EXCEPT ![r] = "running"]
  /\ executor' = [executor EXCEPT ![e] =
                    [phase |-> "reconstruct", run |-> r, next |-> 1, broken |-> FALSE]]
  /\ UNCHANGED <<policy, workflows, inserted, attr, conclusion, assigned, lease,
                 check, inserting, verification, faults>>

(* The source is rebuilt from the commit; a run without one cannot be.       *)
HostedReconstruct(e) ==
  /\ executor[e].phase = "reconstruct"
  /\ executor' = [executor EXCEPT ![e].phase =
                    IF attr[RunOf(e)].commit THEN "checks" ELSE "failing"]
  /\ UNCHANGED tableVars

(* Mutant of HostedSkipCheck: the loop does not go on after a skipped check. *)
HostedSkipForever(e) ==
  /\ executor[e].phase = "checks"
  /\ executor[e].next <= NumSteps
  /\ executor[e].broken
  /\ SetCheck(RunOf(e), StepOf(e), "skipped")
  /\ UNCHANGED <<policy, workflows, inserted, attr, status, conclusion, assigned,
                 lease, inserting, verification, faults, executor>>

HostedSkipCheck(e) ==
  /\ executor[e].phase = "checks"
  /\ executor[e].next <= NumSteps
  /\ executor[e].broken
  /\ SetCheck(RunOf(e), StepOf(e), "skipped")
  /\ executor' = [executor EXCEPT ![e].next = @ + 1]
  /\ UNCHANGED <<policy, workflows, inserted, attr, status, conclusion, assigned,
                 lease, inserting, verification, faults>>

HostedStartCheck(e) ==
  /\ executor[e].phase = "checks"
  /\ executor[e].next <= NumSteps
  /\ ~executor[e].broken
  /\ SetCheck(RunOf(e), StepOf(e), "running")
  /\ executor' = [executor EXCEPT ![e].phase = "container"]
  /\ UNCHANGED <<policy, workflows, inserted, attr, status, conclusion, assigned,
                 lease, inserting, verification, faults>>

(* A check succeeds when its container exits with 0; another exit, a timeout, *)
(* a missing secret and a container that cannot be started are failures.     *)
Outcomes == BOOLEAN

HostedFinishCheck(e, success) ==
  /\ executor[e].phase = "container"
  /\ SetCheck(RunOf(e), StepOf(e), Bool(success))
  /\ executor' = [executor EXCEPT ![e].phase = "checks", ![e].next = @ + 1,
                                  ![e].broken = ~success]
  /\ UNCHANGED <<policy, workflows, inserted, attr, status, conclusion, assigned,
                 lease, inserting, verification, faults>>

HostedComplete(e) ==
  /\ executor[e].phase = "checks"
  /\ executor[e].next > NumSteps
  /\ Conclude(RunOf(e), ~executor[e].broken)
  /\ executor' = [executor EXCEPT ![e].phase = "cleanup"]
  /\ UNCHANGED <<policy, workflows, inserted, attr, assigned, lease, check,
                 inserting, verification, faults>>

(* execute() removes the job directory after it has concluded the run.       *)
HostedCleanup(e) ==
  /\ executor[e].phase = "cleanup"
  /\ executor' = [executor EXCEPT ![e] = Idle]
  /\ UNCHANGED tableVars

(* A statement of execute() throws, the removal of the directory included:   *)
(* the run goes to failRun(), although it may have been concluded.           *)
HostedError(e) ==
  /\ faults < MaxFaults
  /\ executor[e].phase \in {"reconstruct", "checks", "container", "cleanup"}
  /\ faults' = faults + 1
  /\ executor' = [executor EXCEPT ![e].phase = "failing"]
  /\ UNCHANGED <<policy, workflows, inserted, attr, status, conclusion, assigned,
                 lease, check, inserting, verification>>

HostedFailChecks(e) ==
  /\ executor[e].phase = "failing"
  /\ check' = [check EXCEPT ![RunOf(e)] =
                 [s \in Steps |-> IF @[s] \in {"queued", "running"} THEN "failure" ELSE @[s]]]
  /\ executor' = [executor EXCEPT ![e].phase = "failed"]
  /\ UNCHANGED <<policy, workflows, inserted, attr, status, conclusion, assigned,
                 lease, inserting, verification, faults>>

(* Mutant of HostedFailRun: the failed run is put back into the queue.       *)
HostedRequeueRun(e) ==
  /\ executor[e].phase = "failed"
  /\ status' = [status EXCEPT ![RunOf(e)] = "queued"]
  /\ executor' = [executor EXCEPT ![e] = Idle]
  /\ UNCHANGED <<policy, workflows, inserted, attr, conclusion, assigned, lease, check,
                 inserting, verification, faults>>

HostedFailRun(e) ==
  /\ executor[e].phase = "failed"
  /\ Conclude(RunOf(e), FALSE)
  /\ executor' = [executor EXCEPT ![e] = Idle]
  /\ UNCHANGED <<policy, workflows, inserted, attr, assigned, lease, check,
                 inserting, verification, faults>>

(* The process dies, or failRun() itself throws and main() exits; the        *)
(* restarted process knows nothing of the run.                               *)
HostedCrash(e) ==
  /\ faults < MaxFaults
  /\ executor[e].phase # "idle"
  /\ faults' = faults + 1
  /\ executor' = [executor EXCEPT ![e] = Idle]
  /\ UNCHANGED <<policy, workflows, inserted, attr, status, conclusion, assigned,
                 lease, check, inserting, verification>>

-----------------------------------------------------------------------------
(* What a running executor does of itself.                                   *)
HostedWork(e) ==
  \/ \E r \in Runs : HostedClaim(e, r)
  \/ HostedReconstruct(e)
  \/ HostedSkipCheck(e)
  \/ HostedStartCheck(e)
  \/ \E success \in Outcomes : HostedFinishCheck(e, success)
  \/ HostedComplete(e)
  \/ HostedCleanup(e)
  \/ HostedFailChecks(e)
  \/ HostedFailRun(e)

ExecutorNext == \E e \in Executors : HostedWork(e) \/ HostedError(e) \/ HostedCrash(e)
=============================================================================
