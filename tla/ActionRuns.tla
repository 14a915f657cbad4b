----------------------------- MODULE ActionRuns -----------------------------
(***************************************************************************)
(* The Actions queue of Sessions: the action_runs and action_checks tables *)
(* of one repository, the handlers and triggers that insert into them, and *)
(* the native verification runner, which executes a run in one             *)
(* transaction.  HostedExecutor and PrivateRunners add the two executors   *)
(* that hold a run over many steps; ActionsSystem composes all three.      *)
(*                                                                         *)
(* Rows are numbered in the order they are committed.  The three native    *)
(* checks of a run, or the steps of a customer workflow, are Steps.        *)
(***************************************************************************)
EXTENDS Naturals, FiniteSets

CONSTANTS
  MaxRuns,    (* bound: rows ever inserted into action_runs                *)
  NumSteps,   (* bound: checks of one run                                  *)
  MaxFaults,  (* bound: crashes, lost responses and leases lost while held *)
  Labels,     (* runner labels                                             *)
  Runners,    (* registered private runners                                *)
  NoRunner,   (* assigned_private_runner_id is null                        *)
  PRs,        (* pull requests                                             *)
  NoPR,       (* pull_request_id is null                                   *)
  Sources     (* which of the enqueueing requests the instance issues      *)

ASSUME SizeAssumption ==
  /\ MaxRuns \in Nat \ {0}
  /\ NumSteps \in Nat \ {0}
  /\ MaxFaults \in Nat
ASSUME NullAssumption == NoRunner \notin Runners /\ NoPR \notin PRs

VARIABLES
  policy,       (* repository_runner_policies row of the repository          *)
  workflows,    (* events the repository's enabled workflow is triggered by  *)
  inserted,     (* rows of action_runs inserted so far                       *)
  attr,         (* the columns of a run that never change after the insert   *)
  status,       (* action_runs.status                                        *)
  conclusion,   (* action_runs.conclusion                                    *)
  assigned,     (* action_runs.assigned_private_runner_id                    *)
  lease,        (* action_runs.runner_lease_expires_at against now()         *)
  check,        (* action_checks rows: status and conclusion of every step   *)
  inserting,    (* checks an enqueueing request has still to insert          *)
  verification, (* pull_requests.verification_state                          *)
  faults        (* faults spent                                              *)

tableVars == <<policy, workflows, inserted, attr, status, conclusion, assigned,
               lease, check, inserting, verification, faults>>

Runs  == 1..MaxRuns
Steps == 1..NumSteps

Kinds    == {"native_verification", "customer_workflow", "private_workflow"}
Targets  == {"hosted", "private", "either"}
Events   == {"push", "pull_request"}
Triggers == {"sessions.push", "commit", "pull_request", "push", "manual", "other"}
(* The checks of a run are read "order by id", and the id is a random uuid. *)
Orders   == {o \in [Steps -> Steps] : \A i, j \in Steps : o[i] = o[j] => i = j}

Attributes ==
  [kind: Kinds \cup {"none"}, target: Targets, labels: SUBSET Labels,
   trigger: Triggers, pr: PRs \cup {NoPR}, commit: BOOLEAN,
   created: 0..MaxRuns, order: Orders]

NoRow ==
  [kind |-> "none", target |-> "hosted", labels |-> {}, trigger |-> "other",
   pr |-> NoPR, commit |-> FALSE, created |-> 0, order |-> [s \in Steps |-> s]]

CheckStates == {"absent", "queued", "running", "success", "failure", "skipped"}

TypeOK ==
  /\ policy \in [target: Targets, labels: SUBSET Labels]
  /\ workflows \in SUBSET Events
  /\ inserted \in 0..MaxRuns
  /\ attr \in [Runs -> Attributes]
  /\ status \in [Runs -> {"absent", "queued", "running", "completed"}]
  /\ conclusion \in [Runs -> {"none", "success", "failure"}]
  /\ assigned \in [Runs -> Runners \cup {NoRunner}]
  /\ lease \in [Runs -> {"none", "live", "expired"}]
  /\ check \in [Runs -> [Steps -> CheckStates]]
  /\ inserting \in [Runs -> SUBSET Steps]
  /\ verification \in [PRs -> {"absent", "pending", "passed", "failed"}]
  /\ faults \in 0..MaxFaults

Init ==
  /\ policy = [target |-> "hosted", labels |-> {}]
  /\ workflows = {}
  /\ inserted = 0
  /\ attr = [r \in Runs |-> NoRow]
  /\ status = [r \in Runs |-> "absent"]
  /\ conclusion = [r \in Runs |-> "none"]
  /\ assigned = [r \in Runs |-> NoRunner]
  /\ lease = [r \in Runs |-> "none"]
  /\ check = [r \in Runs |-> [s \in Steps |-> "absent"]]
  /\ inserting = [r \in Runs |-> {}]
  /\ verification = [p \in PRs |-> "absent"]
  /\ faults = 0

(* Mutant of Bool: the word pull_requests has for it.                        *)
FailedBool(b) == IF b THEN "success" ELSE "failed"

Bool(b) == IF b THEN "success" ELSE "failure"

(* The rows a "for update skip locked ... order by created_at" may return:  *)
(* rows of one transaction share now() and come in any order.               *)
Oldest(S) == {r \in S : \A q \in S : attr[r].created <= attr[q].created}

-----------------------------------------------------------------------------
(* Repository administration.  Only an insert reads either row, so a change  *)
(* is tracked while the bound MaxRuns leaves room for one.                   *)

(* PUT runner-policy; a repository without a policy row behaves as hosted.   *)
SetRunnerPolicy(target, labels) ==
  /\ inserted < MaxRuns
  /\ policy' = [target |-> target, labels |-> labels]
  /\ UNCHANGED <<workflows, inserted, attr, status, conclusion, assigned, lease,
                 check, inserting, verification, faults>>

(* Create, replace, enable or disable the repository's workflow.            *)
SetWorkflow(events) ==
  /\ inserted < MaxRuns
  /\ workflows' = events
  /\ UNCHANGED <<policy, inserted, attr, status, conclusion, assigned, lease,
                 check, inserting, verification, faults>>

-----------------------------------------------------------------------------
(* Inserting runs.                                                          *)

NativeRow(trigger, pr, commit) ==
  [kind |-> "native_verification", target |-> "hosted", labels |-> {},
   trigger |-> trigger, pr |-> pr, commit |-> commit, created |-> inserted + 1,
   order |-> [s \in Steps |-> s]]

(* Mutant of WorkflowRow: the trigger forgets the kind.                      *)
HostedWorkflowRow(trigger, pr, commit, order) ==
  [kind |-> "customer_workflow", target |-> policy.target, labels |-> policy.labels,
   trigger |-> trigger, pr |-> pr, commit |-> commit, created |-> inserted + 1,
   order |-> order]

(* A workflow run leaves the before-insert trigger with the target and the  *)
(* labels of the policy of that moment; only "private" changes its kind.    *)
WorkflowRow(trigger, pr, commit, order) ==
  [kind |-> IF policy.target = "private" THEN "private_workflow" ELSE "customer_workflow",
   target |-> policy.target, labels |-> policy.labels,
   trigger |-> trigger, pr |-> pr, commit |-> commit, created |-> inserted + 1,
   order |-> order]

EventOf(trigger) ==
  CASE trigger \in {"sessions.push", "commit"} -> "push"
    [] trigger = "pull_request" -> "pull_request"
    [] OTHER -> "none"

(* Insert a native run with the checks in `seeded` present and those in     *)
(* `later` still to come; the after-insert trigger adds, in the same        *)
(* transaction, the run of the workflow that listens to the event.          *)
InsertNative(row, seeded, later) ==
  LET fan  == EventOf(row.trigger) \in workflows
      n    == inserted + 1
      last == IF fan THEN n + 1 ELSE n
  IN \E order \in Orders :
       /\ last <= MaxRuns
       /\ inserted' = last
       /\ attr' = [r \in Runs |->
                     IF r = n THEN row
                     ELSE IF r = last
                       THEN WorkflowRow(EventOf(row.trigger), row.pr, row.commit, order)
                     ELSE attr[r]]
       /\ status' = [r \in Runs |-> IF r \in n..last THEN "queued" ELSE status[r]]
       /\ check' = [r \in Runs |->
                      IF r \in n..last
                        THEN [s \in Steps |->
                                IF r # n \/ s \in seeded THEN "queued" ELSE "absent"]
                        ELSE check[r]]
       /\ inserting' = [inserting EXCEPT ![n] = later]

(* A push, or the merge of a pull request: run and checks in one transaction. *)
EnqueueNative(trigger) ==
  /\ trigger \in {"sessions.push", "commit"}
  /\ InsertNative(NativeRow(trigger, NoPR, TRUE), Steps, {})
  /\ UNCHANGED <<policy, workflows, conclusion, assigned, lease, verification, faults>>

(* Opening a pull request inserts it together with its verification run.    *)
OpenPullRequest(p) ==
  /\ verification[p] = "absent"
  /\ verification' = [verification EXCEPT ![p] = "pending"]
  /\ InsertNative(NativeRow("pull_request", p, TRUE), Steps, {})
  /\ UNCHANGED <<policy, workflows, conclusion, assigned, lease, faults>>

(* POST actions: every statement commits on its own, so the run is visible   *)
(* before its checks are.  A caller asking for commit or pull_request gets   *)
(* the native checks and must name a commit; any other trigger gets the      *)
(* checks it lists, possibly none, and may lack a commit.                    *)
RequestAction(trigger, pr, commit, checks) ==
  /\ trigger \in {"commit", "pull_request", "sessions.push", "other"}
  /\ pr \in PRs => verification[pr] # "absent"
  /\ trigger \in {"commit", "pull_request"} => commit /\ checks = Steps
  /\ InsertNative(
       NativeRow(IF trigger \in {"commit", "pull_request"}
                   THEN (IF pr \in PRs THEN "pull_request" ELSE "commit")
                   ELSE trigger, pr, commit), {}, checks)
  /\ UNCHANGED <<policy, workflows, conclusion, assigned, lease, verification, faults>>

(* The next check of a request that is still inserting.                      *)
InsertCheck(r) ==
  /\ \E s \in inserting[r] :
       /\ \A t \in inserting[r] : s <= t
       /\ check' = [check EXCEPT ![r][s] = "queued"]
       /\ inserting' = [inserting EXCEPT ![r] = @ \ {s}]
  /\ UNCHANGED <<policy, workflows, inserted, attr, status, conclusion, assigned,
                 lease, verification, faults>>

(* Running a workflow by hand: run and checks in one transaction.            *)
RunWorkflow(pr) ==
  /\ inserted < MaxRuns
  /\ pr \in PRs => verification[pr] # "absent"
  /\ inserted' = inserted + 1
  /\ \E order \in Orders :
       attr' = [attr EXCEPT ![inserted + 1] = WorkflowRow("manual", pr, TRUE, order)]
  /\ status' = [status EXCEPT ![inserted + 1] = "queued"]
  /\ check' = [check EXCEPT ![inserted + 1] = [s \in Steps |-> "queued"]]
  /\ UNCHANGED <<policy, workflows, conclusion, assigned, lease, inserting,
                 verification, faults>>

-----------------------------------------------------------------------------
(* The native runner: claim, execute and conclude in one transaction.       *)

NativeTriggers == {"sessions.push", "commit", "pull_request"}
NativeQueue == {r \in Runs : status[r] = "queued" /\ attr[r].trigger \in NativeTriggers}

Present(r) == {s \in Steps : check[r][s] # "absent"}

(* A check whose name is not one of the native three concludes "failure".   *)
Verdicts(r) ==
  IF attr[r].kind = "native_verification"
    THEN [Steps -> {"success", "failure"}]
    ELSE {[s \in Steps |-> "failure"]}

Conclude(r, success) ==
  /\ status' = [status EXCEPT ![r] = "completed"]
  /\ conclusion' = [conclusion EXCEPT ![r] = Bool(success)]

(* Mutant of VerifyPullRequest: the update has lost its "where id".          *)
VerifyEveryPullRequest(r, success) ==
  verification' = [p \in PRs |->
    IF verification[p] = "absent" THEN "absent" ELSE IF success THEN "passed" ELSE "failed"]

VerifyPullRequest(r, success) ==
  verification' = [p \in PRs |->
    IF p # attr[r].pr THEN verification[p]
    ELSE IF success THEN "passed" ELSE "failed"]

NativeExecute(r, verdict) ==
  LET success == \A s \in Present(r) : verdict[s] = "success"
  IN /\ attr[r].commit
     /\ check' = [check EXCEPT ![r] =
                    [s \in Steps |-> IF s \in Present(r) THEN verdict[s] ELSE "absent"]]
     /\ Conclude(r, success)
     /\ VerifyPullRequest(r, success)

NativeReject(r) ==
  /\ ~attr[r].commit
  /\ Conclude(r, FALSE)
  /\ VerifyPullRequest(r, FALSE)
  /\ UNCHANGED check

RunActionOnce(r) ==
  /\ r \in Oldest(NativeQueue)
  /\ \/ \E verdict \in Verdicts(r) : NativeExecute(r, verdict)
     \/ NativeReject(r)
  /\ UNCHANGED <<policy, workflows, inserted, attr, assigned, lease, inserting, faults>>

-----------------------------------------------------------------------------
Enqueue ==
  \/ "push" \in Sources /\ \E t \in {"sessions.push", "commit"} : EnqueueNative(t)
  \/ "pull" \in Sources /\ \E p \in PRs : OpenPullRequest(p)
  \/ "request" \in Sources /\ \E t \in Triggers, p \in PRs \cup {NoPR}, c \in BOOLEAN,
                                 n \in 0..NumSteps : RequestAction(t, p, c, 1..n)
  \/ "manual" \in Sources /\ \E p \in PRs \cup {NoPR} : RunWorkflow(p)

Administer ==
  \/ "policy" \in Sources /\ \E t \in Targets, l \in SUBSET Labels : SetRunnerPolicy(t, l)
  \/ "workflow" \in Sources /\ \E e \in SUBSET Events : SetWorkflow(e)

TableNext ==
  \/ Enqueue
  \/ Administer
  \/ \E r \in Runs : InsertCheck(r)
  \/ \E r \in Runs : RunActionOnce(r)
=============================================================================
