---------------------------- MODULE ActionsProofs ---------------------------
(***************************************************************************)
(* Theorems about ActionsSystem, for every value of its constants.         *)
(* The inductive invariant RunInvariant says which rows each party may be  *)
(* working on; the theorems at the end follow from it.                     *)
(***************************************************************************)
EXTENDS ActionsSystem, FiniteSetTheorems, TLAPS

-----------------------------------------------------------------------------
(* The inductive invariant.                                                  *)

(* Rows are inserted in order, a queued row belongs to nobody, and only a    *)
(* run whose policy allows it is assigned to a private runner.               *)
RowConsistent(r) ==
  /\ status[r] = "absent" <=> inserted < r
  /\ attr[r].kind = "customer_workflow" => attr[r].target # "private"
  /\ assigned[r] # NoRunner =>
       /\ status[r] \in {"running", "completed"}
       /\ attr[r].target \in {"private", "either"}
       /\ attr[r].labels \subseteq RunnerLabels[assigned[r]]

RowsConsistent == \A r \in Runs : RowConsistent(r)

(* The rows an open claim has requeued are expired leases that no other      *)
(* claim has requeued.                                                       *)
ClaimsConsistent ==
  /\ \A a \in Agents : claim[a].requeued \subseteq Expired
  /\ \A a \in Agents : claim[a].requeued # {} => claim[a].open
  /\ \A a, b \in Agents : a # b => claim[a].requeued \cap claim[b].requeued = {}

AtWork == {"reconstruct", "checks", "container"}

(* A busy executor holds a customer workflow run that is nobody else's, and  *)
(* while a container runs it is at one of the run's checks.                  *)
HoldsItsRun(e) ==
  IF executor[e].phase = "idle" THEN RunOf(e) = 0
  ELSE /\ RunOf(e) \in Runs
       /\ status[RunOf(e)] \in {"running", "completed"}
       /\ executor[e].phase \in AtWork => status[RunOf(e)] = "running"
       /\ assigned[RunOf(e)] = NoRunner
       /\ attr[RunOf(e)].kind = "customer_workflow"
       /\ \A f \in Executors : f # e => RunOf(f) # RunOf(e)
       /\ executor[e].phase = "container" => executor[e].next <= NumSteps

HostedConsistent == \A e \in Executors : HoldsItsRun(e)

RunInvariant ==
  SystemTypeOK /\ RowsConsistent /\ ClaimsConsistent /\ HostedConsistent

-----------------------------------------------------------------------------
(* Rows as they are inserted have the type of rows.                          *)
LEMMA RowTypes ==
  ASSUME TypeOK, inserted < MaxRuns,
         NEW trigger \in Triggers, NEW pr \in PRs \cup {NoPR}, NEW commit \in BOOLEAN,
         NEW order \in Orders
  PROVE  /\ NativeRow(trigger, pr, commit) \in Attributes
         /\ WorkflowRow(trigger, pr, commit, order) \in Attributes
         /\ NativeRow(trigger, pr, commit).kind # "customer_workflow"
         /\ WorkflowRow(trigger, pr, commit, order).kind = "customer_workflow"
              => WorkflowRow(trigger, pr, commit, order).target # "private"
<1>1. inserted + 1 \in 0..MaxRuns
  BY SizeAssumption DEF TypeOK
<1>2. [s \in Steps |-> s] \in Orders
  BY DEF Orders
<1>3. policy.target \in Targets /\ policy.labels \in SUBSET Labels
  BY DEF TypeOK
<1>4. NativeRow(trigger, pr, commit) \in Attributes
  BY <1>1, <1>2 DEF NativeRow, Attributes, Kinds, Targets
<1>5. WorkflowRow(trigger, pr, commit, order) \in Attributes
  BY <1>1, <1>3 DEF WorkflowRow, Attributes, Kinds
<1> QED
  BY <1>4, <1>5 DEF NativeRow, WorkflowRow

(* What an insert does to the rows: those inserted before it stay.           *)
RowsAppended ==
  /\ inserted' \in 0..MaxRuns
  /\ inserted < inserted'
  /\ attr' \in [Runs -> Attributes]
  /\ status' \in [Runs -> {"absent", "queued", "running", "completed"}]
  /\ check' \in [Runs -> [Steps -> CheckStates]]
  /\ inserting' \in [Runs -> SUBSET Steps]
  /\ \A r \in Runs :
       /\ r <= inserted \/ inserted' < r => attr'[r] = attr[r] /\ status'[r] = status[r]
       /\ inserted < r /\ r <= inserted' =>
            /\ status'[r] = "queued"
            /\ attr'[r].kind = "customer_workflow" => attr'[r].target # "private"

LEMMA InsertNativeAppends ==
  ASSUME RunInvariant,
         NEW trigger \in Triggers, NEW pr \in PRs \cup {NoPR}, NEW commit \in BOOLEAN,
         NEW seeded, NEW later \in SUBSET Steps,
         InsertNative(NativeRow(trigger, pr, commit), seeded, later)
  PROVE  RowsAppended
<1> DEFINE row  == NativeRow(trigger, pr, commit)
           n    == inserted + 1
           fan  == EventOf(row.trigger) \in workflows
           last == IF fan THEN n + 1 ELSE n
           flow(order) == WorkflowRow(EventOf(row.trigger), row.pr, row.commit, order)
<1>1. PICK order \in Orders :
        /\ last <= MaxRuns
        /\ inserted' = last
        /\ attr' = [r \in Runs |-> IF r = n THEN row ELSE IF r = last THEN flow(order)
                                   ELSE attr[r]]
        /\ status' = [r \in Runs |-> IF r \in n..last THEN "queued" ELSE status[r]]
        /\ check' = [r \in Runs |->
                      IF r \in n..last
                        THEN [s \in Steps |->
                                IF r # n \/ s \in seeded THEN "queued" ELSE "absent"]
                        ELSE check[r]]
        /\ inserting' = [inserting EXCEPT ![n] = later]
  BY DEF InsertNative
<1>2. TypeOK
  BY DEF RunInvariant, SystemTypeOK
<1>3. inserted \in Nat /\ MaxRuns \in Nat /\ n \in Runs /\ n <= last /\ last <= n + 1 /\ last \in Nat
  BY <1>1, <1>2, SizeAssumption DEF TypeOK, Runs
<1>4. /\ row \in Attributes /\ row.kind # "customer_workflow"
      /\ row.trigger = trigger /\ row.pr = pr /\ row.commit = commit
  BY <1>2, <1>3, <1>1, RowTypes DEF NativeRow
<1>5. fan => flow(order) \in Attributes
               /\ (flow(order).kind = "customer_workflow" => flow(order).target # "private")
  <2>1. fan => EventOf(row.trigger) \in Triggers
    BY <1>2 DEF TypeOK, Events, Triggers
  <2> QED
    BY <2>1, <1>1, <1>2, <1>3, <1>4, RowTypes
<1>6. attr' \in [Runs -> Attributes]
  BY <1>1, <1>2, <1>3, <1>4, <1>5 DEF TypeOK
<1>7. status' \in [Runs -> {"absent", "queued", "running", "completed"}]
  BY <1>1, <1>2 DEF TypeOK
<1>8. check' \in [Runs -> [Steps -> CheckStates]]
  BY <1>1, <1>2 DEF TypeOK, CheckStates
<1>9. inserting' \in [Runs -> SUBSET Steps]
  BY <1>1, <1>2 DEF TypeOK
<1>10. ASSUME NEW r \in Runs
       PROVE  /\ r <= inserted \/ inserted' < r => attr'[r] = attr[r] /\ status'[r] = status[r]
              /\ inserted < r /\ r <= inserted' =>
                   /\ status'[r] = "queued"
                   /\ attr'[r].kind = "customer_workflow" => attr'[r].target # "private"
  BY <1>1, <1>3, <1>4, <1>5 DEF Runs
<1> QED
  BY <1>1, <1>3, <1>6, <1>7, <1>8, <1>9, <1>10 DEF RowsAppended

LEMMA RunWorkflowAppends ==
  ASSUME RunInvariant, NEW pr \in PRs \cup {NoPR}, RunWorkflow(pr)
  PROVE  RowsAppended
<1>1. TypeOK /\ inserted \in Nat /\ MaxRuns \in Nat /\ inserted < MaxRuns
      /\ inserted' = inserted + 1 /\ inserted + 1 \in Runs
  BY SizeAssumption DEF RunInvariant, SystemTypeOK, TypeOK, RunWorkflow, Runs
<1>2. PICK order \in Orders :
        attr' = [attr EXCEPT ![inserted + 1] = WorkflowRow("manual", pr, TRUE, order)]
  BY DEF RunWorkflow
<1>3. LET row == WorkflowRow("manual", pr, TRUE, order)
      IN  row \in Attributes /\ (row.kind = "customer_workflow" => row.target # "private")
  BY <1>1, RowTypes DEF Triggers
<1>4. attr' \in [Runs -> Attributes]
  BY <1>1, <1>2, <1>3 DEF TypeOK
<1>5. status' \in [Runs -> {"absent", "queued", "running", "completed"}]
  BY <1>1 DEF TypeOK, RunWorkflow
<1>6. check' \in [Runs -> [Steps -> CheckStates]] /\ inserting' \in [Runs -> SUBSET Steps]
  BY <1>1 DEF TypeOK, RunWorkflow, CheckStates
<1>7. ASSUME NEW r \in Runs
      PROVE  /\ r <= inserted \/ inserted' < r => attr'[r] = attr[r] /\ status'[r] = status[r]
             /\ inserted < r /\ r <= inserted' =>
                  /\ status'[r] = "queued"
                  /\ attr'[r].kind = "customer_workflow" => attr'[r].target # "private"
  <2>1. r \in Nat /\ (r <= inserted \/ inserted' < r => r # inserted + 1)
        /\ (inserted < r /\ r <= inserted' => r = inserted + 1)
    BY <1>1 DEF Runs
  <2>2. r # inserted + 1 => attr'[r] = attr[r] /\ status'[r] = status[r]
    BY <1>1, <1>2 DEF TypeOK, RunWorkflow
  <2>3. attr'[inserted + 1] = WorkflowRow("manual", pr, TRUE, order)
        /\ status'[inserted + 1] = "queued"
    BY <1>1, <1>2 DEF TypeOK, RunWorkflow
  <2> QED
    BY <2>1, <2>2, <2>3, <1>3
<1>8. inserted' \in 0..MaxRuns /\ inserted < inserted'
  BY <1>1 DEF Runs
<1> QED
  BY <1>4, <1>5, <1>6, <1>7, <1>8 DEF RowsAppended

(* A new row disturbs nobody who works on the old ones.                      *)
LEMMA AppendKeepsInvariant ==
  ASSUME RunInvariant, RowsAppended,
         UNCHANGED <<policy, workflows, conclusion, assigned, lease, faults,
                     executor, runnerVars>>,
         verification' \in [PRs -> {"absent", "pending", "passed", "failed"}]
  PROVE  RunInvariant'
<1>1. SystemTypeOK'
  BY DEF RunInvariant, SystemTypeOK, TypeOK, ExecutorTypeOK, RunnerTypeOK, RowsAppended,
         runnerVars
<1>2. inserted \in Nat /\ inserted' \in Nat /\ MaxRuns \in Nat /\ Runs \subseteq Nat
  BY SizeAssumption DEF RunInvariant, SystemTypeOK, TypeOK, RowsAppended, Runs
<1>3. RowsConsistent'
  BY <1>2 DEF RunInvariant, RowsConsistent, RowConsistent, RowsAppended
<1>4. \A r \in Runs : status[r] # "absent" => attr'[r] = attr[r] /\ status'[r] = status[r]
  <2>1. TAKE r \in Runs
  <2>2. HAVE status[r] # "absent"
  <2>3. ~(inserted < r)
    BY <2>2 DEF RunInvariant, RowsConsistent, RowConsistent
  <2>4. r <= inserted
    BY <2>3, <1>2
  <2> QED
    BY <2>4 DEF RowsAppended
<1>5. Expired \subseteq Expired'
  BY <1>4 DEF Expired
<1>6. ClaimsConsistent'
  BY <1>5 DEF RunInvariant, ClaimsConsistent, runnerVars
<1>7. HostedConsistent'
  BY <1>4 DEF RunInvariant, HostedConsistent, HoldsItsRun, RunOf
<1> QED
  BY <1>1, <1>3, <1>6, <1>7 DEF RunInvariant

LEMMA EnqueueKeepsInvariant ==
  ASSUME RunInvariant, Enqueue, UNCHANGED <<executor, runnerVars>>
  PROVE  RunInvariant'
<1>1. CASE \E t \in {"sessions.push", "commit"} : EnqueueNative(t)
  <2>1. PICK t \in {"sessions.push", "commit"} : EnqueueNative(t)
    BY <1>1
  <2>2. RowsAppended
    <3>1. InsertNative(NativeRow(t, NoPR, TRUE), Steps, {})
      BY <2>1 DEF EnqueueNative
    <3>2. t \in Triggers /\ NoPR \in PRs \cup {NoPR} /\ {} \in SUBSET Steps
      BY DEF Triggers
    <3> QED
      BY <3>1, <3>2, InsertNativeAppends
  <2> QED
    BY <2>1, <2>2, AppendKeepsInvariant DEF EnqueueNative, RunInvariant, SystemTypeOK, TypeOK
<1>2. CASE \E p \in PRs : OpenPullRequest(p)
  <2>1. PICK p \in PRs : OpenPullRequest(p)
    BY <1>2
  <2>2. RowsAppended
    <3>1. InsertNative(NativeRow("pull_request", p, TRUE), Steps, {})
      BY <2>1 DEF OpenPullRequest
    <3>2. "pull_request" \in Triggers /\ p \in PRs \cup {NoPR} /\ {} \in SUBSET Steps
      BY DEF Triggers
    <3> QED
      BY <3>1, <3>2, InsertNativeAppends
  <2> QED
    BY <2>1, <2>2, AppendKeepsInvariant DEF OpenPullRequest, RunInvariant, SystemTypeOK, TypeOK
<1>3. CASE \E t \in Triggers, p \in PRs \cup {NoPR}, c \in BOOLEAN, n \in 0..NumSteps :
             RequestAction(t, p, c, 1..n)
  <2>1. PICK t \in Triggers, p \in PRs \cup {NoPR}, c \in BOOLEAN, n \in 0..NumSteps :
          RequestAction(t, p, c, 1..n)
    BY <1>3
  <2>2. 1..n \in SUBSET Steps
    BY SizeAssumption DEF Steps
  <2>3. RowsAppended
    BY <2>1, <2>2, InsertNativeAppends DEF RequestAction, Triggers
  <2> QED
    BY <2>1, <2>3, AppendKeepsInvariant DEF RequestAction, RunInvariant, SystemTypeOK, TypeOK
<1>4. CASE \E p \in PRs \cup {NoPR} : RunWorkflow(p)
  <2>1. PICK p \in PRs \cup {NoPR} : RunWorkflow(p)
    BY <1>4
  <2> QED
    BY <2>1, RunWorkflowAppends, AppendKeepsInvariant
       DEF RunWorkflow, RunInvariant, SystemTypeOK, TypeOK
<1> QED
  BY <1>1, <1>2, <1>3, <1>4 DEF Enqueue

-----------------------------------------------------------------------------
(* A step that leaves the rows, the claims and the executors alone.          *)
LEMMA FrameKeepsInvariant ==
  ASSUME RunInvariant, SystemTypeOK',
         UNCHANGED <<inserted, attr, status, assigned, lease, claim, executor>>
  PROVE  RunInvariant'
BY DEF RunInvariant, RowsConsistent, RowConsistent, ClaimsConsistent, HostedConsistent, HoldsItsRun, Expired, RunOf

LEMMA AdministerKeepsInvariant ==
  ASSUME RunInvariant, Administer, UNCHANGED <<executor, runnerVars>>
  PROVE  RunInvariant'
<1>1. TypeOK'
  <2>1. CASE \E t \in Targets, l \in SUBSET Labels : SetRunnerPolicy(t, l)
    BY <2>1 DEF SetRunnerPolicy, RunInvariant, SystemTypeOK, TypeOK
  <2>2. CASE \E e \in SUBSET Events : SetWorkflow(e)
    BY <2>2 DEF SetWorkflow, RunInvariant, SystemTypeOK, TypeOK
  <2> QED
    BY <2>1, <2>2 DEF Administer
<1>2. ExecutorTypeOK' /\ RunnerTypeOK'
  BY DEF RunInvariant, SystemTypeOK, ExecutorTypeOK, RunnerTypeOK, runnerVars
<1>3. UNCHANGED <<inserted, attr, status, assigned, lease, claim, executor>>
  BY DEF Administer, SetRunnerPolicy, SetWorkflow, runnerVars
<1> QED
  BY <1>1, <1>2, <1>3, FrameKeepsInvariant DEF SystemTypeOK

LEMMA InsertCheckKeepsInvariant ==
  ASSUME RunInvariant, NEW r \in Runs, InsertCheck(r), UNCHANGED <<executor, runnerVars>>
  PROVE  RunInvariant'
<1>1. TypeOK'
  BY DEF InsertCheck, RunInvariant, SystemTypeOK, TypeOK, CheckStates
<1>2. ExecutorTypeOK' /\ RunnerTypeOK'
  BY DEF RunInvariant, SystemTypeOK, ExecutorTypeOK, RunnerTypeOK, runnerVars
<1>3. UNCHANGED <<inserted, attr, status, assigned, lease, claim, executor>>
  BY DEF InsertCheck, runnerVars
<1> QED
  BY <1>1, <1>2, <1>3, FrameKeepsInvariant DEF SystemTypeOK

(* The native runner takes a queued run, which nobody works on.              *)
LEMMA NativeKeepsInvariant ==
  ASSUME RunInvariant, NEW r \in Runs, RunActionOnce(r), UNCHANGED <<executor, runnerVars>>
  PROVE  RunInvariant'
<1>1. status[r] = "queued" /\ TypeOK
  BY DEF RunActionOnce, Oldest, NativeQueue, RunInvariant, SystemTypeOK
<1>2. status' = [status EXCEPT ![r] = "completed"] /\ UNCHANGED <<inserted, attr, assigned, lease>>
  BY DEF RunActionOnce, NativeExecute, NativeReject, Conclude
<1>3. TypeOK'
  <2>1. CASE \E verdict \in Verdicts(r) : NativeExecute(r, verdict)
    <3>1. PICK verdict \in Verdicts(r) : NativeExecute(r, verdict)
      BY <2>1
    <3>2. verdict \in [Steps -> {"success", "failure"}]
      BY DEF Verdicts
    <3>3. check' \in [Runs -> [Steps -> CheckStates]]
      BY <3>1, <3>2, <1>1 DEF NativeExecute, TypeOK, CheckStates
    <3>4. conclusion' \in [Runs -> {"none", "success", "failure"}]
          /\ verification' \in [PRs -> {"absent", "pending", "passed", "failed"}]
      BY <3>1, <1>1 DEF NativeExecute, TypeOK, Conclude, VerifyPullRequest, Bool
    <3> QED
      BY <3>3, <3>4, <1>1, <1>2 DEF TypeOK, RunActionOnce
  <2>2. CASE NativeReject(r)
    BY <2>2, <1>1, <1>2 DEF NativeReject, TypeOK, Conclude, VerifyPullRequest, Bool, RunActionOnce
  <2> QED
    BY <2>1, <2>2 DEF RunActionOnce
<1>4. ExecutorTypeOK' /\ RunnerTypeOK'
  BY DEF RunInvariant, SystemTypeOK, ExecutorTypeOK, RunnerTypeOK, runnerVars
<1>5. \A q \in Runs : status[q] = "running" => status'[q] = "running"
  BY <1>1, <1>2 DEF TypeOK
<1>6. RowsConsistent'
  BY <1>1, <1>2 DEF RunInvariant, RowsConsistent, RowConsistent, TypeOK
<1>7. ClaimsConsistent'
  BY <1>2, <1>5 DEF RunInvariant, ClaimsConsistent, Expired, runnerVars
<1>8. HostedConsistent'
  BY <1>2, <1>5 DEF RunInvariant, HostedConsistent, HoldsItsRun, RunOf
<1> QED
  BY <1>3, <1>4, <1>6, <1>7, <1>8 DEF RunInvariant, SystemTypeOK

LEMMA TableKeepsInvariant ==
  ASSUME RunInvariant, TableNext, UNCHANGED <<executor, runnerVars>>
  PROVE  RunInvariant'
BY EnqueueKeepsInvariant, AdministerKeepsInvariant, InsertCheckKeepsInvariant,
   NativeKeepsInvariant DEF TableNext

-----------------------------------------------------------------------------
(* The hosted executors.                                                     *)

(* An executor at work on a run goes on with it, concludes it or forgets it.   *)
LEMMA ExecutorGoesOn ==
  ASSUME RunInvariant, SystemTypeOK',
         UNCHANGED <<inserted, attr, assigned, lease, runnerVars>>,
         NEW e \in Executors, executor[e].phase # "idle",
         \A f \in Executors : f # e => executor'[f] = executor[f],
         \/ status' = status
         \/ status' = [status EXCEPT ![RunOf(e)] = "completed"],
         \/ executor'[e] = Idle
         \/ /\ executor'[e].phase # "idle"
            /\ executor'[e].run = executor[e].run
            /\ executor'[e].phase \in AtWork =>
                 executor[e].phase \in AtWork /\ status' = status
            /\ executor'[e].phase = "container" => executor'[e].next <= NumSteps
  PROVE  RunInvariant'
<1>1. /\ RunOf(e) \in Runs /\ status[RunOf(e)] \in {"running", "completed"}
      /\ assigned[RunOf(e)] = NoRunner
      /\ attr[RunOf(e)].kind = "customer_workflow"
      /\ executor[e].phase \in AtWork => status[RunOf(e)] = "running"
      /\ \A f \in Executors : f # e => RunOf(f) # RunOf(e)
  BY DEF RunInvariant, HostedConsistent, HoldsItsRun
<1>2. \A r \in Runs : r # RunOf(e) => status'[r] = status[r]
  BY DEF RunInvariant, SystemTypeOK, TypeOK
<1>3. /\ status'[RunOf(e)] \in {"running", "completed"}
      /\ status' = status \/ status'[RunOf(e)] = "completed"
  BY <1>1 DEF RunInvariant, SystemTypeOK, TypeOK
<1>4. RowsConsistent'
  BY <1>1, <1>2, <1>3 DEF RunInvariant, RowsConsistent, RowConsistent
<1>5. Expired' = Expired
  BY <1>1, <1>2 DEF Expired
<1>6. ClaimsConsistent'
  BY <1>5 DEF RunInvariant, ClaimsConsistent, runnerVars
<1>7. /\ \A f \in Executors : f # e => RunOf(f)' = RunOf(f)
      /\ RunOf(e)' = 0 \/ RunOf(e)' = RunOf(e)
  BY DEF RunOf, Idle
<1>8. ASSUME NEW f \in Executors, f # e PROVE HoldsItsRun(f)'
  <2>1. CASE executor[f].phase = "idle"
    BY <2>1, <1>7, <1>8 DEF RunInvariant, HostedConsistent, HoldsItsRun
  <2>2. CASE executor[f].phase # "idle"
    <3>1. /\ RunOf(f) \in Runs /\ RunOf(f) # 0 /\ RunOf(f) # RunOf(e)
          /\ status[RunOf(f)] \in {"running", "completed"}
          /\ executor[f].phase \in AtWork => status[RunOf(f)] = "running"
          /\ assigned[RunOf(f)] = NoRunner
          /\ attr[RunOf(f)].kind = "customer_workflow"
          /\ \A g \in Executors : g # f => RunOf(g) # RunOf(f)
          /\ executor[f].phase = "container" => executor[f].next <= NumSteps
      BY <1>1, <1>8, <2>2, SizeAssumption DEF RunInvariant, HostedConsistent, HoldsItsRun, Runs
    <3>2. status'[RunOf(f)] = status[RunOf(f)] /\ executor'[f] = executor[f]
          /\ RunOf(f)' = RunOf(f)
      BY <3>1, <1>2, <1>7, <1>8
    <3>3. \A g \in Executors : g # f => RunOf(g)' # RunOf(f)
      BY <3>1, <1>7
    <3> QED
      BY <2>2, <3>1, <3>2, <3>3 DEF HoldsItsRun
  <2> QED
    BY <2>1, <2>2
<1>9. HoldsItsRun(e)'
  <2>1. CASE executor'[e] = Idle
    BY <2>1 DEF HoldsItsRun, RunOf, Idle
  <2>2. CASE executor'[e] # Idle
    <3>1. /\ executor'[e].phase # "idle" /\ RunOf(e)' = RunOf(e)
          /\ executor'[e].phase \in AtWork =>
               executor[e].phase \in AtWork /\ status' = status
          /\ executor'[e].phase = "container" => executor'[e].next <= NumSteps
      BY <2>2 DEF RunOf
    <3>2. executor'[e].phase \in AtWork => status'[RunOf(e)] = "running"
      BY <3>1, <1>1
    <3> QED
      BY <3>1, <3>2, <1>1, <1>3, <1>7 DEF HoldsItsRun
  <2> QED
    BY <2>1, <2>2
<1>10. HostedConsistent'
  BY <1>8, <1>9 DEF HostedConsistent
<1> QED
  BY <1>4, <1>6, <1>10 DEF RunInvariant

LEMMA SetCheckType ==
  ASSUME TypeOK, NEW r \in Runs, NEW s \in Steps, NEW state \in CheckStates,
         SetCheck(r, s, state)
  PROVE  check' \in [Runs -> [Steps -> CheckStates]]
BY DEF TypeOK, SetCheck

LEMMA StepOfType ==
  ASSUME RunInvariant, NEW e \in Executors,
         executor[e].phase \in {"checks", "container"}, executor[e].next <= NumSteps
  PROVE  /\ RunOf(e) \in Runs
         /\ StepOf(e) \in Steps
         /\ executor[e].next + 1 \in 1..(NumSteps + 1)
<1>1. RunOf(e) \in Runs
  BY DEF RunInvariant, HostedConsistent, HoldsItsRun
<1>2. executor[e].next \in Steps /\ executor[e].next \in 1..NumSteps
  BY SizeAssumption DEF RunInvariant, SystemTypeOK, ExecutorTypeOK, ExecutorStates, Steps
<1>3. attr[RunOf(e)].order \in [Steps -> Steps]
  BY <1>1 DEF RunInvariant, SystemTypeOK, TypeOK, Attributes, Orders
<1> QED
  BY <1>1, <1>2, <1>3, SizeAssumption DEF StepOf

LEMMA IdleType == Idle \in ExecutorStates
BY SizeAssumption DEF Idle, ExecutorStates, Phases

LEMMA RunnerTypesStay ==
  ASSUME RunInvariant, UNCHANGED runnerVars
  PROVE  RunnerTypeOK'
BY DEF RunInvariant, SystemTypeOK, RunnerTypeOK, runnerVars

LEMMA HostedClaimKeepsInvariant ==
  ASSUME RunInvariant, NEW e \in Executors, NEW r \in Runs, HostedClaim(e, r),
         UNCHANGED runnerVars
  PROVE  RunInvariant'
<1>1. /\ TypeOK /\ ExecutorTypeOK /\ executor[e].phase = "idle"
      /\ status[r] = "queued" /\ attr[r].kind = "customer_workflow"
      /\ status' = [status EXCEPT ![r] = "running"]
      /\ UNCHANGED <<policy, workflows, inserted, attr, conclusion, assigned, lease,
                     check, inserting, verification, faults>>
  BY DEF HostedClaim, Oldest, HostedQueue, RunInvariant, SystemTypeOK
<1> DEFINE busy == [phase |-> "reconstruct", run |-> r, next |-> 1, broken |-> FALSE]
<1>2. busy \in ExecutorStates /\ busy.phase = "reconstruct" /\ busy.run = r
  <2>1. 1 \in 1..(NumSteps + 1) /\ r \in 0..MaxRuns
    BY SizeAssumption DEF Runs
  <2> QED
    BY <2>1 DEF ExecutorStates, Phases
<1>3. executor' = [executor EXCEPT ![e] = busy]
  BY DEF HostedClaim
<1>4. TypeOK' /\ ExecutorTypeOK'
  BY <1>1, <1>2, <1>3 DEF TypeOK, ExecutorTypeOK
<1>5. assigned[r] = NoRunner
  BY <1>1 DEF RunInvariant, RowsConsistent, RowConsistent
<1>6. /\ status'[r] = "running"
      /\ \A q \in Runs : q # r => status'[q] = status[q]
  BY <1>1 DEF TypeOK
<1>7. RowsConsistent'
  BY <1>1, <1>5, <1>6 DEF RunInvariant, RowsConsistent, RowConsistent
<1>8. Expired' = Expired
  BY <1>1, <1>5, <1>6 DEF Expired
<1>9. ClaimsConsistent'
  BY <1>8 DEF RunInvariant, ClaimsConsistent, runnerVars
<1>10. HostedConsistent'
  <2>1. executor'[e] = busy /\ \A f \in Executors : f # e => executor'[f] = executor[f]
    BY <1>1, <1>3 DEF ExecutorTypeOK
  <2>2. RunOf(e)' = r /\ \A f \in Executors : f # e => RunOf(f)' = RunOf(f)
    BY <2>1, <1>2 DEF RunOf
  <2>3. \A f \in Executors : RunOf(f) # r
    BY <1>1, SizeAssumption DEF RunInvariant, HostedConsistent, HoldsItsRun, Runs
  <2>4. \A f \in Executors :
          executor[f].phase # "idle" => status'[RunOf(f)] = status[RunOf(f)]
    BY <1>6, <2>3 DEF RunInvariant, HostedConsistent, HoldsItsRun
  <2>5. ASSUME NEW f \in Executors, f # e, executor[f].phase # "idle"
        PROVE  /\ RunOf(f) \in Runs
               /\ status'[RunOf(f)] \in {"running", "completed"}
               /\ executor[f].phase \in AtWork => status'[RunOf(f)] = "running"
               /\ assigned[RunOf(f)] = NoRunner
               /\ attr[RunOf(f)].kind = "customer_workflow"
               /\ \A g \in Executors : g # f => RunOf(g)' # RunOf(f)
               /\ executor[f].phase = "container" => executor[f].next <= NumSteps
    BY <2>2, <2>3, <2>4, <2>5 DEF RunInvariant, HostedConsistent, HoldsItsRun
  <2>6. \A f \in Executors : f # e /\ executor[f].phase = "idle" => RunOf(f) = 0
    BY DEF RunInvariant, HostedConsistent, HoldsItsRun
  <2>7. executor'[e].phase = "reconstruct" /\ RunOf(e)' \in Runs
        /\ status'[r] = "running" /\ assigned[r] = NoRunner
        /\ attr[r].kind = "customer_workflow"
        /\ \A f \in Executors : f # e => RunOf(f)' # RunOf(e)'
    BY <1>1, <1>2, <1>5, <1>6, <2>1, <2>2, <2>3
  <2>8. UNCHANGED <<attr, assigned>>
    BY <1>1
  <2>9. HoldsItsRun(e)'
    BY <2>7, <2>2, <2>8 DEF HoldsItsRun
  <2>10. ASSUME NEW f \in Executors, f # e PROVE HoldsItsRun(f)'
    BY <2>1, <2>2, <2>5, <2>6, <2>8, <2>10 DEF HoldsItsRun
  <2> QED
    BY <2>9, <2>10 DEF HostedConsistent
<1> QED
  BY <1>4, <1>7, <1>9, <1>10, RunnerTypesStay DEF RunInvariant, SystemTypeOK

(* The steps of an executor between its claim and the end of its run.        *)
LEMMA HostedStepKeepsInvariant ==
  ASSUME RunInvariant, NEW e \in Executors, UNCHANGED runnerVars,
         \/ HostedReconstruct(e)
         \/ HostedSkipCheck(e)
         \/ HostedStartCheck(e)
         \/ \E success \in Outcomes : HostedFinishCheck(e, success)
         \/ HostedError(e)
         \/ HostedFailChecks(e)
  PROVE  RunInvariant'
<1>1. TypeOK /\ ExecutorTypeOK /\ executor[e] \in ExecutorStates /\ executor[e].phase # "idle"
  BY DEF RunInvariant, SystemTypeOK, ExecutorTypeOK, HostedReconstruct, HostedSkipCheck,
         HostedStartCheck, HostedFinishCheck, HostedError, HostedFailChecks
<1>2. UNCHANGED <<inserted, attr, status, assigned, lease>>
  BY DEF tableVars, HostedReconstruct, HostedSkipCheck, HostedStartCheck, HostedFinishCheck,
         HostedError, HostedFailChecks
<1>3. RunOf(e) \in Runs
  BY <1>1 DEF RunInvariant, HostedConsistent, HoldsItsRun
<1>4. CASE HostedReconstruct(e)
  <2>1. TypeOK' /\ ExecutorTypeOK'
    BY <1>1, <1>4 DEF HostedReconstruct, TypeOK, ExecutorTypeOK, ExecutorStates, Phases, tableVars
  <2>2. /\ executor[e].phase = "reconstruct"
        /\ executor'[e].phase \in {"checks", "failing"} /\ executor'[e].run = executor[e].run
        /\ \A f \in Executors : f # e => executor'[f] = executor[f]
    BY <1>1, <1>4 DEF HostedReconstruct, ExecutorTypeOK, ExecutorStates
  <2> QED
    BY <2>1, <2>2, <1>1, <1>2, RunnerTypesStay, ExecutorGoesOn DEF SystemTypeOK, AtWork
<1>5. CASE HostedSkipCheck(e)
  <2>1. check' \in [Runs -> [Steps -> CheckStates]] /\ executor[e].next + 1 \in 1..(NumSteps + 1)
    BY <1>1, <1>5, StepOfType, SetCheckType DEF HostedSkipCheck, CheckStates
  <2>2. TypeOK' /\ ExecutorTypeOK'
    BY <2>1, <1>1, <1>5 DEF HostedSkipCheck, TypeOK, ExecutorTypeOK, ExecutorStates
  <2>3. /\ executor[e].phase \in {"checks", "container"} /\ executor'[e].phase = "checks"
        /\ executor'[e].run = executor[e].run
        /\ \A f \in Executors : f # e => executor'[f] = executor[f]
    BY <1>1, <1>5 DEF HostedSkipCheck, ExecutorTypeOK, ExecutorStates
  <2> QED
    BY <2>2, <2>3, <1>1, <1>2, RunnerTypesStay, ExecutorGoesOn DEF SystemTypeOK, AtWork
<1>6. CASE HostedStartCheck(e)
  <2>1. check' \in [Runs -> [Steps -> CheckStates]]
    BY <1>1, <1>6, StepOfType, SetCheckType DEF HostedStartCheck, CheckStates
  <2>2. TypeOK' /\ ExecutorTypeOK'
    BY <2>1, <1>1, <1>6 DEF HostedStartCheck, TypeOK, ExecutorTypeOK, ExecutorStates, Phases
  <2>3. /\ executor[e].phase \in {"checks", "container"} /\ executor'[e].phase = "container"
        /\ executor'[e].run = executor[e].run
        /\ executor'[e].next = executor[e].next /\ executor[e].next <= NumSteps
        /\ \A f \in Executors : f # e => executor'[f] = executor[f]
    BY <1>1, <1>6 DEF HostedStartCheck, ExecutorTypeOK, ExecutorStates
  <2> QED
    BY <2>2, <2>3, <1>1, <1>2, RunnerTypesStay, ExecutorGoesOn DEF SystemTypeOK, AtWork
<1>7. CASE \E success \in Outcomes : HostedFinishCheck(e, success)
  <2>1. PICK success \in Outcomes : HostedFinishCheck(e, success)
    BY <1>7
  <2>2. executor[e].phase = "container" /\ executor[e].next <= NumSteps
    BY <2>1 DEF HostedFinishCheck, RunInvariant, HostedConsistent, HoldsItsRun
  <2>3. check' \in [Runs -> [Steps -> CheckStates]] /\ executor[e].next + 1 \in 1..(NumSteps + 1)
    BY <1>1, <2>1, <2>2, StepOfType, SetCheckType DEF HostedFinishCheck, CheckStates, Bool
  <2>4. TypeOK' /\ ExecutorTypeOK'
    BY <2>1, <2>3, <1>1 DEF HostedFinishCheck, TypeOK, ExecutorTypeOK, ExecutorStates, Phases
  <2>5. /\ executor[e].phase \in {"checks", "container"} /\ executor'[e].phase = "checks"
        /\ executor'[e].run = executor[e].run
        /\ \A f \in Executors : f # e => executor'[f] = executor[f]
    BY <1>1, <2>1 DEF HostedFinishCheck, ExecutorTypeOK, ExecutorStates
  <2> QED
    BY <2>4, <2>5, <1>1, <1>2, RunnerTypesStay, ExecutorGoesOn DEF SystemTypeOK, AtWork
<1>8. CASE HostedError(e)
  <2>1. TypeOK' /\ ExecutorTypeOK'
    BY <1>1, <1>8, SizeAssumption DEF HostedError, TypeOK, ExecutorTypeOK, ExecutorStates, Phases
  <2>2. /\ executor'[e].phase = "failing" /\ executor'[e].run = executor[e].run
        /\ \A f \in Executors : f # e => executor'[f] = executor[f]
    BY <1>1, <1>8 DEF HostedError, ExecutorTypeOK, ExecutorStates
  <2> QED
    BY <2>1, <2>2, <1>1, <1>2, RunnerTypesStay, ExecutorGoesOn DEF SystemTypeOK, AtWork
<1>9. CASE HostedFailChecks(e)
  <2>1. check' \in [Runs -> [Steps -> CheckStates]]
    BY <1>1, <1>3, <1>9 DEF HostedFailChecks, TypeOK, CheckStates
  <2>2. TypeOK' /\ ExecutorTypeOK'
    BY <2>1, <1>1, <1>9 DEF HostedFailChecks, TypeOK, ExecutorTypeOK, ExecutorStates, Phases
  <2>3. /\ executor'[e].phase = "failed" /\ executor'[e].run = executor[e].run
        /\ \A f \in Executors : f # e => executor'[f] = executor[f]
    BY <1>1, <1>9 DEF HostedFailChecks, ExecutorTypeOK, ExecutorStates
  <2> QED
    BY <2>2, <2>3, <1>1, <1>2, RunnerTypesStay, ExecutorGoesOn DEF SystemTypeOK, AtWork
<1> QED
  BY <1>4, <1>5, <1>6, <1>7, <1>8, <1>9

(* The steps that conclude or end an executor's work on its run.              *)
LEMMA HostedEndKeepsInvariant ==
  ASSUME RunInvariant, NEW e \in Executors, UNCHANGED runnerVars,
         HostedComplete(e) \/ HostedCleanup(e) \/ HostedFailRun(e) \/ HostedCrash(e)
  PROVE  RunInvariant'
<1>1. TypeOK /\ ExecutorTypeOK /\ executor[e] \in ExecutorStates /\ executor[e].phase # "idle"
      /\ UNCHANGED <<policy, workflows, inserted, attr, assigned, lease, check, inserting,
                     verification>>
  BY DEF RunInvariant, SystemTypeOK, ExecutorTypeOK, HostedComplete, HostedCleanup,
         HostedFailRun, HostedCrash, tableVars
<1>2. \/ /\ status' = [status EXCEPT ![RunOf(e)] = "completed"]
         /\ \E success \in BOOLEAN : conclusion' = [conclusion EXCEPT ![RunOf(e)] = Bool(success)]
         /\ faults' = faults
      \/ /\ UNCHANGED <<status, conclusion>>
         /\ faults' = faults \/ (faults' = faults + 1 /\ faults < MaxFaults)
  BY <1>1 DEF HostedComplete, HostedCleanup, HostedFailRun, HostedCrash, Conclude,
              ExecutorTypeOK, ExecutorStates, tableVars
<1>3. TypeOK'
  <2>1. faults' \in 0..MaxFaults
    BY <1>1, <1>2, SizeAssumption DEF TypeOK
  <2>2. status' \in [Runs -> {"absent", "queued", "running", "completed"}]
    BY <1>1, <1>2 DEF TypeOK
  <2>3. conclusion' \in [Runs -> {"none", "success", "failure"}]
    BY <1>1, <1>2 DEF TypeOK, Bool
  <2> QED
    BY <1>1, <2>1, <2>2, <2>3 DEF TypeOK
<1>4. \/ executor' = [executor EXCEPT ![e] = Idle]
      \/ executor' = [executor EXCEPT ![e].phase = "cleanup"]
  BY DEF HostedComplete, HostedCleanup, HostedFailRun, HostedCrash
<1>5. ExecutorTypeOK'
  BY <1>1, <1>4, IdleType DEF ExecutorTypeOK, ExecutorStates, Phases
<1>6. \/ executor'[e] = Idle
      \/ executor'[e].phase = "cleanup" /\ executor'[e].run = executor[e].run
  BY <1>1, <1>4 DEF ExecutorTypeOK, ExecutorStates
<1>7. \A f \in Executors : f # e => executor'[f] = executor[f]
  BY <1>1, <1>4 DEF ExecutorTypeOK
<1>8. SystemTypeOK'
  BY <1>3, <1>5, RunnerTypesStay DEF SystemTypeOK
<1>9. status' = status \/ status' = [status EXCEPT ![RunOf(e)] = "completed"]
  BY <1>2
<1> QED
  BY <1>1, <1>6, <1>7, <1>8, <1>9, ExecutorGoesOn DEF AtWork

LEMMA ExecutorKeepsInvariant ==
  ASSUME RunInvariant, ExecutorNext, UNCHANGED runnerVars
  PROVE  RunInvariant'
BY HostedClaimKeepsInvariant, HostedStepKeepsInvariant, HostedEndKeepsInvariant
   DEF ExecutorNext, HostedWork

-----------------------------------------------------------------------------
(* The private runners.                                                      *)

LEMMA ExecutorTypesStay ==
  ASSUME RunInvariant, UNCHANGED executor
  PROVE  ExecutorTypeOK'
BY DEF RunInvariant, SystemTypeOK, ExecutorTypeOK

LEMMA FaultsStayBounded ==
  ASSUME TypeOK, faults' = faults \/ (faults < MaxFaults /\ faults' = faults + 1)
  PROVE  faults' \in 0..MaxFaults
BY SizeAssumption DEF TypeOK

(* What an open claim has requeued is the claim's alone to change: steps     *)
(* that respect the locks leave it an expired lease.                         *)
LEMMA ClaimBeginKeepsInvariant ==
  ASSUME RunInvariant, NEW a \in Agents, ClaimBegin(a), UNCHANGED executor
  PROVE  RunInvariant'
<1>1. /\ claim' = [claim EXCEPT ![a] = [open |-> TRUE, requeued |-> Expired]]
      /\ claim \in [Agents -> [open: BOOLEAN, requeued: SUBSET Runs]]
      /\ Expired \cap Locked = {}
      /\ UNCHANGED <<tableVars, runnerStatus, agent, heartbeats, completions>>
  BY DEF ClaimBegin, RunInvariant, SystemTypeOK, RunnerTypeOK
<1>2. TypeOK' /\ ExecutorTypeOK'
  BY <1>1, ExecutorTypesStay DEF RunInvariant, SystemTypeOK, TypeOK, tableVars
<1>3. RunnerTypeOK'
  BY <1>1 DEF RunInvariant, SystemTypeOK, RunnerTypeOK, Expired
<1>4. RowsConsistent' /\ HostedConsistent'
  BY <1>1 DEF RunInvariant, RowsConsistent, RowConsistent, HostedConsistent, HoldsItsRun, RunOf, tableVars
<1>5. /\ claim'[a].requeued = Expired /\ claim'[a].open
      /\ \A b \in Agents : b # a => claim'[b] = claim[b]
      /\ Expired' = Expired
  BY <1>1 DEF Expired, tableVars
<1>6. \A b \in Agents : claim[b].requeued \cap Expired = {}
  BY <1>1 DEF Locked
<1>7. ClaimsConsistent'
  BY <1>5, <1>6 DEF RunInvariant, ClaimsConsistent
<1> QED
  BY <1>2, <1>3, <1>4, <1>7 DEF RunInvariant, SystemTypeOK

LEMMA ClaimRollbackKeepsInvariant ==
  ASSUME RunInvariant, NEW a \in Agents, ClaimRollback(a), UNCHANGED executor
  PROVE  RunInvariant'
<1>1. /\ claim' = [claim EXCEPT ![a] = NoClaim]
      /\ claim \in [Agents -> [open: BOOLEAN, requeued: SUBSET Runs]]
      /\ UNCHANGED <<tableVars, runnerStatus, agent, heartbeats, completions>>
  BY DEF ClaimRollback, RunInvariant, SystemTypeOK, RunnerTypeOK
<1>2. TypeOK' /\ ExecutorTypeOK'
  BY <1>1, ExecutorTypesStay DEF RunInvariant, SystemTypeOK, TypeOK, tableVars
<1>3. RunnerTypeOK'
  BY <1>1 DEF RunInvariant, SystemTypeOK, RunnerTypeOK, NoClaim
<1>4. RowsConsistent' /\ HostedConsistent'
  BY <1>1 DEF RunInvariant, RowsConsistent, RowConsistent, HostedConsistent, HoldsItsRun, RunOf, tableVars
<1>5. /\ claim'[a].requeued = {}
      /\ \A b \in Agents : b # a => claim'[b] = claim[b]
      /\ Expired' = Expired
  BY <1>1 DEF Expired, tableVars, NoClaim
<1>6. ClaimsConsistent'
  BY <1>5 DEF RunInvariant, ClaimsConsistent
<1> QED
  BY <1>2, <1>3, <1>4, <1>6 DEF RunInvariant, SystemTypeOK

(* The commit leases one run, which was queued or requeued by this claim,    *)
(* and returns the others it has requeued to the queue.                      *)
LEMMA ClaimCommitKeepsInvariant ==
  ASSUME RunInvariant, NEW a \in Agents, NEW r \in Runs, NEW delivered \in BOOLEAN,
         ClaimCommit(a, r, delivered), UNCHANGED executor
  PROVE  RunInvariant'
<1> DEFINE mine     == claim[a].requeued
           requeued == mine \ {r}
           k        == RunnerOf[a]
<1>1. /\ TypeOK /\ RunnerTypeOK /\ k \in Runners /\ k # NoRunner
      /\ mine \subseteq Expired
  BY RunnerAssumption, NullAssumption DEF RunInvariant, SystemTypeOK, ClaimsConsistent
<1>2. /\ attr[r].target \in {"private", "either"}
      /\ attr[r].labels \subseteq RunnerLabels[k]
      /\ status[r] = "queued" \/ r \in mine
  BY DEF ClaimCommit, Oldest, Claimable
<1>3. /\ status' = [q \in Runs |-> IF q = r THEN "running"
                                  ELSE IF q \in requeued THEN "queued" ELSE status[q]]
      /\ assigned' = [q \in Runs |-> IF q = r THEN k
                                    ELSE IF q \in requeued THEN NoRunner ELSE assigned[q]]
      /\ lease' = [q \in Runs |-> IF q = r THEN "live"
                                 ELSE IF q \in requeued THEN "none" ELSE lease[q]]
      /\ claim' = [claim EXCEPT ![a] = NoClaim]
      /\ UNCHANGED <<policy, workflows, inserted, attr, conclusion, check, inserting,
                     verification, runnerStatus, heartbeats, completions>>
  BY DEF ClaimCommit
<1>4. TypeOK'
  <2>1. faults' \in 0..MaxFaults
    BY <1>1, FaultsStayBounded DEF ClaimCommit
  <2> QED
    BY <1>1, <1>3, <2>1 DEF TypeOK
<1>5. RunnerTypeOK'
  <2>1. agent' \in [Agents -> AgentStates]
    BY <1>1 DEF ClaimCommit, RunnerTypeOK, AgentStates
  <2> QED
    BY <1>1, <1>3, <2>1 DEF RunnerTypeOK, NoClaim
<1>6. \A q \in mine : status[q] = "running" /\ assigned[q] # NoRunner
  BY <1>1 DEF Expired
<1>7. RowsConsistent'
  <2>1. SUFFICES ASSUME NEW q \in Runs PROVE RowConsistent(q)'
    BY DEF RowsConsistent
  <2>2. CASE q = r
    BY <2>2, <1>1, <1>2, <1>3, <1>6 DEF RunInvariant, RowsConsistent, RowConsistent
  <2>3. CASE q # r /\ q \in mine
    BY <2>3, <1>3, <1>6 DEF RunInvariant, RowsConsistent, RowConsistent
  <2>4. CASE q # r /\ q \notin mine
    BY <2>4, <1>3 DEF RunInvariant, RowsConsistent, RowConsistent
  <2> QED
    BY <2>2, <2>3, <2>4
<1>8. ClaimsConsistent'
  <2>1. claim'[a].requeued = {} /\ \A b \in Agents : b # a => claim'[b] = claim[b]
    BY <1>1, <1>3 DEF RunnerTypeOK, NoClaim
  <2>2. ASSUME NEW b \in Agents, b # a, NEW q \in claim[b].requeued
        PROVE  q \in Expired'
    <3>1. q \in Expired /\ q \notin mine
      BY <2>2 DEF RunInvariant, ClaimsConsistent
    <3>2. q # r
      BY <3>1, <1>2 DEF Expired
    <3> QED
      BY <3>1, <3>2, <1>3 DEF Expired
  <2> QED
    BY <2>1, <2>2 DEF RunInvariant, ClaimsConsistent
<1>9. HostedConsistent'
  <2>1. ASSUME NEW e \in Executors, executor[e].phase # "idle"
        PROVE  status'[RunOf(e)] = status[RunOf(e)] /\ assigned'[RunOf(e)] = NoRunner
    <3>1. /\ RunOf(e) \in Runs /\ status[RunOf(e)] \in {"running", "completed"}
          /\ assigned[RunOf(e)] = NoRunner
      BY <2>1 DEF RunInvariant, HostedConsistent, HoldsItsRun
    <3>2. RunOf(e) # r /\ RunOf(e) \notin mine
      BY <3>1, <1>2, <1>6
    <3> QED
      BY <3>1, <3>2, <1>3
  <2> QED
    BY <2>1, <1>3 DEF RunInvariant, HostedConsistent, HoldsItsRun, RunOf
<1> QED
  BY <1>4, <1>5, <1>7, <1>8, <1>9, ExecutorTypesStay DEF RunInvariant, SystemTypeOK

(* An agent's steps between its claim and its report, and administration.    *)
LEMMA AgentStepKeepsInvariant ==
  ASSUME RunInvariant, NEW a \in Agents, UNCHANGED executor,
         \/ AgentReconstruct(a)
         \/ HeartbeatCheck(a)
         \/ \E results \in Results : CompleteCheck(a, results)
         \/ AgentRefused(a)
         \/ AgentCrash(a)
  PROVE  RunInvariant'
<1>1. /\ TypeOK /\ RunnerTypeOK /\ RunnerOf[a] \in Runners
      /\ agent[a].phase # "idle" => Job(a) \in Runs
      /\ agent[a] \in AgentStates
  BY RunnerAssumption DEF RunInvariant, SystemTypeOK, RunnerTypeOK, AgentStates, NoJob, Job
<1>2. /\ UNCHANGED <<policy, workflows, inserted, attr, status, conclusion, assigned, lease,
                     check, inserting, verification, claim, executor, runnerStatus>>
      /\ faults' = faults \/ (faults < MaxFaults /\ faults' = faults + 1)
  BY DEF AgentReconstruct, HeartbeatCheck, CompleteCheck, AgentRefused, AgentCrash, tableVars
<1>3. TypeOK'
  BY <1>1, <1>2, FaultsStayBounded DEF TypeOK
<1>4. agent' \in [Agents -> AgentStates]
  BY <1>1 DEF RunnerTypeOK, AgentStates, AgentReconstruct, HeartbeatCheck, CompleteCheck,
     AgentRefused, AgentCrash, NoJob
<1>5. heartbeats' \subseteq Runs \X Runners
  BY <1>1 DEF RunnerTypeOK, AgentReconstruct, HeartbeatCheck, CompleteCheck,
     AgentRefused, AgentCrash
<1>6. completions' \subseteq Completions
  <2>1. CASE \E results \in Results : CompleteCheck(a, results)
    BY <2>1, <1>1 DEF RunnerTypeOK, CompleteCheck, Completions
  <2>2. CASE AgentCrash(a)
    BY <2>2, <1>1 DEF RunnerTypeOK, AgentCrash, Completions
  <2>3. CASE completions' = completions
    BY <2>3, <1>1 DEF RunnerTypeOK
  <2> QED
    BY <2>1, <2>2, <2>3 DEF AgentReconstruct, HeartbeatCheck, AgentRefused
<1>7. RunnerTypeOK'
  BY <1>1, <1>2, <1>4, <1>5, <1>6 DEF RunnerTypeOK
<1> QED
  BY <1>2, <1>3, <1>7, ExecutorTypesStay, FrameKeepsInvariant DEF SystemTypeOK

LEMMA SetRunnerStatusKeepsInvariant ==
  ASSUME RunInvariant, UNCHANGED executor,
         NEW k \in Runners, NEW s \in {"active", "disabled", "revoked"}, SetRunnerStatus(k, s)
  PROVE  RunInvariant'
<1>1. RunnerTypeOK' /\ TypeOK'
  BY DEF RunInvariant, SystemTypeOK, RunnerTypeOK, TypeOK, SetRunnerStatus, tableVars
<1>2. UNCHANGED <<inserted, attr, status, assigned, lease, claim, executor>>
  BY DEF SetRunnerStatus, tableVars
<1> QED
  BY <1>1, <1>2, ExecutorTypesStay, FrameKeepsInvariant DEF SystemTypeOK

(* A lease that runs out, and a heartbeat that renews one no claim has taken, *)
(* leave the rows of open claims alone.                                      *)
LEMMA LeaseStepKeepsInvariant ==
  ASSUME RunInvariant, UNCHANGED executor, NEW r \in Runs,
         LeaseExpires(r) \/ \E k \in Runners : HeartbeatCommit(r, k)
  PROVE  RunInvariant'
<1>1. /\ UNCHANGED <<policy, workflows, inserted, attr, status, conclusion, assigned, check,
                     inserting, verification, runnerStatus, agent, claim, completions>>
      /\ faults' = faults \/ (faults < MaxFaults /\ faults' = faults + 1)
      /\ heartbeats' \subseteq heartbeats
  BY DEF LeaseExpires, HeartbeatCommit, runnerVars
<1>2. TypeOK'
  <2>1. lease' \in [Runs -> {"none", "live", "expired"}]
    BY DEF LeaseExpires, HeartbeatCommit, RunInvariant, SystemTypeOK, TypeOK
  <2> QED
    BY <1>1, <2>1, FaultsStayBounded DEF RunInvariant, SystemTypeOK, TypeOK
<1>3. RunnerTypeOK'
  BY <1>1 DEF RunInvariant, SystemTypeOK, RunnerTypeOK
<1>4. RowsConsistent' /\ HostedConsistent'
  BY <1>1 DEF RunInvariant, RowsConsistent, RowConsistent, HostedConsistent, HoldsItsRun, RunOf
<1>5. ASSUME NEW a \in Agents, NEW q \in claim[a].requeued
      PROVE  q \in Expired'
  <2>1. q \in Expired
    BY DEF RunInvariant, ClaimsConsistent
  <2>2. lease'[q] = lease[q]
    <3>1. q \in Runs /\ lease[q] = "expired" /\ q \in Locked
            /\ lease \in [Runs -> {"none", "live", "expired"}]
      BY <2>1 DEF Expired, Locked, RunInvariant, SystemTypeOK, TypeOK
    <3>2. CASE LeaseExpires(r)
      BY <3>1, <3>2 DEF LeaseExpires
    <3>3. CASE \E k \in Runners : HeartbeatCommit(r, k)
      BY <3>1, <3>3 DEF HeartbeatCommit
    <3> QED
      BY <3>2, <3>3
  <2> QED
    BY <2>1, <2>2, <1>1 DEF Expired
<1>6. ClaimsConsistent'
  BY <1>1, <1>5 DEF RunInvariant, ClaimsConsistent
<1> QED
  BY <1>2, <1>3, <1>4, <1>6, ExecutorTypesStay DEF RunInvariant, SystemTypeOK

(* A completion concludes the run if its runner still has it.                *)
LEMMA CompleteCommitKeepsInvariant ==
  ASSUME RunInvariant, UNCHANGED executor, NEW c \in completions, CompleteCommit(c)
  PROVE  RunInvariant'
<1>1. /\ TypeOK /\ RunnerTypeOK /\ c.run \in Runs /\ c.runner \in Runners
      /\ c.runner # NoRunner /\ c.run \notin Locked
  BY NullAssumption DEF RunInvariant, SystemTypeOK, RunnerTypeOK, Completions, CompleteCommit
<1>2. /\ UNCHANGED <<policy, workflows, inserted, attr, assigned, inserting, verification,
                     faults, runnerStatus, claim, heartbeats>>
      /\ \A q \in Runs : q # c.run => status'[q] = status[q] /\ lease'[q] = lease[q]
      /\ assigned[c.run] # c.runner => status' = status /\ lease' = lease
      /\ assigned[c.run] = c.runner => status'[c.run] = "completed"
  <2>1. CASE assigned[c.run] = c.runner
    <3>1. /\ status' = [status EXCEPT ![c.run] = "completed"]
          /\ lease' = [lease EXCEPT ![c.run] = "none"]
      BY <2>1 DEF CompleteCommit, Conclude
    <3> QED
      BY <3>1, <2>1, <1>1 DEF CompleteCommit, TypeOK
  <2>2. CASE assigned[c.run] # c.runner
    <3>1. status' = status /\ lease' = lease
      BY <2>2 DEF CompleteCommit
    <3> QED
      BY <3>1, <2>2 DEF CompleteCommit
  <2> QED
    BY <2>1, <2>2
<1>3. TypeOK'
  <2>1. check' \in [Runs -> [Steps -> CheckStates]]
    BY <1>1 DEF CompleteCommit, TypeOK, CheckStates, Completions, RunnerTypeOK, Results
  <2>2. /\ status' \in [Runs -> {"absent", "queued", "running", "completed"}]
        /\ conclusion' \in [Runs -> {"none", "success", "failure"}]
        /\ lease' \in [Runs -> {"none", "live", "expired"}]
    <3>1. CASE assigned[c.run] = c.runner
      <4>1. /\ status' = [status EXCEPT ![c.run] = "completed"]
            /\ lease' = [lease EXCEPT ![c.run] = "none"]
            /\ conclusion' = [conclusion EXCEPT ![c.run] =
                               Bool(\A s \in Steps : c.results[s] = "success")]
        BY <3>1 DEF CompleteCommit, Conclude
      <4> QED
        BY <4>1, <1>1 DEF TypeOK, Bool
    <3>2. CASE assigned[c.run] # c.runner
      BY <3>2, <1>1 DEF CompleteCommit, TypeOK
    <3> QED
      BY <3>1, <3>2
  <2> QED
    BY <1>1, <1>2, <2>1, <2>2 DEF TypeOK
<1>4. RunnerTypeOK'
  <2>1. agent' \in [Agents -> AgentStates]
    BY <1>1 DEF CompleteCommit, RunnerTypeOK, AgentStates
  <2> QED
    BY <1>1, <1>2, <2>1 DEF CompleteCommit, RunnerTypeOK
<1>5. assigned[c.run] = c.runner => status[c.run] \in {"running", "completed"}
  BY <1>1 DEF RunInvariant, RowsConsistent, RowConsistent
<1>6. RowsConsistent'
  <2>1. SUFFICES ASSUME NEW q \in Runs PROVE RowConsistent(q)'
    BY DEF RowsConsistent
  <2>2. \/ status'[q] = status[q]
        \/ status'[q] = "completed" /\ status[q] \in {"running", "completed"}
    <3>1. CASE q = c.run
      BY <3>1, <1>2, <1>5
    <3>2. CASE q # c.run
      BY <3>2, <1>2
    <3> QED
      BY <3>1, <3>2
  <2> QED
    BY <2>2, <1>2 DEF RunInvariant, RowsConsistent, RowConsistent
<1>7. ASSUME NEW a \in Agents, NEW q \in claim[a].requeued
      PROVE  q \in Expired'
  <2>1. q \in Expired /\ q # c.run
    BY <1>1 DEF RunInvariant, ClaimsConsistent, Locked
  <2> QED
    BY <2>1, <1>2 DEF Expired
<1>8. ClaimsConsistent'
  BY <1>2, <1>7 DEF RunInvariant, ClaimsConsistent
<1>9. HostedConsistent'
  <2>1. ASSUME NEW e \in Executors, executor[e].phase # "idle"
        PROVE  status'[RunOf(e)] = status[RunOf(e)]
    BY <2>1, <1>1, <1>2 DEF RunInvariant, HostedConsistent, HoldsItsRun
  <2> QED
    BY <2>1, <1>2 DEF RunInvariant, HostedConsistent, HoldsItsRun, RunOf
<1> QED
  BY <1>3, <1>4, <1>6, <1>8, <1>9, ExecutorTypesStay DEF RunInvariant, SystemTypeOK

LEMMA RunnersKeepInvariant ==
  ASSUME RunInvariant, RunnerNext, UNCHANGED executor
  PROVE  RunInvariant'
<1>1. CASE \E a \in Agents : \/ AgentWork(a)
                             \/ \E r \in Runs : ClaimCommit(a, r, FALSE)
                             \/ HeartbeatCheck(a)
                             \/ AgentCrash(a)
  BY <1>1, ClaimBeginKeepsInvariant, ClaimCommitKeepsInvariant, ClaimRollbackKeepsInvariant,
     AgentStepKeepsInvariant DEF AgentWork
<1>2. CASE \E r \in Runs : HeartbeatWork(r) \/ LeaseExpires(r)
  BY <1>2, LeaseStepKeepsInvariant DEF HeartbeatWork
<1>3. CASE \E r \in Runs : CompletionWork(r)
  BY <1>3, CompleteCommitKeepsInvariant DEF CompletionWork
<1>4. CASE \E k \in Runners, s \in {"active", "disabled", "revoked"} : SetRunnerStatus(k, s)
  BY <1>4, SetRunnerStatusKeepsInvariant
<1> QED
  BY <1>1, <1>2, <1>3, <1>4 DEF RunnerNext

-----------------------------------------------------------------------------
(* The theorems.                                                             *)

LEMMA InitInvariant == SystemInit => RunInvariant
<1> SUFFICES ASSUME SystemInit PROVE RunInvariant
  OBVIOUS
<1>1. TypeOK
  <2>1. NoRow \in Attributes
    <3>1. [s \in Steps |-> s] \in Orders
      BY DEF Orders
    <3> QED
      BY <3>1, SizeAssumption DEF NoRow, Attributes, Targets, Triggers
  <2> QED
    BY <2>1, SizeAssumption DEF SystemInit, Init, TypeOK, Targets, CheckStates
<1>2. ExecutorTypeOK
  BY IdleType DEF SystemInit, ExecutorInit, ExecutorTypeOK
<1>3. RunnerTypeOK
  BY DEF SystemInit, RunnerInit, RunnerTypeOK, AgentStates, NoClaim
<1>4. RowsConsistent
  BY SizeAssumption DEF SystemInit, Init, RowsConsistent, RowConsistent, NoRow, Runs
<1>5. ClaimsConsistent
  BY DEF SystemInit, RunnerInit, ClaimsConsistent, NoClaim
<1>6. HostedConsistent
  BY DEF SystemInit, ExecutorInit, HostedConsistent, HoldsItsRun, RunOf, Idle
<1> QED
  BY <1>1, <1>2, <1>3, <1>4, <1>5, <1>6 DEF RunInvariant, SystemTypeOK

LEMMA NextInvariant == RunInvariant /\ [Next]_vars => RunInvariant'
<1> SUFFICES ASSUME RunInvariant, [Next]_vars PROVE RunInvariant'
  OBVIOUS
<1>1. CASE TableNext /\ UNCHANGED <<executor, runnerVars>>
  BY <1>1, TableKeepsInvariant
<1>2. CASE ExecutorNext /\ UNCHANGED runnerVars
  BY <1>2, ExecutorKeepsInvariant
<1>3. CASE RunnerNext /\ UNCHANGED executor
  BY <1>3, RunnersKeepInvariant
<1>4. CASE UNCHANGED vars
  <2>1. SystemTypeOK'
    BY <1>4 DEF RunInvariant, SystemTypeOK, TypeOK, ExecutorTypeOK, RunnerTypeOK, vars,
       tableVars, runnerVars
  <2> QED
    BY <1>4, <2>1, FrameKeepsInvariant DEF vars, tableVars, runnerVars
<1> QED
  BY <1>1, <1>2, <1>3, <1>4 DEF Next

(* The inductive invariant holds of every behaviour of the Actions subsystem. *)
THEOREM RunInvariantHolds == Spec => []RunInvariant
<1>1. SystemInit => RunInvariant
  BY InitInvariant
<1>2. RunInvariant /\ [Next]_vars => RunInvariant'
  BY NextInvariant
<1> QED
  BY <1>1, <1>2, PTL DEF Spec

(* Every column and every process variable only ever holds values the schema *)
(* and the programs allow.                                                   *)
THEOREM TypesHold == Spec => []SystemTypeOK
<1>1. RunInvariant => SystemTypeOK
  BY DEF RunInvariant
<1> QED
  BY <1>1, RunInvariantHolds, PTL

(* While a hosted executor works on a run, nobody else has it: neither        *)
(* another executor (claim by "for update skip locked") nor a private runner. *)
THEOREM HostedExecutorsHoldAlone == Spec => []HostedHoldsAlone
<1>1. RunInvariant => HostedHoldsAlone
  BY DEF RunInvariant, HostedConsistent, HoldsItsRun, AtWork, HostedHoldsAlone
<1> QED
  BY <1>1, RunInvariantHolds, PTL

(* A run whose policy says private is never worked on by a hosted executor,  *)
(* whatever happens to the policy while it is queued.                        *)
THEOREM PrivateRunsAreNeverHosted == Spec => []PrivateRunsStayPrivate
<1>1. RunInvariant => PrivateRunsStayPrivate
  BY DEF RunInvariant, HostedConsistent, HoldsItsRun, RowsConsistent, RowConsistent,
     PrivateRunsStayPrivate
<1> QED
  BY <1>1, RunInvariantHolds, PTL

(* Only a runner the run's policy admits, with every label it asks for, is   *)
(* ever assigned a run.                                                      *)
THEOREM LeasesRespectPolicy == Spec => []LeasedWithinPolicy
<1>1. RunInvariant => LeasedWithinPolicy
  BY DEF RunInvariant, RowsConsistent, RowConsistent, LeasedWithinPolicy
<1> QED
  BY <1>1, RunInvariantHolds, PTL

-----------------------------------------------------------------------------
(* The refinement: every step moves every run along the lifecycle.           *)

StageMoves(r) == Stage(r)' = Stage(r) \/ Lifecycle!Move(Stage(r), Stage(r)')

LEMMA StageType ==
  ASSUME TypeOK', NEW r \in Runs
  PROVE  Stage(r)' \in Lifecycle!Stages
BY DEF TypeOK, Stage, Lifecycle!Stages, Lifecycle!Plain, Lifecycle!Leased, Lifecycle!Lapsed

LEMMA StageStays ==
  ASSUME NEW r \in Runs, status'[r] = status[r], assigned'[r] = assigned[r],
         lease'[r] = lease[r]
  PROVE  StageMoves(r)
BY DEF StageMoves, Stage

(* The moves of one run, by what happens to its columns.                     *)
LEMMA StageSteps ==
  ASSUME RunInvariant, NEW r \in Runs,
         \/ /\ status[r] = "absent" /\ status'[r] = "queued"
         \/ /\ status[r] = "queued" /\ status'[r] = "completed"
         \/ /\ status[r] = "queued" /\ status'[r] = "running" /\ assigned'[r] = NoRunner
         \/ /\ status[r] \in {"running", "completed"} /\ status'[r] = "completed"
         \/ /\ status[r] = "running" /\ assigned[r] # NoRunner /\ lease[r] = "expired"
            /\ status'[r] = "queued"
         \/ /\ \/ status[r] = "queued"
               \/ status[r] = "running" /\ assigned[r] # NoRunner /\ lease[r] = "expired"
            /\ status'[r] = "running" /\ assigned'[r] \in Runners /\ lease'[r] = "live"
         \/ /\ status'[r] = status[r] /\ assigned'[r] = assigned[r]
            /\ lease'[r] = "live" \/ (lease[r] = "live" /\ lease'[r] = "expired")
  PROVE  StageMoves(r)
<1>1. assigned[r] \in Runners \cup {NoRunner} /\ NoRunner \notin Runners
  BY NullAssumption DEF RunInvariant, SystemTypeOK, TypeOK
<1> QED
  BY <1>1 DEF StageMoves, Stage, Lifecycle!Move, Lifecycle!Plain, Lifecycle!Leased,
     Lifecycle!Lapsed

LEMMA AppendMoves ==
  ASSUME RunInvariant, RowsAppended, UNCHANGED <<assigned, lease>>, NEW r \in Runs
  PROVE  StageMoves(r)
<1>1. inserted \in Nat /\ inserted' \in Nat /\ r \in Nat
  BY SizeAssumption DEF RunInvariant, SystemTypeOK, TypeOK, RowsAppended, Runs
<1>2. CASE inserted < r /\ r <= inserted'
  BY <1>2, StageSteps DEF RunInvariant, RowsConsistent, RowConsistent, RowsAppended
<1>3. CASE r <= inserted \/ inserted' < r
  BY <1>3, StageStays DEF RowsAppended
<1> QED
  BY <1>1, <1>2, <1>3

LEMMA TableMoves ==
  ASSUME RunInvariant, TableNext, NEW r \in Runs
  PROVE  StageMoves(r)
<1>1. CASE \E t \in {"sessions.push", "commit"} : EnqueueNative(t)
  <2>1. PICK t \in {"sessions.push", "commit"} :
          InsertNative(NativeRow(t, NoPR, TRUE), Steps, {}) /\ UNCHANGED <<assigned, lease>>
    BY <1>1 DEF EnqueueNative
  <2>2. t \in Triggers /\ NoPR \in PRs \cup {NoPR} /\ {} \in SUBSET Steps
    BY DEF Triggers
  <2> QED
    BY <2>1, <2>2, InsertNativeAppends, AppendMoves
<1>2. CASE \E p \in PRs : OpenPullRequest(p)
  <2>1. PICK p \in PRs : InsertNative(NativeRow("pull_request", p, TRUE), Steps, {})
                          /\ UNCHANGED <<assigned, lease>>
    BY <1>2 DEF OpenPullRequest
  <2>2. "pull_request" \in Triggers /\ p \in PRs \cup {NoPR} /\ {} \in SUBSET Steps
    BY DEF Triggers
  <2> QED
    BY <2>1, <2>2, InsertNativeAppends, AppendMoves
<1>3. CASE \E t \in Triggers, p \in PRs \cup {NoPR}, c \in BOOLEAN, n \in 0..NumSteps :
             RequestAction(t, p, c, 1..n)
  <2>1. PICK t \in Triggers, p \in PRs \cup {NoPR}, c \in BOOLEAN, n \in 0..NumSteps :
          RequestAction(t, p, c, 1..n)
    BY <1>3
  <2>2. 1..n \in SUBSET Steps
    BY SizeAssumption DEF Steps
  <2>3. RowsAppended
    BY <2>1, <2>2, InsertNativeAppends DEF RequestAction, Triggers
  <2> QED
    BY <2>1, <2>3, AppendMoves DEF RequestAction
<1>4. CASE \E p \in PRs \cup {NoPR} : RunWorkflow(p)
  <2>1. PICK p \in PRs \cup {NoPR} : RunWorkflow(p)
    BY <1>4
  <2> QED
    BY <2>1, RunWorkflowAppends, AppendMoves DEF RunWorkflow
<1>5. CASE \/ Administer
           \/ \E q \in Runs : InsertCheck(q)
  BY <1>5, StageStays DEF Administer, SetRunnerPolicy, SetWorkflow, InsertCheck
<1>6. CASE \E q \in Runs : RunActionOnce(q)
  <2>1. PICK q \in Runs : RunActionOnce(q)
    BY <1>6
  <2>2. /\ status[q] = "queued" /\ status' = [status EXCEPT ![q] = "completed"]
        /\ UNCHANGED <<assigned, lease>>
        /\ TypeOK
    BY <2>1 DEF RunActionOnce, Oldest, NativeQueue, NativeExecute, NativeReject, Conclude,
       RunInvariant, SystemTypeOK
  <2>3. CASE r = q
    BY <2>2, <2>3, StageSteps DEF TypeOK
  <2>4. CASE r # q
    BY <2>2, <2>4, StageStays DEF TypeOK
  <2> QED
    BY <2>3, <2>4
<1> QED
  BY <1>1, <1>2, <1>3, <1>4, <1>5, <1>6 DEF TableNext, Enqueue

LEMMA ExecutorMoves ==
  ASSUME RunInvariant, ExecutorNext, NEW r \in Runs
  PROVE  StageMoves(r)
<1>1. PICK e \in Executors : HostedWork(e) \/ HostedError(e) \/ HostedCrash(e)
  BY DEF ExecutorNext
<1>2. TypeOK
  BY DEF RunInvariant, SystemTypeOK
<1>3. CASE \E q \in Runs : HostedClaim(e, q)
  <2>1. PICK q \in Runs : HostedClaim(e, q)
    BY <1>3
  <2>2. /\ status[q] = "queued" /\ status' = [status EXCEPT ![q] = "running"]
        /\ UNCHANGED <<assigned, lease>>
    BY <2>1 DEF HostedClaim, Oldest, HostedQueue
  <2>3. assigned[q] = NoRunner
    BY <2>2 DEF RunInvariant, RowsConsistent, RowConsistent
  <2>4. CASE r = q
    BY <2>2, <2>3, <2>4, <1>2, StageSteps DEF TypeOK
  <2>5. CASE r # q
    BY <2>2, <2>5, <1>2, StageStays DEF TypeOK
  <2> QED
    BY <2>4, <2>5
<1>4. CASE HostedComplete(e) \/ HostedFailRun(e)
  <2>1. /\ executor[e].phase # "idle"
        /\ status' = [status EXCEPT ![RunOf(e)] = "completed"]
        /\ UNCHANGED <<assigned, lease>>
    BY <1>4 DEF HostedComplete, HostedFailRun, Conclude
  <2>2. RunOf(e) \in Runs /\ status[RunOf(e)] \in {"running", "completed"}
    BY <2>1 DEF RunInvariant, HostedConsistent, HoldsItsRun
  <2>3. CASE r = RunOf(e)
    BY <2>1, <2>2, <2>3, <1>2, StageSteps DEF TypeOK
  <2>4. CASE r # RunOf(e)
    BY <2>1, <2>4, <1>2, StageStays DEF TypeOK
  <2> QED
    BY <2>3, <2>4
<1>5. CASE UNCHANGED <<status, assigned, lease>>
  BY <1>5, StageStays
<1> QED
  BY <1>1, <1>3, <1>4, <1>5
     DEF HostedWork, HostedReconstruct, HostedSkipCheck, HostedStartCheck, HostedFinishCheck,
         HostedCleanup, HostedFailChecks, HostedError, HostedCrash, tableVars

LEMMA RunnerMoves ==
  ASSUME RunInvariant, RunnerNext, NEW r \in Runs
  PROVE  StageMoves(r)
<1>1. TypeOK /\ RunnerTypeOK
  BY DEF RunInvariant, SystemTypeOK
<1>2. CASE \E a \in Agents, q \in Runs, delivered \in BOOLEAN : ClaimCommit(a, q, delivered)
  <2>1. PICK a \in Agents, q \in Runs, delivered \in BOOLEAN : ClaimCommit(a, q, delivered)
    BY <1>2
  <2>2. /\ claim[a].requeued \subseteq Expired /\ RunnerOf[a] \in Runners
        /\ status[q] = "queued" \/ q \in claim[a].requeued
    BY <2>1, RunnerAssumption
       DEF ClaimCommit, Oldest, Claimable, RunInvariant, ClaimsConsistent
  <2>3. CASE r = q
    <3>1. status'[r] = "running" /\ assigned'[r] = RunnerOf[a] /\ lease'[r] = "live"
      BY <2>1, <2>3 DEF ClaimCommit
    <3> QED
      BY <2>2, <2>3, <3>1, StageSteps DEF Expired
  <2>4. CASE r # q /\ r \in claim[a].requeued
    <3>1. status'[r] = "queued"
      BY <2>1, <2>4 DEF ClaimCommit
    <3> QED
      BY <2>2, <2>4, <3>1, StageSteps DEF Expired
  <2>5. CASE r # q /\ r \notin claim[a].requeued
    BY <2>1, <2>5, StageStays DEF ClaimCommit
  <2> QED
    BY <2>3, <2>4, <2>5
<1>3. CASE \E q \in Runs, k \in Runners : HeartbeatCommit(q, k)
  <2>1. PICK q \in Runs, k \in Runners : HeartbeatCommit(q, k)
    BY <1>3
  <2>2. /\ lease' = [lease EXCEPT ![q] = IF assigned[q] = k THEN "live" ELSE @]
        /\ UNCHANGED <<status, assigned>>
    BY <2>1 DEF HeartbeatCommit
  <2>3. CASE r = q /\ assigned[q] = k
    BY <2>2, <2>3, <1>1, StageSteps DEF TypeOK
  <2>4. CASE r # q \/ assigned[q] # k
    BY <2>2, <2>4, <1>1, StageStays DEF TypeOK
  <2> QED
    BY <2>3, <2>4
<1>4. CASE \E q \in Runs : LeaseExpires(q)
  <2>1. PICK q \in Runs : LeaseExpires(q)
    BY <1>4
  <2>2. /\ lease[q] = "live" /\ lease' = [lease EXCEPT ![q] = "expired"]
        /\ UNCHANGED <<status, assigned>>
    BY <2>1 DEF LeaseExpires
  <2>3. CASE r = q
    BY <2>2, <2>3, <1>1, StageSteps DEF TypeOK
  <2>4. CASE r # q
    BY <2>2, <2>4, <1>1, StageStays DEF TypeOK
  <2> QED
    BY <2>3, <2>4
<1>5. CASE \E c \in completions : CompleteCommit(c)
  <2>1. PICK c \in completions : CompleteCommit(c)
    BY <1>5
  <2>2. c.run \in Runs /\ c.runner \in Runners /\ c.runner # NoRunner
    BY <1>1, NullAssumption DEF RunnerTypeOK, Completions
  <2>3. CASE assigned[c.run] = c.runner
    <3>1. /\ status' = [status EXCEPT ![c.run] = "completed"]
          /\ lease' = [lease EXCEPT ![c.run] = "none"]
          /\ assigned' = assigned
      BY <2>1, <2>3 DEF CompleteCommit, Conclude
    <3>2. status[c.run] \in {"running", "completed"}
      BY <2>2, <2>3 DEF RunInvariant, RowsConsistent, RowConsistent
    <3>3. CASE r = c.run
      BY <3>1, <3>2, <3>3, <1>1, StageSteps DEF TypeOK
    <3>4. CASE r # c.run
      BY <3>1, <3>4, <1>1, StageStays DEF TypeOK
    <3> QED
      BY <3>3, <3>4
  <2>4. CASE assigned[c.run] # c.runner
    BY <2>1, <2>4, StageStays DEF CompleteCommit
  <2> QED
    BY <2>3, <2>4
<1>6. CASE UNCHANGED <<status, assigned, lease>>
  BY <1>6, StageStays
<1> QED
  BY <1>2, <1>3, <1>4, <1>5, <1>6
     DEF RunnerNext, AgentWork, HeartbeatWork, CompletionWork, ClaimBegin, ClaimRollback,
         AgentReconstruct, HeartbeatCheck, CompleteCheck, AgentRefused, AgentCrash,
         SetRunnerStatus, tableVars

(* Every run goes through the lifecycle promised by RunLifecycle: a live      *)
(* lease is never taken away, and what is done is never executed again.      *)
THEOREM QueueImplementsLifecycle == Spec => RunsFollowLifecycle
<1> DEFINE stage == [r \in Runs |-> Stage(r)]
<1>1. SystemInit => Lifecycle!Init
  BY DEF SystemInit, Init, Lifecycle!Init, Lifecycle!Plain, Stage
<1>2. RunInvariant /\ RunInvariant' /\ [Next]_vars => [Lifecycle!Next]_stage
  <2> SUFFICES ASSUME RunInvariant, RunInvariant', [Next]_vars
               PROVE  [Lifecycle!Next]_stage
    OBVIOUS
  <2>1. ASSUME NEW r \in Runs PROVE StageMoves(r)
    BY TableMoves, ExecutorMoves, RunnerMoves, StageStays DEF Next, vars, tableVars
  <2>2. ASSUME NEW r \in Runs PROVE Stage(r)' \in Lifecycle!Stages
    BY StageType DEF RunInvariant, SystemTypeOK
  <2> QED
    BY <2>1, <2>2 DEF StageMoves, Lifecycle!Next
<1> QED
  BY <1>1, <1>2, RunInvariantHolds, PTL DEF Spec, RunsFollowLifecycle, Lifecycle!Spec

-----------------------------------------------------------------------------
(* What a step of each part does to the rows others rely on.                 *)

(* A row that has come to its end, and what else a step may leave of it.      *)
RowKept(r) ==
  /\ status'[r] = status[r] /\ assigned'[r] = assigned[r]
  /\ conclusion'[r] = conclusion[r] /\ attr'[r] = attr[r]

LEMMA AppendedRows ==
  ASSUME RunInvariant, RowsAppended, NEW r \in Runs
  PROVE  /\ status[r] # "absent" => status'[r] = status[r] /\ attr'[r] = attr[r]
         /\ status'[r] = "running" => status[r] = "running"
<1>1. inserted \in Nat /\ inserted' \in Nat /\ r \in Nat
  BY SizeAssumption DEF RunInvariant, SystemTypeOK, TypeOK, RowsAppended, Runs
<1>2. status[r] = "absent" <=> inserted < r
  BY DEF RunInvariant, RowsConsistent, RowConsistent
<1>3. CASE inserted < r /\ r <= inserted'
  BY <1>2, <1>3 DEF RowsAppended
<1>4. CASE r <= inserted \/ inserted' < r
  BY <1>4 DEF RowsAppended
<1> QED
  BY <1>1, <1>3, <1>4

LEMMA EnqueueRows ==
  ASSUME RunInvariant, Enqueue
  PROVE  /\ RowsAppended /\ UNCHANGED <<assigned, lease, conclusion>>
         /\ \A p \in PRs : verification'[p] # verification[p] => verification'[p] = "pending"
<1>1. CASE \E t \in {"sessions.push", "commit"} : EnqueueNative(t)
  <2>1. PICK t \in {"sessions.push", "commit"} : EnqueueNative(t)
    BY <1>1
  <2>2. t \in Triggers /\ NoPR \in PRs \cup {NoPR} /\ {} \in SUBSET Steps
    BY DEF Triggers
  <2> QED
    BY <2>1, <2>2, InsertNativeAppends DEF EnqueueNative
<1>2. CASE \E p \in PRs : OpenPullRequest(p)
  <2>1. PICK p \in PRs : OpenPullRequest(p)
    BY <1>2
  <2>2. "pull_request" \in Triggers /\ p \in PRs \cup {NoPR} /\ {} \in SUBSET Steps
    BY DEF Triggers
  <2>3. \A o \in PRs : verification'[o] # verification[o] => verification'[o] = "pending"
    BY <2>1 DEF OpenPullRequest, RunInvariant, SystemTypeOK, TypeOK
  <2> QED
    BY <2>1, <2>2, <2>3, InsertNativeAppends DEF OpenPullRequest
<1>3. CASE \E t \in Triggers, p \in PRs \cup {NoPR}, c \in BOOLEAN, n \in 0..NumSteps :
             RequestAction(t, p, c, 1..n)
  <2>1. PICK t \in Triggers, p \in PRs \cup {NoPR}, c \in BOOLEAN, n \in 0..NumSteps :
          RequestAction(t, p, c, 1..n)
    BY <1>3
  <2>2. 1..n \in SUBSET Steps
    BY SizeAssumption DEF Steps
  <2>3. RowsAppended
    BY <2>1, <2>2, InsertNativeAppends DEF RequestAction, Triggers
  <2> QED
    BY <2>1, <2>3 DEF RequestAction
<1>4. CASE \E p \in PRs \cup {NoPR} : RunWorkflow(p)
  BY <1>4, RunWorkflowAppends DEF RunWorkflow
<1> QED
  BY <1>1, <1>2, <1>3, <1>4 DEF Enqueue

(* A step of the queue other than the native runner's.                       *)
LEMMA QueueRows ==
  ASSUME RunInvariant, Enqueue \/ Administer \/ \E r \in Runs : InsertCheck(r)
  PROVE  /\ UNCHANGED <<assigned, lease>>
         /\ \A p \in PRs : verification'[p] # verification[p] => verification'[p] = "pending"
         /\ \A r \in Runs : /\ status'[r] = "running" => status[r] = "running"
                            /\ status[r] = "completed" => RowKept(r)
<1>1. CASE Enqueue
  BY <1>1, EnqueueRows, AppendedRows DEF RowKept
<1>2. CASE Administer \/ \E r \in Runs : InsertCheck(r)
  BY <1>2 DEF Administer, SetRunnerPolicy, SetWorkflow, InsertCheck, RowKept
<1> QED
  BY <1>1, <1>2

LEMMA NativeRows ==
  ASSUME RunInvariant, NEW r \in Runs, RunActionOnce(r)
  PROVE  /\ UNCHANGED <<attr, assigned, lease>>
         /\ status[r] = "queued" /\ status'[r] = "completed"
         /\ \A q \in Runs \ {r} : RowKept(q)
         /\ \A p \in PRs : p # attr[r].pr => verification'[p] = verification[p]
         /\ attr[r].pr \in PRs =>
              /\ verification'[attr[r].pr] \in {"passed", "failed"}
              /\ verification'[attr[r].pr] = "passed" => conclusion'[r] = "success"
              /\ verification'[attr[r].pr] = "failed" => conclusion'[r] = "failure"
<1>1. TypeOK /\ status[r] = "queued" /\ UNCHANGED <<attr, assigned, lease>>
  BY DEF RunActionOnce, Oldest, NativeQueue, RunInvariant, SystemTypeOK
<1>2. PICK success \in BOOLEAN : Conclude(r, success) /\ VerifyPullRequest(r, success)
  <2>1. CASE NativeReject(r)
    BY <2>1 DEF NativeReject
  <2>2. CASE \E verdict \in Verdicts(r) : NativeExecute(r, verdict)
    <3>1. PICK verdict \in Verdicts(r) : NativeExecute(r, verdict)
      BY <2>2
    <3> DEFINE success == \A s \in Present(r) : verdict[s] = "success"
    <3>2. success \in BOOLEAN /\ Conclude(r, success) /\ VerifyPullRequest(r, success)
      BY <3>1 DEF NativeExecute
    <3> QED
      BY <3>2
  <2> QED
    BY <2>1, <2>2 DEF RunActionOnce
<1>3. /\ status'[r] = "completed" /\ conclusion'[r] = Bool(success)
      /\ \A q \in Runs \ {r} : status'[q] = status[q] /\ conclusion'[q] = conclusion[q]
  BY <1>1, <1>2 DEF Conclude, TypeOK
<1>4. \A p \in PRs : verification'[p] = IF p # attr[r].pr THEN verification[p]
                                        ELSE IF success THEN "passed" ELSE "failed"
  BY <1>2 DEF VerifyPullRequest
<1> QED
  BY <1>1, <1>3, <1>4 DEF RowKept, Bool

(* An executor touches its own run, and takes none but a queued one.          *)
LEMMA ExecutorRows ==
  ASSUME RunInvariant, ExecutorNext
  PROVE  /\ UNCHANGED <<attr, assigned, lease, verification>>
         /\ \A r \in Runs :
              /\ status'[r] = "running" => status[r] = "running" \/ assigned[r] = NoRunner
              /\ status[r] = "completed" /\ (\A e \in Executors : RunOf(e) # r) =>
                   RowKept(r) /\ \A e \in Executors : RunOf(e)' # r
<1>1. PICK e \in Executors : HostedWork(e) \/ HostedError(e) \/ HostedCrash(e)
  BY DEF ExecutorNext
<1>2. TypeOK /\ executor \in [Executors -> ExecutorStates] /\ \A r \in Runs : r # 0
  BY SizeAssumption DEF RunInvariant, SystemTypeOK, ExecutorTypeOK, Runs
<1>3. CASE \E q \in Runs : HostedClaim(e, q)
  <2>1. PICK q \in Runs : HostedClaim(e, q)
    BY <1>3
  <2>2. /\ status[q] = "queued" /\ status' = [status EXCEPT ![q] = "running"]
        /\ UNCHANGED <<attr, assigned, lease, conclusion, verification>>
        /\ \A f \in Executors : RunOf(f)' = RunOf(f) \/ RunOf(f)' = q
    BY <2>1, <1>2 DEF HostedClaim, Oldest, HostedQueue, RunOf
  <2>3. assigned[q] = NoRunner
    BY <2>2 DEF RunInvariant, RowsConsistent, RowConsistent
  <2> QED
    BY <2>2, <2>3, <1>2 DEF TypeOK, RowKept
<1>4. CASE HostedComplete(e) \/ HostedFailRun(e)
  <2>1. PICK verdict \in BOOLEAN : Conclude(RunOf(e), verdict)
    <3>1. (~executor[e].broken) \in BOOLEAN
      OBVIOUS
    <3> QED
      BY <1>4, <3>1 DEF HostedComplete, HostedFailRun
  <2>2. /\ UNCHANGED <<attr, assigned, lease, verification>>
        /\ executor[e].phase # "idle"
        /\ \A f \in Executors : RunOf(f)' = RunOf(f) \/ RunOf(f)' = 0
    <3>1. CASE HostedComplete(e)
      BY <3>1, <1>2 DEF HostedComplete, RunOf, ExecutorStates
    <3>2. CASE HostedFailRun(e)
      <4>1. UNCHANGED <<attr, assigned, lease, verification>> /\ executor[e].phase # "idle"
            /\ executor' = [executor EXCEPT ![e] = Idle]
        BY <3>2 DEF HostedFailRun
      <4> QED
        BY <4>1, <1>2 DEF RunOf, Idle
    <3> QED
      BY <1>4, <3>1, <3>2
  <2>3. RunOf(e) \in Runs /\ assigned[RunOf(e)] = NoRunner
    BY <2>2 DEF RunInvariant, HostedConsistent, HoldsItsRun
  <2>4. \A q \in Runs : q # RunOf(e) => RowKept(q)
    BY <2>1, <2>2, <1>2 DEF Conclude, TypeOK, RowKept
  <2> QED
    BY <2>2, <2>3, <2>4, <1>2 DEF RowKept
<1>5. CASE /\ UNCHANGED <<attr, status, conclusion, assigned, lease, verification>>
           /\ \A f \in Executors : RunOf(f)' = RunOf(f) \/ RunOf(f)' = 0
  BY <1>5, <1>2 DEF RowKept
<1>6. CASE \/ HostedReconstruct(e) \/ HostedSkipCheck(e) \/ HostedStartCheck(e)
           \/ (\E success \in Outcomes : HostedFinishCheck(e, success))
           \/ HostedCleanup(e) \/ HostedFailChecks(e) \/ HostedError(e) \/ HostedCrash(e)
  <2>1. UNCHANGED <<attr, status, conclusion, assigned, lease, verification>>
    BY <1>6 DEF HostedReconstruct, HostedSkipCheck, HostedStartCheck, HostedFinishCheck,
         HostedCleanup, HostedFailChecks, HostedError, HostedCrash, tableVars
  <2>2. \A f \in Executors : RunOf(f)' = RunOf(f) \/ RunOf(f)' = 0
    BY <1>6, <1>2 DEF HostedReconstruct, HostedSkipCheck, HostedStartCheck, HostedFinishCheck,
         HostedCleanup, HostedFailChecks, HostedError, HostedCrash, RunOf, Idle, ExecutorStates
  <2> QED
    BY <2>1, <2>2, <1>5
<1> QED
  BY <1>1, <1>3, <1>4, <1>6 DEF HostedWork

(* A private runner touches what is assigned to it or has run out.            *)
LEMMA RunnerRows ==
  ASSUME RunInvariant, RunnerNext,
         \A a \in Agents, r \in Runs, delivered \in BOOLEAN : ~ClaimCommit(a, r, delivered)
  PROVE  /\ UNCHANGED <<attr, assigned, verification>>
         /\ \A r \in Runs :
              /\ status'[r] = "running" =>
                   status[r] = "running" /\ (lease'[r] = lease[r] \/ lease'[r] \in {"live", "expired"})
              /\ assigned[r] = NoRunner => RowKept(r)
<1>1. TypeOK /\ RunnerTypeOK
  BY DEF RunInvariant, SystemTypeOK
<1>2. CASE \E q \in Runs, k \in Runners : HeartbeatCommit(q, k)
  BY <1>1, <1>2 DEF HeartbeatCommit, TypeOK, RowKept
<1>3. CASE \E q \in Runs : LeaseExpires(q)
  BY <1>1, <1>3 DEF LeaseExpires, TypeOK, RowKept
<1>4. CASE \E c \in completions : CompleteCommit(c)
  <2>1. PICK c \in completions : CompleteCommit(c)
    BY <1>4
  <2>2. c.run \in Runs /\ c.runner \in Runners /\ c.runner # NoRunner
    BY <1>1, NullAssumption DEF RunnerTypeOK, Completions
  <2>3. CASE assigned[c.run] = c.runner
    <3> DEFINE success == \A s \in Steps : c.results[s] = "success"
    <3>1. UNCHANGED <<attr, assigned, verification>> /\ Conclude(c.run, success)
          /\ lease' = [lease EXCEPT ![c.run] = "none"]
      BY <2>1, <2>3 DEF CompleteCommit
    <3> HIDE DEF success
    <3>2. /\ UNCHANGED <<attr, assigned, verification>>
          /\ \A r \in Runs : r # c.run => RowKept(r) /\ lease'[r] = lease[r]
          /\ status'[c.run] = "completed"
      BY <2>2, <3>1, <1>1 DEF Conclude, TypeOK, RowKept
    <3> QED
      BY <2>2, <2>3, <3>2 DEF RowKept
  <2>4. CASE assigned[c.run] # c.runner
    BY <2>1, <2>4 DEF CompleteCommit, RowKept
  <2> QED
    BY <2>3, <2>4
<1>5. CASE UNCHANGED <<attr, status, conclusion, assigned, lease, verification>>
  BY <1>5 DEF RowKept
<1> QED
  BY <1>2, <1>3, <1>4, <1>5
     DEF RunnerNext, AgentWork, HeartbeatWork, CompletionWork, ClaimBegin, ClaimRollback,
         AgentReconstruct, HeartbeatCheck, CompleteCheck, AgentRefused, AgentCrash,
         SetRunnerStatus, tableVars

(* A claim changes only rows that are queued or whose lease has run out.      *)
LEMMA ClaimRows ==
  ASSUME RunInvariant, NEW a \in Agents, NEW r \in Runs, NEW delivered, ClaimCommit(a, r, delivered)
  PROVE  /\ UNCHANGED <<attr, verification>>
         /\ status'[r] = "running" /\ assigned'[r] = RunnerOf[a] /\ lease'[r] = "live"
         /\ \A q \in claim[a].requeued \ {r} : status'[q] = "queued" /\ assigned'[q] = NoRunner
         /\ \A q \in Runs : /\ q # r /\ q \notin claim[a].requeued => RowKept(q) /\ lease'[q] = lease[q]
                            /\ status[q] = "completed" => RowKept(q)
<1>1. /\ claim[a].requeued \subseteq Expired
      /\ status[r] = "queued" \/ r \in claim[a].requeued
  BY DEF ClaimCommit, Oldest, Claimable, RunInvariant, ClaimsConsistent
<1>2. \A q \in Expired : q \in Runs /\ status[q] = "running"
  BY DEF Expired
<1> QED
  BY <1>1, <1>2 DEF ClaimCommit, RowKept

-----------------------------------------------------------------------------
(* The evidence behind a pull request's verification.                        *)

(* A run that only the native runner has executed, and nobody works on.       *)
Settled(r) ==
  /\ status[r] = "completed" /\ assigned[r] = NoRunner
  /\ \A e \in Executors : RunOf(e) # r

Evidence(p, state, result) ==
  verification[p] = state =>
    \E r \in Runs : attr[r].pr = p /\ Settled(r) /\ conclusion[r] = result

EvidenceKept ==
  \A p \in PRs : Evidence(p, "passed", "success") /\ Evidence(p, "failed", "failure")

(* What is settled stays as it is: no executor, lease or late completion      *)
(* reaches it any more.                                                      *)
LEMMA SettledStays ==
  ASSUME RunInvariant, Next, NEW r \in Runs, Settled(r)
  PROVE  Settled(r)' /\ conclusion'[r] = conclusion[r] /\ attr'[r] = attr[r]
<1>1. CASE TableNext /\ UNCHANGED <<executor, runnerVars>>
  <2>1. RowKept(r)
    BY <1>1, QueueRows, NativeRows DEF TableNext, Settled
  <2> QED
    BY <1>1, <2>1 DEF RowKept, Settled, RunOf
<1>2. CASE ExecutorNext /\ UNCHANGED runnerVars
  BY <1>2, ExecutorRows DEF Settled, RowKept
<1>3. CASE RunnerNext /\ UNCHANGED executor
  <2>1. RowKept(r)
    <3>1. CASE \E a \in Agents, q \in Runs, delivered \in BOOLEAN : ClaimCommit(a, q, delivered)
      BY <3>1, ClaimRows DEF Settled
    <3> QED
      BY <1>3, <3>1, RunnerRows DEF Settled
  <2> QED
    BY <1>3, <2>1 DEF RowKept, Settled, RunOf
<1> QED
  BY <1>1, <1>2, <1>3 DEF Next

(* A verification changes only with its run, or back to pending.             *)
LEMMA VerificationStep ==
  ASSUME RunInvariant, Next, NEW p \in PRs,
         verification'[p] # verification[p], verification'[p] # "pending"
  PROVE  \E r \in Runs : /\ attr'[r].pr = p /\ Settled(r)'
                         /\ verification'[p] = "passed" => conclusion'[r] = "success"
                         /\ verification'[p] = "failed" => conclusion'[r] = "failure"
<1>1. TableNext /\ UNCHANGED <<executor, runnerVars>>
  BY ExecutorRows, RunnerRows, ClaimRows DEF Next
<1>2. PICK r \in Runs : RunActionOnce(r)
  BY <1>1, QueueRows DEF TableNext
<1>3. /\ attr[r].pr = p /\ attr' = attr /\ assigned' = assigned
      /\ status[r] = "queued" /\ status'[r] = "completed"
      /\ verification'[p] = "passed" => conclusion'[r] = "success"
      /\ verification'[p] = "failed" => conclusion'[r] = "failure"
  BY <1>2, NativeRows
<1>4. assigned[r] = NoRunner /\ r # 0 /\ \A e \in Executors : RunOf(e) # r
  BY <1>3, SizeAssumption DEF RunInvariant, RowsConsistent, RowConsistent, HostedConsistent, HoldsItsRun, Runs
<1>5. \A e \in Executors : RunOf(e)' = RunOf(e)
  BY <1>1 DEF RunOf
<1> QED
  BY <1>3, <1>4, <1>5 DEF Settled

LEMMA EvidenceStep == RunInvariant /\ EvidenceKept /\ [Next]_vars => EvidenceKept'
<1> SUFFICES ASSUME RunInvariant, EvidenceKept, [Next]_vars, NEW p \in PRs
             PROVE  Evidence(p, "passed", "success")' /\ Evidence(p, "failed", "failure")'
  BY DEF EvidenceKept
<1>1. CASE UNCHANGED vars
  BY <1>1 DEF EvidenceKept, Evidence, Settled, RunOf, vars, tableVars
<1>2. CASE Next /\ verification'[p] # verification[p]
  <2>1. CASE verification'[p] = "pending"
    BY <2>1 DEF Evidence
  <2>2. CASE verification'[p] # "pending"
    BY <1>2, <2>2, VerificationStep DEF Evidence
  <2> QED
    BY <2>1, <2>2
<1>3. CASE Next /\ verification'[p] = verification[p]
  <2>1. \A r \in Runs : Settled(r) =>
          Settled(r)' /\ conclusion'[r] = conclusion[r] /\ attr'[r] = attr[r]
    BY <1>3, SettledStays
  <2> QED
    BY <1>3, <2>1 DEF EvidenceKept, Evidence
<1> QED
  BY <1>1, <1>2, <1>3

(* A verdict on a pull request has a run of it that ended so: nobody changes  *)
(* the conclusion of the run the native runner has executed for it.          *)
THEOREM VerdictsHaveEvidence == Spec => []VerificationHasEvidence
<1>1. SystemInit => EvidenceKept
  BY DEF SystemInit, Init, EvidenceKept, Evidence
<1>2. EvidenceKept => VerificationHasEvidence
  BY DEF EvidenceKept, Evidence, VerificationHasEvidence
<1> QED
  BY <1>1, <1>2, EvidenceStep, RunInvariantHolds, PTL DEF Spec

-----------------------------------------------------------------------------
(* The concurrency of a runner.                                              *)

(* The runs a runner holds: its live leases, and those that a heartbeat under  *)
(* way can still revive.                                                     *)
Mine(k) == {r \in Runs : status[r] = "running" /\ assigned[r] = k}

(* A run that is assigned has a lease.                                       *)
LeasesPresent ==
  \A r \in Runs : status[r] = "running" /\ assigned[r] # NoRunner => lease[r] \in {"live", "expired"}

(* No runner holds more runs than it may, and the claim it has open leaves    *)
(* room for one more, when what the claim has requeued is taken off.         *)
SlotsKept ==
  /\ \A k \in Runners : Cardinality(Mine(k)) <= Concurrency
  /\ \A a \in Agents : claim[a].open =>
       Cardinality(Mine(RunnerOf[a]) \ claim[a].requeued) < Concurrency

LEMMA RunsFinite ==
  ASSUME NEW S \in SUBSET Runs
  PROVE  IsFiniteSet(S) /\ Cardinality(S) \in Nat
<1>1. IsFiniteSet(1..MaxRuns)
  BY SizeAssumption, FS_Interval
<1>2. IsFiniteSet(S)
  BY <1>1, FS_Subset DEF Runs
<1> QED
  BY <1>2, FS_CardinalityType

LEMMA FewerRuns ==
  ASSUME NEW T \in SUBSET Runs, NEW S \in SUBSET T
  PROVE  Cardinality(S) <= Cardinality(T)
BY RunsFinite, FS_Subset

LEMMA LeasesStep == RunInvariant /\ LeasesPresent /\ [Next]_vars => LeasesPresent'
<1> SUFFICES ASSUME RunInvariant, LeasesPresent, [Next]_vars,
                    NEW r \in Runs, status'[r] = "running", assigned'[r] # NoRunner
             PROVE  lease'[r] \in {"live", "expired"}
  BY DEF LeasesPresent
<1>1. CASE UNCHANGED vars
  BY <1>1 DEF LeasesPresent, vars, tableVars
<1>2. CASE TableNext
  BY <1>2, QueueRows, NativeRows DEF TableNext, LeasesPresent, RowKept
<1>3. CASE ExecutorNext
  BY <1>3, ExecutorRows DEF LeasesPresent
<1>4. CASE RunnerNext
  <2>1. CASE \E a \in Agents, q \in Runs, delivered \in BOOLEAN : ClaimCommit(a, q, delivered)
    BY <2>1, ClaimRows DEF LeasesPresent, RowKept
  <2>2. CASE ~ \E a \in Agents, q \in Runs, delivered \in BOOLEAN : ClaimCommit(a, q, delivered)
    BY <1>4, <2>2, RunnerRows DEF LeasesPresent
  <2> QED
    BY <2>1, <2>2
<1> QED
  BY <1>1, <1>2, <1>3, <1>4 DEF Next

(* Only a claim gives a runner a run it has not held.                         *)
LEMMA MineShrinks ==
  ASSUME RunInvariant, [Next]_vars, NEW k \in Runners,
         \A a \in Agents, r \in Runs, delivered \in BOOLEAN : ~ClaimCommit(a, r, delivered)
  PROVE  Mine(k)' \subseteq Mine(k)
<1> SUFFICES ASSUME NEW r \in Runs, status'[r] = "running", assigned'[r] = k
             PROVE  status[r] = "running" /\ assigned[r] = k
  BY DEF Mine
<1>1. CASE UNCHANGED vars
  BY <1>1 DEF vars, tableVars
<1>2. CASE TableNext
  BY <1>2, QueueRows, NativeRows DEF TableNext, RowKept
<1>3. CASE ExecutorNext
  BY <1>3, ExecutorRows, NullAssumption
<1>4. CASE RunnerNext
  BY <1>4, RunnerRows
<1> QED
  BY <1>1, <1>2, <1>3, <1>4 DEF Next

(* A step that neither opens nor commits a claim                              *)
LEMMA ClaimsFrame ==
  ASSUME RunInvariant, [Next]_vars, NEW a \in Agents,
         \A b \in Agents : ~ClaimBegin(b),
         \A b \in Agents, r \in Runs, delivered \in BOOLEAN : ~ClaimCommit(b, r, delivered),
         claim'[a].open
  PROVE  claim'[a] = claim[a]
<1>1. claim \in [Agents -> [open: BOOLEAN, requeued: SUBSET Runs]]
  BY DEF RunInvariant, SystemTypeOK, RunnerTypeOK
<1>2. CASE \E b \in Agents : ClaimRollback(b)
  BY <1>1, <1>2 DEF ClaimRollback, NoClaim
<1>3. CASE claim' = claim
  BY <1>3
<1> QED
  BY <1>2, <1>3
     DEF Next, vars, runnerVars, RunnerNext, AgentWork, HeartbeatWork, CompletionWork, AgentReconstruct,
         HeartbeatCheck, CompleteCheck, AgentRefused, AgentCrash, SetRunnerStatus, HeartbeatCommit,
         LeaseExpires, CompleteCommit

LEMMA SlotsStep ==
  ASSUME RunInvariant, LeasesPresent, SlotsKept, [Next]_vars,
         \A a, b \in Agents : RunnerOf[a] = RunnerOf[b] => a = b
  PROVE  SlotsKept'
<1>1. /\ claim \in [Agents -> [open: BOOLEAN, requeued: SUBSET Runs]]
      /\ \A a \in Agents : RunnerOf[a] \in Runners
      /\ Concurrency \in Nat
      /\ \A k \in Runners : Mine(k) \in SUBSET Runs
  BY RunnerAssumption DEF RunInvariant, SystemTypeOK, RunnerTypeOK, Mine
<1>2. CASE \E a \in Agents, r \in Runs, delivered \in BOOLEAN : ClaimCommit(a, r, delivered)
  <2>1. PICK a \in Agents, r \in Runs, delivered \in BOOLEAN : ClaimCommit(a, r, delivered)
    BY <1>2
  <2> DEFINE k == RunnerOf[a]
  <2>2. /\ claim[a].open /\ claim' = [claim EXCEPT ![a] = NoClaim]
    BY <2>1 DEF ClaimCommit
  <2>3. Mine(k)' \subseteq (Mine(k) \ claim[a].requeued) \cup {r}
    BY <2>1, ClaimRows, NullAssumption, <1>1 DEF Mine, RowKept
  <2>4. ASSUME NEW l \in Runners, l # k PROVE Mine(l)' \subseteq Mine(l)
    BY <2>1, <2>4, ClaimRows, NullAssumption, <1>1 DEF Mine, RowKept
  <2>5. Cardinality(Mine(k)') <= Concurrency
    <3> DEFINE rest == Mine(k) \ claim[a].requeued
    <3>1. rest \in SUBSET Runs /\ Cardinality(rest) < Concurrency /\ Cardinality(rest) \in Nat
      BY <1>1, <2>2, RunsFinite DEF SlotsKept
    <3>2. Cardinality(rest \cup {r}) <= Concurrency /\ Cardinality(rest \cup {r}) \in Nat
      <4>1. IsFiniteSet(rest) /\ r \in Runs
        BY <3>1, RunsFinite
      <4> HIDE DEF rest
      <4>2. Cardinality(rest \cup {r}) = IF r \in rest THEN Cardinality(rest) ELSE Cardinality(rest) + 1
        BY <4>1, FS_AddElement
      <4> QED
        BY <1>1, <3>1, <4>2
    <3>3. Cardinality(Mine(k)') <= Cardinality(rest \cup {r}) /\ Cardinality(Mine(k)') \in Nat
      <4>1. rest \cup {r} \in SUBSET Runs /\ Mine(k)' \in SUBSET (rest \cup {r})
        BY <2>3, <3>1
      <4> QED
        BY <4>1, FewerRuns, RunsFinite
    <3> HIDE DEF rest, k
    <3> QED
      BY <1>1, <3>2, <3>3
  <2>6. ASSUME NEW l \in Runners PROVE Cardinality(Mine(l)') <= Concurrency
    <3>1. CASE l = k
      BY <2>5, <3>1
    <3>2. CASE l # k
      <4>1. Mine(l)' \subseteq Mine(l)
        BY <2>4, <3>2
      <4>2. Cardinality(Mine(l)') <= Cardinality(Mine(l)) /\ Cardinality(Mine(l)) <= Concurrency
        BY <1>1, <4>1, FewerRuns DEF SlotsKept
      <4>3. Cardinality(Mine(l)') \in Nat /\ Cardinality(Mine(l)) \in Nat
        BY <1>1, <4>1, RunsFinite
      <4> QED
        BY <1>1, <4>2, <4>3
    <3> QED
      BY <3>1, <3>2
  <2>7. ASSUME NEW b \in Agents, claim'[b].open
        PROVE  Cardinality(Mine(RunnerOf[b])' \ claim'[b].requeued) < Concurrency
    <3>1. b # a /\ claim'[b] = claim[b]
      BY <1>1, <2>2, <2>7 DEF NoClaim
    <3>2. RunnerOf[b] # k /\ RunnerOf[b] \in Runners
      BY <1>1, <3>1
    <3>3. Mine(RunnerOf[b])' \subseteq Mine(RunnerOf[b])
      BY <2>4, <3>2
    <3> DEFINE before == Mine(RunnerOf[b]) \ claim[b].requeued
               after == Mine(RunnerOf[b])' \ claim'[b].requeued
    <3>4. before \in SUBSET Runs /\ after \in SUBSET before
      BY <1>1, <3>1, <3>2, <3>3
    <3>5. Cardinality(before) < Concurrency
      BY <2>7, <3>1 DEF SlotsKept
    <3>6. /\ Cardinality(after) <= Cardinality(before)
          /\ Cardinality(after) \in Nat /\ Cardinality(before) \in Nat
      BY <3>4, FewerRuns, RunsFinite
    <3> HIDE DEF before, after
    <3>7. Cardinality(after) < Concurrency
      BY <1>1, <3>5, <3>6
    <3> QED
      BY <3>7 DEF after
  <2> QED
    BY <2>6, <2>7 DEF SlotsKept
<1>3. CASE ~ \E a \in Agents, r \in Runs, delivered \in BOOLEAN : ClaimCommit(a, r, delivered)
  <2>1. ASSUME NEW l \in Runners PROVE Mine(l)' \subseteq Mine(l)
    BY <1>3, MineShrinks
  <2>2. ASSUME NEW l \in Runners PROVE Cardinality(Mine(l)') <= Concurrency
    <3>1. Cardinality(Mine(l)') <= Cardinality(Mine(l)) /\ Cardinality(Mine(l)) <= Concurrency
      BY <1>1, <2>1, FewerRuns DEF SlotsKept
    <3>2. Cardinality(Mine(l)') \in Nat /\ Cardinality(Mine(l)) \in Nat
      BY <1>1, <2>1, RunsFinite
    <3> QED
      BY <1>1, <3>1, <3>2
  <2>3. ASSUME NEW b \in Agents, claim'[b].open
        PROVE  Cardinality(Mine(RunnerOf[b])' \ claim'[b].requeued) < Concurrency
    <3> DEFINE k == RunnerOf[b]
               after == Mine(k)' \ claim'[b].requeued
    <3>1. CASE ClaimBegin(b)
      <4>1. /\ Cardinality(Leased(k)) < Concurrency /\ claim'[b].requeued = Expired
            /\ UNCHANGED <<status, assigned, lease, attr>>
        BY <1>1, <3>1 DEF ClaimBegin, BelowLimit, tableVars
      <4>2. after \subseteq Leased(k)
        <5> SUFFICES ASSUME NEW r \in Runs, status[r] = "running", assigned[r] = k, r \notin Expired
                     PROVE  lease[r] = "live"
          BY <4>1 DEF Leased, AssignedRun, Mine
        <5>1. assigned[r] # NoRunner
          BY <1>1, NullAssumption
        <5>2. attr[r].target \in {"private", "either"}
          BY <5>1 DEF RunInvariant, RowsConsistent, RowConsistent
        <5> QED
          BY <5>1, <5>2 DEF Expired, LeasesPresent
      <4>3. Leased(k) \in SUBSET Runs
        BY DEF Leased
      <4>4. /\ Cardinality(after) <= Cardinality(Leased(k))
            /\ Cardinality(after) \in Nat /\ Cardinality(Leased(k)) \in Nat
        BY <4>2, <4>3, FewerRuns, RunsFinite
      <4> HIDE DEF after
      <4>5. Cardinality(after) < Concurrency
        BY <1>1, <4>1, <4>4
      <4> QED
        BY <4>5 DEF after
    <3>2. CASE ~ClaimBegin(b)
      <4>1. claim'[b] = claim[b]
        <5>1. CASE \E c \in Agents : ClaimBegin(c)
          BY <1>1, <3>2, <5>1 DEF ClaimBegin
        <5>2. CASE ~ \E c \in Agents : ClaimBegin(c)
          BY <1>3, <2>3, <5>2, ClaimsFrame
        <5> QED
          BY <5>1, <5>2
      <4> DEFINE before == Mine(k) \ claim[b].requeued
      <4>2. before \in SUBSET Runs /\ after \in SUBSET before
        BY <1>1, <2>1, <4>1
      <4>3. Cardinality(before) < Concurrency
        BY <2>3, <4>1 DEF SlotsKept
      <4>4. /\ Cardinality(after) <= Cardinality(before)
            /\ Cardinality(after) \in Nat /\ Cardinality(before) \in Nat
        BY <4>2, FewerRuns, RunsFinite
      <4> HIDE DEF before, after
      <4>5. Cardinality(after) < Concurrency
        BY <1>1, <4>3, <4>4
      <4> QED
        BY <4>5 DEF after
    <3> QED
      BY <3>1, <3>2
  <2> QED
    BY <2>2, <2>3 DEF SlotsKept
<1> QED
  BY <1>2, <1>3

(* Where every runner is used by one agent, it never has more live leases    *)
(* than its max_concurrency, also when a heartbeat revives a lease that had  *)
(* run out: an open claim has taken what could be revived.  Agents that share *)
(* a token are outside, two of their claims can count the same lease.        *)
THEOREM ConcurrencyOfOneAgentEach ==
  ASSUME \A a, b \in Agents : RunnerOf[a] = RunnerOf[b] => a = b
  PROVE  Spec => []ConcurrencyRespected
<1>1. SystemInit => LeasesPresent /\ SlotsKept
  <2> SUFFICES ASSUME SystemInit PROVE LeasesPresent /\ SlotsKept
    OBVIOUS
  <2>1. /\ \A k \in Runners : Mine(k) = {}
        /\ \A a \in Agents : ~claim[a].open
        /\ LeasesPresent
    BY DEF SystemInit, Init, RunnerInit, NoClaim, Mine, LeasesPresent
  <2>2. Cardinality({}) <= Concurrency
    BY FS_EmptySet, RunnerAssumption
  <2> QED
    BY <2>1, <2>2 DEF SlotsKept
<1>2. RunInvariant /\ LeasesPresent /\ SlotsKept /\ [Next]_vars => LeasesPresent' /\ SlotsKept'
  BY LeasesStep, SlotsStep
<1>3. RunInvariant /\ SlotsKept => ConcurrencyRespected
  <2> SUFFICES ASSUME RunInvariant, SlotsKept, NEW k \in Runners
               PROVE  Cardinality(Leased(k)) <= Concurrency
    BY DEF ConcurrencyRespected
  <2>1. Leased(k) \in SUBSET Mine(k) /\ Mine(k) \in SUBSET Runs
    BY DEF Leased, AssignedRun, Mine
  <2>2. /\ Cardinality(Leased(k)) <= Cardinality(Mine(k)) /\ Cardinality(Mine(k)) <= Concurrency
        /\ Cardinality(Leased(k)) \in Nat /\ Cardinality(Mine(k)) \in Nat
    BY <2>1, FewerRuns, RunsFinite DEF SlotsKept
  <2> QED
    BY <2>2, RunnerAssumption
<1> QED
  BY <1>1, <1>2, <1>3, RunInvariantHolds, PTL DEF Spec
=============================================================================
