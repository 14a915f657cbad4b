---------------------------- MODULE PullRequests ----------------------------
(***************************************************************************)
(* Pull requests into one base branch of a hosted repository               *)
(* (apps/api/src/collaboration.ts): reviews, the merge handler, and what   *)
(* changes under it while it works - pushes of whole clones                *)
(* (repositories.ts), verification runs that are inserted and concluded    *)
(* (actions.ts), branch policies (repository-server.ts) and the floor an   *)
(* organization sets under them (organization-security.ts, 026 sql).       *)
(*                                                                         *)
(* The merge handler reads the pull request, its reviews, its checks, its  *)
(* runs and the refs in statements of their own, and then opens the        *)
(* transaction that moves the base branch: what it has read is the state   *)
(* merging[u]. Of a commit the model keeps its parents and its history,    *)
(* the commits that can be reached from it.                                *)
(***************************************************************************)
EXTENDS Integers, FiniteSets

CONSTANTS
  Principals,   (* everyone who opens and merges pull requests             *)
  Developers,   (* those of them who have a clone to push                  *)
  Reviewers,    (* those of them who review                                *)
  Humans,       (* those whose kind is 'human'                             *)
  Pulls,        (* pull requests                                           *)
  Base,         (* the base branch of every pull request                   *)
  Features,     (* the other branches                                      *)
  MaxCommits,   (* bound: commits that ever exist                          *)
  MaxRuns,      (* bound: Actions runs of one pull request                 *)
  Policies,     (* branch policies an administrator may choose             *)
  Floors,       (* policies an organization may choose                     *)
  RequiredApprovals, (* values of required_approvals a request may carry   *)
  StartRefs,    (* the branches of the repository at the start ...         *)
  StartParents, (* ... and the parents ...                                 *)
  StartHistory, (* ... and the history of each commit                      *)
  NoCommit, NoPolicy, NoPull

Branches == {Base} \cup Features
Commits == 1..MaxCommits
Runs == 1..MaxRuns
OwnRun == 1     (* the run inserted with the pull request                  *)

Heads == Commits \cup {NoCommit}
Refs == [Branches -> Heads]

PullRows == [state : {"open", "merged"}, author : Principals, head : Features,
             commit : Commits, draft : BOOLEAN, required : RequiredApprovals]

PolicyRows == [approvals : Nat, humans : Nat, independent : BOOLEAN,
               verification : BOOLEAN, actions : BOOLEAN, block : BOOLEAN,
               restrict : BOOLEAN]

ASSUME BoundAssumption ==
  MaxCommits \in Nat /\ MaxRuns \in Nat \ {0} /\ RequiredApprovals \subseteq Nat
ASSUME PolicyAssumption == Policies \cup Floors \subseteq PolicyRows \ {NoPolicy}
ASSUME NullAssumption ==
  NoCommit \notin Commits /\ NoPull \notin Pulls \cup PullRows /\ Base \notin Features
ASSUME StartAssumption ==
  /\ StartRefs \in Refs
  /\ StartParents \in [Commits -> SUBSET Commits]
  /\ StartHistory \in [Commits -> SUBSET Commits]
  /\ \A c \in Commits : StartParents[c] \subseteq StartHistory[c]
  /\ \A c \in Commits : \A d \in StartHistory[c] :
       c \in StartHistory[c] /\ d \in StartHistory[d] /\ StartHistory[d] \subseteq StartHistory[c]
  /\ \A b \in Branches : StartRefs[b] # NoCommit => StartHistory[StartRefs[b]] # {}
ASSUME PeopleAssumption == IsFiniteSet(Principals) /\ Humans \cup Developers \cup Reviewers \subseteq Principals

VARIABLES
  refs,         (* sessions_repository_refs                                *)
  parents,      (* parentCheckpointIds of each commit                      *)
  history,      (* its ancestors and itself; {} before it is made          *)
  stored,       (* commits in sessions_repository_checkpoints              *)
  clone,        (* the branches in each developer's local repository       *)
  pull,         (* pull_requests: its fixed columns and its state          *)
  verification, (* pull_requests.verification_state                        *)
  reviews,      (* approved and changes_requested reviews                  *)
  runs,         (* the Actions runs of each pull request                   *)
  policy,       (* the branch policy of Base                               *)
  floor,        (* the organization's policy, if Base is in its list       *)
  merging       (* what each merge handler has read                        *)

repository == <<refs, parents, history, stored, clone>>
evidence == <<verification, reviews, runs>>
rules == <<policy, floor>>
vars == <<repository, pull, evidence, rules, merging>>

-----------------------------------------------------------------------------
Reviews == [by : Principals, state : {"approved", "changes_requested"}]
RunStates == {"none", "pending", "success", "failure", "rejected"}

Idle == [phase |-> "idle", pull |-> NoPull, base |-> NoCommit]
Merges == {Idle} \cup [phase : {"row", "failures", "pending", "refs"},
                       pull : Pulls, base : Heads]

PullTypeOK ==
  /\ refs \in Refs
  /\ parents \in [Commits -> SUBSET Commits]
  /\ history \in [Commits -> SUBSET Commits]
  /\ stored \in SUBSET Commits
  /\ clone \in [Developers -> Refs]
  /\ pull \in [Pulls -> PullRows \cup {NoPull}]
  /\ verification \in [Pulls -> {"pending", "passed", "failed"}]
  /\ reviews \in [Pulls -> SUBSET Reviews]
  /\ runs \in [Pulls -> [Runs -> RunStates]]
  /\ policy \in Policies \cup {NoPolicy}
  /\ floor \in Floors \cup {NoPolicy}
  /\ merging \in [Principals -> Merges]

Opened == {p \in Pulls : pull[p] # NoPull}
Merged == {p \in Opened : pull[p].state = "merged"}
Fresh == {c \in Commits : history[c] = {} /\ \A b \in Commits : history[b] = {} => c <= b}

Init ==
  /\ refs = StartRefs
  /\ parents = StartParents
  /\ history = StartHistory
  /\ stored = UNION {StartHistory[c] : c \in Commits}
  /\ clone = [u \in Developers |-> StartRefs]
  /\ pull = [p \in Pulls |-> NoPull]
  /\ verification = [p \in Pulls |-> "pending"]
  /\ reviews = [p \in Pulls |-> {}]
  /\ runs = [p \in Pulls |-> [r \in Runs |-> "none"]]
  /\ policy = NoPolicy
  /\ floor = NoPolicy
  /\ merging = [u \in Principals |-> Idle]

-----------------------------------------------------------------------------
(* Clones. A commit is made on a branch of a clone; a branch a clone does  *)
(* not have is created at the head of the branch it is on.                 *)
Creates(c, from) ==
  /\ c \in Fresh
  /\ parents' = [parents EXCEPT ![c] = from]
  /\ history' = [history EXCEPT ![c] = {c} \cup UNION {history[d] : d \in from}]

Bases(u, b) == IF clone[u][b] = NoCommit
               THEN {{clone[u][d]} \ {NoCommit} : d \in Branches}
               ELSE {{clone[u][b]}}

Commit(u, b) ==
  /\ \E c \in Commits, from \in Bases(u, b) : /\ Creates(c, from)
                                             /\ clone' = [clone EXCEPT ![u][b] = c]
  /\ UNCHANGED <<refs, stored, pull, evidence, rules, merging>>

(* One branch of a clone is integrated into another.                       *)
HeadBehindBase(base, head) == head \in history[base]   (* mutant: FastForward *)

FastForward(base, head) == base \in history[head]

Integrate(u, from, into) ==
  LET source == clone[u][from]
      target == clone[u][into]
  IN /\ from # into /\ NoCommit \notin {source, target}
     /\ \E c \in Commits :
          /\ IF FastForward(target, source)
             THEN c = source /\ UNCHANGED <<parents, history>>
             ELSE Creates(c, {target, source})
          /\ clone' = [clone EXCEPT ![u][into] = c]
     /\ UNCHANGED <<refs, stored, pull, evidence, rules, merging>>

Pull(u) ==
  /\ clone' = [clone EXCEPT ![u] = refs]
  /\ UNCHANGED <<refs, parents, history, stored, pull, evidence, rules, merging>>

(* mutant: Push *)
PushBaseHistory(u) ==
  /\ refs' = clone[u]
  /\ stored' = stored \cup history[clone[u][Base]]
  /\ UNCHANGED <<parents, history, clone, pull, evidence, rules, merging>>

(* POST state deletes every ref and inserts the client's, whatever they    *)
(* were; checkpoints are only added.                                       *)
Push(u) ==
  /\ refs' = clone[u]
  /\ stored' = stored \cup UNION {history[c] : c \in {clone[u][b] : b \in Branches} \ {NoCommit}}
  /\ UNCHANGED <<parents, history, clone, pull, evidence, rules, merging>>

-----------------------------------------------------------------------------
(* POST pulls: the commit has to be stored, not to be the head of the      *)
(* branch. The run and its checks come in the same transaction.            *)
OpenPull(u, p) ==
  /\ pull[p] = NoPull
  /\ \E b \in Features, c \in stored, draft \in BOOLEAN, n \in RequiredApprovals :
       pull' = [pull EXCEPT ![p] = [state |-> "open", author |-> u, head |-> b,
                                    commit |-> c, draft |-> draft, required |-> n]]
  /\ runs' = [runs EXCEPT ![p][OwnRun] = "pending"]
  /\ UNCHANGED <<repository, verification, reviews, rules, merging>>

(* POST reviews. One active review for each reviewer: a second one is      *)
(* refused by pull_request_active_review_idx, and none is ever withdrawn.  *)
SubmitReview(u, p, s) ==
  /\ p \in Opened
  /\ \A v \in reviews[p] : v.by # u
  /\ reviews' = [reviews EXCEPT ![p] = @ \cup {[by |-> u, state |-> s]}]
  /\ UNCHANGED <<repository, pull, verification, runs, rules, merging>>

(* A further run of the pull request: POST actions, or a workflow.         *)
EnqueueRun(p, r) ==
  /\ p \in Opened
  /\ r # OwnRun /\ runs[p][r] = "none"
  /\ runs' = [runs EXCEPT ![p][r] = "pending"]
  /\ UNCHANGED <<repository, pull, verification, reviews, rules, merging>>

(* mutant: NativeConclude; the column has values of its own *)
NativeConcludeByResult(p, r) ==
  /\ runs[p][r] = "pending"
  /\ \E result \in {"success", "failure"} \cup (IF r = OwnRun THEN {} ELSE {"rejected"}) :
       /\ runs' = [runs EXCEPT ![p][r] = result]
       /\ verification' = [verification EXCEPT ![p] = IF result = "success" THEN "passed" ELSE "failure"]
  /\ UNCHANGED <<repository, pull, reviews, rules, merging>>

(* The native runner concludes a run and sets the verification of the      *)
(* pull request by it alone. A run without a commit is rejected with its   *)
(* checks untouched.                                                       *)
NativeConclude(p, r) ==
  /\ runs[p][r] = "pending"
  /\ \E result \in {"success", "failure"} \cup (IF r = OwnRun THEN {} ELSE {"rejected"}) :
       /\ runs' = [runs EXCEPT ![p][r] = result]
       /\ verification' = [verification EXCEPT ![p] = IF result = "success" THEN "passed" ELSE "failed"]
  /\ UNCHANGED <<repository, pull, reviews, rules, merging>>

(* An executor concludes a workflow run.                                   *)
WorkflowConclude(p, r) ==
  /\ r # OwnRun /\ runs[p][r] = "pending"
  /\ \E result \in {"success", "failure"} : runs' = [runs EXCEPT ![p][r] = result]
  /\ UNCHANGED <<repository, pull, verification, reviews, rules, merging>>

-----------------------------------------------------------------------------
(* Policies. The floor is compared when a branch policy is written, not    *)
(* when the floor is.                                                      *)
Switches == {"independent", "verification", "actions", "block", "restrict"}
Counts == {"approvals", "humans"}

AtLeast(q, f) == /\ \A k \in Counts : q[k] >= f[k]
                 /\ \A k \in Switches : f[k] => q[k]

SetBranchPolicy(q) ==
  /\ floor # NoPolicy => AtLeast(q, floor)
  /\ policy' = q
  /\ UNCHANGED <<repository, pull, evidence, floor, merging>>

DeleteBranchPolicy ==
  /\ policy # NoPolicy /\ policy' = NoPolicy
  /\ UNCHANGED <<repository, pull, evidence, floor, merging>>

(* PUT security-policy; NoPolicy when Base is not among the protected.     *)
SetOrganizationPolicy(q) ==
  /\ floor' = q
  /\ UNCHANGED <<repository, pull, evidence, policy, merging>>

-----------------------------------------------------------------------------
Approvers(p, independent) ==
  {u \in Principals : /\ [by |-> u, state |-> "approved"] \in reviews[p]
                      /\ independent => u # pull[p].author}
ChangesRequested(p) == \E v \in reviews[p] : v.state = "changes_requested"
Pending(p) == \E r \in Runs : runs[p][r] = "pending"
Failed(p) == \E r \in Runs : runs[p][r] = "failure"
FailedOrRejected(p) == \E r \in Runs : runs[p][r] \in {"failure", "rejected"}   (* mutant: Unsuccessful *)
Unsuccessful(p) == \E r \in Runs : runs[p][r] \in {"pending", "failure", "rejected"}

(* The trigger on pull_requests (026). It sees the rows of its own         *)
(* transaction: the base branch already moved. The kind of the merger is   *)
(* looked up by a setting that no connection sets, and is null.            *)
InForce == {policy, floor} \ {NoPolicy}
Demands(k) == \E q \in InForce : q[k]
KnownKind(u) == "null"

TriggerAllows(u, p) ==
  \/ pull[p].state = "merged"
  \/ InForce = {}
  \/ /\ ~ (Demands("restrict") /\ KnownKind(u) \notin {"null", "human"})
     /\ \A q \in InForce : Cardinality(Approvers(p, Demands("independent"))) >= q.approvals
     /\ \A q \in InForce : Cardinality(Approvers(p, Demands("independent")) \cap Humans) >= q.humans
     /\ Demands("block") => ~ ChangesRequested(p)
     /\ Demands("verification") => verification[p] = "passed"
     /\ Demands("actions") => ~ Unsuccessful(p)
     /\ refs[pull[p].head] = pull[p].commit

-----------------------------------------------------------------------------
(* POST merge, by its statements. A refused request, a conflict, an error  *)
(* and a stopped server all leave the handler without effect.              *)
Advance(u, phase) == merging' = [merging EXCEPT ![u].phase = phase]
At(u, phase) == merging[u].phase = phase

(* It reads the row, and the state of the row is not looked at: only the   *)
(* draft flag and the verification.                                        *)
MergeReadRow(u, p) ==
  /\ At(u, "idle") /\ p \in Opened
  /\ ~ pull[p].draft /\ verification[p] = "passed"
  /\ merging' = [merging EXCEPT ![u] = [phase |-> "row", pull |-> p, base |-> NoCommit]]
  /\ UNCHANGED <<repository, pull, evidence, rules>>

(* mutant: MergeCountReviews *)
MergeCountAnyReviews(u) ==
  LET p == merging[u].pull IN
    /\ At(u, "row")
    /\ Cardinality(reviews[p]) >= pull[p].required
    /\ ~ Failed(p)
    /\ Advance(u, "failures")
    /\ UNCHANGED <<repository, pull, evidence, rules>>

MergeCountReviews(u) ==
  LET p == merging[u].pull IN
    /\ At(u, "row")
    /\ Cardinality(Approvers(p, FALSE)) >= pull[p].required
    /\ ~ Failed(p)
    /\ Advance(u, "failures")
    /\ UNCHANGED <<repository, pull, evidence, rules>>

MergeCountPending(u) ==
  /\ At(u, "failures")
  /\ ~ Pending(merging[u].pull)
  /\ Advance(u, "pending")
  /\ UNCHANGED <<repository, pull, evidence, rules>>

MergeReadRefs(u) ==
  LET p == merging[u].pull IN
    /\ At(u, "pending")
    /\ refs[Base] # NoCommit
    /\ refs[pull[p].head] = pull[p].commit
    /\ merging' = [merging EXCEPT ![u].phase = "refs", ![u].base = refs[Base]]
    /\ UNCHANGED <<repository, pull, evidence, rules>>

(* The commit the base branch is moved to: the head, a new merge commit,   *)
(* or a commit of the client's that directly joins the two.                *)
MergeCommit(u, c) ==
  LET base == merging[u].base
      head == pull[merging[u].pull].commit
  IN IF FastForward(base, head)
     THEN c = head /\ UNCHANGED <<parents, history, stored>>
     ELSE \/ /\ c \in stored /\ {base, head} \subseteq parents[c]
             /\ UNCHANGED <<parents, history, stored>>
          \/ Creates(c, {base, head}) /\ stored' = stored \cup {c}

MergeTransaction(u) ==
  LET p == merging[u].pull IN
    /\ At(u, "refs")
    /\ TriggerAllows(u, p)
    /\ \E c \in Commits :
         /\ MergeCommit(u, c)
         /\ refs' = IF refs[Base] = NoCommit THEN refs ELSE [refs EXCEPT ![Base] = c]
    /\ pull' = [pull EXCEPT ![p].state = "merged"]
    /\ merging' = [merging EXCEPT ![u] = Idle]
    /\ UNCHANGED <<clone, evidence, rules>>

MergeStops(u) ==
  /\ ~ At(u, "idle")
  /\ merging' = [merging EXCEPT ![u] = Idle]
  /\ UNCHANGED <<repository, pull, evidence, rules>>

Merge(u) ==
  \/ \E p \in Pulls : MergeReadRow(u, p)
  \/ MergeCountReviews(u)
  \/ MergeCountPending(u)
  \/ MergeReadRefs(u)
  \/ MergeTransaction(u)
  \/ MergeStops(u)

Next ==
  \/ \E u \in Developers :
       \/ \E b \in Branches : Commit(u, b)
       \/ \E from \in Branches, into \in Branches : Integrate(u, from, into)
       \/ Pull(u)
       \/ Push(u)
  \/ \E u \in Principals :
       \/ \E p \in Pulls : OpenPull(u, p)
       \/ Merge(u)
  \/ \E u \in Reviewers, p \in Pulls, s \in {"approved", "changes_requested"} : SubmitReview(u, p, s)
  \/ \E p \in Pulls, r \in Runs :
       \/ EnqueueRun(p, r)
       \/ NativeConclude(p, r)
       \/ WorkflowConclude(p, r)
  \/ \E q \in Policies : SetBranchPolicy(q)
  \/ \E q \in Floors \cup {NoPolicy} : SetOrganizationPolicy(q)
  \/ DeleteBranchPolicy

Spec == Init /\ [][Next]_vars
-----------------------------------------------------------------------------
(* Properties.                                                             *)

(* The handler u's transaction moves the base branch in this step.         *)
Merging(u) == At(u, "refs") /\ merging'[u] = Idle /\ refs' # refs

(* The first merge of p, by u.                                             *)
MergedBy(u, p) == /\ At(u, "refs") /\ merging[u].pull = p /\ merging'[u] = Idle
                  /\ p \notin Merged /\ p \in Merged'

(* The repository's policy and the organization's, each on its own, as     *)
(* repository-server.ts and organization-security.ts let one state them.   *)
Satisfies(p, q) ==
  LET voters == Approvers(p, q.independent) IN
    /\ Cardinality(voters) >= q.approvals
    /\ Cardinality(voters \cap Humans) >= q.humans
    /\ q.block => ~ ChangesRequested(p)
    /\ q.verification => verification[p] = "passed"
    /\ q.actions => runs[p][OwnRun] = "success" /\ ~ Failed(p) /\ ~ Pending(p)
    /\ refs[pull[p].head] = pull[p].commit

(* A pull request is merged only when it satisfies, at that moment, the    *)
(* branch policy and the organization's floor, whichever of them exist,    *)
(* and whatever was reviewed, pushed, enqueued or concluded since the      *)
(* handler read it (the trigger of 026).                                   *)
MergesSatisfyPolicies ==
  [][\A u \in Principals, p \in Pulls :
       MergedBy(u, p) => \A q \in InForce : Satisfies(p, q)]_vars

(* A merge loses nothing of a base branch that nobody has moved since the  *)
(* handler read it, in the fast-forward and in both kinds of merge commit. *)
MergesKeepUnmovedBase ==
  [][\A u \in Principals :
       Merging(u) /\ refs[Base] = merging[u].base
         => refs[Base] \in history'[refs'[Base]]]_vars

(* Every branch of the hosted repository can be reconstructed: its head    *)
(* and all ancestors of it are stored, whatever clones are pushed and      *)
(* whatever merges write their commits (repositories.ts, native-merge.ts). *)
HeadsAreReconstructable ==
  \A b \in Branches : refs[b] # NoCommit => refs[b] \in stored /\ history[refs[b]] \subseteq stored

(* Ready: enough approvals, and a run that passed.                         *)
Ready(p) == /\ ~ pull[p].draft
            /\ Cardinality(Approvers(p, FALSE)) >= pull[p].required
            /\ \E r \in Runs : runs[p][r] = "success"

Stage(p) == IF p \notin Opened THEN "absent"
            ELSE IF p \in Merged THEN "merged"
            ELSE IF Ready(p) THEN "ready" ELSE "open"

Lifecycle == INSTANCE PullLifecycle WITH stage <- [p \in Pulls |-> Stage(p)]

(* The service implements the lifecycle of PullLifecycle: also without a   *)
(* branch policy, a pull request is merged only after it had its approvals *)
(* and a passed run, never as a draft, and never goes back.                *)
PullsFollowLifecycle == Lifecycle!Spec
=============================================================================
