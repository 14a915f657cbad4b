------------------------- MODULE PullRequestsProofs -------------------------
(***************************************************************************)
(* Theorems about PullRequests, for any repository to start from, any      *)
(* people, policies and pull requests. One invariant is about the commit   *)
(* graph (RepositoryConsistent), one about what the merge handlers have    *)
(* read (RequestsConsistent).                                              *)
(***************************************************************************)
EXTENDS PullRequests, FiniteSetTheorems, TLAPS

-----------------------------------------------------------------------------
(* Histories are transitive and contain the parents.                       *)
Graph ==
  \A c \in Commits :
    /\ parents[c] \subseteq history[c]
    /\ \A d \in history[c] :
         c \in history[c] /\ d \in history[d] /\ history[d] \subseteq history[c]

(* What is stored is stored with all its ancestors; hosted branches point  *)
(* to stored commits, branches of clones to commits that exist.            *)
RepositoryConsistent ==
  /\ Graph
  /\ \A c \in stored : c \in history[c] /\ history[c] \subseteq stored
  /\ \A b \in Branches : refs[b] \in stored \cup {NoCommit}
  /\ \A u \in Developers, b \in Branches :
       clone[u][b] # NoCommit => clone[u][b] \in history[clone[u][b]]

Approved(p) == Cardinality(Approvers(p, FALSE)) >= pull[p].required
Passed(p) == \E r \in Runs : runs[p][r] = "success"

PullConsistent(p) ==
  /\ pull[p] = NoPull => \A r \in Runs : runs[p][r] = "none"
  /\ pull[p] # NoPull => pull[p].commit \in stored /\ runs[p][OwnRun] # "none"
  /\ verification[p] = "passed" => Passed(p)

(* What a merge handler has decided still holds when it uses it.           *)
HandlerConsistent(u) ==
  /\ ~ At(u, "idle") => /\ merging[u].pull \in Opened
                        /\ ~ pull[merging[u].pull].draft
                        /\ Passed(merging[u].pull)
  /\ merging[u].phase \in {"failures", "pending", "refs"} => Approved(merging[u].pull)
  /\ At(u, "refs") => merging[u].base \in stored

RequestsConsistent ==
  /\ \A p \in Pulls : PullConsistent(p)
  /\ \A u \in Principals : HandlerConsistent(u)

PullInvariant == PullTypeOK /\ RepositoryConsistent /\ RequestsConsistent

-----------------------------------------------------------------------------
LEMMA InitEstablishes == Init => PullInvariant
<1> SUFFICES ASSUME Init PROVE PullInvariant
  OBVIOUS
<1> USE BoundAssumption, NullAssumption, StartAssumption
<1>1. OwnRun \in Runs
  BY SMT DEF OwnRun, Runs
<1>2. Idle \in Merges
  BY DEF Merges
<1>3. PullTypeOK
  BY <1>2, SMT DEF PullTypeOK, Init, Refs, Heads, RunStates
<1>4. RepositoryConsistent
  BY SMT DEF RepositoryConsistent, Graph, Init, Refs, Heads, Branches
<1>5. RequestsConsistent
  BY SMT DEF RequestsConsistent, PullConsistent, HandlerConsistent, Init, Idle, At
<1> QED
  BY <1>3, <1>4, <1>5 DEF PullInvariant

-----------------------------------------------------------------------------
(* A new commit extends the graph and changes no other commit's history.   *)
LEMMA CreatesExtends ==
  ASSUME PullTypeOK, Graph, NEW c \in Commits, NEW from \in SUBSET Commits, Creates(c, from),
         \A d \in from : d \in history[d]
  PROVE  /\ parents' \in [Commits -> SUBSET Commits]
         /\ history' \in [Commits -> SUBSET Commits]
         /\ Graph'
         /\ history[c] = {}
         /\ c \in history'[c]
         /\ history'[c] = {c} \cup UNION {history[d] : d \in from}
         /\ \A d \in Commits : d # c => history'[d] = history[d]
<1>1. history[c] = {} /\ \A d \in Commits : c \notin history[d]
  BY DEF Creates, Fresh, Graph
<1>2. UNION {history[d] : d \in from} \subseteq Commits
  BY DEF PullTypeOK
<1>3. /\ history' = [history EXCEPT ![c] = {c} \cup UNION {history[d] : d \in from}]
      /\ parents' = [parents EXCEPT ![c] = from]
  BY DEF Creates
<1>4. /\ history'[c] = {c} \cup UNION {history[d] : d \in from}
      /\ \A d \in Commits : d # c => history'[d] = history[d]
  BY <1>3 DEF PullTypeOK
<1>5. parents' \in [Commits -> SUBSET Commits] /\ history' \in [Commits -> SUBSET Commits]
  BY <1>2, <1>3 DEF PullTypeOK
<1>6. Graph'
  <2>4. \A a \in Commits : parents'[a] \subseteq history'[a]
    BY <1>3, <1>4 DEF PullTypeOK, Graph
  <2> SUFFICES ASSUME NEW a \in Commits, NEW d \in history'[a]
               PROVE  a \in history'[a] /\ d \in history'[d] /\ history'[d] \subseteq history'[a]
    BY <2>4 DEF Graph
  <2>1. CASE a # c
    <3>1. d \in history[a] /\ d # c /\ d \in Commits
      BY <2>1, <1>1, <1>4 DEF PullTypeOK
    <3> QED
      BY <2>1, <3>1, <1>4 DEF Graph
  <2>2. CASE a = c /\ d = c
    BY <2>2, <1>4
  <2>3. CASE a = c /\ d # c
    <3>1. PICK e \in from : d \in history[e]
      BY <2>3, <1>4
    <3>2. d # c /\ d \in Commits /\ e \in Commits
      BY <2>3, <3>1 DEF PullTypeOK
    <3>3. d \in history[d] /\ history[d] \subseteq history[e]
      BY <3>1, <3>2 DEF Graph
    <3> QED
      BY <2>3, <3>1, <3>2, <3>3, <1>4
  <2> QED
    BY <2>1, <2>2, <2>3
<1> QED
  BY <1>1, <1>4, <1>5, <1>6

-----------------------------------------------------------------------------
LEMMA CommitKeeps ==
  ASSUME PullTypeOK, RepositoryConsistent, NEW u \in Developers, NEW b \in Branches, Commit(u, b)
  PROVE  PullTypeOK' /\ RepositoryConsistent'
<1> USE NullAssumption
<1>1. PICK c \in Commits, from \in Bases(u, b) :
        Creates(c, from) /\ clone' = [clone EXCEPT ![u][b] = c]
  BY DEF Commit
<1>2. UNCHANGED <<refs, stored, pull, evidence, rules, merging>>
  BY DEF Commit
<1>3. from \in SUBSET Commits /\ \A d \in from : d \in history[d]
  BY SMT DEF Bases, PullTypeOK, Refs, Heads, RepositoryConsistent, Branches
<1>4. /\ parents' \in [Commits -> SUBSET Commits]
      /\ history' \in [Commits -> SUBSET Commits]
      /\ Graph'
      /\ history[c] = {}
      /\ c \in history'[c]
      /\ \A d \in Commits : d # c => history'[d] = history[d]
  BY <1>1, <1>3, CreatesExtends DEF RepositoryConsistent
<1>5. clone' \in [Developers -> Refs]
  BY <1>1, SMT DEF PullTypeOK, Refs, Heads
<1>6. PullTypeOK'
  BY <1>2, <1>4, <1>5 DEF PullTypeOK, evidence, rules
<1>7. \A d \in stored : d \in history'[d] /\ history'[d] \subseteq stored
  BY <1>4 DEF RepositoryConsistent, PullTypeOK
<1>8. \A v \in Developers, k \in Branches :
        clone'[v][k] # NoCommit => clone'[v][k] \in history'[clone'[v][k]]
  <2> SUFFICES ASSUME NEW v \in Developers, NEW k \in Branches, clone'[v][k] # NoCommit
               PROVE  clone'[v][k] \in history'[clone'[v][k]]
    OBVIOUS
  <2>1. clone'[v][k] = c \/ clone'[v][k] = clone[v][k]
    BY <1>1 DEF PullTypeOK, Refs
  <2>2. clone[v][k] # NoCommit => clone[v][k] \in Commits /\ clone[v][k] \in history[clone[v][k]]
    BY DEF PullTypeOK, Refs, Heads, RepositoryConsistent
  <2> QED
    BY <2>1, <2>2, <1>4
<1>9. RepositoryConsistent'
  BY <1>2, <1>4, <1>7, <1>8 DEF RepositoryConsistent
<1> QED
  BY <1>6, <1>9

LEMMA IntegrateKeeps ==
  ASSUME PullTypeOK, RepositoryConsistent,
         NEW u \in Developers, NEW f \in Branches, NEW t \in Branches, Integrate(u, f, t)
  PROVE  PullTypeOK' /\ RepositoryConsistent'
<1> USE NullAssumption
<1> DEFINE source == clone[u][f]
           target == clone[u][t]
<1>1. PICK c \in Commits :
        /\ IF FastForward(target, source) THEN c = source /\ UNCHANGED <<parents, history>>
           ELSE Creates(c, {target, source})
        /\ clone' = [clone EXCEPT ![u][t] = c]
  BY DEF Integrate
<1>2. UNCHANGED <<refs, stored, pull, evidence, rules, merging>>
  BY DEF Integrate
<1>3. /\ {target, source} \in SUBSET Commits
      /\ source \in history[source] /\ target \in history[target]
  BY SMT DEF Integrate, PullTypeOK, Refs, Heads, RepositoryConsistent
<1>4. /\ parents' \in [Commits -> SUBSET Commits]
      /\ history' \in [Commits -> SUBSET Commits]
      /\ Graph'
      /\ c \in history'[c]
      /\ \A d \in Commits : d # c => history'[d] = history[d]
      /\ history[c] = {} \/ history' = history
  <2>1. CASE FastForward(target, source)
    BY <2>1, <1>1, <1>3 DEF RepositoryConsistent, Graph, PullTypeOK
  <2>2. CASE ~ FastForward(target, source)
    <3>1. Creates(c, {target, source})
      BY <2>2, <1>1
    <3>2. \A d \in {target, source} : d \in history[d]
      BY <1>3
    <3> HIDE DEF source, target
    <3> QED
      BY <1>3, <3>1, <3>2, CreatesExtends DEF RepositoryConsistent
  <2> QED
    BY <2>1, <2>2
<1>5. clone' \in [Developers -> Refs]
  BY <1>1, SMT DEF PullTypeOK, Refs, Heads
<1>6. PullTypeOK'
  BY <1>2, <1>4, <1>5 DEF PullTypeOK, evidence, rules
<1>7. \A d \in stored : d \in history'[d] /\ history'[d] \subseteq stored
  BY <1>4 DEF RepositoryConsistent, PullTypeOK
<1>8. \A v \in Developers, k \in Branches :
        clone'[v][k] # NoCommit => clone'[v][k] \in history'[clone'[v][k]]
  <2> SUFFICES ASSUME NEW v \in Developers, NEW k \in Branches, clone'[v][k] # NoCommit
               PROVE  clone'[v][k] \in history'[clone'[v][k]]
    OBVIOUS
  <2>1. clone'[v][k] = c \/ clone'[v][k] = clone[v][k]
    BY <1>1 DEF PullTypeOK, Refs
  <2>2. clone[v][k] # NoCommit => clone[v][k] \in Commits /\ clone[v][k] \in history[clone[v][k]]
    BY DEF PullTypeOK, Refs, Heads, RepositoryConsistent
  <2> QED
    BY <2>1, <2>2, <1>4
<1>9. RepositoryConsistent'
  BY <1>2, <1>4, <1>7, <1>8 DEF RepositoryConsistent
<1> QED
  BY <1>6, <1>9

LEMMA PullKeeps ==
  ASSUME PullTypeOK, RepositoryConsistent, NEW u \in Developers, Pull(u)
  PROVE  PullTypeOK' /\ RepositoryConsistent'
<1>1. /\ clone' = [clone EXCEPT ![u] = refs]
      /\ UNCHANGED <<refs, parents, history, stored, pull, evidence, rules, merging>>
  BY DEF Pull
<1>2. PullTypeOK'
  BY <1>1 DEF PullTypeOK, evidence, rules
<1>3. \A v \in Developers, b \in Branches :
        clone'[v][b] # NoCommit => clone'[v][b] \in history[clone'[v][b]]
  <2> SUFFICES ASSUME NEW v \in Developers, NEW b \in Branches, clone'[v][b] # NoCommit
               PROVE  clone'[v][b] \in history[clone'[v][b]]
    OBVIOUS
  <2>1. clone'[v] = refs \/ clone'[v] = clone[v]
    BY <1>1 DEF PullTypeOK
  <2> QED
    BY <2>1 DEF RepositoryConsistent
<1>4. Graph'
  BY <1>1 DEF Graph, RepositoryConsistent
<1> QED
  BY <1>1, <1>2, <1>3, <1>4 DEF RepositoryConsistent

LEMMA PushKeeps ==
  ASSUME PullTypeOK, RepositoryConsistent, NEW u \in Developers, Push(u)
  PROVE  PullTypeOK' /\ RepositoryConsistent' /\ stored \subseteq stored'
<1> DEFINE heads == {clone[u][b] : b \in Branches} \ {NoCommit}
<1>1. /\ refs' = clone[u]
      /\ stored' = stored \cup UNION {history[c] : c \in heads}
      /\ UNCHANGED <<parents, history, clone, pull, evidence, rules, merging>>
  BY DEF Push
<1>2. heads \subseteq Commits /\ \A c \in heads : c \in history[c]
  BY DEF PullTypeOK, Refs, Heads, RepositoryConsistent
<1>3. stored' \in SUBSET Commits
  BY <1>1, <1>2 DEF PullTypeOK
<1>4. PullTypeOK'
  BY <1>1, <1>3 DEF PullTypeOK, evidence, rules
<1>5. \A d \in stored' : d \in history[d] /\ history[d] \subseteq stored'
  <2> SUFFICES ASSUME NEW d \in stored' PROVE d \in history[d] /\ history[d] \subseteq stored'
    OBVIOUS
  <2>1. CASE d \in stored
    BY <2>1, <1>1 DEF RepositoryConsistent
  <2>2. CASE \E c \in heads : d \in history[c]
    <3>1. PICK c \in heads : d \in history[c]
      BY <2>2
    <3>2. d \in history[d] /\ history[d] \subseteq history[c]
      BY <3>1, <1>2 DEF RepositoryConsistent, Graph
    <3>3. history[c] \subseteq stored'
      BY <1>1, <3>1
    <3> QED
      BY <3>2, <3>3
  <2> QED
    BY <2>1, <2>2, <1>1
<1>6. \A b \in Branches : refs'[b] \in stored' \cup {NoCommit}
  BY <1>1, <1>2
<1>7. Graph'
  BY <1>1 DEF Graph, RepositoryConsistent
<1>8. RepositoryConsistent'
  BY <1>1, <1>5, <1>6, <1>7 DEF RepositoryConsistent
<1> QED
  BY <1>1, <1>4, <1>8

(* The merge transaction moves the base branch to a stored commit.         *)
LEMMA TransactionMoves ==
  ASSUME PullInvariant, NEW u \in Principals, MergeTransaction(u)
  PROVE  /\ parents' \in [Commits -> SUBSET Commits]
         /\ history' \in [Commits -> SUBSET Commits]
         /\ stored' \in SUBSET Commits
         /\ stored \subseteq stored'
         /\ Graph'
         /\ \A d \in stored' : d \in history'[d] /\ history'[d] \subseteq stored'
         /\ \A d \in Commits : d \in history[d] => history'[d] = history[d]
         /\ refs' \in Refs
         /\ \A b \in Branches : refs'[b] \in stored' \cup {NoCommit}
         /\ merging[u].base \in history'[refs'[Base]] \/ refs' = refs
<1> DEFINE p == merging[u].pull
           base == merging[u].base
           head == pull[p].commit
<1>1. /\ p \in Pulls /\ pull[p] # NoPull /\ base \in stored /\ head \in stored
      /\ stored \subseteq Commits
  BY DEF PullInvariant, MergeTransaction, RequestsConsistent, HandlerConsistent, PullConsistent,
         At, Opened, PullTypeOK
<1>2. PICK c \in Commits :
        /\ MergeCommit(u, c)
        /\ refs' = IF refs[Base] = NoCommit THEN refs ELSE [refs EXCEPT ![Base] = c]
  BY DEF MergeTransaction
<1>3. PullTypeOK /\ RepositoryConsistent /\ Graph
  BY DEF PullInvariant, RepositoryConsistent
<1>4. base \in history[base] /\ head \in history[head]
      /\ history[base] \subseteq stored /\ history[head] \subseteq stored
  BY <1>1, <1>3 DEF RepositoryConsistent
<1>5. /\ parents' \in [Commits -> SUBSET Commits]
      /\ history' \in [Commits -> SUBSET Commits]
      /\ stored' \in SUBSET Commits
      /\ stored \subseteq stored'
      /\ Graph'
      /\ \A d \in stored' : d \in history'[d] /\ history'[d] \subseteq stored'
      /\ \A d \in Commits : d \in history[d] => history'[d] = history[d]
      /\ c \in stored'
      /\ base \in history'[c]
  <2>1. CASE FastForward(base, head)
    <3>1. c = head /\ UNCHANGED <<parents, history, stored>>
      BY <2>1, <1>2 DEF MergeCommit
    <3>2. Graph'
      BY <3>1, <1>3 DEF Graph
    <3> QED
      BY <2>1, <3>1, <3>2, <1>1, <1>3 DEF FastForward, RepositoryConsistent, PullTypeOK
  <2>2. CASE /\ c \in stored /\ {base, head} \subseteq parents[c]
             /\ UNCHANGED <<parents, history, stored>>
    <3>1. Graph'
      BY <2>2, <1>3 DEF Graph
    <3>2. base \in history[c]
      BY <2>2, <1>3 DEF Graph
    <3> QED
      BY <2>2, <3>1, <3>2, <1>1, <1>3 DEF RepositoryConsistent, PullTypeOK
  <2>3. CASE Creates(c, {base, head}) /\ stored' = stored \cup {c}
    <3>1. {base, head} \in SUBSET Commits /\ \A d \in {base, head} : d \in history[d]
      BY <1>1, <1>4
    <3>2. /\ parents' \in [Commits -> SUBSET Commits]
          /\ history' \in [Commits -> SUBSET Commits]
          /\ Graph'
          /\ history[c] = {}
          /\ c \in history'[c]
          /\ history'[c] = {c} \cup UNION {history[d] : d \in {base, head}}
          /\ \A d \in Commits : d # c => history'[d] = history[d]
      <4> HIDE DEF base, head
      <4> QED
        BY <2>3, <3>1, <1>3, CreatesExtends
    <3>3. history'[c] \subseteq stored' /\ base \in history'[c]
      BY <3>2, <2>3, <1>4
    <3>4. \A d \in stored : d # c /\ d \in history[d] /\ history[d] \subseteq stored
      BY <3>2, <1>3 DEF RepositoryConsistent
    <3> QED
      BY <2>3, <3>2, <3>3, <3>4, <1>1
  <2> QED
    BY <2>1, <2>2, <2>3, <1>2 DEF MergeCommit
<1>6. refs' \in Refs /\ \A b \in Branches : refs'[b] \in stored' \cup {NoCommit}
  <2>1. refs' = refs \/ refs' = [refs EXCEPT ![Base] = c]
    BY <1>2
  <2>2. refs \in Refs /\ c \in Heads
    BY <1>3 DEF PullTypeOK, Heads
  <2>3. refs' \in Refs
    BY <2>1, <2>2 DEF Refs
  <2>4. \A b \in Branches : refs'[b] = refs[b] \/ refs'[b] = c
    BY <2>1, <2>2 DEF Refs
  <2>5. \A b \in Branches : refs[b] \in stored \cup {NoCommit}
    BY <1>3 DEF RepositoryConsistent
  <2> QED
    BY <2>3, <2>4, <2>5, <1>5
<1>7. base \in history'[refs'[Base]] \/ refs' = refs
  BY <1>2, <1>3, <1>5 DEF PullTypeOK, Refs, Branches
<1> QED
  BY <1>5, <1>6, <1>7

LEMMA TransactionKeeps ==
  ASSUME PullInvariant, NEW u \in Principals, MergeTransaction(u)
  PROVE  PullTypeOK' /\ RepositoryConsistent' /\ stored \subseteq stored'
<1> DEFINE p == merging[u].pull
<1>1. /\ p \in Pulls /\ pull[p] \in PullRows
      /\ pull' = [pull EXCEPT ![p].state = "merged"]
      /\ merging' = [merging EXCEPT ![u] = Idle]
      /\ UNCHANGED <<clone, evidence, rules>>
  BY NullAssumption DEF PullInvariant, MergeTransaction, RequestsConsistent, HandlerConsistent, At,
     Opened, PullTypeOK
<1>2. pull' \in [Pulls -> PullRows \cup {NoPull}]
  <2>1. [pull[p] EXCEPT !.state = "merged"] \in PullRows
    BY <1>1 DEF PullRows
  <2> QED
    BY <1>1, <2>1 DEF PullInvariant, PullTypeOK
<1>3. merging' \in [Principals -> Merges]
  BY <1>1 DEF PullInvariant, PullTypeOK, Merges
<1>4. /\ parents' \in [Commits -> SUBSET Commits]
      /\ history' \in [Commits -> SUBSET Commits]
      /\ stored' \in SUBSET Commits
      /\ stored \subseteq stored'
      /\ Graph'
      /\ \A d \in stored' : d \in history'[d] /\ history'[d] \subseteq stored'
      /\ \A d \in Commits : d \in history[d] => history'[d] = history[d]
      /\ refs' \in Refs
      /\ \A b \in Branches : refs'[b] \in stored' \cup {NoCommit}
  BY TransactionMoves
<1>5. PullTypeOK'
  BY <1>1, <1>2, <1>3, <1>4 DEF PullInvariant, PullTypeOK, evidence, rules
<1>6. \A v \in Developers, b \in Branches :
        clone'[v][b] # NoCommit => clone'[v][b] \in history'[clone'[v][b]]
  <2> SUFFICES ASSUME NEW v \in Developers, NEW b \in Branches, clone[v][b] # NoCommit
               PROVE  clone[v][b] \in history'[clone[v][b]]
    BY <1>1
  <2>1. clone[v][b] \in Commits /\ clone[v][b] \in history[clone[v][b]]
    BY DEF PullInvariant, PullTypeOK, Refs, Heads, RepositoryConsistent
  <2> QED
    BY <2>1, <1>4
<1> QED
  BY <1>4, <1>5, <1>6 DEF RepositoryConsistent

-----------------------------------------------------------------------------
(* The steps that leave the repository alone.                              *)
Collaboration ==
  \/ \E u \in Principals, p \in Pulls : OpenPull(u, p)
  \/ \E u \in Reviewers, p \in Pulls, s \in {"approved", "changes_requested"} : SubmitReview(u, p, s)
  \/ \E p \in Pulls, r \in Runs : EnqueueRun(p, r) \/ NativeConclude(p, r) \/ WorkflowConclude(p, r)
  \/ \E q \in Policies : SetBranchPolicy(q)
  \/ \E q \in Floors \cup {NoPolicy} : SetOrganizationPolicy(q)
  \/ DeleteBranchPolicy
  \/ \E u \in Principals :
       \/ \E p \in Pulls : MergeReadRow(u, p)
       \/ MergeCountReviews(u)
       \/ MergeCountPending(u)
       \/ MergeReadRefs(u)
       \/ MergeStops(u)

LEMMA CollaborationKeepsRepository ==
  ASSUME RepositoryConsistent, UNCHANGED repository
  PROVE  RepositoryConsistent'
<1>1. Graph'
  BY DEF RepositoryConsistent, Graph, repository
<1> QED
  BY <1>1 DEF RepositoryConsistent, repository

LEMMA CollaborationTypes ==
  ASSUME PullTypeOK, Collaboration
  PROVE  PullTypeOK' /\ UNCHANGED repository
<1> USE NullAssumption, BoundAssumption, PeopleAssumption
<1>1. ASSUME NEW u \in Principals, NEW p \in Pulls, OpenPull(u, p)
      PROVE  PullTypeOK' /\ UNCHANGED repository
  <2>1. pull' \in [Pulls -> PullRows \cup {NoPull}]
    <3>1. PICK b \in Features, c \in stored, draft \in BOOLEAN, n \in RequiredApprovals :
            pull' = [pull EXCEPT ![p] = [state |-> "open", author |-> u, head |-> b,
                                         commit |-> c, draft |-> draft, required |-> n]]
      BY <1>1 DEF OpenPull
    <3>2. [state |-> "open", author |-> u, head |-> b, commit |-> c, draft |-> draft,
           required |-> n] \in PullRows
      BY DEF PullRows, PullTypeOK
    <3> QED
      BY <3>1, <3>2 DEF PullTypeOK
  <2>2. runs' \in [Pulls -> [Runs -> RunStates]]
    <3>1. OwnRun \in Runs
      BY SMT DEF OwnRun, Runs
    <3> QED
      BY <3>1, <1>1 DEF OpenPull, PullTypeOK, RunStates
  <2> QED
    BY <2>1, <2>2, <1>1 DEF OpenPull, PullTypeOK, repository, rules
<1>2. ASSUME NEW u \in Reviewers, NEW p \in Pulls, NEW s \in {"approved", "changes_requested"},
             SubmitReview(u, p, s)
      PROVE  PullTypeOK' /\ UNCHANGED repository
  <2>1. [by |-> u, state |-> s] \in Reviews
    BY DEF Reviews
  <2> QED
    BY <2>1, <1>2 DEF SubmitReview, PullTypeOK, repository, rules
<1>3. ASSUME NEW p \in Pulls, NEW r \in Runs,
             EnqueueRun(p, r) \/ NativeConclude(p, r) \/ WorkflowConclude(p, r)
      PROVE  PullTypeOK' /\ UNCHANGED repository
  <2>1. /\ \E s \in RunStates : runs' = [runs EXCEPT ![p][r] = s]
        /\ verification' = verification \/
             \E v \in {"passed", "failed"} : verification' = [verification EXCEPT ![p] = v]
        /\ UNCHANGED <<repository, pull, reviews, rules, merging>>
    BY <1>3 DEF EnqueueRun, NativeConclude, WorkflowConclude, RunStates
  <2>2. runs' \in [Pulls -> [Runs -> RunStates]]
    BY <2>1 DEF PullTypeOK
  <2>3. verification' \in [Pulls -> {"pending", "passed", "failed"}]
    BY <2>1 DEF PullTypeOK
  <2> QED
    BY <2>1, <2>2, <2>3 DEF PullTypeOK, repository, rules
<1>4. ASSUME \/ \E q \in Policies : SetBranchPolicy(q)
             \/ \E q \in Floors \cup {NoPolicy} : SetOrganizationPolicy(q)
             \/ DeleteBranchPolicy
      PROVE  PullTypeOK' /\ UNCHANGED repository
  BY <1>4 DEF SetBranchPolicy, SetOrganizationPolicy, DeleteBranchPolicy, PullTypeOK, repository, evidence
<1>5. ASSUME NEW u \in Principals, NEW p \in Pulls, MergeReadRow(u, p)
      PROVE  PullTypeOK' /\ UNCHANGED repository
  <2>1. [phase |-> "row", pull |-> p, base |-> NoCommit] \in Merges
    BY DEF Merges, Heads
  <2> QED
    BY <2>1, <1>5 DEF MergeReadRow, PullTypeOK, repository, evidence, rules
<1>6. ASSUME NEW u \in Principals, MergeCountReviews(u) \/ MergeCountPending(u)
      PROVE  PullTypeOK' /\ UNCHANGED repository
  <2>1. \A f \in {"failures", "pending"} :
          ~ At(u, "idle") => [merging[u] EXCEPT !.phase = f] \in Merges
    BY DEF PullTypeOK, Merges, Idle, At
  <2>2. merging' \in [Principals -> Merges]
    BY <2>1, <1>6 DEF MergeCountReviews, MergeCountPending, Advance, At, PullTypeOK
  <2> QED
    BY <2>2, <1>6 DEF MergeCountReviews, MergeCountPending, PullTypeOK, repository, evidence, rules
<1>7. ASSUME NEW u \in Principals, MergeReadRefs(u)
      PROVE  PullTypeOK' /\ UNCHANGED repository
  <2>1. refs[Base] \in Heads
    BY DEF PullTypeOK, Refs, Branches
  <2>2. [merging[u] EXCEPT !.phase = "refs", !.base = refs[Base]] \in Merges
    <3>1. merging[u] \in [phase : {"row", "failures", "pending", "refs"}, pull : Pulls, base : Heads]
      BY <1>7 DEF MergeReadRefs, PullTypeOK, Merges, Idle, At
    <3> QED
      BY <3>1, <2>1 DEF Merges
  <2> QED
    BY <2>2, <1>7 DEF MergeReadRefs, PullTypeOK, repository, evidence, rules
<1>8. ASSUME NEW u \in Principals, MergeStops(u)
      PROVE  PullTypeOK' /\ UNCHANGED repository
  BY <1>8 DEF MergeStops, PullTypeOK, Merges, repository, evidence, rules
<1> QED
  BY <1>1, <1>2, <1>3, <1>4, <1>5, <1>6, <1>7, <1>8 DEF Collaboration

-----------------------------------------------------------------------------
(* Reviews are never withdrawn and a passed run stays passed.              *)
EvidenceGrows ==
  /\ \A p \in Pulls : reviews[p] \subseteq reviews'[p]
  /\ \A p \in Pulls, r \in Runs : runs[p][r] = "success" => runs'[p][r] = "success"
  /\ \A p \in Opened : /\ pull'[p] # NoPull
                       /\ pull'[p].draft = pull[p].draft
                       /\ pull'[p].required = pull[p].required
                       /\ pull'[p].commit = pull[p].commit
                       /\ p \in Merged => p \in Merged'

LEMMA ApprovalsGrow ==
  ASSUME PullTypeOK, NEW p \in Opened, reviews[p] \subseteq reviews'[p],
         pull'[p].required = pull[p].required, Approved(p), pull[p].required \in Nat
  PROVE  Approved(p)'
<1>1. Approvers(p, FALSE) \subseteq Approvers(p, FALSE)'
  BY DEF Approvers
<1>2. IsFiniteSet(Approvers(p, FALSE)') /\ IsFiniteSet(Approvers(p, FALSE))
  BY PeopleAssumption, FS_Subset DEF Approvers
<1>3. Cardinality(Approvers(p, FALSE)) <= Cardinality(Approvers(p, FALSE)')
  BY <1>1, <1>2, FS_Subset
<1>4. Cardinality(Approvers(p, FALSE)) \in Nat /\ Cardinality(Approvers(p, FALSE)') \in Nat
  BY <1>2, FS_CardinalityType
<1>5. Cardinality(Approvers(p, FALSE)) >= pull[p].required
  BY DEF Approved
<1> DEFINE before == Cardinality(Approvers(p, FALSE))
           after == Cardinality(Approvers(p, FALSE)')
<1>6. after >= pull'[p].required
  <2>1. before \in Nat /\ after \in Nat /\ before <= after /\ before >= pull[p].required
    BY <1>3, <1>4, <1>5
  <2> HIDE DEF before, after
  <2> QED
    BY <2>1, SMT
<1> QED
  BY <1>6 DEF Approved

LEMMA RequiredIsNatural ==
  ASSUME PullTypeOK, NEW p \in Opened
  PROVE  pull[p] \in PullRows /\ pull[p].required \in Nat
  BY BoundAssumption DEF PullTypeOK, Opened, PullRows

(* One pull request and one handler, when their evidence only grows.       *)
LEMMA HandlerGoesOn ==
  ASSUME PullTypeOK, EvidenceGrows, stored \subseteq stored', NEW u \in Principals,
         HandlerConsistent(u), UNCHANGED merging[u]
  PROVE  HandlerConsistent(u)'
<1> DEFINE p == merging[u].pull
<1>1. CASE At(u, "idle")
  BY <1>1 DEF HandlerConsistent, At
<1>2. CASE ~ At(u, "idle")
  <2>1. p \in Opened /\ ~ pull[p].draft /\ Passed(p)
    BY <1>2 DEF HandlerConsistent
  <2>2. p \in Opened' /\ ~ pull'[p].draft
    BY <2>1 DEF EvidenceGrows, Opened
  <2>3. Passed(p)'
    BY <2>1 DEF EvidenceGrows, Passed, Opened
  <2>4. Approved(p) => Approved(p)'
    BY <2>1, ApprovalsGrow, RequiredIsNatural DEF EvidenceGrows, Opened
  <2> QED
    BY <1>2, <2>2, <2>3, <2>4 DEF HandlerConsistent, At
<1> QED
  BY <1>1, <1>2

LEMMA EvidenceOnlyGrows ==
  ASSUME PullTypeOK, RequestsConsistent, Next
  PROVE  EvidenceGrows
<1> USE NullAssumption
<1>1. CASE UNCHANGED <<pull, evidence>>
  BY <1>1 DEF EvidenceGrows, evidence, Opened, Merged
<1>2. ASSUME NEW u \in Principals, NEW p \in Pulls, OpenPull(u, p)
      PROVE  EvidenceGrows
  <2>1. /\ pull[p] = NoPull /\ \A q \in Pulls : q # p => pull'[q] = pull[q]
        /\ runs' = [runs EXCEPT ![p][OwnRun] = "pending"]
        /\ reviews' = reviews
    BY <1>2 DEF OpenPull, PullTypeOK
  <2>2. \A q \in Opened : pull'[q] = pull[q]
    BY <2>1 DEF Opened
  <2>3. \A k \in Runs : runs[p][k] = "none"
    BY <2>1 DEF RequestsConsistent, PullConsistent
  <2>4. \A q \in Pulls, k \in Runs : runs[q][k] = "success" => runs'[q][k] = "success"
    BY <2>1, <2>3 DEF PullTypeOK
  <2> QED
    BY <2>1, <2>2, <2>4 DEF EvidenceGrows, Opened, Merged
<1>3. ASSUME NEW u \in Reviewers, NEW p \in Pulls, NEW s \in {"approved", "changes_requested"},
             SubmitReview(u, p, s)
      PROVE  EvidenceGrows
  BY <1>3 DEF SubmitReview, EvidenceGrows, PullTypeOK, Opened, Merged
<1>4. ASSUME NEW p \in Pulls, NEW r \in Runs,
             EnqueueRun(p, r) \/ NativeConclude(p, r) \/ WorkflowConclude(p, r)
      PROVE  EvidenceGrows
  <2>1. /\ runs[p][r] # "success"
        /\ \E s \in RunStates : runs' = [runs EXCEPT ![p][r] = s]
        /\ reviews' = reviews /\ pull' = pull
    BY <1>4 DEF EnqueueRun, NativeConclude, WorkflowConclude, RunStates
  <2>2. \A q \in Pulls, k \in Runs : runs[q][k] = "success" => runs'[q][k] = "success"
    BY <2>1 DEF PullTypeOK
  <2> QED
    BY <2>1, <2>2 DEF EvidenceGrows, Opened, Merged
<1>5. ASSUME NEW u \in Principals, MergeTransaction(u)
      PROVE  EvidenceGrows
  <2>1. pull' = [pull EXCEPT ![merging[u].pull].state = "merged"] /\ UNCHANGED evidence
    BY <1>5 DEF MergeTransaction
  <2>2. \A q \in Opened : pull[q] \in PullRows
    BY DEF Opened, PullTypeOK
  <2>3. \A q \in Opened : \/ pull'[q] = pull[q]
                          \/ pull'[q] = [pull[q] EXCEPT !.state = "merged"]
    BY <2>1 DEF Opened, PullTypeOK
  <2>4. \A q \in Opened : /\ pull'[q] # NoPull
                          /\ pull'[q].draft = pull[q].draft
                          /\ pull'[q].required = pull[q].required
                          /\ pull'[q].commit = pull[q].commit
                          /\ pull[q].state = "merged" => pull'[q].state = "merged"
    <3> SUFFICES ASSUME NEW q \in Opened
                 PROVE  /\ pull'[q] # NoPull
                        /\ pull'[q].draft = pull[q].draft
                        /\ pull'[q].required = pull[q].required
                        /\ pull'[q].commit = pull[q].commit
                        /\ pull[q].state = "merged" => pull'[q].state = "merged"
      OBVIOUS
    <3>1. [pull[q] EXCEPT !.state = "merged"] \in PullRows
      BY <2>2 DEF PullRows
    <3>2. pull'[q] \in PullRows
      BY <2>2, <2>3, <3>1
    <3>3. NoPull \notin PullRows
      BY NullAssumption
    <3> QED
      BY <2>2, <2>3, <3>2, <3>3 DEF PullRows
  <2> QED
    BY <2>1, <2>4 DEF EvidenceGrows, evidence, Opened, Merged
<1>6. CASE /\ ~ UNCHANGED <<pull, evidence>>
           /\ \/ \E u \in Developers :
                   \/ \E b \in Branches : Commit(u, b)
                   \/ \E from \in Branches, into \in Branches : Integrate(u, from, into)
                   \/ Pull(u) \/ Push(u)
              \/ \E q \in Policies : SetBranchPolicy(q)
              \/ \E q \in Floors \cup {NoPolicy} : SetOrganizationPolicy(q)
              \/ DeleteBranchPolicy
              \/ \E u \in Principals :
                   \/ \E p \in Pulls : MergeReadRow(u, p)
                   \/ MergeCountReviews(u) \/ MergeCountPending(u)
                   \/ MergeReadRefs(u) \/ MergeStops(u)
  BY <1>6 DEF Commit, Integrate, Pull, Push, SetBranchPolicy, SetOrganizationPolicy,
     DeleteBranchPolicy, MergeReadRow, MergeCountReviews, MergeCountPending, MergeReadRefs, MergeStops
<1> QED
  BY <1>1, <1>2, <1>3, <1>4, <1>5, <1>6 DEF Next, Merge

LEMMA PullsStayConsistent ==
  ASSUME PullTypeOK, RequestsConsistent, Next, EvidenceGrows, stored \subseteq stored'
  PROVE  \A p \in Pulls : PullConsistent(p)'
<1> SUFFICES ASSUME NEW p \in Pulls PROVE PullConsistent(p)'
  OBVIOUS
<1> USE NullAssumption
<1>0. PullConsistent(p) /\ (Passed(p) => Passed(p)')
  BY DEF RequestsConsistent, EvidenceGrows, Passed
<1>1. CASE UNCHANGED <<pull, evidence>>
  BY <1>0, <1>1 DEF PullConsistent, evidence
<1>2. ASSUME NEW u \in Principals, NEW q \in Pulls, OpenPull(u, q)
      PROVE  PullConsistent(p)'
  <2>1. CASE q = p
    <3>1. PICK b \in Features, c \in stored, draft \in BOOLEAN, n \in RequiredApprovals :
            pull' = [pull EXCEPT ![p] = [state |-> "open", author |-> u, head |-> b,
                                         commit |-> c, draft |-> draft, required |-> n]]
      BY <2>1, <1>2 DEF OpenPull
    <3>2. c \in Commits
      BY DEF PullTypeOK
    <3>3. [state |-> "open", author |-> u, head |-> b, commit |-> c, draft |-> draft,
           required |-> n] \in PullRows
      BY <3>2 DEF PullRows
    <3>4. pull'[p] # NoPull /\ pull'[p].commit = c
      BY <3>1, <3>3 DEF PullTypeOK
    <3>5. runs'[p][OwnRun] = "pending"
      <4>1. OwnRun \in Runs
        BY BoundAssumption, SMT DEF OwnRun, Runs
      <4> QED
        BY <4>1, <2>1, <1>2 DEF OpenPull, PullTypeOK
    <3> QED
      BY <3>4, <3>5, <1>0, <1>2 DEF PullConsistent, OpenPull
  <2>2. CASE q # p
    <3>1. pull'[p] = pull[p] /\ runs'[p] = runs[p] /\ verification' = verification
      BY <2>2, <1>2 DEF OpenPull, PullTypeOK
    <3> QED
      BY <3>1, <1>0 DEF PullConsistent, Passed
  <2> QED
    BY <2>1, <2>2
<1>3. ASSUME NEW u \in Reviewers, NEW q \in Pulls, NEW s \in {"approved", "changes_requested"},
             SubmitReview(u, q, s)
      PROVE  PullConsistent(p)'
  BY <1>0, <1>3 DEF SubmitReview, PullConsistent, Passed
<1>4. ASSUME NEW q \in Pulls, NEW r \in Runs,
             EnqueueRun(q, r) \/ NativeConclude(q, r) \/ WorkflowConclude(q, r)
      PROVE  PullConsistent(p)'
  <2>1. pull' = pull
    BY <1>4 DEF EnqueueRun, NativeConclude, WorkflowConclude
  <2>2. CASE q # p
    <3>1. runs'[p] = runs[p] /\ verification'[p] = verification[p]
      BY <2>2, <1>4 DEF EnqueueRun, NativeConclude, WorkflowConclude, PullTypeOK
    <3> QED
      BY <3>1, <2>1, <1>0 DEF PullConsistent, Passed
  <2>3. CASE q = p
    <3>1. pull[p] # NoPull
      BY <2>3, <1>0, <1>4 DEF EnqueueRun, NativeConclude, WorkflowConclude, PullConsistent, Opened
    <3>2. verification'[p] = "passed" => Passed(p)'
      <4>1. verification'[p] = verification[p] \/ runs'[p][r] = "success" \/ verification'[p] = "failed"
        BY <2>3, <1>4 DEF EnqueueRun, NativeConclude, WorkflowConclude, PullTypeOK
      <4> QED
        BY <4>1, <1>0 DEF PullConsistent, Passed
    <3>3. runs'[p][OwnRun] # "none"
      <4>1. OwnRun \in Runs
        BY BoundAssumption, SMT DEF OwnRun, Runs
      <4>2. \E s \in RunStates \ {"none"} : runs' = [runs EXCEPT ![p][r] = s]
        BY <2>3, <1>4 DEF EnqueueRun, NativeConclude, WorkflowConclude, RunStates
      <4> QED
        BY <4>1, <4>2, <3>1, <1>0 DEF PullConsistent, PullTypeOK
    <3> QED
      BY <3>1, <3>2, <3>3, <2>1, <1>0 DEF PullConsistent
  <2> QED
    BY <2>2, <2>3
<1>5. ASSUME NEW u \in Principals, MergeTransaction(u)
      PROVE  PullConsistent(p)'
  <2>1. UNCHANGED evidence
    BY <1>5 DEF MergeTransaction
  <2>2. pull[p] # NoPull => pull'[p].commit = pull[p].commit
    BY DEF EvidenceGrows, Opened
  <2>3. pull'[p] = NoPull => pull[p] = NoPull
    BY DEF EvidenceGrows, Opened
  <2>4. pull[p] = NoPull => pull'[p] = NoPull
    <3>1. merging[u].pull \in Opened
      BY <1>5 DEF RequestsConsistent, HandlerConsistent, MergeTransaction, At
    <3> QED
      BY <3>1, <1>5 DEF MergeTransaction, Opened, PullTypeOK
  <2> QED
    BY <2>1, <2>2, <2>3, <2>4, <1>0 DEF PullConsistent, evidence, Passed
<1>6. CASE /\ ~ UNCHANGED <<pull, evidence>>
           /\ \/ \E u \in Developers :
                   \/ \E b \in Branches : Commit(u, b)
                   \/ \E from \in Branches, into \in Branches : Integrate(u, from, into)
                   \/ Pull(u) \/ Push(u)
              \/ \E q \in Policies : SetBranchPolicy(q)
              \/ \E q \in Floors \cup {NoPolicy} : SetOrganizationPolicy(q)
              \/ DeleteBranchPolicy
              \/ \E u \in Principals :
                   \/ \E q \in Pulls : MergeReadRow(u, q)
                   \/ MergeCountReviews(u) \/ MergeCountPending(u)
                   \/ MergeReadRefs(u) \/ MergeStops(u)
  BY <1>6 DEF Commit, Integrate, Pull, Push, SetBranchPolicy, SetOrganizationPolicy,
     DeleteBranchPolicy, MergeReadRow, MergeCountReviews, MergeCountPending, MergeReadRefs, MergeStops
<1> QED
  BY <1>1, <1>2, <1>3, <1>4, <1>5, <1>6 DEF Next, Merge

(* The handler that moves has just checked what its new phase stands for.  *)
LEMMA HandlerAdvances ==
  ASSUME PullTypeOK, RepositoryConsistent, RequestsConsistent, NEW u \in Principals, Merge(u)
  PROVE  HandlerConsistent(u)'
<1> USE NullAssumption
<1>0. HandlerConsistent(u) /\ merging[u] \in Merges
  BY DEF RequestsConsistent, PullTypeOK
<1>1. ASSUME NEW p \in Pulls, MergeReadRow(u, p)
      PROVE  HandlerConsistent(u)'
  <2>1. /\ p \in Opened /\ ~ pull[p].draft /\ Passed(p)
        /\ UNCHANGED <<pull, evidence>>
    BY <1>1 DEF MergeReadRow, RequestsConsistent, PullConsistent
  <2>2. merging'[u] = [phase |-> "row", pull |-> p, base |-> NoCommit]
    BY <1>1 DEF MergeReadRow, PullTypeOK
  <2> QED
    BY <2>1, <2>2 DEF HandlerConsistent, At, Opened, Passed, evidence
<1>2. CASE MergeCountReviews(u)
  <2>1. /\ merging'[u] = [merging[u] EXCEPT !.phase = "failures"]
        /\ UNCHANGED <<pull, evidence>>
        /\ At(u, "row") /\ Approved(merging[u].pull)
    BY <1>2 DEF MergeCountReviews, Advance, PullTypeOK, Approved
  <2>2. merging'[u].pull = merging[u].pull /\ merging'[u].phase = "failures"
    BY <2>1, <1>0 DEF Merges, Idle
  <2> QED
    BY <2>1, <2>2, <1>0 DEF HandlerConsistent, At, Opened, Passed, Approved, Approvers, evidence
<1>3. CASE MergeCountPending(u)
  <2>1. /\ merging'[u] = [merging[u] EXCEPT !.phase = "pending"]
        /\ UNCHANGED <<pull, evidence>>
        /\ At(u, "failures")
    BY <1>3 DEF MergeCountPending, Advance, PullTypeOK
  <2>2. merging'[u].pull = merging[u].pull /\ merging'[u].phase = "pending"
    BY <2>1, <1>0 DEF Merges, Idle
  <2> QED
    BY <2>1, <2>2, <1>0 DEF HandlerConsistent, At, Opened, Passed, Approved, Approvers, evidence
<1>4. CASE MergeReadRefs(u)
  <2>1. /\ merging'[u] = [merging[u] EXCEPT !.phase = "refs", !.base = refs[Base]]
        /\ UNCHANGED <<pull, evidence, stored>>
        /\ At(u, "pending")
        /\ refs[Base] \in stored
    BY <1>4 DEF MergeReadRefs, PullTypeOK, repository, RepositoryConsistent, Branches
  <2>2. /\ merging'[u].pull = merging[u].pull /\ merging'[u].phase = "refs"
        /\ merging'[u].base = refs[Base]
    BY <2>1, <1>0 DEF Merges, Idle
  <2> QED
    BY <2>1, <2>2, <1>0 DEF HandlerConsistent, At, Opened, Passed, Approved, Approvers, evidence
<1>5. CASE MergeTransaction(u) \/ MergeStops(u)
  <2>1. merging'[u] = Idle
    BY <1>5 DEF MergeTransaction, MergeStops, PullTypeOK
  <2> QED
    BY <2>1 DEF HandlerConsistent, At, Idle
<1> QED
  BY <1>1, <1>2, <1>3, <1>4, <1>5 DEF Merge

LEMMA OtherHandlersWait ==
  ASSUME PullTypeOK, Next, NEW w \in Principals, merging'[w] # merging[w]
  PROVE  Merge(w)
<1>1. ASSUME NEW u \in Principals, Merge(u), u # w
      PROVE  merging'[w] = merging[w]
  BY <1>1 DEF Merge, MergeReadRow, MergeCountReviews, MergeCountPending, MergeReadRefs,
     MergeTransaction, MergeStops, Advance, PullTypeOK
<1> QED
  BY <1>1 DEF Next, Commit, Integrate, Pull, Push, OpenPull, SubmitReview, EnqueueRun,
     NativeConclude, WorkflowConclude, SetBranchPolicy, SetOrganizationPolicy, DeleteBranchPolicy

LEMMA NextKeepsRepository ==
  ASSUME PullInvariant, Next
  PROVE  PullTypeOK' /\ RepositoryConsistent' /\ stored \subseteq stored'
<1>1. PullTypeOK /\ RepositoryConsistent
  BY DEF PullInvariant
<1>2. ASSUME NEW u \in Developers, NEW b \in Branches, Commit(u, b)
      PROVE  PullTypeOK' /\ RepositoryConsistent' /\ stored \subseteq stored'
  BY <1>1, <1>2, CommitKeeps DEF Commit
<1>3. ASSUME NEW u \in Developers, NEW f \in Branches, NEW t \in Branches, Integrate(u, f, t)
      PROVE  PullTypeOK' /\ RepositoryConsistent' /\ stored \subseteq stored'
  BY <1>1, <1>3, IntegrateKeeps DEF Integrate
<1>4. ASSUME NEW u \in Developers, Pull(u) \/ Push(u)
      PROVE  PullTypeOK' /\ RepositoryConsistent' /\ stored \subseteq stored'
  BY <1>1, <1>4, PullKeeps, PushKeeps DEF Pull
<1>5. ASSUME NEW u \in Principals, MergeTransaction(u)
      PROVE  PullTypeOK' /\ RepositoryConsistent' /\ stored \subseteq stored'
  BY <1>5, TransactionKeeps
<1>6. CASE Collaboration
  BY <1>1, <1>6, CollaborationTypes, CollaborationKeepsRepository DEF repository
<1> QED
  BY <1>2, <1>3, <1>4, <1>5, <1>6 DEF Next, Merge, Collaboration

LEMMA NextKeepsInvariant ==
  ASSUME PullInvariant, [Next]_vars
  PROVE  PullInvariant'
<1>1. CASE Next
  <2>1. PullTypeOK' /\ RepositoryConsistent' /\ stored \subseteq stored'
    BY <1>1, NextKeepsRepository
  <2>2. EvidenceGrows
    BY <1>1, EvidenceOnlyGrows DEF PullInvariant
  <2>3. \A p \in Pulls : PullConsistent(p)'
    BY <1>1, <2>1, <2>2, PullsStayConsistent DEF PullInvariant
  <2>4. \A u \in Principals : HandlerConsistent(u)'
    <3> SUFFICES ASSUME NEW u \in Principals PROVE HandlerConsistent(u)'
      OBVIOUS
    <3>1. CASE merging'[u] = merging[u]
      BY <2>1, <2>2, <3>1, HandlerGoesOn DEF PullInvariant, RequestsConsistent
    <3>2. CASE merging'[u] # merging[u]
      BY <1>1, <3>2, OtherHandlersWait, HandlerAdvances DEF PullInvariant
    <3> QED
      BY <3>1, <3>2
  <2> QED
    BY <2>1, <2>3, <2>4 DEF PullInvariant, RequestsConsistent
<1>2. CASE UNCHANGED vars
  <2>1. PullTypeOK'
    BY <1>2 DEF vars, repository, evidence, rules, PullInvariant, PullTypeOK
  <2>2. RepositoryConsistent'
    BY <1>2, CollaborationKeepsRepository DEF vars, PullInvariant
  <2>3. RequestsConsistent'
    BY <1>2 DEF vars, repository, evidence, rules, PullInvariant, RequestsConsistent, PullConsistent,
       HandlerConsistent, At, Opened, Passed, Approved, Approvers
  <2> QED
    BY <2>1, <2>2, <2>3 DEF PullInvariant
<1> QED
  BY <1>1, <1>2

-----------------------------------------------------------------------------
(* A handler that becomes idle with its pull request newly merged, or with *)
(* the base branch moved, has run its transaction.                         *)
LEMMA OnlyTransactionsMerge ==
  ASSUME PullInvariant, Next, NEW u \in Principals, At(u, "refs"), merging'[u] = Idle,
         pull' # pull \/ refs' # refs
  PROVE  MergeTransaction(u)
<1>1. Merge(u)
  BY OtherHandlersWait DEF PullInvariant, At, Idle
<1> QED
  BY <1>1 DEF Merge, MergeReadRow, MergeCountReviews, MergeCountPending, MergeReadRefs, MergeStops,
     repository

(* Type correctness, for any number of people, pull requests and commits.  *)
THEOREM PullTypesHold == Spec => []PullTypeOK
<1>1. PullInvariant => PullTypeOK
  BY DEF PullInvariant
<1> QED
  BY InitEstablishes, NextKeepsInvariant, <1>1, PTL DEF Spec

(* Every hosted branch can be reconstructed (HeadsAreReconstructable),     *)
(* whichever clones are pushed over it.                                    *)
THEOREM HostedHeadsAreReconstructable == Spec => []HeadsAreReconstructable
<1>1. PullInvariant => HeadsAreReconstructable
  BY DEF PullInvariant, RepositoryConsistent, HeadsAreReconstructable
<1> QED
  BY InitEstablishes, NextKeepsInvariant, <1>1, PTL DEF Spec

(* A merge loses nothing of a base branch nobody has moved since it was    *)
(* read (MergesKeepUnmovedBase).                                           *)
THEOREM UnmovedBaseIsKept == Spec => MergesKeepUnmovedBase
<1>1. ASSUME PullInvariant, [Next]_vars
      PROVE  [\A u \in Principals : Merging(u) /\ refs[Base] = merging[u].base
                => refs[Base] \in history'[refs'[Base]]]_vars
  <2> SUFFICES ASSUME Next, NEW u \in Principals, Merging(u), refs[Base] = merging[u].base
               PROVE  refs[Base] \in history'[refs'[Base]]
    BY <1>1
  <2>1. MergeTransaction(u)
    BY <1>1, OnlyTransactionsMerge DEF Merging
  <2> QED
    BY <1>1, <2>1, TransactionMoves DEF Merging
<1> QED
  BY <1>1, InitEstablishes, NextKeepsInvariant, PTL DEF Spec, MergesKeepUnmovedBase

(* What the trigger asks of all policies together is enough for each.      *)
LEMMA TriggerIsEnough ==
  ASSUME PullInvariant, NEW u \in Principals, NEW p \in Opened, p \notin Merged,
         TriggerAllows(u, p), NEW q \in InForce
  PROVE  Satisfies(p, q)
<1> DEFINE together == Approvers(p, Demands("independent"))
           alone == Approvers(p, q.independent)
<1>1. q \in PolicyRows
  BY PolicyAssumption DEF InForce, PullInvariant, PullTypeOK
<1>2. \A k \in Switches : q[k] => Demands(k)
  BY DEF Demands
<1>3. /\ Cardinality(together) >= q.approvals
      /\ Cardinality(together \cap Humans) >= q.humans
      /\ Demands("block") => ~ ChangesRequested(p)
      /\ Demands("verification") => verification[p] = "passed"
      /\ Demands("actions") => ~ Unsuccessful(p)
      /\ refs[pull[p].head] = pull[p].commit
  BY DEF TriggerAllows, Merged
<1>4. together \subseteq alone
  BY <1>2 DEF Approvers, Switches
<1>5. /\ Cardinality(alone) >= q.approvals
      /\ Cardinality(alone \cap Humans) >= q.humans
  <2>1. IsFiniteSet(alone) /\ IsFiniteSet(alone \cap Humans)
    BY PeopleAssumption, FS_Subset DEF Approvers
  <2>2. /\ Cardinality(together) <= Cardinality(alone)
        /\ Cardinality(together \cap Humans) <= Cardinality(alone \cap Humans)
        /\ IsFiniteSet(together) /\ IsFiniteSet(together \cap Humans)
    BY <1>4, <2>1, FS_Subset
  <2>3. /\ Cardinality(alone) \in Nat /\ Cardinality(together) \in Nat
        /\ Cardinality(alone \cap Humans) \in Nat /\ Cardinality(together \cap Humans) \in Nat
    BY <2>1, <2>2, FS_CardinalityType
  <2>4. q.approvals \in Nat /\ q.humans \in Nat
    BY <1>1 DEF PolicyRows
  <2> HIDE DEF together, alone
  <2> QED
    BY <1>3, <2>2, <2>3, <2>4, SMT
<1>6. q.block => ~ ChangesRequested(p)
  BY <1>2, <1>3 DEF Switches
<1>7. q.verification => verification[p] = "passed"
  BY <1>2, <1>3 DEF Switches
<1>8. q.actions => runs[p][OwnRun] = "success" /\ ~ Failed(p) /\ ~ Pending(p)
  <2>1. SUFFICES ASSUME q.actions
                 PROVE  runs[p][OwnRun] = "success" /\ ~ Failed(p) /\ ~ Pending(p)
    OBVIOUS
  <2>2. ~ Unsuccessful(p)
    BY <1>2, <1>3, <2>1 DEF Switches
  <2>3. OwnRun \in Runs
    BY BoundAssumption, SMT DEF OwnRun, Runs
  <2>4. runs[p][OwnRun] \in RunStates /\ runs[p][OwnRun] # "none"
    BY <2>3 DEF PullInvariant, PullTypeOK, RequestsConsistent, PullConsistent, Opened
  <2> QED
    BY <2>2, <2>3, <2>4 DEF Unsuccessful, Failed, Pending, RunStates
<1> QED
  BY <1>3, <1>5, <1>6, <1>7, <1>8 DEF Satisfies

(* Whatever happened since the handler read the pull request, it is merged *)
(* only in accordance with every policy in force (MergesSatisfyPolicies).  *)
THEOREM PoliciesAreObeyed == Spec => MergesSatisfyPolicies
<1>1. ASSUME PullInvariant, [Next]_vars
      PROVE  [\A u \in Principals, p \in Pulls :
                MergedBy(u, p) => \A q \in InForce : Satisfies(p, q)]_vars
  <2> SUFFICES ASSUME Next, NEW u \in Principals, NEW p \in Pulls, MergedBy(u, p), NEW q \in InForce
               PROVE  Satisfies(p, q)
    BY <1>1
  <2>1. pull' # pull
    BY DEF MergedBy, Merged, Opened
  <2>2. MergeTransaction(u)
    BY <1>1, <2>1, OnlyTransactionsMerge DEF MergedBy
  <2>3. TriggerAllows(u, p)
    BY <2>2 DEF MergedBy, MergeTransaction
  <2>4. p \in Opened
    BY <1>1 DEF MergedBy, PullInvariant, RequestsConsistent, HandlerConsistent, At
  <2> QED
    BY <1>1, <2>3, <2>4, TriggerIsEnough DEF MergedBy
<1> QED
  BY <1>1, InitEstablishes, NextKeepsInvariant, PTL DEF Spec, MergesSatisfyPolicies

-----------------------------------------------------------------------------
(* The refinement, one pull request at a time.                             *)
LEMMA ReadyLasts ==
  ASSUME PullTypeOK, EvidenceGrows, NEW p \in Opened, Ready(p)
  PROVE  Ready(p)'
<1>1. ~ pull[p].draft /\ Approved(p) /\ Passed(p)
  BY DEF Ready, Approved, Passed
<1>2. ~ pull'[p].draft /\ Passed(p)'
  BY <1>1 DEF EvidenceGrows, Passed, Opened
<1>3. Approved(p)'
  BY <1>1, ApprovalsGrow, RequiredIsNatural DEF EvidenceGrows, Opened
<1> QED
  BY <1>2, <1>3 DEF Ready, Approved, Passed

LEMMA StageMoves ==
  ASSUME PullInvariant, Next, EvidenceGrows, NEW p \in Pulls
  PROVE  \/ Stage(p)' = Stage(p)
         \/ Stage(p) = "absent" /\ Stage(p)' = "open"
         \/ Stage(p) = "open" /\ Stage(p)' = "ready"
         \/ Stage(p) = "ready" /\ Stage(p)' = "merged"
<1> USE NullAssumption
<1>1. PullTypeOK /\ PullConsistent(p)
  BY DEF PullInvariant, RequestsConsistent
<1>2. CASE p \notin Opened
  <2>1. CASE p \notin Opened'
    BY <1>2, <2>1 DEF Stage
  <2>2. CASE p \in Opened'
    <3>1. PICK u \in Principals : OpenPull(u, p)
      <4>1. pull'[p] # pull[p]
        BY <1>2, <2>2 DEF Opened
      <4>2. ASSUME NEW u \in Principals, NEW q \in Pulls, OpenPull(u, q), q # p
            PROVE  pull'[p] = pull[p]
        BY <4>2, <1>1 DEF OpenPull, PullTypeOK
      <4>3. ASSUME NEW u \in Principals, MergeTransaction(u)
            PROVE  pull'[p] = pull[p]
        <5>1. merging[u].pull # p
          BY <1>2, <4>3 DEF PullInvariant, RequestsConsistent, HandlerConsistent, MergeTransaction, At
        <5> QED
          BY <4>3, <5>1, <1>1 DEF MergeTransaction, PullTypeOK
      <4> QED
        BY <4>1, <4>2, <4>3 DEF Next, Merge, Commit, Integrate, Pull, Push, SubmitReview, EnqueueRun,
           NativeConclude, WorkflowConclude, SetBranchPolicy, SetOrganizationPolicy,
           DeleteBranchPolicy, MergeReadRow, MergeCountReviews, MergeCountPending, MergeReadRefs,
           MergeStops
    <3>2. \A r \in Runs : runs[p][r] = "none"
      BY <1>1, <1>2 DEF PullConsistent, Opened
    <3>3. \A r \in Runs : runs'[p][r] # "success"
      BY <3>1, <3>2, <1>1 DEF OpenPull, PullTypeOK
    <3>4. pull'[p].state = "open"
      BY <3>1, <1>1 DEF OpenPull, PullTypeOK
    <3> QED
      BY <1>2, <2>2, <3>3, <3>4 DEF Stage, Ready, Merged
  <2> QED
    BY <2>1, <2>2
<1>3. CASE p \in Opened
  <2>1. p \in Opened' /\ (p \in Merged => p \in Merged')
    BY <1>3 DEF EvidenceGrows, Opened
  <2>2. Ready(p) => Ready(p)'
    BY <1>1, <1>3, ReadyLasts
  <2>3. CASE p \in Merged \/ p \notin Merged'
    BY <1>3, <2>1, <2>2, <2>3 DEF Stage
  <2>4. CASE p \notin Merged /\ p \in Merged'
    <3>1. pull'[p] # pull[p]
      BY <1>3, <2>1, <2>4 DEF Merged
    <3>2. PICK u \in Principals : MergeTransaction(u)
      <4>1. ASSUME NEW u \in Principals, NEW q \in Pulls, OpenPull(u, q)
            PROVE  pull'[p] = pull[p]
        BY <4>1, <1>1, <1>3 DEF OpenPull, PullTypeOK, Opened
      <4> QED
        BY <3>1, <4>1 DEF Next, Merge, Commit, Integrate, Pull, Push, SubmitReview, EnqueueRun,
           NativeConclude, WorkflowConclude, SetBranchPolicy, SetOrganizationPolicy,
           DeleteBranchPolicy, MergeReadRow, MergeCountReviews, MergeCountPending, MergeReadRefs,
           MergeStops
    <3>3. merging[u].pull = p
      BY <3>1, <3>2, <1>1 DEF MergeTransaction, PullTypeOK
    <3>4. Ready(p)
      BY <3>2, <3>3 DEF PullInvariant, RequestsConsistent, HandlerConsistent, MergeTransaction, At,
         Ready, Approved, Passed
    <3> QED
      BY <1>3, <2>1, <2>4, <3>4 DEF Stage
  <2> QED
    BY <2>3, <2>4
<1> QED
  BY <1>2, <1>3

(* The merge handler, with all that happens under it, implements the       *)
(* lifecycle of a pull request (PullsFollowLifecycle).                     *)
THEOREM MergingImplementsLifecycle == Spec => PullsFollowLifecycle
<1> DEFINE stages == [p \in Pulls |-> Stage(p)]
<1>1. Init => Lifecycle!Init
  BY DEF Init, Lifecycle!Init, Stage, Opened
<1>2. ASSUME PullInvariant, [Next]_vars
      PROVE  [Lifecycle!Next]_stages
  <2>1. CASE Next
    <3>1. EvidenceGrows
      BY <2>1, <1>2, EvidenceOnlyGrows DEF PullInvariant
    <3>2. \A p \in Pulls : Lifecycle!Move(p)
      BY <1>2, <2>1, <3>1, StageMoves DEF Lifecycle!Move
    <3>3. stages' \in [Pulls -> Lifecycle!Stages]
      BY DEF Lifecycle!Stages, Stage
    <3> QED
      BY <3>2, <3>3 DEF Lifecycle!Next
  <2>2. CASE UNCHANGED vars
    <3>1. \A p \in Pulls : Stage(p)' = Stage(p)
      BY <2>2 DEF vars, repository, evidence, rules, Stage, Opened, Merged, Ready, Approvers
    <3> QED
      BY <3>1
  <2> QED
    BY <1>2, <2>1, <2>2
<1> QED
  BY <1>1, <1>2, InitEstablishes, NextKeepsInvariant, PTL
     DEF Spec, PullsFollowLifecycle, Lifecycle!Spec
=============================================================================
