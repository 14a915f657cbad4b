-------------------------- MODULE NativeRepository --------------------------
(* The working copy of a native repository (native-repository/src/core.ts):  *)
(* a work tree, a stage, workstreams with a head checkpoint, and the .sessions *)
(* directory that holds checkpoints and objects.  One process works on a copy; *)
(* its commands write several files one after the other with nothing that      *)
(* makes them one step, so a command is a list of the writes it still has to   *)
(* make (todo) and a crash may drop the rest of it.                            *)
EXTENDS Naturals, Sequences

CONSTANTS Paths, Contents,  \* of files; two contents are equal iff their digests are
          Streams, Main,    \* workstreams, and the one init creates
          Absent,           \* a path without a file; on the stage, a staged removal
          Unstaged,         \* a path without an entry on the stage
          MaxCheckpoints    \* bound on the checkpoints of a behaviour

ASSUME StreamsAssumption == Main \in Streams
ASSUME MarksAssumption == /\ Absent \notin Contents
                          /\ Unstaged \notin Contents \cup {Absent}
ASSUME BoundAssumption == MaxCheckpoints \in Nat

VARIABLES setup,        \* which files of init exist: "none", "manifest", "stream", "ready"
          tree,         \* the work tree
          stage,        \* index/stage.json
          checkpoints,  \* the checkpoint records, in the order of their creation
          blobs,        \* objects/blobs
          heads,        \* head checkpoint of a workstream, 0 when it has none
          streams,      \* the workstreams that exist
          active,       \* state.json
          todo          \* what the command in progress still has to do

repoVars == <<setup, tree, stage, checkpoints, blobs, heads, streams, active, todo>>

Files == Contents \cup {Absent}
Trees == [Paths -> Files]
Ids == 0..MaxCheckpoints   \* 0: no checkpoint
Verbs == {"stream", "state", "checkpoint", "head", "activeHead", "clearStage", "apply",
          "activate", "restore", "stageAll", "record", "resolve"}
Tasks == [do : Verbs, stream : Streams, id : Nat]

RepoTypeOK ==
  /\ setup \in {"none", "manifest", "stream", "ready"}
  /\ tree \in Trees
  /\ stage \in [Paths -> Files \cup {Unstaged}]
  /\ checkpoints \in Seq([tree : Trees, parents : SUBSET Nat, stream : Streams])
  /\ blobs \subseteq Contents
  /\ heads \in [Streams -> Nat]
  /\ streams \subseteq Streams
  /\ active \in Streams
  /\ todo \in Seq(Tasks)

RepoInit ==
  /\ setup = "none"
  /\ tree \in Trees
  /\ stage = [p \in Paths |-> Unstaged]
  /\ checkpoints = <<>>
  /\ blobs = {}
  /\ heads = [s \in Streams |-> 0]
  /\ streams = {}
  /\ active = Main
  /\ todo = <<>>

-----------------------------------------------------------------------------
(* What the commands read                                                    *)

NoFiles == [p \in Paths |-> Absent]
TreeOf(id) == IF id \in DOMAIN checkpoints THEN checkpoints[id].tree ELSE NoFiles

\* getActiveWorkstream, and the files of its head
ActiveHead == heads[active]
HeadTree == TreeOf(ActiveHead)

\* applyStage: the head with the staged entries put over it
StagedTree == [p \in Paths |-> IF stage[p] = Unstaged THEN HeadTree[p] ELSE stage[p]]

\* resolveWorkstream finds it among the workstreams that exist.
Exists(s) == s \in streams

StageEmpty == \A p \in Paths : stage[p] = Unstaged

\* repositoryStatus: no staged and no unstaged difference
Clean == StagedTree = HeadTree /\ tree = StagedTree

Parents(id) == IF id \in DOMAIN checkpoints THEN checkpoints[id].parents ELSE {}

\* A parent is always older than its child, so the graph is walked by number.
AncestorSets ==
  LET anc[i \in 0..Len(checkpoints)] ==
        {i} \cup UNION {anc[j] : j \in {k \in Parents(i) : k < i}}
  IN anc
Ancestors(id) == IF id = 0 THEN {} ELSE AncestorSets[id]

\* The generations the breadth-first search from the target's head visits
Generation(id) ==
  LET gen[n \in 0..Len(checkpoints)] ==
        IF n = 0 THEN {id} \ {0} ELSE UNION {Parents(i) : i \in gen[n - 1]}
  IN gen

\* The bases commonAncestor may return: the nearest to the target's head
CommonAncestors(source, target) ==
  LET gen == Generation(target)
      shared == Ancestors(source)
      depths == {n \in DOMAIN gen : gen[n] \cap shared # {}}
  IN IF depths = {} THEN {0}
     ELSE gen[CHOOSE n \in depths : \A m \in depths : n <= m] \cap shared

Changed(base, id) == {p \in Paths : TreeOf(base)[p] # TreeOf(id)[p]}
Conflicts(base, source, target) == Changed(base, source) \cap Changed(base, target)
\* Mutants: a merge that takes the incoming files alone, and one that takes the
\* source's version of every path
MergedIncomingOnly(base, source, target) ==
  [p \in Changed(base, source) |-> TreeOf(source)[p]]
MergedSourceWins(base, source, target) == TreeOf(source)

Merged(base, source, target) ==
  [p \in Paths |-> IF p \in Changed(base, source) THEN TreeOf(source)[p] ELSE TreeOf(target)[p]]

-----------------------------------------------------------------------------
(* The writes of a command, one file each                                    *)

Do(verb, s, id) == [do |-> verb, stream |-> s, id |-> id]
Idle == todo = <<>> /\ setup = "ready"
Room == Len(checkpoints) < MaxCheckpoints
MergeRoom == Len(checkpoints) <= MaxCheckpoints  \* one merge more than that
Next1(verb) == todo # <<>> /\ Head(todo).do = verb

Contained(t) == {t[p] : p \in Paths} \ {Absent}

\* persistBlob, for each file: an object that is stored is left alone.
Store(files) == blobs' = blobs \cup (files \cap Contents)

AppendCheckpoint(t, parents) ==
  checkpoints' = Append(checkpoints, [tree |-> t, parents |-> parents \ {0}, stream |-> active])

\* Mutant: the head is written before the checkpoint it names.
WriteCheckpointHeadFirst ==
  /\ Next1("checkpoint")
  /\ heads' = [heads EXCEPT ![active] = Len(checkpoints) + 1]
  /\ UNCHANGED <<setup, tree, stage, checkpoints, blobs, streams, active, todo>>

\* createCheckpoint, up to the checkpoint record: the stage when there is one,
\* the whole work tree otherwise.  For a missing object the file is read again
\* from the work tree, whatever it holds now.
WriteCheckpoint ==
  LET entries == IF StageEmpty THEN tree ELSE StagedTree
      missing == {p \in Paths : entries[p] \notin blobs}
  IN
  /\ Next1("checkpoint")
  /\ AppendCheckpoint(entries, {ActiveHead})
  /\ Store({tree[p] : p \in missing})
  /\ todo' = <<Do("head", active, Len(checkpoints) + 1), Do("clearStage", active, 0)>>
             \o Tail(todo)
  /\ UNCHANGED <<setup, tree, stage, heads, streams, active>>

MoveHead(s, id) ==
  /\ heads' = [heads EXCEPT ![s] = id]
  /\ todo' = Tail(todo)
  /\ UNCHANGED <<setup, tree, stage, checkpoints, blobs, streams, active>>

WriteHead == Next1("head") /\ MoveHead(Head(todo).stream, Head(todo).id)
WriteActiveHead == Next1("activeHead") /\ MoveHead(active, Head(todo).id)

ClearStage ==
  /\ Next1("clearStage")
  /\ stage' = [p \in Paths |-> Unstaged]
  /\ todo' = Tail(todo)
  /\ UNCHANGED <<setup, tree, checkpoints, blobs, heads, streams, active>>

WriteState ==
  /\ Next1("activate")
  /\ active' = Head(todo).stream
  /\ todo' = Tail(todo)
  /\ UNCHANGED <<setup, tree, stage, checkpoints, blobs, heads, streams>>

\* applyCheckpointToWorkingTree: one file is removed or written
ApplyFile(p) ==
  LET target == TreeOf(Head(todo).id) IN
  /\ Next1("apply")
  /\ tree[p] # target[p]
  /\ tree' = [tree EXCEPT ![p] = target[p]]
  /\ UNCHANGED <<setup, stage, checkpoints, blobs, heads, streams, active, todo>>

Applied ==
  /\ Next1("apply")
  /\ tree = TreeOf(Head(todo).id)
  /\ todo' = Tail(todo)
  /\ UNCHANGED <<setup, tree, stage, checkpoints, blobs, heads, streams, active>>

\* Mutant: staged changes alone are protected.
RestoreTaskStagedOnly ==
  LET id == Head(todo).id
      replace == <<Do("apply", active, id), Do("clearStage", active, 0),
                   Do("activeHead", active, id)>>
  IN /\ Next1("restore")
     /\ todo' = (IF StageEmpty THEN <<>> ELSE <<Do("checkpoint", active, 0)>>)
                \o replace \o Tail(todo)
     /\ UNCHANGED <<setup, tree, stage, checkpoints, blobs, heads, streams, active>>

\* restoreCheckpoint: work that is not in a checkpoint gets a protection
\* checkpoint before the work tree is replaced.
RestoreTask ==
  LET id == Head(todo).id
      replace == <<Do("apply", active, id), Do("clearStage", active, 0),
                   Do("activeHead", active, id)>>
  IN /\ Next1("restore")
     /\ todo' = (IF Clean THEN <<>> ELSE <<Do("checkpoint", active, 0)>>)
                \o replace \o Tail(todo)
     /\ UNCHANGED <<setup, tree, stage, checkpoints, blobs, heads, streams, active>>

\* The candidates stagePaths finds among the selected paths
Candidates(selected) == {p \in selected : tree[p] # Absent \/ HeadTree[p] # Absent}
StageOf(selected) ==
  [p \in Paths |-> IF p \notin Candidates(selected) THEN stage[p]
                   ELSE IF tree[p] = HeadTree[p] THEN Unstaged ELSE tree[p]]
\* Mutant: the staged content is recorded by its digest and not stored.
StageSelectedByDigest(selected) == stage' = StageOf(selected) /\ UNCHANGED blobs
StageSelected(selected) ==
  /\ stage' = StageOf(selected)
  /\ Store({StageOf(selected)[p] : p \in Candidates(selected)})

\* stagePaths(["."]) within revertCheckpoint; it throws when there is no candidate,
\* and what follows in the command does not happen.
StageAll ==
  /\ Next1("stageAll")
  /\ IF Candidates(Paths) = {}
       THEN todo' = <<>> /\ UNCHANGED <<stage, blobs>>
       ELSE todo' = Tail(todo) /\ StageSelected(Paths)
  /\ UNCHANGED <<setup, tree, checkpoints, heads, streams, active>>

TaskStep ==
  \/ WriteCheckpoint \/ WriteHead \/ WriteActiveHead \/ ClearStage \/ WriteState
  \/ Applied \/ RestoreTask \/ StageAll
  \/ \E p \in Paths : ApplyFile(p)

-----------------------------------------------------------------------------
(* init, and the commands of the command line and of the editor extension    *)

\* initializeRepository: returns the manifest it finds, whatever else exists.
Initialize ==
  /\ setup = "none" /\ todo = <<>>
  /\ setup' = "manifest"
  /\ todo' = <<Do("stream", Main, 0), Do("state", Main, 0)>>
  /\ UNCHANGED <<tree, stage, checkpoints, blobs, heads, streams, active>>

InitializeStep ==
  \/ /\ Next1("stream")
     /\ setup' = "stream" /\ streams' = {Main} /\ todo' = Tail(todo)
     /\ UNCHANGED <<tree, stage, checkpoints, blobs, heads, active>>
  \/ /\ Next1("state")
     /\ setup' = "ready" /\ active' = Main /\ todo' = Tail(todo)
     /\ UNCHANGED <<tree, stage, checkpoints, blobs, heads, streams>>

\* The user edits, adds or deletes a file; not while a command runs.
Edit(p, c) ==
  /\ todo = <<>> /\ tree[p] # c
  /\ tree' = [tree EXCEPT ![p] = c]
  /\ UNCHANGED <<setup, stage, checkpoints, blobs, heads, streams, active, todo>>

StagePaths(selected) ==
  /\ Idle /\ Candidates(selected) # {}
  /\ StageSelected(selected)
  /\ UNCHANGED <<setup, tree, checkpoints, heads, streams, active, todo>>

UnstagePaths(selected) ==
  /\ Idle
  /\ stage' = [p \in Paths |-> IF p \in selected THEN Unstaged ELSE stage[p]]
  /\ UNCHANGED <<setup, tree, checkpoints, blobs, heads, streams, active, todo>>

Begin(tasks) ==
  /\ todo' = tasks
  /\ UNCHANGED <<setup, tree, stage, checkpoints, blobs, heads, streams, active>>

Commit == Idle /\ Room /\ Begin(<<Do("checkpoint", active, 0)>>)

CheckoutTasks(s) ==
  <<Do("apply", s, heads[s]), Do("clearStage", s, 0), Do("activate", s, 0)>>

Checkout(s) == Idle /\ Exists(s) /\ Clean /\ Begin(CheckoutTasks(s))

\* createWorkstream from the active head, as "sessions branch" calls it, and
\* "sessions work", which then checks the workstream out and fails half-way
\* when the work tree is not clean.
CreateWorkstream(s, enter) ==
  /\ Idle /\ ~Exists(s)
  /\ streams' = streams \cup {s}
  /\ heads' = [heads EXCEPT ![s] = ActiveHead]
  /\ todo' = IF enter /\ Clean
               THEN <<Do("apply", s, ActiveHead), Do("clearStage", s, 0), Do("activate", s, 0)>>
               ELSE <<>>
  /\ UNCHANGED <<setup, tree, stage, checkpoints, blobs, active>>

\* "sessions restore --apply": what is staged is unstaged first.
Restore(id) ==
  /\ Idle /\ Room /\ id \in DOMAIN checkpoints
  /\ Begin((IF StageEmpty THEN <<>> ELSE <<Do("clearStage", active, 0)>>)
           \o <<Do("restore", active, id)>>)

Revert(id) ==
  /\ Idle /\ Room /\ Clean /\ ActiveHead # 0 /\ id \in DOMAIN checkpoints
  /\ Begin(<<Do("restore", active, id), Do("stageAll", active, 0), Do("checkpoint", active, 0)>>)

\* Mutant: the heads are compared the wrong way round for a fast-forward.
IntegratedBackward(source, base) ==
  LET from == heads[source] IN
  IF from = 0 THEN Begin(<<>>)
  ELSE base = from /\ Begin(<<Do("apply", active, from), Do("head", active, from)>>)

\* integrateWorkstream once the preview, with this base, shows no conflict
Integrated(source, base) ==
  LET from == heads[source]
      into == ActiveHead
      new == Len(checkpoints) + 1
  IN IF from = 0 THEN Begin(<<>>)
     ELSE IF base = into
     THEN Begin(<<Do("apply", active, from), Do("head", active, from)>>)
     ELSE /\ MergeRoom
          /\ AppendCheckpoint(Merged(base, from, into), {into, from})
          /\ todo' = <<Do("head", active, new), Do("apply", active, new)>>
          /\ UNCHANGED <<setup, tree, stage, blobs, heads, streams, active>>

Bases(source) == CommonAncestors(heads[source], ActiveHead)
ConflictsWith(source, base) == Conflicts(base, heads[source], ActiveHead)

Integrate(source) ==
  /\ Idle /\ Clean /\ Exists(source) /\ source # active
  /\ \E base \in Bases(source) :
       ConflictsWith(source, base) = {} /\ Integrated(source, base)

\* The process dies: what the command had still to write is never written.
Crash ==
  /\ todo # <<>>
  /\ todo' = <<>>
  /\ UNCHANGED <<setup, tree, stage, checkpoints, blobs, heads, streams, active>>

Command ==
  \/ Initialize \/ InitializeStep
  \/ \E p \in Paths, c \in Files : Edit(p, c)
  \/ \E selected \in SUBSET Paths \ {{}} : StagePaths(selected) \/ UnstagePaths(selected)
  \/ Commit
  \/ \E s \in Streams : \/ Checkout(s) \/ Integrate(s)
                        \/ \E enter \in BOOLEAN : CreateWorkstream(s, enter)
  \/ \E id \in DOMAIN checkpoints : Restore(id) \/ Revert(id)
  \/ Crash

RepoNext == Command \/ TaskStep

-----------------------------------------------------------------------------
(* Properties                                                                *)

\* verifyRepositoryIntegrity: the objects that a checkpoint names and that are
\* not stored; a stored object has the content its name is the digest of.
IntegrityErrors ==
  (UNION {Contained(checkpoints[i].tree) : i \in DOMAIN checkpoints}) \ blobs

\* The tasks whose checkpoint, if they have one, has been written
Grounded == {t \in Tasks : t.do \in {"head", "activeHead", "apply", "restore"} =>
                              t.id \in 0..Len(checkpoints)}

\* Whatever the process had written when it died, a head names a checkpoint
\* that was written before it, and so does every head still to be written.
HeadsResolve ==
  /\ \A s \in Streams : heads[s] \in 0..Len(checkpoints)
  /\ todo \in Seq(Grounded)

\* verifyRepositoryIntegrity finds nothing to report, and the parents of a
\* checkpoint exist and are older than it.
IntegrityHolds ==
  /\ IntegrityErrors = {}
  /\ \A i \in DOMAIN checkpoints : checkpoints[i].parents \subseteq 1..(i - 1)

\* A merge loses no change: where it differs from one of its parents, that
\* parent has what a common ancestor had, and the other parent's file is taken.
MergesLoseNoChange ==
  \A m \in DOMAIN checkpoints : \A a, b \in checkpoints[m].parents :
    a # b => \A p \in Paths :
      checkpoints[m].tree[p] # TreeOf(a)[p] =>
        /\ checkpoints[m].tree[p] = TreeOf(b)[p]
        /\ \E base \in CommonAncestors(a, b) \cup CommonAncestors(b, a) :
             TreeOf(a)[p] = TreeOf(base)[p]

\* A command replaces or removes a file of the work tree only when the file's
\* content is in a checkpoint, so that a restore brings it back; also when the
\* process died in the middle of an earlier command.
NothingLost ==
  [][\A p \in Paths : (todo # <<>> /\ tree'[p] # tree[p] /\ tree[p] # Absent) =>
       \E i \in DOMAIN checkpoints : checkpoints[i].tree[p] = tree[p]]_repoVars
=============================================================================
