-------------------------- MODULE RepositoryProofs --------------------------
(* Theorems about a working copy, for any paths, contents, workstreams and    *)
(* checkpoints: whatever the commands have written when the process dies, no  *)
(* head and no checkpoint names what is not there, and a command replaces no  *)
(* file whose content is in no checkpoint.                                    *)
EXTENDS RepositoryEvolution, TLAPS

\* The strengthening of the invariants, in parts

\* Every file of a checkpoint, and every staged file, is stored as an object.
ObjectsStored ==
  \A i \in DOMAIN checkpoints : \A p \in Paths :
    checkpoints[i].tree[p] # Absent => checkpoints[i].tree[p] \in blobs
StageStored == \A p \in Paths : stage[p] \in Contents => stage[p] \in blobs
ParentsOlder == \A i \in DOMAIN checkpoints : checkpoints[i].parents \subseteq 1..(i - 1)

\* The tasks of a list, and those of them that write a head or read its checkpoint
TasksIn(list) == {list[k] : k \in DOMAIN list}
HeadVerbs == {"head", "activeHead", "apply", "restore"}
GroundedTasks(list) ==
  \A t \in TasksIn(list) : t.do \in HeadVerbs => t.id \in 0..Len(checkpoints)

\* Every head that is, that is still to be written, or that an undo may go back to
\* is that of a checkpoint.
HeadsExist ==
  /\ \A s \in Streams : heads[s] \in 0..Len(checkpoints)
  /\ \A i \in DOMAIN log : log[i].before.head \in 0..Len(checkpoints)
  /\ pending # None => pending.before.head \in 0..Len(checkpoints)
  /\ GroundedTasks(todo)

\* Every file of the work tree is in some checkpoint.
Covered ==
  \A p \in Paths : tree[p] # Absent =>
    \E i \in DOMAIN checkpoints : checkpoints[i].tree[p] = tree[p]

\* The tasks do not replace the work tree, and look at what to do with it when
\* the stage is empty.
Careful(list) ==
  \A t \in TasksIn(list) :
    /\ t.do \notin {"apply", "stageAll"}
    /\ t.do = "restore" => StageEmpty \/ Head(list).do = "clearStage"

\* The work tree is replaced when it is covered, or after a checkpoint of all of it.
Protected ==
  \/ Covered
  \/ Careful(todo)
  \/ /\ StageEmpty /\ Head(todo).do = "checkpoint"
     /\ \A t \in TasksIn(todo) : t.do # "stageAll"

\* A conflict that is or will be marked has its operation in the log.
ConflictsLogged ==
  /\ ResolutionLogged
  /\ \A t \in TasksIn(todo) : t.do = "resolve" => \E j \in DOMAIN log : log[j].resolves = t.id

Sound == /\ ObjectsStored /\ ParentsOlder /\ StageStored
         /\ HeadsExist /\ Protected /\ ConflictsLogged

-----------------------------------------------------------------------------
(* Types                                                                     *)

CheckpointRows == [tree : Trees, parents : SUBSET Nat, stream : Streams]

\* What the commands read is of its type, whatever id it is asked for.
LEMMA TreesAreTotal ==
  ASSUME TypeOK
  PROVE  /\ NoFiles \in Trees /\ \A id \in Nat : TreeOf(id) \in Trees
         /\ HeadTree \in Trees /\ StagedTree \in Trees /\ ActiveHead \in Nat
         /\ \A id \in Nat : Parents(id) \in SUBSET Nat
         /\ Snapshot \in Snapshots
<1>1. /\ checkpoints \in Seq([tree : Trees, parents : SUBSET Nat, stream : Streams])
      /\ tree \in Trees /\ stage \in [Paths -> Files \cup {Unstaged}]
      /\ heads \in [Streams -> Nat] /\ active \in Streams
  BY DEF TypeOK, RepoTypeOK
<1>2. \A i \in DOMAIN checkpoints :
        checkpoints[i] \in [tree : Trees, parents : SUBSET Nat, stream : Streams]
  <2>1. checkpoints \in Seq(CheckpointRows)
    BY <1>1 DEF CheckpointRows
  <2>2. \A i \in DOMAIN checkpoints : checkpoints[i] \in CheckpointRows
    BY <2>1
  <2> QED
    BY <2>2 DEF CheckpointRows
<1>3. NoFiles \in Trees
  BY DEF NoFiles, Trees, Files
<1>4. \A id \in Nat : TreeOf(id) \in Trees
  BY <1>2, <1>3 DEF TreeOf
<1>5. ActiveHead \in Nat
  BY <1>1 DEF ActiveHead
<1>6. HeadTree \in Trees
  BY <1>4, <1>5 DEF HeadTree
<1>7. StagedTree \in Trees
  <2>1. \A p \in Paths : (IF stage[p] = Unstaged THEN HeadTree[p] ELSE stage[p]) \in Files
    BY <1>1, <1>6 DEF Trees
  <2> QED
    BY <2>1 DEF StagedTree, Trees
<1>8. \A id \in Nat : Parents(id) \in SUBSET Nat
  BY <1>2 DEF Parents
<1>9. Snapshot \in Snapshots
  BY <1>1, <1>3, <1>5 DEF Snapshot, Snapshots
<1> QED
  BY <1>3, <1>4, <1>5, <1>6, <1>7, <1>8, <1>9

\* A task of a command is a task.
LEMMA DoIsTask ==
  ASSUME NEW verb \in Verbs, NEW s \in Streams, NEW id \in Nat
  PROVE  /\ Do(verb, s, id) \in Tasks /\ Do(verb, s, id).do = verb
         /\ Do(verb, s, id).stream = s /\ Do(verb, s, id).id = id
BY DEF Do, Tasks
\* The first task of a command and the rest of it
LEMMA TasksSplit ==
  ASSUME TypeOK, todo # <<>>
  PROVE  /\ Head(todo) \in Tasks /\ Tail(todo) \in Seq(Tasks) /\ Head(todo) = todo[1]
         /\ Head(todo).id \in Nat /\ Head(todo).stream \in Streams
         /\ Len(todo) \in Nat \ {0} /\ DOMAIN todo = 1..Len(todo)
         /\ Len(Tail(todo)) = Len(todo) - 1 /\ DOMAIN Tail(todo) = 1..(Len(todo) - 1)
         /\ \A k \in DOMAIN Tail(todo) : Tail(todo)[k] = todo[k + 1] /\ k + 1 \in DOMAIN todo
         /\ \A k \in DOMAIN todo : todo[k] \in Tasks
<1>1. todo \in Seq(Tasks)
  BY DEF TypeOK, RepoTypeOK
<1>2. Head(todo) \in Tasks /\ \A k \in DOMAIN todo : todo[k] \in Tasks
  BY <1>1
<1>3. Head(todo).id \in Nat /\ Head(todo).stream \in Streams
  BY <1>2 DEF Tasks
<1> QED
  BY <1>1, <1>2, <1>3

\* A checkpoint is appended to those there are.
LEMMA CheckpointAppended ==
  ASSUME TypeOK, NEW t \in Trees, NEW parents \in SUBSET Nat, AppendCheckpoint(t, parents)
  PROVE  /\ checkpoints' \in Seq(CheckpointRows)
         /\ Len(checkpoints) \in Nat /\ Len(checkpoints') = Len(checkpoints) + 1
         /\ DOMAIN checkpoints = 1..Len(checkpoints)
         /\ DOMAIN checkpoints' = 1..(Len(checkpoints) + 1)
         /\ \A i \in DOMAIN checkpoints : checkpoints'[i] = checkpoints[i]
         /\ checkpoints'[Len(checkpoints) + 1].tree = t
         /\ checkpoints'[Len(checkpoints) + 1].parents = parents \ {0}
<1> DEFINE row == [tree |-> t, parents |-> parents \ {0}, stream |-> active]
<1>1. row \in CheckpointRows /\ row.tree = t /\ row.parents = parents \ {0}
  BY DEF TypeOK, RepoTypeOK, CheckpointRows
<1>2. checkpoints \in Seq(CheckpointRows) /\ checkpoints' = Append(checkpoints, row)
  BY DEF TypeOK, RepoTypeOK, CheckpointRows, AppendCheckpoint
<1> HIDE DEF row
<1>3. /\ checkpoints' \in Seq(CheckpointRows)
      /\ Len(checkpoints) \in Nat /\ Len(checkpoints') = Len(checkpoints) + 1
      /\ DOMAIN checkpoints = 1..Len(checkpoints)
      /\ DOMAIN checkpoints' = 1..(Len(checkpoints) + 1)
      /\ \A i \in DOMAIN checkpoints : checkpoints'[i] = checkpoints[i]
      /\ checkpoints'[Len(checkpoints) + 1] = row
  BY <1>1, <1>2
<1> QED
  BY <1>1, <1>3

\* The tasks of the commands, by name
LEMMA CommandTasks ==
  ASSUME TypeOK, NEW s \in Streams, NEW id \in Nat
  PROVE  /\ <<Do("checkpoint", active, 0)>> \in Seq(Tasks)
         /\ <<Do("checkpoint", active, 0), Do("record", active, 0)>> \in Seq(Tasks)
         /\ CheckoutTasks(s) \in Seq(Tasks)
         /\ CheckoutTasks(s) \o <<Do("restore", s, id)>> \in Seq(Tasks)
         /\ <<>> \o <<Do("restore", s, id)>> \in Seq(Tasks)
         /\ <<Do("restore", active, id)>> \in Seq(Tasks)
         /\ <<Do("clearStage", active, 0)>> \o <<Do("restore", active, id)>> \in Seq(Tasks)
         /\ <<>> \o <<Do("restore", active, id)>> \in Seq(Tasks)
         /\ <<Do("restore", active, id), Do("stageAll", active, 0), Do("checkpoint", active, 0)>> \in Seq(Tasks)
         /\ <<Do("apply", active, id), Do("head", active, id)>> \in Seq(Tasks)
         /\ <<Do("head", active, id), Do("apply", active, id)>> \in Seq(Tasks)
         /\ <<Do("apply", s, ActiveHead), Do("clearStage", s, 0), Do("activate", s, 0)>> \in Seq(Tasks)
         /\ <<Do("resolve", active, id)>> \in Seq(Tasks)
         /\ <<Do("head", active, id), Do("clearStage", active, 0)>> \in Seq(Tasks)
         /\ <<Do("apply", active, id), Do("clearStage", active, 0), Do("activeHead", active, id)>> \in Seq(Tasks)
<1>1. active \in Streams /\ heads[s] \in Nat /\ ActiveHead \in Nat
  BY DEF TypeOK, RepoTypeOK, ActiveHead
<1>2. \A verb \in Verbs, r \in Streams, i \in Nat : Do(verb, r, i) \in Tasks
  BY DoIsTask
<1>3. /\ {"stream", "state", "checkpoint", "head", "activeHead", "clearStage", "apply", "activate",
          "restore", "stageAll", "record", "resolve"} \subseteq Verbs
  BY DEF Verbs
<1> QED
  BY <1>1, <1>2, <1>3 DEF CheckoutTasks

\* A step that changes only what is typed keeps the types.
LEMMA BeginKeepsType ==
  ASSUME TypeOK, NEW tasks \in Seq(Tasks), Begin(tasks), UNCHANGED <<log, conflicts>>,
         pending' \in PendingOperations
  PROVE  TypeOK'
BY DEF TypeOK, RepoTypeOK, Begin

\* The operation a command starts is of its type.
LEMMA StartType ==
  ASSUME TypeOK, NEW type \in Types, NEW about \in Nat, Start(type, about)
  PROVE  pending' \in PendingOperations /\ UNCHANGED <<log, conflicts>>
BY TreesAreTotal DEF Start, records, Operation, PendingOperations

\* Both ways of integrating, the fast-forward and the merge, keep the types.
LEMMA IntegrateKeepsType ==
  ASSUME TypeOK, NEW source \in Streams, Integrate(source), UNCHANGED <<log, conflicts>>,
         pending' \in PendingOperations
  PROVE  TypeOK'
<1>1. PICK base \in Bases(source) : Integrated(source, base)
  BY DEF Integrate
<1>2. heads[source] \in Nat /\ ActiveHead \in Nat /\ active \in Streams
  BY TreesAreTotal DEF TypeOK, RepoTypeOK
<1>3. CASE Begin(<<>>)
  <2>1. <<>> \in Seq(Tasks)
    OBVIOUS
  <2> QED
    BY <1>3, <2>1, BeginKeepsType
<1>4. CASE Begin(<<Do("apply", active, heads[source]), Do("head", active, heads[source])>>)
  BY <1>2, <1>4, BeginKeepsType, CommandTasks
<1>5. CASE /\ AppendCheckpoint(Merged(base, heads[source], ActiveHead), {ActiveHead, heads[source]})
           /\ todo' = <<Do("head", active, Len(checkpoints) + 1), Do("apply", active, Len(checkpoints) + 1)>>
           /\ UNCHANGED <<setup, tree, stage, blobs, heads, streams, active>>
  <2>1. Merged(base, heads[source], ActiveHead) \in Trees
    <3>1. TreeOf(heads[source]) \in Trees /\ TreeOf(ActiveHead) \in Trees
      BY <1>2, TreesAreTotal
    <3> QED
      BY <3>1 DEF Merged, Trees
  <2>2. checkpoints' \in Seq(CheckpointRows) /\ Len(checkpoints) \in Nat
    BY <1>2, <1>5, <2>1, CheckpointAppended
  <2>3. todo' \in Seq(Tasks)
    BY <1>2, <1>5, <2>2, CommandTasks
  <2> QED
    BY <1>5, <2>2, <2>3 DEF TypeOK, RepoTypeOK, CheckpointRows
<1> QED
  BY <1>1, <1>3, <1>4, <1>5 DEF Integrated

\* Staging keeps the types of the stage and of the objects.
LEMMA StageSelectedType ==
  ASSUME TypeOK, NEW selected \in SUBSET Paths, StageSelected(selected)
  PROVE  stage' \in [Paths -> Files \cup {Unstaged}] /\ blobs' \subseteq Contents
<1>1. tree \in Trees /\ stage \in [Paths -> Files \cup {Unstaged}] /\ blobs \subseteq Contents
  BY DEF TypeOK, RepoTypeOK
<1>2. \A p \in Paths : StageOf(selected)[p] \in Files \cup {Unstaged}
  BY <1>1 DEF StageOf, Trees
<1> QED
  BY <1>1, <1>2 DEF StageSelected, StageOf, Store

\* Every write of a command keeps the types.
LEMMA TaskStepKeepsType ==
  ASSUME TypeOK, TaskStep, UNCHANGED <<log, conflicts, pending>>
  PROVE  TypeOK'
<1>1. /\ tree \in Trees /\ stage \in [Paths -> Files \cup {Unstaged}] /\ blobs \subseteq Contents
      /\ heads \in [Streams -> Nat] /\ active \in Streams
      /\ todo # <<>> /\ checkpoints \in Seq(CheckpointRows)
  BY DEF TypeOK, RepoTypeOK, CheckpointRows, TaskStep, WriteCheckpoint, WriteHead, WriteActiveHead,
     ClearStage, WriteState, Applied, RestoreTask, StageAll, ApplyFile, Next1
<1>2. /\ Tail(todo) \in Seq(Tasks) /\ Head(todo).id \in Nat /\ Head(todo).stream \in Streams
  BY <1>1, TasksSplit
<1>3. CASE WriteCheckpoint
  <2> DEFINE entries == IF StageEmpty THEN tree ELSE StagedTree
  <2>1. entries \in Trees /\ {ActiveHead} \in SUBSET Nat
    BY <1>1, TreesAreTotal
  <2>2. checkpoints' \in Seq(CheckpointRows) /\ Len(checkpoints) \in Nat
    BY <1>3, <2>1, CheckpointAppended DEF WriteCheckpoint
  <2>3. blobs' \subseteq Contents
    BY <1>1, <1>3 DEF WriteCheckpoint, Store
  <2>4. <<Do("head", active, Len(checkpoints) + 1), Do("clearStage", active, 0)>> \in Seq(Tasks)
    BY <1>1, <2>2, CommandTasks
  <2>5. todo' \in Seq(Tasks)
    BY <1>2, <1>3, <2>4 DEF WriteCheckpoint
  <2> QED
    BY <1>3, <2>2, <2>3, <2>5 DEF WriteCheckpoint, TypeOK, RepoTypeOK, CheckpointRows
<1>4. CASE WriteHead \/ WriteActiveHead
  BY <1>1, <1>2, <1>4 DEF WriteHead, WriteActiveHead, MoveHead, TypeOK, RepoTypeOK
<1>5. CASE ClearStage \/ WriteState \/ Applied
  BY <1>1, <1>2, <1>5 DEF ClearStage, WriteState, Applied, TypeOK, RepoTypeOK
<1>6. CASE RestoreTask
  <2> DEFINE id == Head(todo).id
             first == IF Clean THEN <<>> ELSE <<Do("checkpoint", active, 0)>>
             replace == <<Do("apply", active, id), Do("clearStage", active, 0), Do("activeHead", active, id)>>
  <2>1. first \in Seq(Tasks) /\ replace \in Seq(Tasks)
    BY <1>1, <1>2, CommandTasks
  <2>2. todo' = first \o replace \o Tail(todo)
    BY <1>6 DEF RestoreTask
  <2> HIDE DEF first, replace
  <2>3. todo' \in Seq(Tasks)
    BY <1>2, <2>1, <2>2
  <2> QED
    BY <1>6, <2>3 DEF RestoreTask, TypeOK, RepoTypeOK
<1>7. CASE StageAll
  <2>1. CASE Candidates(Paths) = {}
    BY <1>7, <2>1 DEF StageAll, TypeOK, RepoTypeOK
  <2>2. CASE StageSelected(Paths) /\ todo' = Tail(todo)
    <3>1. stage' \in [Paths -> Files \cup {Unstaged}] /\ blobs' \subseteq Contents
      BY <2>2, StageSelectedType
    <3> QED
      BY <1>2, <1>7, <2>2, <3>1 DEF StageAll, TypeOK, RepoTypeOK
  <2> QED
    BY <1>7, <2>1, <2>2 DEF StageAll
<1>8. ASSUME NEW p \in Paths, ApplyFile(p) PROVE TypeOK'
  <2>1. TreeOf(Head(todo).id) \in Trees
    BY <1>2, TreesAreTotal
  <2>2. tree' \in Trees
    BY <1>1, <1>8, <2>1 DEF ApplyFile, Trees
  <2> QED
    BY <1>8, <2>2 DEF ApplyFile, TypeOK, RepoTypeOK
<1> QED
  BY <1>3, <1>4, <1>5, <1>6, <1>7, <1>8 DEF TaskStep

\* Every command keeps them as it begins.
LEMMA CommandKeepsType ==
  ASSUME TypeOK, Command, UNCHANGED <<log, conflicts, pending>>
  PROVE  TypeOK'
<1>1. /\ tree \in Trees /\ stage \in [Paths -> Files \cup {Unstaged}] /\ blobs \subseteq Contents
      /\ heads \in [Streams -> Nat] /\ active \in Streams /\ pending' \in PendingOperations
      /\ Main \in Streams
  BY StreamsAssumption DEF TypeOK, RepoTypeOK
<1>2. CASE Initialize
  <2>1. <<Do("stream", Main, 0), Do("state", Main, 0)>> \in Seq(Tasks)
    BY <1>1, DoIsTask DEF Verbs
  <2> QED
    BY <1>2, <2>1 DEF Initialize, TypeOK, RepoTypeOK
<1>3. CASE InitializeStep
  <2>1. Tail(todo) \in Seq(Tasks)
    BY <1>3, TasksSplit DEF InitializeStep, Next1
  <2> QED
    BY <1>1, <1>3, <2>1 DEF InitializeStep, TypeOK, RepoTypeOK
<1>4. ASSUME NEW p \in Paths, NEW c \in Files, Edit(p, c) PROVE TypeOK'
  <2>1. tree' \in Trees
    BY <1>1, <1>4 DEF Edit, Trees
  <2> QED
    BY <1>4, <2>1 DEF Edit, TypeOK, RepoTypeOK
<1>5. ASSUME NEW selected \in SUBSET Paths, StagePaths(selected) PROVE TypeOK'
  <2>1. stage' \in [Paths -> Files \cup {Unstaged}] /\ blobs' \subseteq Contents
    BY <1>5, StageSelectedType DEF StagePaths
  <2> QED
    BY <1>5, <2>1 DEF StagePaths, TypeOK, RepoTypeOK
<1>6. ASSUME NEW selected \in SUBSET Paths, UnstagePaths(selected) PROVE TypeOK'
  <2>1. stage' \in [Paths -> Files \cup {Unstaged}]
    BY <1>1, <1>6 DEF UnstagePaths
  <2> QED
    BY <1>6, <2>1 DEF UnstagePaths, TypeOK, RepoTypeOK
<1>7. CASE Commit
  BY <1>1, <1>7, BeginKeepsType, CommandTasks DEF Commit
<1>8. ASSUME NEW s \in Streams, Checkout(s) PROVE TypeOK'
  BY <1>1, <1>8, BeginKeepsType, CommandTasks DEF Checkout
<1>9. ASSUME NEW s \in Streams, Integrate(s) PROVE TypeOK'
  BY <1>1, <1>9, IntegrateKeepsType
<1>10. ASSUME NEW s \in Streams, NEW enter \in BOOLEAN, CreateWorkstream(s, enter) PROVE TypeOK'
  <2>1. todo' \in Seq(Tasks) /\ ActiveHead \in Nat
    BY <1>10, CommandTasks, TreesAreTotal DEF CreateWorkstream
  <2>2. heads' \in [Streams -> Nat] /\ streams' \subseteq Streams
    BY <1>1, <1>10, <2>1 DEF CreateWorkstream, TypeOK, RepoTypeOK
  <2> QED
    BY <1>10, <2>1, <2>2 DEF CreateWorkstream, TypeOK, RepoTypeOK
<1>11. ASSUME NEW id \in DOMAIN checkpoints, Restore(id) \/ Revert(id) PROVE TypeOK'
  <2>1. id \in Nat
    BY DEF TypeOK, RepoTypeOK
  <2>2. CASE Restore(id)
    BY <1>1, <2>1, <2>2, BeginKeepsType, CommandTasks DEF Restore
  <2>3. CASE Revert(id)
    BY <1>1, <2>1, <2>3, BeginKeepsType, CommandTasks DEF Revert
  <2> QED
    BY <1>11, <2>2, <2>3
<1>12. CASE Crash
  BY <1>12 DEF Crash, TypeOK, RepoTypeOK
<1> QED
  BY <1>2, <1>3, <1>4, <1>5, <1>6, <1>7, <1>8, <1>9, <1>10, <1>11, <1>12 DEF Command

\* And so does every step of the operations around the commands.
LEMMA TypeStep == TypeOK /\ [Next]_vars => TypeOK'
<1> SUFFICES ASSUME TypeOK, [Next]_vars PROVE TypeOK'
  OBVIOUS
<1>1. CASE UNCHANGED vars
  BY <1>1 DEF vars, repoVars, TypeOK, RepoTypeOK
<1>2. CASE PlainCommand
  BY <1>2, CommandKeepsType DEF PlainCommand, records
<1>3. CASE TaskStep /\ UNCHANGED <<records, pending>>
  BY <1>3, TaskStepKeepsType DEF records
<1>4. CASE CommitChange
  BY <1>4, StartType, BeginKeepsType, CommandTasks, StreamsAssumption DEF CommitChange, Types
<1>5. ASSUME NEW s \in Streams, CheckoutOperation(s) PROVE TypeOK'
  BY <1>5, StartType, BeginKeepsType, CommandTasks DEF CheckoutOperation, Checkout, Types
<1>6. ASSUME NEW s \in Streams, IntegrateOperation(s) PROVE TypeOK'
  BY <1>6, StartType, IntegrateKeepsType DEF IntegrateOperation, Types
<1>7. ASSUME NEW s \in Streams, RecordConflict(s) PROVE TypeOK'
  <2>1. conflicts' \in Seq({"unresolved", "resolved"})
    BY <1>7 DEF RecordConflict, TypeOK
  <2> QED
    BY <1>7, <2>1 DEF RecordConflict, repoVars, TypeOK, RepoTypeOK
<1>8. ASSUME NEW id \in DOMAIN checkpoints, RestoreOperation(id) PROVE TypeOK'
  <2>1. id \in Nat /\ active \in Streams
    BY DEF TypeOK, RepoTypeOK
  <2> QED
    BY <1>8, <2>1, StartType, BeginKeepsType, CommandTasks DEF RestoreOperation, Types
<1>9. ASSUME NEW id \in DOMAIN checkpoints, NEW i \in DOMAIN conflicts, ResolveConflict(i, id)
      PROVE  TypeOK'
  <2>1. i \in Nat /\ active \in Streams
    BY DEF TypeOK, RepoTypeOK
  <2>2. Begin(<<Do("resolve", active, i)>>) /\ <<Do("resolve", active, i)>> \in Seq(Tasks)
    BY <1>9, <2>1, CommandTasks DEF ResolveConflict
  <2>3. [before |-> Snapshot, resolves |-> i] \in [before : Snapshots, resolves : Nat]
    BY <2>1, TreesAreTotal
  <2>4. log' \in Seq([before : Snapshots, resolves : Nat])
    BY <1>9, <2>3 DEF ResolveConflict, TypeOK
  <2> QED
    BY <1>9, <2>2, <2>4 DEF ResolveConflict, Begin, TypeOK, RepoTypeOK
<1>10. ASSUME NEW i \in DOMAIN log, UndoOperation(i) PROVE TypeOK'
  <2> DEFINE before == log[i].before
             enter == IF before.stream = active THEN <<>> ELSE CheckoutTasks(before.stream)
  <2>1. i \in Nat /\ before.stream \in Streams /\ before.head \in Nat
    <3>1. log[i] \in [before : Snapshots, resolves : Nat]
      <4> DEFINE Row == [before : Snapshots, resolves : Nat]
      <4>1. log \in Seq(Row)
        BY DEF TypeOK
      <4> HIDE DEF Row
      <4>2. log[i] \in Row
        BY <4>1
      <4> QED
        BY <4>2 DEF Row
    <3> QED
      BY <3>1 DEF Snapshots, TypeOK
  <2>2. enter \in Seq(Tasks) /\ enter \o <<Do("restore", before.stream, before.head)>> \in Seq(Tasks)
    BY <2>1, CommandTasks
  <2>3. CASE Start("undo", i)
    <3>1. pending' \in PendingOperations /\ UNCHANGED <<log, conflicts>>
      BY <2>1, <2>3, StartType DEF Types
    <3> QED
      BY <1>10, <2>2, <3>1, BeginKeepsType DEF UndoOperation
  <2>4. CASE UNCHANGED <<records, pending>>
    <3>1. pending' \in PendingOperations /\ UNCHANGED <<log, conflicts>>
      BY <2>4 DEF TypeOK, records
    <3> QED
      BY <1>10, <2>2, <3>1, BeginKeepsType DEF UndoOperation
  <2> QED
    BY <1>10, <2>3, <2>4 DEF UndoOperation
<1>11. CASE RecordChange \/ MarkResolved
  <2>1. Tail(todo) \in Seq(Tasks)
    BY <1>11, TasksSplit DEF RecordChange, MarkResolved, Next1
  <2>2. conflicts' \in Seq({"unresolved", "resolved"})
    BY <1>11 DEF RecordChange, MarkResolved, records, TypeOK
  <2> QED
    BY <1>11, <2>1, <2>2 DEF RecordChange, MarkResolved, records, TypeOK, RepoTypeOK
<1>12. CASE AppendOperation
  <2>1. pending.before \in Snapshots
    BY <1>12 DEF AppendOperation, TypeOK, PendingOperations, None
  <2>2. [before |-> pending.before, resolves |-> 0] \in [before : Snapshots, resolves : Nat]
    BY <2>1
  <2>3. log' \in Seq([before : Snapshots, resolves : Nat])
    BY <1>12, <2>2 DEF AppendOperation, TypeOK
  <2> QED
    BY <1>12, <2>3 DEF AppendOperation, repoVars, PendingOperations, TypeOK, RepoTypeOK
<1>13. CASE OperationCrash
  BY <1>13 DEF OperationCrash, records, PendingOperations, TypeOK, RepoTypeOK
<1> QED
  BY <1>1, <1>2, <1>3, <1>4, <1>5, <1>6, <1>7, <1>8, <1>9, <1>10, <1>11, <1>12, <1>13 DEF Next

-----------------------------------------------------------------------------
(* The tasks of a command                                                    *)

\* The tasks of lists that are written out
LEMMA TupleTasks ==
  ASSUME NEW a, NEW b
  PROVE  /\ TasksIn(<<>>) = {} /\ TasksIn(<<a>>) = {a}
         /\ TasksIn(<<a, b>>) = {a, b}
<1>1. TasksIn(<<>>) = {} /\ TasksIn(<<a>>) = {a}
  BY DEF TasksIn
<1>2. TasksIn(<<a, b>>) = {a, b}
  <2>1. DOMAIN <<a, b>> = {1, 2}
    OBVIOUS
  <2> QED
    BY <2>1 DEF TasksIn
<1> QED
  BY <1>1, <1>2

LEMMA TripleTasks ==
  ASSUME NEW a, NEW b, NEW c
  PROVE  TasksIn(<<a, b, c>>) = {a, b, c}
<1>1. DOMAIN <<a, b, c>> = {1, 2, 3}
  OBVIOUS
<1> QED
  BY <1>1 DEF TasksIn

\* The tasks of two lists joined
LEMMA JoinedTasks ==
  ASSUME NEW S, NEW list \in Seq(S), NEW rest \in Seq(S)
  PROVE  TasksIn(list \o rest) = TasksIn(list) \cup TasksIn(rest)
<1>1. /\ Len(list) \in Nat /\ Len(rest) \in Nat
      /\ DOMAIN list = 1..Len(list) /\ DOMAIN rest = 1..Len(rest)
      /\ DOMAIN (list \o rest) = 1..(Len(list) + Len(rest))
      /\ \A k \in DOMAIN (list \o rest) :
           (list \o rest)[k] = IF k <= Len(list) THEN list[k] ELSE rest[k - Len(list)]
  OBVIOUS
<1>2. ASSUME NEW t \in TasksIn(list \o rest) PROVE t \in TasksIn(list) \cup TasksIn(rest)
  BY <1>1 DEF TasksIn
<1>3. ASSUME NEW t \in TasksIn(list) PROVE t \in TasksIn(list \o rest)
  BY <1>1 DEF TasksIn
<1>4. ASSUME NEW t \in TasksIn(rest) PROVE t \in TasksIn(list \o rest)
  <2>1. PICK k \in DOMAIN rest : t = rest[k]
    BY DEF TasksIn
  <2>2. k + Len(list) \in DOMAIN (list \o rest) /\ (list \o rest)[k + Len(list)] = rest[k]
    BY <1>1
  <2> QED
    BY <2>1, <2>2 DEF TasksIn
<1> QED
  BY <1>2, <1>3, <1>4

\* The first task and the rest are tasks of the list.
LEMMA TailTasks ==
  ASSUME TypeOK, todo # <<>>
  PROVE  TasksIn(Tail(todo)) \subseteq TasksIn(todo) /\ Head(todo) \in TasksIn(todo)
<1>1. ASSUME NEW t \in TasksIn(Tail(todo)) PROVE t \in TasksIn(todo)
  BY TasksSplit DEF TasksIn
<1>2. Head(todo) \in TasksIn(todo)
  BY TasksSplit DEF TasksIn
<1> QED
  BY <1>1, <1>2

\* What a step leaves to do
LEMMA StepTasks ==
  ASSUME TypeOK, WriteHead \/ WriteActiveHead \/ ClearStage \/ WriteState \/ Applied
                 \/ StageAll \/ \E p \in Paths : ApplyFile(p)
  PROVE  TasksIn(todo') \subseteq TasksIn(todo)
<1>1. todo # <<>>
  BY DEF WriteHead, WriteActiveHead, ClearStage, WriteState, Applied, StageAll, ApplyFile, Next1
<1>2. todo' = Tail(todo) \/ todo' = todo \/ todo' = <<>>
  BY DEF WriteHead, WriteActiveHead, MoveHead, ClearStage, WriteState, Applied, StageAll, ApplyFile
<1> QED
  BY <1>1, <1>2, TailTasks, TupleTasks

\* A checkpoint leaves its head to write and the stage to clear.
LEMMA CheckpointStepTasks ==
  ASSUME TypeOK, WriteCheckpoint
  PROVE  TasksIn(todo') \subseteq {Do("head", active, Len(checkpoints) + 1), Do("clearStage", active, 0)}
                                 \cup TasksIn(todo)
<1> DEFINE first == <<Do("head", active, Len(checkpoints) + 1), Do("clearStage", active, 0)>>
<1>1. todo # <<>> /\ todo' = first \o Tail(todo)
  BY DEF WriteCheckpoint, Next1
<1>2. TasksIn(first) = {Do("head", active, Len(checkpoints) + 1), Do("clearStage", active, 0)}
  BY TupleTasks
<1>3. first \in Seq(Tasks) /\ Tail(todo) \in Seq(Tasks)
  <2>1. Len(checkpoints) \in Nat /\ active \in Streams
    BY DEF TypeOK, RepoTypeOK
  <2> QED
    BY <1>1, <2>1, TasksSplit, DoIsTask DEF Verbs
<1> HIDE DEF first
<1>4. TasksIn(todo') = TasksIn(first) \cup TasksIn(Tail(todo))
  BY <1>1, <1>3, JoinedTasks
<1> QED
  BY <1>1, <1>2, <1>4, TailTasks

\* A restore leaves the replacement of the work tree to do.
LEMMA RestoreStepTasks ==
  ASSUME TypeOK, RestoreTask
  PROVE  TasksIn(todo') \subseteq
           {Do("checkpoint", active, 0), Do("apply", active, Head(todo).id),
            Do("clearStage", active, 0), Do("activeHead", active, Head(todo).id)} \cup TasksIn(todo)
<1> DEFINE id == Head(todo).id
           first == IF Clean THEN <<>> ELSE <<Do("checkpoint", active, 0)>>
           replace == <<Do("apply", active, id), Do("clearStage", active, 0), Do("activeHead", active, id)>>
<1>1. todo # <<>> /\ todo' = first \o replace \o Tail(todo)
  BY DEF RestoreTask, Next1
<1>2. /\ TasksIn(first) \subseteq {Do("checkpoint", active, 0)}
      /\ TasksIn(replace) = {Do("apply", active, id), Do("clearStage", active, 0), Do("activeHead", active, id)}
  <2>1. TasksIn(<<>>) = {} /\ TasksIn(<<Do("checkpoint", active, 0)>>) = {Do("checkpoint", active, 0)}
    BY TupleTasks
  <2>2. TasksIn(replace) = {Do("apply", active, id), Do("clearStage", active, 0), Do("activeHead", active, id)}
    BY TripleTasks
  <2>3. first = <<>> \/ first = <<Do("checkpoint", active, 0)>>
    OBVIOUS
  <2> HIDE DEF first
  <2> QED
    BY <2>1, <2>2, <2>3
<1>3. first \in Seq(Tasks) /\ replace \in Seq(Tasks) /\ Tail(todo) \in Seq(Tasks)
  <2>1. id \in Nat /\ active \in Streams
    BY <1>1, TasksSplit DEF TypeOK, RepoTypeOK
  <2> QED
    BY <1>1, <2>1, TasksSplit, CommandTasks
<1> HIDE DEF first, replace
<1>4. first \o replace \in Seq(Tasks)
  BY <1>3
<1>5. TasksIn(todo') = TasksIn(first) \cup TasksIn(replace) \cup TasksIn(Tail(todo))
  <2>1. TasksIn(first \o replace) = TasksIn(first) \cup TasksIn(replace)
    BY <1>3, JoinedTasks
  <2>2. TasksIn((first \o replace) \o Tail(todo)) = TasksIn(first \o replace) \cup TasksIn(Tail(todo))
    BY <1>3, <1>4, JoinedTasks
  <2> QED
    BY <1>1, <2>1, <2>2
<1> QED
  BY <1>1, <1>2, <1>5, TailTasks

-----------------------------------------------------------------------------
(* What a step keeps                                                         *)

\* A clean work tree is that of the head, which is in a checkpoint.
LEMMA CleanIsCovered ==
  ASSUME TypeOK, Clean
  PROVE  Covered
<1>1. ASSUME NEW p \in Paths, tree[p] # Absent
      PROVE  \E i \in DOMAIN checkpoints : checkpoints[i].tree[p] = tree[p]
  <2>1. tree[p] = TreeOf(ActiveHead)[p]
    BY DEF Clean, HeadTree
  <2>2. ActiveHead \in DOMAIN checkpoints
    BY <1>1, <2>1 DEF TreeOf, NoFiles
  <2> QED
    BY <2>1, <2>2 DEF TreeOf
<1> QED
  BY <1>1 DEF Covered

\* What is covered stays covered while neither side changes,
LEMMA CoverKept ==
  ASSUME Covered, UNCHANGED <<tree, checkpoints>>
  PROVE  Covered'
BY DEF Covered

\* and when a checkpoint is added.
LEMMA CoverExtended ==
  ASSUME TypeOK, Covered, UNCHANGED tree, NEW t \in Trees, NEW parents \in SUBSET Nat,
         AppendCheckpoint(t, parents)
  PROVE  Covered'
<1>1. \A i \in DOMAIN checkpoints : i \in DOMAIN checkpoints' /\ checkpoints'[i] = checkpoints[i]
  BY CheckpointAppended
<1>2. ASSUME NEW p \in Paths, tree'[p] # Absent
      PROVE  \E i \in DOMAIN checkpoints' : checkpoints'[i].tree[p] = tree'[p]
  <2>1. PICK i \in DOMAIN checkpoints : checkpoints[i].tree[p] = tree[p]
    BY <1>2 DEF Covered
  <2> QED
    BY <1>1, <2>1
<1> QED
  BY <1>2 DEF Covered

\* Objects are only added.
LEMMA ObjectsKept ==
  ASSUME ObjectsStored, ParentsOlder, UNCHANGED checkpoints, blobs \subseteq blobs'
  PROVE  ObjectsStored' /\ ParentsOlder'
BY DEF ObjectsStored, ParentsOlder

\* A checkpoint whose files are stored, and whose parents are, may be added.
LEMMA ObjectsAppended ==
  ASSUME TypeOK, ObjectsStored, ParentsOlder, NEW t \in Trees, NEW parents \in SUBSET Nat,
         AppendCheckpoint(t, parents), blobs \subseteq blobs', parents \subseteq 0..Len(checkpoints),
         \A p \in Paths : t[p] # Absent => t[p] \in blobs'
  PROVE  ObjectsStored' /\ ParentsOlder'
<1> DEFINE new == Len(checkpoints) + 1
<1>1. /\ Len(checkpoints) \in Nat /\ DOMAIN checkpoints = 1..Len(checkpoints)
      /\ DOMAIN checkpoints' = 1..new
      /\ \A i \in DOMAIN checkpoints : checkpoints'[i] = checkpoints[i]
      /\ checkpoints'[new].tree = t /\ checkpoints'[new].parents = parents \ {0}
  BY CheckpointAppended
<1>2. \A i \in DOMAIN checkpoints' : i \in DOMAIN checkpoints \/ i = new
  BY <1>1
<1>3. ASSUME NEW i \in DOMAIN checkpoints', NEW p \in Paths, checkpoints'[i].tree[p] # Absent
      PROVE  checkpoints'[i].tree[p] \in blobs'
  BY <1>1, <1>2, <1>3 DEF ObjectsStored
<1>4. ASSUME NEW i \in DOMAIN checkpoints' PROVE checkpoints'[i].parents \subseteq 1..(i - 1)
  <2>1. parents \ {0} \subseteq 1..(new - 1)
    BY <1>1
  <2> QED
    BY <1>1, <1>2, <2>1 DEF ParentsOlder
<1> QED
  BY <1>3, <1>4 DEF ObjectsStored, ParentsOlder

\* The files of a checkpoint that exists are stored.
LEMMA StoredTrees ==
  ASSUME TypeOK, ObjectsStored, NEW id \in Nat
  PROVE  \A p \in Paths : TreeOf(id)[p] # Absent => TreeOf(id)[p] \in blobs
BY DEF ObjectsStored, TreeOf, NoFiles

\* Staging stores what it stages.
LEMMA StagedIsStored ==
  ASSUME TypeOK, StageStored, NEW selected \in SUBSET Paths, StageSelected(selected)
  PROVE  StageStored' /\ blobs \subseteq blobs'
<1>1. blobs' = blobs \cup ({StageOf(selected)[p] : p \in Candidates(selected)} \cap Contents)
      /\ stage' = StageOf(selected)
  BY DEF StageSelected, Store
<1>2. ASSUME NEW p \in Paths, stage'[p] \in Contents PROVE stage'[p] \in blobs'
  <2>1. CASE p \in Candidates(selected)
    BY <1>1, <1>2, <2>1
  <2>2. CASE p \notin Candidates(selected)
    <3>1. stage'[p] = stage[p]
      BY <1>1, <2>2 DEF StageOf
    <3> QED
      BY <1>1, <1>2, <3>1 DEF StageStored
  <2> QED
    BY <2>1, <2>2
<1> QED
  BY <1>1, <1>2 DEF StageStored

\* The steps of a command keep the objects.
LEMMA TaskStepKeepsObjects ==
  ASSUME TypeOK, Sound, TaskStep
  PROVE  ObjectsStored' /\ ParentsOlder' /\ StageStored'
<1>1. ObjectsStored /\ ParentsOlder /\ StageStored
  BY DEF Sound
<1>2. CASE WriteHead \/ WriteActiveHead \/ WriteState \/ Applied \/ RestoreTask
           \/ \E p \in Paths : ApplyFile(p)
  <2>1. UNCHANGED <<checkpoints, blobs, stage>>
    BY <1>2 DEF WriteHead, WriteActiveHead, MoveHead, WriteState, Applied, RestoreTask, ApplyFile
  <2> QED
    BY <1>1, <2>1 DEF ObjectsStored, ParentsOlder, StageStored
<1>3. CASE ClearStage
  <2>1. \A p \in Paths : stage'[p] \notin Contents
    BY <1>3, MarksAssumption DEF ClearStage
  <2>2. UNCHANGED <<checkpoints, blobs>>
    BY <1>3 DEF ClearStage
  <2> QED
    BY <1>1, <2>1, <2>2 DEF ObjectsStored, ParentsOlder, StageStored
<1>4. CASE StageAll
  <2>1. UNCHANGED checkpoints
    BY <1>4 DEF StageAll
  <2>2. CASE UNCHANGED <<stage, blobs>>
    BY <1>1, <2>1, <2>2 DEF ObjectsStored, ParentsOlder, StageStored
  <2>3. CASE StageSelected(Paths)
    <3>1. StageStored' /\ blobs \subseteq blobs'
      BY <1>1, <2>3, StagedIsStored
    <3> QED
      BY <1>1, <2>1, <3>1, ObjectsKept
  <2> QED
    BY <1>4, <2>2, <2>3 DEF StageAll
<1>5. CASE WriteCheckpoint
  <2> DEFINE entries == IF StageEmpty THEN tree ELSE StagedTree
             missing == {p \in Paths : entries[p] \notin blobs}
  <2>1. /\ AppendCheckpoint(entries, {ActiveHead})
        /\ blobs' = blobs \cup ({tree[p] : p \in missing} \cap Contents)
        /\ UNCHANGED stage
    BY <1>5 DEF WriteCheckpoint, Store
  <2>2. entries \in Trees /\ ActiveHead \in Nat /\ tree \in Trees
    BY TreesAreTotal DEF TypeOK, RepoTypeOK
  <2>3. ActiveHead \in 0..Len(checkpoints)
    BY DEF Sound, HeadsExist, ActiveHead, TypeOK, RepoTypeOK
  <2>4. ASSUME NEW p \in Paths, entries[p] # Absent PROVE entries[p] \in blobs'
    <3>1. CASE StageEmpty
      <4>1. entries[p] = tree[p] /\ tree[p] \in Contents
        BY <2>2, <2>4, <3>1 DEF Trees, Files
      <4> QED
        BY <2>1, <4>1
    <3>2. CASE ~StageEmpty
      <4>1. entries[p] = IF stage[p] = Unstaged THEN HeadTree[p] ELSE stage[p]
        BY <3>2 DEF StagedTree
      <4>2. stage[p] \in Files \cup {Unstaged}
        BY DEF TypeOK, RepoTypeOK
      <4>3. HeadTree[p] # Absent => HeadTree[p] \in blobs
        BY <1>1, <2>2, StoredTrees DEF HeadTree
      <4> QED
        BY <1>1, <2>1, <2>4, <4>1, <4>2, <4>3 DEF StageStored, Files
    <3> QED
      BY <3>1, <3>2
  <2> HIDE DEF entries, missing
  <2>5. ObjectsStored' /\ ParentsOlder'
    BY <1>1, <2>1, <2>2, <2>3, <2>4, ObjectsAppended
  <2> QED
    BY <1>1, <2>1, <2>5 DEF StageStored
<1> QED
  BY <1>2, <1>3, <1>4, <1>5 DEF TaskStep

\* The tasks that steps put on the list
LEMMA NewTaskVerbs ==
  ASSUME TypeOK, NEW id \in Nat
  PROVE  /\ Do("checkpoint", active, 0).do = "checkpoint" /\ Do("clearStage", active, 0).do = "clearStage"
         /\ Do("head", active, id).do = "head" /\ Do("head", active, id).id = id
         /\ Do("apply", active, id).do = "apply" /\ Do("apply", active, id).id = id
         /\ Do("activeHead", active, id).do = "activeHead" /\ Do("activeHead", active, id).id = id
BY DEF Do

\* No step of a command writes to the log or to the conflicts.
LEMMA TaskStepKeepsConflicts ==
  ASSUME TypeOK, Sound, TaskStep, UNCHANGED <<log, conflicts>>
  PROVE  ConflictsLogged'
<1>1. /\ ResolutionLogged
      /\ \A t \in TasksIn(todo) : t.do = "resolve" => \E j \in DOMAIN log : log[j].resolves = t.id
  BY DEF Sound, ConflictsLogged
<1>2. ResolutionLogged'
  BY <1>1 DEF ResolutionLogged
<1>3. ASSUME NEW t \in TasksIn(todo'), t.do = "resolve" PROVE t \in TasksIn(todo)
  <2>1. CASE WriteCheckpoint
    <3>1. Len(checkpoints) + 1 \in Nat
      BY DEF TypeOK, RepoTypeOK
    <3> QED
      BY <1>3, <2>1, <3>1, CheckpointStepTasks, NewTaskVerbs
  <2>2. CASE RestoreTask
    <3>1. Head(todo).id \in Nat
      BY <2>2, TasksSplit DEF RestoreTask, Next1
    <3> QED
      BY <1>3, <2>2, <3>1, RestoreStepTasks, NewTaskVerbs
  <2>3. CASE ~WriteCheckpoint /\ ~RestoreTask
    BY <1>3, <2>3, StepTasks DEF TaskStep
  <2> QED
    BY <2>1, <2>2, <2>3
<1> QED
  BY <1>1, <1>2, <1>3 DEF ConflictsLogged

\* The heads the step writes were grounded, and those it puts on the list are.
LEMMA TaskStepKeepsHeads ==
  ASSUME TypeOK, Sound, TaskStep, UNCHANGED <<log, conflicts, pending>>
  PROVE  HeadsExist'
<1>1. /\ \A s \in Streams : heads[s] \in 0..Len(checkpoints)
      /\ \A i \in DOMAIN log : log[i].before.head \in 0..Len(checkpoints)
      /\ pending # None => pending.before.head \in 0..Len(checkpoints)
      /\ \A t \in TasksIn(todo) : t.do \in HeadVerbs => t.id \in 0..Len(checkpoints)
  BY DEF Sound, HeadsExist, GroundedTasks
<1>2. /\ Len(checkpoints) \in Nat /\ Len(checkpoints') \in Nat
      /\ Len(checkpoints) <= Len(checkpoints')
  <2>1. CASE WriteCheckpoint
    <3> DEFINE entries == IF StageEmpty THEN tree ELSE StagedTree
    <3>1. AppendCheckpoint(entries, {ActiveHead})
      BY <2>1 DEF WriteCheckpoint
    <3>2. entries \in Trees /\ {ActiveHead} \in SUBSET Nat
      BY TreesAreTotal DEF TypeOK, RepoTypeOK
    <3> HIDE DEF entries
    <3> QED
      BY <3>1, <3>2, CheckpointAppended
  <2>2. CASE ~WriteCheckpoint
    <3>1. UNCHANGED checkpoints
      BY <2>2 DEF TaskStep, WriteHead, WriteActiveHead, MoveHead, ClearStage, WriteState, Applied,
         RestoreTask, StageAll, ApplyFile
    <3> QED
      BY <3>1 DEF TypeOK, RepoTypeOK
  <2> QED
    BY <2>1, <2>2
<1>3. \A id \in 0..Len(checkpoints) : id \in 0..Len(checkpoints')
  BY <1>2
<1>4. todo # <<>>
  BY DEF TaskStep, WriteCheckpoint, WriteHead, WriteActiveHead, ClearStage, WriteState, Applied,
     RestoreTask, StageAll, ApplyFile, Next1
<1>5. ASSUME NEW s \in Streams PROVE heads'[s] \in 0..Len(checkpoints)
  <2>1. CASE WriteHead \/ WriteActiveHead
    <3>1. Head(todo).id \in 0..Len(checkpoints)
      BY <1>1, <1>4, <2>1, TailTasks DEF WriteHead, WriteActiveHead, Next1, HeadVerbs
    <3>2. heads'[s] = heads[s] \/ heads'[s] = Head(todo).id
      BY <2>1 DEF WriteHead, WriteActiveHead, MoveHead, TypeOK, RepoTypeOK
    <3> QED
      BY <1>1, <3>1, <3>2
  <2>2. CASE ~WriteHead /\ ~WriteActiveHead
    <3>1. UNCHANGED heads
      BY <2>2 DEF TaskStep, WriteCheckpoint, ClearStage, WriteState, Applied, RestoreTask, StageAll, ApplyFile
    <3> QED
      BY <1>1, <3>1
  <2> QED
    BY <2>1, <2>2
<1>6. ASSUME NEW t \in TasksIn(todo'), t.do \in HeadVerbs PROVE t.id \in 0..Len(checkpoints')
  <2>1. CASE WriteCheckpoint
    <3> DEFINE entries == IF StageEmpty THEN tree ELSE StagedTree
    <3>1. AppendCheckpoint(entries, {ActiveHead})
      BY <2>1 DEF WriteCheckpoint
    <3>2. entries \in Trees /\ {ActiveHead} \in SUBSET Nat
      BY TreesAreTotal DEF TypeOK, RepoTypeOK
    <3> HIDE DEF entries
    <3>3. Len(checkpoints') = Len(checkpoints) + 1
      BY <3>1, <3>2, CheckpointAppended
    <3>4. CASE t \in TasksIn(todo)
      BY <1>1, <1>3, <1>6, <3>4
    <3>5. CASE t = Do("head", active, Len(checkpoints) + 1)
      BY <1>2, <3>3, <3>5, NewTaskVerbs
    <3>6. t # Do("clearStage", active, 0)
      BY <1>6, NewTaskVerbs DEF HeadVerbs
    <3> QED
      BY <2>1, <3>4, <3>5, <3>6, CheckpointStepTasks
  <2>2. CASE RestoreTask
    <3>1. Head(todo).id \in 0..Len(checkpoints)
      BY <1>1, <1>4, <2>2, TailTasks DEF RestoreTask, Next1, HeadVerbs
    <3>2. t \in TasksIn(todo) \/ t.id = Head(todo).id
      <4>1. t # Do("checkpoint", active, 0) /\ t # Do("clearStage", active, 0)
        BY <1>6, NewTaskVerbs DEF HeadVerbs
      <4>2. Head(todo).id \in Nat
        BY <1>2, <3>1
      <4> QED
        BY <2>2, <4>1, <4>2, RestoreStepTasks, NewTaskVerbs
    <3> QED
      BY <1>1, <1>3, <1>6, <3>1, <3>2
  <2>3. CASE ~WriteCheckpoint /\ ~RestoreTask
    <3>1. t \in TasksIn(todo)
      BY <2>3, StepTasks DEF TaskStep
    <3> QED
      BY <1>1, <1>3, <1>6, <3>1
  <2> QED
    BY <2>1, <2>2, <2>3
<1>7. /\ \A s \in Streams : heads'[s] \in 0..Len(checkpoints')
      /\ \A i \in DOMAIN log' : log'[i].before.head \in 0..Len(checkpoints')
      /\ pending' # None => pending'.before.head \in 0..Len(checkpoints')
  BY <1>1, <1>3, <1>5
<1> QED
  BY <1>6, <1>7 DEF HeadsExist, GroundedTasks, None

\* A file that is replaced gets the content some checkpoint has; and what is not
\* covered is written to a checkpoint before it is replaced.
LEMMA TaskStepKeepsCover ==
  ASSUME TypeOK, Sound, TaskStep
  PROVE  Protected'
<1>1. todo # <<>> /\ Head(todo) \in TasksIn(todo)
  <2>1. todo # <<>>
    BY DEF TaskStep, WriteCheckpoint, WriteHead, WriteActiveHead, ClearStage, WriteState, Applied,
       RestoreTask, StageAll, ApplyFile, Next1
  <2> QED
    BY <2>1, TailTasks
<1>2. CASE Covered
  <2>1. ASSUME NEW p \in Paths, ApplyFile(p) PROVE Covered'
    <3> DEFINE target == TreeOf(Head(todo).id)
    <3>1. tree' = [tree EXCEPT ![p] = target[p]] /\ UNCHANGED checkpoints
      BY <2>1 DEF ApplyFile
    <3>2. target[p] # Absent => \E i \in DOMAIN checkpoints : checkpoints[i].tree[p] = target[p]
      BY DEF TreeOf, NoFiles
    <3> HIDE DEF target
    <3>3. ASSUME NEW q \in Paths, tree'[q] # Absent
          PROVE  \E i \in DOMAIN checkpoints : checkpoints[i].tree[q] = tree'[q]
      <4>1. tree \in [Paths -> Files]
        BY DEF TypeOK, RepoTypeOK, Trees
      <4>2. CASE q = p
        BY <3>1, <3>2, <3>3, <4>1, <4>2
      <4>3. CASE q # p
        BY <1>2, <3>1, <3>3, <4>1, <4>3 DEF Covered
      <4> QED
        BY <4>2, <4>3
    <3> QED
      BY <3>1, <3>3 DEF Covered
  <2>2. CASE WriteCheckpoint
    <3> DEFINE entries == IF StageEmpty THEN tree ELSE StagedTree
    <3>1. AppendCheckpoint(entries, {ActiveHead}) /\ UNCHANGED tree
      BY <2>2 DEF WriteCheckpoint
    <3>2. entries \in Trees /\ {ActiveHead} \in SUBSET Nat
      BY TreesAreTotal DEF TypeOK, RepoTypeOK
    <3> HIDE DEF entries
    <3> QED
      BY <1>2, <3>1, <3>2, CoverExtended DEF Protected
  <2>3. CASE ~WriteCheckpoint /\ ~(\E p \in Paths : ApplyFile(p))
    <3>1. UNCHANGED <<tree, checkpoints>>
      BY <2>3 DEF TaskStep, WriteHead, WriteActiveHead, MoveHead, ClearStage, WriteState, Applied,
         RestoreTask, StageAll
    <3> QED
      BY <1>2, <3>1, CoverKept DEF Protected
  <2> QED
    BY <2>1, <2>2, <2>3 DEF Protected
<1>3. CASE ~Covered /\ Careful(todo)
  <2>1. Head(todo).do \notin {"apply", "stageAll"}
    BY <1>1, <1>3 DEF Careful
  <2>2. CASE WriteCheckpoint \/ WriteHead \/ WriteActiveHead \/ WriteState
    <3>1. Head(todo).do # "clearStage" /\ UNCHANGED stage
      BY <2>2 DEF WriteCheckpoint, WriteHead, WriteActiveHead, MoveHead, WriteState, Next1
    <3>2. ASSUME NEW t \in TasksIn(todo') PROVE t \in TasksIn(todo) \/ t.do \in {"head", "clearStage"}
      <4>1. CASE WriteCheckpoint
        <5>1. Len(checkpoints) + 1 \in Nat
          BY DEF TypeOK, RepoTypeOK
        <5> QED
          BY <4>1, <5>1, CheckpointStepTasks, NewTaskVerbs
      <4>2. CASE ~WriteCheckpoint
        BY <2>2, <4>2, StepTasks
      <4> QED
        BY <4>1, <4>2
    <3>3. StageEmpty => StageEmpty'
      BY <3>1 DEF StageEmpty
    <3>4. Careful(todo)'
      BY <1>3, <3>1, <3>2, <3>3 DEF Careful
    <3> QED
      BY <3>4 DEF Protected
  <2>3. CASE ClearStage
    <3>1. StageEmpty'
      BY <2>3 DEF ClearStage, StageEmpty
    <3>2. Careful(todo)'
      BY <1>3, <2>3, <3>1, StepTasks DEF Careful
    <3> QED
      BY <3>2 DEF Protected
  <2>4. CASE RestoreTask
    <3> DEFINE rest == <<Do("apply", active, Head(todo).id), Do("clearStage", active, 0),
                         Do("activeHead", active, Head(todo).id)>>
    <3>1. Head(todo).do = "restore" /\ UNCHANGED stage
      BY <2>4 DEF RestoreTask, Next1
    <3>2. StageEmpty'
      BY <1>1, <1>3, <3>1 DEF Careful, StageEmpty
    <3>3. ~Clean
      BY <1>3, CleanIsCovered
    <3>4. todo' = <<Do("checkpoint", active, 0)>> \o rest \o Tail(todo)
      BY <2>4, <3>3 DEF RestoreTask
    <3>5. Head(todo).id \in Nat /\ Tail(todo) \in Seq(Tasks) /\ active \in Streams
      BY <1>1, TasksSplit DEF TypeOK, RepoTypeOK
    <3>6. rest \in Seq(Tasks) /\ <<Do("checkpoint", active, 0)>> \in Seq(Tasks)
      BY <3>5, CommandTasks
    <3> HIDE DEF rest
    <3>7. Head(todo') = Do("checkpoint", active, 0)
      BY <3>4, <3>5, <3>6
    <3>8. ASSUME NEW t \in TasksIn(todo') PROVE t.do # "stageAll"
      BY <1>3, <2>4, <3>5, RestoreStepTasks, NewTaskVerbs DEF Careful
    <3> QED
      BY <3>2, <3>7, <3>8, NewTaskVerbs, <3>5 DEF Protected
  <2>5. ~Applied /\ ~StageAll /\ \A p \in Paths : ~ApplyFile(p)
    BY <2>1 DEF Applied, StageAll, ApplyFile, Next1
  <2> QED
    BY <2>2, <2>3, <2>4, <2>5 DEF TaskStep
<1>4. CASE /\ ~Covered /\ StageEmpty /\ Head(todo).do = "checkpoint"
  <2>1. WriteCheckpoint
    BY <1>4 DEF TaskStep, WriteHead, WriteActiveHead, ClearStage, WriteState, Applied, RestoreTask,
       StageAll, ApplyFile, Next1
  <2>2. AppendCheckpoint(tree, {ActiveHead}) /\ UNCHANGED tree
    BY <1>4, <2>1 DEF WriteCheckpoint
  <2>3. tree \in Trees /\ {ActiveHead} \in SUBSET Nat
    BY TreesAreTotal DEF TypeOK, RepoTypeOK
  <2>4. /\ Len(checkpoints) + 1 \in DOMAIN checkpoints'
        /\ checkpoints'[Len(checkpoints) + 1].tree = tree
    BY <2>2, <2>3, CheckpointAppended
  <2>5. Covered'
    BY <2>2, <2>4 DEF Covered
  <2> QED
    BY <2>5 DEF Protected
<1> QED
  BY <1>2, <1>3, <1>4 DEF Sound, Protected

\* Every write of a command keeps the strengthening.
LEMMA TaskStepKeepsSound ==
  ASSUME TypeOK, Sound, TaskStep, UNCHANGED <<log, conflicts, pending>>
  PROVE  Sound'
<1>1. ObjectsStored' /\ ParentsOlder' /\ StageStored'
  BY TaskStepKeepsObjects
<1>2. HeadsExist'
  BY TaskStepKeepsHeads
<1>3. Protected'
  BY TaskStepKeepsCover
<1>4. ConflictsLogged'
  BY TaskStepKeepsConflicts
<1> QED
  BY <1>1, <1>2, <1>3, <1>4 DEF Sound

-----------------------------------------------------------------------------
(* The commands                                                              *)

\* The tasks a command may begin with: their heads are written, no conflict is
\* marked, and the work tree is clean or handled with care.
Ordinary(tasks) ==
  /\ GroundedTasks(tasks)
  /\ \A t \in TasksIn(tasks) : t.do # "resolve"
  /\ Clean \/ Careful(tasks)

\* What the log and the operation in progress remember are heads.
Remembered ==
  /\ \A i \in DOMAIN log : log[i].before.head \in 0..Len(checkpoints)
  /\ pending # None => pending.before.head \in 0..Len(checkpoints)

\* A command begins.
LEMMA FreshKeepsSound ==
  ASSUME TypeOK, Sound, NEW tasks, Ordinary(tasks), todo' = tasks,
         UNCHANGED <<tree, stage, checkpoints, blobs>>,
         \A s \in Streams : heads'[s] \in 0..Len(checkpoints),
         Remembered', ResolutionLogged'
  PROVE  Sound'
<1>1. ObjectsStored' /\ ParentsOlder' /\ StageStored'
  BY DEF Sound, ObjectsStored, ParentsOlder, StageStored
<1>2. HeadsExist'
  BY DEF HeadsExist, Ordinary, GroundedTasks, Remembered
<1>3. Protected'
  <2>1. CASE Clean
    BY <2>1, CleanIsCovered, CoverKept DEF Protected
  <2>2. CASE Careful(tasks)
    BY <2>2 DEF Careful, StageEmpty, Protected
  <2> QED
    BY <2>1, <2>2 DEF Ordinary
<1>4. ConflictsLogged'
  BY DEF ConflictsLogged, Ordinary
<1> QED
  BY <1>1, <1>2, <1>3, <1>4 DEF Sound

\* Nothing is left to do: a command has ended or died, or the user edits.
LEMMA QuietKeepsSound ==
  ASSUME TypeOK, Sound, todo' = <<>>, UNCHANGED <<checkpoints, heads>>, blobs \subseteq blobs',
         StageStored', Remembered', ResolutionLogged'
  PROVE  Sound'
<1>1. TasksIn(todo') = {}
  BY TupleTasks
<1>2. ObjectsStored' /\ ParentsOlder'
  BY ObjectsKept DEF Sound
<1>3. HeadsExist'
  BY <1>1 DEF Sound, HeadsExist, GroundedTasks, Remembered
<1>4. Protected'
  BY <1>1 DEF Careful, Protected
<1>5. ConflictsLogged'
  BY <1>1 DEF ConflictsLogged
<1> QED
  BY <1>2, <1>3, <1>4, <1>5 DEF Sound

\* A task that concerns no file is done.
LEMMA TailKeepsSound ==
  ASSUME TypeOK, Sound, todo # <<>>, todo' = Tail(todo), Head(todo).do \notin {"checkpoint", "clearStage"},
         UNCHANGED <<tree, stage, checkpoints, blobs, heads>>, Remembered', UNCHANGED log,
         ResolutionLogged'
  PROVE  Sound'
<1>1. TasksIn(todo') \subseteq TasksIn(todo)
  BY TailTasks
<1>2. ObjectsStored' /\ ParentsOlder' /\ StageStored'
  BY DEF Sound, ObjectsStored, ParentsOlder, StageStored
<1>3. HeadsExist'
  BY <1>1 DEF Sound, HeadsExist, GroundedTasks, Remembered
<1>4. Protected'
  <2>1. CASE Covered
    BY <2>1, CoverKept DEF Protected
  <2>2. CASE Careful(todo)
    BY <1>1, <2>2 DEF Careful, StageEmpty, Protected
  <2> QED
    BY <2>1, <2>2 DEF Sound, Protected
<1>5. ConflictsLogged'
  BY <1>1 DEF Sound, ConflictsLogged
<1> QED
  BY <1>2, <1>3, <1>4, <1>5 DEF Sound

\* What the log says of conflicts stays when neither is written,
LEMMA ResolutionKept ==
  ASSUME Sound, UNCHANGED <<log, conflicts>>
  PROVE  ResolutionLogged'
BY DEF Sound, ConflictsLogged, ResolutionLogged

\* and so do the heads that it remembers.
LEMMA RememberedKept ==
  ASSUME Sound, UNCHANGED <<log, checkpoints, pending>>
  PROVE  Remembered'
BY DEF Sound, HeadsExist, Remembered, None

\* The snapshot of an operation that starts names the head of the moment.
LEMMA StartRemembers ==
  ASSUME TypeOK, Sound, NEW type, NEW about, Start(type, about), UNCHANGED checkpoints
  PROVE  Remembered' /\ UNCHANGED <<log, conflicts>>
<1>1. pending'.before.head = ActiveHead
  BY DEF Start, Operation, Snapshot
<1>2. ActiveHead \in 0..Len(checkpoints) /\ UNCHANGED <<log, conflicts>>
  BY DEF Sound, HeadsExist, ActiveHead, TypeOK, RepoTypeOK, Start, records
<1> QED
  BY <1>1, <1>2 DEF Sound, HeadsExist, Remembered

\* Every command begins with such tasks.
LEMMA OrdinaryTasks ==
  ASSUME TypeOK, Sound, NEW s \in Streams, NEW id \in 0..Len(checkpoints)
  PROVE  /\ Ordinary(<<>>)
         /\ Ordinary(<<Do("checkpoint", active, 0)>>)
         /\ Ordinary(<<Do("checkpoint", active, 0), Do("record", active, 0)>>)
         /\ Clean => /\ Ordinary(CheckoutTasks(s))
                     /\ Ordinary(CheckoutTasks(s) \o <<Do("restore", s, id)>>)
                     /\ Ordinary(<<Do("apply", active, id), Do("head", active, id)>>)
                     /\ Ordinary(<<Do("restore", active, id), Do("stageAll", active, 0), Do("checkpoint", active, 0)>>)
                     /\ Ordinary(<<>> \o <<Do("restore", s, id)>>)
         /\ StageEmpty => /\ Ordinary(<<Do("restore", active, id)>>)
                          /\ Ordinary(<<>> \o <<Do("restore", active, id)>>)
         /\ Ordinary(<<Do("clearStage", active, 0)>> \o <<Do("restore", active, id)>>)
<1>1. \A verb \in Verbs, r \in Streams, i \in Nat :
        Do(verb, r, i).do = verb /\ Do(verb, r, i).id = i /\ Do(verb, r, i) \in Tasks
  BY DoIsTask
<1>2. /\ {"checkpoint", "apply", "clearStage", "activate", "restore", "stageAll", "record", "head"}
           \subseteq Verbs
      /\ active \in Streams /\ id \in Nat /\ heads[s] \in Nat /\ heads[s] \in 0..Len(checkpoints)
      /\ Len(checkpoints) \in Nat
  BY DEF Verbs, TypeOK, RepoTypeOK, Sound, HeadsExist
<1>3. Ordinary(<<>>)
  BY TupleTasks DEF Ordinary, GroundedTasks, Careful
<1>4. Ordinary(<<Do("checkpoint", active, 0)>>)
  <2>1. TasksIn(<<Do("checkpoint", active, 0)>>) = {Do("checkpoint", active, 0)}
    BY TupleTasks
  <2> QED
    BY <1>1, <1>2, <2>1 DEF Ordinary, GroundedTasks, Careful, HeadVerbs
<1>5. Ordinary(<<Do("checkpoint", active, 0), Do("record", active, 0)>>)
  <2>1. TasksIn(<<Do("checkpoint", active, 0), Do("record", active, 0)>>)
          = {Do("checkpoint", active, 0), Do("record", active, 0)}
    BY TupleTasks
  <2> QED
    BY <1>1, <1>2, <2>1 DEF Ordinary, GroundedTasks, Careful, HeadVerbs
<1>6. TasksIn(CheckoutTasks(s)) = {Do("apply", s, heads[s]), Do("clearStage", s, 0), Do("activate", s, 0)}
  BY TripleTasks DEF CheckoutTasks
<1>7. ASSUME Clean PROVE Ordinary(CheckoutTasks(s))
  BY <1>1, <1>2, <1>6, <1>7 DEF Ordinary, GroundedTasks, HeadVerbs
<1>8. ASSUME Clean PROVE Ordinary(CheckoutTasks(s) \o <<Do("restore", s, id)>>)
  <2>1. CheckoutTasks(s) \in Seq(Tasks) /\ <<Do("restore", s, id)>> \in Seq(Tasks)
    BY <1>1, <1>2 DEF CheckoutTasks
  <2>2. TasksIn(<<Do("restore", s, id)>>) = {Do("restore", s, id)}
    BY TupleTasks
  <2>3. TasksIn(CheckoutTasks(s) \o <<Do("restore", s, id)>>) = TasksIn(CheckoutTasks(s)) \cup {Do("restore", s, id)}
    <3>1. TasksIn(CheckoutTasks(s) \o <<Do("restore", s, id)>>)
            = TasksIn(CheckoutTasks(s)) \cup TasksIn(<<Do("restore", s, id)>>)
      BY <2>1, JoinedTasks
    <3> QED
      BY <2>2, <3>1
  <2>4. \A t \in TasksIn(CheckoutTasks(s)) :
          t.do # "resolve" /\ (t.do \in HeadVerbs => t.id \in 0..Len(checkpoints))
    BY <1>7, <1>8 DEF Ordinary, GroundedTasks
  <2>5. Do("restore", s, id).do = "restore" /\ Do("restore", s, id).id = id
    BY DEF Do
  <2> QED
    BY <1>2, <1>8, <2>3, <2>4, <2>5 DEF Ordinary, GroundedTasks
<1>9. ASSUME Clean PROVE Ordinary(<<Do("apply", active, id), Do("head", active, id)>>)
  <2>1. TasksIn(<<Do("apply", active, id), Do("head", active, id)>>)
          = {Do("apply", active, id), Do("head", active, id)}
    BY TupleTasks
  <2> QED
    BY <1>2, <1>9, <2>1 DEF Ordinary, GroundedTasks, HeadVerbs, Do
<1>10. ASSUME Clean
       PROVE  Ordinary(<<Do("restore", active, id), Do("stageAll", active, 0), Do("checkpoint", active, 0)>>)
  <2>1. TasksIn(<<Do("restore", active, id), Do("stageAll", active, 0), Do("checkpoint", active, 0)>>)
          = {Do("restore", active, id), Do("stageAll", active, 0), Do("checkpoint", active, 0)}
    BY TripleTasks
  <2> QED
    BY <1>2, <1>10, <2>1 DEF Ordinary, GroundedTasks, HeadVerbs, Do
<1>11. ASSUME NEW r \in Streams, Clean \/ StageEmpty PROVE Ordinary(<<Do("restore", r, id)>>)
  <2>1. TasksIn(<<Do("restore", r, id)>>) = {Do("restore", r, id)}
    BY TupleTasks
  <2> QED
    BY <1>1, <1>2, <1>11, <2>1 DEF Ordinary, GroundedTasks, Careful, HeadVerbs
<1>12. \A r \in Streams : <<>> \o <<Do("restore", r, id)>> = <<Do("restore", r, id)>>
  OBVIOUS
<1>13. Ordinary(<<Do("clearStage", active, 0)>> \o <<Do("restore", active, id)>>)
  <2>1. <<Do("clearStage", active, 0)>> \in Seq(Tasks) /\ <<Do("restore", active, id)>> \in Seq(Tasks)
    BY <1>1, <1>2
  <2>2. /\ TasksIn(<<Do("clearStage", active, 0)>>) = {Do("clearStage", active, 0)}
        /\ TasksIn(<<Do("restore", active, id)>>) = {Do("restore", active, id)}
    BY TupleTasks
  <2>3. TasksIn(<<Do("clearStage", active, 0)>> \o <<Do("restore", active, id)>>)
          = {Do("clearStage", active, 0), Do("restore", active, id)}
    <3>1. TasksIn(<<Do("clearStage", active, 0)>> \o <<Do("restore", active, id)>>)
            = TasksIn(<<Do("clearStage", active, 0)>>) \cup TasksIn(<<Do("restore", active, id)>>)
      BY <2>1, JoinedTasks
    <3> QED
      BY <2>2, <3>1
  <2>4. Head(<<Do("clearStage", active, 0)>> \o <<Do("restore", active, id)>>) = Do("clearStage", active, 0)
    BY <2>1
  <2> QED
    BY <1>1, <1>2, <2>3, <2>4 DEF Ordinary, GroundedTasks, Careful, HeadVerbs
<1> QED
  BY <1>2, <1>3, <1>4, <1>5, <1>7, <1>8, <1>9, <1>10, <1>11, <1>12, <1>13

\* A command that begins with them keeps the strengthening.
LEMMA BeginKeepsSound ==
  ASSUME TypeOK, Sound, NEW tasks, Ordinary(tasks), Begin(tasks), UNCHANGED <<log, conflicts>>,
         Remembered'
  PROVE  Sound'
<1>1. /\ todo' = tasks /\ UNCHANGED <<tree, stage, checkpoints, blobs>>
      /\ \A s \in Streams : heads'[s] \in 0..Len(checkpoints)
  BY DEF Begin, Sound, HeadsExist
<1> QED
  BY <1>1, FreshKeepsSound, ResolutionKept

\* Objects that a merge takes over from its two parents are stored.
LEMMA MergeKeepsSound ==
  ASSUME TypeOK, Sound, NEW source \in Streams, NEW base, Clean,
         AppendCheckpoint(Merged(base, heads[source], ActiveHead), {ActiveHead, heads[source]}),
         todo' = <<Do("head", active, Len(checkpoints) + 1), Do("apply", active, Len(checkpoints) + 1)>>,
         UNCHANGED <<tree, stage, blobs, heads, log, conflicts>>,
         pending' # None => pending'.before.head \in 0..Len(checkpoints)
  PROVE  Sound'
<1> DEFINE merged == Merged(base, heads[source], ActiveHead)
           parents == {ActiveHead, heads[source]}
<1>1. /\ heads[source] \in Nat /\ ActiveHead \in Nat
      /\ heads[source] \in 0..Len(checkpoints) /\ ActiveHead \in 0..Len(checkpoints)
  BY DEF Sound, HeadsExist, ActiveHead, TypeOK, RepoTypeOK
<1>2. TreeOf(heads[source]) \in Trees /\ TreeOf(ActiveHead) \in Trees
  BY <1>1, TreesAreTotal
<1>3. /\ merged \in Trees
      /\ \A p \in Paths : merged[p] = TreeOf(heads[source])[p] \/ merged[p] = TreeOf(ActiveHead)[p]
  BY <1>2 DEF Merged, Trees
<1>4. /\ \A p \in Paths : TreeOf(heads[source])[p] # Absent => TreeOf(heads[source])[p] \in blobs
      /\ \A p \in Paths : TreeOf(ActiveHead)[p] # Absent => TreeOf(ActiveHead)[p] \in blobs
  BY <1>1, StoredTrees DEF Sound
<1>5. parents \in SUBSET Nat /\ parents \subseteq 0..Len(checkpoints)
  BY <1>1
<1>6. AppendCheckpoint(merged, parents)
  OBVIOUS
<1> HIDE DEF merged, parents
<1>7. \A p \in Paths : merged[p] # Absent => merged[p] \in blobs'
  BY <1>3, <1>4
<1>8. ObjectsStored' /\ ParentsOlder'
  BY <1>3, <1>5, <1>6, <1>7, ObjectsAppended DEF Sound
<1>9. StageStored'
  BY DEF Sound, StageStored
<1>10. Protected'
  BY <1>3, <1>5, <1>6, CleanIsCovered, CoverExtended DEF Protected
<1>11. Len(checkpoints') = Len(checkpoints) + 1 /\ Len(checkpoints) \in Nat
  BY <1>3, <1>5, <1>6, CheckpointAppended
<1>12. TasksIn(todo') = {Do("head", active, Len(checkpoints) + 1), Do("apply", active, Len(checkpoints) + 1)}
  BY TupleTasks
<1>13. \A t \in TasksIn(todo') : t.id = Len(checkpoints) + 1 /\ t.do # "resolve"
  BY <1>12 DEF Do
<1>14. GroundedTasks(todo)'
  BY <1>11, <1>13 DEF GroundedTasks
<1>15. /\ \A s \in Streams : heads'[s] \in 0..Len(checkpoints')
       /\ \A i \in DOMAIN log' : log'[i].before.head \in 0..Len(checkpoints')
       /\ pending' # None => pending'.before.head \in 0..Len(checkpoints')
  BY <1>11 DEF Sound, HeadsExist
<1>16. HeadsExist'
  BY <1>14, <1>15 DEF HeadsExist, None
<1>17. ConflictsLogged'
  BY <1>13, ResolutionKept DEF ConflictsLogged
<1> QED
  BY <1>8, <1>9, <1>10, <1>16, <1>17 DEF Sound

\* Either way of integrating keeps the strengthening.
LEMMA IntegrateKeepsSound ==
  ASSUME TypeOK, Sound, NEW source \in Streams, Integrate(source), UNCHANGED <<log, conflicts>>,
         pending' # None => pending'.before.head \in 0..Len(checkpoints)
  PROVE  Sound'
<1>1. Clean
  BY DEF Integrate
<1>2. PICK base \in Bases(source) : Integrated(source, base)
  BY DEF Integrate
<1>3. heads[source] \in 0..Len(checkpoints)
  BY DEF Sound, HeadsExist
<1>4. UNCHANGED checkpoints => Remembered'
  BY DEF Sound, HeadsExist, Remembered, None
<1>5. CASE Begin(<<>>)
  <2>1. Remembered'
    BY <1>4, <1>5 DEF Begin
  <2> QED
    BY <1>3, <1>5, <2>1, BeginKeepsSound, OrdinaryTasks
<1>6. CASE Begin(<<Do("apply", active, heads[source]), Do("head", active, heads[source])>>)
  <2>1. Remembered'
    BY <1>4, <1>6 DEF Begin
  <2>2. Ordinary(<<Do("apply", active, heads[source]), Do("head", active, heads[source])>>)
    BY <1>1, <1>3, OrdinaryTasks
  <2> QED
    BY <1>6, <2>1, <2>2, BeginKeepsSound
<1>7. CASE /\ AppendCheckpoint(Merged(base, heads[source], ActiveHead), {ActiveHead, heads[source]})
           /\ todo' = <<Do("head", active, Len(checkpoints) + 1), Do("apply", active, Len(checkpoints) + 1)>>
           /\ UNCHANGED <<setup, tree, stage, blobs, heads, streams, active>>
  BY <1>1, <1>7, MergeKeepsSound
<1> QED
  BY <1>2, <1>5, <1>6, <1>7 DEF Integrated

\* Every command keeps it as it begins.
LEMMA CommandKeepsSound ==
  ASSUME TypeOK, Sound, Command, UNCHANGED <<log, conflicts, pending>>
  PROVE  Sound'
<1>1. /\ ResolutionLogged'
      /\ UNCHANGED checkpoints => Remembered'
      /\ pending' # None => pending'.before.head \in 0..Len(checkpoints)
      /\ \A s \in Streams : heads[s] \in 0..Len(checkpoints)
      /\ StageStored
  BY ResolutionKept, RememberedKept DEF Sound, HeadsExist
<1>2. CASE Initialize
  <2> DEFINE tasks == <<Do("stream", Main, 0), Do("state", Main, 0)>>
  <2>1. todo' = tasks /\ UNCHANGED <<tree, stage, checkpoints, blobs, heads>>
    BY <1>2 DEF Initialize
  <2>2. TasksIn(tasks) = {Do("stream", Main, 0), Do("state", Main, 0)}
    BY TupleTasks
  <2>3. Ordinary(tasks)
    BY <2>2 DEF Ordinary, GroundedTasks, Careful, HeadVerbs, Do
  <2> HIDE DEF tasks
  <2> QED
    BY <1>1, <2>1, <2>3, FreshKeepsSound
<1>3. CASE InitializeStep
  BY <1>1, <1>3, TailKeepsSound DEF InitializeStep, Next1
<1>4. ASSUME NEW p \in Paths, NEW c \in Files, Edit(p, c) PROVE Sound'
  <2>1. todo' = <<>> /\ UNCHANGED <<checkpoints, heads, blobs, stage>>
    BY <1>4 DEF Edit
  <2> QED
    BY <1>1, <2>1, QuietKeepsSound DEF StageStored
<1>5. ASSUME NEW selected \in SUBSET Paths, StagePaths(selected) PROVE Sound'
  <2>1. todo' = <<>> /\ UNCHANGED <<checkpoints, heads>> /\ StageSelected(selected)
    BY <1>5 DEF StagePaths, Idle
  <2> QED
    BY <1>1, <2>1, StagedIsStored, QuietKeepsSound
<1>6. ASSUME NEW selected \in SUBSET Paths, UnstagePaths(selected) PROVE Sound'
  <2>1. todo' = <<>> /\ UNCHANGED <<checkpoints, heads, blobs>>
    BY <1>6 DEF UnstagePaths, Idle
  <2>2. StageStored'
    BY <1>1, <1>6, MarksAssumption DEF UnstagePaths, StageStored
  <2> QED
    BY <1>1, <2>1, <2>2, QuietKeepsSound
<1>7. CASE Commit
  <2>1. Begin(<<Do("checkpoint", active, 0)>>) /\ UNCHANGED checkpoints
    BY <1>7 DEF Commit, Begin
  <2>2. Ordinary(<<Do("checkpoint", active, 0)>>)
    BY <1>1, OrdinaryTasks, StreamsAssumption
  <2> QED
    BY <1>1, <2>1, <2>2, BeginKeepsSound
<1>8. ASSUME NEW s \in Streams, Checkout(s) PROVE Sound'
  <2>1. Begin(CheckoutTasks(s)) /\ Clean /\ UNCHANGED checkpoints
    BY <1>8 DEF Checkout, Begin
  <2>2. Ordinary(CheckoutTasks(s))
    BY <1>1, <2>1, OrdinaryTasks
  <2> QED
    BY <1>1, <2>1, <2>2, BeginKeepsSound
<1>9. ASSUME NEW s \in Streams, Integrate(s) PROVE Sound'
  BY <1>1, <1>9, IntegrateKeepsSound
<1>10. ASSUME NEW s \in Streams, NEW enter \in BOOLEAN, CreateWorkstream(s, enter) PROVE Sound'
  <2> DEFINE enterTasks == <<Do("apply", s, ActiveHead), Do("clearStage", s, 0), Do("activate", s, 0)>>
  <2>1. /\ UNCHANGED <<tree, stage, checkpoints, blobs>>
        /\ todo' = <<>> \/ (Clean /\ todo' = enterTasks)
        /\ heads' = [heads EXCEPT ![s] = ActiveHead]
    BY <1>10 DEF CreateWorkstream
  <2>2. ActiveHead \in 0..Len(checkpoints)
    BY <1>1 DEF ActiveHead, TypeOK, RepoTypeOK
  <2>3. \A r \in Streams : heads'[r] \in 0..Len(checkpoints)
    BY <1>1, <2>1, <2>2 DEF TypeOK, RepoTypeOK
  <2>4. Ordinary(<<>>)
    BY <1>1, OrdinaryTasks, StreamsAssumption
  <2>5. TasksIn(enterTasks) = {Do("apply", s, ActiveHead), Do("clearStage", s, 0), Do("activate", s, 0)}
    BY TripleTasks
  <2>6. Clean => Ordinary(enterTasks)
    BY <2>2, <2>5 DEF Ordinary, GroundedTasks, HeadVerbs, Do
  <2> HIDE DEF enterTasks
  <2>7. CASE todo' = <<>>
    BY <1>1, <2>1, <2>3, <2>4, <2>7, FreshKeepsSound
  <2>8. CASE Clean /\ todo' = enterTasks
    BY <1>1, <2>1, <2>3, <2>6, <2>8, FreshKeepsSound
  <2> QED
    BY <2>1, <2>7, <2>8
<1>11. ASSUME NEW id \in DOMAIN checkpoints, Restore(id) PROVE Sound'
  <2> DEFINE clear == <<Do("clearStage", active, 0)>> \o <<Do("restore", active, id)>>
             bare == <<>> \o <<Do("restore", active, id)>>
  <2>1. (Begin(clear) \/ (StageEmpty /\ Begin(bare))) /\ UNCHANGED checkpoints
    BY <1>11 DEF Restore, Begin
  <2>2. id \in 0..Len(checkpoints)
    BY DEF TypeOK, RepoTypeOK
  <2>3. Ordinary(clear) /\ (StageEmpty => Ordinary(bare))
    BY <1>1, <2>2, OrdinaryTasks, StreamsAssumption
  <2> HIDE DEF clear, bare
  <2> QED
    BY <1>1, <2>1, <2>3, BeginKeepsSound
<1>12. ASSUME NEW id \in DOMAIN checkpoints, Revert(id) PROVE Sound'
  <2> DEFINE tasks == <<Do("restore", active, id), Do("stageAll", active, 0), Do("checkpoint", active, 0)>>
  <2>1. Begin(tasks) /\ Clean /\ UNCHANGED checkpoints
    BY <1>12 DEF Revert, Begin
  <2>2. id \in 0..Len(checkpoints)
    BY DEF TypeOK, RepoTypeOK
  <2>3. Ordinary(tasks)
    BY <1>1, <2>1, <2>2, OrdinaryTasks, StreamsAssumption
  <2> HIDE DEF tasks
  <2> QED
    BY <1>1, <2>1, <2>3, BeginKeepsSound
<1>13. CASE Crash
  <2>1. todo' = <<>> /\ UNCHANGED <<checkpoints, heads, blobs, stage>>
    BY <1>13 DEF Crash
  <2> QED
    BY <1>1, <2>1, QuietKeepsSound DEF StageStored
<1> QED
  BY <1>2, <1>3, <1>4, <1>5, <1>6, <1>7, <1>8, <1>9, <1>10, <1>11, <1>12, <1>13 DEF Command

\* And so does every step of the operations around the commands.
LEMMA SoundStep == TypeOK /\ Sound /\ [Next]_vars => Sound'
<1> SUFFICES ASSUME TypeOK, Sound, [Next]_vars PROVE Sound'
  OBVIOUS
<1>1. /\ UNCHANGED <<log, conflicts>> => ResolutionLogged'
      /\ UNCHANGED <<log, checkpoints, pending>> => Remembered'
      /\ \A s \in Streams : heads[s] \in 0..Len(checkpoints)
      /\ \A i \in DOMAIN log : log[i].before.head \in 0..Len(checkpoints)
      /\ pending # None => pending.before.head \in 0..Len(checkpoints)
      /\ StageStored /\ ResolutionLogged
      /\ Len(checkpoints) \in Nat /\ DOMAIN checkpoints = 1..Len(checkpoints)
  BY ResolutionKept, RememberedKept DEF Sound, HeadsExist, ConflictsLogged, TypeOK, RepoTypeOK
<1>2. CASE UNCHANGED vars
  <2>1. UNCHANGED <<checkpoints, blobs, stage, tree, heads, todo, log, conflicts, pending>>
    BY <1>2 DEF vars, repoVars
  <2> QED
    BY <2>1 DEF Sound, ObjectsStored, ParentsOlder, StageStored, HeadsExist, GroundedTasks, None,
       Protected, Covered, Careful, StageEmpty, ConflictsLogged, ResolutionLogged, TasksIn
<1>3. CASE PlainCommand
  BY <1>3, CommandKeepsSound DEF PlainCommand, records
<1>4. CASE TaskStep /\ UNCHANGED <<records, pending>>
  BY <1>4, TaskStepKeepsSound DEF records
<1>5. CASE CommitChange
  <2> DEFINE tasks == <<Do("checkpoint", active, 0), Do("record", active, 0)>>
  <2>1. Begin(tasks) /\ Start("commit", 0) /\ UNCHANGED checkpoints
    BY <1>5 DEF CommitChange, Begin
  <2>2. Ordinary(tasks)
    BY <1>1, OrdinaryTasks, StreamsAssumption
  <2> HIDE DEF tasks
  <2> QED
    BY <2>1, <2>2, StartRemembers, BeginKeepsSound
<1>6. ASSUME NEW s \in Streams, CheckoutOperation(s) PROVE Sound'
  <2>1. Begin(CheckoutTasks(s)) /\ Clean /\ Start("checkout", 0) /\ UNCHANGED checkpoints
    BY <1>6 DEF CheckoutOperation, Checkout, Begin
  <2>2. Ordinary(CheckoutTasks(s))
    BY <1>1, <2>1, OrdinaryTasks
  <2> QED
    BY <2>1, <2>2, StartRemembers, BeginKeepsSound
<1>7. ASSUME NEW s \in Streams, IntegrateOperation(s) PROVE Sound'
  <2>1. Integrate(s) /\ Start("integrate", 0)
    BY <1>7 DEF IntegrateOperation
  <2>2. /\ UNCHANGED <<log, conflicts>>
        /\ pending'.before.head \in 0..Len(checkpoints)
    BY <1>1, <2>1 DEF Start, records, Operation, Snapshot, ActiveHead, TypeOK, RepoTypeOK
  <2> QED
    BY <2>1, <2>2, IntegrateKeepsSound
<1>8. ASSUME NEW s \in Streams, RecordConflict(s) PROVE Sound'
  <2>1. /\ todo' = <<>> /\ UNCHANGED <<checkpoints, heads, blobs, stage, log, pending>>
        /\ conflicts' = Append(conflicts, "unresolved")
    BY <1>8 DEF RecordConflict, Free, Idle, repoVars
  <2>2. ResolutionLogged'
    <3>1. \A i \in DOMAIN conflicts' : conflicts'[i] = "resolved" => i \in DOMAIN conflicts /\ conflicts[i] = "resolved"
      BY <2>1 DEF TypeOK
    <3> QED
      BY <1>1, <2>1, <3>1 DEF ResolutionLogged
  <2> QED
    BY <1>1, <2>1, <2>2, QuietKeepsSound DEF StageStored
<1>9. ASSUME NEW id \in DOMAIN checkpoints, RestoreOperation(id) PROVE Sound'
  <2>1. Begin(<<Do("restore", active, id)>>) /\ StageEmpty /\ Start("restore", id) /\ UNCHANGED checkpoints
    BY <1>9 DEF RestoreOperation, Begin
  <2>2. Ordinary(<<Do("restore", active, id)>>)
    <3>1. id \in 0..Len(checkpoints)
      BY <1>1
    <3> QED
      BY <2>1, <3>1, OrdinaryTasks, StreamsAssumption
  <2> QED
    BY <2>1, <2>2, StartRemembers, BeginKeepsSound
<1>10. ASSUME NEW id \in DOMAIN checkpoints, NEW i \in DOMAIN conflicts, ResolveConflict(i, id)
       PROVE  Sound'
  <2> DEFINE row == [before |-> Snapshot, resolves |-> i]
  <2>1. /\ log' = Append(log, row) /\ todo' = <<Do("resolve", active, i)>>
        /\ UNCHANGED <<tree, stage, checkpoints, blobs, heads, conflicts, pending>>
    BY <1>10 DEF ResolveConflict, Begin
  <2>2. row.resolves = i /\ row.before.head \in 0..Len(checkpoints)
    BY <1>1 DEF Snapshot, ActiveHead, TypeOK, RepoTypeOK
  <2> HIDE DEF row
  <2>3. /\ Len(log) \in Nat /\ DOMAIN log = 1..Len(log)
        /\ DOMAIN log' = 1..(Len(log) + 1)
        /\ \A j \in DOMAIN log : log'[j] = log[j]
        /\ log'[Len(log) + 1] = row
    BY <2>1 DEF TypeOK
  <2>4. TasksIn(todo') = {Do("resolve", active, i)}
    BY <2>1, TupleTasks
  <2>5. Do("resolve", active, i).do = "resolve" /\ Do("resolve", active, i).id = i
    BY DEF Do
  <2>6. HeadsExist'
    <3>1. \A j \in DOMAIN log' : log'[j].before.head \in 0..Len(checkpoints)
      BY <1>1, <2>2, <2>3
    <3>2. GroundedTasks(todo)'
      BY <2>4, <2>5 DEF GroundedTasks, HeadVerbs
    <3> QED
      BY <1>1, <2>1, <3>1, <3>2 DEF HeadsExist, None
  <2>7. Protected'
    BY <2>4, <2>5 DEF Protected, Careful
  <2>8. ConflictsLogged'
    <3>1. \E j \in DOMAIN log' : log'[j].resolves = i
      BY <2>2, <2>3
    <3>2. ResolutionLogged'
      <4>1. ASSUME NEW k \in DOMAIN conflicts, conflicts[k] = "resolved"
            PROVE  \E j \in DOMAIN log' : log'[j].resolves = k
        <5>1. PICK j \in DOMAIN log : log[j].resolves = k
          BY <1>1, <4>1 DEF ResolutionLogged
        <5> QED
          BY <2>3, <5>1
      <4> QED
        BY <2>1, <4>1 DEF ResolutionLogged
    <3> QED
      BY <2>4, <2>5, <3>1, <3>2 DEF ConflictsLogged
  <2>9. ObjectsStored' /\ ParentsOlder' /\ StageStored'
    BY <2>1 DEF Sound, ObjectsStored, ParentsOlder, StageStored
  <2> QED
    BY <2>6, <2>7, <2>8, <2>9 DEF Sound
<1>11. ASSUME NEW i \in DOMAIN log, UndoOperation(i) PROVE Sound'
  <2> DEFINE before == log[i].before
             enter == IF before.stream = active THEN <<>> ELSE CheckoutTasks(before.stream)
             both == enter \o <<Do("restore", before.stream, before.head)>>
  <2>1. /\ Clean
        /\ Begin(enter) \/ Begin(both)
        /\ Start("undo", i) \/ UNCHANGED <<log, conflicts, pending>>
        /\ UNCHANGED checkpoints
    BY <1>11 DEF UndoOperation, Begin, records
  <2>2. before.stream \in Streams /\ before.head \in 0..Len(checkpoints)
    <3> DEFINE Row == [before : Snapshots, resolves : Nat]
    <3>1. log \in Seq(Row)
      BY DEF TypeOK
    <3> HIDE DEF Row
    <3>2. log[i] \in Row
      BY <3>1
    <3> QED
      BY <1>1, <3>2 DEF Row, Snapshots
  <2>3. Ordinary(enter) /\ Ordinary(both)
    <3>1. CASE before.stream = active
      <4>1. enter = <<>>
        BY <3>1
      <4>2. Ordinary(<<>>) /\ Ordinary(<<>> \o <<Do("restore", before.stream, before.head)>>)
        BY <2>1, <2>2, OrdinaryTasks
      <4> QED
        BY <4>1, <4>2
    <3>2. CASE before.stream # active
      <4>1. enter = CheckoutTasks(before.stream)
        BY <3>2
      <4>2. /\ Ordinary(CheckoutTasks(before.stream))
            /\ Ordinary(CheckoutTasks(before.stream) \o <<Do("restore", before.stream, before.head)>>)
        BY <2>1, <2>2, OrdinaryTasks
      <4> QED
        BY <4>1, <4>2
    <3> QED
      BY <3>1, <3>2
  <2> HIDE DEF enter, both
  <2>4. Remembered' /\ UNCHANGED <<log, conflicts>>
    BY <1>1, <2>1, StartRemembers
  <2> QED
    BY <2>1, <2>3, <2>4, BeginKeepsSound
<1>12. CASE RecordChange
  BY <1>1, <1>12, TailKeepsSound DEF RecordChange, Next1, records
<1>13. CASE MarkResolved
  <2>1. /\ todo # <<>> /\ Head(todo).do = "resolve" /\ todo' = Tail(todo)
        /\ UNCHANGED <<tree, stage, checkpoints, blobs, heads, log, pending>>
        /\ conflicts' = [conflicts EXCEPT ![Head(todo).id] = "resolved"]
    BY <1>13 DEF MarkResolved, Next1
  <2>2. \E j \in DOMAIN log : log[j].resolves = Head(todo).id
    BY <2>1, TailTasks DEF Sound, ConflictsLogged
  <2>3. \A i \in DOMAIN conflicts' : i \in DOMAIN conflicts /\ (i # Head(todo).id => conflicts'[i] = conflicts[i])
    BY <2>1 DEF TypeOK
  <2>4. ResolutionLogged'
    BY <1>1, <2>1, <2>2, <2>3 DEF ResolutionLogged
  <2> QED
    BY <1>1, <2>1, <2>4, TailKeepsSound
<1>14. CASE AppendOperation
  <2> DEFINE row == [before |-> pending.before, resolves |-> 0]
  <2>1. /\ todo' = <<>> /\ pending' = None /\ log' = Append(log, row)
        /\ UNCHANGED <<checkpoints, heads, blobs, stage, conflicts>>
    BY <1>14 DEF AppendOperation, repoVars
  <2>2. row.before.head \in 0..Len(checkpoints)
    BY <1>1, <1>14 DEF AppendOperation
  <2> HIDE DEF row
  <2>3. /\ Len(log) \in Nat /\ DOMAIN log = 1..Len(log)
        /\ DOMAIN log' = 1..(Len(log) + 1)
        /\ \A j \in DOMAIN log : log'[j] = log[j]
        /\ log'[Len(log) + 1] = row
    BY <2>1 DEF TypeOK
  <2>4. Remembered'
    <3>1. \A j \in DOMAIN log' : j \in DOMAIN log \/ j = Len(log) + 1
      BY <2>3
    <3>2. \A j \in DOMAIN log' : log'[j].before.head \in 0..Len(checkpoints)
      BY <1>1, <2>2, <2>3, <3>1
    <3> QED
      BY <2>1, <3>2 DEF Remembered, None
  <2>5. ResolutionLogged'
    <3>1. ASSUME NEW k \in DOMAIN conflicts, conflicts[k] = "resolved"
          PROVE  \E j \in DOMAIN log' : log'[j].resolves = k
      <4>1. PICK j \in DOMAIN log : log[j].resolves = k
        BY <1>1, <3>1 DEF ResolutionLogged
      <4> QED
        BY <2>3, <4>1
    <3> QED
      BY <2>1, <3>1 DEF ResolutionLogged
  <2> QED
    BY <1>1, <2>1, <2>4, <2>5, QuietKeepsSound DEF StageStored
<1>15. CASE OperationCrash
  <2>1. todo' = <<>> /\ pending' = None /\ UNCHANGED <<checkpoints, heads, blobs, stage, log, conflicts>>
    BY <1>15 DEF OperationCrash, records
  <2>2. Remembered'
    BY <1>1, <2>1 DEF Remembered, None
  <2> QED
    BY <1>1, <2>1, <2>2, QuietKeepsSound DEF StageStored
<1> QED
  BY <1>2, <1>3, <1>4, <1>5, <1>6, <1>7, <1>8, <1>9, <1>10, <1>11, <1>12, <1>13, <1>14, <1>15 DEF Next

-----------------------------------------------------------------------------
(* Theorems                                                                  *)

RepositoryInvariant == TypeOK /\ Sound

\* The inductive invariant: whatever a command has written when the process dies,
\* objects come before checkpoints, checkpoints before heads, the log before the
\* mark of a conflict, and the work tree is replaced when it is in a checkpoint.
THEOREM RepositoryInvariantHolds == Spec => []RepositoryInvariant
<1>1. Init => RepositoryInvariant
  <2> SUFFICES ASSUME Init PROVE RepositoryInvariant
    OBVIOUS
  <2>1. /\ setup = "none" /\ tree \in Trees /\ stage = [p \in Paths |-> Unstaged]
        /\ checkpoints = <<>> /\ blobs = {} /\ heads = [s \in Streams |-> 0]
        /\ streams = {} /\ active = Main /\ todo = <<>> /\ log = <<>>
        /\ conflicts = <<>> /\ pending = None
    BY DEF Init, RepoInit
  <2>2. TypeOK
    BY <2>1, StreamsAssumption DEF TypeOK, RepoTypeOK, PendingOperations
  <2>3. TasksIn(todo) = {}
    BY <2>1, TupleTasks
  <2>4. HeadsExist
    BY <2>1, <2>3 DEF HeadsExist, GroundedTasks
  <2>5. ObjectsStored /\ ParentsOlder /\ StageStored
    BY <2>1, MarksAssumption DEF ObjectsStored, ParentsOlder, StageStored
  <2>6. Protected /\ ConflictsLogged
    BY <2>1, <2>3 DEF Protected, Careful, ConflictsLogged, ResolutionLogged
  <2> QED
    BY <2>2, <2>4, <2>5, <2>6 DEF RepositoryInvariant, Sound
<1>2. RepositoryInvariant /\ [Next]_vars => RepositoryInvariant'
  BY TypeStep, SoundStep DEF RepositoryInvariant
<1> QED
  BY <1>1, <1>2, PTL DEF Spec

\* The files of a working copy have the shapes that the commands expect.
THEOREM RepositoryTypesHold == Spec => []TypeOK
<1>1. RepositoryInvariant => TypeOK
  BY DEF RepositoryInvariant
<1> QED
  BY <1>1, RepositoryInvariantHolds, PTL

\* Wherever a command dies, every head, and every head that a command has still
\* to write, is that of a checkpoint whose record exists.
THEOREM HeadsAlwaysResolve == Spec => []HeadsResolve
<1>1. RepositoryInvariant => HeadsResolve
  <2> SUFFICES ASSUME TypeOK, HeadsExist PROVE HeadsResolve
    BY DEF RepositoryInvariant, Sound
  <2>1. todo \in Seq(Tasks) /\ Len(todo) \in Nat /\ DOMAIN todo = 1..Len(todo)
    BY DEF TypeOK, RepoTypeOK
  <2>2. ASSUME NEW k \in 1..Len(todo) PROVE todo[k] \in Grounded
    <3>1. todo[k] \in Tasks /\ todo[k] \in TasksIn(todo)
      BY <2>1 DEF TasksIn
    <3> QED
      BY <3>1 DEF HeadsExist, GroundedTasks, HeadVerbs, Grounded
  <2>3. todo \in Seq(Grounded)
    BY <2>1, <2>2
  <2> QED
    BY <2>3 DEF HeadsExist, HeadsResolve
<1> QED
  BY <1>1, RepositoryInvariantHolds, PTL

\* Whatever the commands have written when the process dies, the integrity check of
\* the working copy finds nothing to report.
THEOREM IntegrityAlwaysHolds == Spec => []IntegrityHolds
<1>1. RepositoryInvariant => IntegrityHolds
  <2> SUFFICES ASSUME ObjectsStored, ParentsOlder PROVE IntegrityHolds
    BY DEF RepositoryInvariant, Sound
  <2>1. \A i \in DOMAIN checkpoints : Contained(checkpoints[i].tree) \subseteq blobs
    BY DEF ObjectsStored, Contained
  <2>2. IntegrityErrors = {}
    <3>1. ASSUME NEW c, c \in IntegrityErrors PROVE FALSE
      <4> DEFINE named == {Contained(checkpoints[i].tree) : i \in DOMAIN checkpoints}
      <4>1. c \notin blobs /\ c \in UNION named
        BY <3>1 DEF IntegrityErrors
      <4>2. PICK files \in named : c \in files
        BY <4>1
      <4>3. files \subseteq blobs
        BY <2>1
      <4> QED
        BY <4>1, <4>2, <4>3
    <3> QED
      BY <3>1
  <2> QED
    BY <2>2 DEF IntegrityHolds, ParentsOlder
<1> QED
  BY <1>1, RepositoryInvariantHolds, PTL

\* A conflict that is marked resolved has the operation that resolved it in the log.
THEOREM ResolutionsAreLogged == Spec => []ResolutionLogged
<1>1. RepositoryInvariant => ResolutionLogged
  BY DEF RepositoryInvariant, Sound, ConflictsLogged
<1> QED
  BY <1>1, RepositoryInvariantHolds, PTL

\* No command replaces or removes a file of the work tree whose content is in no
\* checkpoint.
THEOREM NothingIsLost == Spec => NothingLost
<1> DEFINE Kept == \A p \in Paths : (todo # <<>> /\ tree'[p] # tree[p] /\ tree[p] # Absent) =>
                     \E i \in DOMAIN checkpoints : checkpoints[i].tree[p] = tree[p]
<1>1. RepositoryInvariant /\ [Next]_vars => [Kept]_repoVars
  <2> SUFFICES ASSUME RepositoryInvariant, [Next]_vars, NEW p \in Paths,
                      todo # <<>>, tree'[p] # tree[p], tree[p] # Absent
               PROVE  \E i \in DOMAIN checkpoints : checkpoints[i].tree[p] = tree[p]
    OBVIOUS
  <2>1. PICK q \in Paths : ApplyFile(q)
    BY DEF Next, vars, repoVars, PlainCommand, Command, Initialize, InitializeStep, Edit, StagePaths,
       UnstagePaths, Commit, Checkout, Integrate, Integrated, CreateWorkstream, Restore, Revert, Crash,
       Begin, TaskStep, WriteCheckpoint, WriteHead, WriteActiveHead, MoveHead, ClearStage, WriteState,
       Applied, RestoreTask, StageAll, CommitChange, CheckoutOperation, IntegrateOperation,
       RecordConflict, RestoreOperation, ResolveConflict, UndoOperation, RecordChange, MarkResolved,
       AppendOperation, OperationCrash
  <2>2. Head(todo).do = "apply" /\ Head(todo) \in TasksIn(todo)
    BY <2>1, TailTasks DEF ApplyFile, Next1, RepositoryInvariant
  <2>3. Covered
    BY <2>2 DEF RepositoryInvariant, Sound, Protected, Careful
  <2> QED
    BY <2>3 DEF Covered
<1> QED
  BY <1>1, RepositoryInvariantHolds, PTL DEF Spec, NothingLost

=============================================================================
