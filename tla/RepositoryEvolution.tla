------------------------ MODULE RepositoryEvolution ------------------------
(* The operation log, changes, conflicts and undo that evolution.ts adds to   *)
(* the commands of the native repository.  An operation takes a snapshot,     *)
(* runs the command, and only then writes its record to the log: a crash in   *)
(* between leaves the command done and the operation unknown.                 *)
EXTENDS NativeRepository

CONSTANTS MaxLog,       \* bound on the operations of a behaviour
          MaxConflicts  \* bound on the conflict records

VARIABLES log,          \* .sessions/operations: what undo and conflicts read of a record
          conflicts,    \* .sessions/conflicts
          pending       \* the operation whose command is in progress

vars == <<repoVars, log, conflicts, pending>>
records == <<log, conflicts>>

\* The source digest of a snapshot is read only where there was no head.
Snapshot == [stream |-> active, head |-> ActiveHead,
             source |-> IF ActiveHead = 0 THEN tree ELSE NoFiles]
None == [type |-> "none"]
Operation(type, before, about) == [type |-> type, before |-> before, about |-> about]

Types == {"commit", "integrate", "restore", "checkout", "undo"}
Snapshots == [stream : Streams, head : Nat, source : Trees]
PendingOperations == {None} \cup [type : Types, before : Snapshots, about : Nat]

TypeOK ==
  /\ RepoTypeOK
  /\ log \in Seq([before : Snapshots, resolves : Nat])
  /\ conflicts \in Seq({"unresolved", "resolved"})
  /\ pending \in PendingOperations

Init ==
  /\ RepoInit
  /\ log = <<>>
  /\ conflicts = <<>>
  /\ pending = None

-----------------------------------------------------------------------------
Free == Idle /\ pending = None
LogRoom == Len(log) < MaxLog
Start(type, about) == pending' = Operation(type, Snapshot, about) /\ UNCHANGED records

\* commitChange: the checkpoint, then the record of the change it belongs to
CommitChange ==
  /\ Free /\ LogRoom /\ Room
  /\ Begin(<<Do("checkpoint", active, 0), Do("record", active, 0)>>)
  /\ Start("commit", 0)

\* recordChange: the checkpoint joins a new change or an existing one, in a file
\* of its own that no command reads.
RecordChange ==
  /\ Next1("record")
  /\ todo' = Tail(todo)
  /\ UNCHANGED <<setup, tree, stage, checkpoints, blobs, heads, streams, active,
                 records, pending>>

CheckoutOperation(s) == Free /\ LogRoom /\ Checkout(s) /\ Start("checkout", 0)

\* restoreWithOperation.  No command calls it; its caller is taken to empty the
\* stage first, as "sessions restore" does before restoreCheckpoint.
RestoreOperation(id) ==
  /\ Free /\ LogRoom /\ Room /\ id \in DOMAIN checkpoints
  /\ StageEmpty
  /\ Begin(<<Do("restore", active, id)>>)
  /\ Start("restore", id)

\* integrateChange when the preview shows no conflict
IntegrateOperation(source) == Free /\ LogRoom /\ Integrate(source) /\ Start("integrate", 0)

\* integrateChange when it does: the conflict is recorded, also from a work
\* tree with changes, which integrateWorkstream would have refused.
RecordConflict(source) ==
  /\ Free /\ Exists(source) /\ source # active /\ Len(conflicts) < MaxConflicts
  /\ \E base \in Bases(source) :
       /\ ConflictsWith(source, base) # {}
       /\ conflicts' = Append(conflicts, "unresolved")
  /\ UNCHANGED <<repoVars, log, pending>>

\* Mutant: the conflict is marked first and the operation is logged after it.
ResolveConflictMarkFirst(i, id) ==
  /\ Free /\ LogRoom /\ i \in DOMAIN conflicts /\ id \in DOMAIN checkpoints
  /\ conflicts' = [conflicts EXCEPT ![i] = "resolved"]
  /\ UNCHANGED <<repoVars, log, pending>>

\* resolveConflict: the operation is logged before the conflict is marked.
ResolveConflict(i, id) ==
  /\ Free /\ LogRoom
  /\ i \in DOMAIN conflicts /\ conflicts[i] = "unresolved"
  /\ id \in DOMAIN checkpoints
  /\ log' = Append(log, [before |-> Snapshot, resolves |-> i])
  /\ Begin(<<Do("resolve", active, i)>>)
  /\ UNCHANGED <<conflicts, pending>>

MarkResolved ==
  /\ Next1("resolve")
  /\ conflicts' = [conflicts EXCEPT ![Head(todo).id] = "resolved"]
  /\ todo' = Tail(todo)
  /\ UNCHANGED <<setup, tree, stage, checkpoints, blobs, heads, streams, active,
                 log, pending>>

\* Mutant: the workstream that was active before the operation is not entered.
UndoOperationInPlace(i) ==
  LET before == log[i].before IN
  /\ Free /\ LogRoom /\ Clean /\ i \in DOMAIN log /\ before.head # 0
  /\ Begin(<<Do("restore", before.stream, before.head)>>)
  /\ Start("undo", i)

\* undoOperation: back to the workstream and the head before the operation.
\* Without a head before it, only the source digest is compared, after the
\* checkout has been done.
UndoOperation(i) ==
  LET before == log[i].before
      enter == IF before.stream = active THEN <<>> ELSE CheckoutTasks(before.stream)
      reached == IF before.stream = active THEN tree ELSE TreeOf(heads[before.stream])
  IN /\ Free /\ LogRoom /\ Clean
     /\ i \in DOMAIN log
     /\ IF before.head = 0
          THEN /\ Begin(enter)
               /\ IF reached = before.source THEN Start("undo", i)
                                           ELSE UNCHANGED <<records, pending>>
          ELSE /\ Begin(enter \o <<Do("restore", before.stream, before.head)>>)
               /\ Start("undo", i)

\* appendOperation, when the command has returned
AppendOperation ==
  /\ todo = <<>> /\ pending # None
  /\ log' = Append(log, [before |-> pending.before, resolves |-> 0])
  /\ pending' = None
  /\ UNCHANGED <<repoVars, conflicts>>

\* The process dies, in a command or between its end and the log.
OperationCrash ==
  /\ pending # None
  /\ todo' = <<>> /\ pending' = None
  /\ UNCHANGED <<setup, tree, stage, checkpoints, blobs, heads, streams, active, records>>

PlainCommand == pending = None /\ Command /\ UNCHANGED <<records, pending>>

Next ==
  \/ PlainCommand
  \/ TaskStep /\ UNCHANGED <<records, pending>>
  \/ CommitChange
  \/ \E s \in Streams : CheckoutOperation(s) \/ IntegrateOperation(s) \/ RecordConflict(s)
  \/ \E id \in DOMAIN checkpoints :
       \/ RestoreOperation(id)
       \/ \E i \in DOMAIN conflicts : ResolveConflict(i, id)
  \/ \E i \in DOMAIN log : UndoOperation(i)
  \/ RecordChange \/ MarkResolved \/ AppendOperation \/ OperationCrash

Spec == Init /\ [][Next]_vars

-----------------------------------------------------------------------------
(* Properties                                                                *)

\* An undo whose record is written has brought the working copy back to the
\* workstream, the head and the files that the undone operation started from.
UndoReturns ==
  [][(AppendOperation /\ pending.type = "undo") =>
       LET before == log[pending.about].before IN
       /\ Clean
       /\ active = before.stream
       /\ ActiveHead = before.head \/ (before.head = 0 /\ tree = before.source)]_vars

\* A recorded integration has moved the head forward only: what the workstream
\* had is an ancestor of what it has, or the workstream was empty.
IntegrationMovesForward ==
  [][(AppendOperation /\ pending.type = "integrate") =>
       /\ active = pending.before.stream
       /\ pending.before.head \in {0} \cup Ancestors(ActiveHead)]_vars

\* A conflict is marked resolved only when the operation that resolved it is in
\* the log, wherever the process dies.
ResolutionLogged ==
  \A i \in DOMAIN conflicts : conflicts[i] = "resolved" =>
    \E j \in DOMAIN log : log[j].resolves = i
=============================================================================
