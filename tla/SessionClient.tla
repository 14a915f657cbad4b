--------------------------- MODULE SessionClient ---------------------------
(* The commands of the CLI that talk to a session (apps/cli/src/index.ts)     *)
(* beside every other client of the API.  A command reads .sessions/runtime.json*)
(* when it starts, sends one request, and start and commit write the file when *)
(* they are answered: from what they read, not from what it holds by then.     *)
EXTENDS SessionLineage

CONSTANT MaxCommits   \* bound on the local checkpoints of a behaviour
ASSUME CommitBoundAssumption == MaxCommits \in Nat
Commits == 1..MaxCommits
ASSUME NoSessionAssumption == None \notin Sessions

VARIABLES commits,  \* the content of every local checkpoint, oldest first
          runtime,  \* runtime.json: the active session, and a snapshot for a checkpoint
          command   \* the start or commit that waits for the answer to a request

client == <<commits, runtime, command>>
clientVars == <<vars, client>>

Runtimes == [session : Sessions \cup {None}, snapshots : [Commits -> Snapshots \cup {None}]]
NoCommand == [name |-> "none"]
Commands == [name : {"start", "commit"}, loaded : Runtimes, commit : Commits \cup {0}]

ClientTypeOK ==
  /\ commits \in Seq(Contents) /\ Len(commits) <= MaxCommits
  /\ runtime \in Runtimes
  /\ command \in [Requests -> {NoCommand} \cup Commands]

ClientInit ==
  /\ Init
  /\ commits = <<>>
  /\ runtime = [session |-> None, snapshots |-> [c \in Commits |-> None]]
  /\ command = [p \in Requests |-> NoCommand]

Idling(p) == command[p] = NoCommand /\ request[p] = Idle
Waiting(p, name) == command[p].name = name
Send(p, name, commit) ==
  command' = [command EXCEPT ![p] = [name |-> name, loaded |-> runtime, commit |-> commit]]
Return(p) == command' = [command EXCEPT ![p] = NoCommand]

-----------------------------------------------------------------------------

\* start asks for a new session...
Start(p) ==
  /\ Idling(p) /\ Send(p, "start", 0)
  /\ UNCHANGED <<vars, commits, runtime>>

\* ... which becomes the active one; the snapshots of the session before stay.
StartAnswered(p) ==
  /\ Waiting(p, "start")
  /\ \E s \in Sessions : /\ CreateSession(s)
                        /\ runtime' = [command[p].loaded EXCEPT !.session = s]
  /\ Return(p) /\ UNCHANGED commits

\* createCommit: the local checkpoint comes first.
Commit(p, content) ==
  /\ Idling(p) /\ Len(commits) < MaxCommits
  /\ commits' = Append(commits, content)
  /\ IF runtime.session = None
       THEN UNCHANGED <<vars, command>>
       ELSE /\ BeginSnapshot(p, runtime.session, content, NoEvent)
            /\ Send(p, "commit", Len(commits) + 1)
  /\ UNCHANGED runtime

\* Mutant: the answer is mapped to the newest checkpoint.
MappedToNewest(q, snapshot) == [q.loaded EXCEPT !.snapshots[Len(commits)] = snapshot]

\* The snapshot of an answer is mapped to the checkpoint it was made of.
Mapped(q, snapshot) == [q.loaded EXCEPT !.snapshots[q.commit] = snapshot]

\* An error is not written, and neither is an answer that is lost or comes to a
\* command that has been stopped.
CommitAnswered(p) ==
  /\ Waiting(p, "commit") /\ CommitArtifact(p)
  /\ \/ request[p].about \in snapshots' /\ runtime' = Mapped(command[p], request[p].about)
     \/ UNCHANGED runtime
  /\ Return(p) /\ UNCHANGED commits

\* verify names the snapshot of the newest checkpoint, if it has one.
Verify(p, type) ==
  LET snapshot == IF commits = <<>> THEN None ELSE runtime.snapshots[Len(commits)] IN
  /\ Idling(p) /\ runtime.session # None
  /\ BeginVerification(p, runtime.session, type, snapshot, NoEvent)
  /\ UNCHANGED client

\* record and decision
Record(p, type, id, cause) ==
  /\ Idling(p) /\ runtime.session # None
  /\ BeginEvent(p, runtime.session, type, id, cause)
  /\ UNCHANGED client

\* recovery of a checkpoint that has a snapshot in the active session
Recovery(p, c) ==
  /\ Idling(p) /\ runtime.session # None /\ runtime.snapshots[c] # None
  /\ RequestRollback(runtime.session, runtime.snapshots[c])
  /\ UNCHANGED client

\* A command that fails or is stopped leaves the file alone, and a request it has
\* sent goes on without it.
Fail(p) ==
  /\ command[p] # NoCommand
  /\ \/ UNCHANGED vars
     \/ Abort(p)
  /\ Return(p) /\ UNCHANGED <<commits, runtime>>

Infers(p) == InferCause(p) /\ UNCHANGED client

\* Every other client: any request, and any answer
Others(p) ==
  /\ command[p] = NoCommand
  /\ \/ request[p] = Idle /\ Begin(p)
     \/ CommitEvent(p) \/ CommitArtifact(p) \/ Abort(p)
  /\ UNCHANGED client
OthersStart(s) == CreateSession(s) /\ UNCHANGED client
OthersRecover(s, snapshot) == RequestRollback(s, snapshot) /\ UNCHANGED client

Background == (Tick \/ Runner) /\ UNCHANGED client

Command(p) ==
  \/ Start(p)
  \/ \E content \in Contents : Commit(p, content)
  \/ \E type \in VerificationTypes : Verify(p, type)
  \/ \E type \in ClientTypes, id \in Ids, cause \in Ids \cup {NoEvent} : Record(p, type, id, cause)
  \/ \E c \in Commits : Recovery(p, c)
  \/ StartAnswered(p) \/ CommitAnswered(p) \/ Fail(p)

ClientNext ==
  \/ Background
  \/ \E p \in Requests : Command(p) \/ Infers(p) \/ Others(p)
  \/ \E s \in Sessions : OthersStart(s)
  \/ \E s \in Sessions, snapshot \in snapshots : OthersRecover(s, snapshot)

ClientSpec == ClientInit /\ [][ClientNext]_clientVars
FairClientSpec == ClientSpec /\ RunnerFairness

-----------------------------------------------------------------------------

\* A checkpoint for which the file names a snapshot can be recovered: the snapshot
\* is stored and holds the checkpoint's content, whatever commands ran at once
\* and wherever they were stopped.
HostedRecoveryIsReal ==
  \A c \in Commits :
    runtime.snapshots[c] # None =>
      /\ c \in DOMAIN commits
      /\ runtime.snapshots[c] \in snapshots /\ runtime.snapshots[c].content = commits[c]
=============================================================================
