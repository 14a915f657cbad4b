-------------------------- MODULE SessionLineage --------------------------
(* The causal record of Sessions: the events a session is made of, the cause  *)
(* each names, the knowledge and the semantic edges derived from them, the     *)
(* snapshots and verifications posted for it, and the rollbacks the runner     *)
(* prepares (apps/api/src/reasoning-graph.ts, reasoning-artifacts.ts,          *)
(* causal-persistence.ts, database-lineage.ts; apps/runner/src/worker.ts).     *)
(* A request stamps its event, infers a cause where the client names none, and *)
(* commits; other requests commit in between.  Two triggers of the database    *)
(* add an event of their own for every snapshot and verification row.          *)
EXTENDS Naturals, Sequences, FiniteSets

CONSTANTS Sessions,   \* the sessions that may be started
          Requests,   \* the requests the API serves at one time
          Workers,    \* the runner processes
          Contents,   \* the source trees a snapshot can list
          ClientTypes, VerificationTypes, \* the events clients post and verifications write
          None,       \* no snapshot
          MaxIds,     \* bound on the ids of events written by the API
          MaxTime,    \* bound on the API's clock, in milliseconds
          MaxRollbacks \* bound on the rollbacks of a behaviour

ASSUME BoundAssumption == MaxIds \in Nat /\ MaxTime \in Nat /\ MaxRollbacks \in Nat

Ids == 1..MaxIds
NoEvent == 0
Snapshots == [session : Sessions, content : Contents, time : Nat]
ASSUME NoneAssumption == None \notin Snapshots

VARIABLES now,        \* the API's clock
          log,        \* session_events, in the order of their commits
          knowledge,  \* engineering_memory: [event, kind]
          edges,      \* semantic_relationships: [cause, effect]
          snapshots,  \* the snapshot rows; the digest of its record names a snapshot
          request,    \* the request a server process works on
          rollbacks,  \* rollback_requests, oldest first
          held        \* the rollback whose row a worker has locked (0: none), and since when

record == <<log, knowledge, edges, snapshots>>
vars == <<now, record, request, rollbacks, held>>

ASSUME TypeAssumption == ClientTypes \subseteq {"DecisionMade", "FileChanged", "TaskCreated"}
ASSUME VerificationAssumption ==
  VerificationTypes \subseteq {"VerificationStarted", "VerificationPassed", "VerificationFailed"}
Types == ClientTypes \cup VerificationTypes \cup
         {"SessionStarted", "SnapshotCreated", "VerificationRecorded", "RollbackTriggered",
          "VerificationPassed"}

\* Who wrote an event.  Only the API fills in the workspace, and the order of
\* two events of one millisecond follows the prefixes of their ids.
Rank == [api |-> 0, runner |-> 1, snapshot_trigger |-> 2, verification_trigger |-> 3]
Origins == DOMAIN Rank

Event(id, session, type, origin, time, cause, about, rollback) ==
  [id |-> id, session |-> session, type |-> type, origin |-> origin, time |-> time,
   cause |-> cause, about |-> about, rollback |-> rollback]
Events == [id : Nat \ {0}, session : Sessions, type : Types, origin : Origins, time : Nat,
           cause : Nat, about : Snapshots \cup {None}, rollback : Nat]

Idle == [phase |-> "idle"]
Free == [rollback |-> 0, since |-> 0]
Begun == [phase : {"stamped", "begun"}, id : Ids \cup {NoEvent}, session : Sessions, type : Types,
          time : Nat, cause : Nat, about : Snapshots \cup {None}]
Inferred == [phase : {"inferred"}, id : Ids, session : Sessions, type : Types, time : Nat, cause : Nat,
             about : Snapshots \cup {None}, own : Seq(Events)]

TypeOK ==
  /\ now \in Nat
  /\ log \in Seq(Events)
  /\ knowledge \subseteq [event : Ids, kind : {"decision", "failure"}]
  /\ edges \subseteq [cause : Nat, effect : Ids]
  /\ snapshots \subseteq Snapshots
  /\ request \in [Requests -> {Idle} \cup Begun \cup Inferred]
  /\ rollbacks \in Seq([session : Sessions, snapshot : Snapshots, status : {"planned", "ready"}])
  /\ held \in [Workers -> [rollback : Nat, since : Nat]]

Init ==
  /\ now = 1 /\ log = <<>> /\ knowledge = {} /\ edges = {} /\ snapshots = {}
  /\ request = [r \in Requests |-> Idle]
  /\ rollbacks = <<>> /\ held = [w \in Workers |-> Free]

-----------------------------------------------------------------------------
(* What the requests read                                                    *)

Recorded(events) == {events[i].id : i \in DOMAIN events}
Started(s) == \E i \in DOMAIN log : log[i].session = s

\* A random id is nobody else's.
InFlight == {request[r].id : r \in {q \in Requests : request[q].phase # "idle"}}
FreeIds == Ids \ (Recorded(log) \cup InFlight)

\* order by occurred_at, id
Before(e, f) ==
  \/ e.time < f.time
  \/ e.time = f.time /\ Rank[e.origin] < Rank[f.origin]
  \/ e.time = f.time /\ e.origin = f.origin /\ e.id < f.id

\* latestEventId and eventForPayloadId: the last of the events, or none
LastOf(events, Wanted(_)) ==
  LET found == {i \in DOMAIN events : Wanted(events[i])}
      last == {i \in found : \A j \in found \ {i} : Before(events[j], events[i])}
  IN IF last = {} THEN NoEvent ELSE events[CHOOSE i \in last : TRUE].id

LatestEvent(s, events) == LastOf(events, LAMBDA e : e.session = s)
EventAbout(s, snapshot, events) ==
  LastOf(events, LAMBDA e : e.session = s /\ e.about = snapshot)

\* An event a trigger writes is named after its row, one row for an id of the API,
\* and the event of a rollback has a random id.
TriggerId(id) == MaxIds + id
RollbackId(i) == 2 * MaxIds + i

-----------------------------------------------------------------------------
(* Writing an event                                                          *)

\* Mutant: only a parent that is on record has to be of the same session.
AcceptableCauseIfFound(e, events) ==
  \A i \in DOMAIN events : events[i].id = e.cause => events[i].session = e.session

\* The parent exists and belongs to the same session.
AcceptableCause(e, events) ==
  e.cause # NoEvent =>
    \E i \in DOMAIN events : events[i].id = e.cause /\ events[i].session = e.session

\* memoryKind
KnowledgeOf(e) ==
  {[event |-> e.id, kind |-> IF e.type = "DecisionMade" THEN "decision" ELSE "failure"] :
     x \in {e.type} \cap {"DecisionMade", "VerificationFailed"}}
EdgesOf(e) == {[cause |-> c, effect |-> e.id] : c \in {e.cause} \ {NoEvent}}

\* persistCausalEvent after the rows in "before"
Persist(before, e) ==
  /\ log' = before \o <<e>>
  /\ knowledge' = knowledge \cup KnowledgeOf(e)
  /\ edges' = edges \cup EdgesOf(e)

-----------------------------------------------------------------------------
(* POST /api/sessions and POST /api/sessions/:id/events                      *)

CreateSession(s) ==
  /\ ~Started(s)
  /\ \E id \in FreeIds :
       log' = Append(log, Event(id, s, "SessionStarted", "api", now, NoEvent, None, 0))
  /\ UNCHANGED <<now, knowledge, edges, snapshots, request, rollbacks, held>>

\* The event is stamped before its transaction starts.  The client may choose the
\* id, and names a cause or none; an event cannot cause itself.
BeginEvent(r, s, type, id, cause) ==
  /\ request[r].phase = "idle" /\ Started(s) /\ id # cause
  /\ \A p \in Requests : request[p].phase = "inferred" => request[p].id # id
  /\ request' = [request EXCEPT ![r] =
       [phase |-> "stamped", id |-> id, session |-> s, type |-> type, time |-> now,
        cause |-> cause, about |-> None]]
  /\ UNCHANGED <<now, record, rollbacks, held>>

\* Mutant: an id that is on record is written again.
CommitEventTwice(r) ==
  LET q == request[r]
      e == Event(q.id, q.session, q.type, "api", q.time, q.cause, None, 0) IN
  /\ q.phase = "stamped"
  /\ AcceptableCause(e, log) /\ Persist(log, e) /\ UNCHANGED snapshots
  /\ request' = [request EXCEPT ![r] = Idle]
  /\ UNCHANGED <<now, rollbacks, held>>

\* appendEvent.  An id that is on record is refused, a retry of the same event
\* too: the record has another time, and its fields in another order.
CommitEvent(r) ==
  LET q == request[r]
      e == Event(q.id, q.session, q.type, "api", q.time, q.cause, None, 0) IN
  /\ q.phase = "stamped"
  /\ IF q.id \notin Recorded(log) /\ AcceptableCause(e, log)
       THEN Persist(log, e) /\ UNCHANGED snapshots
       ELSE UNCHANGED record
  /\ request' = [request EXCEPT ![r] = Idle]
  /\ UNCHANGED <<now, rollbacks, held>>

-----------------------------------------------------------------------------
(* POST /api/sessions/:id/snapshots and .../verifications                    *)

\* createSnapshot stamps the manifest, and the digest covers the stamp.
BeginSnapshot(r, s, content, cause) ==
  /\ request[r].phase = "idle" /\ Started(s)
  /\ request' = [request EXCEPT ![r] =
       [phase |-> "begun", id |-> NoEvent, session |-> s, type |-> "SnapshotCreated", time |-> now,
        cause |-> cause, about |-> [session |-> s, content |-> content, time |-> now]]]
  /\ UNCHANGED <<now, record, rollbacks, held>>

\* The snapshot a client names is not looked up.
BeginVerification(r, s, type, snapshot, cause) ==
  /\ request[r].phase = "idle" /\ Started(s)
  /\ request' = [request EXCEPT ![r] =
       [phase |-> "begun", id |-> NoEvent, session |-> s, type |-> type, time |-> now,
        cause |-> cause, about |-> snapshot]]
  /\ UNCHANGED <<now, record, rollbacks, held>>

\* The row's trigger (009-lifecycle-evidence-events.sql); a snapshot that is
\* stored already inserts no row.
TriggerEvents(q, id) ==
  IF q.type = "SnapshotCreated"
    THEN IF q.about \in snapshots THEN <<>>
         ELSE <<Event(TriggerId(id), q.session, q.type, "snapshot_trigger", q.time, NoEvent, q.about, 0)>>
    ELSE <<Event(TriggerId(id), q.session,
                 IF q.type = "VerificationPassed" THEN q.type ELSE "VerificationRecorded",
                 "verification_trigger", q.time, NoEvent, q.about, 0)>>

\* An equal snapshot that has not committed yet blocks the insert.
Blocked(r) ==
  /\ request[r].type = "SnapshotCreated"
  /\ \E p \in Requests \ {r} : /\ request[p].phase = "inferred" /\ request[p].type = "SnapshotCreated"
                               /\ request[p].about = request[r].about

\* The transaction inserts the row, finds the cause and stamps the event.
InferCause(r) ==
  /\ request[r].phase = "begun" /\ ~Blocked(r)
  /\ \E id \in FreeIds :
       LET q == request[r]
           own == TriggerEvents(q, id)
           seen == log \o own
           about == IF q.type = "SnapshotCreated" \/ q.about = None THEN NoEvent
                    ELSE EventAbout(q.session, q.about, seen)
           cause == IF q.cause # NoEvent THEN q.cause
                    ELSE IF about # NoEvent THEN about ELSE LatestEvent(q.session, seen)
       IN request' = [request EXCEPT ![r] =
            [phase |-> "inferred", id |-> id, session |-> q.session, type |-> q.type, time |-> now,
             cause |-> cause, about |-> q.about, own |-> own]]
  /\ UNCHANGED <<now, record, rollbacks, held>>

\* ... and commits both rows with the event, or none of them.
CommitArtifact(r) ==
  LET q == request[r]
      e == Event(q.id, q.session, q.type, "api", q.time, q.cause, q.about, 0) IN
  /\ q.phase = "inferred"
  /\ IF AcceptableCause(e, log \o q.own)
       THEN /\ Persist(log \o q.own, e)
            /\ snapshots' = IF q.type = "SnapshotCreated" THEN snapshots \cup {q.about} ELSE snapshots
       ELSE UNCHANGED record
  /\ request' = [request EXCEPT ![r] = Idle]
  /\ UNCHANGED <<now, rollbacks, held>>

\* The server dies or the database fails: the transaction is rolled back.
Abort(r) ==
  /\ request[r].phase # "idle"
  /\ request' = [request EXCEPT ![r] = Idle]
  /\ UNCHANGED <<now, record, rollbacks, held>>

-----------------------------------------------------------------------------
(* Rollbacks                                                                 *)

\* POST /api/sessions/:id/rollback: the snapshot is one of the session's.
RequestRollback(s, snapshot) ==
  /\ snapshot \in snapshots /\ snapshot.session = s /\ Len(rollbacks) < MaxRollbacks
  /\ rollbacks' = Append(rollbacks, [session |-> s, snapshot |-> snapshot, status |-> "planned"])
  /\ UNCHANGED <<now, record, request, held>>

Claimable ==
  {i \in DOMAIN rollbacks :
     rollbacks[i].status = "planned" /\ \A w \in Workers : held[w].rollback # i}

\* Mutant: the row is read without a lock.
ClaimRollbackUnlocked(w) ==
  /\ held[w] = Free
  /\ \E i \in DOMAIN rollbacks :
       /\ rollbacks[i].status = "planned"
       /\ held' = [held EXCEPT ![w] = [rollback |-> i, since |-> now]]
  /\ UNCHANGED <<now, record, request, rollbacks>>

\* runRollbackOnce takes the oldest planned request whose row nobody has locked...
ClaimRollback(w) ==
  /\ held[w] = Free
  /\ \E i \in Claimable :
       /\ \A j \in Claimable : i <= j
       /\ held' = [held EXCEPT ![w] = [rollback |-> i, since |-> now]]
  /\ UNCHANGED <<now, record, request, rollbacks>>

\* ... and commits its new status with an event that has no workspace.
PrepareRollback(w) ==
  LET i == held[w].rollback IN
  /\ held[w] # Free
  /\ rollbacks' = [rollbacks EXCEPT ![i].status = "ready"]
  /\ log' = Append(log, Event(RollbackId(i), rollbacks[i].session, "RollbackTriggered", "runner",
                              held[w].since, NoEvent, rollbacks[i].snapshot, i))
  /\ held' = [held EXCEPT ![w] = Free]
  /\ UNCHANGED <<now, knowledge, edges, snapshots, request>>

\* Mutant: the status "running" is committed with the claim.
WorkerFailsMidway(w) ==
  /\ held[w] # Free
  /\ rollbacks' = [rollbacks EXCEPT ![held[w].rollback].status = "running"]
  /\ held' = [held EXCEPT ![w] = Free]
  /\ UNCHANGED <<now, record, request>>

\* A worker that fails leaves the request as it was: its transaction is undone.
WorkerFails(w) ==
  /\ held[w] # Free
  /\ held' = [held EXCEPT ![w] = Free]
  /\ UNCHANGED <<now, record, request, rollbacks>>

-----------------------------------------------------------------------------

Tick == now < MaxTime /\ now' = now + 1 /\ UNCHANGED <<record, request, rollbacks, held>>

Runner == \E w \in Workers : ClaimRollback(w) \/ PrepareRollback(w) \/ WorkerFails(w)

\* What a request does after it has begun
Serve(r) == CommitEvent(r) \/ InferCause(r) \/ CommitArtifact(r) \/ Abort(r)

Begin(r) ==
  \E s \in Sessions :
    \/ \E type \in ClientTypes, id \in Ids, cause \in Ids \cup {NoEvent} : BeginEvent(r, s, type, id, cause)
    \/ \E content \in Contents, cause \in Ids \cup {NoEvent} : BeginSnapshot(r, s, content, cause)
    \/ \E type \in VerificationTypes, snapshot \in snapshots \cup {None}, cause \in Ids \cup {NoEvent} :
         BeginVerification(r, s, type, snapshot, cause)

\* The record as the requests write it.  The runner and the rollbacks asked of it
\* come in where the commands of a client are composed with all of this
\* (SessionClient); of an event, a rollback's is like a trigger's, without workspace.
Next ==
  \/ Tick
  \/ \E r \in Requests : Begin(r) \/ Serve(r)
  \/ \E s \in Sessions : CreateSession(s)

Spec == Init /\ [][Next]_vars

\* The runner polls for ever and is restarted when it fails; a failure that
\* recurs at every attempt is left out.
RunnerFairness ==
  \A w \in Workers : WF_vars(ClaimRollback(w)) /\ SF_vars(PrepareRollback(w))

-----------------------------------------------------------------------------
(* Properties                                                                *)

\* What append of packages/timeline-engine accepts after the given events: a
\* repetition of an event that is there is nothing new, another one is refused.
WellFormed(e) == e.id # NoEvent /\ e.cause # e.id
Unconflicted(events, e) == \A i \in DOMAIN events : events[i].id = e.id => events[i] = e
Appendable(events, e) ==
  WellFormed(e) /\ Unconflicted(events, e) /\ AcceptableCause(e, events)

\* The record is a timeline: no two events share an id, every cause is an earlier
\* event of the same session, and the edges are the causes of the API's events.
\* A snapshot is stored with the event that says so, and knowledge comes from a
\* recorded event.
CausalIntegrity ==
  /\ \A i \in DOMAIN log :
       /\ Appendable(SubSeq(log, 1, i - 1), log[i])
       /\ log[i].id \notin Recorded(SubSeq(log, 1, i - 1))
  /\ edges = {[cause |-> log[i].cause, effect |-> log[i].id] :
                i \in {j \in DOMAIN log : log[j].cause # NoEvent}}
  /\ \A k \in knowledge : k.event \in Recorded(log)
  /\ \A s \in snapshots : \E i \in DOMAIN log : /\ log[i].about = s /\ log[i].origin = "api"
                                               /\ log[i].session = s.session

\* A rollback is prepared once: it is ready exactly when one event says so, and
\* two workers never prepare the same one.
RollbacksTriggerOnce ==
  \A i \in DOMAIN rollbacks :
    Cardinality({j \in DOMAIN log : log[j].type = "RollbackTriggered" /\ log[j].rollback = i})
      = IF rollbacks[i].status = "ready" THEN 1 ELSE 0

\* Every rollback that has been requested is prepared in the end.
PlannedRollbacksPrepared ==
  \A i \in 1..MaxRollbacks :
    i \in DOMAIN rollbacks ~> i \in DOMAIN rollbacks /\ rollbacks[i].status = "ready"
=============================================================================
