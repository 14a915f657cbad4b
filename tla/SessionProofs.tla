--------------------------- MODULE SessionProofs ---------------------------
(* Theorems about SessionLineage and SessionClient, for any sessions, requests, *)
(* workers, contents and bounds.  The record stays a timeline because a request *)
(* that has chosen its id is the only one to write it, and an event that a      *)
(* trigger writes is on record only beside the event of its request; the file   *)
(* of a clone stays true because a command maps the snapshot of its own         *)
(* checkpoint into a file that was true when it was read.                       *)
EXTENDS SessionClient, SequenceTheorems, FiniteSetTheorems, TLAPS

-----------------------------------------------------------------------------
(* The inductive invariant of the record                                     *)

\* The ids of the events differ, and a cause is an earlier event of the session.
EventsSound(events) ==
  /\ \A i, j \in DOMAIN events : events[i].id = events[j].id => i = j
  /\ \A i \in DOMAIN events :
       /\ WellFormed(events[i])
       /\ events[i].cause # NoEvent =>
            \E j \in 1..(i - 1) : /\ events[j].id = events[i].cause
                                  /\ events[j].session = events[i].session

\* The edges that the causes of the events make
EdgesAmong(events) ==
  {[cause |-> events[i].cause, effect |-> events[i].id] :
     i \in {j \in DOMAIN events : events[j].cause # NoEvent}}

\* A trigger's event is on record only with the event of the request that fired
\* it, and what is above the triggers' ids is a rollback's.
IdConsistent(e, events, requested) ==
  /\ e.id > MaxIds /\ e.id <= 2 * MaxIds => e.id - MaxIds \in Recorded(events)
  /\ e.id > 2 * MaxIds => e.type = "RollbackTriggered"
  /\ e.type = "RollbackTriggered" =>
       /\ e.id = RollbackId(e.rollback)
       /\ e.rollback \in DOMAIN requested
       /\ requested[e.rollback].status = "ready"

IdsConsistent == \A i \in DOMAIN log : IdConsistent(log[i], log, rollbacks)

\* A request that has its id will write it; nobody else has it or will write it.
RequestConsistent(r) ==
  LET q == request[r] IN
  /\ q.phase = "stamped" => q.id \in Ids /\ q.id # q.cause /\ q.type \in ClientTypes
  /\ q.phase = "begun" => q.id = NoEvent
  /\ q.phase \in {"begun", "inferred"} =>
       \/ q.type \in VerificationTypes
       \/ q.type = "SnapshotCreated" /\ q.about \in Snapshots /\ q.about.session = q.session
  /\ q.phase = "inferred" =>
       /\ q.id \notin Recorded(log)
       /\ \A p \in Requests \ {r} : request[p].phase # "idle" => request[p].id # q.id
       /\ Len(q.own) <= 1
       /\ \A k \in DOMAIN q.own : /\ q.own[k].id = TriggerId(q.id)
                                  /\ q.own[k].cause = NoEvent
                                  /\ q.own[k].type # "RollbackTriggered"

\* What is derived from events has its event.
DerivedConsistent ==
  /\ edges = EdgesAmong(log)
  /\ \A k \in knowledge : k.event \in Recorded(log)
  /\ \A s \in snapshots : \E i \in DOMAIN log : /\ log[i].about = s /\ log[i].origin = "api"
                                               /\ log[i].session = s.session

\* A rollback that is ready has its event, and one that a worker holds is planned
\* and held by nobody else.
RollbacksConsistent ==
  /\ \A i \in DOMAIN rollbacks : rollbacks[i].status = "ready" =>
       \E j \in DOMAIN log : log[j].type = "RollbackTriggered" /\ log[j].rollback = i
  /\ \A w \in Workers : held[w] # Free =>
       /\ held[w].rollback \in DOMAIN rollbacks
       /\ rollbacks[held[w].rollback].status = "planned"
       /\ \A v \in Workers \ {w} : held[v].rollback # held[w].rollback

LineageInvariant ==
  /\ TypeOK
  /\ EventsSound(log) /\ IdsConsistent
  /\ \A r \in Requests : RequestConsistent(r)
  /\ DerivedConsistent /\ RollbacksConsistent

-----------------------------------------------------------------------------
(* Events appended to a record                                               *)

\* At most one element after a sequence
LEMMA ConcatOne ==
  ASSUME NEW S, NEW s \in Seq(S), NEW own \in Seq(S), Len(own) <= 1
  PROVE  s \o own = s \/ \E t \in S : t = own[1] /\ 1 \in DOMAIN own /\ s \o own = Append(s, t)
<1>1. CASE own = <<>>
  BY <1>1, ConcatEmptySeq
<1>2. CASE own # <<>>
  <2>1. Len(own) \in Nat \ {0} /\ DOMAIN own = 1..Len(own)
    BY <1>2, EmptySeq, LenProperties
  <2>2. Len(own) = 1 /\ 1 \in DOMAIN own
    BY <2>1
  <2>3. PICK t \in S : t = own[1]
    <3>1. 1 \in 1..Len(own)
      BY <2>2
    <3> QED
      BY <3>1, ElementOfSeq
  <2>4. own = <<t>>
    BY <2>2, <2>3, SeqEqual
  <2> QED
    BY <2>2, <2>3, <2>4, AppendIsConcat
<1> QED
  BY <1>1, <1>2

LEMMA RecordedAppended ==
  ASSUME NEW events \in Seq(Events), NEW e \in Events
  PROVE  /\ Append(events, e) \in Seq(Events)
         /\ Recorded(Append(events, e)) = Recorded(events) \cup {e.id}
         /\ DOMAIN Append(events, e) = DOMAIN events \cup {Len(events) + 1}
         /\ DOMAIN events = 1..Len(events) /\ Len(events) \in Nat
         /\ \A i \in DOMAIN events : Append(events, e)[i] = events[i]
         /\ Append(events, e)[Len(events) + 1] = e
         /\ \A i \in DOMAIN events : events[i] \in Events
<1> DEFINE after == Append(events, e)
<1>1. /\ after \in Seq(Events) /\ Len(after) = Len(events) + 1
      /\ \A i \in 1..Len(events) : after[i] = events[i]
      /\ after[Len(events) + 1] = e
      /\ DOMAIN events = 1..Len(events) /\ Len(events) \in Nat
      /\ DOMAIN after = 1..Len(after)
  BY AppendProperties, LenProperties
<1>2. DOMAIN after = DOMAIN events \cup {Len(events) + 1}
  BY <1>1
<1>3. Recorded(after) = Recorded(events) \cup {e.id}
  BY <1>1, <1>2 DEF Recorded
<1> QED
  BY <1>1, <1>2, <1>3, ElementOfSeq

\* A new event with an acceptable cause keeps a record sound.
LEMMA SoundAppended ==
  ASSUME NEW events \in Seq(Events), NEW e \in Events,
         EventsSound(events), e.id # NoEvent, e.id \notin Recorded(events), AcceptableCause(e, events)
  PROVE  EventsSound(Append(events, e))
<1> DEFINE after == Append(events, e)
<1>1. /\ DOMAIN after = DOMAIN events \cup {Len(events) + 1}
      /\ DOMAIN events = 1..Len(events) /\ Len(events) \in Nat
      /\ \A i \in DOMAIN events : after[i] = events[i]
      /\ after[Len(events) + 1] = e
  BY RecordedAppended
<1>2. \A i \in DOMAIN events : events[i].id # e.id
  BY DEF Recorded
<1>3. \A i, j \in DOMAIN after : after[i].id = after[j].id => i = j
  BY <1>1, <1>2 DEF EventsSound
<1>4. ASSUME NEW i \in DOMAIN after
      PROVE  /\ WellFormed(after[i])
             /\ after[i].cause # NoEvent =>
                  \E j \in 1..(i - 1) : /\ after[j].id = after[i].cause
                                        /\ after[j].session = after[i].session
  <2>1. CASE i = Len(events) + 1
    BY <1>1, <1>2, <2>1 DEF AcceptableCause, WellFormed, NoEvent
  <2>2. CASE i \in DOMAIN events
    <3>1. after[i] = events[i] /\ \A j \in 1..(i - 1) : after[j] = events[j]
      BY <1>1, <2>2
    <3> QED
      BY <3>1, <2>2 DEF EventsSound
  <2> QED
    BY <1>1, <2>1, <2>2
<1> HIDE DEF after
<1> QED
  BY <1>3, <1>4 DEF EventsSound, after

LEMMA EdgesAppended ==
  ASSUME NEW events \in Seq(Events), NEW e \in Events
  PROVE  EdgesAmong(Append(events, e)) = EdgesAmong(events) \cup EdgesOf(e)
<1> DEFINE after == Append(events, e)
           Edge(l, i) == [cause |-> l[i].cause, effect |-> l[i].id]
<1>1. /\ DOMAIN after = DOMAIN events \cup {Len(events) + 1}
      /\ \A i \in DOMAIN events : after[i] = events[i]
      /\ after[Len(events) + 1] = e
  BY RecordedAppended
<1>2. ASSUME NEW x PROVE x \in EdgesAmong(after) <=> x \in EdgesAmong(events) \cup EdgesOf(e)
  <2>1. x \in EdgesAmong(after) <=> \E i \in DOMAIN after : after[i].cause # NoEvent /\ x = Edge(after, i)
    BY DEF EdgesAmong
  <2>2. x \in EdgesAmong(events) <=> \E i \in DOMAIN events : events[i].cause # NoEvent /\ x = Edge(events, i)
    BY DEF EdgesAmong
  <2>3. x \in EdgesOf(e) <=> e.cause # NoEvent /\ x = Edge(after, Len(events) + 1)
    BY <1>1 DEF EdgesOf
  <2> HIDE DEF after
  <2> QED
    BY <1>1, <2>1, <2>2, <2>3
<1> QED
  BY <1>2

-----------------------------------------------------------------------------
(* An event of the API, with the event of a trigger before it or without     *)

\* The record before the event: the log, and after it the trigger's event if any
Preceded(before, e) ==
  \/ before = log
  \/ \E t \in Events : /\ before = Append(log, t) /\ t.id = TriggerId(e.id)
                       /\ t.cause = NoEvent /\ t.type # "RollbackTriggered"

LEMMA PrecededSound ==
  ASSUME LineageInvariant, NEW before, NEW e \in Events, Preceded(before, e),
         e.id \in Ids, e.id \notin Recorded(log)
  PROVE  /\ before \in Seq(Events)
         /\ EventsSound(before) /\ EdgesAmong(before) = EdgesAmong(log)
         /\ Recorded(log) \subseteq Recorded(before)
         /\ Recorded(before) \subseteq Recorded(log) \cup {TriggerId(e.id)}
         /\ e.id \notin Recorded(before)
         /\ \A i \in DOMAIN log : i \in DOMAIN before /\ before[i] = log[i]
         /\ \A i \in DOMAIN before \ DOMAIN log : /\ before[i].id = TriggerId(e.id)
                                                /\ before[i].type # "RollbackTriggered"
<1> USE BoundAssumption DEF NoEvent
<1>1. log \in Seq(Events) /\ EventsSound(log) /\ IdsConsistent
  BY DEF LineageInvariant, TypeOK
<1>2. CASE before = log
  BY <1>1, <1>2
<1>3. CASE before # log
  <2>1. PICK t \in Events : /\ before = Append(log, t) /\ t.id = TriggerId(e.id)
                           /\ t.cause = NoEvent /\ t.type # "RollbackTriggered"
    BY <1>3 DEF Preceded
  <2>2. /\ before \in Seq(Events) /\ Recorded(before) = Recorded(log) \cup {t.id}
        /\ DOMAIN before = DOMAIN log \cup {Len(log) + 1}
        /\ \A i \in DOMAIN log : before[i] = log[i]
        /\ before[Len(log) + 1] = t
    BY <1>1, <2>1, RecordedAppended
  <2>3. TriggerId(e.id) \in Nat /\ TriggerId(e.id) > MaxIds /\ TriggerId(e.id) <= 2 * MaxIds
        /\ TriggerId(e.id) - MaxIds = e.id /\ TriggerId(e.id) # e.id
    BY DEF TriggerId, Ids
  <2>4. t.id \notin Recorded(log)
    BY <1>1, <2>1, <2>3 DEF Recorded, IdsConsistent, IdConsistent
  <2>5. AcceptableCause(t, log) /\ t.id # NoEvent
    BY <2>1, <2>3 DEF AcceptableCause
  <2>6. EventsSound(before)
    BY <1>1, <2>1, <2>4, <2>5, SoundAppended
  <2>7. EdgesAmong(before) = EdgesAmong(log)
    <3>1. EdgesOf(t) = {}
      BY <2>1 DEF EdgesOf
    <3> QED
      BY <1>1, <2>1, <3>1, EdgesAppended
  <2> QED
    BY <2>1, <2>2, <2>3, <2>6, <2>7
<1> QED
  BY <1>2, <1>3

\* Such an event keeps what the invariant says of the log.
LEMMA LogKept ==
  ASSUME LineageInvariant, NEW before, NEW e \in Events, Preceded(before, e),
         e.id \in Ids, e.id \notin Recorded(log), e.type # "RollbackTriggered",
         AcceptableCause(e, before), log' = Append(before, e), rollbacks' = rollbacks
  PROVE  /\ log' \in Seq(Events) /\ EventsSound(log)' /\ IdsConsistent'
         /\ EdgesAmong(log') = EdgesAmong(log) \cup EdgesOf(e)
         /\ Recorded(log) \cup {e.id} \subseteq Recorded(log')
         /\ Recorded(log') \subseteq Recorded(log) \cup {e.id, TriggerId(e.id)}
         /\ \A i \in DOMAIN log : i \in DOMAIN log' /\ log'[i] = log[i]
         /\ \E i \in DOMAIN log' : log'[i] = e
<1> USE BoundAssumption DEF NoEvent
<1>1. /\ before \in Seq(Events)
      /\ EventsSound(before) /\ EdgesAmong(before) = EdgesAmong(log)
      /\ Recorded(log) \subseteq Recorded(before)
      /\ Recorded(before) \subseteq Recorded(log) \cup {TriggerId(e.id)}
      /\ e.id \notin Recorded(before)
      /\ \A i \in DOMAIN log : i \in DOMAIN before /\ before[i] = log[i]
      /\ \A i \in DOMAIN before \ DOMAIN log : /\ before[i].id = TriggerId(e.id)
                                             /\ before[i].type # "RollbackTriggered"
  BY PrecededSound
<1>2. /\ log' \in Seq(Events) /\ Recorded(log') = Recorded(before) \cup {e.id}
      /\ DOMAIN log' = DOMAIN before \cup {Len(before) + 1}
      /\ \A i \in DOMAIN before : log'[i] = before[i]
      /\ log'[Len(before) + 1] = e
  BY <1>1, RecordedAppended
<1>3. EventsSound(log')
  BY <1>1, SoundAppended DEF Ids
<1>4. EdgesAmong(log') = EdgesAmong(log) \cup EdgesOf(e)
  BY <1>1, EdgesAppended
<1>5. ASSUME NEW i \in DOMAIN log' PROVE IdConsistent(log'[i], log', rollbacks')
  <2>1. CASE i \in DOMAIN log
    <3>1. IdConsistent(log[i], log, rollbacks) /\ log'[i] = log[i]
      BY <1>1, <1>2, <2>1 DEF LineageInvariant, IdsConsistent
    <3> QED
      BY <3>1, <1>1, <1>2 DEF IdConsistent
  <2>2. CASE i \in DOMAIN before \ DOMAIN log
    <3>1. log'[i].id = TriggerId(e.id) /\ log'[i].type # "RollbackTriggered"
      BY <1>1, <1>2, <2>2
    <3> QED
      BY <3>1, <1>2 DEF IdConsistent, TriggerId, Ids
  <2>3. CASE i = Len(before) + 1
    BY <1>2, <2>3 DEF IdConsistent, Ids
  <2> QED
    BY <1>2, <2>1, <2>2, <2>3
<1>6. IdsConsistent'
  BY <1>5 DEF IdsConsistent
<1> QED
  BY <1>1, <1>2, <1>3, <1>4, <1>6

-----------------------------------------------------------------------------
(* The steps of the requests                                                 *)

\* What the phase of a request says of its fields
LEMMA RequestFields ==
  ASSUME TypeOK, NEW r \in Requests
  PROVE  /\ request[r].phase = "idle" <=> request[r] = Idle
         /\ request[r].phase \in {"stamped", "begun"} => request[r] \in Begun
         /\ request[r].phase = "inferred" => request[r] \in Inferred
         /\ request[r].phase \in {"idle", "stamped", "begun", "inferred"}
<1>1. request[r] \in {Idle} \cup Begun \cup Inferred
  BY DEF TypeOK
<1>2. CASE request[r] = Idle
  BY <1>2 DEF Idle
<1>3. CASE request[r] \in Begun
  BY <1>3 DEF Begun, Idle
<1>4. CASE request[r] \in Inferred
  BY <1>4 DEF Inferred, Idle
<1> QED
  BY <1>1, <1>2, <1>3, <1>4

\* A step of one request that writes nothing
LEMMA QuietKeeps ==
  ASSUME LineageInvariant, NEW r \in Requests, NEW q \in {Idle} \cup Begun \cup Inferred,
         request' = [request EXCEPT ![r] = q], UNCHANGED <<now, record, rollbacks, held>>,
         RequestConsistent(r)',
         \A p \in Requests \ {r} :
           request[p].phase = "inferred" /\ q.phase # "idle" => request[p].id # q.id
  PROVE  LineageInvariant'
<1>1. /\ TypeOK' /\ request'[r] = q
      /\ \A p \in Requests \ {r} : request'[p] = request[p]
  BY DEF LineageInvariant, TypeOK, record
<1>2. ASSUME NEW p \in Requests PROVE RequestConsistent(p)'
  <2>1. CASE p = r
    BY <2>1
  <2>2. CASE p # r
    <3>1. RequestConsistent(p) /\ request'[p] = request[p] /\ log' = log
      BY <1>1, <2>2 DEF LineageInvariant, record
    <3>2. request[p].phase = "inferred" =>
            \A o \in Requests \ {p} : request'[o].phase # "idle" => request'[o].id # request[p].id
      BY <1>1, <3>1, <2>2 DEF RequestConsistent
    <3> QED
      BY <3>1, <3>2 DEF RequestConsistent
  <2> QED
    BY <2>1, <2>2
<1> QED
  BY <1>1, <1>2 DEF LineageInvariant, IdsConsistent, DerivedConsistent, RollbacksConsistent, record

\* A request that ends
LEMMA ReturnKeeps ==
  ASSUME LineageInvariant, NEW r \in Requests,
         request' = [request EXCEPT ![r] = Idle], UNCHANGED <<now, record, rollbacks, held>>
  PROVE  LineageInvariant'
<1>1. request'[r].phase = "idle"
  BY DEF LineageInvariant, TypeOK, Idle
<1>2. RequestConsistent(r)'
  BY <1>1 DEF RequestConsistent
<1>3. \A p \in Requests \ {r} :
        request[p].phase = "inferred" /\ Idle.phase # "idle" => request[p].id # Idle.id
  BY DEF Idle
<1> QED
  BY <1>2, <1>3, QuietKeeps

LEMMA BeginEventKeeps ==
  ASSUME LineageInvariant, NEW r \in Requests, NEW s \in Sessions, NEW type \in ClientTypes,
         NEW id \in Ids, NEW cause \in Ids \cup {NoEvent}, BeginEvent(r, s, type, id, cause)
  PROVE  LineageInvariant'
<1> DEFINE q == [phase |-> "stamped", id |-> id, session |-> s, type |-> type, time |-> now,
                 cause |-> cause, about |-> None]
<1>1. q \in Begun
  BY BoundAssumption DEF Begun, Types, LineageInvariant, TypeOK, Ids, NoEvent
<1>2. /\ request' = [request EXCEPT ![r] = q] /\ UNCHANGED <<now, record, rollbacks, held>>
      /\ \A p \in Requests \ {r} : request[p].phase = "inferred" => request[p].id # q.id
      /\ request'[r] = q /\ id # cause
  BY DEF BeginEvent, LineageInvariant, TypeOK
<1>3. RequestConsistent(r)'
  BY <1>2 DEF RequestConsistent
<1> QED
  BY <1>1, <1>2, <1>3, QuietKeeps

\* The id of a request that has none yet is no other request's.
LEMMA BegunKeeps ==
  ASSUME LineageInvariant, NEW r \in Requests, NEW q \in Begun, q.phase = "begun", q.id = NoEvent,
         \/ q.type \in VerificationTypes
         \/ q.type = "SnapshotCreated" /\ q.about \in Snapshots /\ q.about.session = q.session,
         request' = [request EXCEPT ![r] = q], UNCHANGED <<now, record, rollbacks, held>>
  PROVE  LineageInvariant'
<1>1. request'[r] = q
  BY DEF LineageInvariant, TypeOK
<1>2. RequestConsistent(r)'
  BY <1>1 DEF RequestConsistent
<1>3. \A p \in Requests \ {r} : request[p].phase = "inferred" => request[p].id # q.id
  BY RequestFields DEF LineageInvariant, Inferred, Ids, NoEvent
<1> QED
  BY <1>2, <1>3, QuietKeeps

LEMMA BeginSnapshotKeeps ==
  ASSUME LineageInvariant, NEW r \in Requests, NEW s \in Sessions, NEW content \in Contents,
         NEW cause \in Ids \cup {NoEvent}, BeginSnapshot(r, s, content, cause)
  PROVE  LineageInvariant'
<1> DEFINE about == [session |-> s, content |-> content, time |-> now]
           q == [phase |-> "begun", id |-> NoEvent, session |-> s, type |-> "SnapshotCreated",
                 time |-> now, cause |-> cause, about |-> about]
<1>1. about \in Snapshots
  BY DEF Snapshots, LineageInvariant, TypeOK
<1>2. q \in Begun
  BY <1>1 DEF Begun, Types, LineageInvariant, TypeOK, Ids, NoEvent
<1>3. request' = [request EXCEPT ![r] = q] /\ UNCHANGED <<now, record, rollbacks, held>>
  BY DEF BeginSnapshot
<1> QED
  BY <1>1, <1>2, <1>3, BegunKeeps

LEMMA BeginVerificationKeeps ==
  ASSUME LineageInvariant, NEW r \in Requests, NEW s \in Sessions, NEW type \in VerificationTypes,
         NEW snapshot \in Snapshots \cup {None},
         NEW cause \in Ids \cup {NoEvent}, BeginVerification(r, s, type, snapshot, cause)
  PROVE  LineageInvariant'
<1> DEFINE q == [phase |-> "begun", id |-> NoEvent, session |-> s, type |-> type, time |-> now,
                 cause |-> cause, about |-> snapshot]
<1>1. q \in Begun
  BY DEF Begun, Types, LineageInvariant, TypeOK, Ids, NoEvent
<1>2. request' = [request EXCEPT ![r] = q] /\ UNCHANGED <<now, record, rollbacks, held>>
  BY DEF BeginVerification
<1> QED
  BY <1>1, <1>2, BegunKeeps

LEMMA BeginKeeps ==
  ASSUME LineageInvariant, NEW r \in Requests, Begin(r)
  PROVE  LineageInvariant'
<1>1. snapshots \cup {None} \subseteq Snapshots \cup {None}
  BY DEF LineageInvariant, TypeOK
<1>2. PICK s \in Sessions :
    \/ \E type \in ClientTypes, id \in Ids, cause \in Ids \cup {NoEvent} : BeginEvent(r, s, type, id, cause)
    \/ \E content \in Contents, cause \in Ids \cup {NoEvent} : BeginSnapshot(r, s, content, cause)
    \/ \E type \in VerificationTypes, snapshot \in snapshots \cup {None}, cause \in Ids \cup {NoEvent} :
         BeginVerification(r, s, type, snapshot, cause)
  BY DEF Begin
<1> QED
  BY <1>1, <1>2, BeginEventKeeps, BeginSnapshotKeeps, BeginVerificationKeeps

\* The last of some events is one of them, or there is none.
LEMMA LastIsRecorded ==
  ASSUME NEW events \in Seq(Events), NEW Wanted(_)
  PROVE  LastOf(events, Wanted) \in Nat
<1> DEFINE found == {i \in DOMAIN events : Wanted(events[i])}
           last == {i \in found : \A j \in found \ {i} : Before(events[j], events[i])}
<1>1. LastOf(events, Wanted) = IF last = {} THEN NoEvent ELSE events[CHOOSE i \in last : TRUE].id
  BY DEF LastOf
<1>2. CASE last = {}
  BY <1>1, <1>2 DEF NoEvent
<1>3. CASE last # {}
  <2>1. (CHOOSE i \in last : TRUE) \in last
    BY <1>3
  <2>2. (CHOOSE i \in last : TRUE) \in 1..Len(events)
    BY <2>1, LenProperties
  <2>3. events[CHOOSE i \in last : TRUE] \in Events
    BY <2>2, ElementOfSeq
  <2>4. events[CHOOSE i \in last : TRUE].id \in Nat
    BY <2>3 DEF Events
  <2> QED
    BY <1>1, <1>3, <2>4
<1> QED
  BY <1>2, <1>3

\* The events of the triggers
LEMMA OwnEvents ==
  ASSUME TypeOK, NEW r \in Requests, request[r].phase = "begun", RequestConsistent(r), NEW id \in Ids
  PROVE  LET own == TriggerEvents(request[r], id) IN
         /\ own \in Seq(Events) /\ Len(own) <= 1
         /\ \A k \in DOMAIN own : /\ own[k].id = TriggerId(id)
                                 /\ own[k].cause = NoEvent
                                 /\ own[k].type # "RollbackTriggered"
<1> DEFINE q == request[r]
           type == IF q.type = "SnapshotCreated" THEN q.type
                   ELSE IF q.type = "VerificationPassed" THEN q.type ELSE "VerificationRecorded"
           origin == IF q.type = "SnapshotCreated" THEN "snapshot_trigger" ELSE "verification_trigger"
           e == Event(TriggerId(id), q.session, type, origin, q.time, NoEvent, q.about, 0)
<1>1. q \in Begun
  BY RequestFields
<1>2. TriggerId(id) \in Nat \ {0}
  BY BoundAssumption DEF TriggerId, Ids
<1>3. e \in Events
  <2>1. type \in Types /\ origin \in Origins
    BY DEF Types, Origins, Rank
  <2>2. q.session \in Sessions /\ q.time \in Nat /\ q.about \in Snapshots \cup {None}
    BY <1>1 DEF Begun
  <2> QED
    BY <1>2, <2>1, <2>2 DEF Event, Events, NoEvent
<1>4. e.id = TriggerId(id) /\ e.cause = NoEvent /\ e.type # "RollbackTriggered"
  BY DEF Event
<1>5. TriggerEvents(q, id) = <<>> \/ TriggerEvents(q, id) = <<e>>
  BY DEF TriggerEvents
<1> HIDE DEF e
<1>6. CASE TriggerEvents(q, id) = <<>>
  BY <1>6
<1>7. CASE TriggerEvents(q, id) = <<e>>
  <2>1. <<e>> \in Seq(Events) /\ Len(<<e>>) = 1 /\ DOMAIN <<e>> = {1} /\ <<e>>[1] = e
    BY <1>3
  <2> QED
    BY <1>4, <1>7, <2>1
<1> QED
  BY <1>5, <1>6, <1>7

LEMMA InferKeeps ==
  ASSUME LineageInvariant, NEW r \in Requests, InferCause(r)
  PROVE  LineageInvariant'
<1> DEFINE b == request[r]
<1>1. PICK id \in FreeIds :
       LET q == request[r]
           own == TriggerEvents(q, id)
           seen == log \o own
           about == IF q.type = "SnapshotCreated" \/ q.about = None THEN NoEvent
                    ELSE EventAbout(q.session, q.about, seen)
           cause == IF q.cause # NoEvent THEN q.cause
                    ELSE IF about # NoEvent THEN about ELSE LatestEvent(q.session, seen)
       IN request' = [request EXCEPT ![r] =
            [phase |-> "inferred", id |-> id, session |-> q.session, type |-> q.type, time |-> now,
             cause |-> cause, about |-> q.about, own |-> own]]
  BY DEF InferCause
<1> DEFINE own == TriggerEvents(b, id)
           seen == log \o own
           about == IF b.type = "SnapshotCreated" \/ b.about = None THEN NoEvent
                    ELSE EventAbout(b.session, b.about, seen)
           cause == IF b.cause # NoEvent THEN b.cause
                    ELSE IF about # NoEvent THEN about ELSE LatestEvent(b.session, seen)
           q == [phase |-> "inferred", id |-> id, session |-> b.session, type |-> b.type, time |-> now,
                 cause |-> cause, about |-> b.about, own |-> own]
<1>2. /\ TypeOK /\ RequestConsistent(r) /\ b.phase = "begun" /\ b \in Begun /\ id \in Ids
      /\ id \notin Recorded(log) /\ \A p \in Requests : request[p].phase # "idle" => request[p].id # id
      /\ request' = [request EXCEPT ![r] = q] /\ UNCHANGED <<now, record, rollbacks, held>>
  BY <1>1, RequestFields DEF InferCause, LineageInvariant, FreeIds, InFlight
<1>3. /\ own \in Seq(Events) /\ Len(own) <= 1
      /\ \A k \in DOMAIN own : /\ own[k].id = TriggerId(id)
                              /\ own[k].cause = NoEvent
                              /\ own[k].type # "RollbackTriggered"
  BY <1>2, OwnEvents
<1>4. seen \in Seq(Events)
  BY <1>2, <1>3, ConcatProperties DEF TypeOK
<1>5. cause \in Nat
  <2>1. EventAbout(b.session, b.about, seen) \in Nat
    <3> DEFINE Wanted(e) == e.session = b.session /\ e.about = b.about
    <3> HIDE DEF seen
    <3> QED
      BY <1>4, LastIsRecorded DEF EventAbout
  <2>2. LatestEvent(b.session, seen) \in Nat
    <3> HIDE DEF seen
    <3> QED
      BY <1>4, LastIsRecorded DEF LatestEvent
  <2>3. b.cause \in Nat
    BY <1>2 DEF Begun
  <2> QED
    BY <2>1, <2>2, <2>3 DEF NoEvent
<1> HIDE DEF own, cause
<1>6. q \in Inferred
  BY <1>2, <1>3, <1>5 DEF Begun, Inferred, TypeOK
<1>7. request'[r] = q /\ \A p \in Requests \ {r} : request'[p] = request[p]
  BY <1>2 DEF TypeOK
<1>8. RequestConsistent(r)'
  BY <1>2, <1>3, <1>7 DEF RequestConsistent, record
<1>9. \A p \in Requests \ {r} :
        request[p].phase = "inferred" /\ q.phase # "idle" => request[p].id # q.id
  BY <1>2
<1> HIDE DEF q
<1> QED
  BY <1>2, <1>6, <1>8, <1>9, QuietKeeps

\* A request that writes its event: what it wrote is nobody else's.
LEMMA WritingKeeps ==
  ASSUME LineageInvariant, NEW before, NEW e \in Events, Preceded(before, e),
         e.id \in Ids, e.id \notin Recorded(log), e.type # "RollbackTriggered", e.origin = "api",
         AcceptableCause(e, before),
         log' = before \o <<e>>, edges' = edges \cup EdgesOf(e),
         knowledge' \subseteq knowledge \cup KnowledgeOf(e),
         \/ snapshots' = snapshots
         \/ /\ e.about \in Snapshots /\ e.about.session = e.session
            /\ snapshots' = snapshots \cup {e.about},
         UNCHANGED <<now, rollbacks, held>>,
         request' \in [Requests -> {Idle} \cup Begun \cup Inferred],
         \A p \in Requests : request'[p] = Idle \/ request'[p] = request[p],
         \A p \in Requests : request'[p].phase = "inferred" => request[p].id # e.id
  PROVE  LineageInvariant'
<1> USE BoundAssumption
<1>1. before \in Seq(Events)
  BY PrecededSound
<1>2. log' = Append(before, e)
  BY <1>1, AppendIsConcat
<1>3. /\ log' \in Seq(Events) /\ EventsSound(log)' /\ IdsConsistent'
      /\ EdgesAmong(log') = EdgesAmong(log) \cup EdgesOf(e)
      /\ Recorded(log) \cup {e.id} \subseteq Recorded(log')
      /\ Recorded(log') \subseteq Recorded(log) \cup {e.id, TriggerId(e.id)}
      /\ \A i \in DOMAIN log : i \in DOMAIN log' /\ log'[i] = log[i]
      /\ \E i \in DOMAIN log' : log'[i] = e
  BY <1>2, LogKept
<1>4. TypeOK'
  <2>1. knowledge' \subseteq [event : Ids, kind : {"decision", "failure"}]
    BY DEF LineageInvariant, TypeOK, KnowledgeOf
  <2>2. edges' \subseteq [cause : Nat, effect : Ids]
    BY DEF LineageInvariant, TypeOK, EdgesOf, Events
  <2>3. snapshots' \subseteq Snapshots
    BY DEF LineageInvariant, TypeOK
  <2> QED
    BY <1>3, <2>1, <2>2, <2>3 DEF LineageInvariant, TypeOK
<1>5. ASSUME NEW p \in Requests PROVE RequestConsistent(p)'
  <2>1. CASE request'[p] = Idle
    BY <2>1 DEF RequestConsistent, Idle
  <2>2. CASE request'[p] # Idle
    <3>1. RequestConsistent(p) /\ request'[p] = request[p]
      BY <2>2 DEF LineageInvariant
    <3>2. request'[p].phase = "inferred" => request'[p].id \notin Recorded(log')
      <4> SUFFICES ASSUME request'[p].phase = "inferred" PROVE request'[p].id \notin Recorded(log')
        OBVIOUS
      <4>1. request[p].id \in Ids /\ request[p].id # e.id /\ request[p].id \notin Recorded(log)
        BY <3>1, RequestFields DEF LineageInvariant, Inferred, RequestConsistent
      <4>2. TriggerId(e.id) # request[p].id
        BY <4>1 DEF TriggerId, Ids
      <4> QED
        BY <1>3, <3>1, <4>1, <4>2
    <3>3. request'[p].phase = "inferred" =>
            \A o \in Requests \ {p} : request'[o].phase # "idle" => request'[o].id # request'[p].id
      BY <3>1 DEF RequestConsistent, Idle
    <3> QED
      BY <3>1, <3>2, <3>3 DEF RequestConsistent
  <2> QED
    BY <2>1, <2>2
<1>6. DerivedConsistent'
  <2>1. edges' = EdgesAmong(log')
    BY <1>3 DEF LineageInvariant, DerivedConsistent
  <2>2. \A k \in knowledge' : k.event \in Recorded(log')
    BY <1>3 DEF LineageInvariant, DerivedConsistent, KnowledgeOf
  <2>3. ASSUME NEW s \in snapshots'
        PROVE  \E i \in DOMAIN log' : /\ log'[i].about = s /\ log'[i].origin = "api"
                                      /\ log'[i].session = s.session
    <3>1. CASE s \in snapshots
      <4>1. PICK i \in DOMAIN log : /\ log[i].about = s /\ log[i].origin = "api"
                                   /\ log[i].session = s.session
        BY <3>1 DEF LineageInvariant, DerivedConsistent
      <4> QED
        BY <1>3, <4>1
    <3>2. CASE s \notin snapshots
      <4>1. s = e.about /\ e.session = s.session
        BY <3>2
      <4> QED
        BY <1>3, <4>1
    <3> QED
      BY <3>1, <3>2
  <2> QED
    BY <2>1, <2>2, <2>3 DEF DerivedConsistent
<1>7. RollbacksConsistent'
  BY <1>3 DEF LineageInvariant, RollbacksConsistent
<1> QED
  BY <1>3, <1>4, <1>5, <1>6, <1>7 DEF LineageInvariant

LEMMA CreateKeeps ==
  ASSUME LineageInvariant, NEW s \in Sessions, CreateSession(s)
  PROVE  LineageInvariant'
<1>1. PICK id \in FreeIds :
        log' = Append(log, Event(id, s, "SessionStarted", "api", now, NoEvent, None, 0))
  BY DEF CreateSession
<1> DEFINE e == Event(id, s, "SessionStarted", "api", now, NoEvent, None, 0)
<1>2. /\ e \in Events /\ e.id = id /\ e.cause = NoEvent /\ e.origin = "api"
      /\ e.type # "RollbackTriggered" /\ id \in Ids
  BY BoundAssumption DEF Event, Events, Origins, Rank, Types, NoEvent, LineageInvariant, TypeOK, FreeIds, Ids
<1>3. id \notin Recorded(log) /\ \A p \in Requests : request[p].phase # "idle" => request[p].id # id
  BY DEF FreeIds, InFlight
<1>4. log' = log \o <<e>>
  BY <1>1, <1>2, AppendIsConcat DEF LineageInvariant, TypeOK
<1>5. EdgesOf(e) = {}
  BY <1>2 DEF EdgesOf
<1> HIDE DEF e
<1>6. Preceded(log, e) /\ AcceptableCause(e, log)
  BY <1>2 DEF Preceded, AcceptableCause
<1>7. /\ UNCHANGED <<now, rollbacks, held>> /\ edges' = edges \cup EdgesOf(e)
      /\ knowledge' = knowledge /\ snapshots' = snapshots /\ request' = request
      /\ request \in [Requests -> {Idle} \cup Begun \cup Inferred]
  BY <1>5 DEF CreateSession, LineageInvariant, TypeOK
<1>8. \A p \in Requests : request'[p].phase = "inferred" => request[p].id # e.id
  BY <1>2, <1>3, <1>7
<1> QED
  BY <1>2, <1>3, <1>4, <1>6, <1>7, <1>8, WritingKeeps

LEMMA CommitEventKeeps ==
  ASSUME LineageInvariant, NEW r \in Requests, CommitEvent(r)
  PROVE  LineageInvariant'
<1> USE BoundAssumption
<1> DEFINE q == request[r]
           e == Event(q.id, q.session, q.type, "api", q.time, q.cause, None, 0)
<1>1. /\ TypeOK /\ q \in Begun /\ q.phase = "stamped" /\ RequestConsistent(r)
      /\ request' = [request EXCEPT ![r] = Idle]
      /\ UNCHANGED <<now, rollbacks, held>>
  BY RequestFields DEF CommitEvent, LineageInvariant
<1>2. CASE q.id \in Recorded(log) \/ ~AcceptableCause(e, log)
  <2>1. UNCHANGED record
    BY <1>2 DEF CommitEvent
  <2> QED
    BY <1>1, <2>1, ReturnKeeps
<1>3. CASE q.id \notin Recorded(log) /\ AcceptableCause(e, log)
  <2>1. /\ q.id \in Ids /\ q.session \in Sessions /\ q.time \in Nat /\ q.cause \in Nat
        /\ q.type \in ClientTypes
    BY <1>1 DEF RequestConsistent, Begun
  <2>2. /\ e \in Events /\ e.id = q.id /\ e.origin = "api" /\ e.type # "RollbackTriggered"
    BY <2>1, TypeAssumption DEF Event, Events, Origins, Rank, Types, Ids
  <2>3. Persist(log, e) /\ snapshots' = snapshots
    BY <1>3 DEF CommitEvent
  <2> HIDE DEF e
  <2>4. Preceded(log, e)
    BY DEF Preceded
  <2>5. /\ request' \in [Requests -> {Idle} \cup Begun \cup Inferred]
        /\ request'[r] = Idle /\ \A p \in Requests \ {r} : request'[p] = request[p]
    BY <1>1 DEF TypeOK
  <2>6. ASSUME NEW p \in Requests, request'[p].phase = "inferred" PROVE request[p].id # e.id
    <3>1. p # r /\ request'[p] = request[p] /\ RequestConsistent(p)
      BY <2>5, <2>6 DEF Idle, LineageInvariant
    <3> QED
      BY <1>1, <2>2, <2>6, <3>1 DEF RequestConsistent
  <2> QED
    BY <1>1, <1>3, <2>1, <2>2, <2>3, <2>4, <2>5, <2>6, WritingKeeps DEF Persist
<1> QED
  BY <1>2, <1>3

\* The transaction of a row: with its trigger's event before its own
LEMMA CommitArtifactKeeps ==
  ASSUME LineageInvariant, NEW r \in Requests, CommitArtifact(r)
  PROVE  LineageInvariant'
<1> USE BoundAssumption
<1> DEFINE q == request[r]
           e == Event(q.id, q.session, q.type, "api", q.time, q.cause, q.about, 0)
           before == log \o q.own
<1>1. /\ TypeOK /\ q \in Inferred /\ q.phase = "inferred" /\ RequestConsistent(r)
      /\ request' = [request EXCEPT ![r] = Idle]
      /\ UNCHANGED <<now, rollbacks, held>>
  BY RequestFields DEF CommitArtifact, LineageInvariant
<1>2. CASE ~AcceptableCause(e, before)
  <2>1. UNCHANGED record
    BY <1>2 DEF CommitArtifact
  <2> QED
    BY <1>1, <2>1, ReturnKeeps
<1>3. CASE AcceptableCause(e, before)
  <2>1. /\ q.id \in Ids /\ q.session \in Sessions /\ q.time \in Nat /\ q.cause \in Nat
        /\ q.type \in Types /\ q.about \in Snapshots \cup {None} /\ q.own \in Seq(Events)
        /\ q.id \notin Recorded(log)
        /\ \A p \in Requests \ {r} : request[p].phase # "idle" => request[p].id # q.id
        /\ \/ q.type \in VerificationTypes
           \/ q.type = "SnapshotCreated" /\ q.about \in Snapshots /\ q.about.session = q.session
        /\ Len(q.own) <= 1
        /\ \A k \in DOMAIN q.own : /\ q.own[k].id = TriggerId(q.id)
                                  /\ q.own[k].cause = NoEvent
                                  /\ q.own[k].type # "RollbackTriggered"
    <3>1. /\ q.id \in Ids /\ q.session \in Sessions /\ q.time \in Nat /\ q.cause \in Nat
          /\ q.type \in Types /\ q.about \in Snapshots \cup {None} /\ q.own \in Seq(Events)
      BY <1>1 DEF Inferred
    <3>2. /\ q.id \notin Recorded(log)
          /\ \A p \in Requests \ {r} : request[p].phase # "idle" => request[p].id # q.id
      BY <1>1 DEF RequestConsistent
    <3>3. \/ q.type \in VerificationTypes
          \/ q.type = "SnapshotCreated" /\ q.about \in Snapshots /\ q.about.session = q.session
      BY <1>1 DEF RequestConsistent
    <3>4. /\ Len(q.own) <= 1
          /\ \A k \in DOMAIN q.own : /\ q.own[k].id = TriggerId(q.id)
                                    /\ q.own[k].cause = NoEvent
                                    /\ q.own[k].type # "RollbackTriggered"
      BY <1>1 DEF RequestConsistent
    <3> QED
      BY <3>1, <3>2, <3>3, <3>4
  <2>2. /\ e \in Events /\ e.id = q.id /\ e.origin = "api" /\ e.type # "RollbackTriggered"
        /\ e.about = q.about /\ e.session = q.session
    BY <2>1, VerificationAssumption DEF Event, Events, Origins, Rank, Types, Ids
  <2>3. Persist(before, e)
    BY <1>3 DEF CommitArtifact
  <2>4. snapshots' = IF q.type = "SnapshotCreated" THEN snapshots \cup {q.about} ELSE snapshots
    BY <1>3 DEF CommitArtifact
  <2>5. \/ snapshots' = snapshots
        \/ /\ e.about \in Snapshots /\ e.about.session = e.session
           /\ snapshots' = snapshots \cup {e.about}
    BY <2>1, <2>2, <2>4, VerificationAssumption
  <2>6. Preceded(before, e)
    <3>1. \/ before = log
          \/ \E t \in Events : t = q.own[1] /\ 1 \in DOMAIN q.own /\ before = Append(log, t)
      BY <1>1, <2>1, ConcatOne DEF TypeOK
    <3> HIDE DEF before, e
    <3> QED
      BY <2>1, <2>2, <3>1 DEF Preceded
  <2>7. /\ request' \in [Requests -> {Idle} \cup Begun \cup Inferred]
        /\ request'[r] = Idle /\ \A p \in Requests \ {r} : request'[p] = request[p]
    BY <1>1 DEF TypeOK
  <2> HIDE DEF e, before
  <2>8. ASSUME NEW p \in Requests, request'[p].phase = "inferred" PROVE request[p].id # e.id
    <3>1. p # r /\ request'[p] = request[p]
      BY <2>7, <2>8 DEF Idle
    <3> QED
      BY <2>1, <2>2, <2>8, <3>1
  <2> QED
    BY <1>1, <1>3, <2>1, <2>2, <2>3, <2>5, <2>6, <2>7, <2>8, WritingKeeps DEF Persist
<1> QED
  BY <1>2, <1>3

-----------------------------------------------------------------------------
(* The steps of the rollbacks                                                *)

LEMMA TickKeeps == LineageInvariant /\ Tick => LineageInvariant'
<1> SUFFICES ASSUME LineageInvariant, Tick PROVE LineageInvariant'
  OBVIOUS
<1>1. TypeOK'
  BY DEF LineageInvariant, TypeOK, Tick, record
<1>2. ASSUME NEW p \in Requests PROVE RequestConsistent(p)'
  BY DEF LineageInvariant, RequestConsistent, Tick, record
<1> QED
  BY <1>1, <1>2
     DEF LineageInvariant, IdsConsistent, DerivedConsistent, RollbacksConsistent, Tick, record

LEMMA RequestRollbackKeeps ==
  ASSUME LineageInvariant, NEW s \in Sessions, NEW snapshot, RequestRollback(s, snapshot)
  PROVE  LineageInvariant'
<1> DEFINE asked == [session |-> s, snapshot |-> snapshot, status |-> "planned"]
           Asked == [session : Sessions, snapshot : Snapshots, status : {"planned", "ready"}]
<1>1. /\ UNCHANGED <<now, record, request, held>> /\ rollbacks' = Append(rollbacks, asked)
      /\ asked \in Asked /\ rollbacks \in Seq(Asked)
  BY DEF RequestRollback, LineageInvariant, TypeOK
<1>2. /\ rollbacks' \in Seq(Asked)
      /\ DOMAIN rollbacks' = DOMAIN rollbacks \cup {Len(rollbacks) + 1}
      /\ \A i \in DOMAIN rollbacks : rollbacks'[i] = rollbacks[i]
      /\ rollbacks'[Len(rollbacks) + 1].status = "planned"
  BY <1>1, AppendProperties, LenProperties
<1>3. TypeOK'
  BY <1>1, <1>2 DEF LineageInvariant, TypeOK, record
<1>4. ASSUME NEW p \in Requests PROVE RequestConsistent(p)'
  BY <1>1 DEF LineageInvariant, RequestConsistent, record
<1>5. IdsConsistent'
  BY <1>1, <1>2 DEF LineageInvariant, IdsConsistent, IdConsistent, record
<1>6. RollbacksConsistent'
  <2>1. \A i \in DOMAIN rollbacks' : rollbacks'[i].status = "ready" =>
          \E j \in DOMAIN log' : log'[j].type = "RollbackTriggered" /\ log'[j].rollback = i
    BY <1>1, <1>2 DEF LineageInvariant, RollbacksConsistent, record
  <2>2. \A w \in Workers : held'[w] # Free =>
          /\ held'[w].rollback \in DOMAIN rollbacks'
          /\ rollbacks'[held'[w].rollback].status = "planned"
          /\ \A v \in Workers \ {w} : held'[v].rollback # held'[w].rollback
    BY <1>1, <1>2 DEF LineageInvariant, RollbacksConsistent
  <2> QED
    BY <2>1, <2>2 DEF RollbacksConsistent
<1> QED
  BY <1>1, <1>3, <1>4, <1>5, <1>6 DEF LineageInvariant, DerivedConsistent, record

\* What a claim or a failure of a worker leaves alone
LEMMA HeldKeeps ==
  ASSUME LineageInvariant, UNCHANGED <<now, record, request, rollbacks>>,
         held' \in [Workers -> [rollback : Nat, since : Nat]],
         \A w \in Workers : held'[w] # Free =>
           /\ held'[w].rollback \in DOMAIN rollbacks
           /\ rollbacks[held'[w].rollback].status = "planned"
           /\ \A v \in Workers \ {w} : held'[v].rollback # held'[w].rollback
  PROVE  LineageInvariant'
<1>1. TypeOK'
  BY DEF LineageInvariant, TypeOK, record
<1>2. ASSUME NEW p \in Requests PROVE RequestConsistent(p)'
  BY DEF LineageInvariant, RequestConsistent, record
<1>3. RollbacksConsistent'
  BY DEF LineageInvariant, RollbacksConsistent, record
<1> QED
  BY <1>1, <1>2, <1>3 DEF LineageInvariant, IdsConsistent, DerivedConsistent, record

LEMMA ClaimKeeps ==
  ASSUME LineageInvariant, NEW w \in Workers, ClaimRollback(w)
  PROVE  LineageInvariant'
<1>1. PICK i \in Claimable : held' = [held EXCEPT ![w] = [rollback |-> i, since |-> now]]
  BY DEF ClaimRollback
<1>2. /\ i \in DOMAIN rollbacks /\ rollbacks[i].status = "planned"
      /\ \A v \in Workers : held[v].rollback # i
      /\ DOMAIN rollbacks \subseteq Nat
  BY LenProperties DEF Claimable, LineageInvariant, TypeOK
<1>3. /\ held' \in [Workers -> [rollback : Nat, since : Nat]]
      /\ held'[w].rollback = i /\ \A v \in Workers \ {w} : held'[v] = held[v]
  BY <1>1, <1>2 DEF LineageInvariant, TypeOK
<1>4. ASSUME NEW v \in Workers, held'[v] # Free
      PROVE  /\ held'[v].rollback \in DOMAIN rollbacks
             /\ rollbacks[held'[v].rollback].status = "planned"
             /\ \A o \in Workers \ {v} : held'[o].rollback # held'[v].rollback
  BY <1>2, <1>3, <1>4 DEF LineageInvariant, RollbacksConsistent
<1> QED
  BY <1>3, <1>4, HeldKeeps DEF ClaimRollback

LEMMA FailKeeps ==
  ASSUME LineageInvariant, NEW w \in Workers, WorkerFails(w)
  PROVE  LineageInvariant'
<1>1. /\ held' \in [Workers -> [rollback : Nat, since : Nat]]
      /\ held'[w] = Free /\ \A v \in Workers \ {w} : held'[v] = held[v]
  BY DEF LineageInvariant, TypeOK, WorkerFails, Free
<1>2. ASSUME NEW v \in Workers, held'[v] # Free
      PROVE  /\ held'[v].rollback \in DOMAIN rollbacks
             /\ rollbacks[held'[v].rollback].status = "planned"
             /\ \A o \in Workers \ {v} : held'[o].rollback # held'[v].rollback
  <2>1. /\ v # w /\ held'[v] = held[v] /\ held[v].rollback \in DOMAIN rollbacks
        /\ rollbacks[held[v].rollback].status = "planned"
        /\ \A o \in Workers \ {v} : held[o].rollback # held[v].rollback
    BY <1>1, <1>2 DEF LineageInvariant, RollbacksConsistent
  <2>2. held[v].rollback # 0
    BY <2>1, LenProperties DEF LineageInvariant, TypeOK
  <2> QED
    BY <1>1, <2>1, <2>2 DEF Free
<1> QED
  BY <1>1, <1>2, HeldKeeps DEF WorkerFails

\* The event of a rollback is the first and last that names it.
LEMMA PrepareKeeps ==
  ASSUME LineageInvariant, NEW w \in Workers, PrepareRollback(w)
  PROVE  LineageInvariant'
<1> USE BoundAssumption
<1> DEFINE i == held[w].rollback
           Asked == [session : Sessions, snapshot : Snapshots, status : {"planned", "ready"}]
           e == Event(RollbackId(i), rollbacks[i].session, "RollbackTriggered", "runner",
                      held[w].since, NoEvent, rollbacks[i].snapshot, i)
<1>1. /\ TypeOK /\ EventsSound(log) /\ IdsConsistent /\ RollbacksConsistent /\ DerivedConsistent
      /\ rollbacks \in Seq(Asked) /\ log \in Seq(Events)
      /\ held \in [Workers -> [rollback : Nat, since : Nat]]
  BY DEF LineageInvariant, TypeOK
<1>2. /\ UNCHANGED <<now, knowledge, edges, snapshots, request>> /\ log' = Append(log, e)
      /\ held' = [held EXCEPT ![w] = Free] /\ rollbacks' = [rollbacks EXCEPT ![i].status = "ready"]
  BY DEF PrepareRollback
<1>3. /\ i \in DOMAIN rollbacks /\ rollbacks[i].status = "planned"
      /\ \A v \in Workers \ {w} : held[v].rollback # i
  BY <1>1 DEF PrepareRollback, RollbacksConsistent
<1>4. i \in 1..Len(rollbacks) /\ i \in Nat \ {0} /\ rollbacks[i] \in Asked
      /\ DOMAIN rollbacks = 1..Len(rollbacks)
  <2>1. DOMAIN rollbacks = 1..Len(rollbacks) /\ Len(rollbacks) \in Nat
    BY <1>1, LenProperties
  <2>2. rollbacks[i] \in Asked
    BY <1>1, <1>3, <2>1, ElementOfSeq
  <2> HIDE DEF i
  <2> QED
    BY <1>3, <2>1, <2>2
<1>5. /\ e \in Events /\ e.id = RollbackId(i) /\ e.cause = NoEvent /\ e.type = "RollbackTriggered"
      /\ e.rollback = i /\ e.id \in Nat /\ e.id > 2 * MaxIds /\ e.id # NoEvent
  <2>1. RollbackId(i) \in Nat \ {0} /\ RollbackId(i) > 2 * MaxIds
    BY <1>4 DEF RollbackId
  <2>2. rollbacks[i].session \in Sessions /\ rollbacks[i].snapshot \in Snapshots /\ held[w].since \in Nat
    BY <1>1, <1>4
  <2> QED
    BY <1>4, <2>1, <2>2 DEF Event, Events, Origins, Rank, Types, NoEvent
<1> HIDE DEF e
<1>6. e.id \notin Recorded(log)
  <2> SUFFICES ASSUME NEW j \in DOMAIN log, log[j].id = e.id PROVE FALSE
    BY DEF Recorded
  <2>1. log[j].type = "RollbackTriggered" /\ log[j].id = RollbackId(log[j].rollback)
        /\ log[j].rollback \in DOMAIN rollbacks /\ rollbacks[log[j].rollback].status = "ready"
    BY <1>1, <1>5 DEF IdsConsistent, IdConsistent
  <2>2. log[j].rollback = i
    BY <1>4, <1>5, <2>1 DEF RollbackId
  <2> QED
    BY <1>3, <2>1, <2>2
<1>7. /\ log' \in Seq(Events) /\ Recorded(log') = Recorded(log) \cup {e.id}
      /\ DOMAIN log' = DOMAIN log \cup {Len(log) + 1}
      /\ \A j \in DOMAIN log : log'[j] = log[j]
      /\ log'[Len(log) + 1] = e
  BY <1>1, <1>2, <1>5, RecordedAppended
<1>8. EventsSound(log')
  BY <1>1, <1>2, <1>5, <1>6, SoundAppended DEF AcceptableCause
<1>9. EdgesAmong(log') = EdgesAmong(log)
  <2>1. EdgesOf(e) = {}
    BY <1>5 DEF EdgesOf
  <2> QED
    BY <1>1, <1>2, <1>5, <2>1, EdgesAppended
<1>10. /\ rollbacks' \in Seq(Asked) /\ DOMAIN rollbacks' = DOMAIN rollbacks
       /\ rollbacks'[i].status = "ready"
       /\ \A j \in DOMAIN rollbacks \ {i} : rollbacks'[j] = rollbacks[j]
  <2>1. rollbacks' = [rollbacks EXCEPT ![i] = [rollbacks[i] EXCEPT !.status = "ready"]]
    BY <1>2
  <2>2. [rollbacks[i] EXCEPT !.status = "ready"] \in Asked
    BY <1>4
  <2>3. rollbacks' \in Seq(Asked) /\ Len(rollbacks') = Len(rollbacks)
    BY <1>1, <1>4, <2>1, <2>2, ExceptSeq
  <2> QED
    BY <1>4, <2>1, <2>2, <2>3, LenProperties
<1>11. /\ held' \in [Workers -> [rollback : Nat, since : Nat]]
       /\ held'[w] = Free /\ \A v \in Workers \ {w} : held'[v] = held[v]
  BY <1>1, <1>2 DEF Free
<1>12. TypeOK'
  BY <1>1, <1>2, <1>7, <1>10, <1>11 DEF TypeOK
<1>13. IdsConsistent'
  <2>1. ASSUME NEW j \in DOMAIN log' PROVE IdConsistent(log'[j], log', rollbacks')
    <3>1. CASE j \in DOMAIN log
      <4>1. IdConsistent(log[j], log, rollbacks) /\ log'[j] = log[j]
        BY <1>1, <1>7, <3>1 DEF IdsConsistent
      <4> QED
        BY <4>1, <1>7, <1>10 DEF IdConsistent
    <3>2. CASE j = Len(log) + 1
      <4>1. log'[j] = e /\ i \in DOMAIN rollbacks'
        BY <1>3, <1>7, <1>10, <3>2
      <4> HIDE DEF i
      <4> QED
        BY <1>5, <1>7, <1>10, <4>1 DEF IdConsistent
    <3> QED
      BY <1>7, <3>1, <3>2
  <2> QED
    BY <2>1 DEF IdsConsistent
<1>14. ASSUME NEW p \in Requests PROVE RequestConsistent(p)'
  <2>1. RequestConsistent(p)
    BY DEF LineageInvariant
  <2>2. request[p].phase = "inferred" => request[p].id # e.id
    BY <1>1, <1>5, RequestFields DEF Inferred, Ids
  <2> QED
    BY <1>2, <1>7, <2>1, <2>2 DEF RequestConsistent
<1>15. DerivedConsistent'
  <2>1. \A s \in snapshots : \E j \in DOMAIN log' : /\ log'[j].about = s /\ log'[j].origin = "api"
                                                    /\ log'[j].session = s.session
    BY <1>1, <1>7 DEF DerivedConsistent
  <2> QED
    BY <1>1, <1>2, <1>7, <1>9, <2>1 DEF DerivedConsistent
<1>16. RollbacksConsistent'
  <2>1. ASSUME NEW k \in DOMAIN rollbacks', rollbacks'[k].status = "ready"
        PROVE  \E j \in DOMAIN log' : log'[j].type = "RollbackTriggered" /\ log'[j].rollback = k
    <3>1. CASE k = i
      BY <1>5, <1>7, <3>1
    <3>2. CASE k # i
      BY <1>1, <1>7, <1>10, <2>1, <3>2 DEF RollbacksConsistent
    <3> QED
      BY <3>1, <3>2
  <2>2. ASSUME NEW v \in Workers, held'[v] # Free
        PROVE  /\ held'[v].rollback \in DOMAIN rollbacks'
               /\ rollbacks'[held'[v].rollback].status = "planned"
               /\ \A o \in Workers \ {v} : held'[o].rollback # held'[v].rollback
    <3>1. /\ v # w /\ held'[v] = held[v] /\ held[v].rollback \in DOMAIN rollbacks
          /\ rollbacks[held[v].rollback].status = "planned"
          /\ \A o \in Workers \ {v} : held[o].rollback # held[v].rollback
      BY <1>1, <1>11, <2>2 DEF RollbacksConsistent
    <3>2. held[v].rollback # 0 /\ held[v].rollback # i
      BY <1>3, <1>4, <3>1
    <3>3. \A o \in Workers \ {v} : held'[o].rollback # held[v].rollback
      BY <1>11, <3>1, <3>2 DEF Free
    <3>4. rollbacks'[held[v].rollback] = rollbacks[held[v].rollback]
      BY <1>10, <3>1, <3>2
    <3> QED
      BY <1>10, <3>1, <3>3, <3>4
  <2> QED
    BY <2>1, <2>2 DEF RollbacksConsistent
<1> QED
  BY <1>8, <1>12, <1>13, <1>14, <1>15, <1>16 DEF LineageInvariant

-----------------------------------------------------------------------------
(* The invariant of the record                                               *)

LEMMA LineageInit == Init => LineageInvariant
<1> SUFFICES ASSUME Init PROVE LineageInvariant
  OBVIOUS
<1>1. TypeOK
  BY DEF Init, TypeOK, Free
<1>2. EventsSound(log) /\ IdsConsistent /\ DerivedConsistent
  BY DEF Init, EventsSound, IdsConsistent, DerivedConsistent, EdgesAmong
<1>3. \A r \in Requests : RequestConsistent(r)
  BY DEF Init, RequestConsistent, Idle
<1>4. RollbacksConsistent
  BY DEF Init, RollbacksConsistent
<1> QED
  BY <1>1, <1>2, <1>3, <1>4 DEF LineageInvariant

LEMMA ServeKeeps ==
  ASSUME LineageInvariant, NEW r \in Requests, Serve(r)
  PROVE  LineageInvariant'
<1>1. CASE Abort(r)
  BY <1>1, ReturnKeeps DEF Abort
<1> QED
  BY <1>1, CommitEventKeeps, InferKeeps, CommitArtifactKeeps DEF Serve

LEMMA RunnerKeeps == LineageInvariant /\ Runner => LineageInvariant'
BY ClaimKeeps, PrepareKeeps, FailKeeps DEF Runner

LEMMA StutterKeeps == LineageInvariant /\ UNCHANGED vars => LineageInvariant'
<1> SUFFICES ASSUME LineageInvariant, UNCHANGED vars PROVE LineageInvariant'
  OBVIOUS
<1>1. ASSUME NEW p \in Requests PROVE RequestConsistent(p)'
  BY DEF LineageInvariant, RequestConsistent, vars, record
<1> QED
  BY <1>1
     DEF LineageInvariant, TypeOK, IdsConsistent, DerivedConsistent, RollbacksConsistent, vars, record

LEMMA LineageStep == LineageInvariant /\ [Next]_vars => LineageInvariant'
BY TickKeeps, BeginKeeps, ServeKeeps, CreateKeeps, StutterKeeps DEF Next

\* The state of SessionLineage is always of its type.
THEOREM LineageTyped == Spec => []TypeOK
<1>1. LineageInvariant => TypeOK
  BY DEF LineageInvariant
<1> QED
  BY <1>1, LineageInit, LineageStep, PTL DEF Spec

LEMMA IntegrityHolds == LineageInvariant => CausalIntegrity
<1> SUFFICES ASSUME LineageInvariant PROVE CausalIntegrity
  OBVIOUS
<1>1. log \in Seq(Events) /\ EventsSound(log) /\ DerivedConsistent
  BY DEF LineageInvariant, TypeOK
<1>2. DOMAIN log = 1..Len(log) /\ Len(log) \in Nat /\ \A i \in DOMAIN log : log[i] \in Events
  BY <1>1, LenProperties, ElementOfSeq
<1>3. ASSUME NEW i \in DOMAIN log
      PROVE  /\ Appendable(SubSeq(log, 1, i - 1), log[i])
             /\ log[i].id \notin Recorded(SubSeq(log, 1, i - 1))
  <2> DEFINE past == SubSeq(log, 1, i - 1)
  <2>1. DOMAIN past = 1..(i - 1) /\ \A j \in 1..(i - 1) : past[j] = log[j] /\ j \in DOMAIN log
    <3>1. i \in 1..Len(log) /\ \A j \in 1..(i - 1) : log[j] \in Events /\ j \in DOMAIN log
      BY <1>2
    <3>2. past \in Seq(Events) /\ Len(past) = i - 1 /\ \A j \in 1..(i - 1) : past[j] = log[j]
      BY <3>1, SubSeqProperties
    <3> HIDE DEF past
    <3> QED
      BY <3>1, <3>2, LenProperties
  <2> HIDE DEF past
  <2>2. \A j \in DOMAIN past : past[j].id # log[i].id
    BY <1>1, <1>2, <2>1 DEF EventsSound
  <2>3. WellFormed(log[i]) /\ AcceptableCause(log[i], past)
    BY <1>1, <2>1 DEF EventsSound, AcceptableCause
  <2> QED
    BY <2>2, <2>3 DEF Appendable, Unconflicted, Recorded, past
<1> QED
  BY <1>1, <1>3 DEF CausalIntegrity, DerivedConsistent, EdgesAmong

\* Whatever requests are served at once, are aborted or repeat an id, the record
\* is a timeline: reasoning-graph.ts and the triggers append to it only events
\* whose cause is an earlier event of their session, with their edges.
THEOREM RecordIsTimeline == Spec => []CausalIntegrity
BY LineageInit, LineageStep, IntegrityHolds, PTL DEF Spec

LEMMA TriggerOnceHolds == LineageInvariant => RollbacksTriggerOnce
<1> SUFFICES ASSUME LineageInvariant, NEW i \in DOMAIN rollbacks
             PROVE  Cardinality({j \in DOMAIN log : log[j].type = "RollbackTriggered" /\ log[j].rollback = i})
                      = IF rollbacks[i].status = "ready" THEN 1 ELSE 0
  BY DEF RollbacksTriggerOnce
<1> DEFINE told == {j \in DOMAIN log : log[j].type = "RollbackTriggered" /\ log[j].rollback = i}
<1>1. EventsSound(log) /\ IdsConsistent /\ RollbacksConsistent
  BY DEF LineageInvariant
<1>2. CASE rollbacks[i].status = "ready"
  <2>1. PICK j \in DOMAIN log : log[j].type = "RollbackTriggered" /\ log[j].rollback = i
    BY <1>1, <1>2 DEF RollbacksConsistent
  <2>2. ASSUME NEW k \in told PROVE k = j
    <3>1. log[k].id = RollbackId(i) /\ log[j].id = RollbackId(i)
      BY <1>1, <2>1 DEF IdsConsistent, IdConsistent
    <3> QED
      BY <1>1, <2>1, <3>1 DEF EventsSound
  <2>3. told = {j}
    BY <2>1, <2>2
  <2> QED
    BY <1>2, <2>3, FS_Singleton
<1>3. CASE rollbacks[i].status # "ready"
  <2>1. told = {}
    BY <1>1, <1>3 DEF IdsConsistent, IdConsistent
  <2> QED
    BY <1>3, <2>1, FS_EmptySet
<1> QED
  BY <1>2, <1>3

-----------------------------------------------------------------------------
(* The commands of the CLI                                                   *)

\* What a file says of checkpoints is true of what is stored.
RealIn(file, stored, checkpoints) ==
  \A c \in Commits :
    file.snapshots[c] # None =>
      /\ c \in DOMAIN checkpoints
      /\ file.snapshots[c] \in stored /\ file.snapshots[c].content = checkpoints[c]

\* A request for the snapshot of a content
AsksFor(q, content) ==
  q.phase \in {"begun", "inferred"} /\ q.type = "SnapshotCreated" /\ q.about.content = content

\* A command that waits has read a file that was true, and a commit has asked for
\* the snapshot of its own checkpoint.
CommandConsistent(p) ==
  LET q == command[p] IN
  /\ q # NoCommand => RealIn(q.loaded, snapshots, commits)
  /\ q.name = "commit" => q.commit \in DOMAIN commits /\ AsksFor(request[p], commits[q.commit])

ClientInvariant ==
  /\ LineageInvariant /\ ClientTypeOK
  /\ RealIn(runtime, snapshots, commits)
  /\ \A p \in Requests : CommandConsistent(p)

LEMMA CommandFields ==
  ASSUME ClientTypeOK, NEW p \in Requests
  PROVE  /\ command[p] # NoCommand => command[p] \in Commands
         /\ command[p] = NoCommand => command[p].name = "none"
         /\ command[p].name \in {"start", "commit"} => command[p] # NoCommand
<1>1. command[p] \in {NoCommand} \cup Commands
  BY DEF ClientTypeOK
<1> QED
  BY <1>1 DEF NoCommand, Commands

\* The checkpoints of a clone grow, or stay.
Checkpointed ==
  /\ Len(commits') <= MaxCommits
  /\ commits' = commits \/ \E content \in Contents : commits' = Append(commits, content)

LEMMA CheckpointsKept ==
  ASSUME ClientTypeOK, Checkpointed
  PROVE  /\ commits' \in Seq(Contents)
         /\ \A c \in DOMAIN commits : c \in DOMAIN commits' /\ commits'[c] = commits[c]
<1>1. CASE commits' = commits
  BY <1>1 DEF ClientTypeOK
<1>2. CASE \E content \in Contents : commits' = Append(commits, content)
  BY <1>2, AppendProperties, LenProperties DEF ClientTypeOK
<1> QED
  BY <1>1, <1>2 DEF Checkpointed

\* A file that was true stays true: nothing deletes a snapshot or a checkpoint.
LEMMA RealStays ==
  ASSUME ClientTypeOK, Checkpointed, snapshots \subseteq snapshots',
         NEW file, RealIn(file, snapshots, commits)
  PROVE  RealIn(file, snapshots', commits')
<1>1. \A c \in DOMAIN commits : c \in DOMAIN commits' /\ commits'[c] = commits[c]
  BY CheckpointsKept
<1> QED
  BY <1>1 DEF RealIn

\* A step after which every command is one it was before, with the same request
\* if it is a commit, or has been checked on its own.
LEMMA ClientKeeps ==
  ASSUME ClientInvariant, LineageInvariant', Checkpointed, snapshots \subseteq snapshots',
         runtime' \in Runtimes, RealIn(runtime', snapshots', commits'),
         command' \in [Requests -> {NoCommand} \cup Commands],
         \A p \in Requests :
           \/ CommandConsistent(p)'
           \/ /\ command'[p] = command[p]
              /\ \/ request'[p] = request[p]
                 \/ /\ request[p].phase = "begun" /\ request'[p].phase = "inferred"
                    /\ request'[p].type = request[p].type /\ request'[p].about = request[p].about
  PROVE  ClientInvariant'
<1>1. ClientTypeOK'
  BY CheckpointsKept DEF ClientInvariant, ClientTypeOK, Checkpointed
<1>2. ASSUME NEW p \in Requests, command'[p] = command[p],
             \/ request'[p] = request[p]
             \/ /\ request[p].phase = "begun" /\ request'[p].phase = "inferred"
                /\ request'[p].type = request[p].type /\ request'[p].about = request[p].about
      PROVE  CommandConsistent(p)'
  <2>1. CommandConsistent(p)
    BY DEF ClientInvariant
  <2>2. command[p] # NoCommand => RealIn(command[p].loaded, snapshots', commits')
    BY <2>1, RealStays DEF CommandConsistent, ClientInvariant
  <2>3. command[p].name = "commit" =>
          /\ command[p].commit \in DOMAIN commits'
          /\ commits'[command[p].commit] = commits[command[p].commit]
    BY <2>1, CheckpointsKept DEF CommandConsistent, ClientInvariant
  <2> QED
    BY <1>2, <2>1, <2>2, <2>3 DEF CommandConsistent, AsksFor
<1>3. \A p \in Requests : CommandConsistent(p)'
  BY <1>2
<1> QED
  BY <1>1, <1>3 DEF ClientInvariant

\* A step that is not of a command changes neither the file nor the checkpoints.
LEMMA ElsewhereKeeps ==
  ASSUME ClientInvariant, LineageInvariant', UNCHANGED client, snapshots \subseteq snapshots',
         \A p \in Requests :
           \/ command[p] = NoCommand
           \/ request'[p] = request[p]
           \/ /\ request[p].phase = "begun" /\ request'[p].phase = "inferred"
              /\ request'[p].type = request[p].type /\ request'[p].about = request[p].about
  PROVE  ClientInvariant'
<1>1. /\ Checkpointed /\ runtime' \in Runtimes
      /\ command' \in [Requests -> {NoCommand} \cup Commands]
  BY DEF ClientInvariant, ClientTypeOK, Checkpointed, client
<1>2. RealIn(runtime', snapshots', commits')
  BY <1>1, RealStays DEF ClientInvariant, client
<1>3. ASSUME NEW p \in Requests, command[p] = NoCommand PROVE CommandConsistent(p)'
  BY <1>3 DEF CommandConsistent, NoCommand, client
<1> QED
  BY <1>1, <1>2, <1>3, ClientKeeps DEF client

-----------------------------------------------------------------------------

\* What the steps of a request leave alone: other requests, and what is stored
LEMMA RequestFrame ==
  ASSUME TypeOK, NEW r \in Requests,
         Begin(r) \/ CommitEvent(r) \/ CommitArtifact(r) \/ InferCause(r) \/ Abort(r)
  PROVE  /\ snapshots \subseteq snapshots'
         /\ \A o \in Requests \ {r} : request'[o] = request[o]
<1> USE DEF TypeOK, record
<1>1. CASE Begin(r)
  BY <1>1 DEF Begin, BeginEvent, BeginSnapshot, BeginVerification
<1>2. CASE CommitEvent(r)
  BY <1>2 DEF CommitEvent
<1>3. CASE CommitArtifact(r)
  BY <1>3 DEF CommitArtifact
<1>4. CASE InferCause(r)
  BY <1>4 DEF InferCause
<1>5. CASE Abort(r)
  BY <1>5 DEF Abort
<1> QED
  BY <1>1, <1>2, <1>3, <1>4, <1>5

LEMMA OthersKeep ==
  ASSUME ClientInvariant, NEW p \in Requests, Others(p)
  PROVE  ClientInvariant'
<1>1. Begin(p) \/ CommitEvent(p) \/ CommitArtifact(p) \/ Abort(p)
  BY DEF Others
<1>2. LineageInvariant'
  BY <1>1, BeginKeeps, ServeKeeps DEF Serve, ClientInvariant
<1>3. snapshots \subseteq snapshots' /\ \A o \in Requests \ {p} : request'[o] = request[o]
  BY <1>1, RequestFrame DEF ClientInvariant, LineageInvariant
<1> QED
  BY <1>2, <1>3, ElsewhereKeeps DEF Others

LEMMA InfersKeeps ==
  ASSUME ClientInvariant, NEW p \in Requests, Infers(p)
  PROVE  ClientInvariant'
<1>1. InferCause(p) /\ UNCHANGED client
  BY DEF Infers
<1>2. LineageInvariant'
  BY <1>1, InferKeeps DEF ClientInvariant
<1>3. snapshots \subseteq snapshots' /\ \A o \in Requests \ {p} : request'[o] = request[o]
  BY <1>1, RequestFrame DEF ClientInvariant, LineageInvariant
<1>4. /\ request[p].phase = "begun" /\ request'[p].phase = "inferred"
      /\ request'[p].type = request[p].type /\ request'[p].about = request[p].about
  BY <1>1 DEF InferCause, ClientInvariant, LineageInvariant, TypeOK
<1> QED
  BY <1>1, <1>2, <1>3, <1>4, ElsewhereKeeps

\* Steps that touch no request: the clock, the runner, and other clients' sessions
\* and rollbacks
LEMMA ApartKeeps ==
  ASSUME ClientInvariant,
         \/ Background
         \/ \E s \in Sessions : OthersStart(s)
         \/ \E s \in Sessions, snapshot \in snapshots : OthersRecover(s, snapshot)
  PROVE  ClientInvariant'
<1>1. UNCHANGED client
  BY DEF Background, OthersStart, OthersRecover
<1>2. LineageInvariant'
  BY TickKeeps, RunnerKeeps, CreateKeeps, RequestRollbackKeeps
     DEF Background, OthersStart, OthersRecover, ClientInvariant
<1>3. request' = request /\ snapshots' = snapshots
  BY DEF Background, OthersStart, OthersRecover, Tick, Runner, ClaimRollback, PrepareRollback,
         WorkerFails, CreateSession, RequestRollback, record
<1> QED
  BY <1>1, <1>2, <1>3, ElsewhereKeeps

LEMMA IdleSends ==
  ASSUME ClientInvariant, NEW p \in Requests, Idling(p)
  PROVE  command[p] = NoCommand /\ runtime.session \in Sessions \cup {None}
BY DEF Idling, ClientInvariant, ClientTypeOK, Runtimes

LEMMA StartKeeps ==
  ASSUME ClientInvariant, NEW p \in Requests, Start(p)
  PROVE  ClientInvariant'
<1> DEFINE q == [name |-> "start", loaded |-> runtime, commit |-> 0]
<1>1. UNCHANGED <<vars, commits, runtime>> /\ command' = [command EXCEPT ![p] = q]
  BY DEF Start, Send
<1>2. LineageInvariant'
  BY <1>1, StutterKeeps DEF ClientInvariant
<1>3. Checkpointed /\ snapshots \subseteq snapshots' /\ request' = request
  BY <1>1 DEF Checkpointed, ClientInvariant, ClientTypeOK, vars, record
<1>4. runtime' \in Runtimes /\ RealIn(runtime', snapshots', commits')
  BY <1>1 DEF ClientInvariant, ClientTypeOK, vars, record
<1>5. /\ command' \in [Requests -> {NoCommand} \cup Commands] /\ command'[p] = q
      /\ \A o \in Requests \ {p} : command'[o] = command[o]
  <2>1. q \in Commands
    BY DEF Commands, ClientInvariant, ClientTypeOK
  <2> HIDE DEF q
  <2> QED
    BY <1>1, <2>1 DEF ClientInvariant, ClientTypeOK
<1>6. CommandConsistent(p)'
  BY <1>1, <1>4, <1>5 DEF CommandConsistent
<1> QED
  BY <1>2, <1>3, <1>4, <1>5, <1>6, ClientKeeps

\* A command that returns, and leaves the file as it was or as it has read it with
\* true snapshots
LEMMA ReturnsKeeps ==
  ASSUME ClientInvariant, LineageInvariant', NEW p \in Requests, Return(p),
         commits' = commits, snapshots \subseteq snapshots',
         runtime' \in Runtimes, RealIn(runtime', snapshots', commits'),
         \A o \in Requests \ {p} : request'[o] = request[o]
  PROVE  ClientInvariant'
<1>1. Checkpointed
  BY DEF Checkpointed, ClientInvariant, ClientTypeOK
<1>2. /\ command' \in [Requests -> {NoCommand} \cup Commands] /\ command'[p] = NoCommand
      /\ \A o \in Requests \ {p} : command'[o] = command[o]
  BY DEF Return, ClientInvariant, ClientTypeOK
<1>3. CommandConsistent(p)'
  BY <1>2 DEF CommandConsistent, NoCommand
<1> QED
  BY <1>1, <1>2, <1>3, ClientKeeps

LEMMA StartAnsweredKeeps ==
  ASSUME ClientInvariant, NEW p \in Requests, StartAnswered(p)
  PROVE  ClientInvariant'
<1>1. PICK s \in Sessions : CreateSession(s) /\ runtime' = [command[p].loaded EXCEPT !.session = s]
  BY DEF StartAnswered
<1>2. Return(p) /\ commits' = commits /\ command[p] \in Commands /\ command[p] # NoCommand
  BY CommandFields DEF StartAnswered, Waiting, ClientInvariant
<1>3. command[p].loaded \in Runtimes /\ RealIn(command[p].loaded, snapshots, commits)
  BY <1>2 DEF Commands, ClientInvariant, CommandConsistent
<1>4. runtime' \in Runtimes /\ runtime'.snapshots = command[p].loaded.snapshots
  BY <1>1, <1>3 DEF Runtimes
<1>5. LineageInvariant' /\ snapshots' = snapshots /\ request' = request
  BY <1>1, CreateKeeps DEF ClientInvariant, CreateSession
<1>6. RealIn(runtime', snapshots', commits')
  BY <1>2, <1>3, <1>4, <1>5 DEF RealIn
<1> QED
  BY <1>2, <1>4, <1>5, <1>6, ReturnsKeeps

\* The answer is mapped to the checkpoint whose snapshot it is.
LEMMA CommitAnsweredKeeps ==
  ASSUME ClientInvariant, NEW p \in Requests, CommitAnswered(p)
  PROVE  ClientInvariant'
<1> DEFINE q == command[p]
           about == request[p].about
<1>1. CommitArtifact(p) /\ Return(p) /\ commits' = commits /\ q.name = "commit"
  BY DEF CommitAnswered, Waiting
<1>2. q \in Commands /\ q # NoCommand
  BY <1>1, CommandFields DEF ClientInvariant
<1>3. /\ q.loaded \in Runtimes /\ RealIn(q.loaded, snapshots, commits)
      /\ q.commit \in DOMAIN commits /\ about.content = commits[q.commit]
  BY <1>1, <1>2 DEF Commands, ClientInvariant, CommandConsistent, AsksFor
<1>4. LineageInvariant' /\ snapshots' \subseteq Snapshots
  BY <1>1, CommitArtifactKeeps DEF ClientInvariant, LineageInvariant, TypeOK
<1>5. snapshots \subseteq snapshots' /\ \A o \in Requests \ {p} : request'[o] = request[o]
  BY <1>1, RequestFrame DEF ClientInvariant, LineageInvariant
<1>6. CASE runtime' = runtime
  <2>1. RealIn(runtime', snapshots', commits')
    BY <1>1, <1>5, <1>6 DEF RealIn, ClientInvariant
  <2> QED
    BY <1>1, <1>4, <1>5, <1>6, <2>1, ReturnsKeeps DEF ClientInvariant, ClientTypeOK
<1>7. CASE about \in snapshots' /\ runtime' = Mapped(q, about)
  <2>1. /\ runtime' \in Runtimes
        /\ \A c \in Commits : runtime'.snapshots[c] =
              IF c = q.commit THEN about ELSE q.loaded.snapshots[c]
    BY <1>3, <1>4, <1>7 DEF Mapped, Runtimes
  <2> HIDE DEF q, about
  <2>2. RealIn(runtime', snapshots', commits')
    BY <1>1, <1>3, <1>5, <1>7, <2>1 DEF RealIn
  <2> QED
    BY <1>1, <1>4, <1>5, <2>1, <2>2, ReturnsKeeps
<1> QED
  BY <1>6, <1>7 DEF CommitAnswered

LEMMA FailKeepsClient ==
  ASSUME ClientInvariant, NEW p \in Requests, Fail(p)
  PROVE  ClientInvariant'
<1>1. LineageInvariant'
  BY StutterKeeps, ServeKeeps DEF Fail, Serve, ClientInvariant
<1>2. /\ Return(p) /\ commits' = commits /\ runtime' = runtime /\ snapshots' = snapshots
      /\ \A o \in Requests \ {p} : request'[o] = request[o]
  BY DEF Fail, Abort, vars, record, ClientInvariant, LineageInvariant, TypeOK
<1> QED
  BY <1>1, <1>2, ReturnsKeeps DEF ClientInvariant, ClientTypeOK

\* createCommit: the checkpoint, and the request for its snapshot if there is a session
LEMMA CommitKeepsClient ==
  ASSUME ClientInvariant, NEW p \in Requests, NEW content \in Contents, Commit(p, content)
  PROVE  ClientInvariant'
<1> DEFINE n == Len(commits) + 1
<1>1. /\ commits \in Seq(Contents) /\ commits' = Append(commits, content) /\ runtime' = runtime
      /\ Idling(p) /\ n \in Commits /\ Len(commits') <= MaxCommits
      /\ n \in DOMAIN commits' /\ commits'[n] = content
  BY CommitBoundAssumption, AppendProperties, LenProperties
     DEF Commit, ClientInvariant, ClientTypeOK, Commits
<1>2. Checkpointed
  BY <1>1 DEF Checkpointed
<1>3. CASE runtime.session = None
  <2>1. UNCHANGED <<vars, command>>
    BY <1>3 DEF Commit
  <2>2. LineageInvariant' /\ snapshots' = snapshots /\ request' = request /\ command' = command
    BY <2>1, StutterKeeps DEF ClientInvariant, vars, record
  <2>3. RealIn(runtime', snapshots', commits')
    BY <1>1, <1>2, <2>2, RealStays DEF ClientInvariant
  <2> QED
    BY <1>1, <1>2, <2>2, <2>3, ClientKeeps DEF ClientInvariant, ClientTypeOK
<1>4. CASE runtime.session # None
  <2> DEFINE q == [name |-> "commit", loaded |-> runtime, commit |-> n]
  <2>1. BeginSnapshot(p, runtime.session, content, NoEvent) /\ command' = [command EXCEPT ![p] = q]
    BY <1>4 DEF Commit, Send
  <2>2. runtime.session \in Sessions
    BY <1>1, <1>4, IdleSends
  <2>3. LineageInvariant' /\ snapshots' = snapshots
    BY <2>1, <2>2, BeginSnapshotKeeps DEF ClientInvariant, BeginSnapshot, record
  <2>4. AsksFor(request'[p], content) /\ \A o \in Requests \ {p} : request'[o] = request[o]
    BY <2>1 DEF BeginSnapshot, AsksFor, ClientInvariant, LineageInvariant, TypeOK
  <2>5. RealIn(runtime', snapshots', commits')
    BY <1>1, <1>2, <2>3, RealStays DEF ClientInvariant
  <2>6. q \in Commands /\ q.name = "commit" /\ q.loaded = runtime /\ q.commit = n
    BY <1>1 DEF Commands, ClientInvariant, ClientTypeOK
  <2> HIDE DEF q
  <2>7. /\ command' \in [Requests -> {NoCommand} \cup Commands] /\ command'[p] = q
        /\ \A o \in Requests \ {p} : command'[o] = command[o]
    BY <2>1, <2>6 DEF ClientInvariant, ClientTypeOK
  <2>8. CommandConsistent(p)'
    BY <1>1, <2>4, <2>5, <2>6, <2>7 DEF CommandConsistent
  <2> QED
    BY <1>1, <1>2, <2>3, <2>4, <2>5, <2>7, <2>8, ClientKeeps DEF ClientInvariant, ClientTypeOK
<1> QED
  BY <1>3, <1>4

\* verify, record and recovery send a request and wait for nothing.
LEMMA SendersKeep ==
  ASSUME ClientInvariant, NEW p \in Requests,
         \/ \E type \in VerificationTypes : Verify(p, type)
         \/ \E type \in ClientTypes, id \in Ids, cause \in Ids \cup {NoEvent} : Record(p, type, id, cause)
         \/ \E c \in Commits : Recovery(p, c)
  PROVE  ClientInvariant'
<1>1. UNCHANGED client /\ Idling(p) /\ runtime.session # None
  BY DEF Verify, Record, Recovery
<1>2. command[p] = NoCommand /\ runtime.session \in Sessions /\ runtime \in Runtimes
  BY <1>1, IdleSends DEF ClientInvariant, ClientTypeOK
<1>3. CASE \E type \in VerificationTypes : Verify(p, type)
  <2> DEFINE snapshot == IF commits = <<>> THEN None ELSE runtime.snapshots[Len(commits)]
  <2>1. PICK type \in VerificationTypes :
          BeginVerification(p, runtime.session, type, snapshot, NoEvent)
    BY <1>3 DEF Verify
  <2>2. snapshot \in Snapshots \cup {None}
    <3>1. commits # <<>> => Len(commits) \in Commits
      BY EmptySeq, CommitBoundAssumption DEF ClientInvariant, ClientTypeOK, Commits
    <3> QED
      BY <1>2, <3>1 DEF Runtimes
  <2> HIDE DEF snapshot
  <2>3. LineageInvariant'
    BY <1>2, <2>1, <2>2, BeginVerificationKeeps DEF ClientInvariant
  <2>4. snapshots' = snapshots /\ \A o \in Requests \ {p} : request'[o] = request[o]
    BY <2>1 DEF BeginVerification, record, ClientInvariant, LineageInvariant, TypeOK
  <2> QED
    BY <1>1, <1>2, <2>3, <2>4, ElsewhereKeeps
<1>4. CASE \E type \in ClientTypes, id \in Ids, cause \in Ids \cup {NoEvent} : Record(p, type, id, cause)
  <2>1. PICK type \in ClientTypes, id \in Ids, cause \in Ids \cup {NoEvent} :
          BeginEvent(p, runtime.session, type, id, cause)
    BY <1>4 DEF Record
  <2>2. LineageInvariant'
    BY <1>2, <2>1, BeginEventKeeps DEF ClientInvariant
  <2>3. snapshots' = snapshots /\ \A o \in Requests \ {p} : request'[o] = request[o]
    BY <2>1 DEF BeginEvent, record, ClientInvariant, LineageInvariant, TypeOK
  <2> QED
    BY <1>1, <1>2, <2>2, <2>3, ElsewhereKeeps
<1>5. CASE \E c \in Commits : Recovery(p, c)
  <2>1. PICK c \in Commits : RequestRollback(runtime.session, runtime.snapshots[c])
    BY <1>5 DEF Recovery
  <2>2. LineageInvariant' /\ snapshots' = snapshots /\ request' = request
    BY <1>2, <2>1, RequestRollbackKeeps DEF ClientInvariant, RequestRollback, record
  <2> QED
    BY <1>1, <2>2, ElsewhereKeeps
<1> QED
  BY <1>3, <1>4, <1>5

-----------------------------------------------------------------------------
(* What holds of the commands beside every other client                      *)

LEMMA ClientInitEstablishes == ClientInit => ClientInvariant
<1> SUFFICES ASSUME ClientInit PROVE ClientInvariant
  OBVIOUS
<1>1. LineageInvariant
  BY LineageInit DEF ClientInit
<1>2. ClientTypeOK /\ RealIn(runtime, snapshots, commits)
  BY CommitBoundAssumption DEF ClientInit, ClientTypeOK, Runtimes, RealIn
<1>3. \A p \in Requests : CommandConsistent(p)
  BY DEF ClientInit, CommandConsistent, NoCommand
<1> QED
  BY <1>1, <1>2, <1>3 DEF ClientInvariant

LEMMA ClientStutterKeeps == ClientInvariant /\ UNCHANGED clientVars => ClientInvariant'
<1> SUFFICES ASSUME ClientInvariant, UNCHANGED clientVars PROVE ClientInvariant'
  OBVIOUS
<1>1. UNCHANGED vars /\ UNCHANGED client
  BY DEF clientVars
<1>2. LineageInvariant' /\ snapshots' = snapshots /\ request' = request
  BY <1>1, StutterKeeps DEF ClientInvariant, vars, record
<1> QED
  BY <1>1, <1>2, ElsewhereKeeps

LEMMA ClientStep == ClientInvariant /\ [ClientNext]_clientVars => ClientInvariant'
<1> SUFFICES ASSUME ClientInvariant, ClientNext PROVE ClientInvariant'
  BY ClientStutterKeeps
<1>1. CASE \E p \in Requests : Command(p)
  BY <1>1, StartKeeps, CommitKeepsClient, SendersKeep, StartAnsweredKeeps, CommitAnsweredKeeps,
     FailKeepsClient DEF Command
<1>2. CASE \E p \in Requests : Infers(p) \/ Others(p)
  BY <1>2, InfersKeeps, OthersKeep
<1> QED
  BY <1>1, <1>2, ApartKeeps DEF ClientNext

\* However many workers poll, and whatever requests and commands run beside them, a
\* rollback is ready exactly when one event says so: runRollbackOnce holds the row
\* from its claim to its commit (apps/runner/src/worker.ts).
THEOREM RollbackPreparedOnce == ClientSpec => []RollbacksTriggerOnce
<1>1. ClientInvariant => RollbacksTriggerOnce
  BY TriggerOnceHolds DEF ClientInvariant
<1> QED
  BY <1>1, ClientInitEstablishes, ClientStep, PTL DEF ClientSpec

\* A checkpoint for which runtime.json names a snapshot can be recovered, although
\* commands overwrite the file with what they have read (apps/cli/src/index.ts).
THEOREM HostedRecovery == ClientSpec => []HostedRecoveryIsReal
<1>1. ClientInvariant => HostedRecoveryIsReal
  BY DEF ClientInvariant, HostedRecoveryIsReal, RealIn
<1> QED
  BY <1>1, ClientInitEstablishes, ClientStep, PTL DEF ClientSpec

\* The record is a timeline also while the commands and the runner write to it.
THEOREM RecordIsTimelineBesideClients == ClientSpec => []CausalIntegrity
<1>1. ClientInvariant => CausalIntegrity
  BY IntegrityHolds DEF ClientInvariant
<1> QED
  BY <1>1, ClientInitEstablishes, ClientStep, PTL DEF ClientSpec

\* The state of SessionClient is always of its type.
THEOREM ClientTyped == ClientSpec => [](TypeOK /\ ClientTypeOK)
<1>1. ClientInvariant => TypeOK /\ ClientTypeOK
  BY DEF ClientInvariant, LineageInvariant
<1> QED
  BY <1>1, ClientInitEstablishes, ClientStep, PTL DEF ClientSpec
=============================================================================
