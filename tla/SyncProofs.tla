----------------------------- MODULE SyncProofs -----------------------------
(* Theorems about HostedSync, for any clones, objects, checkpoints and limits. *)
(* What a push stores is complete because what a clone holds, and what it is    *)
(* about to send, is closed under parents: also after a pull that read a torn   *)
(* state, whose query of the checkpoints answered at one moment.               *)
(* Then theorems about Webhooks, the same repository with its outbox, for any  *)
(* webhooks, workers and number of attempts.  A worker that has lost its lease *)
(* still writes the row it once claimed; what it writes is true all the same,  *)
(* because the attempts of a row never go down and a delivery whose row was    *)
(* deleted never comes back.                                                   *)
EXTENDS Webhooks, FiniteSetTheorems, TLAPS

\* Every checkpoint of the set exists, and its parent is in the set.
Closed(checkpoints) ==
  \A k \in checkpoints : k \in Created /\ (parent[k] # None => parent[k] \in checkpoints)

\* A push sends closed checkpoints with all their objects, and what it has not
\* still to upload is stored; a pull has read closed checkpoints.
TransferConsistent(c) ==
  LET q == transfer[c] IN
  /\ q # Resting => Closed(q.checkpoints)
  /\ q.phase \in {"register", "plan", "upload"} => ObjectsIn(q.checkpoints) \subseteq q.objects
  /\ q.phase = "upload" => q.objects \subseteq hosted.objects \cup q.missing

SyncInvariant ==
  /\ SyncTypeOK
  /\ \A c \in Clients : Closed(clone[c].checkpoints)
  /\ \A c \in Clients : TransferConsistent(c)
  /\ HostedStateComplete

-----------------------------------------------------------------------------
\* What the phase of a transfer says of its fields
LEMMA TransferFields ==
  ASSUME SyncTypeOK, NEW c \in Clients
  PROVE  /\ transfer[c].phase = "resting" <=> transfer[c] = Resting
         /\ transfer[c].phase = "pull" => transfer[c] \in Pulling
         /\ transfer[c].phase \in {"register", "plan", "upload"} => transfer[c] \in Pushing
         /\ transfer[c] # Resting => transfer[c].checkpoints \subseteq Checkpoints
         /\ transfer[c] \in {Resting} \cup Pushing \cup Pulling
<1>1. transfer[c] \in {Resting} \cup Pushing \cup Pulling
  BY DEF SyncTypeOK
<1>2. CASE transfer[c] = Resting
  BY <1>2 DEF Resting
<1>3. CASE transfer[c] \in Pushing
  BY <1>3 DEF Pushing, Resting
<1>4. CASE transfer[c] \in Pulling
  BY <1>4 DEF Pulling, Resting
<1> QED
  BY <1>1, <1>2, <1>3, <1>4

LEMMA InitEstablishes == SyncInit => SyncInvariant
<1> SUFFICES ASSUME SyncInit PROVE SyncInvariant
  OBVIOUS
<1> USE ObjectsAssumption, NoneAssumption, LimitsAssumption
<1>1. SyncTypeOK
  BY DEF SyncInit, SyncTypeOK, EmptyClone, Clones, Head, HostedStates
<1>2. \A c \in Clients : Closed(clone[c].checkpoints) /\ TransferConsistent(c)
  BY DEF SyncInit, EmptyClone, Closed, TransferConsistent, Resting
<1>3. HostedStateComplete
  BY DEF SyncInit, HostedStateComplete
<1> QED
  BY <1>1, <1>2, <1>3 DEF SyncInvariant

\* A set of checkpoints that is closed stays so when one more is created.
LEMMA ClosedStays ==
  ASSUME SyncTypeOK, NEW S, Closed(S),
         parent' = parent \/ \E c \in Clients, k \in Checkpoints : LocalCommit(c, k)
  PROVE  Closed(S)'
BY DEF Closed, Created, LocalCommit

-----------------------------------------------------------------------------
(* The steps of a clone                                                      *)

LEMMA CommitKeeps ==
  ASSUME SyncInvariant, NEW c \in Clients, NEW k \in Checkpoints, LocalCommit(c, k)
  PROVE  SyncInvariant'
<1> USE NoneAssumption, ObjectsAssumption
<1> DEFINE from == clone[c].head
<1>1. /\ clone[c] \in Clones /\ from \in Head
      /\ from # None => from \in clone[c].checkpoints
      /\ k \notin Created /\ DOMAIN parent' = Created \cup {k}
      /\ parent'[k] = from /\ \A j \in Created : parent'[j] = parent[j]
  BY DEF SyncInvariant, SyncTypeOK, LocalCommit, Resolves, Clones, Created
<1>2. /\ clone' \in [Clients -> Clones]
      /\ clone'[c].checkpoints = clone[c].checkpoints \cup {k}
      /\ \A d \in Clients \ {c} : clone'[d] = clone[d]
  BY <1>1 DEF SyncInvariant, SyncTypeOK, LocalCommit, Clones, Head
<1>3. SyncTypeOK'
  BY <1>1, <1>2 DEF SyncInvariant, SyncTypeOK, LocalCommit, Created
<1>4. ASSUME NEW d \in Clients PROVE Closed(clone[d].checkpoints)'
  BY <1>1, <1>2 DEF SyncInvariant, Closed, Created
<1>5. ASSUME NEW d \in Clients PROVE TransferConsistent(d)'
  BY <1>1 DEF SyncInvariant, TransferConsistent, Closed, Created, LocalCommit, ObjectsIn
<1>6. HostedStateComplete'
  BY <1>1 DEF SyncInvariant, HostedStateComplete, Created, LocalCommit
<1> QED
  BY <1>3, <1>4, <1>5, <1>6 DEF SyncInvariant

\* A step of one transfer keeps the invariant when it keeps it for that transfer.
LEMMA TransferKeeps ==
  ASSUME SyncInvariant, NEW c \in Clients, NEW q \in {Resting} \cup Pushing \cup Pulling,
         transfer' = [transfer EXCEPT ![c] = q],
         TransferConsistent(c)',
         UNCHANGED <<parent, account>>,
         clone' \in [Clients -> Clones],
         \A d \in Clients : Closed(clone'[d].checkpoints),
         hosted' \in HostedStates, hosted.objects \subseteq hosted'.objects, HostedStateComplete'
  PROVE  SyncInvariant'
<1>1. SyncTypeOK'
  BY DEF SyncInvariant, SyncTypeOK
<1>2. ASSUME NEW d \in Clients PROVE TransferConsistent(d)'
  <2>1. CASE d = c
    BY <2>1
  <2>2. CASE d # c
    <3>1. transfer'[d] = transfer[d] /\ TransferConsistent(d)
      BY <2>2 DEF SyncInvariant, SyncTypeOK
    <3> QED
      BY <3>1 DEF TransferConsistent, Closed, Created, ObjectsIn
  <2> QED
    BY <2>1, <2>2
<1>3. ASSUME NEW d \in Clients PROVE Closed(clone[d].checkpoints)'
  BY DEF Closed, Created
<1> QED
  BY <1>1, <1>2, <1>3 DEF SyncInvariant

LEMMA PushKeeps ==
  ASSUME SyncInvariant, NEW c \in Clients,
         StartPush(c) \/ Register(c) \/ Plan(c) \/ (\E o \in Objects : Upload(c, o)) \/ PostState(c)
  PROVE  SyncInvariant'
<1> USE DEF SyncInvariant
<1>1. /\ clone[c] \in Clones /\ Closed(clone[c].checkpoints) /\ TransferConsistent(c)
      /\ hosted \in HostedStates
      /\ \A d \in Clients : Closed(clone[d].checkpoints)
      /\ clone \in [Clients -> Clones] /\ transfer \in [Clients -> {Resting} \cup Pushing \cup Pulling]
      /\ transfer[c].phase \in {"register", "plan", "upload"} => transfer[c] \in Pushing
  BY TransferFields DEF SyncTypeOK
<1>2. CASE StartPush(c)
  <2> DEFINE q == [phase |-> "register", checkpoints |-> clone[c].checkpoints,
                   objects |-> ObjectsIn(clone[c].checkpoints), head |-> clone[c].head, missing |-> {}]
  <2>1. q \in Pushing
    BY <1>1, ObjectsAssumption DEF Pushing, Clones, ObjectsIn
  <2>2. TransferConsistent(c)'
    BY <1>1, <1>2, <2>1 DEF StartPush, TransferConsistent, Closed, Created, ObjectsIn
  <2> QED
    BY <1>1, <1>2, <2>1, <2>2, TransferKeeps DEF StartPush, HostedStateComplete, Created
<1>3. CASE Register(c)
  <2>1. /\ [transfer[c] EXCEPT !.phase = "plan"] \in Pushing
        /\ transfer' = [transfer EXCEPT ![c] = [transfer[c] EXCEPT !.phase = "plan"]]
        /\ hosted' \in HostedStates /\ hosted'.objects = hosted.objects
        /\ hosted'.checkpoints = hosted.checkpoints /\ hosted'.head = hosted.head
    BY <1>1, <1>3 DEF Register, Phase, Pushing, HostedStates
  <2>2. TransferConsistent(c)'
    BY <1>1, <1>3, <2>1 DEF Register, Phase, Pushing, TransferConsistent, Closed, Created, ObjectsIn, Resting
  <2> QED
    BY <1>1, <1>3, <2>1, <2>2, TransferKeeps DEF Register, HostedStateComplete, Created
<1>4. CASE Plan(c)
  <2> DEFINE q == [transfer[c] EXCEPT !.phase = "upload",
                                      !.missing = transfer[c].objects \ hosted.objects]
  <2>1. q \in Pushing /\ transfer' = [transfer EXCEPT ![c] = q]
    BY <1>1, <1>4 DEF Plan, Phase, Pushing
  <2>2. TransferConsistent(c)'
    BY <1>1, <1>4, <2>1 DEF Plan, Phase, Pushing, TransferConsistent, Closed, Created, ObjectsIn, Resting
  <2> QED
    BY <1>1, <1>4, <2>1, <2>2, TransferKeeps DEF Plan, HostedStateComplete, Created
<1>5. CASE \E o \in Objects : Upload(c, o)
  <2> PICK o \in Objects : Upload(c, o)
    BY <1>5
  <2> DEFINE q == [transfer[c] EXCEPT !.missing = @ \ {o}]
  <2>1. /\ q \in Pushing /\ transfer' = [transfer EXCEPT ![c] = q]
        /\ hosted' \in HostedStates /\ hosted'.objects = hosted.objects \cup {o}
        /\ hosted'.checkpoints = hosted.checkpoints /\ hosted'.head = hosted.head
    BY <1>1 DEF Upload, Phase, Pushing, HostedStates
  <2>2. TransferConsistent(c)'
    BY <1>1, <2>1 DEF Upload, Phase, Pushing, TransferConsistent, Closed, Created, ObjectsIn, Resting
  <2> QED
    BY <1>1, <2>1, <2>2, TransferKeeps DEF Upload, HostedStateComplete, Created
<1>6. CASE PostState(c)
  <2> DEFINE q == transfer[c]
  <2>1. /\ q \in Pushing /\ Closed(q.checkpoints) /\ q.missing = {}
        /\ q.head # None => q.head \in hosted.checkpoints \cup q.checkpoints
        /\ ObjectsIn(q.checkpoints) \subseteq hosted.objects
    BY <1>1, <1>6 DEF PostState, ReadyToPost, Phase, TransferConsistent, Pushing, Resting
  <2>2. /\ hosted' \in HostedStates /\ hosted'.objects = hosted.objects
        /\ hosted'.checkpoints = hosted.checkpoints \cup q.checkpoints /\ hosted'.head = q.head
        /\ transfer' = [transfer EXCEPT ![c] = Resting] /\ UNCHANGED <<parent, clone, account>>
    BY <1>1, <1>6, <2>1 DEF PostState, Rest, HostedStates, Pushing
  <2>3. HostedStateComplete'
    BY <2>1, <2>2 DEF HostedStateComplete, Closed, Created, ObjectsIn
  <2>4. TransferConsistent(c)'
    BY <1>1, <2>2 DEF TransferConsistent, Resting
  <2> QED
    BY <1>1, <2>2, <2>3, <2>4, TransferKeeps
<1> QED
  BY <1>2, <1>3, <1>4, <1>5, <1>6

LEMMA PullKeeps ==
  ASSUME SyncInvariant, NEW c \in Clients,
         StartPull(c) \/ (\E part \in Parts : Read(c, part)) \/ Apply(c) \/ StopInApply(c) \/ GiveUp(c)
  PROVE  SyncInvariant'
<1> USE DEF SyncInvariant
<1>1. /\ TransferConsistent(c) /\ hosted \in HostedStates
      /\ Closed(hosted.checkpoints)
      /\ \A d \in Clients : Closed(clone[d].checkpoints)
      /\ clone \in [Clients -> Clones] /\ transfer \in [Clients -> {Resting} \cup Pushing \cup Pulling]
      /\ transfer[c].phase = "pull" => transfer[c] \in Pulling
  BY TransferFields DEF SyncTypeOK, HostedStateComplete, Closed
<1>2. CASE StartPull(c)
  <2> DEFINE q == [phase |-> "pull", unread |-> Parts, checkpoints |-> {}, objects |-> {}, head |-> None]
  <2>1. q \in Pulling /\ transfer' = [transfer EXCEPT ![c] = q]
    BY <1>2 DEF StartPull, Pulling, Head
  <2>2. TransferConsistent(c)'
    BY <1>1, <2>1 DEF TransferConsistent, Closed
  <2> QED
    BY <1>1, <1>2, <2>1, <2>2, TransferKeeps DEF StartPull, HostedStateComplete, Created
<1>3. CASE \E part \in Parts : Read(c, part)
  <2> PICK part \in Parts : Read(c, part)
    BY <1>3
  <2> DEFINE q == [transfer[c] EXCEPT
                     !.unread = @ \ {part},
                     !.head = IF part = "refs" THEN hosted.head ELSE @,
                     !.checkpoints = IF part = "checkpoints" THEN hosted.checkpoints ELSE @,
                     !.objects = IF part = "objects" THEN hosted.objects ELSE @]
  <2>1. /\ q \in Pulling /\ transfer' = [transfer EXCEPT ![c] = q]
        /\ q.checkpoints \in {transfer[c].checkpoints, hosted.checkpoints}
        /\ q.phase = "pull" /\ transfer[c].phase = "pull" /\ UNCHANGED parent
    BY <1>1 DEF Read, Phase, Pulling, HostedStates
  <2>2. TransferConsistent(c)'
    <3> HIDE DEF q
    <3>1. transfer[c] # Resting /\ Closed(transfer[c].checkpoints)
      BY <1>1, <2>1 DEF TransferConsistent, Resting
    <3>3. Closed(q.checkpoints)
      BY <1>1, <2>1, <3>1
    <3>2. transfer'[c].checkpoints = q.checkpoints /\ transfer'[c].phase = "pull"
      BY <1>1, <2>1
    <3> QED
      BY <2>1, <3>2, <3>3 DEF TransferConsistent, Closed, Created
  <2> QED
    BY <1>1, <2>1, <2>2, TransferKeeps DEF Read, HostedStateComplete, Created
<1>4. CASE Apply(c)
  <2> DEFINE q == transfer[c]
             own == [checkpoints |-> q.checkpoints, blobs |-> q.objects, head |-> q.head,
                     intact |-> TRUE]
  <2>1. q \in Pulling /\ Closed(q.checkpoints)
    BY <1>1, <1>4 DEF Apply, Phase, TransferConsistent, Resting
  <2>2. /\ own \in Clones /\ clone' = [clone EXCEPT ![c] = own]
        /\ transfer' = [transfer EXCEPT ![c] = Resting] /\ UNCHANGED <<parent, hosted, account>>
    BY <1>4, <2>1 DEF Apply, Rest, Clones, Pulling
  <2>3. TransferConsistent(c)'
    BY <1>1, <2>2 DEF TransferConsistent, Resting
  <2>4. clone' \in [Clients -> Clones] /\ \A d \in Clients : Closed(clone'[d].checkpoints)
    BY <1>1, <2>1, <2>2
  <2> QED
    BY <1>1, <2>2, <2>3, <2>4, TransferKeeps DEF HostedStateComplete, Created
<1>5. CASE StopInApply(c)
  <2>1. /\ Gone \in Clones /\ Gone.checkpoints = {}
        /\ clone' = [clone EXCEPT ![c] = Gone]
        /\ transfer' = [transfer EXCEPT ![c] = Resting] /\ UNCHANGED <<parent, hosted, account>>
    BY <1>5 DEF StopInApply, Rest, Gone, EmptyClone, Clones, Head
  <2>2. TransferConsistent(c)'
    BY <1>1, <2>1 DEF TransferConsistent, Resting
  <2>3. clone' \in [Clients -> Clones] /\ \A d \in Clients : Closed(clone'[d].checkpoints)
    BY <1>1, <2>1 DEF Closed
  <2> QED
    BY <1>1, <2>1, <2>2, <2>3, TransferKeeps DEF HostedStateComplete, Created
<1>6. CASE GiveUp(c)
  <2>1. TransferConsistent(c)'
    BY <1>1, <1>6 DEF GiveUp, Rest, TransferConsistent, Resting
  <2> QED
    BY <1>1, <1>6, <2>1, TransferKeeps DEF GiveUp, Rest, HostedStateComplete, Created
<1> QED
  BY <1>2, <1>3, <1>4, <1>5, <1>6

LEMMA StutterKeeps ==
  ASSUME SyncInvariant, UNCHANGED <<parent, clone, transfer, hosted>>,
         account' \in [writable : BOOLEAN, limit : Limits]
  PROVE  SyncInvariant'
BY DEF SyncInvariant, SyncTypeOK, Closed, Created, TransferConsistent, ObjectsIn, HostedStateComplete

LEMMA SyncStepKeeps == SyncInvariant /\ [SyncNext]_syncVars => SyncInvariant'
<1> SUFFICES ASSUME SyncInvariant, [SyncNext]_syncVars PROVE SyncInvariant'
  OBVIOUS
<1>1. CASE UNCHANGED syncVars
  BY <1>1, StutterKeeps DEF syncVars, SyncInvariant, SyncTypeOK
<1>2. CASE ChangeAccount
  BY <1>2, StutterKeeps DEF ChangeAccount
<1>3. CASE \E c \in Clients : Transfer(c) \/ PostState(c)
  BY <1>3, CommitKeeps, PushKeeps, PullKeeps DEF Transfer
<1> QED
  BY <1>1, <1>2, <1>3 DEF SyncNext

-----------------------------------------------------------------------------
\* The invariant holds in every state of every behaviour.
THEOREM SyncInvariantHolds == SyncSpec => []SyncInvariant
<1>1. SyncInit => SyncInvariant
  BY InitEstablishes
<1>2. SyncInvariant /\ [SyncNext]_syncVars => SyncInvariant'
  BY SyncStepKeeps
<1> QED
  BY <1>1, <1>2, PTL DEF SyncSpec

\* Type correctness of clones, transfers, the hosted repository and the account
THEOREM SyncTypesHold == SyncSpec => []SyncTypeOK
BY SyncInvariantHolds, PTL DEF SyncInvariant

\* The hosted repository (POST state, transport.ts) is complete at every moment,
\* for any number of clones that push and pull at once and are stopped anywhere.
THEOREM HostedRepositoryIsComplete == SyncSpec => []HostedStateComplete
BY SyncInvariantHolds, PTL DEF SyncInvariant

\* A step that stores an object (storeObject) finds room for it under the limit
\* of its moment.
LEMMA StepWithinLimit ==
  ASSUME SyncTypeOK, SyncNext, hosted'.objects # hosted.objects
  PROVE  Cardinality(hosted'.objects) <= account.limit
<1>1. hosted \in HostedStates
  BY DEF SyncTypeOK
<1>2. PICK c \in Clients, o \in Objects : Upload(c, o)
  BY <1>1 DEF SyncNext, ChangeAccount, Transfer, LocalCommit, StartPush, Register, Plan, GiveUp,
     StartPull, Apply, StopInApply, Read, PostState, HostedStates
<1>3. hosted'.objects = hosted.objects \cup {o}
  BY <1>1, <1>2 DEF Upload, HostedStates
<1>4. o \notin hosted.objects
  BY <1>3
<1> QED
  BY <1>2, <1>3, <1>4 DEF Upload, Fits

\* Storage grows only within the limit of the moment, for every interleaving of
\* uploads, plans and changes of the limit.
THEOREM StorageStaysWithinLimit == SyncSpec => StorageGrowsWithinLimit
<1>1. SyncTypeOK /\ [SyncNext]_syncVars =>
        [hosted'.objects # hosted.objects => Cardinality(hosted'.objects) <= account.limit]_syncVars
  BY StepWithinLimit DEF syncVars
<1> QED
  BY <1>1, SyncTypesHold, PTL DEF SyncSpec, StorageGrowsWithinLimit

-----------------------------------------------------------------------------
(* The outbox                                                                *)

\* What a worker holds is still so when it writes.
SenderConsistent(w) ==
  LET q == sender[w] IN
  /\ q.answer # "none" => q.key # None
  /\ q.answer = "accepted" => q.key \in accepted
  /\ q.key # None => q.key[2] \in hosted.checkpoints
  /\ q.key # None /\ q.key \in DOMAIN deliveries => q.attempt <= deliveries[q.key].attempt

OutboxInvariant ==
  /\ SyncTypeOK /\ OutboxTypeOK
  /\ DeliveriesAreHonest
  /\ \A w \in Senders : SenderConsistent(w)

-----------------------------------------------------------------------------
\* The outbox is served beside the synchronisation, which it leaves alone.
LEMMA StepIsSyncStep == [Next]_vars => [SyncNext]_syncVars
BY DEF Next, vars, Sync, StoreState, SyncNext, AddHook, DeleteHook, Redrive, Expire, Call, Record,
   Crash, Claim

\* A repository with an outbox is a hosted repository: HostedSync is implemented.
THEOREM OutboxImplementsSync == Spec => SyncSpec
<1>1. Init => SyncInit
  BY DEF Init
<1> QED
  BY <1>1, StepIsSyncStep, PTL DEF Spec, SyncSpec

\* Stored checkpoints stay.
LEMMA CheckpointsStay ==
  ASSUME SyncTypeOK, [SyncNext]_syncVars
  PROVE  hosted.checkpoints \subseteq hosted'.checkpoints
<1>1. hosted \in HostedStates
  BY DEF SyncTypeOK
<1>2. CASE \E c \in Clients : PostState(c)
  BY <1>1, <1>2 DEF PostState, HostedStates
<1>3. CASE \E c \in Clients : Register(c) \/ \E o \in Objects : Upload(c, o)
  BY <1>1, <1>3 DEF Register, Upload, HostedStates
<1>4. CASE UNCHANGED hosted
  BY <1>4
<1> QED
  BY <1>2, <1>3, <1>4 DEF SyncNext, ChangeAccount, Transfer, LocalCommit, StartPush, Plan, GiveUp,
     StartPull, Apply, StopInApply, Read, syncVars

LEMMA TypesStay ==
  ASSUME SyncInvariant, OutboxInvariant, [Next]_vars
  PROVE  SyncTypeOK' /\ hosted.checkpoints \subseteq hosted'.checkpoints
BY StepIsSyncStep, SyncStepKeeps, CheckpointsStay DEF SyncInvariant

LEMMA OutboxInitEstablishes == Init => OutboxInvariant
<1> SUFFICES ASSUME Init PROVE OutboxInvariant
  OBVIOUS
<1>1. SyncTypeOK
  BY InitEstablishes DEF Init, SyncInvariant
<1>2. Waiting \in [key : Keys \cup {None}, attempt : Attempts, answer : Answers]
  BY AttemptsAssumption DEF Waiting, Attempts, Answers
<1>3. OutboxTypeOK
  BY <1>2 DEF Init, OutboxTypeOK
<1>4. DeliveriesAreHonest /\ \A w \in Senders : SenderConsistent(w)
  BY DEF Init, DeliveriesAreHonest, SenderConsistent, Waiting
<1> QED
  BY <1>1, <1>3, <1>4 DEF OutboxInvariant

-----------------------------------------------------------------------------
(* One lemma for each way of changing the outbox                             *)

\* The rows change, and the workers do not: no attempt is taken back, a row that
\* is new was not held, and each row is honest.
LEMMA RowsChange ==
  ASSUME OutboxInvariant, UNCHANGED <<sender, accepted>>,
         hooks' \in [Hooks -> {"new", "active", "deleted"}],
         SyncTypeOK', hosted.checkpoints \subseteq hosted'.checkpoints,
         DOMAIN deliveries' \subseteq Keys,
         \A k \in DOMAIN deliveries' :
           /\ deliveries'[k] \in Deliveries
           /\ deliveries'[k].status = "succeeded" => k \in accepted
           /\ deliveries'[k].status = "dead" => deliveries'[k].attempt = MaxAttempts
           /\ k[2] \in hosted'.checkpoints
           /\ k \in DOMAIN deliveries => deliveries'[k].attempt = deliveries[k].attempt
           /\ k \notin DOMAIN deliveries => k[2] \notin hosted.checkpoints
  PROVE  OutboxInvariant'
<1>1. OutboxTypeOK'
  BY DEF OutboxInvariant, OutboxTypeOK
<1>2. DeliveriesAreHonest'
  BY DEF DeliveriesAreHonest
<1>3. ASSUME NEW w \in Senders PROVE SenderConsistent(w)'
  BY DEF OutboxInvariant, SenderConsistent
<1> QED
  BY <1>1, <1>2, <1>3 DEF OutboxInvariant

\* One worker changes, and with it perhaps the row it works on.
LEMMA WorkerChanges ==
  ASSUME OutboxInvariant, UNCHANGED <<syncVars, hooks>>, accepted \subseteq accepted', accepted' \subseteq Keys,
         NEW w \in Senders, NEW q \in [key : Keys \cup {None}, attempt : Attempts, answer : Answers],
         sender' = [sender EXCEPT ![w] = q], SenderConsistent(w)',
         DOMAIN deliveries' = DOMAIN deliveries,
         \A k \in DOMAIN deliveries :
           /\ deliveries'[k] \in Deliveries
           /\ deliveries'[k].status = "succeeded" => k \in accepted'
           /\ deliveries'[k].status = "dead" => deliveries'[k].attempt = MaxAttempts
           /\ deliveries[k].attempt <= deliveries'[k].attempt
  PROVE  OutboxInvariant'
<1>1. SyncTypeOK' /\ OutboxTypeOK'
  BY DEF OutboxInvariant, OutboxTypeOK, SyncTypeOK, syncVars
<1>2. DeliveriesAreHonest'
  BY DEF OutboxInvariant, DeliveriesAreHonest, syncVars
<1>3. ASSUME NEW v \in Senders PROVE SenderConsistent(v)'
  <2>1. CASE v = w
    BY <2>1
  <2>2. CASE v # w
    <3>1. sender'[v] = sender[v] /\ SenderConsistent(v) /\ sender[v].attempt \in Nat
      BY <2>2, AttemptsAssumption DEF OutboxInvariant, OutboxTypeOK, Attempts
    <3>2. \A k \in DOMAIN deliveries : deliveries[k].attempt \in Nat /\ deliveries'[k].attempt \in Nat
      BY AttemptsAssumption DEF OutboxInvariant, OutboxTypeOK, Deliveries, Attempts
    <3>3. sender[v].key # None /\ sender[v].key \in DOMAIN deliveries =>
            sender[v].attempt <= deliveries'[sender[v].key].attempt
      BY <3>1, <3>2 DEF SenderConsistent
    <3> QED
      BY <3>1, <3>3 DEF SenderConsistent, syncVars
  <2> QED
    BY <2>1, <2>2
<1> QED
  BY <1>1, <1>2, <1>3 DEF OutboxInvariant

-----------------------------------------------------------------------------
LEMMA RowStepKeeps ==
  ASSUME OutboxInvariant, SyncInvariant, Next,
         \/ Sync
         \/ \E c \in Clients : StoreState(c)
         \/ \E h \in Hooks : AddHook(h) \/ DeleteHook(h)
         \/ \E k \in Keys : Redrive(k) \/ Expire(k)
  PROVE  OutboxInvariant'
<1> USE AttemptsAssumption
<1>1. /\ SyncTypeOK' /\ hosted.checkpoints \subseteq hosted'.checkpoints
      /\ hooks \in [Hooks -> {"new", "active", "deleted"}]
      /\ DOMAIN deliveries \subseteq Keys
      /\ \A k \in DOMAIN deliveries :
           /\ deliveries[k] \in Deliveries
           /\ deliveries[k].status = "succeeded" => k \in accepted
           /\ deliveries[k].status = "dead" => deliveries[k].attempt = MaxAttempts
           /\ k[2] \in hosted.checkpoints
  BY TypesStay DEF OutboxInvariant, OutboxTypeOK, DeliveriesAreHonest
<1>2. CASE UNCHANGED deliveries /\ UNCHANGED <<sender, accepted>>
           /\ hooks' \in [Hooks -> {"new", "active", "deleted"}]
  BY <1>1, <1>2, RowsChange
<1>3. CASE Sync \/ \E h \in Hooks : AddHook(h)
  BY <1>1, <1>2, <1>3 DEF Sync, AddHook, outbox
<1>4. CASE \E c \in Clients : StoreState(c)
  <2> PICK c \in Clients : StoreState(c)
    BY <1>4
  <2> DEFINE sent == transfer[c].checkpoints
             new == Active \X (sent \ hosted.checkpoints)
  <2>1. transfer[c] \in Pushing /\ hosted'.checkpoints = hosted.checkpoints \cup sent
    BY TransferFields DEF StoreState, PostState, ReadyToPost, Phase, OutboxInvariant, SyncTypeOK,
       HostedStates
  <2>2. new \subseteq Keys /\ \A k \in new : k[2] \in sent \ hosted.checkpoints
    BY <2>1 DEF Keys, Active, Pushing
  <2>3. /\ DOMAIN deliveries' = DOMAIN deliveries \cup new
        /\ \A k \in new : deliveries'[k] = Due
        /\ \A k \in DOMAIN deliveries \ new : deliveries'[k] = deliveries[k]
    BY DEF StoreState, Enqueue
  <2>4. Due \in Deliveries /\ Due.status = "pending"
    BY DEF Due, Deliveries, Statuses, Attempts
  <2>5. \A k \in DOMAIN deliveries : k \notin new
    BY <1>1, <2>2
  <2> HIDE DEF new
  <2>6. \A k \in DOMAIN deliveries' :
          /\ deliveries'[k] \in Deliveries
          /\ deliveries'[k].status = "succeeded" => k \in accepted
          /\ deliveries'[k].status = "dead" => deliveries'[k].attempt = MaxAttempts
          /\ k[2] \in hosted'.checkpoints
          /\ k \in DOMAIN deliveries => deliveries'[k].attempt = deliveries[k].attempt
          /\ k \notin DOMAIN deliveries => k[2] \notin hosted.checkpoints
    BY <1>1, <2>1, <2>2, <2>3, <2>4, <2>5
  <2>7. UNCHANGED <<hooks, sender, accepted>>
    BY DEF StoreState
  <2> QED
    BY <1>1, <2>2, <2>3, <2>6, <2>7, RowsChange
<1>5. CASE \E h \in Hooks : DeleteHook(h)
  <2> PICK h \in Hooks : DeleteHook(h)
    BY <1>5
  <2>1. /\ DOMAIN deliveries' \subseteq DOMAIN deliveries
        /\ \A k \in DOMAIN deliveries' : deliveries'[k] = deliveries[k]
        /\ hooks' \in [Hooks -> {"new", "active", "deleted"}] /\ UNCHANGED <<sender, accepted>>
    BY <1>1 DEF DeleteHook
  <2> QED
    BY <1>1, <2>1, RowsChange
<1>6. CASE \E k \in Keys : Redrive(k) \/ Expire(k)
  <2> PICK k \in Keys : Redrive(k) \/ Expire(k)
    BY <1>6
  <2>1. /\ k \in DOMAIN deliveries /\ DOMAIN deliveries' = DOMAIN deliveries
        /\ deliveries'[k].status \in {"pending", "expired"}
        /\ deliveries'[k].attempt = deliveries[k].attempt /\ deliveries'[k] \in Deliveries
        /\ \A j \in DOMAIN deliveries \ {k} : deliveries'[j] = deliveries[j]
        /\ UNCHANGED <<hooks, sender, accepted>>
    BY <1>1 DEF Redrive, Expire, Deliveries, Statuses
  <2> QED
    BY <1>1, <2>1, RowsChange
<1> QED
  BY <1>3, <1>4, <1>5, <1>6

LEMMA WorkerStepKeeps ==
  ASSUME OutboxInvariant, NEW w \in Senders,
         Call(w) \/ Record(w) \/ Crash(w) \/ \E k \in Keys : Claim(w, k)
  PROVE  OutboxInvariant'
<1> USE AttemptsAssumption
<1>1. /\ sender \in [Senders -> [key : Keys \cup {None}, attempt : Attempts, answer : Answers]]
      /\ sender[w] \in [key : Keys \cup {None}, attempt : Attempts, answer : Answers]
      /\ SenderConsistent(w) /\ DOMAIN deliveries \subseteq Keys /\ accepted \subseteq Keys
      /\ \A k \in DOMAIN deliveries :
           /\ deliveries[k] \in Deliveries /\ deliveries[k].attempt \in 0..MaxAttempts
           /\ deliveries[k].status = "succeeded" => k \in accepted
           /\ deliveries[k].status = "dead" => deliveries[k].attempt = MaxAttempts
           /\ k[2] \in hosted.checkpoints
  BY DEF OutboxInvariant, OutboxTypeOK, DeliveriesAreHonest, Deliveries, Attempts
<1>2. /\ Waiting \in [key : Keys \cup {None}, attempt : Attempts, answer : Answers]
      /\ Waiting.key = None /\ Waiting.answer = "none"
  BY DEF Waiting, Attempts, Answers
<1>7. ASSUME UNCHANGED deliveries, accepted \subseteq accepted'
      PROVE  /\ DOMAIN deliveries' = DOMAIN deliveries
             /\ \A k \in DOMAIN deliveries :
                  /\ deliveries'[k] \in Deliveries
                  /\ deliveries'[k].status = "succeeded" => k \in accepted'
                  /\ deliveries'[k].status = "dead" => deliveries'[k].attempt = MaxAttempts
                  /\ deliveries[k].attempt <= deliveries'[k].attempt
  BY <1>1, <1>7
<1>3. CASE Call(w)
  <2>1. PICK taken \in BOOLEAN, answer \in {"accepted", "refused"} :
          /\ answer = "accepted" => taken
          /\ accepted' = IF taken THEN accepted \cup {sender[w].key} ELSE accepted
          /\ sender' = [sender EXCEPT ![w].answer = answer]
    BY <1>3 DEF Call
  <2> DEFINE q == [sender[w] EXCEPT !.answer = answer]
  <2>2. /\ q \in [key : Keys \cup {None}, attempt : Attempts, answer : Answers]
        /\ sender' = [sender EXCEPT ![w] = q] /\ sender[w].key \in Keys /\ sender[w].key # None
        /\ UNCHANGED <<syncVars, hooks, deliveries>>
    BY <1>1, <1>3, <2>1 DEF Call, Answers
  <2>3. SenderConsistent(w)'
    BY <1>1, <2>1, <2>2 DEF SenderConsistent, syncVars
  <2>4. accepted \subseteq accepted' /\ accepted' \subseteq Keys
    BY <1>1, <2>1, <2>2
  <2> HIDE DEF q
  <2> QED
    BY <1>1, <1>7, <2>2, <2>3, <2>4, WorkerChanges
<1>4. CASE Record(w)
  <2> DEFINE k == sender[w].key
  <2>1. /\ sender[w].answer # "none" /\ k # None /\ k \in Keys
        /\ sender' = [sender EXCEPT ![w] = Waiting] /\ UNCHANGED <<syncVars, hooks, accepted>>
        /\ DOMAIN deliveries' = DOMAIN deliveries
        /\ \A j \in DOMAIN deliveries : j # k => deliveries'[j] = deliveries[j]
        /\ k \in DOMAIN deliveries => deliveries'[k] = [deliveries[k] EXCEPT !.status = Outcome(w)]
    BY <1>1, <1>4 DEF Record, SenderConsistent
  <2>2. SenderConsistent(w)'
    BY <1>1, <1>2, <2>1 DEF SenderConsistent
  <2>3. ASSUME k \in DOMAIN deliveries
        PROVE  /\ deliveries'[k] \in Deliveries /\ deliveries'[k].attempt = deliveries[k].attempt
               /\ deliveries'[k].status = "succeeded" => k \in accepted
               /\ deliveries'[k].status = "dead" => deliveries'[k].attempt = MaxAttempts
    <3>1. /\ Outcome(w) \in Statuses
          /\ Outcome(w) = "succeeded" => k \in accepted
          /\ Outcome(w) = "dead" => sender[w].attempt >= MaxAttempts
      BY <1>1, <2>1 DEF Outcome, Statuses, SenderConsistent
    <3>2. /\ deliveries[k].attempt \in 0..MaxAttempts /\ sender[w].attempt \in 0..MaxAttempts
          /\ sender[w].attempt <= deliveries[k].attempt
      BY <1>1, <2>1, <2>3 DEF SenderConsistent, Attempts
    <3>3. Outcome(w) = "dead" => deliveries[k].attempt = MaxAttempts
      BY <3>1, <3>2
    <3>4. /\ deliveries'[k].status = Outcome(w) /\ deliveries'[k].attempt = deliveries[k].attempt
          /\ deliveries'[k] \in Deliveries
      BY <1>1, <2>1, <2>3, <3>1 DEF Deliveries
    <3> QED
      BY <3>1, <3>3, <3>4
  <2>4. \A j \in DOMAIN deliveries :
          /\ deliveries'[j] \in Deliveries
          /\ deliveries'[j].status = "succeeded" => j \in accepted'
          /\ deliveries'[j].status = "dead" => deliveries'[j].attempt = MaxAttempts
          /\ deliveries[j].attempt <= deliveries'[j].attempt
    BY <1>1, <2>1, <2>3
  <2> QED
    BY <1>1, <1>2, <2>1, <2>2, <2>4, WorkerChanges
<1>5. CASE Crash(w)
  <2>1. sender' = [sender EXCEPT ![w] = Waiting] /\ UNCHANGED <<syncVars, hooks, deliveries, accepted>>
    BY <1>5 DEF Crash
  <2>2. SenderConsistent(w)'
    BY <1>1, <1>2, <2>1 DEF SenderConsistent
  <2> QED
    BY <1>1, <1>2, <1>7, <2>1, <2>2, WorkerChanges
<1>6. CASE \E k \in Keys : Claim(w, k)
  <2> PICK k \in Keys : Claim(w, k)
    BY <1>6
  <2> DEFINE attempt == NextAttempt(deliveries[k].attempt)
             q == [key |-> k, attempt |-> attempt, answer |-> "none"]
  <2>1. /\ k \in DOMAIN deliveries /\ DOMAIN deliveries' = DOMAIN deliveries
        /\ deliveries'[k] = [status |-> "leased", attempt |-> attempt]
        /\ \A j \in DOMAIN deliveries : j # k => deliveries'[j] = deliveries[j]
        /\ sender' = [sender EXCEPT ![w] = q] /\ UNCHANGED <<syncVars, hooks, accepted>>
    BY DEF Claim, Claimable
  <2>2. attempt \in Attempts /\ deliveries[k].attempt <= attempt
    BY <1>1, <2>1 DEF NextAttempt, Attempts
  <2> HIDE DEF attempt
  <2>3. /\ q \in [key : Keys \cup {None}, attempt : Attempts, answer : Answers]
        /\ [status |-> "leased", attempt |-> attempt] \in Deliveries
    BY <2>2 DEF Answers, Deliveries, Statuses
  <2>4. SenderConsistent(w)'
    BY <1>1, <2>1, <2>2 DEF SenderConsistent, syncVars, Attempts
  <2>5. \A j \in DOMAIN deliveries :
          /\ deliveries'[j] \in Deliveries
          /\ deliveries'[j].status = "succeeded" => j \in accepted'
          /\ deliveries'[j].status = "dead" => deliveries'[j].attempt = MaxAttempts
          /\ deliveries[j].attempt <= deliveries'[j].attempt
    BY <1>1, <2>1, <2>2, <2>3
  <2> QED
    BY <1>1, <2>1, <2>3, <2>4, <2>5, WorkerChanges
<1> QED
  BY <1>3, <1>4, <1>5, <1>6

LEMMA OutboxStepKeeps == OutboxInvariant /\ SyncInvariant /\ [Next]_vars => OutboxInvariant'
<1> SUFFICES ASSUME OutboxInvariant, SyncInvariant, [Next]_vars PROVE OutboxInvariant'
  OBVIOUS
<1>1. CASE UNCHANGED vars
  BY <1>1 DEF vars, outbox, syncVars, OutboxInvariant, SyncTypeOK, OutboxTypeOK, DeliveriesAreHonest,
     SenderConsistent
<1>2. CASE Next
  BY <1>2, RowStepKeeps, WorkerStepKeeps DEF Next
<1> QED
  BY <1>1, <1>2

-----------------------------------------------------------------------------
\* The invariant of the outbox holds in every state of every behaviour.
THEOREM OutboxInvariantHolds == Spec => []OutboxInvariant
<1>1. Init => OutboxInvariant
  BY OutboxInitEstablishes
<1>2. Spec => []SyncInvariant
  BY OutboxImplementsSync, SyncInvariantHolds, PTL
<1>3. OutboxInvariant /\ SyncInvariant /\ [Next]_vars => OutboxInvariant'
  BY OutboxStepKeeps
<1> QED
  BY <1>1, <1>2, <1>3, PTL DEF Spec

\* No delivery is recorded as succeeded that its receiver has not accepted, none is
\* given up before its last attempt, and only stored checkpoints are announced
\* (webhook-worker.ts), however leases run out and workers die.
THEOREM DeliveriesStayHonest == Spec => []DeliveriesAreHonest
BY OutboxInvariantHolds, PTL DEF OutboxInvariant
=============================================================================
