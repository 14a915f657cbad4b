----------------------------- MODULE HostedSync -----------------------------
(* Clones of a Sessions-native repository that push to the hosted one and pull *)
(* from it (packages/native-repository/src/transport.ts), and the requests the *)
(* API serves them (apps/api/src/repositories.ts).  A push plans, uploads the   *)
(* missing objects one by one and then posts its state; a pull reads the parts  *)
(* of the hosted state with queries of their own.  Other clones, and the        *)
(* billing of the workspace, go on between any two requests.                   *)
EXTENDS Naturals, FiniteSets

CONSTANTS Clients,     \* the clones
          Checkpoints, \* the checkpoints that may be created
          Objects,     \* the source objects, each of size 1
          ObjectsOf,   \* the objects the manifest of a checkpoint lists
          None,        \* no checkpoint
          Limits       \* the storage limits a plan may set

ASSUME ObjectsAssumption == ObjectsOf \in [Checkpoints -> SUBSET Objects]
ASSUME NoneAssumption == None \notin Checkpoints
ASSUME LimitsAssumption == Limits \subseteq Nat

VARIABLES parent,   \* the parent of every checkpoint that has been created
          clone,    \* .sessions of each clone
          transfer, \* the push or pull a clone is busy with
          hosted,   \* the hosted repository
          account   \* whether the workspace may write, and its storage limit

syncVars == <<parent, clone, transfer, hosted, account>>

Head == Checkpoints \cup {None}
Clones == [checkpoints : SUBSET Checkpoints, blobs : SUBSET Objects, head : Head, intact : BOOLEAN]
HostedStates == [exists : BOOLEAN, checkpoints : SUBSET Checkpoints, objects : SUBSET Objects, head : Head]

Resting == [phase |-> "resting"]
Pushing == [phase : {"register", "plan", "upload"}, checkpoints : SUBSET Checkpoints,
            objects : SUBSET Objects, head : Head, missing : SUBSET Objects]
\* The queries of repositoryState answer one by one.
Parts == {"refs", "checkpoints", "objects"}
Pulling == [phase : {"pull"}, unread : SUBSET Parts, checkpoints : SUBSET Checkpoints,
            objects : SUBSET Objects, head : Head]

SyncTypeOK ==
  /\ DOMAIN parent \subseteq Checkpoints /\ \A k \in DOMAIN parent : parent[k] \in Head
  /\ clone \in [Clients -> Clones]
  /\ transfer \in [Clients -> {Resting} \cup Pushing \cup Pulling]
  /\ hosted \in HostedStates
  /\ account \in [writable : BOOLEAN, limit : Limits]

EmptyClone == [checkpoints |-> {}, blobs |-> {}, head |-> None, intact |-> TRUE]
Gone == [EmptyClone EXCEPT !.intact = FALSE]
SyncInit ==
  /\ parent = [k \in {} |-> None]
  /\ clone = [c \in Clients |-> EmptyClone]
  /\ transfer = [c \in Clients |-> Resting]
  /\ hosted = [exists |-> FALSE, checkpoints |-> {}, objects |-> {}, head |-> None]
  /\ account \in [writable : {TRUE}, limit : Limits]

-----------------------------------------------------------------------------
(* A clone                                                                   *)

Created == DOMAIN parent
ObjectsIn(checkpoints) == UNION {ObjectsOf[k] : k \in checkpoints}

\* The head resolves: createCheckpoint reads the manifest of its parent.
Resolves(c) == clone[c].head # None => clone[c].head \in clone[c].checkpoints

LocalCommit(c, k) ==
  /\ transfer[c] = Resting /\ clone[c].intact /\ Resolves(c) /\ k \in Checkpoints \ Created
  /\ parent' = [j \in Created \cup {k} |-> IF j = k THEN clone[c].head ELSE parent[j]]
  /\ clone' = [clone EXCEPT ![c].checkpoints = @ \cup {k}, ![c].blobs = @ \cup ObjectsOf[k],
                            ![c].head = k]
  /\ UNCHANGED <<transfer, hosted, account>>

-----------------------------------------------------------------------------
(* pushRemote                                                                *)

\* createNativeBundle reads the blob of every manifest, and fails without it.
StartPush(c) ==
  LET own == clone[c] IN
  /\ transfer[c] = Resting /\ own.intact /\ ObjectsIn(own.checkpoints) \subseteq own.blobs
  /\ transfer' = [transfer EXCEPT ![c] =
       [phase |-> "register", checkpoints |-> own.checkpoints,
        objects |-> ObjectsIn(own.checkpoints), head |-> own.head, missing |-> {}]]
  /\ UNCHANGED <<parent, clone, hosted, account>>

Phase(c, phase) == transfer[c].phase = phase
Rest(c) == transfer' = [transfer EXCEPT ![c] = Resting]

\* POST /api/repositories: createOrUpdateRepository
Register(c) ==
  /\ Phase(c, "register") /\ account.writable
  /\ hosted' = [hosted EXCEPT !.exists = TRUE]
  /\ transfer' = [transfer EXCEPT ![c].phase = "plan"]
  /\ UNCHANGED <<parent, clone, account>>

Fits(objects) == Cardinality(hosted.objects \cup objects) <= account.limit

\* POST .../objects/plan: what is missing now, if there is room for it now
Plan(c) ==
  LET missing == transfer[c].objects \ hosted.objects IN
  /\ Phase(c, "plan") /\ account.writable
  /\ Fits(missing)
  /\ transfer' = [transfer EXCEPT ![c].phase = "upload", ![c].missing = missing]
  /\ UNCHANGED <<parent, clone, hosted, account>>

\* Mutant: an object that was planned is stored without another look at the limit.
UploadAsPlanned(c, o) ==
  /\ Phase(c, "upload") /\ account.writable /\ o \in transfer[c].missing
  /\ hosted' = [hosted EXCEPT !.objects = @ \cup {o}]
  /\ transfer' = [transfer EXCEPT ![c].missing = @ \ {o}]
  /\ UNCHANGED <<parent, clone, account>>

\* storeObject: the row of the limits is locked, so uploads are counted one by one;
\* an object that is stored already needs no room.
Upload(c, o) ==
  /\ Phase(c, "upload") /\ account.writable /\ o \in transfer[c].missing
  /\ o \notin hosted.objects => Fits({o})
  /\ hosted' = [hosted EXCEPT !.objects = @ \cup {o}]
  /\ transfer' = [transfer EXCEPT ![c].missing = @ \ {o}]
  /\ UNCHANGED <<parent, clone, account>>

\* Mutant: the objects that are missing may follow the state.
ReadyToPostEarly(c) == Phase(c, "upload")

\* The state follows the last object...
ReadyToPost(c) == Phase(c, "upload") /\ transfer[c].missing = {}

\* ... and replaces the branches in one transaction; the head has to be stored by
\* then (enqueuePushAction), and checkpoints are only added.
PostState(c) ==
  LET q == transfer[c] IN
  /\ ReadyToPost(c) /\ account.writable
  /\ q.head # None => q.head \in hosted.checkpoints \cup q.checkpoints
  /\ hosted' = [hosted EXCEPT !.checkpoints = @ \cup q.checkpoints, !.head = q.head]
  /\ Rest(c)
  /\ UNCHANGED <<parent, clone, account>>

\* A push ends with the first request that is refused or lost, a pull with the
\* first query that is; two transactions that replace the branches at once collide,
\* and the second is refused.
GiveUp(c) ==
  /\ transfer[c] # Resting
  /\ Rest(c)
  /\ UNCHANGED <<parent, clone, hosted, account>>

-----------------------------------------------------------------------------
(* pullRemote and cloneRepository                                            *)

\* A pull needs a clone whose head resolves (and a clean work tree); a directory
\* that holds none can be cloned into, by the same steps.
StartPull(c) ==
  /\ transfer[c] = Resting /\ hosted.exists
  /\ transfer' = [transfer EXCEPT ![c] =
       [phase |-> "pull", unread |-> Parts, checkpoints |-> {}, objects |-> {}, head |-> None]]
  /\ UNCHANGED <<parent, clone, hosted, account>>

Read(c, part) ==
  /\ Phase(c, "pull") /\ part \in transfer[c].unread
  /\ transfer' = [transfer EXCEPT
       ![c].unread = @ \ {part},
       ![c].head = IF part = "refs" THEN hosted.head ELSE @,
       ![c].checkpoints = IF part = "checkpoints" THEN hosted.checkpoints ELSE @,
       ![c].objects = IF part = "objects" THEN hosted.objects ELSE @]
  /\ UNCHANGED <<parent, clone, hosted, account>>

\* applyNativeBundle removes .sessions and writes what was read; the work tree
\* follows when the head resolves, and the new .sessions stays when it does not.
Apply(c) ==
  LET q == transfer[c] IN
  /\ Phase(c, "pull") /\ q.unread = {}
  /\ clone' = [clone EXCEPT ![c] =
       [checkpoints |-> q.checkpoints, blobs |-> q.objects, head |-> q.head, intact |-> TRUE]]
  /\ Rest(c)
  /\ UNCHANGED <<parent, hosted, account>>

\* The command is stopped after .sessions has gone.
StopInApply(c) ==
  /\ Phase(c, "pull") /\ transfer[c].unread = {}
  /\ clone' = [clone EXCEPT ![c] = Gone]
  /\ Rest(c)
  /\ UNCHANGED <<parent, hosted, account>>

\* Billing: the entitlement and the limits of the plan change.
ChangeAccount ==
  /\ account' \in [writable : BOOLEAN, limit : Limits]
  /\ UNCHANGED <<parent, clone, transfer, hosted>>

-----------------------------------------------------------------------------

Transfer(c) ==
  \/ \E k \in Checkpoints : LocalCommit(c, k)
  \/ StartPush(c) \/ Register(c) \/ Plan(c)
  \/ \E o \in Objects : Upload(c, o)
  \/ GiveUp(c)
  \/ StartPull(c) \/ Apply(c) \/ StopInApply(c)
  \/ \E part \in Parts : Read(c, part)

SyncNext == ChangeAccount \/ \E c \in Clients : Transfer(c) \/ PostState(c)

SyncSpec == SyncInit /\ [][SyncNext]_syncVars

-----------------------------------------------------------------------------

\* Whatever clones push at once, give up half-way, or push after a torn or an
\* interrupted pull: the hosted repository is complete.  Its head is stored, every
\* checkpoint has its parent, and every object of every checkpoint is stored.
HostedStateComplete ==
  /\ hosted.head # None => hosted.head \in hosted.checkpoints
  /\ \A k \in hosted.checkpoints :
       /\ k \in Created /\ (parent[k] # None => parent[k] \in hosted.checkpoints)
       /\ ObjectsOf[k] \subseteq hosted.objects

\* Storage grows only within the limit of the moment, whatever was planned before.
StorageGrowsWithinLimit ==
  [][hosted'.objects # hosted.objects => Cardinality(hosted'.objects) <= account.limit]_syncVars
=============================================================================
