------------------------------ MODULE Webhooks ------------------------------
(* The webhook outbox and its delivery workers (apps/api/src/webhook-worker.ts, *)
(* webhooks.ts; infrastructure/postgres/019 and 021).  The transaction that     *)
(* stores a checkpoint writes a delivery for every webhook of the repository.   *)
(* Workers lease a delivery, call the receiver, and record the answer; a lease  *)
(* runs out while its worker may still be calling, or has died.                 *)
EXTENDS HostedSync

CONSTANTS Hooks,       \* the webhooks that may be added
          Senders,     \* the worker processes
          MaxAttempts  \* SESSIONS_WEBHOOK_MAX_ATTEMPTS

ASSUME AttemptsAssumption == MaxAttempts \in Nat \ {0}

VARIABLES hooks,      \* which webhooks of the repository are active
          deliveries, \* webhook_deliveries, by webhook and event
          sender,     \* the delivery a worker has claimed, and at which attempt
          accepted    \* the deliveries their receiver has accepted

outbox == <<hooks, deliveries, sender, accepted>>
vars == <<syncVars, outbox>>

Keys == Hooks \X Checkpoints
Statuses == {"pending", "leased", "expired", "succeeded", "failed", "dead"}
\* Attempts are counted up to the one that is the last.
Attempts == 0..MaxAttempts
Deliveries == [status : Statuses, attempt : Attempts]
Waiting == [key |-> None, attempt |-> 0, answer |-> "none"]
Answers == {"none", "accepted", "refused"}

OutboxTypeOK ==
  /\ hooks \in [Hooks -> {"new", "active", "deleted"}]
  /\ DOMAIN deliveries \subseteq Keys /\ \A k \in DOMAIN deliveries : deliveries[k] \in Deliveries
  /\ sender \in [Senders -> [key : Keys \cup {None}, attempt : Attempts, answer : Answers]]
  /\ accepted \subseteq Keys

Init ==
  /\ SyncInit
  /\ hooks = [h \in Hooks |-> "new"]
  /\ deliveries = [k \in {} |-> Waiting] /\ accepted = {}
  /\ sender = [w \in Senders |-> Waiting]

-----------------------------------------------------------------------------
(* The outbox                                                                *)

Active == {h \in Hooks : hooks[h] = "active"}
Due == [status |-> "pending", attempt |-> 0]

\* sessions_enqueue_native_checkpoint_webhook, for the checkpoints that are new
Enqueue(checkpoints) ==
  LET new == Active \X (checkpoints \ hosted.checkpoints) IN
  deliveries' = [k \in DOMAIN deliveries \cup new |-> IF k \in new THEN Due ELSE deliveries[k]]

StoreState(c) ==
  /\ PostState(c) /\ Enqueue(transfer[c].checkpoints)
  /\ UNCHANGED <<hooks, sender, accepted>>

AddHook(h) ==
  /\ hooks[h] = "new"
  /\ hooks' = [hooks EXCEPT ![h] = "active"]
  /\ UNCHANGED <<syncVars, deliveries, sender, accepted>>

\* The deliveries of a webhook go with it.
DeleteHook(h) ==
  /\ hooks[h] = "active"
  /\ hooks' = [hooks EXCEPT ![h] = "deleted"]
  /\ deliveries' = [k \in {j \in DOMAIN deliveries : j[1] # h} |-> deliveries[k]]
  /\ UNCHANGED <<syncVars, sender, accepted>>

\* A redriven delivery keeps the number of its attempts.
Redrive(k) ==
  /\ k \in DOMAIN deliveries /\ deliveries[k].status \in {"failed", "dead"}
  /\ deliveries' = [deliveries EXCEPT ![k].status = "pending"]
  /\ UNCHANGED <<syncVars, hooks, sender, accepted>>

-----------------------------------------------------------------------------
(* The worker                                                                *)

NextAttempt(attempt) == IF attempt < MaxAttempts THEN attempt + 1 ELSE attempt

\* Mutant: a lease that has run out is not taken over.
ClaimableUnlessLeased == {k \in DOMAIN deliveries : deliveries[k].status \in {"pending", "failed"}}

\* Deliveries that are due, and those whose lease has run out
Claimable == {k \in DOMAIN deliveries : deliveries[k].status \in {"pending", "failed", "expired"}}

Claim(w, k) ==
  /\ sender[w] = Waiting /\ k \in Claimable
  /\ LET attempt == NextAttempt(deliveries[k].attempt) IN
     /\ deliveries' = [deliveries EXCEPT ![k] = [status |-> "leased", attempt |-> attempt]]
     /\ sender' = [sender EXCEPT ![w] = [key |-> k, attempt |-> attempt, answer |-> "none"]]
  /\ UNCHANGED <<syncVars, hooks, accepted>>

\* The lease of 60 seconds runs out, whether or not its worker is still calling.
Expire(k) ==
  /\ k \in DOMAIN deliveries /\ deliveries[k].status = "leased"
  /\ deliveries' = [deliveries EXCEPT ![k].status = "expired"]
  /\ UNCHANGED <<syncVars, hooks, sender, accepted>>

\* The receiver accepts or refuses; an acceptance may not be heard in time.
Call(w) ==
  /\ sender[w].key # None /\ sender[w].answer = "none"
  /\ \E taken \in BOOLEAN, answer \in {"accepted", "refused"} :
       /\ answer = "accepted" => taken
       /\ accepted' = IF taken THEN accepted \cup {sender[w].key} ELSE accepted
       /\ sender' = [sender EXCEPT ![w].answer = answer]
  /\ UNCHANGED <<syncVars, hooks, deliveries>>

\* Mutant: a delivery is marked with the call, whatever the answer.
OutcomeOfCall(w) == IF sender[w].attempt >= MaxAttempts THEN "dead" ELSE "succeeded"

\* deliver() marks the row, and fail() leaves it for another attempt or for good.
Outcome(w) ==
  IF sender[w].answer = "accepted" THEN "succeeded"
  ELSE IF sender[w].attempt >= MaxAttempts THEN "dead" ELSE "failed"

\* The row is found by its id alone: a worker whose lease has run out still writes,
\* over whatever another worker has written; nothing is written when it is gone.
Record(w) ==
  LET k == sender[w].key IN
  /\ sender[w].answer # "none"
  /\ deliveries' = [j \in DOMAIN deliveries |->
       IF j = k THEN [deliveries[j] EXCEPT !.status = Outcome(w)] ELSE deliveries[j]]
  /\ sender' = [sender EXCEPT ![w] = Waiting]
  /\ UNCHANGED <<syncVars, hooks, accepted>>

\* The process dies, or its database does, and is started again.
Crash(w) ==
  /\ sender[w] # Waiting
  /\ sender' = [sender EXCEPT ![w] = Waiting]
  /\ UNCHANGED <<syncVars, hooks, deliveries, accepted>>

-----------------------------------------------------------------------------

Sync == (ChangeAccount \/ \E c \in Clients : Transfer(c)) /\ UNCHANGED outbox

Next ==
  \/ Sync
  \/ \E c \in Clients : StoreState(c)
  \/ \E h \in Hooks : AddHook(h) \/ DeleteHook(h)
  \/ \E k \in Keys : Redrive(k) \/ Expire(k)
  \/ \E w \in Senders : Call(w) \/ Record(w) \/ Crash(w) \/ \E k \in Keys : Claim(w, k)

Spec == Init /\ [][Next]_vars

\* Workers poll and are restarted; rows are claimed in the order in which they fall
\* due, and a row that has failed falls due later, so none is passed over for ever.
\* A row whose every attempt kills its worker is left out.
Fairness ==
  \A k \in Keys :
    /\ WF_vars(Expire(k))
    /\ SF_vars(\E w \in Senders : Claim(w, k))
    /\ SF_vars(\E w \in Senders : sender[w].key = k /\ Call(w))
    /\ SF_vars(\E w \in Senders : sender[w].key = k /\ Record(w))

FairSpec == Spec /\ Fairness

-----------------------------------------------------------------------------

\* Every delivery of the outbox reaches an end, however leases run out and workers
\* die: it has succeeded, it is dead, or its webhook was deleted.
DeliveriesSettle ==
  \A k \in Keys :
    k \in DOMAIN deliveries ~>
      (k \notin DOMAIN deliveries \/ deliveries[k].status \in {"succeeded", "dead"})

\* A delivery that has succeeded was accepted by
\* its receiver, one that is dead has used up its attempts, and only checkpoints
\* that are stored are announced.
DeliveriesAreHonest ==
  \A k \in DOMAIN deliveries :
    /\ deliveries[k].status = "succeeded" => k \in accepted
    /\ deliveries[k].status = "dead" => deliveries[k].attempt = MaxAttempts
    /\ k[2] \in hosted.checkpoints
=============================================================================
