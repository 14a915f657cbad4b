------------------------------ MODULE Billing ------------------------------
(* Billing of one workspace (apps/api/src/billing-server.ts, stripe.ts): the  *)
(* Stripe events that reconcile the billing account, the subscription rows    *)
(* and the entitlement, the customer's checkout and cancellation, and the     *)
(* account export.  Stripe keeps its own subscriptions and delivers an event   *)
(* at least once, in any order and after any delay; each row accepts an event  *)
(* no older than the last one it took.                                        *)
EXTENDS Naturals, Sequences, FiniteSets

CONSTANTS Subs,      \* subscriptions a checkout of this workspace can make
          PlanOf,    \* the plan a subscription was bought for
          Free,      \* the plan of an account that has bought none
          NoSub,     \* no subscription
          MaxTime,   \* bound on Stripe's clock, in seconds
          MaxEvents  \* bound on the events of a behaviour

ASSUME PlanAssumption == \A s \in Subs : PlanOf[s] # Free
ASSUME NoSubAssumption == NoSub \notin Subs
ASSUME TimeAssumption == MaxTime \in Nat /\ MaxEvents \in Nat

VARIABLES now,          \* Stripe's clock
          remote,       \* Stripe's subscriptions
          events,       \* the events Stripe has emitted, in order
          handled,      \* stripe_events: "new", "applied", or "ignored" by no workspace
          account,      \* billing_accounts
          rows,         \* subscriptions; time 0 before the first event
          latest,       \* the subscription whose row has the newest updated_at
          entitlement,  \* workspace_entitlements
          request,      \* POST /api/account/cancel in progress
          cancellations,\* cancellation_records
          export        \* data_export_requests of the last export

stripe == <<now, remote, events>>
ledger == <<account, rows, latest, entitlement>>
customer == <<request, cancellations, export>>
vars == <<stripe, handled, ledger, customer>>

Plans == {PlanOf[s] : s \in Subs} \cup {Free}
Statuses == {"active", "past_due", "paused", "canceled"}
Verdicts == {"active", "payment_failed", "canceled", "suspended"}
Kinds == {"checkout", "created", "updated", "deleted", "paid", "failed"}
Events == [kind : Kinds, sub : Subs, status : Statuses \cup {"paid", "open"},
           cancel : BOOLEAN, time : Nat]

TypeOK ==
  /\ now \in Nat
  /\ remote \in [Subs -> [status : Statuses \cup {"none"}, cancel : BOOLEAN]]
  /\ events \in Seq(Events)
  /\ handled \in [1..MaxEvents -> {"new", "applied", "ignored"}]
  /\ account \in [plan : Plans, payment : {"ok", "failed"}, customer : BOOLEAN, time : Nat,
                  status : Statuses \cup {"paid"}]
  /\ rows \in [Subs -> [status : Statuses, plan : Plans, cancel : BOOLEAN, time : Nat]]
  /\ latest \in Subs \cup {NoSub}
  /\ entitlement \in [status : Verdicts, plan : Plans, time : Nat]
  /\ request \in [phase : {"idle", "chosen", "asked", "recorded"}, sub : Subs]
  /\ cancellations \subseteq Subs
  /\ export \in {"none", "processing", "ready", "failed"}

Init ==
  /\ now = 1
  /\ remote = [s \in Subs |-> [status |-> "none", cancel |-> FALSE]]
  /\ events = <<>>
  /\ handled = [i \in 1..MaxEvents |-> "new"]
  /\ account = [plan |-> Free, payment |-> "ok", customer |-> FALSE, time |-> 0,
                status |-> "active"]
  /\ rows = [s \in Subs |-> [status |-> "active", plan |-> Free, cancel |-> FALSE, time |-> 0]]
  /\ latest = NoSub
  /\ entitlement = [status |-> "active", plan |-> Free, time |-> 0]
  /\ request \in [phase : {"idle"}, sub : Subs]
  /\ cancellations = {}
  /\ export = "none"

-----------------------------------------------------------------------------
(* Stripe (external): a subscription changes, and an event says so           *)

Event(kind, s, status, cancel) ==
  [kind |-> kind, sub |-> s, status |-> status, cancel |-> cancel, time |-> now]

Emit(new) ==
  /\ Len(events) + Len(new) <= MaxEvents
  /\ events' = events \o new

Tick == now < MaxTime /\ now' = now + 1 /\ UNCHANGED <<remote, events, handled, ledger, customer>>

\* The customer pays a checkout: checkoutParams gave the session and the
\* subscription the workspace and the plan as metadata.
CompleteCheckout(s) ==
  /\ remote[s].status = "none"
  /\ remote' = [remote EXCEPT ![s].status = "active"]
  /\ Emit(<<Event("checkout", s, "paid", FALSE), Event("created", s, "active", FALSE)>>)
  /\ UNCHANGED <<now, handled, ledger, customer>>

\* Dunning, a pause, a recovery, or a customer who takes a cancellation back
SubscriptionChanges(s, status, cancel) ==
  /\ remote[s].status \notin {"none", "canceled"}
  /\ status # "canceled" /\ (cancel => remote[s].cancel)
  /\ remote' = [remote EXCEPT ![s] = [status |-> status, cancel |-> cancel]]
  /\ Emit(<<Event("updated", s, status, cancel)>>)
  /\ UNCHANGED <<now, handled, ledger, customer>>

SubscriptionEnds(s) ==
  /\ remote[s].status \notin {"none", "canceled"}
  /\ remote' = [remote EXCEPT ![s].status = "canceled"]
  /\ Emit(<<Event("deleted", s, "canceled", remote[s].cancel)>>)
  /\ UNCHANGED <<now, handled, ledger, customer>>

\* An invoice is paid or fails; the last one of a subscription may stay open
\* and be paid after its end.
InvoiceCloses(s, kind) ==
  /\ remote[s].status # "none"
  /\ Emit(<<Event(kind, s, IF kind = "paid" THEN "paid" ELSE "open", FALSE)>>)
  /\ UNCHANGED <<now, remote, handled, ledger, customer>>

Stripe ==
  \/ Tick
  \/ \E s \in Subs : \/ CompleteCheckout(s) \/ SubscriptionEnds(s)
                     \/ \E st \in Statuses, c \in BOOLEAN : SubscriptionChanges(s, st, c)
                     \/ \E kind \in {"paid", "failed"} : InvoiceCloses(s, kind)

-----------------------------------------------------------------------------
(* The webhook                                                               *)

Invoice(e) == e.kind \in {"paid", "failed"}
HasRow(s) == rows[s].time > 0

\* resolveWorkspace: the metadata, else the row of the subscription, else the
\* account of the customer.  An invoice has metadata of its own, and it is empty.
Resolved(e) == ~Invoice(e) \/ HasRow(e.sub) \/ account.customer
PlanFor(e) == IF ~Invoice(e) THEN PlanOf[e.sub]
              ELSE IF HasRow(e.sub) THEN rows[e.sub].plan ELSE account.plan

\* What an event says of the entitlement; a completed checkout says nothing.
Verdict(e) ==
  CASE e.kind = "failed" -> "payment_failed"
    [] e.kind = "deleted" -> "canceled"
    [] e.status \in {"active", "paid"} -> "active"
    [] e.status = "past_due" -> "payment_failed"
    [] OTHER -> "suspended"

\* Mutant: a row takes whatever arrives.
TakesAny(row, e) == TRUE

\* A row takes an event that is not older than the last it took.
Takes(row, e) == row.time <= e.time

NewRow(e, plan) == [status |-> e.status, plan |-> plan, cancel |-> e.cancel, time |-> e.time]

\* Mutant: an invoice is written to the row of its subscription.
UpsertAnything(e, plan) ==
  IF ~Takes(rows[e.sub], e) THEN UNCHANGED <<rows, latest>>
  ELSE /\ rows' = [rows EXCEPT ![e.sub] = NewRow(e, plan)]
       /\ latest' = e.sub

\* upsertSubscription
UpsertSubscription(e, plan) ==
  IF Invoice(e) \/ ~Takes(rows[e.sub], e) THEN UNCHANGED <<rows, latest>>
  ELSE /\ rows' = [rows EXCEPT ![e.sub] = NewRow(e, plan)]
       /\ latest' = e.sub

\* updateBillingState: values an event does not carry stay as they are
UpdateBillingState(e, plan) ==
  account' =
    IF ~Takes(account, e) THEN account
    ELSE [account EXCEPT
           !.time = e.time, !.customer = TRUE,
           !.plan = IF e.kind \in {"failed", "deleted"} THEN @ ELSE plan,
           !.status = CASE e.kind = "checkout" -> @
                        [] e.kind = "failed" -> "past_due"
                        [] OTHER -> e.status,
           !.payment = IF e.kind \in {"checkout", "deleted"} THEN @
                       ELSE IF Verdict(e) = "active" THEN "ok" ELSE "failed"]

\* setEntitlement
SetEntitlement(e, plan) ==
  entitlement' = IF Takes(entitlement, e)
                   THEN [status |-> Verdict(e), plan |-> plan, time |-> e.time]
                   ELSE entitlement

\* Mutant: a completed checkout grants the plan.
ReconcileGrantingCheckout(e, plan) ==
  /\ UpdateBillingState(e, plan)
  /\ SetEntitlement(e, plan)
  /\ IF e.kind = "checkout" THEN UNCHANGED <<rows, latest>> ELSE UpsertSubscription(e, plan)

\* reconcileStripeEvent
Reconcile(e, plan) ==
  /\ UpdateBillingState(e, plan)
  /\ IF e.kind = "checkout" THEN UNCHANGED <<rows, latest, entitlement>>
     ELSE UpsertSubscription(e, plan) /\ SetEntitlement(e, plan)

\* Mutant: an event older than the account's last is answered with an error.
DeliverInOrder(i) ==
  LET e == events[i] IN
  /\ i \in DOMAIN events /\ handled[i] = "new" /\ Takes(account, e)
  /\ IF Resolved(e)
       THEN /\ PlanFor(e) # Free
            /\ handled' = [handled EXCEPT ![i] = "applied"]
            /\ Reconcile(e, PlanFor(e))
       ELSE /\ handled' = [handled EXCEPT ![i] = "ignored"]
            /\ UNCHANGED ledger
  /\ UNCHANGED <<stripe, customer>>

\* handleStripeEvent, one transaction: an event that was handled before is a
\* duplicate and changes nothing; one without a plan fails, and Stripe tries again.
Deliver(i) ==
  LET e == events[i] IN
  /\ i \in DOMAIN events /\ handled[i] = "new"
  /\ IF Resolved(e)
       THEN /\ PlanFor(e) # Free
            /\ handled' = [handled EXCEPT ![i] = "applied"]
            /\ Reconcile(e, PlanFor(e))
       ELSE /\ handled' = [handled EXCEPT ![i] = "ignored"]
            /\ UNCHANGED ledger
  /\ UNCHANGED <<stripe, customer>>

-----------------------------------------------------------------------------
(* The customer's requests                                                   *)

\* Mutant: the cancellation is recorded before Stripe is asked.
ChooseCancellationAndRecord ==
  /\ request.phase = "idle" /\ latest # NoSub
  /\ request' = [phase |-> "chosen", sub |-> latest]
  /\ cancellations' = cancellations \cup {latest}
  /\ UNCHANGED <<stripe, handled, ledger, export>>

\* POST /api/account/cancel takes the subscription whose row changed last...
ChooseCancellation ==
  /\ request.phase = "idle" /\ latest # NoSub
  /\ request' = [phase |-> "chosen", sub |-> latest]
  /\ UNCHANGED <<stripe, handled, ledger, cancellations, export>>

\* ... asks Stripe to end it with its period; Stripe refuses one that has ended...
AskStripe ==
  LET s == request.sub IN
  /\ request.phase = "chosen"
  /\ IF remote[s].status = "canceled"
       THEN request' = [request EXCEPT !.phase = "idle"] /\ UNCHANGED <<remote, events>>
       ELSE /\ request' = [request EXCEPT !.phase = "asked"]
            /\ remote' = [remote EXCEPT ![s].cancel = TRUE]
            /\ Emit(<<Event("updated", s, remote[s].status, TRUE)>>)
  /\ UNCHANGED <<now, handled, ledger, cancellations, export>>

\* ... records the cancellation...
RecordCancellation ==
  /\ request.phase = "asked"
  /\ cancellations' = cancellations \cup {request.sub}
  /\ request' = [request EXCEPT !.phase = "recorded"]
  /\ UNCHANGED <<stripe, handled, ledger, export>>

\* ... and marks the row, whatever events have done to it since.
MarkCancellation ==
  LET s == request.sub IN
  /\ request.phase = "recorded"
  /\ rows' = [rows EXCEPT ![s].cancel = TRUE]
  /\ latest' = s
  /\ request' = [request EXCEPT !.phase = "idle"]
  /\ UNCHANGED <<stripe, handled, account, entitlement, cancellations, export>>

\* createExport: the request is marked before and after the tables are read.
StartExport ==
  /\ export # "processing" /\ export' = "processing"
  /\ UNCHANGED <<stripe, handled, ledger, request, cancellations>>
EndExport(outcome) ==
  /\ export = "processing" /\ export' = outcome
  /\ UNCHANGED <<stripe, handled, ledger, request, cancellations>>

\* The server dies; a request is not taken up again, a delivery is.
Crash ==
  /\ request.phase # "idle"
  /\ request' = [request EXCEPT !.phase = "idle"]
  /\ UNCHANGED <<stripe, handled, ledger, cancellations, export>>

Server ==
  \/ \E i \in 1..MaxEvents : Deliver(i)
  \/ ChooseCancellation \/ AskStripe \/ RecordCancellation \/ MarkCancellation
  \/ StartExport \/ \E outcome \in {"ready", "failed"} : EndExport(outcome)
  \/ Crash

Next == Stripe \/ Server

Spec == Init /\ [][Next]_vars

\* Stripe delivers an event until it is answered with success.
FairSpec == Spec /\ \A i \in 1..MaxEvents : WF_vars(Deliver(i))

-----------------------------------------------------------------------------
(* Properties                                                                *)

Applied(kinds) == {i \in DOMAIN events : handled[i] = "applied" /\ events[i].kind \in kinds}
Newest(set) == {i \in set : \A j \in set : events[j].time <= events[i].time}

\* Whatever the order in which events arrive and however often: the entitlement
\* says what the newest subscription or invoice event says, where events of one
\* second are equally new.  A completed checkout alone grants nothing.
EntitlementFollowsNewest ==
  LET granting == Applied(Kinds \ {"checkout"}) IN
  IF granting = {} THEN entitlement.time = 0
  ELSE \E i \in Newest(granting) : entitlement.status = Verdict(events[i])

\* The row of a subscription says what the newest of its own events says.
RowsFollowNewest ==
  \A s \in Subs :
    LET own == {i \in Applied({"created", "updated", "deleted"}) : events[i].sub = s} IN
    own # {} => \E i \in Newest(own) : rows[s].status = events[i].status

\* A cancellation is on record only when Stripe has been asked for it, wherever
\* the server dies.
CancellationsAsked ==
  \A s \in cancellations : \E i \in DOMAIN events : events[i].sub = s /\ events[i].cancel

\* Stripe delivers until it is answered: every event is handled in the end, also
\* an invoice that at first has no plan.
EventsSettle == \A i \in 1..MaxEvents : i \in DOMAIN events ~> handled[i] # "new"
=============================================================================
