--------------------------- MODULE BillingProofs ---------------------------
(* Theorems about Billing, for any subscriptions and plans and any number of  *)
(* events: what the entitlement and the rows say is what the newest event said *)
(* that has arrived, in whatever order events come.  The invariants keep the   *)
(* time of a row equal to the time of the event it shows.                     *)
EXTENDS Billing, SequenceTheorems, TLAPS

\* What is known of the events: only the API's kinds carry a subscription status,
\* and an event is handled after it was emitted.
EventsConsistent ==
  /\ Len(events) <= MaxEvents
  /\ \A i \in DOMAIN events :
       /\ events[i].kind \in {"created", "updated", "deleted"} => events[i].status \in Statuses
       /\ events[i].kind = "paid" => events[i].status = "paid"
       /\ events[i].time \in Nat \ {0}
  /\ \A i \in 1..MaxEvents : i \notin DOMAIN events => handled[i] = "new"
  /\ now \in Nat \ {0}

Granting == Applied(Kinds \ {"checkout"})
Own(s) == {i \in Applied({"created", "updated", "deleted"}) : events[i].sub = s}

EntitlementConsistent ==
  /\ Granting = {} => entitlement.time = 0
  /\ Granting # {} => \E i \in Newest(Granting) : /\ entitlement.status = Verdict(events[i])
                                                  /\ entitlement.time = events[i].time

RowConsistent(s) ==
  /\ Own(s) = {} => rows[s].time = 0
  /\ Own(s) # {} => \E i \in Newest(Own(s)) : /\ rows[s].status = events[i].status
                                              /\ rows[s].time = events[i].time

\* Stripe was asked to end s.
Asked(s) == \E i \in DOMAIN events : events[i].sub = s /\ events[i].cancel

CancellationsConsistent ==
  /\ CancellationsAsked
  /\ request.phase \in {"asked", "recorded"} => Asked(request.sub)

\* What the API has heard of was bought at Stripe.
Bought ==
  /\ \A i \in DOMAIN events : remote[events[i].sub].status # "none"
  /\ latest # NoSub => remote[latest].status # "none"
  /\ request.phase # "idle" => remote[request.sub].status # "none"

BillingInvariant ==
  /\ TypeOK /\ EventsConsistent /\ Bought
  /\ EntitlementConsistent
  /\ \A s \in Subs : RowConsistent(s)
  /\ CancellationsConsistent

-----------------------------------------------------------------------------
LEMMA InitEstablishes == Init => BillingInvariant
<1> SUFFICES ASSUME Init PROVE BillingInvariant
  OBVIOUS
<1> USE TimeAssumption, NoSubAssumption
<1>1. TypeOK
  BY DEF Init, TypeOK, Plans, Statuses, Verdicts, Events
<1>2. EventsConsistent /\ Bought
  BY DEF Init, EventsConsistent, Bought
<1>3. Granting = {} /\ \A s \in Subs : Own(s) = {}
  BY DEF Init, Granting, Own, Applied
<1>4. EntitlementConsistent /\ \A s \in Subs : RowConsistent(s)
  BY <1>3 DEF Init, EntitlementConsistent, RowConsistent
<1>5. CancellationsConsistent
  BY DEF Init, CancellationsConsistent, CancellationsAsked
<1> QED
  BY <1>1, <1>2, <1>4, <1>5 DEF BillingInvariant

\* Nothing that is known of the past changes while the events and what is
\* handled of them stay, and the rows too.
LEMMA PastStays ==
  ASSUME BillingInvariant, UNCHANGED <<events, handled>>
  PROVE  /\ Granting' = Granting /\ \A s \in Subs : Own(s)' = Own(s)
         /\ Newest(Granting)' = Newest(Granting)
         /\ \A s \in Subs : Newest(Own(s))' = Newest(Own(s))
BY DEF Granting, Own, Applied, Newest

-----------------------------------------------------------------------------
(* Stripe                                                                    *)

\* Stripe emits: the events so far keep their places.
LEMMA EmitAppends ==
  ASSUME BillingInvariant, NEW new \in Seq(Events), Emit(new), Len(new) \in {1, 2},
         \A j \in DOMAIN new : /\ new[j].kind \in {"created", "updated", "deleted"} => new[j].status \in Statuses
                               /\ new[j].kind = "paid" => new[j].status = "paid"
                               /\ new[j].time = now,
         UNCHANGED <<handled, now>>
  PROVE  /\ events' \in Seq(Events) /\ DOMAIN events \subseteq DOMAIN events'
         /\ \A i \in DOMAIN events : events'[i] = events[i]
         /\ EventsConsistent'
         /\ Granting' = Granting /\ \A s \in Subs : Own(s)' = Own(s)
         /\ Newest(Granting)' = Newest(Granting)
         /\ \A s \in Subs : Newest(Own(s))' = Newest(Own(s))
         /\ \A s \in Subs : Asked(s) => Asked(s)'
         /\ \A j \in DOMAIN new : \E i \in DOMAIN events' : events'[i] = new[j]
         /\ \A i \in DOMAIN events' \ DOMAIN events : \E j \in DOMAIN new : events'[i] = new[j]
<1> USE TimeAssumption
<1>1. events \in Seq(Events) /\ events' = events \o new /\ Len(events) + Len(new) <= MaxEvents
  BY DEF BillingInvariant, TypeOK, Emit
<1>2. /\ events' \in Seq(Events) /\ Len(events') = Len(events) + Len(new)
      /\ DOMAIN events = 1..Len(events) /\ DOMAIN events' = 1..Len(events')
      /\ DOMAIN new = 1..Len(new) /\ Len(events) \in Nat
      /\ \A i \in 1..Len(events) : events'[i] = events[i]
      /\ \A i \in 1..Len(new) : events'[Len(events) + i] = new[i]
  BY <1>1
<1>3. \A i \in DOMAIN events' \ DOMAIN events : \E j \in DOMAIN new : events'[i] = new[j]
  <2> TAKE i \in DOMAIN events' \ DOMAIN events
  <2>1. i - Len(events) \in 1..Len(new) /\ i = Len(events) + (i - Len(events))
    BY <1>2
  <2>2. events'[i] = new[i - Len(events)]
    BY <1>2, <2>1
  <2> QED
    BY <1>2, <2>1, <2>2
<1>4. EventsConsistent'
  <2>1. EventsConsistent
    BY DEF BillingInvariant
  <2>2. Len(events') <= MaxEvents /\ now' \in Nat \ {0}
    BY <1>1, <1>2, <2>1 DEF EventsConsistent
  <2>3. \A i \in 1..MaxEvents : i \notin DOMAIN events' => handled'[i] = "new"
    BY <1>2, <2>1 DEF EventsConsistent
  <2>4. ASSUME NEW i \in DOMAIN events'
        PROVE  /\ events'[i].kind \in {"created", "updated", "deleted"} => events'[i].status \in Statuses
               /\ events'[i].kind = "paid" => events'[i].status = "paid"
               /\ events'[i].time \in Nat \ {0}
    <3>1. CASE i \in DOMAIN events
      <4>1. events'[i] = events[i]
        BY <1>2, <3>1
      <4> QED
        BY <2>1, <3>1, <4>1 DEF EventsConsistent
    <3>2. CASE i \notin DOMAIN events
      <4>1. PICK j \in DOMAIN new : events'[i] = new[j]
        BY <1>3, <3>2
      <4> QED
        BY <2>1, <4>1 DEF EventsConsistent
    <3> QED
      BY <3>1, <3>2
  <2> QED
    BY <2>2, <2>3, <2>4 DEF EventsConsistent
<1>5. \A i \in DOMAIN events' : handled[i] = "applied" => i \in DOMAIN events
  BY <1>1, <1>2 DEF BillingInvariant, EventsConsistent
<1>6. Granting' = Granting /\ \A s \in Subs : Own(s)' = Own(s)
  BY <1>2, <1>5 DEF Granting, Own, Applied
<1>7. Granting \subseteq DOMAIN events /\ \A s \in Subs : Own(s) \subseteq DOMAIN events
  BY DEF Granting, Own, Applied
<1>8. /\ Newest(Granting)' = Newest(Granting)
      /\ \A s \in Subs : Newest(Own(s))' = Newest(Own(s))
  BY <1>2, <1>6, <1>7 DEF Newest
<1>9. \A s \in Subs : Asked(s) => Asked(s)'
  BY <1>2 DEF Asked
<1>10. \A j \in DOMAIN new : \E i \in DOMAIN events' : events'[i] = new[j]
  <2> TAKE j \in DOMAIN new
  <2>1. Len(events) + j \in DOMAIN events' /\ events'[Len(events) + j] = new[j]
    BY <1>2
  <2> QED
    BY <2>1
<1> QED
  BY <1>2, <1>3, <1>4, <1>6, <1>8, <1>9, <1>10

LEMMA EmitKeeps ==
  ASSUME BillingInvariant, NEW new \in Seq(Events), Emit(new), Len(new) \in {1, 2},
         \A j \in DOMAIN new : /\ new[j].kind \in {"created", "updated", "deleted"} => new[j].status \in Statuses
                               /\ new[j].kind = "paid" => new[j].status = "paid"
                               /\ new[j].time = now,
         UNCHANGED <<now, handled, ledger, cancellations, export>>,
         remote' \in [Subs -> [status : Statuses \cup {"none"}, cancel : BOOLEAN]],
         request' \in [phase : {"idle", "chosen", "asked", "recorded"}, sub : Subs],
         request'.phase \in {"asked", "recorded"} => Asked(request.sub)',
         \A s \in Subs : remote[s].status # "none" => remote'[s].status # "none",
         \A j \in DOMAIN new : remote'[new[j].sub].status # "none",
         request'.phase # "idle" => request.phase # "idle" /\ request'.sub = request.sub
  PROVE  BillingInvariant'
<1>1. /\ events' \in Seq(Events) /\ DOMAIN events \subseteq DOMAIN events'
      /\ \A i \in DOMAIN events : events'[i] = events[i]
      /\ EventsConsistent'
      /\ Granting' = Granting /\ \A s \in Subs : Own(s)' = Own(s)
      /\ Newest(Granting)' = Newest(Granting)
      /\ \A s \in Subs : Newest(Own(s))' = Newest(Own(s))
      /\ \A s \in Subs : Asked(s) => Asked(s)'
      /\ \A i \in DOMAIN events' \ DOMAIN events : \E j \in DOMAIN new : events'[i] = new[j]
  BY EmitAppends
<1>2. TypeOK'
  BY <1>1 DEF BillingInvariant, TypeOK, ledger
<1>3. Newest(Granting) \subseteq DOMAIN events /\ \A s \in Subs : Newest(Own(s)) \subseteq DOMAIN events
  BY DEF Newest, Granting, Own, Applied
<1>4. EntitlementConsistent'
  BY <1>1, <1>3 DEF BillingInvariant, EntitlementConsistent, Verdict, ledger
<1>5. ASSUME NEW s \in Subs PROVE RowConsistent(s)'
  BY <1>1, <1>3 DEF BillingInvariant, RowConsistent, ledger
<1>6. CancellationsAsked'
  BY <1>1 DEF BillingInvariant, TypeOK, CancellationsConsistent, CancellationsAsked, Asked
<1>7. Bought'
  <2>1. \A i \in DOMAIN events : events[i].sub \in Subs
    <3>1. events \in Seq(Events)
      BY DEF BillingInvariant, TypeOK
    <3>2. \A i \in DOMAIN events : events[i] \in Events
      BY <3>1
    <3> QED
      BY <3>2 DEF Events
  <2>2. \A i \in DOMAIN events' : remote'[events'[i].sub].status # "none"
    BY <1>1, <2>1 DEF BillingInvariant, Bought
  <2> QED
    BY <2>2 DEF BillingInvariant, Bought, TypeOK, ledger
<1> QED
  BY <1>1, <1>2, <1>4, <1>5, <1>6, <1>7 DEF BillingInvariant, CancellationsConsistent

LEMMA StripeKeeps ==
  ASSUME BillingInvariant, Stripe
  PROVE  BillingInvariant'
<1> USE TimeAssumption
<1>1. /\ remote \in [Subs -> [status : Statuses \cup {"none"}, cancel : BOOLEAN]] /\ now \in Nat
      /\ request \in [phase : {"idle", "chosen", "asked", "recorded"}, sub : Subs]
      /\ request.phase \in {"asked", "recorded"} => Asked(request.sub)
  BY DEF BillingInvariant, TypeOK, CancellationsConsistent
<1>2. CASE Tick
  <2>1. now' = now + 1 /\ UNCHANGED <<remote, events, handled, ledger, customer>>
    BY <1>2 DEF Tick
  <2>2. TypeOK' /\ EventsConsistent' /\ Bought'
    BY <1>1, <2>1 DEF BillingInvariant, TypeOK, EventsConsistent, Bought, ledger, customer
  <2>3. EntitlementConsistent' /\ \A s \in Subs : RowConsistent(s)'
    BY <2>1, PastStays DEF BillingInvariant, EntitlementConsistent, RowConsistent, Verdict, ledger
  <2>4. CancellationsConsistent'
    BY <2>1 DEF BillingInvariant, CancellationsConsistent, CancellationsAsked, Asked, customer
  <2> QED
    BY <2>2, <2>3, <2>4 DEF BillingInvariant
\* What Stripe does on its own leaves the customer's request where it is.
<1>3. ASSUME NEW new \in Seq(Events), Emit(new), Len(new) \in {1, 2},
             \A j \in DOMAIN new : /\ new[j].kind \in {"created", "updated", "deleted"} => new[j].status \in Statuses
                                   /\ new[j].kind = "paid" => new[j].status = "paid"
                                   /\ new[j].time = now,
             UNCHANGED <<now, handled, ledger, customer>>,
             remote' \in [Subs -> [status : Statuses \cup {"none"}, cancel : BOOLEAN]],
             \A s \in Subs : remote[s].status # "none" => remote'[s].status # "none",
             \A j \in DOMAIN new : remote'[new[j].sub].status # "none"
      PROVE  BillingInvariant'
  <2>1. UNCHANGED <<request, cancellations, export>>
    BY <1>3 DEF customer
  <2>2. \A s \in Subs : Asked(s) => Asked(s)'
    BY <1>3, EmitAppends
  <2>3. request'.phase \in {"asked", "recorded"} => Asked(request.sub)'
    BY <1>1, <2>1, <2>2 DEF Asked
  <2> QED
    BY <1>1, <1>3, <2>1, <2>3, EmitKeeps
<1>4. ASSUME NEW s \in Subs, CompleteCheckout(s) PROVE BillingInvariant'
  <2> DEFINE a == Event("checkout", s, "paid", FALSE)
             b == Event("created", s, "active", FALSE)
  <2>1. /\ a \in Events /\ a.kind = "checkout" /\ a.time = now /\ a.sub = s
        /\ b \in Events /\ b.kind = "created" /\ b.status \in Statuses /\ b.time = now
        /\ b.sub = s
    BY <1>1 DEF Event, Events, Kinds, Statuses
  <2> HIDE DEF a, b
  <2>2. /\ <<a, b>> \in Seq(Events) /\ Len(<<a, b>>) = 2
        /\ \A j \in DOMAIN <<a, b>> : <<a, b>>[j] \in {a, b}
    BY <2>1
  <2>3. /\ Emit(<<a, b>>) /\ UNCHANGED <<now, handled, ledger, customer>>
        /\ remote' \in [Subs -> [status : Statuses \cup {"none"}, cancel : BOOLEAN]]
        /\ \A r \in Subs : remote[r].status # "none" => remote'[r].status # "none"
        /\ remote'[s].status # "none"
    BY <1>1, <1>4 DEF CompleteCheckout, Statuses, a, b
  <2> QED
    BY <2>1, <2>2, <2>3, <1>3
<1>5. ASSUME NEW e, e \in Events, e.time = now,
             e.kind \in {"created", "updated", "deleted"} => e.status \in Statuses,
             e.kind = "paid" => e.status = "paid",
             Emit(<<e>>), UNCHANGED <<now, handled, ledger, customer>>,
             remote' \in [Subs -> [status : Statuses \cup {"none"}, cancel : BOOLEAN]],
             \A s \in Subs : remote[s].status # "none" => remote'[s].status # "none",
             remote'[e.sub].status # "none"
      PROVE  BillingInvariant'
  <2>1. <<e>> \in Seq(Events) /\ Len(<<e>>) = 1 /\ \A j \in DOMAIN <<e>> : <<e>>[j] = e
    BY <1>5
  <2> QED
    BY <1>3, <1>5, <2>1
<1>6. ASSUME NEW s \in Subs, NEW status \in Statuses, NEW cancel \in BOOLEAN,
             SubscriptionChanges(s, status, cancel)
      PROVE  BillingInvariant'
  <2>1. LET e == Event("updated", s, status, cancel) IN
        e \in Events /\ e.time = now /\ e.kind = "updated" /\ e.status \in Statuses /\ e.sub = s
    BY <1>1 DEF Event, Events, Kinds
  <2>2. /\ Emit(<<Event("updated", s, status, cancel)>>) /\ UNCHANGED <<now, handled, ledger, customer>>
        /\ remote' \in [Subs -> [status : Statuses \cup {"none"}, cancel : BOOLEAN]]
        /\ \A r \in Subs : remote[r].status # "none" => remote'[r].status # "none"
        /\ remote'[s].status # "none"
    BY <1>1, <1>6 DEF SubscriptionChanges, Statuses
  <2> QED
    BY <1>5, <2>1, <2>2
<1>7. ASSUME NEW s \in Subs, SubscriptionEnds(s) PROVE BillingInvariant'
  <2>1. LET e == Event("deleted", s, "canceled", remote[s].cancel) IN
        e \in Events /\ e.time = now /\ e.kind = "deleted" /\ e.status \in Statuses /\ e.sub = s
    BY <1>1 DEF Event, Events, Kinds, Statuses
  <2>2. /\ Emit(<<Event("deleted", s, "canceled", remote[s].cancel)>>)
        /\ UNCHANGED <<now, handled, ledger, customer>>
        /\ remote' \in [Subs -> [status : Statuses \cup {"none"}, cancel : BOOLEAN]]
        /\ \A r \in Subs : remote[r].status # "none" => remote'[r].status # "none"
        /\ remote'[s].status # "none"
    BY <1>1, <1>7 DEF SubscriptionEnds, Statuses
  <2> QED
    BY <1>5, <2>1, <2>2
<1>8. ASSUME NEW s \in Subs, NEW kind \in {"paid", "failed"}, InvoiceCloses(s, kind)
      PROVE  BillingInvariant'
  <2> DEFINE e == Event(kind, s, IF kind = "paid" THEN "paid" ELSE "open", FALSE)
  <2>1. /\ e \in Events /\ e.time = now /\ e.sub = s /\ e.kind \notin {"created", "updated", "deleted"}
        /\ e.kind = "paid" => e.status = "paid"
    BY <1>1 DEF Event, Events, Kinds
  <2>2. /\ Emit(<<e>>) /\ UNCHANGED <<now, handled, ledger, customer>>
        /\ remote' \in [Subs -> [status : Statuses \cup {"none"}, cancel : BOOLEAN]]
        /\ \A r \in Subs : remote[r].status # "none" => remote'[r].status # "none"
        /\ remote'[s].status # "none"
    BY <1>1, <1>8 DEF InvoiceCloses
  <2> QED
    BY <1>5, <2>1, <2>2
<1> QED
  BY <1>2, <1>4, <1>6, <1>7, <1>8 DEF Stripe

-----------------------------------------------------------------------------
(* The webhook                                                               *)

\* The newest of one event more
LEMMA NewestOfMore ==
  ASSUME NEW S \in SUBSET DOMAIN events, NEW i \in DOMAIN events,
         \A j \in DOMAIN events : events[j].time \in Nat
  PROVE  /\ \A j \in Newest(S) : events[i].time <= events[j].time => j \in Newest(S \cup {i})
         /\ S = {} => i \in Newest(S \cup {i})
         /\ \A j \in Newest(S) : events[j].time <= events[i].time => i \in Newest(S \cup {i})
BY DEF Newest

LEMMA DeliverTypes ==
  ASSUME BillingInvariant, NEW i \in 1..MaxEvents, Deliver(i)
  PROVE  TypeOK' /\ EventsConsistent' /\ Bought'
<1> USE TimeAssumption
<1> DEFINE e == events[i]
           plan == PlanFor(e)
<1>1. /\ i \in DOMAIN events /\ e \in Events /\ handled[i] = "new"
      /\ handled \in [1..MaxEvents -> {"new", "applied", "ignored"}]
      /\ handled' \in {[handled EXCEPT ![i] = "applied"], [handled EXCEPT ![i] = "ignored"]}
      /\ UNCHANGED <<now, remote, events, request, cancellations, export>>
  BY DEF Deliver, BillingInvariant, TypeOK, stripe, customer
<1>2. EventsConsistent'
  BY <1>1 DEF BillingInvariant, EventsConsistent
<1>3. /\ e.kind \in Kinds /\ e.sub \in Subs /\ e.cancel \in BOOLEAN /\ e.time \in Nat
      /\ e.status \in Statuses \cup {"paid", "open"}
      /\ e.kind \in {"created", "updated", "deleted"} => e.status \in Statuses
      /\ e.kind = "paid" => e.status = "paid"
  BY <1>1 DEF Events, BillingInvariant, EventsConsistent
<1>4. plan \in Plans
  BY <1>3 DEF PlanFor, Plans, BillingInvariant, TypeOK
<1>5. Verdict(e) \in Verdicts
  BY DEF Verdict, Verdicts
<1> HIDE DEF e, plan
<1>6. UpdateBillingState(e, plan) =>
        account' \in [plan : Plans, payment : {"ok", "failed"}, customer : BOOLEAN, time : Nat,
                      status : Statuses \cup {"paid"}]
  <2> SUFFICES ASSUME UpdateBillingState(e, plan), Takes(account, e)
               PROVE  account' \in [plan : Plans, payment : {"ok", "failed"}, customer : BOOLEAN,
                                    time : Nat, status : Statuses \cup {"paid"}]
    BY DEF UpdateBillingState, BillingInvariant, TypeOK
  <2>1. account \in [plan : Plans, payment : {"ok", "failed"}, customer : BOOLEAN, time : Nat,
                     status : Statuses \cup {"paid"}]
    BY DEF BillingInvariant, TypeOK
  <2>2. (CASE e.kind = "checkout" -> account.status
           [] e.kind = "failed" -> "past_due"
           [] OTHER -> e.status) \in Statuses \cup {"paid"}
    BY <1>3, <2>1 DEF Kinds, Statuses
  <2> QED
    BY <1>3, <1>4, <2>1, <2>2 DEF UpdateBillingState
<1>7. e.kind # "checkout" /\ UpsertSubscription(e, plan) =>
        /\ rows' \in [Subs -> [status : Statuses, plan : Plans, cancel : BOOLEAN, time : Nat]]
        /\ latest' \in Subs \cup {NoSub}
  <2> SUFFICES ASSUME e.kind # "checkout", UpsertSubscription(e, plan)
               PROVE  /\ rows' \in [Subs -> [status : Statuses, plan : Plans, cancel : BOOLEAN,
                                             time : Nat]]
                      /\ latest' \in Subs \cup {NoSub}
    OBVIOUS
  <2>1. /\ rows \in [Subs -> [status : Statuses, plan : Plans, cancel : BOOLEAN, time : Nat]]
        /\ latest \in Subs \cup {NoSub}
    BY DEF BillingInvariant, TypeOK
  <2>2. CASE UNCHANGED <<rows, latest>>
    BY <2>1, <2>2
  <2>3. CASE ~Invoice(e) /\ rows' = [rows EXCEPT ![e.sub] = NewRow(e, plan)] /\ latest' = e.sub
    <3>1. e.status \in Statuses
      BY <1>3, <2>3 DEF Invoice, Kinds
    <3>2. NewRow(e, plan) \in [status : Statuses, plan : Plans, cancel : BOOLEAN, time : Nat]
      BY <1>3, <1>4, <3>1 DEF NewRow
    <3> QED
      BY <1>3, <2>1, <2>3, <3>2
  <2> QED
    BY <2>2, <2>3 DEF UpsertSubscription
<1>8. SetEntitlement(e, plan) => entitlement' \in [status : Verdicts, plan : Plans, time : Nat]
  BY <1>3, <1>4, <1>5 DEF SetEntitlement, BillingInvariant, TypeOK
<1>9. /\ account' \in [plan : Plans, payment : {"ok", "failed"}, customer : BOOLEAN, time : Nat,
                       status : Statuses \cup {"paid"}]
      /\ rows' \in [Subs -> [status : Statuses, plan : Plans, cancel : BOOLEAN, time : Nat]]
      /\ latest' \in Subs \cup {NoSub}
      /\ entitlement' \in [status : Verdicts, plan : Plans, time : Nat]
  <2>1. UNCHANGED ledger \/ Reconcile(e, plan)
    BY DEF Deliver, e, plan
  <2>2. CASE UNCHANGED ledger
    BY <2>2 DEF ledger, BillingInvariant, TypeOK
  <2>3. CASE Reconcile(e, plan) /\ e.kind = "checkout"
    BY <1>6, <2>3 DEF Reconcile, BillingInvariant, TypeOK
  <2>4. CASE Reconcile(e, plan) /\ e.kind # "checkout"
    BY <1>6, <1>7, <1>8, <2>4 DEF Reconcile
  <2> QED
    BY <2>1, <2>2, <2>3, <2>4
<1>10. latest' \in {latest, e.sub}
  BY DEF Deliver, Reconcile, UpsertSubscription, ledger, e, plan
<1>11. Bought'
  BY <1>1, <1>10 DEF BillingInvariant, Bought, e
<1> QED
  BY <1>1, <1>2, <1>9, <1>11 DEF BillingInvariant, TypeOK

LEMMA DeliverKeeps ==
  ASSUME BillingInvariant, NEW i \in 1..MaxEvents, Deliver(i)
  PROVE  BillingInvariant'
<1> USE TimeAssumption
<1> DEFINE e == events[i]
<1>1. /\ i \in DOMAIN events /\ e \in Events /\ handled[i] = "new"
      /\ handled \in [1..MaxEvents -> {"new", "applied", "ignored"}]
      /\ UNCHANGED <<now, remote, events, request, cancellations, export>>
      /\ \A j \in DOMAIN events : events[j].time \in Nat
      /\ DOMAIN events \subseteq 1..MaxEvents
      /\ entitlement.time \in Nat /\ \A s \in Subs : rows[s].time \in Nat
  BY DEF Deliver, BillingInvariant, TypeOK, stripe, customer, EventsConsistent
<1>2. TypeOK' /\ EventsConsistent' /\ Bought'
  BY DeliverTypes
<1>3. CancellationsConsistent'
  BY <1>1 DEF BillingInvariant, CancellationsConsistent, CancellationsAsked, Asked
<1>4. CASE handled' = [handled EXCEPT ![i] = "ignored"] /\ UNCHANGED ledger
  <2>1. Granting' = Granting /\ \A s \in Subs : Own(s)' = Own(s)
    BY <1>1, <1>4 DEF Granting, Own, Applied
  <2>2. EntitlementConsistent'
    BY <1>1, <1>4, <2>1 DEF BillingInvariant, EntitlementConsistent, Newest, Verdict, ledger
  <2>3. \A s \in Subs : RowConsistent(s)'
    BY <1>1, <1>4, <2>1 DEF BillingInvariant, RowConsistent, Newest, ledger
  <2> QED
    BY <1>2, <1>3, <2>2, <2>3 DEF BillingInvariant
<1>5. CASE handled' = [handled EXCEPT ![i] = "applied"] /\ Reconcile(e, PlanFor(e))
  <2>1. /\ Granting \subseteq DOMAIN events /\ \A s \in Subs : Own(s) \subseteq DOMAIN events
        /\ Granting' = IF e.kind # "checkout" THEN Granting \cup {i} ELSE Granting
        /\ \A s \in Subs : Own(s)' = IF e.kind \in {"created", "updated", "deleted"} /\ e.sub = s
                                       THEN Own(s) \cup {i} ELSE Own(s)
    BY <1>1, <1>5 DEF Granting, Own, Applied, Events
  <2>2. \A S : Newest(S)' = Newest(S)
    BY <1>1 DEF Newest
  <2>3. EntitlementConsistent'
    <3>1. CASE e.kind = "checkout"
      <4>1. UNCHANGED <<entitlement, events>> /\ Granting' = Granting
        BY <1>1, <1>5, <2>1, <3>1 DEF Reconcile
      <4> QED
        BY <4>1 DEF BillingInvariant, EntitlementConsistent, Newest, Verdict
    <3>2. CASE e.kind # "checkout" /\ entitlement.time <= e.time
      <4>1. entitlement'.status = Verdict(e) /\ entitlement'.time = e.time
        BY <1>5, <3>2 DEF Reconcile, SetEntitlement, Takes
      <4>2. i \in Newest(Granting \cup {i})
        <5>1. CASE Granting = {}
          BY <1>1, <2>1, <5>1, NewestOfMore
        <5>2. CASE Granting # {}
          BY <1>1, <2>1, <3>2, <5>2, NewestOfMore DEF BillingInvariant, EntitlementConsistent
        <5> QED
          BY <5>1, <5>2
      <4>3. Granting' = Granting \cup {i} /\ i \in Newest(Granting)' /\ events'[i] = e
        BY <1>1, <2>1, <3>2, <4>2 DEF Newest
      <4>4. (Verdict(events[i]))' = Verdict(e)
        BY <4>3 DEF Verdict
      <4> QED
        BY <4>1, <4>3, <4>4 DEF EntitlementConsistent
    <3>3. CASE e.kind # "checkout" /\ ~(entitlement.time <= e.time)
      <4>1. UNCHANGED <<entitlement, events>> /\ Granting' = Granting \cup {i}
        BY <1>1, <1>5, <2>1, <3>3 DEF Reconcile, SetEntitlement, Takes
      <4>2. Granting # {}
        BY <1>1, <3>3 DEF BillingInvariant, EntitlementConsistent
      <4>3. PICK j \in Newest(Granting) : /\ entitlement.status = Verdict(events[j])
                                          /\ entitlement.time = events[j].time
        BY <4>2 DEF BillingInvariant, EntitlementConsistent
      <4>4. j \in DOMAIN events
        BY <2>1, <4>3 DEF Newest
      <4>5. events[i].time <= events[j].time
        BY <1>1, <3>3, <4>3, <4>4
      <4>6. j \in Newest(Granting \cup {i})
        BY <1>1, <2>1, <4>3, <4>5, NewestOfMore
      <4>7. j \in Newest(Granting)' /\ (Verdict(events[j]))' = Verdict(events[j])
        BY <4>1, <4>6 DEF Newest, Verdict
      <4> QED
        BY <4>1, <4>3, <4>7 DEF EntitlementConsistent
    <3> QED
      BY <3>1, <3>2, <3>3
  <2>4. ASSUME NEW s \in Subs PROVE RowConsistent(s)'
    <3>1. CASE ~(e.kind \in {"created", "updated", "deleted"} /\ e.sub = s)
      <4>1. rows'[s] = rows[s] /\ Own(s)' = Own(s) /\ UNCHANGED events
        BY <1>1, <1>5, <2>1, <3>1
           DEF Reconcile, UpsertSubscription, Invoice, BillingInvariant, TypeOK, Events, Kinds
      <4> QED
        BY <4>1 DEF BillingInvariant, RowConsistent, Newest
    <3>2. CASE e.kind \in {"created", "updated", "deleted"} /\ e.sub = s /\ rows[s].time <= e.time
      <4>1. rows'[s].status = e.status /\ rows'[s].time = e.time
        BY <1>1, <1>5, <3>2
           DEF Reconcile, UpsertSubscription, Invoice, Takes, NewRow, BillingInvariant, TypeOK
      <4>2. i \in Newest(Own(s) \cup {i})
        <5>1. CASE Own(s) = {}
          BY <1>1, <2>1, <5>1, NewestOfMore
        <5>2. CASE Own(s) # {}
          BY <1>1, <2>1, <3>2, <5>2, NewestOfMore DEF BillingInvariant, RowConsistent
        <5> QED
          BY <5>1, <5>2
      <4>3. i \in Newest(Own(s))' /\ i \in Own(s)' /\ events'[i] = e
        BY <1>1, <2>1, <3>2, <4>2 DEF Newest
      <4> QED
        BY <4>1, <4>3 DEF RowConsistent
    <3>3. CASE e.kind \in {"created", "updated", "deleted"} /\ e.sub = s /\ ~(rows[s].time <= e.time)
      <4>1. rows'[s] = rows[s] /\ UNCHANGED events /\ Own(s)' = Own(s) \cup {i}
        BY <1>1, <1>5, <2>1, <3>3 DEF Reconcile, UpsertSubscription, Takes
      <4>2. Own(s) # {}
        BY <1>1, <3>3 DEF BillingInvariant, RowConsistent
      <4>3. PICK j \in Newest(Own(s)) : /\ rows[s].status = events[j].status
                                        /\ rows[s].time = events[j].time
        BY <4>2 DEF BillingInvariant, RowConsistent
      <4>4. j \in DOMAIN events
        BY <2>1, <4>3 DEF Newest
      <4>5. events[i].time <= events[j].time
        BY <1>1, <3>3, <4>3, <4>4
      <4>6. j \in Newest(Own(s) \cup {i})
        BY <1>1, <2>1, <4>3, <4>5, NewestOfMore
      <4>7. j \in Newest(Own(s))'
        BY <4>1, <4>6 DEF Newest
      <4> QED
        BY <4>1, <4>3, <4>7 DEF RowConsistent
    <3> QED
      BY <3>1, <3>2, <3>3
  <2> QED
    BY <1>2, <1>3, <2>3, <2>4 DEF BillingInvariant
<1> QED
  BY <1>4, <1>5 DEF Deliver

-----------------------------------------------------------------------------
(* The customer                                                              *)

LEMMA CustomerKeeps ==
  ASSUME BillingInvariant,
         \/ ChooseCancellation \/ RecordCancellation \/ MarkCancellation
         \/ StartExport \/ (\E outcome \in {"ready", "failed"} : EndExport(outcome)) \/ Crash
  PROVE  BillingInvariant'
<1>1. /\ UNCHANGED <<stripe, handled, account, entitlement>>
      /\ latest \in Subs \cup {NoSub} /\ cancellations \subseteq Subs
      /\ request \in [phase : {"idle", "chosen", "asked", "recorded"}, sub : Subs]
      /\ rows \in [Subs -> [status : Statuses, plan : Plans, cancel : BOOLEAN, time : Nat]]
      /\ CancellationsConsistent
  BY DEF BillingInvariant, TypeOK, ChooseCancellation, RecordCancellation, MarkCancellation,
     StartExport, EndExport, Crash, ledger
<1>2. /\ latest' \in Subs \cup {NoSub}
      /\ rows' \in [Subs -> [status : Statuses, plan : Plans, cancel : BOOLEAN, time : Nat]]
      /\ \A s \in Subs : rows'[s].status = rows[s].status /\ rows'[s].time = rows[s].time
  <2>1. CASE MarkCancellation
    <3>1. latest' = request.sub /\ rows' = [rows EXCEPT ![request.sub].cancel = TRUE]
      BY <2>1 DEF MarkCancellation
    <3>2. request.sub \in Subs /\ TRUE \in BOOLEAN
      BY <1>1
    <3>3. /\ rows' \in [Subs -> [status : Statuses, plan : Plans, cancel : BOOLEAN, time : Nat]]
          /\ \A s \in Subs : rows'[s].status = rows[s].status /\ rows'[s].time = rows[s].time
      BY <1>1, <3>1, <3>2
    <3> QED
      BY <3>1, <3>2, <3>3
  <2>2. CASE UNCHANGED <<rows, latest>>
    BY <1>1, <2>2
  <2> QED
    BY <2>1, <2>2 DEF ChooseCancellation, RecordCancellation, StartExport, EndExport, Crash, ledger
<1>3. request' \in [phase : {"idle", "chosen", "asked", "recorded"}, sub : Subs]
  BY <1>1 DEF ChooseCancellation, RecordCancellation, MarkCancellation, StartExport, EndExport, Crash
<1>4. export' \in {"none", "processing", "ready", "failed"} /\ cancellations' \subseteq Subs
  BY <1>1 DEF BillingInvariant, TypeOK, ChooseCancellation, RecordCancellation, MarkCancellation,
     StartExport, EndExport, Crash
<1>5. TypeOK' /\ EventsConsistent'
  BY <1>1, <1>2, <1>3, <1>4 DEF BillingInvariant, TypeOK, EventsConsistent, stripe
<1>8. Bought'
  <2>1. remote' = remote /\ events' = events
    BY <1>1 DEF stripe
  <2>2. /\ latest' # latest => latest' = request.sub /\ request.phase # "idle"
        /\ request'.phase # "idle" => \/ request'.sub = request.sub /\ request.phase # "idle"
                                      \/ request'.sub = latest /\ latest # NoSub
    <3>1. CASE ChooseCancellation
      BY <1>1, <3>1 DEF ChooseCancellation, ledger
    <3>2. CASE RecordCancellation
      <4>1. /\ request.phase = "asked" /\ latest' = latest
            /\ request' = [request EXCEPT !.phase = "recorded"]
        BY <3>2 DEF RecordCancellation, ledger
      <4>2. request'.sub = request.sub
        BY <1>1, <4>1
      <4> QED
        BY <4>1, <4>2
    <3>3. CASE MarkCancellation
      BY <1>1, <3>3 DEF MarkCancellation
    <3>4. CASE StartExport \/ \E outcome \in {"ready", "failed"} : EndExport(outcome)
      <4>1. latest' = latest /\ request' = request
        BY <3>4 DEF StartExport, EndExport, ledger
      <4> QED
        BY <4>1
    <3>5. CASE Crash
      BY <1>1, <3>5 DEF Crash, ledger
    <3> QED
      BY <3>1, <3>2, <3>3, <3>4, <3>5
  <2> QED
    BY <2>1, <2>2 DEF BillingInvariant, Bought
<1>6. EntitlementConsistent' /\ \A s \in Subs : RowConsistent(s)'
  BY <1>1, <1>2, PastStays DEF BillingInvariant, EntitlementConsistent, RowConsistent, Verdict, stripe
<1>7. CancellationsConsistent'
  <2>1. \A s : Asked(s)' = Asked(s)
    BY <1>1 DEF Asked, stripe
  <2>2. \A s \in cancellations' : s \in cancellations \/ Asked(s)
    BY <1>1 DEF ChooseCancellation, RecordCancellation, MarkCancellation, StartExport, EndExport,
       Crash, CancellationsConsistent
  <2>3. request'.phase \in {"asked", "recorded"} =>
          request'.sub = request.sub /\ request.phase \in {"asked", "recorded"}
    BY <1>1 DEF ChooseCancellation, RecordCancellation, MarkCancellation, StartExport, EndExport, Crash
  <2>4. \A s \in cancellations : Asked(s)
    BY <1>1 DEF CancellationsConsistent, CancellationsAsked, Asked
  <2>5. CancellationsAsked'
    BY <2>1, <2>2, <2>4 DEF CancellationsAsked, Asked
  <2>6. request'.phase \in {"asked", "recorded"} => Asked(request.sub)'
    BY <1>1, <2>3 DEF CancellationsConsistent, Asked, stripe
  <2> QED
    BY <2>5, <2>6 DEF CancellationsConsistent
<1> QED
  BY <1>5, <1>6, <1>7, <1>8 DEF BillingInvariant

LEMMA AskKeeps ==
  ASSUME BillingInvariant, AskStripe
  PROVE  BillingInvariant'
<1> DEFINE s == request.sub
           e == Event("updated", s, remote[s].status, TRUE)
<1>1. /\ request \in [phase : {"idle", "chosen", "asked", "recorded"}, sub : Subs] /\ s \in Subs
      /\ remote \in [Subs -> [status : Statuses \cup {"none"}, cancel : BOOLEAN]] /\ now \in Nat
      /\ UNCHANGED <<now, handled, ledger, cancellations, export>>
  BY DEF BillingInvariant, TypeOK, AskStripe
<1>2. CASE remote[s].status = "canceled"
  <2>1. UNCHANGED <<remote, events>> /\ request' = [request EXCEPT !.phase = "idle"]
    BY <1>2 DEF AskStripe
  <2>2. TypeOK' /\ EventsConsistent' /\ Bought'
    BY <1>1, <2>1 DEF BillingInvariant, TypeOK, EventsConsistent, Bought, ledger
  <2>3. EntitlementConsistent' /\ \A t \in Subs : RowConsistent(t)'
    BY <1>1, <2>1, PastStays DEF BillingInvariant, EntitlementConsistent, RowConsistent, Verdict, ledger
  <2>4. CancellationsConsistent'
    BY <1>1, <2>1 DEF BillingInvariant, CancellationsConsistent, CancellationsAsked, Asked
  <2> QED
    BY <2>2, <2>3, <2>4 DEF BillingInvariant
<1>3. CASE remote[s].status # "canceled"
  <2>1. /\ Emit(<<e>>) /\ request' = [request EXCEPT !.phase = "asked"]
        /\ remote' = [remote EXCEPT ![s].cancel = TRUE] /\ request.phase = "chosen"
    BY <1>3 DEF AskStripe
  <2>2. remote[s].status \in Statuses
    BY <1>1, <2>1 DEF BillingInvariant, Bought
  <2>3. /\ e \in Events /\ e.kind = "updated" /\ e.status \in Statuses /\ e.time = now
        /\ e.sub = s /\ e.cancel = TRUE
    BY <1>1, <2>2 DEF Event, Events, Kinds
  <2> HIDE DEF e
  <2>4. <<e>> \in Seq(Events) /\ Len(<<e>>) = 1 /\ DOMAIN <<e>> = {1} /\ <<e>>[1] = e
    BY <2>3
  <2>5. /\ \A r \in Subs : remote[r].status # "none" => remote'[r].status # "none"
        /\ remote'[s].status # "none"
        /\ remote' \in [Subs -> [status : Statuses \cup {"none"}, cancel : BOOLEAN]]
        /\ request' \in [phase : {"idle", "chosen", "asked", "recorded"}, sub : Subs]
        /\ request'.sub = s
    BY <1>1, <2>1, <2>2 DEF Statuses
  <2>8. \A j \in DOMAIN <<e>> :
          /\ <<e>>[j].kind \in {"created", "updated", "deleted"} => <<e>>[j].status \in Statuses
          /\ <<e>>[j].kind = "paid" => <<e>>[j].status = "paid"
          /\ <<e>>[j].time = now
          /\ remote'[<<e>>[j].sub].status # "none"
    BY <2>3, <2>4, <2>5
  <2>9. \A j \in DOMAIN <<e>> : \E i \in DOMAIN events' : events'[i] = <<e>>[j]
    BY <1>1, <2>1, <2>4, <2>8, EmitAppends
  <2>6. \E i \in DOMAIN events' : events'[i] = e
    BY <2>4, <2>9
  <2>7. Asked(request.sub)'
    BY <2>3, <2>5, <2>6 DEF Asked
  <2> HIDE DEF s
  <2>10. request'.phase # "idle" => request.phase # "idle" /\ request'.sub = request.sub
    BY <2>1, <2>5 DEF s
  <2> QED
    BY <1>1, <2>1, <2>4, <2>5, <2>7, <2>8, <2>10, EmitKeeps
<1> QED
  BY <1>2, <1>3

LEMMA BillingStepKeeps == BillingInvariant /\ [Next]_vars => BillingInvariant'
<1> SUFFICES ASSUME BillingInvariant, [Next]_vars PROVE BillingInvariant'
  OBVIOUS
<1>1. CASE UNCHANGED vars
  <2>1. TypeOK' /\ EventsConsistent' /\ Bought' /\ CancellationsConsistent'
    BY <1>1 DEF vars, stripe, ledger, customer, BillingInvariant, TypeOK, EventsConsistent, Bought,
       CancellationsConsistent, CancellationsAsked, Asked
  <2>2. EntitlementConsistent' /\ \A s \in Subs : RowConsistent(s)'
    BY <1>1, PastStays DEF vars, stripe, ledger, BillingInvariant, EntitlementConsistent,
       RowConsistent, Verdict
  <2> QED
    BY <2>1, <2>2 DEF BillingInvariant
<1>2. CASE Next
  BY <1>2, StripeKeeps, DeliverKeeps, CustomerKeeps, AskKeeps DEF Next, Server
<1> QED
  BY <1>1, <1>2

-----------------------------------------------------------------------------
\* The invariant holds in every state of every behaviour.
THEOREM BillingInvariantHolds == Spec => []BillingInvariant
<1>1. Init => BillingInvariant
  BY InitEstablishes
<1>2. BillingInvariant /\ [Next]_vars => BillingInvariant'
  BY BillingStepKeeps
<1> QED
  BY <1>1, <1>2, PTL DEF Spec

\* Type correctness of the ledger, for every order of events
THEOREM BillingTypesHold == Spec => []TypeOK
BY BillingInvariantHolds, PTL DEF BillingInvariant

\* The entitlement (setEntitlement) says what the newest event that counts says,
\* in whatever order Stripe delivers and however often.
THEOREM EntitlementIsNewest == Spec => []EntitlementFollowsNewest
<1>1. BillingInvariant => EntitlementFollowsNewest
  BY DEF BillingInvariant, EntitlementConsistent, EntitlementFollowsNewest, Granting
<1> QED
  BY <1>1, BillingInvariantHolds, PTL

\* The row of a subscription (upsertSubscription) says what its newest event says,
\* beside the customer's own cancellation of it.
THEOREM RowsAreNewest == Spec => []RowsFollowNewest
<1>1. BillingInvariant => RowsFollowNewest
  BY DEF BillingInvariant, RowConsistent, RowsFollowNewest, Own
<1> QED
  BY <1>1, BillingInvariantHolds, PTL

\* A cancellation that is on record (POST /api/account/cancel) was asked of Stripe,
\* wherever the server dies.
THEOREM CancellationsAreAsked == Spec => []CancellationsAsked
BY BillingInvariantHolds, PTL DEF BillingInvariant, CancellationsConsistent
=============================================================================
