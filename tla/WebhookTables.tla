---------------------------- MODULE WebhookTables ----------------------------
(***************************************************************************)
(* What the outbox promises (webhook.Store, webhook.QueueStore): every     *)
(* operation on the tables of subscriptions, events and deliveries is one  *)
(* step.  PgWebhook shows that the transactions of the Postgres store are. *)
(***************************************************************************)
EXTENDS Naturals

CONSTANTS SubscriptionId, EventId

VARIABLES
  subscription,  \* webhook_subscription: the state of a row
  event,         \* control_plane_event
  delivery       \* webhook_delivery, one for an event and a subscription

tables == <<subscription, event, delivery>>

Delivery == EventId \X SubscriptionId
Waiting  == {"pending", "retrying"}
Settled  == {"succeeded", "failed", "canceled"}
Results  == {"succeeded", "retrying", "failed"}
Absent   == [state |-> "absent", attempt |-> 0]
Live     == {"enabled", "disabled"}

Init ==
  /\ subscription = [s \in SubscriptionId |-> "new"]
  /\ event = [e \in EventId |-> "new"]
  /\ delivery = [d \in Delivery |-> Absent]

Goes(s, to) == subscription' = [subscription EXCEPT ![s] = to]
Becomes(d, to) == delivery' = [delivery EXCEPT ![d].state = to]
Enabled(s) == subscription[s] = "enabled"

Create(s, to) == subscription[s] = "new" /\ Goes(s, to) /\ UNCHANGED <<event, delivery>>
Update(s, to) == subscription[s] \in Live /\ Goes(s, to) /\ UNCHANGED <<event, delivery>>

\* Nothing of a deleted subscription waits any more.
Delete(s) ==
  /\ subscription[s] \in Live /\ Goes(s, "deleted")
  /\ delivery' = [d \in Delivery |->
       IF d[2] = s /\ delivery[d].state \in Waiting THEN [delivery[d] EXCEPT !.state = "canceled"]
       ELSE delivery[d]]
  /\ UNCHANGED event

\* Only who is enabled is told of an event.
Emit(e, subscribers) ==
  /\ event[e] = "new" /\ event' = [event EXCEPT ![e] = "stored"]
  /\ \A s \in subscribers : Enabled(s)
  /\ delivery' = [d \in Delivery |->
       IF d[1] = e /\ d[2] \in subscribers THEN [state |-> "pending", attempt |-> 0] ELSE delivery[d]]
  /\ UNCHANGED subscription

Claim(d) ==
  /\ Enabled(d[2]) /\ delivery[d].state \in Waiting \union {"delivering"}
  /\ delivery' = [delivery EXCEPT ![d] = [state |-> "delivering", attempt |-> @.attempt + 1]]
  /\ UNCHANGED <<subscription, event>>

Complete(d, result) ==
  /\ delivery[d].state = "delivering"
  /\ Becomes(d, IF result = "retrying" /\ subscription[d[2]] \notin Live THEN "canceled" ELSE result)
  /\ UNCHANGED <<subscription, event>>

Retry(d) ==
  /\ delivery[d].state = "failed" /\ Enabled(d[2]) /\ Becomes(d, "retrying")
  /\ UNCHANGED <<subscription, event>>

\* What goes is settled, and nothing that stays refers to it.
Prune(expired, events, gone) ==
  /\ \A d \in expired : delivery[d].state \in Settled
  /\ \A e \in events : event[e] = "stored"
  /\ \A s \in gone : subscription[s] = "deleted"
  /\ \A d \in Delivery \ expired : delivery[d] = Absent \/ (d[1] \notin events /\ d[2] \notin gone)
  /\ delivery' = [d \in Delivery |-> IF d \in expired THEN Absent ELSE delivery[d]]
  /\ event' = [e \in EventId |-> IF e \in events THEN "pruned" ELSE event[e]]
  /\ subscription' = [s \in SubscriptionId |-> IF s \in gone THEN "pruned" ELSE subscription[s]]

Next ==
  \/ \E s \in SubscriptionId, to \in Live : Create(s, to) \/ Update(s, to)
  \/ \E s \in SubscriptionId : Delete(s)
  \/ \E e \in EventId, subscribers \in SUBSET SubscriptionId : Emit(e, subscribers)
  \/ \E d \in Delivery : Claim(d) \/ Retry(d) \/ \E result \in Results : Complete(d, result)
  \/ \E expired \in SUBSET Delivery, events \in SUBSET EventId, gone \in SUBSET SubscriptionId :
       Prune(expired, events, gone)

Spec == Init /\ [][Next]_tables
=============================================================================
