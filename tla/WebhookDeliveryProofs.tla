----------------------- MODULE WebhookDeliveryProofs ------------------------
(***************************************************************************)
(* Proofs about the webhook outbox and its dispatchers: types, the         *)
(* inductive invariant DeliveryInv and what follows from it.               *)
(***************************************************************************)
EXTENDS WebhookDelivery, TLAPS

----------------------------------------------------------------------------
(* Types.                                                                   *)

\* A delivery has an event and a subscription.
LEMMA DeliveryParts ==
  ASSUME NEW d \in Delivery
  PROVE  EventOf(d) \in EventId /\ SubscriptionOf(d) \in SubscriptionId
BY DEF Delivery, EventOf, SubscriptionOf

\* What a busy dispatcher holds is a claim.
LEMMA BusyHolds ==
  ASSUME TypeOK, NEW w \in DispatcherId, Busy(w)
  PROVE  /\ claim[w] \in Claim
         /\ claim[w].delivery \in Delivery
         /\ claim[w].attempt \in Nat
BY DEF TypeOK, Busy, Claim

\* What a claim and a recorded result write is a delivery.
LEMMA DeliveryTypes ==
  ASSUME TypeOK
  PROVE  /\ AbsentDelivery \in DeliveryRecord
         /\ NewDelivery \in DeliveryRecord
         /\ \A w \in DispatcherId, d \in Delivery : Claimed(w, d) \in DeliveryRecord
         /\ \A d \in Delivery, result \in Settled \union Waiting, due \in (-Horizon)..MaxDelay :
              Recorded(d, result, due) \in DeliveryRecord
<1>1. AbsentDelivery \in DeliveryRecord
  BY DeliveryAssumption DEF AbsentDelivery, DeliveryRecord
<1>2. NewDelivery \in DeliveryRecord
  BY <1>1 DEF NewDelivery, DeliveryRecord, Waiting
<1>3. ASSUME NEW w \in DispatcherId, NEW d \in Delivery
      PROVE  Claimed(w, d) \in DeliveryRecord
  <2>1. WorkerOf[w] \in WorkerId /\ LeaseTTL \in 0..LeaseTTL
    BY DeliveryAssumption
  <2>2. delivery[d] \in DeliveryRecord
    BY DEF TypeOK
  <2>3. delivery[d].attempt + 1 \in Nat
    BY <2>2 DEF DeliveryRecord
  <2>4. ASSUME NEW a \in Nat, NEW o \in WorkerId, NEW l \in 0..LeaseTTL
        PROVE  [delivery[d] EXCEPT !.state = "delivering", !.attempt = a, !.owner = o, !.lease = l]
                 \in DeliveryRecord
    BY <2>2 DEF DeliveryRecord
  <2>. QED
    BY <2>1, <2>3, <2>4 DEF Claimed
<1>4. ASSUME NEW d \in Delivery, NEW result \in Settled \union Waiting,
             NEW due \in (-Horizon)..MaxDelay
      PROVE  Recorded(d, result, due) \in DeliveryRecord
  <2>1. delivery[d] \in DeliveryRecord
    BY DEF TypeOK
  <2>2. EffectiveState(d, result) \in Settled \union Waiting
    BY DEF EffectiveState, Settled
  <2>3. 0 \in 0..LeaseTTL
    BY DeliveryAssumption
  <2>. QED
    BY <2>1, <2>2, <2>3 DEF Recorded, DeliveryRecord
<1>. QED
  BY <1>1, <1>2, <1>3, <1>4

\* deliveryResult asks for a state a delivery may have, at a time it may be due.
LEMMA ResultTypes ==
  ASSUME NEW c
  PROVE  /\ ResultState(c) \in Settled \union Waiting
         /\ DueAfter(ResultState(c)) \subseteq (-Horizon)..MaxDelay
<1>1. ResultState(c) \in Settled \union Waiting
  BY DEF ResultState, Settled, Waiting
<1>2. DueAfter(ResultState(c)) \subseteq (-Horizon)..MaxDelay
  BY DeliveryAssumption DEF DueAfter
<1>. QED
  BY <1>1, <1>2

\* CompleteDelivery writes what deliveryResult asks for, or nothing.
LEMMA CompleteWrites ==
  ASSUME TypeOK, NEW w \in DispatcherId, CompleteDelivery(w)
  PROVE  \/ delivery' = delivery
         \/ /\ ValidDeliveryLease(w)
            /\ claim[w].delivery \in Delivery
            /\ \E due \in (-Horizon)..MaxDelay :
                 delivery' = [delivery EXCEPT ![claim[w].delivery] =
                                Recorded(claim[w].delivery, ResultState(claim[w]), due)]
BY BusyHolds, ResultTypes DEF CompleteDelivery

-----------------------------------------------------------------------------
LEMMA TypeStep ==
  ASSUME TypeOK, [Next]_vars
  PROVE  TypeOK'
<1>1. \A d \in Delivery : delivery[d] \in DeliveryRecord
  BY DEF TypeOK
<1>2. \A s \in SubscriptionId : subscription[s] \in SubscriptionRecord
  BY DEF TypeOK
<1>3. MaxMishaps \in Nat /\ mishaps \in 0..MaxMishaps
  BY DeliveryAssumption DEF TypeOK
<1>4. CASE UNCHANGED vars
  BY <1>4 DEF TypeOK, vars
<1>5. ASSUME NEW s \in SubscriptionId, NEW enabled \in BOOLEAN, NEW f \in Filter,
             CreateSubscription(s, enabled, f) \/ UpdateSubscription(s, enabled, f)
      PROVE  TypeOK'
  <2>1. [state |-> "live", enabled |-> enabled, filter |-> f] \in SubscriptionRecord
    BY DeliveryAssumption DEF SubscriptionRecord
  <2>2. [subscription[s] EXCEPT !.enabled = enabled, !.filter = f] \in SubscriptionRecord
    BY <1>2, DeliveryAssumption DEF SubscriptionRecord
  <2>. QED
    BY <1>5, <2>1, <2>2 DEF CreateSubscription, UpdateSubscription, TypeOK
<1>6. ASSUME NEW s \in SubscriptionId, DeleteSubscription(s) PROVE TypeOK'
  <2>1. [subscription[s] EXCEPT !.state = "deleted", !.enabled = FALSE] \in SubscriptionRecord
    BY <1>2 DEF SubscriptionRecord
  <2>2. \A d \in Delivery : [delivery[d] EXCEPT !.state = "canceled"] \in DeliveryRecord
    BY <1>1 DEF DeliveryRecord, Settled
  <2>. QED
    BY <1>1, <1>6, <2>1, <2>2 DEF DeleteSubscription, TypeOK
<1>7. ASSUME NEW e \in EventId, NEW subscribers, Emit(e, subscribers) PROVE TypeOK'
  BY <1>1, <1>7, DeliveryTypes DEF Emit, TypeOK
<1>8. ASSUME NEW d \in Delivery, RetryDelivery(d) PROVE TypeOK'
  <2>1. [delivery[d] EXCEPT !.state = "retrying", !.due = 0, !.owner = NoWorker, !.lease = 0]
          \in DeliveryRecord
    <3>1. 0 \in 0..LeaseTTL /\ 0 \in (-Horizon)..MaxDelay
      BY DeliveryAssumption
    <3>2. delivery[d] \in DeliveryRecord
      BY <1>1
    <3>3. ASSUME NEW n \in 0..LeaseTTL, NEW t \in (-Horizon)..MaxDelay
          PROVE  [delivery[d] EXCEPT !.state = "retrying", !.due = t, !.owner = NoWorker, !.lease = n]
                   \in DeliveryRecord
      BY <3>2 DEF DeliveryRecord, Waiting
    <3>. QED
      BY <3>1, <3>3
  <2>. QED
    BY <1>3, <1>8, <2>1 DEF RetryDelivery, TypeOK
<1>9. ASSUME NEW w \in DispatcherId, ClaimDelivery(w) PROVE TypeOK'
  <2>1. ASSUME NEW d \in Delivery
        PROVE  [delivery |-> d, attempt |-> delivery[d].attempt + 1,
                answer |-> "none", late |-> FALSE] \in Claim
    BY <1>1 DEF DeliveryRecord, Claim
  <2>. QED
    BY <1>9, <2>1, DeliveryTypes DEF ClaimDelivery, TypeOK
<1>10. ASSUME NEW w \in DispatcherId, NEW answer \in Answer, Send(w, answer) PROVE TypeOK'
  <2>1. [claim[w] EXCEPT !.answer = answer] \in Claim
    BY <1>10, BusyHolds DEF Send, Claim
  <2>. QED
    BY <1>10, <2>1 DEF Send, TypeOK
<1>11. ASSUME NEW w \in DispatcherId, CompleteDelivery(w) PROVE TypeOK'
  <2>1. delivery' \in [Delivery -> DeliveryRecord]
    BY <1>11, CompleteWrites, ResultTypes, DeliveryTypes DEF TypeOK
  <2>. QED
    BY <1>11, <2>1 DEF CompleteDelivery, TypeOK
<1>12. ASSUME NEW w \in DispatcherId, Crash(w) PROVE TypeOK'
  BY <1>3, <1>12 DEF Crash, TypeOK
<1>13. ASSUME NEW w \in DispatcherId, Stall(w) PROVE TypeOK'
  <2>1. [claim[w] EXCEPT !.late = TRUE] \in Claim
    BY <1>13, BusyHolds DEF Stall, Claim
  <2>. QED
    BY <1>3, <1>13, <2>1 DEF Stall, TypeOK
<1>14. CASE PruneWebhookData
  <2>1. \A s \in SubscriptionId : [subscription[s] EXCEPT !.state = "pruned"] \in SubscriptionRecord
    BY <1>2 DEF SubscriptionRecord
  <2>. QED
    BY <1>1, <1>2, <1>14, <2>1, DeliveryTypes DEF PruneWebhookData, TypeOK
<1>15. CASE Tick
  <2> DEFINE Later(d) == [delivery[d] EXCEPT !.lease = IF @ > 0 THEN @ - 1 ELSE 0,
                                             !.due = IF @ > -Horizon THEN @ - 1 ELSE @]
  <2>1. ASSUME NEW d \in Delivery PROVE Later(d) \in DeliveryRecord
    <3>1. delivery[d].lease \in 0..LeaseTTL /\ delivery[d].due \in (-Horizon)..MaxDelay
      BY <1>1 DEF DeliveryRecord
    <3>2. (IF delivery[d].lease > 0 THEN delivery[d].lease - 1 ELSE 0) \in 0..LeaseTTL
      BY <3>1, DeliveryAssumption
    <3>3. (IF delivery[d].due > -Horizon THEN delivery[d].due - 1 ELSE delivery[d].due)
            \in (-Horizon)..MaxDelay
      BY <3>1, DeliveryAssumption
    <3>4. ASSUME NEW l \in 0..LeaseTTL, NEW t \in (-Horizon)..MaxDelay
          PROVE  [delivery[d] EXCEPT !.lease = l, !.due = t] \in DeliveryRecord
      BY <1>1 DEF DeliveryRecord
    <3>. QED
      BY <3>2, <3>3, <3>4
  <2>. QED
    BY <1>1, <1>15, <2>1 DEF Tick, TypeOK
<1>. QED
  BY <1>4, <1>5, <1>6, <1>7, <1>8, <1>9, <1>10, <1>11, <1>12, <1>13, <1>14, <1>15
  DEF Next, Operator, Dispatch, ReleaseEvent, CreateTestDelivery

LEMMA InitType == Init => TypeOK
<1> SUFFICES ASSUME Init PROVE TypeOK
  OBVIOUS
<1>1. AbsentDelivery \in DeliveryRecord
  BY DeliveryAssumption DEF AbsentDelivery, DeliveryRecord
<1>2. [state |-> "new", enabled |-> FALSE, filter |-> NoFilter] \in SubscriptionRecord
  BY DEF SubscriptionRecord, FilterRecord, NoFilter
<1>. QED
  BY <1>1, <1>2, DeliveryAssumption DEF Init, TypeOK

\* DeliveriesTypeCorrect: no operation of the store, of a dispatcher or of
\* retention leaves a record outside its type; in particular a due time never
\* passes the backoff ceiling.
THEOREM DeliveriesTypeCorrect == Spec => []TypeOK
  BY InitType, TypeStep, PTL DEF Spec

----------------------------------------------------------------------------
(* The inductive invariant.                                                 *)

\* What a punctual dispatcher holds is in flight, in its attempt, under its lease.
PunctualHoldsLease ==
  \A w \in DispatcherId :
    Punctual(w) => ValidDeliveryLease(w) /\ delivery[claim[w].delivery].lease > 0

PunctuallyHeld(d) == \E w \in DispatcherId : Punctual(w) /\ claim[w].delivery = d

\* An attempt that may still be followed by another leaves room for it: either
\* the maximum is not reached, or a mishap has been counted.
AttemptsLeft ==
  \A d \in Delivery :
    delivery[d].state \in Waiting \union {"delivering"} /\ ~PunctuallyHeld(d)
      => delivery[d].attempt < MaxAttempts + mishaps

\* A claim names an attempt that was made, of an event that is no longer new.
ClaimedBefore ==
  \A w \in DispatcherId :
    LET d == claim[w].delivery
    IN Busy(w) => /\ event[EventOf(d)] # "new"
                  /\ delivery[d].state # "absent" => claim[w].attempt <= delivery[d].attempt

\* No attempt is handed out twice.
AttemptHasOneClaim ==
  \A v, w \in DispatcherId :
    v # w /\ Busy(v) /\ Busy(w) /\ claim[v].delivery = claim[w].delivery
      => claim[v].attempt # claim[w].attempt

Leases == PunctualHoldsLease /\ ClaimedBefore /\ AttemptHasOneClaim
Attempts == AttemptsLeft /\ AttemptsAccountedFor

DeliveryInv == TypeOK /\ ReferencesStored /\ DeletedNeverRetried /\ Leases /\ Attempts

-----------------------------------------------------------------------------
(* What time changes, and what it does not.                                 *)

LEMMA TickKeeps ==
  ASSUME TypeOK, Tick, NEW d \in Delivery
  PROVE  /\ delivery'[d].state = delivery[d].state
         /\ delivery'[d].attempt = delivery[d].attempt
         /\ delivery'[d].owner = delivery[d].owner
         /\ delivery[d].lease > 1 => delivery'[d].lease > 0
<1>1. delivery[d] \in DeliveryRecord
  BY DEF TypeOK
<1>2. delivery[d].lease \in 0..LeaseTTL
  BY <1>1 DEF DeliveryRecord
<1> DEFINE Later == [delivery[d] EXCEPT !.lease = IF @ > 0 THEN @ - 1 ELSE 0,
                                        !.due = IF @ > -Horizon THEN @ - 1 ELSE @]
<1>3. delivery'[d] = IF delivery[d].state = "absent" THEN delivery[d] ELSE Later
  BY DEF Tick
<1>4. /\ Later.state = delivery[d].state /\ Later.attempt = delivery[d].attempt
      /\ Later.owner = delivery[d].owner
      /\ Later.lease = IF delivery[d].lease > 0 THEN delivery[d].lease - 1 ELSE 0
  BY <1>1 DEF DeliveryRecord
<1>. QED
  BY <1>2, <1>3, <1>4

\* A new claim is in flight with one attempt more, under a fresh lease.
LEMMA ClaimedFields ==
  ASSUME TypeOK, NEW w \in DispatcherId, NEW d \in Delivery
  PROVE  /\ Claimed(w, d).state = "delivering"
         /\ Claimed(w, d).attempt = delivery[d].attempt + 1
         /\ Claimed(w, d).owner = WorkerOf[w]
         /\ Claimed(w, d).lease = LeaseTTL
<1>1. delivery[d] \in DeliveryRecord
  BY DEF TypeOK
<1>. QED
  BY <1>1 DEF Claimed, DeliveryRecord

\* A recorded result keeps the attempt and gives the lease up.
LEMMA RecordedFields ==
  ASSUME TypeOK, NEW d \in Delivery, NEW result \in Settled \union Waiting, NEW due
  PROVE  /\ Recorded(d, result, due).state = EffectiveState(d, result)
         /\ Recorded(d, result, due).attempt = delivery[d].attempt
         /\ EffectiveState(d, result) \in Settled \union Waiting
<1>1. delivery[d] \in DeliveryRecord
  BY DEF TypeOK
<1>2. /\ Recorded(d, result, due).state = EffectiveState(d, result)
      /\ Recorded(d, result, due).attempt = delivery[d].attempt
  BY <1>1 DEF Recorded, DeliveryRecord
<1>3. EffectiveState(d, result) \in Settled \union Waiting
  BY DEF EffectiveState, Settled
<1>. QED
  BY <1>2, <1>3

LEMMA AbsentFields ==
  AbsentDelivery.state = "absent" /\ AbsentDelivery.attempt = 0
BY DEF AbsentDelivery

LEMMA NewFields ==
  NewDelivery.state = "pending" /\ NewDelivery.attempt = 0
BY DEF NewDelivery, AbsentDelivery

\* The states are apart.
LEMMA StatesApart ==
  /\ "delivering" \notin Settled \union Waiting \union {"absent"}
  /\ "absent" \notin Settled \union Waiting
  /\ Settled \intersect Waiting = {}
  /\ "pending" \in Waiting /\ "retrying" \in Waiting /\ "canceled" \in Settled
BY DEF Settled, Waiting

-----------------------------------------------------------------------------
LEMMA DeletedStep ==
  ASSUME TypeOK, DeletedNeverRetried, [Next]_vars
  PROVE  DeletedNeverRetried'
<1>1. \A d \in Delivery : delivery[d] \in DeliveryRecord
  BY DEF TypeOK
<1>2. \A s \in SubscriptionId : subscription[s] \in SubscriptionRecord
  BY DEF TypeOK
<1>3. \A d \in Delivery : SubscriptionOf(d) \in SubscriptionId
  BY DeliveryParts
<1>4. CASE UNCHANGED vars
  BY <1>4 DEF DeletedNeverRetried, vars
<1>5. ASSUME NEW s \in SubscriptionId, NEW enabled \in BOOLEAN, NEW f \in Filter,
             CreateSubscription(s, enabled, f) \/ UpdateSubscription(s, enabled, f)
      PROVE  DeletedNeverRetried'
  <2>1. subscription'[s].state = "live"
    BY <1>2, <1>5 DEF CreateSubscription, UpdateSubscription, Live, TypeOK, SubscriptionRecord
  <2>2. \A other \in SubscriptionId : other # s => subscription'[other] = subscription[other]
    BY <1>5 DEF CreateSubscription, UpdateSubscription, TypeOK
  <2>3. delivery' = delivery
    BY <1>5 DEF CreateSubscription, UpdateSubscription
  <2>. QED
    BY <1>3, <2>1, <2>2, <2>3 DEF DeletedNeverRetried
<1>6. ASSUME NEW s \in SubscriptionId, DeleteSubscription(s) PROVE DeletedNeverRetried'
  <2>1. \A d \in Delivery : [delivery[d] EXCEPT !.state = "canceled"].state = "canceled"
    BY <1>1 DEF DeliveryRecord
  <2>2. \A other \in SubscriptionId : other # s => subscription'[other] = subscription[other]
    BY <1>6 DEF DeleteSubscription, TypeOK
  <2>3. \A d \in Delivery : SubscriptionOf(d) = s => delivery'[d].state \notin Waiting
    BY <1>6, <2>1, StatesApart DEF DeleteSubscription
  <2>4. \A d \in Delivery : SubscriptionOf(d) # s => delivery'[d] = delivery[d]
    BY <1>6 DEF DeleteSubscription
  <2>. QED
    BY <1>3, <2>2, <2>3, <2>4 DEF DeletedNeverRetried
<1>7. ASSUME NEW e \in EventId, NEW subscribers, Emit(e, subscribers),
             \A s \in subscribers : subscription[s].state = "live"
      PROVE  DeletedNeverRetried'
  BY <1>7 DEF Emit, DeletedNeverRetried
<1>8. ASSUME NEW d \in Delivery, RetryDelivery(d) PROVE DeletedNeverRetried'
  <2>1. subscription[SubscriptionOf(d)].state = "live" /\ subscription' = subscription
    BY <1>8 DEF RetryDelivery, Deliverable, Live
  <2>2. \A other \in Delivery : other # d => delivery'[other] = delivery[other]
    BY <1>8 DEF RetryDelivery, TypeOK
  <2>. QED
    BY <2>1, <2>2 DEF DeletedNeverRetried
<1>9. ASSUME NEW w \in DispatcherId, ClaimDelivery(w) PROVE DeletedNeverRetried'
  <2>1. PICK d \in Delivery : delivery' = [delivery EXCEPT ![d] = Claimed(w, d)]
    BY <1>9 DEF ClaimDelivery
  <2>2. delivery'[d].state = "delivering"
    BY <2>1, ClaimedFields DEF TypeOK
  <2>3. \A other \in Delivery : other # d => delivery'[other] = delivery[other]
    BY <2>1 DEF TypeOK
  <2>. QED
    BY <1>9, <2>2, <2>3, StatesApart DEF ClaimDelivery, DeletedNeverRetried
<1>10. ASSUME NEW w \in DispatcherId, CompleteDelivery(w) PROVE DeletedNeverRetried'
  <2>1. subscription' = subscription
    BY <1>10 DEF CompleteDelivery
  <2>2. CASE delivery' = delivery
    BY <2>1, <2>2 DEF DeletedNeverRetried
  <2>3. ASSUME NEW d \in Delivery, NEW result \in Settled \union Waiting, NEW due,
               delivery' = [delivery EXCEPT ![d] = Recorded(d, result, due)],
               result = "retrying" \/ result \notin Waiting
        PROVE  DeletedNeverRetried'
    <3>1. delivery'[d].state = EffectiveState(d, result)
      BY <2>3, RecordedFields DEF TypeOK
    <3>2. subscription[SubscriptionOf(d)].state = "deleted" => EffectiveState(d, result) \notin Waiting
      BY <2>3, StatesApart DEF EffectiveState
    <3>3. \A other \in Delivery : other # d => delivery'[other] = delivery[other]
      BY <2>3 DEF TypeOK
    <3>. QED
      BY <2>1, <3>1, <3>2, <3>3 DEF DeletedNeverRetried
  <2>4. ResultState(claim[w]) = "retrying" \/ ResultState(claim[w]) \notin Waiting
    BY DEF ResultState, Waiting
  <2>. QED
    BY <1>10, <2>2, <2>3, <2>4, CompleteWrites, ResultTypes
<1>11. ASSUME NEW w \in DispatcherId,
              \/ \E answer \in Answer : Send(w, answer)
              \/ Crash(w) \/ Stall(w)
       PROVE  DeletedNeverRetried'
  BY <1>11 DEF Send, Crash, Stall, DeletedNeverRetried
<1>12. CASE PruneWebhookData
  <2>1. \A d \in Delivery : delivery'[d] \in {delivery[d], AbsentDelivery}
    BY <1>12 DEF PruneWebhookData
  <2>2. \A s \in SubscriptionId :
          subscription'[s] = subscription[s] \/ subscription'[s].state = "pruned"
    BY <1>2, <1>12 DEF PruneWebhookData, SubscriptionRecord
  <2>. QED
    BY <1>3, <2>1, <2>2, AbsentFields, StatesApart DEF DeletedNeverRetried
<1>13. CASE Tick
  BY <1>13, TickKeeps DEF Tick, DeletedNeverRetried
<1>14. ASSUME NEW e \in EventId, NEW type, NEW app, ReleaseEvent(e, type, app)
       PROVE  DeletedNeverRetried'
  BY <1>7, <1>14 DEF ReleaseEvent, Matches, Deliverable, Live
<1>15. ASSUME NEW e \in EventId, NEW s \in SubscriptionId, CreateTestDelivery(e, s)
       PROVE  DeletedNeverRetried'
  BY <1>7, <1>15 DEF CreateTestDelivery, Deliverable, Live
<1>. QED
  BY <1>4, <1>5, <1>6, <1>8, <1>9, <1>10, <1>11, <1>12, <1>13, <1>14, <1>15
  DEF Next, Operator, Dispatch

-----------------------------------------------------------------------------
LEMMA ReferencesStep ==
  ASSUME TypeOK, ReferencesStored, [Next]_vars
  PROVE  ReferencesStored'
<1> DEFINE Referenced(d) == /\ event[EventOf(d)] = "stored"
                            /\ subscription[SubscriptionOf(d)].state \in {"live", "deleted"}
<1>1. \A d \in Delivery : delivery[d] \in DeliveryRecord
  BY DEF TypeOK
<1>2. \A s \in SubscriptionId : subscription[s] \in SubscriptionRecord
  BY DEF TypeOK
<1>3. \A d \in Delivery : EventOf(d) \in EventId /\ SubscriptionOf(d) \in SubscriptionId
  BY DeliveryParts
<1>4. \A d \in Delivery : delivery[d].state # "absent" => Referenced(d)
  BY DEF ReferencesStored, Stored
<1>5. SUFFICES ASSUME NEW d \in Delivery, delivery'[d].state # "absent"
               PROVE  Referenced(d)'
  BY DEF ReferencesStored, Stored
<1>6. CASE UNCHANGED vars
  BY <1>4, <1>5, <1>6 DEF vars
<1>7. ASSUME NEW s \in SubscriptionId, NEW enabled \in BOOLEAN, NEW f \in Filter,
             CreateSubscription(s, enabled, f) \/ UpdateSubscription(s, enabled, f)
      PROVE  Referenced(d)'
  <2>1. subscription'[s].state = "live"
    BY <1>2, <1>7 DEF CreateSubscription, UpdateSubscription, Live, TypeOK, SubscriptionRecord
  <2>2. \A other \in SubscriptionId : other # s => subscription'[other] = subscription[other]
    BY <1>7 DEF CreateSubscription, UpdateSubscription, TypeOK
  <2>3. delivery' = delivery /\ event' = event
    BY <1>7 DEF CreateSubscription, UpdateSubscription
  <2>. QED
    BY <1>3, <1>4, <1>5, <2>1, <2>2, <2>3
<1>8. ASSUME NEW s \in SubscriptionId, DeleteSubscription(s) PROVE Referenced(d)'
  <2>1. subscription'[s].state = "deleted"
    BY <1>2, <1>8 DEF DeleteSubscription, TypeOK, SubscriptionRecord
  <2>2. \A other \in SubscriptionId : other # s => subscription'[other] = subscription[other]
    BY <1>8 DEF DeleteSubscription, TypeOK
  <2>3. delivery[d].state # "absent"
    BY <1>5, <1>8, StatesApart DEF DeleteSubscription
  <2>4. event' = event
    BY <1>8 DEF DeleteSubscription
  <2>. QED
    BY <1>3, <1>4, <2>1, <2>2, <2>3, <2>4
<1>9. ASSUME NEW e \in EventId, NEW subs, Emit(e, subs),
             \A s \in subs : subscription[s].state = "live"
      PROVE  Referenced(d)'
  <2>1. subscription' = subscription /\ event'[e] = "stored"
    BY <1>9 DEF Emit, TypeOK
  <2>2. CASE EventOf(d) = e /\ SubscriptionOf(d) \in subs
    BY <1>9, <2>1, <2>2
  <2>3. CASE ~(EventOf(d) = e /\ SubscriptionOf(d) \in subs)
    <3>1. delivery'[d] = delivery[d]
      BY <1>9, <2>3 DEF Emit
    <3>2. Referenced(d)
      BY <1>4, <1>5, <3>1
    <3>3. EventOf(d) # e
      BY <1>9, <3>2 DEF Emit
    <3>4. event'[EventOf(d)] = event[EventOf(d)]
      BY <1>3, <1>9, <3>3 DEF Emit, TypeOK
    <3>. QED
      BY <2>1, <3>2, <3>4
  <2>. QED
    BY <2>2, <2>3
<1>10. ASSUME NEW r \in Delivery, RetryDelivery(r) PROVE Referenced(d)'
  <2>1. \A other \in Delivery : other # r => delivery'[other] = delivery[other]
    BY <1>10 DEF RetryDelivery, TypeOK
  <2>2. delivery[r].state # "absent"
    BY <1>10 DEF RetryDelivery
  <2>. QED
    BY <1>4, <1>5, <1>10, <2>1, <2>2 DEF RetryDelivery
<1>11. ASSUME NEW w \in DispatcherId, ClaimDelivery(w) PROVE Referenced(d)'
  <2>1. PICK c \in Delivery : Eligible(c) /\ delivery' = [delivery EXCEPT ![c] = Claimed(w, c)]
    BY <1>11 DEF ClaimDelivery, Foremost
  <2>2. delivery[c].state # "absent"
    BY <2>1, StatesApart DEF Eligible
  <2>3. \A other \in Delivery : other # c => delivery'[other] = delivery[other]
    BY <2>1 DEF TypeOK
  <2>. QED
    BY <1>4, <1>5, <1>11, <2>2, <2>3 DEF ClaimDelivery
<1>12. ASSUME NEW w \in DispatcherId, CompleteDelivery(w) PROVE Referenced(d)'
  <2>1. subscription' = subscription /\ event' = event
    BY <1>12 DEF CompleteDelivery
  <2>2. delivery[d].state # "absent"
    <3>1. CASE delivery' = delivery
      BY <1>5, <3>1
    <3>2. CASE ValidDeliveryLease(w) /\ d = claim[w].delivery
      BY <3>2 DEF ValidDeliveryLease
    <3>3. CASE d # claim[w].delivery
      <4>1. delivery'[d] = delivery[d]
        BY <1>12, <3>3, CompleteWrites DEF TypeOK
      <4>. QED
        BY <1>5, <4>1
    <3>. QED
      BY <1>12, <3>1, <3>2, <3>3, CompleteWrites
  <2>. QED
    BY <1>4, <2>1, <2>2
<1>13. ASSUME NEW w \in DispatcherId,
              \/ \E answer \in Answer : Send(w, answer)
              \/ Crash(w) \/ Stall(w)
       PROVE  Referenced(d)'
  BY <1>4, <1>5, <1>13 DEF Send, Crash, Stall
<1>14. CASE PruneWebhookData
  <2> DEFINE Batch(expired, events, gone) ==
        /\ delivery' = [x \in Delivery |-> IF x \in expired THEN AbsentDelivery ELSE delivery[x]]
        /\ event' = [e \in EventId |-> IF e \in events THEN "pruned" ELSE event[e]]
        /\ subscription' = [s \in SubscriptionId |->
                              IF s \in gone THEN [subscription[s] EXCEPT !.state = "pruned"]
                              ELSE subscription[s]]
  <2>0. PICK expired \in SUBSET {x \in Delivery : delivery[x].state \in Settled} :
          \E events \in SUBSET OrphanEvents(Stored \ expired),
             gone \in SUBSET UnusedSubscriptions(Stored \ expired) : Batch(expired, events, gone)
    BY <1>14, Zenon DEF PruneWebhookData
  <2>1. PICK events \in SUBSET OrphanEvents(Stored \ expired),
             gone \in SUBSET UnusedSubscriptions(Stored \ expired) : Batch(expired, events, gone)
    BY <2>0, Zenon
  <2>2. d \notin expired /\ delivery'[d] = delivery[d]
    BY <1>5, <2>1, AbsentFields
  <2>3. d \in Stored \ expired
    BY <1>5, <2>2 DEF Stored
  <2>4. EventOf(d) \notin events
    BY <2>1, <2>3 DEF OrphanEvents
  <2>5. SubscriptionOf(d) \notin gone
    BY <2>1, <2>3 DEF UnusedSubscriptions
  <2>6. event'[EventOf(d)] = event[EventOf(d)]
    BY <1>3, <2>1, <2>4
  <2>7. subscription'[SubscriptionOf(d)] = subscription[SubscriptionOf(d)]
    BY <1>3, <2>1, <2>5
  <2>. QED
    BY <1>4, <1>5, <2>2, <2>6, <2>7
<1>15. CASE Tick
  <2>1. event' = event /\ subscription' = subscription
    BY <1>15 DEF Tick
  <2>. QED
    BY <1>4, <1>5, <1>15, <2>1, TickKeeps
<1>16. ASSUME NEW e \in EventId, NEW type, NEW app, ReleaseEvent(e, type, app)
       PROVE  Referenced(d)'
  <2> DEFINE subscribers == {s \in SubscriptionId : Matches(s, type, app)}
  <2>1. \A s \in subscribers : subscription[s].state = "live"
    BY DEF Matches, Deliverable, Live
  <2>. QED
    BY <1>9, <1>16, <2>1 DEF ReleaseEvent
<1>17. ASSUME NEW e \in EventId, NEW s \in SubscriptionId, CreateTestDelivery(e, s)
       PROVE  Referenced(d)'
  BY <1>9, <1>17 DEF CreateTestDelivery, Deliverable, Live
<1>. QED
  BY <1>6, <1>7, <1>8, <1>10, <1>11, <1>12, <1>13, <1>14, <1>15, <1>16, <1>17
  DEF Next, Operator, Dispatch

-----------------------------------------------------------------------------
\* A step that hands out no claim: claims keep their attempt and never become
\* punctual again, deliveries of known events do not come back or lose attempts,
\* and what is punctually held stays in flight.
ClaimsKept ==
  \A w \in DispatcherId :
    Busy(w)' => /\ Busy(w) /\ claim'[w].delivery = claim[w].delivery
                /\ claim'[w].attempt = claim[w].attempt
                /\ claim[w].late => claim'[w].late
EventsKept == \A e \in EventId : event[e] # "new" => event'[e] # "new"
AttemptsKept ==
  \A d \in Delivery :
    event[EventOf(d)] # "new" /\ delivery'[d].state # "absent"
      => delivery[d].state # "absent" /\ delivery'[d].attempt = delivery[d].attempt
InFlightKept ==
  \A w \in DispatcherId :
    LET d == claim[w].delivery
    IN Punctual(w) /\ Busy(w)' => /\ delivery'[d].state = delivery[d].state
                                  /\ delivery'[d].owner = delivery[d].owner
                                  /\ delivery'[d].attempt = delivery[d].attempt
                                  /\ delivery'[d].lease > 0
HeldKept == ClaimsKept /\ EventsKept /\ AttemptsKept /\ InFlightKept

LEMMA LeasesKept ==
  ASSUME TypeOK, TypeOK', Leases, HeldKept
  PROVE  Leases'
<1>1. PunctualHoldsLease'
  <2>1. SUFFICES ASSUME NEW w \in DispatcherId, Punctual(w)'
                 PROVE  ValidDeliveryLease(w)' /\ delivery'[claim'[w].delivery].lease > 0
    BY DEF PunctualHoldsLease
  <2>2. Punctual(w) /\ Busy(w)'
    <3>1. Busy(w)' /\ ~claim'[w].late
      BY <2>1 DEF Punctual
    <3>. QED
      BY <3>1 DEF HeldKept, ClaimsKept, Punctual
  <2>3. ValidDeliveryLease(w) /\ claim'[w].delivery = claim[w].delivery
        /\ claim'[w].attempt = claim[w].attempt
    BY <2>2 DEF Leases, PunctualHoldsLease, HeldKept, ClaimsKept
  <2>. QED
    BY <2>2, <2>3 DEF HeldKept, InFlightKept, ValidDeliveryLease
<1>2. ClaimedBefore'
  <2>1. SUFFICES ASSUME NEW w \in DispatcherId, Busy(w)'
                 PROVE  /\ event'[EventOf(claim'[w].delivery)] # "new"
                        /\ delivery'[claim'[w].delivery].state # "absent"
                             => claim'[w].attempt <= delivery'[claim'[w].delivery].attempt
    BY DEF ClaimedBefore
  <2>2. Busy(w) /\ claim'[w].delivery = claim[w].delivery /\ claim'[w].attempt = claim[w].attempt
    BY <2>1 DEF HeldKept, ClaimsKept
  <2>3. claim[w].delivery \in Delivery /\ EventOf(claim[w].delivery) \in EventId
    BY <2>2, BusyHolds, DeliveryParts
  <2>. QED
    BY <2>2, <2>3 DEF Leases, ClaimedBefore, HeldKept, EventsKept, AttemptsKept
<1>3. AttemptHasOneClaim'
  BY DEF Leases, AttemptHasOneClaim, HeldKept, ClaimsKept
<1>. QED
  BY <1>1, <1>2, <1>3 DEF Leases

LEMMA LeasesStep ==
  ASSUME TypeOK, TypeOK', Leases, [Next]_vars
  PROVE  Leases'
<1>1. \A d \in Delivery : delivery[d] \in DeliveryRecord
  BY DEF TypeOK
<1>2. \A d \in Delivery : EventOf(d) \in EventId
  BY DeliveryParts
<1>3. \A w \in DispatcherId : Busy(w) => claim[w].delivery \in Delivery /\ claim[w] \in Claim
  BY BusyHolds
<1>4. \A w \in DispatcherId : Punctual(w) =>
        /\ claim[w].delivery \in Delivery
        /\ delivery[claim[w].delivery].state = "delivering"
        /\ delivery[claim[w].delivery].lease > 0
        /\ event[EventOf(claim[w].delivery)] # "new"
  BY <1>3 DEF Leases, PunctualHoldsLease, ClaimedBefore, ValidDeliveryLease, Punctual
\* A step that touches neither claims nor what is in flight.
<1>5. ASSUME claim' = claim, EventsKept, AttemptsKept,
             \A d \in Delivery : /\ delivery[d].state = "delivering" /\ event[EventOf(d)] # "new"
                                 => delivery'[d] = delivery[d]
      PROVE  Leases'
  <2>1. ClaimsKept
    BY <1>5 DEF ClaimsKept, Busy
  <2>2. InFlightKept
    BY <1>4, <1>5 DEF InFlightKept
  <2>. QED
    BY <1>5, <2>1, <2>2, LeasesKept DEF HeldKept
<1>6. CASE UNCHANGED vars
  BY <1>5, <1>6 DEF EventsKept, AttemptsKept, vars
<1>7. ASSUME NEW s \in SubscriptionId, NEW enabled \in BOOLEAN, NEW f \in Filter,
             CreateSubscription(s, enabled, f) \/ UpdateSubscription(s, enabled, f)
      PROVE  Leases'
  BY <1>5, <1>7 DEF CreateSubscription, UpdateSubscription, EventsKept, AttemptsKept
<1>8. ASSUME NEW s \in SubscriptionId, DeleteSubscription(s) PROVE Leases'
  <2>1. \A d \in Delivery : LET canceled == [delivery[d] EXCEPT !.state = "canceled"]
                            IN canceled.attempt = delivery[d].attempt
    BY <1>1 DEF DeliveryRecord
  <2>2. AttemptsKept
    BY <1>8, <2>1, StatesApart DEF DeleteSubscription, AttemptsKept
  <2>. QED
    BY <1>5, <1>8, <2>2, StatesApart DEF DeleteSubscription, EventsKept
<1>9. ASSUME NEW e \in EventId, NEW subs, Emit(e, subs) PROVE Leases'
  <2>1. \A d \in Delivery : event[EventOf(d)] # "new" => delivery'[d] = delivery[d]
    BY <1>9 DEF Emit
  <2>. QED
    BY <1>5, <1>9, <2>1 DEF Emit, EventsKept, AttemptsKept, TypeOK
<1>10. ASSUME NEW r \in Delivery, RetryDelivery(r) PROVE Leases'
  <2>1. \A d \in Delivery : d # r => delivery'[d] = delivery[d]
    BY <1>10 DEF RetryDelivery, TypeOK
  <2>2. delivery'[r].attempt = delivery[r].attempt
    BY <1>1, <1>10 DEF RetryDelivery, TypeOK, DeliveryRecord
  <2>3. delivery[r].state \notin {"absent", "delivering"}
    BY <1>10 DEF RetryDelivery
  <2>4. claim' = claim /\ event' = event
    BY <1>10 DEF RetryDelivery
  <2>. QED
    BY <1>5, <2>1, <2>2, <2>3, <2>4 DEF EventsKept, AttemptsKept
<1>11. ASSUME NEW w \in DispatcherId, ClaimDelivery(w) PROVE Leases'
  <2> DEFINE Granted(d) == [delivery |-> d, attempt |-> delivery[d].attempt + 1,
                            answer |-> "none", late |-> FALSE]
  <2>1. PICK d \in Delivery : /\ Eligible(d) /\ event[EventOf(d)] = "stored"
                              /\ delivery' = [delivery EXCEPT ![d] = Claimed(w, d)]
                              /\ claim' = [claim EXCEPT ![w] = Granted(d)]
    BY <1>11, Zenon DEF ClaimDelivery, Foremost
  <2>2. event' = event /\ ~Busy(w)
    BY <1>11 DEF ClaimDelivery, Busy
  <2>3. /\ delivery'[d].state = "delivering" /\ delivery'[d].owner = WorkerOf[w]
        /\ delivery'[d].attempt = delivery[d].attempt + 1 /\ delivery'[d].lease = LeaseTTL
    BY <2>1, ClaimedFields DEF TypeOK
  <2>4. \A other \in Delivery : other # d => delivery'[other] = delivery[other]
    BY <2>1 DEF TypeOK
  <2>5. \A v \in DispatcherId : v # w => claim'[v] = claim[v]
    BY <2>1 DEF TypeOK
  <2>6. claim'[w] = Granted(d)
    BY <2>1 DEF TypeOK
  <2>7. claim'[w].delivery = d /\ claim'[w].attempt = delivery[d].attempt + 1
    BY <2>6
  <2>8. \A v \in DispatcherId : Punctual(v) => claim[v].delivery # d
    BY <1>4, <2>1, StatesApart DEF Eligible
  <2>9. delivery[d].state # "absent" /\ delivery[d].attempt \in Nat
    BY <1>1, <2>1, StatesApart DEF Eligible, DeliveryRecord
  <2>10. PunctualHoldsLease'
    <3>1. ValidDeliveryLease(w)' /\ delivery'[claim'[w].delivery].lease > 0
      BY <2>3, <2>7, DeliveryAssumption DEF ValidDeliveryLease
    <3>2. ASSUME NEW v \in DispatcherId, v # w, Punctual(v)'
          PROVE  ValidDeliveryLease(v)' /\ delivery'[claim'[v].delivery].lease > 0
      <4>1. Punctual(v) /\ claim'[v] = claim[v]
        BY <2>5, <3>2 DEF Punctual, Busy
      <4>2. delivery'[claim[v].delivery] = delivery[claim[v].delivery]
        BY <1>4, <2>4, <2>8, <4>1
      <4>. QED
        BY <4>1, <4>2 DEF Leases, PunctualHoldsLease, ValidDeliveryLease
    <3>. QED
      BY <3>1, <3>2 DEF PunctualHoldsLease
  <2>11. ClaimedBefore'
    <3>1. /\ event'[EventOf(claim'[w].delivery)] # "new"
          /\ claim'[w].attempt <= delivery'[claim'[w].delivery].attempt
      BY <2>1, <2>2, <2>3, <2>7, <2>9
    <3>2. ASSUME NEW v \in DispatcherId, v # w, Busy(v)'
          PROVE  /\ event'[EventOf(claim'[v].delivery)] # "new"
                 /\ delivery'[claim'[v].delivery].state # "absent"
                      => claim'[v].attempt <= delivery'[claim'[v].delivery].attempt
      <4>1. Busy(v) /\ claim'[v] = claim[v]
        BY <2>5, <3>2 DEF Busy
      <4>2. claim[v].attempt \in Nat /\ claim[v].delivery \in Delivery
        BY <4>1, BusyHolds
      <4>. QED
        BY <2>2, <2>3, <2>4, <2>9, <4>1, <4>2 DEF Leases, ClaimedBefore
    <3>. QED
      BY <3>1, <3>2 DEF ClaimedBefore
  <2>12. AttemptHasOneClaim'
    <3>1. ASSUME NEW v \in DispatcherId, v # w, Busy(v)', claim'[v].delivery = d
          PROVE  claim'[v].attempt # delivery[d].attempt + 1
      <4>1. Busy(v) /\ claim'[v] = claim[v]
        BY <2>5, <3>1 DEF Busy
      <4>2. claim[v].attempt \in Nat
        BY <4>1, BusyHolds
      <4>3. claim[v].attempt <= delivery[d].attempt
        BY <2>9, <3>1, <4>1 DEF Leases, ClaimedBefore
      <4>. QED
        BY <2>9, <4>1, <4>2, <4>3
    <3>2. ASSUME NEW u \in DispatcherId, NEW v \in DispatcherId, u # w, v # w, u # v,
                 Busy(u)', Busy(v)', claim'[u].delivery = claim'[v].delivery
          PROVE  claim'[u].attempt # claim'[v].attempt
      BY <2>5, <3>2 DEF Leases, AttemptHasOneClaim, Busy
    <3>. QED
      BY <2>7, <3>1, <3>2 DEF AttemptHasOneClaim
  <2>. QED
    BY <2>10, <2>11, <2>12 DEF Leases
<1>12. ASSUME NEW w \in DispatcherId, NEW answer \in Answer, Send(w, answer) PROVE Leases'
  <2>1. /\ Busy(w) /\ claim'[w].delivery = claim[w].delivery /\ claim'[w].late = claim[w].late
        /\ claim'[w].attempt = claim[w].attempt
    BY <1>3, <1>12 DEF Send, TypeOK, Claim
  <2>2. \A v \in DispatcherId : v # w => claim'[v] = claim[v]
    BY <1>12 DEF Send, TypeOK
  <2>3. ClaimsKept
    BY <2>1, <2>2 DEF ClaimsKept, Busy
  <2>4. event' = event /\ delivery' = delivery
    BY <1>12 DEF Send
  <2>. QED
    BY <1>4, <2>3, <2>4, LeasesKept DEF HeldKept, EventsKept, AttemptsKept, InFlightKept
<1>13. ASSUME NEW w \in DispatcherId, CompleteDelivery(w) PROVE Leases'
  <2>1. event' = event /\ ~Busy(w)' /\ Busy(w)
    BY <1>13 DEF CompleteDelivery, Busy, TypeOK
  <2>2. \A v \in DispatcherId : v # w => claim'[v] = claim[v]
    BY <1>13 DEF CompleteDelivery, TypeOK
  <2>3. ClaimsKept
    BY <2>1, <2>2 DEF ClaimsKept, Busy
  <2>4. AttemptsKept /\ InFlightKept
    <3>1. CASE delivery' = delivery
      BY <1>4, <3>1 DEF AttemptsKept, InFlightKept
    <3>2. ASSUME NEW d \in Delivery, NEW result \in Settled \union Waiting, NEW due,
                 d = claim[w].delivery, ValidDeliveryLease(w),
                 delivery' = [delivery EXCEPT ![d] = Recorded(d, result, due)]
          PROVE  AttemptsKept /\ InFlightKept
      <4>1. delivery'[d].attempt = delivery[d].attempt
        BY SMTT(30), <3>2, RecordedFields DEF TypeOK
      <4>2. \A other \in Delivery : other # d => delivery'[other] = delivery[other]
        BY <3>2 DEF TypeOK
      <4>3. delivery[d].state = "delivering" /\ delivery[d].attempt = claim[w].attempt
        BY <3>2 DEF ValidDeliveryLease
      <4>4. \A v \in DispatcherId : v # w /\ Punctual(v) => claim[v].delivery # d
        BY <2>1, <3>2, <4>3 DEF Leases, PunctualHoldsLease, AttemptHasOneClaim,
                                ValidDeliveryLease, Punctual
      <4>5. AttemptsKept
        BY <4>1, <4>2, <4>3 DEF AttemptsKept
      <4>6. InFlightKept
        BY <1>4, <2>1, <4>2, <4>4 DEF InFlightKept
      <4>. QED
        BY <4>5, <4>6
    <3>. QED
      BY <1>13, <3>1, <3>2, CompleteWrites, ResultTypes
  <2>. QED
    BY <2>1, <2>3, <2>4, LeasesKept DEF HeldKept, EventsKept
<1>14. ASSUME NEW w \in DispatcherId, Crash(w) PROVE Leases'
  <2>1. ~Busy(w)' /\ event' = event /\ delivery' = delivery
    BY <1>14 DEF Crash, Busy, TypeOK
  <2>2. \A v \in DispatcherId : v # w => claim'[v] = claim[v]
    BY <1>14 DEF Crash, TypeOK
  <2>3. ClaimsKept
    BY <2>1, <2>2 DEF ClaimsKept, Busy
  <2>. QED
    BY <1>4, <2>1, <2>3, LeasesKept DEF HeldKept, EventsKept, AttemptsKept, InFlightKept
<1>15. ASSUME NEW w \in DispatcherId, Stall(w) PROVE Leases'
  <2>1. /\ Busy(w) /\ claim'[w].delivery = claim[w].delivery /\ claim'[w].late
        /\ claim'[w].attempt = claim[w].attempt
    BY <1>3, <1>15 DEF Stall, TypeOK, Claim
  <2>2. \A v \in DispatcherId : v # w => claim'[v] = claim[v]
    BY <1>15 DEF Stall, TypeOK
  <2>3. ClaimsKept
    BY <2>1, <2>2 DEF ClaimsKept, Busy
  <2>4. event' = event /\ delivery' = delivery
    BY <1>15 DEF Stall
  <2>. QED
    BY <1>4, <2>3, <2>4, LeasesKept DEF HeldKept, EventsKept, AttemptsKept, InFlightKept
<1>16. CASE PruneWebhookData
  <2>1. \A d \in Delivery :
          \/ delivery'[d] = delivery[d]
          \/ delivery[d].state \in Settled /\ delivery'[d] = AbsentDelivery
    BY <1>16 DEF PruneWebhookData
  <2>2. claim' = claim /\ EventsKept
    BY <1>16 DEF PruneWebhookData, EventsKept
  <2>3. AttemptsKept
    BY <2>1, AbsentFields DEF AttemptsKept
  <2>. QED
    BY <1>5, <2>1, <2>2, <2>3, StatesApart
<1>17. CASE Tick
  <2>1. claim' = claim /\ event' = event
    BY <1>17 DEF Tick
  <2>2. \A w \in DispatcherId : Punctual(w) => delivery[claim[w].delivery].lease > 1
    BY <1>17 DEF Tick
  <2>3. InFlightKept
    BY <1>4, <1>17, <2>2, TickKeeps DEF InFlightKept
  <2>4. ClaimsKept /\ EventsKept
    BY <2>1 DEF ClaimsKept, EventsKept, Busy
  <2>5. AttemptsKept
    BY <1>17, TickKeeps DEF AttemptsKept
  <2>. QED
    BY <2>3, <2>4, <2>5, LeasesKept DEF HeldKept
<1>. QED
  BY <1>6, <1>7, <1>8, <1>9, <1>10, <1>11, <1>12, <1>13, <1>14, <1>15, <1>16, <1>17
  DEF Next, Operator, Dispatch, ReleaseEvent, CreateTestDelivery

-----------------------------------------------------------------------------
\* A step keeps the account of attempts when each delivery keeps its attempt and
\* goes on being held, or settles, or is new, or a mishap is counted.
AttemptKept(d) ==
  \/ /\ delivery'[d].attempt = delivery[d].attempt /\ mishaps' = mishaps
     /\ delivery'[d].state \in Waiting \union {"delivering"}
          => /\ delivery[d].state \in Waiting \union {"delivering"}
             /\ PunctuallyHeld(d) => PunctuallyHeld(d)'
  \/ delivery'[d].attempt = delivery[d].attempt /\ mishaps' = mishaps + 1
  \/ delivery'[d].attempt = 0 /\ mishaps' = mishaps

LEMMA AttemptsKeptStep ==
  ASSUME TypeOK, Attempts, \A d \in Delivery : AttemptKept(d)
  PROVE  Attempts'
<1>1. \A d \in Delivery : delivery[d].attempt \in Nat
  BY DEF TypeOK, DeliveryRecord
<1>2. mishaps \in Nat /\ MaxAttempts \in Nat \ {0}
  BY DeliveryAssumption DEF TypeOK
<1>3. ASSUME NEW d \in Delivery PROVE delivery'[d].attempt <= MaxAttempts + mishaps'
  BY <1>1, <1>2 DEF Attempts, AttemptsAccountedFor, AttemptKept
<1>4. ASSUME NEW d \in Delivery, delivery'[d].state \in Waiting \union {"delivering"},
             ~PunctuallyHeld(d)'
      PROVE  delivery'[d].attempt < MaxAttempts + mishaps'
  BY <1>1, <1>2, <1>4 DEF Attempts, AttemptsAccountedFor, AttemptsLeft, AttemptKept
<1>. QED
  BY <1>3, <1>4 DEF Attempts, AttemptsAccountedFor, AttemptsLeft

LEMMA AttemptsStep ==
  ASSUME TypeOK, TypeOK', Leases, Attempts, [Next]_vars
  PROVE  Attempts'
<1>1. \A d \in Delivery : delivery[d] \in DeliveryRecord
  BY DEF TypeOK
<1>2. \A w \in DispatcherId : Busy(w) => claim[w].delivery \in Delivery /\ claim[w] \in Claim
  BY BusyHolds
<1>3. ASSUME claim' = claim, NEW d \in Delivery PROVE PunctuallyHeld(d) => PunctuallyHeld(d)'
  BY <1>3 DEF PunctuallyHeld, Punctual, Busy
<1>4. ASSUME UNCHANGED <<delivery, claim, mishaps>> PROVE Attempts'
  BY <1>3, <1>4, AttemptsKeptStep DEF AttemptKept
<1>5. ASSUME NEW s \in SubscriptionId, DeleteSubscription(s) PROVE Attempts'
  <2>1. ASSUME NEW d \in Delivery PROVE AttemptKept(d)
    <3>1. LET canceled == [delivery[d] EXCEPT !.state = "canceled"]
          IN canceled.state = "canceled" /\ canceled.attempt = delivery[d].attempt
      BY <1>1 DEF DeliveryRecord
    <3>. QED
      BY <1>3, <1>5, <3>1, StatesApart DEF DeleteSubscription, AttemptKept
  <2>. QED
    BY <2>1, AttemptsKeptStep
<1>6. ASSUME NEW e \in EventId, NEW subs, Emit(e, subs) PROVE Attempts'
  <2>1. ASSUME NEW d \in Delivery PROVE AttemptKept(d)
    BY <1>3, <1>6, NewFields DEF Emit, AttemptKept
  <2>. QED
    BY <2>1, AttemptsKeptStep
<1>7. ASSUME NEW r \in Delivery, RetryDelivery(r) PROVE Attempts'
  <2>1. \A d \in Delivery : delivery'[d].attempt = delivery[d].attempt
    BY <1>1, <1>7 DEF RetryDelivery, TypeOK, DeliveryRecord
  <2>. QED
    BY <1>7, <2>1, AttemptsKeptStep DEF RetryDelivery, AttemptKept
<1>8. ASSUME NEW w \in DispatcherId, ClaimDelivery(w) PROVE Attempts'
  <2> DEFINE Granted(d) == [delivery |-> d, attempt |-> delivery[d].attempt + 1,
                            answer |-> "none", late |-> FALSE]
  <2>1. PICK d \in Delivery : /\ Eligible(d)
                              /\ delivery' = [delivery EXCEPT ![d] = Claimed(w, d)]
                              /\ claim' = [claim EXCEPT ![w] = Granted(d)]
    BY <1>8, Zenon DEF ClaimDelivery, Foremost
  <2>2. mishaps' = mishaps /\ ~Busy(w) /\ mishaps \in Nat /\ MaxAttempts \in Nat
    BY <1>8, DeliveryAssumption DEF ClaimDelivery, Busy, TypeOK
  <2>3. delivery'[d].attempt = delivery[d].attempt + 1 /\ delivery[d].attempt \in Nat
    BY <1>1, <2>1, ClaimedFields DEF TypeOK, DeliveryRecord
  <2>4. \A other \in Delivery : other # d => delivery'[other] = delivery[other]
    BY <2>1 DEF TypeOK
  <2>5. \A v \in DispatcherId : v # w => claim'[v] = claim[v]
    BY <2>1 DEF TypeOK
  <2>6. PunctuallyHeld(d)'
    <3>1. claim'[w] = Granted(d)
      BY <2>1 DEF TypeOK
    <3>2. claim'[w].delivery = d /\ ~claim'[w].late
      BY <3>1
    <3>3. claim'[w] # NoClaim
      <4>1. Granted(d) \in Claim
        BY <2>3 DEF Claim
      <4>. QED
        BY <3>1, <4>1, DeliveryAssumption
    <3>. QED
      BY <3>2, <3>3 DEF PunctuallyHeld, Punctual, Busy
  <2>7. ~PunctuallyHeld(d)
    BY <2>1, StatesApart DEF PunctuallyHeld, Leases, PunctualHoldsLease, ValidDeliveryLease, Eligible
  <2>8. delivery[d].attempt < MaxAttempts + mishaps
    BY <2>1, <2>7 DEF Attempts, AttemptsLeft, Eligible
  <2>9. \A other \in Delivery : PunctuallyHeld(other) => PunctuallyHeld(other)'
    BY <2>2, <2>5 DEF PunctuallyHeld, Punctual, Busy
  <2>10. AttemptsAccountedFor'
    BY <2>2, <2>3, <2>4, <2>8 DEF Attempts, AttemptsAccountedFor
  <2>11. AttemptsLeft'
    BY <2>2, <2>4, <2>6, <2>9 DEF Attempts, AttemptsLeft
  <2>. QED
    BY <2>10, <2>11 DEF Attempts
<1>9. ASSUME NEW w \in DispatcherId, NEW answer \in Answer, Send(w, answer) PROVE Attempts'
  <2>1. /\ Busy(w) /\ claim'[w].delivery = claim[w].delivery /\ claim'[w].late = claim[w].late
        /\ claim'[w] \in Claim
    BY <1>2, <1>9 DEF Send, TypeOK, Claim
  <2>2. \A v \in DispatcherId : v # w => claim'[v] = claim[v]
    BY <1>9 DEF Send, TypeOK
  <2>3. \A v \in DispatcherId : Punctual(v) => Punctual(v)' /\ claim'[v].delivery = claim[v].delivery
    BY <2>1, <2>2, DeliveryAssumption DEF Punctual, Busy
  <2>4. \A d \in Delivery : PunctuallyHeld(d) => PunctuallyHeld(d)'
    BY <2>3 DEF PunctuallyHeld
  <2>. QED
    BY <1>9, <2>4, AttemptsKeptStep DEF Send, AttemptKept
<1>10. ASSUME NEW w \in DispatcherId, CompleteDelivery(w) PROVE Attempts'
  <2>1. mishaps' = mishaps /\ Busy(w) /\ ~Busy(w)'
    BY <1>10 DEF CompleteDelivery, Busy, TypeOK
  <2>2. \A v \in DispatcherId : v # w => claim'[v] = claim[v]
    BY <1>10 DEF CompleteDelivery, TypeOK
  <2>3. \A d \in Delivery : d # claim[w].delivery \/ ~Punctual(w)
                              => (PunctuallyHeld(d) => PunctuallyHeld(d)')
    BY <2>2 DEF PunctuallyHeld, Punctual, Busy
  <2>4. CASE ~ValidDeliveryLease(w)
    <3>1. delivery' = delivery /\ ~Punctual(w)
      BY <1>10, <2>4 DEF CompleteDelivery, Leases, PunctualHoldsLease
    <3>. QED
      BY <2>1, <2>3, <3>1, AttemptsKeptStep DEF AttemptKept
  <2>5. CASE ValidDeliveryLease(w)
    <3> DEFINE d == claim[w].delivery
               result == ResultState(claim[w])
    <3>1. d \in Delivery /\ claim[w] \in Claim
      BY <1>2, <2>1
    <3>2. PICK due \in DueAfter(result) : delivery' = [delivery EXCEPT ![d] = Recorded(d, result, due)]
      BY <1>10, <2>5 DEF CompleteDelivery
    <3>3. /\ delivery'[d].attempt = delivery[d].attempt
          /\ delivery'[d].state = EffectiveState(d, result)
          /\ EffectiveState(d, result) \in Settled \union Waiting
      BY <3>1, <3>2, RecordedFields, ResultTypes DEF TypeOK
    <3>4. \A other \in Delivery : other # d => delivery'[other] = delivery[other]
      BY <3>1, <3>2 DEF TypeOK
    <3>5. delivery[d].attempt = claim[w].attempt /\ delivery[d].attempt \in Nat
      BY <1>1, <2>5, <3>1 DEF ValidDeliveryLease, DeliveryRecord
    <3>6. mishaps \in Nat /\ MaxAttempts \in Nat
      BY DeliveryAssumption DEF TypeOK
    <3>7. delivery'[d].state \in Waiting \union {"delivering"} => delivery[d].attempt < MaxAttempts
      <4>1. EffectiveState(d, result) \in {result, "canceled"}
        BY DEF EffectiveState
      <4>2. result \in Waiting => claim[w].attempt < MaxAttempts
        BY DEF ResultState, Waiting
      <4>. QED
        BY <3>3, <3>5, <4>1, <4>2, StatesApart
    <3>8. AttemptsAccountedFor'
      BY <2>1, <3>3, <3>4 DEF Attempts, AttemptsAccountedFor
    <3>9. AttemptsLeft'
      <4>1. ASSUME NEW other \in Delivery, other # d,
                   delivery'[other].state \in Waiting \union {"delivering"}, ~PunctuallyHeld(other)'
            PROVE  delivery'[other].attempt < MaxAttempts + mishaps'
        BY <2>1, <2>3, <3>4, <4>1 DEF Attempts, AttemptsLeft
      <4>2. delivery'[d].state \in Waiting \union {"delivering"}
              => delivery'[d].attempt < MaxAttempts + mishaps'
        BY <2>1, <3>3, <3>5, <3>6, <3>7
      <4>. QED
        BY <4>1, <4>2 DEF AttemptsLeft
    <3>. QED
      BY <3>8, <3>9 DEF Attempts
  <2>. QED
    BY <2>4, <2>5
<1>11. ASSUME NEW w \in DispatcherId, Crash(w) \/ Stall(w) PROVE Attempts'
  BY <1>11, AttemptsKeptStep DEF Crash, Stall, AttemptKept
<1>12. CASE PruneWebhookData
  <2>1. \A d \in Delivery : delivery'[d] \in {delivery[d], AbsentDelivery}
    BY <1>12 DEF PruneWebhookData
  <2>2. claim' = claim /\ mishaps' = mishaps
    BY <1>12 DEF PruneWebhookData
  <2>. QED
    BY <1>3, <2>1, <2>2, AbsentFields, AttemptsKeptStep DEF AttemptKept
<1>13. CASE Tick
  <2>1. claim' = claim /\ mishaps' = mishaps
    BY <1>13 DEF Tick
  <2>. QED
    BY <1>3, <1>13, <2>1, TickKeeps, AttemptsKeptStep DEF AttemptKept
<1>14. CASE UNCHANGED vars
  BY <1>4, <1>14 DEF vars
<1>15. ASSUME NEW s \in SubscriptionId, NEW enabled \in BOOLEAN, NEW f \in Filter,
              CreateSubscription(s, enabled, f) \/ UpdateSubscription(s, enabled, f)
       PROVE  Attempts'
  BY <1>4, <1>15 DEF CreateSubscription, UpdateSubscription
<1>. QED
  BY <1>5, <1>6, <1>7, <1>8, <1>9, <1>10, <1>11, <1>12, <1>13, <1>14, <1>15
  DEF Next, Operator, Dispatch, ReleaseEvent, CreateTestDelivery

-----------------------------------------------------------------------------
LEMMA InitInv == Init => DeliveryInv
<1> SUFFICES ASSUME Init PROVE DeliveryInv
  OBVIOUS
<1>1. \A d \in Delivery : delivery[d].state = "absent" /\ delivery[d].attempt = 0
  BY AbsentFields DEF Init
<1>2. \A w \in DispatcherId : ~Busy(w) /\ ~Punctual(w)
  BY DEF Init, Busy, Punctual
<1>3. ReferencesStored /\ DeletedNeverRetried
  BY <1>1, StatesApart DEF ReferencesStored, DeletedNeverRetried, Stored
<1>4. Leases
  BY <1>2 DEF Leases, PunctualHoldsLease, ClaimedBefore, AttemptHasOneClaim
<1>5. Attempts
  <2>1. mishaps = 0 /\ MaxAttempts \in Nat
    BY DeliveryAssumption DEF Init
  <2>. QED
    BY <1>1, <2>1, StatesApart DEF Attempts, AttemptsLeft, AttemptsAccountedFor
<1>. QED
  BY <1>3, <1>4, <1>5, InitType DEF DeliveryInv

LEMMA InvStep == DeliveryInv /\ [Next]_vars => DeliveryInv'
<1> SUFFICES ASSUME DeliveryInv, [Next]_vars PROVE DeliveryInv'
  OBVIOUS
<1>1. TypeOK'
  BY TypeStep DEF DeliveryInv
<1>. QED
  BY <1>1, ReferencesStep, DeletedStep, LeasesStep, AttemptsStep DEF DeliveryInv

\* DeliveryInvCorrect: the inductive invariant holds in every reachable state.
THEOREM DeliveryInvCorrect == Spec => []DeliveryInv
  BY InitInv, InvStep, PTL DEF Spec

\* ReferencesAlwaysStored: retention never removes an event or a subscription
\* that a stored delivery names, whatever the batch size and the cutoffs.
THEOREM ReferencesAlwaysStored == Spec => []ReferencesStored
<1>1. DeliveryInv => ReferencesStored
  BY DEF DeliveryInv
<1>. QED
  BY <1>1, DeliveryInvCorrect, PTL

\* DeletedStaysUnretried: a deletion racing dispatchers leaves nothing to retry.
THEOREM DeletedStaysUnretried == Spec => []DeletedNeverRetried
<1>1. DeliveryInv => DeletedNeverRetried
  BY DEF DeliveryInv
<1>. QED
  BY <1>1, DeliveryInvCorrect, PTL

\* PunctualSendersExclusive: two dispatchers that end their calls within the
\* lease never send one delivery at a time, even under one worker id.
THEOREM PunctualSendersExclusive == Spec => []OnePunctualSender
<1>1. DeliveryInv => OnePunctualSender
  BY DEF DeliveryInv, Leases, PunctualHoldsLease, AttemptHasOneClaim, OnePunctualSender,
         ValidDeliveryLease, Punctual
<1>. QED
  BY <1>1, DeliveryInvCorrect, PTL

\* AttemptsAlwaysAccountedFor: attempts beyond the maximum come from mishaps
\* only, one for each.
THEOREM AttemptsAlwaysAccountedFor == Spec => []AttemptsAccountedFor
<1>1. DeliveryInv => AttemptsAccountedFor
  BY DEF DeliveryInv, Attempts
<1>. QED
  BY <1>1, DeliveryInvCorrect, PTL

-----------------------------------------------------------------------------
LEMMA SupersededStep ==
  ASSUME TypeOK, [Next]_vars, NEW w \in DispatcherId,
         Busy(w), claim'[w] = NoClaim, delivery[claim[w].delivery].attempt # claim[w].attempt
  PROVE  delivery'[claim[w].delivery] = delivery[claim[w].delivery]
<1>1. claim'[w] # claim[w]
  BY DEF Busy
<1>2. ASSUME NEW v \in DispatcherId, CompleteDelivery(v)
      PROVE  delivery' = delivery
  <2>1. v = w
    BY <1>1, <1>2 DEF CompleteDelivery, TypeOK
  <2>. QED
    BY <1>2, <2>1 DEF CompleteDelivery, ValidDeliveryLease
<1>3. ASSUME NEW v \in DispatcherId, ClaimDelivery(v) PROVE FALSE
  <2>1. v # w
    BY <1>3 DEF ClaimDelivery, Busy
  <2>2. claim'[w] = claim[w]
    BY <1>3, <2>1 DEF ClaimDelivery, TypeOK
  <2>. QED
    BY <1>1, <2>2
<1>4. ASSUME NEW v \in DispatcherId,
             \/ \E answer \in Answer : Send(v, answer)
             \/ Crash(v) \/ Stall(v)
      PROVE  delivery' = delivery
  BY <1>4 DEF Send, Crash, Stall
<1>5. ASSUME claim' = claim PROVE FALSE
  BY <1>1, <1>5
<1>. QED
  BY <1>2, <1>3, <1>4, <1>5
  DEF Next, Operator, Dispatch, ReleaseEvent, CreateTestDelivery, Emit, CreateSubscription,
      UpdateSubscription, DeleteSubscription, RetryDelivery, PruneWebhookData, Tick, vars

\* SupersededAttemptsDropped: a dispatcher whose attempt was superseded never
\* writes its result, whichever dispatcher or worker id superseded it.
THEOREM SupersededAttemptsDropped == Spec => SupersededNeverRecords
<1>1. TypeOK /\ [Next]_vars =>
        [\A w \in DispatcherId :
           LET d == claim[w].delivery
           IN Busy(w) /\ claim'[w] = NoClaim /\ delivery[d].attempt # claim[w].attempt
              => delivery'[d] = delivery[d]]_vars
  BY SupersededStep
<1>. QED
  BY <1>1, DeliveriesTypeCorrect, PTL DEF Spec, SupersededNeverRecords

LEMMA SettledStep ==
  ASSUME TypeOK, [Next]_vars, NEW d \in Delivery, delivery[d].state \in Settled,
         event[EventOf(d)] # "new"
  PROVE  \/ delivery'[d].state \in {delivery[d].state, "absent"}
         \/ delivery[d].state = "failed" /\ delivery'[d].state = "retrying"
<1>1. \A x \in Delivery : delivery[x] \in DeliveryRecord
  BY DEF TypeOK
<1>2. ASSUME delivery'[d] = delivery[d] PROVE delivery'[d].state = delivery[d].state
  BY <1>2
<1>3. ASSUME NEW s \in SubscriptionId, DeleteSubscription(s) PROVE delivery'[d] = delivery[d]
  BY <1>3, StatesApart DEF DeleteSubscription
<1>4. ASSUME NEW e \in EventId, NEW subs, Emit(e, subs) PROVE delivery'[d] = delivery[d]
  BY <1>4 DEF Emit
<1>5. ASSUME NEW r \in Delivery, RetryDelivery(r)
      PROVE  \/ delivery'[d] = delivery[d]
             \/ delivery[d].state = "failed" /\ delivery'[d].state = "retrying"
  BY <1>1, <1>5 DEF RetryDelivery, TypeOK, DeliveryRecord
<1>6. ASSUME NEW w \in DispatcherId, ClaimDelivery(w) PROVE delivery'[d] = delivery[d]
  BY <1>6, StatesApart DEF ClaimDelivery, Foremost, Eligible, TypeOK
<1>7. ASSUME NEW w \in DispatcherId, CompleteDelivery(w) PROVE delivery'[d] = delivery[d]
  <2>1. ValidDeliveryLease(w) => claim[w].delivery # d
    BY StatesApart DEF ValidDeliveryLease
  <2>. QED
    BY <1>7, <2>1, CompleteWrites DEF TypeOK
<1>8. ASSUME NEW w \in DispatcherId,
             \/ \E answer \in Answer : Send(w, answer)
             \/ Crash(w) \/ Stall(w)
      PROVE  delivery'[d] = delivery[d]
  BY <1>8 DEF Send, Crash, Stall
<1>9. CASE PruneWebhookData
  BY <1>9, AbsentFields DEF PruneWebhookData
<1>10. CASE Tick
  BY <1>10, TickKeeps
<1>. QED
  BY <1>2, <1>3, <1>4, <1>5, <1>6, <1>7, <1>8, <1>9, <1>10
  DEF Next, Operator, Dispatch, ReleaseEvent, CreateTestDelivery, CreateSubscription,
      UpdateSubscription, vars

\* SettledDeliveriesStay: what was delivered or canceled is never sent again,
\* and what was given up only when an operator asks.
THEOREM SettledDeliveriesStay == Spec => SettledStays
<1> DEFINE Stays == \A d \in Delivery :
       /\ delivery[d].state \in {"succeeded", "canceled"}
            => delivery'[d].state \in {delivery[d].state, "absent"}
       /\ delivery[d].state = "failed"
            => delivery'[d].state \in {"failed", "retrying", "absent"}
<1>1. DeliveryInv /\ [Next]_vars => Stays
  <2> SUFFICES ASSUME DeliveryInv, [Next]_vars, NEW d \in Delivery, delivery[d].state \in Settled
               PROVE  \/ delivery'[d].state \in {delivery[d].state, "absent"}
                      \/ delivery[d].state = "failed" /\ delivery'[d].state = "retrying"
    BY DEF Settled
  <2>1. event[EventOf(d)] = "stored"
    BY StatesApart DEF DeliveryInv, ReferencesStored, Stored
  <2>. QED
    BY <2>1, SettledStep DEF DeliveryInv
<1>2. DeliveryInv /\ [Next]_vars => [Stays]_vars
  BY <1>1
<1>. QED
  BY <1>2, DeliveryInvCorrect, PTL DEF Spec, SettledStays
=============================================================================
