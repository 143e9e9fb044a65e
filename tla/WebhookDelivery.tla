--------------------------- MODULE WebhookDelivery ---------------------------
(***************************************************************************)
(* Control-plane webhooks: the subscriptions, events and deliveries that   *)
(* internal/state keeps in its snapshot, and the dispatchers of            *)
(* internal/webhook that claim a delivery under a lease, send it and record*)
(* the result.  An operation of the store is one step; a dispatcher may    *)
(* crash or stall between two of its steps.                                *)
(*                                                                         *)
(* Times are kept relative to the clock, so that it never has to stop: due *)
(* is NextAttemptAt - now and lease is LeaseExpiresAt - now.  Retention    *)
(* cutoffs are the operator's; any settled delivery may be past them.      *)
(* Endpoints, secrets, names, audits and response details are left out; a  *)
(* name conflict only refuses a call.                                      *)
(***************************************************************************)
EXTENDS Integers, FiniteSets

CONSTANTS
  SubscriptionId, EventId, DispatcherId, NoClaim,
  WorkerId, NoWorker,
  WorkerOf,      \* the --worker-id of each dispatcher; replicas may share one
  App, Filter,   \* filters of a subscription: [types, apps], apps = {} is every app
  LeaseTTL,      \* --lease, longer than the request timeout
  MaxAttempts,   \* --max-attempts
  MaxDelay,      \* backoff ceiling
  BatchSize,     \* --retention-batch-size
  Horizon,       \* bound: a deadline passed this long ago is not told from older ones
  MaxMishaps     \* bound: crashes, stalls and manual retries of one behaviour

EventType == {"release.published", "release.rolled_back"}
FilterRecord == [types : SUBSET EventType, apps : SUBSET App]
NoFilter == [types |-> {}, apps |-> {}]

Delivery == EventId \X SubscriptionId
EventOf(d) == d[1]
SubscriptionOf(d) == d[2]

Settled == {"succeeded", "failed", "canceled"}
Waiting == {"pending", "retrying"}
Answer  == {"succeeded", "retry", "terminal"}

SubscriptionRecord == [state : {"new", "live", "deleted", "pruned"},
                       enabled : BOOLEAN, filter : FilterRecord]
DeliveryRecord == [state : Settled \union Waiting \union {"absent", "delivering"},
                   attempt : Nat, owner : WorkerId \union {NoWorker},
                   lease : 0..LeaseTTL, due : (-Horizon)..MaxDelay]

\* What a dispatcher's ProcessOne holds: the delivery, the attempt its lease
\* names, the receiver's answer once there is one, and whether it is late.
Claim == [delivery : Delivery, attempt : Nat, answer : Answer \union {"none"}, late : BOOLEAN]

ASSUME DeliveryAssumption ==
  /\ NoClaim \notin Claim /\ NoWorker \notin WorkerId
  /\ WorkerOf \in [DispatcherId -> WorkerId]
  /\ Filter \subseteq FilterRecord /\ \A f \in Filter : f.types # {}
  /\ LeaseTTL \in Nat \ {0} /\ MaxAttempts \in Nat \ {0} /\ BatchSize \in Nat \ {0}
  /\ MaxDelay \in Nat /\ Horizon \in Nat /\ MaxMishaps \in Nat

VARIABLES
  subscription,  \* Snapshot.WebhookSubscriptions
  event,         \* Snapshot.ControlPlaneEvents
  delivery,      \* Snapshot.WebhookDeliveries, one for an event and a subscription
  claim,         \* what each dispatcher's ProcessOne holds
  mishaps        \* bound: crashes, stalls and manual retries so far

vars == <<subscription, event, delivery, claim, mishaps>>

AbsentDelivery == [state |-> "absent", attempt |-> 0, owner |-> NoWorker,
                   lease |-> 0, due |-> 0]
NewDelivery == [AbsentDelivery EXCEPT !.state = "pending"]

(* One invariant says what every variable holds.                           *)
TypeOK ==
  /\ subscription \in [SubscriptionId -> SubscriptionRecord]
  /\ event \in [EventId -> {"new", "stored", "pruned"}]
  /\ delivery \in [Delivery -> DeliveryRecord]
  /\ claim \in [DispatcherId -> Claim \union {NoClaim}]
  /\ mishaps \in 0..MaxMishaps

Init ==
  /\ subscription = [s \in SubscriptionId |->
                       [state |-> "new", enabled |-> FALSE, filter |-> NoFilter]]
  /\ event = [e \in EventId |-> "new"]
  /\ delivery = [d \in Delivery |-> AbsentDelivery]
  /\ claim = [w \in DispatcherId |-> NoClaim]
  /\ mishaps = 0

-----------------------------------------------------------------------------
(* Subscriptions and the outbox                                             *)

Live(s) == subscription[s].state = "live"
Deliverable(s) == Live(s) /\ subscription[s].enabled

Matches(s, type, app) ==
  /\ Deliverable(s)
  /\ type \in subscription[s].filter.types
  /\ subscription[s].filter.apps = {} \/ app \in subscription[s].filter.apps

CreateSubscription(s, enabled, f) ==
  /\ subscription[s].state = "new"
  /\ subscription' = [subscription EXCEPT ![s] =
                        [state |-> "live", enabled |-> enabled, filter |-> f]]
  /\ UNCHANGED <<event, delivery, claim, mishaps>>

UpdateSubscription(s, enabled, f) ==
  /\ Live(s)
  /\ subscription' = [subscription EXCEPT ![s].enabled = enabled, ![s].filter = f]
  /\ UNCHANGED <<event, delivery, claim, mishaps>>

\* A delivery in flight is left to its dispatcher.
DeleteSubscription(s) ==
  /\ Live(s)
  /\ subscription' = [subscription EXCEPT ![s].state = "deleted", ![s].enabled = FALSE]
  /\ delivery' = [d \in Delivery |->
                    IF SubscriptionOf(d) = s /\ delivery[d].state \in Waiting
                    THEN [delivery[d] EXCEPT !.state = "canceled"] ELSE delivery[d]]
  /\ UNCHANGED <<event, claim, mishaps>>

\* An event and its deliveries are written with the change it reports.
Emit(e, subscribers) ==
  /\ event[e] = "new"
  /\ event' = [event EXCEPT ![e] = "stored"]
  /\ delivery' = [d \in Delivery |->
                    IF EventOf(d) = e /\ SubscriptionOf(d) \in subscribers
                    THEN NewDelivery ELSE delivery[d]]
  /\ UNCHANGED <<subscription, claim, mishaps>>

ReleaseEvent(e, type, app) == Emit(e, {s \in SubscriptionId : Matches(s, type, app)})

CreateTestDelivery(e, s) == Deliverable(s) /\ Emit(e, {s})

\* A delivery that was given up is queued again by hand; its attempts still count.
RetryDelivery(d) ==
  /\ delivery[d].state = "failed" /\ Deliverable(SubscriptionOf(d))
  /\ mishaps < MaxMishaps /\ mishaps' = mishaps + 1
  /\ delivery' = [delivery EXCEPT ![d] = [@ EXCEPT !.state = "retrying", !.due = 0,
                                          !.owner = NoWorker, !.lease = 0]]
  /\ UNCHANGED <<subscription, event, claim>>

-----------------------------------------------------------------------------
(* A dispatcher: claim, send, record                                        *)

\* Fault: what is in flight is eligible whether or not its lease has lapsed.
EligibleInFlightFault(d) ==
  /\ Deliverable(SubscriptionOf(d))
  /\ delivery[d].state \in Waiting \union {"delivering"} /\ delivery[d].due <= 0

\* Fault: what a crashed dispatcher left in flight is never taken up.
EligibleWaitingFault(d) ==
  Deliverable(SubscriptionOf(d)) /\ delivery[d].state \in Waiting /\ delivery[d].due <= 0

Eligible(d) ==
  /\ Deliverable(SubscriptionOf(d))
  /\ \/ delivery[d].state \in Waiting /\ delivery[d].due <= 0
     \/ delivery[d].state = "delivering" /\ delivery[d].lease = 0

\* The earliest NextAttemptAt goes first; CreatedAt, which breaks ties, is not kept.
Foremost(d) ==
  /\ Eligible(d)
  /\ \A other \in Delivery : Eligible(other) => delivery[d].due <= delivery[other].due

Claimed(w, d) ==
  [delivery[d] EXCEPT !.state = "delivering", !.attempt = @ + 1,
                      !.owner = WorkerOf[w], !.lease = LeaseTTL]

ClaimDelivery(w) ==
  /\ claim[w] = NoClaim
  /\ \E d \in Delivery :
       /\ Foremost(d) /\ event[EventOf(d)] = "stored"
       /\ delivery' = [delivery EXCEPT ![d] = Claimed(w, d)]
       /\ claim' = [claim EXCEPT ![w] = [delivery |-> d, attempt |-> delivery[d].attempt + 1,
                                         answer |-> "none", late |-> FALSE]]
  /\ UNCHANGED <<subscription, event, mishaps>>

Busy(w) == claim[w] # NoClaim

Send(w, answer) ==
  /\ Busy(w) /\ claim[w].answer = "none"
  /\ claim' = [claim EXCEPT ![w].answer = answer]
  /\ UNCHANGED <<subscription, event, delivery, mishaps>>

\* Fault: one attempt too many.
ResultStateFault(c) ==
  CASE c.answer = "succeeded" -> "succeeded"
    [] c.answer = "retry" /\ c.attempt <= MaxAttempts -> "retrying"
    [] OTHER -> "failed"

\* The state deliveryResult asks for; the last attempt is not retried.
ResultState(c) ==
  CASE c.answer = "succeeded" -> "succeeded"
    [] c.answer = "retry" /\ c.attempt < MaxAttempts -> "retrying"
    [] OTHER -> "failed"

\* The attempt stands for the lease: the code compares ExpiresAt as well.
ValidDeliveryLease(w) ==
  LET held == delivery[claim[w].delivery]
  IN /\ held.state = "delivering" /\ held.owner = WorkerOf[w]
     /\ held.attempt = claim[w].attempt

\* A deleted subscription gets no further attempt.
EffectiveState(d, result) ==
  IF result = "retrying" /\ subscription[SubscriptionOf(d)].state = "deleted"
  THEN "canceled" ELSE result

Recorded(d, result, due) ==
  [delivery[d] EXCEPT !.state = EffectiveState(d, result), !.due = due,
                      !.owner = NoWorker, !.lease = 0]

\* A result that asks for no retry leaves NextAttemptAt zero, long past.
DueAfter(result) == IF result = "retrying" THEN 0..MaxDelay ELSE {-Horizon}

\* A result under a lease that is no longer valid is dropped.
CompleteDelivery(w) ==
  /\ Busy(w) /\ claim[w].answer # "none"
  /\ claim' = [claim EXCEPT ![w] = NoClaim]
  /\ IF ValidDeliveryLease(w)
     THEN \E due \in DueAfter(ResultState(claim[w])) :
            delivery' = [delivery EXCEPT ![claim[w].delivery] =
                           Recorded(claim[w].delivery, ResultState(claim[w]), due)]
     ELSE UNCHANGED delivery
  /\ UNCHANGED <<subscription, event, mishaps>>

\* The process stops, or the store refuses its result; a supervisor restarts it.
Crash(w) ==
  /\ Busy(w) /\ mishaps < MaxMishaps
  /\ claim' = [claim EXCEPT ![w] = NoClaim]
  /\ mishaps' = mishaps + 1
  /\ UNCHANGED <<subscription, event, delivery>>

\* A pause longer than the lease: from here on this call may end at any time.
Stall(w) ==
  /\ Busy(w) /\ ~claim[w].late /\ mishaps < MaxMishaps
  /\ claim' = [claim EXCEPT ![w].late = TRUE]
  /\ mishaps' = mishaps + 1
  /\ UNCHANGED <<subscription, event, delivery>>

-----------------------------------------------------------------------------
(* Retention and time                                                       *)

Stored == {d \in Delivery : delivery[d].state # "absent"}

\* Events no delivery is left of, and deleted subscriptions that have none.
OrphanEvents(kept) == {e \in EventId : event[e] = "stored" /\ \A d \in kept : EventOf(d) # e}
DeletedSubscriptions == {s \in SubscriptionId : subscription[s].state = "deleted"}
\* Fault: a deleted subscription goes while a delivery still names it.
UnusedSubscriptionsFault(kept) == DeletedSubscriptions
UnusedSubscriptions(kept) == {s \in DeletedSubscriptions : \A d \in kept : SubscriptionOf(d) # s}

\* One batch: settled deliveries past their cutoff, then orphan events, then
\* unused subscriptions past theirs.
PruneWebhookData ==
  \E expired \in SUBSET {d \in Delivery : delivery[d].state \in Settled} :
    \E events \in SUBSET OrphanEvents(Stored \ expired),
       gone \in SUBSET UnusedSubscriptions(Stored \ expired) :
      /\ Cardinality(expired) + Cardinality(events) + Cardinality(gone) <= BatchSize
      /\ events # OrphanEvents(Stored \ expired)
           => Cardinality(expired) + Cardinality(events) = BatchSize
      /\ delivery' = [d \in Delivery |-> IF d \in expired THEN AbsentDelivery ELSE delivery[d]]
      /\ event' = [e \in EventId |-> IF e \in events THEN "pruned" ELSE event[e]]
      /\ subscription' = [s \in SubscriptionId |->
                               IF s \in gone THEN [subscription[s] EXCEPT !.state = "pruned"]
                               ELSE subscription[s]]
      /\ UNCHANGED <<claim, mishaps>>

\* A call that is not late ends before its lease does: the lease is longer
\* than the request timeout, or newWebhookDispatcher refuses to start.
Punctual(w) == Busy(w) /\ ~claim[w].late

Tick ==
  /\ \A w \in DispatcherId : Punctual(w) => delivery[claim[w].delivery].lease > 1
  /\ delivery' = [d \in Delivery |->
       IF delivery[d].state = "absent" THEN delivery[d]
       ELSE [delivery[d] EXCEPT !.lease = IF @ > 0 THEN @ - 1 ELSE 0,
                                !.due = IF @ > -Horizon THEN @ - 1 ELSE @]]
  /\ UNCHANGED <<subscription, event, claim, mishaps>>

Dispatch(w) == ClaimDelivery(w) \/ (\E answer \in Answer : Send(w, answer)) \/ CompleteDelivery(w)

Operator ==
  \/ \E s \in SubscriptionId : DeleteSubscription(s)
  \/ \E s \in SubscriptionId, enabled \in BOOLEAN, f \in Filter :
       CreateSubscription(s, enabled, f) \/ UpdateSubscription(s, enabled, f)
  \/ \E e \in EventId, type \in EventType, app \in App : ReleaseEvent(e, type, app)
  \/ \E e \in EventId, s \in SubscriptionId : CreateTestDelivery(e, s)
  \/ \E d \in Delivery : RetryDelivery(d)

Next ==
  \/ Operator
  \/ \E w \in DispatcherId : Dispatch(w) \/ Crash(w) \/ Stall(w)
  \/ PruneWebhookData
  \/ Tick

Spec == Init /\ [][Next]_vars

\* Time passes, and every dispatcher keeps polling and finishes what it began.
FairSpec == Spec /\ WF_vars(Tick) /\ \A w \in DispatcherId : WF_vars(Dispatch(w))

-----------------------------------------------------------------------------
(* Properties                                                               *)

(* Retention never takes the event or the subscription of a stored delivery:*)
(* an operator who lists it, or a dispatcher who sends it, finds both.      *)
ReferencesStored ==
  \A d \in Stored :
    /\ event[EventOf(d)] = "stored"
    /\ subscription[SubscriptionOf(d)].state \in {"live", "deleted"}

(* Deleting a subscription ends its retries: what waits is canceled at once *)
(* and what is in flight records its result without another attempt.        *)
DeletedNeverRetried ==
  \A d \in Delivery :
    subscription[SubscriptionOf(d)].state = "deleted" => delivery[d].state \notin Waiting

(* Only a dispatcher that is late can make a receiver hear one delivery     *)
(* twice at a time: no two punctual dispatchers ever hold the same one.     *)
OnePunctualSender ==
  \A v, w \in DispatcherId :
    v # w /\ Punctual(v) /\ Punctual(w) => claim[v].delivery # claim[w].delivery

(* A delivery is attempted MaxAttempts times and once more for each crash,  *)
(* late call or manual retry, never more.                                   *)
AttemptsAccountedFor == \A d \in Delivery : delivery[d].attempt <= MaxAttempts + mishaps

(* The result of an attempt that another attempt has superseded is dropped, *)
(* even where replicas run under one worker id.                             *)
SupersededNeverRecords ==
  [][\A w \in DispatcherId :
       LET d == claim[w].delivery
       IN Busy(w) /\ claim'[w] = NoClaim /\ delivery[d].attempt # claim[w].attempt
          => delivery'[d] = delivery[d]]_vars

(* A succeeded or canceled delivery keeps its state until retention takes   *)
(* it, and a failed one until it is retried by hand or taken.               *)
SettledStays ==
  [][\A d \in Delivery :
       /\ delivery[d].state \in {"succeeded", "canceled"}
            => delivery'[d].state \in {delivery[d].state, "absent"}
       /\ delivery[d].state = "failed"
            => delivery'[d].state \in {"failed", "retrying", "absent"}]_vars

(* Every delivery of a subscription that stays enabled is settled in the    *)
(* end, through crashes, stalls and retries.                                *)
EventuallySettled ==
  \A d \in Delivery :
    delivery[d].state \in Waiting \union {"delivering"}
      ~> (delivery[d].state \notin Waiting \union {"delivering"}
            \/ ~Deliverable(SubscriptionOf(d)))

-----------------------------------------------------------------------------
(* A statement of the release webhook plan that the outbox does not keep:   *)
(* README.md.                                                               *)

\* An expired delivering delivery is put back, also when its subscription is gone.
Lapsed(d) == delivery[d].state = "delivering" /\ delivery[d].lease = 0
LapsedIsReclaimed == \A d \in Delivery : Lapsed(d) ~> ~Lapsed(d)

=============================================================================
