------------------------------ MODULE PgWebhook ------------------------------
(***************************************************************************)
(* The outbox in Postgres (internal/state/postgres_webhook.go): every      *)
(* operation is a READ COMMITTED transaction of a few statements, and what *)
(* keeps two of them apart are the row locks that the statements take.     *)
(*                                                                         *)
(* A statement sees what was committed when it began; where it waits for a *)
(* row it looks at the row again.  What a transaction writes appears when  *)
(* it commits.  Beginning a transaction that has to wait for its first     *)
(* lock is left out: it holds nothing that another could wait for.  The    *)
(* clock is left out: a waiting delivery may be due or not, a lease may    *)
(* have lapsed or not, and a settled delivery may be past its cutoff.      *)
(***************************************************************************)
EXTENDS WebhookTables, FiniteSets

CONSTANTS
  Session,      \* the connections: servers, dispatchers, maintenance
  NoEvent,
  MaxAttempts   \* bound of the model: claims of one delivery

ASSUME SessionAssumption == NoEvent \notin EventId /\ MaxAttempts \in Nat

VARIABLE tx     \* the transaction of a session: its locks, and what it is to write

vars == <<tables, tx>>

\* todo: the rows that its statement is still to lock; seen: the subscriptions that
\* its statement saw enabled; to: the value it writes, or the subscribers it found.
NoTx == [op |-> "none", event |-> NoEvent, excl |-> {}, share |-> {}, rows |-> {},
         todo |-> {}, seen |-> {}, to |-> {}, events |-> {}]

TypeOK ==
  /\ subscription \in [SubscriptionId -> Live \union {"new", "deleted", "pruned"}]
  /\ event \in [EventId -> {"new", "stored", "pruned"}]
  /\ delivery \in [Delivery -> [state: Waiting \union Settled \union {"absent", "delivering"},
                                attempt: 0..MaxAttempts]]
  /\ \A p \in Session :
       /\ tx[p].op \in {"none", "emit", "update", "delete", "cancel", "test", "claim",
                        "complete", "record", "retry", "requeue", "prune", "events", "gone"}
       /\ tx[p].excl \subseteq SubscriptionId /\ tx[p].share \subseteq SubscriptionId
       /\ tx[p].rows \subseteq Delivery /\ tx[p].event \in EventId \union {NoEvent}
  \* A row that is locked to be written is locked by one transaction only.
  /\ \A p, q \in Session : p # q =>
       /\ tx[p].excl \cap (tx[q].excl \union tx[q].share) = {}
       /\ tx[p].rows \cap tx[q].rows = {}

PgInit == Init /\ tx = [p \in Session |-> NoTx]

Others(p) == Session \ {p}
Sharable(p, s) == \A q \in Others(p) : s \notin tx[q].excl
Lockable(p, s) == Sharable(p, s) /\ \A q \in Others(p) : s \notin tx[q].share
RowFree(p, d) == \A q \in Others(p) : d \notin tx[q].rows

In(p, op) == tx[p].op = op
Begin(p, t) == In(p, "none") /\ tx' = [tx EXCEPT ![p] = t]
Goon(p, t) == tx' = [tx EXCEPT ![p] = t]
Commit(p) == tx' = [tx EXCEPT ![p] = NoTx]
Fresh(e) == event[e] = "new" /\ \A q \in Session : tx[q].event # e

\* A failure of any statement, or of the session: nothing of the transaction stays.
Rollback(p) == ~In(p, "none") /\ Commit(p) /\ UNCHANGED tables

----------------------------------------------------------------------------
(* Events                                                                   *)

CreateSubscription(s) == (\E to \in Live : Create(s, to)) /\ UNCHANGED tx

\* A release is published or rolled back; its event goes to who is enabled.
BeginEmit(p, e) ==
  /\ Fresh(e)
  /\ LET found == {s \in SubscriptionId : Enabled(s)} IN
       Begin(p, [NoTx EXCEPT !.op = "emit", !.event = e, !.seen = found, !.todo = found])
  /\ UNCHANGED tables

\* Fault: a subscription that was changed while this waited is left out.
ShareSubscriberDropsFault(p, s) ==
  /\ In(p, "emit") /\ s \in tx[p].todo
  /\ Goon(p, [tx[p] EXCEPT !.todo = @ \ {s}, !.share = IF Sharable(p, s) THEN @ \union {s} ELSE @,
                           !.to = IF Enabled(s) /\ Sharable(p, s) THEN @ \union {s} ELSE @])
  /\ UNCHANGED tables

ShareSubscriber(p, s) ==
  /\ In(p, "emit") /\ s \in tx[p].todo /\ Sharable(p, s)
  /\ Goon(p, [tx[p] EXCEPT !.todo = @ \ {s}, !.share = @ \union {s},
                           !.to = IF Enabled(s) THEN @ \union {s} ELSE @])
  /\ UNCHANGED tables

\* The event and the deliveries that were queued with it.
Queued(e, subscribers) ==
  /\ event' = [event EXCEPT ![e] = "stored"]
  /\ delivery' = [d \in Delivery |-> IF d[1] = e /\ d[2] \in subscribers
                                     THEN [state |-> "pending", attempt |-> 0] ELSE delivery[d]]
  /\ UNCHANGED subscription

CommitEmit(p) ==
  /\ In(p, "emit") /\ tx[p].todo = {}
  /\ Queued(tx[p].event, tx[p].to) /\ Commit(p)

CreateTestDelivery(p, s, e) ==
  /\ Fresh(e) /\ Lockable(p, s) /\ Enabled(s)
  /\ Begin(p, [NoTx EXCEPT !.op = "test", !.event = e, !.excl = {s}])
  /\ UNCHANGED tables

CommitTest(p) == In(p, "test") /\ Queued(tx[p].event, tx[p].excl) /\ Commit(p)

----------------------------------------------------------------------------
(* Subscriptions                                                            *)

UpdateSubscription(p, s, to) ==
  /\ subscription[s] \in Live /\ Lockable(p, s)
  /\ Begin(p, [NoTx EXCEPT !.op = "update", !.excl = {s}, !.to = {to}])
  /\ UNCHANGED tables

CommitUpdate(p) ==
  /\ In(p, "update") /\ Commit(p)
  /\ \E s \in tx[p].excl, to \in tx[p].to : Goes(s, to)
  /\ UNCHANGED <<event, delivery>>

DeleteSubscription(p, s) ==
  /\ subscription[s] \in Live /\ Lockable(p, s)
  /\ Begin(p, [NoTx EXCEPT !.op = "delete", !.excl = {s}])
  /\ UNCHANGED tables

\* Fault: deliveries in flight are canceled as well.
CancelableInFlightFault == Waiting \union {"delivering"}
Cancelable == Waiting

\* The second statement: it looks for what waits, and locks it row by row.
FindWaiting(p) ==
  /\ In(p, "delete")
  /\ Goon(p, [tx[p] EXCEPT !.op = "cancel",
                !.todo = {d \in Delivery : d[2] \in tx[p].excl /\ delivery[d].state \in Cancelable}])
  /\ UNCHANGED tables

LockWaiting(p, d) ==
  /\ In(p, "cancel") /\ d \in tx[p].todo /\ RowFree(p, d)
  /\ Goon(p, [tx[p] EXCEPT !.todo = @ \ {d}, !.rows = @ \union {d}])
  /\ UNCHANGED tables

CommitDelete(p) ==
  /\ In(p, "cancel") /\ tx[p].todo = {} /\ Commit(p)
  /\ \E s \in tx[p].excl : Goes(s, "deleted")
  /\ delivery' = [d \in Delivery |->
       IF d \in tx[p].rows /\ delivery[d].state \in Cancelable
       THEN [delivery[d] EXCEPT !.state = "canceled"] ELSE delivery[d]]
  /\ UNCHANGED event

----------------------------------------------------------------------------
(* Deliveries                                                               *)

\* FOR UPDATE OF d, s SKIP LOCKED: it takes what is free and never waits.
ClaimDelivery(p, d) ==
  /\ Enabled(d[2]) /\ delivery[d].state \in Waiting \union {"delivering"}
  /\ delivery[d].attempt < MaxAttempts
  /\ RowFree(p, d) /\ Lockable(p, d[2])
  /\ Begin(p, [NoTx EXCEPT !.op = "claim", !.rows = {d}, !.excl = {d[2]}])
  /\ UNCHANGED tables

CommitClaim(p) ==
  /\ In(p, "claim") /\ Commit(p)
  /\ \E d \in tx[p].rows :
       delivery' = [delivery EXCEPT ![d] = [state |-> "delivering", attempt |-> @.attempt + 1]]
  /\ UNCHANGED <<subscription, event>>

\* The attempt stands for the lease, as in WebhookDelivery.
ValidLease(d, attempt) == delivery[d].state = "delivering" /\ delivery[d].attempt = attempt

\* Whoever claimed the delivery once may come with its result, however late.
CompleteDelivery(p, d, attempt, result) ==
  /\ delivery[d] # Absent /\ RowFree(p, d) /\ ValidLease(d, attempt)
  /\ Begin(p, [NoTx EXCEPT !.op = "complete", !.rows = {d}, !.to = {result}])
  /\ UNCHANGED tables

\* Fault: whether the subscription is deleted is read without FOR SHARE.
ReadDeletedUnlockedFault(p) ==
  /\ In(p, "complete")
  /\ \E d \in tx[p].rows, result \in tx[p].to :
       Goon(p, [tx[p] EXCEPT !.op = "record", !.to =
                  {IF result = "retrying" /\ subscription[d[2]] = "deleted" THEN "canceled" ELSE result}])
  /\ UNCHANGED tables

ReadDeleted(p) ==
  /\ In(p, "complete")
  /\ \E d \in tx[p].rows, result \in tx[p].to :
       /\ Sharable(p, d[2])
       /\ Goon(p, [tx[p] EXCEPT !.op = "record", !.share = {d[2]}, !.to =
                  {IF result = "retrying" /\ subscription[d[2]] = "deleted" THEN "canceled" ELSE result}])
  /\ UNCHANGED tables

CommitComplete(p) ==
  /\ In(p, "record") /\ Commit(p)
  /\ \E d \in tx[p].rows, to \in tx[p].to : Becomes(d, to)
  /\ UNCHANGED <<subscription, event>>

\* FOR UPDATE OF d, s: the delivery is locked, then its subscription.
RetryDelivery(p, d) ==
  /\ delivery[d].state = "failed" /\ Enabled(d[2]) /\ RowFree(p, d)
  /\ Begin(p, [NoTx EXCEPT !.op = "retry", !.rows = {d}])
  /\ UNCHANGED tables

LockRetried(p) ==
  /\ In(p, "retry")
  /\ \E d \in tx[p].rows :
       /\ Lockable(p, d[2])
       /\ IF Enabled(d[2]) THEN Goon(p, [tx[p] EXCEPT !.op = "requeue", !.excl = {d[2]}]) ELSE Commit(p)
  /\ UNCHANGED tables

CommitRetry(p) ==
  /\ In(p, "requeue") /\ Commit(p)
  /\ \E d \in tx[p].rows : Becomes(d, "retrying")
  /\ UNCHANGED <<subscription, event>>

----------------------------------------------------------------------------
(* Retention: three statements of one transaction, which all skip locked    *)
(* rows.  Each may find its batch full.                                     *)

PruneWebhookData(p) ==
  /\ \E expired \in SUBSET {d \in Delivery : delivery[d].state \in Settled /\ RowFree(p, d)} :
       Begin(p, [NoTx EXCEPT !.op = "prune", !.rows = expired])
  /\ UNCHANGED tables

Kept(p) == {d \in Delivery : delivery[d] # Absent /\ d \notin tx[p].rows}

PruneEvents(p) ==
  /\ In(p, "prune")
  /\ \E events \in SUBSET {e \in EventId : event[e] = "stored" /\ (\A d \in Kept(p) : d[1] # e)
                                           /\ \A q \in Others(p) : e \notin tx[q].events} :
       Goon(p, [tx[p] EXCEPT !.op = "events", !.events = events])
  /\ UNCHANGED tables

Unreferenced(p, s) == \A d \in Kept(p) : d[2] # s

PruneSubscriptions(p) ==
  /\ In(p, "events")
  /\ \E gone \in SUBSET {s \in SubscriptionId : subscription[s] = "deleted" /\ Unreferenced(p, s)
                                                /\ Lockable(p, s)} :
       Goon(p, [tx[p] EXCEPT !.op = "gone", !.excl = gone])
  /\ UNCHANGED tables

CommitPrune(p) ==
  /\ In(p, "gone") /\ Commit(p)
  /\ delivery' = [d \in Delivery |-> IF d \in tx[p].rows THEN Absent ELSE delivery[d]]
  /\ event' = [e \in EventId |-> IF e \in tx[p].events THEN "pruned" ELSE event[e]]
  /\ subscription' = [s \in SubscriptionId |-> IF s \in tx[p].excl THEN "pruned" ELSE subscription[s]]

----------------------------------------------------------------------------
Statement(p) ==
  \/ \E e \in EventId : BeginEmit(p, e) \/ \E s \in SubscriptionId : CreateTestDelivery(p, s, e)
  \/ \E s \in SubscriptionId : ShareSubscriber(p, s) \/ DeleteSubscription(p, s)
  \/ \E s \in SubscriptionId, to \in Live : UpdateSubscription(p, s, to)
  \/ \E d \in Delivery : ClaimDelivery(p, d) \/ RetryDelivery(p, d) \/ LockWaiting(p, d)
  \/ \E d \in Delivery, result \in Results : \E attempt \in 1..delivery[d].attempt :
       CompleteDelivery(p, d, attempt, result)
  \/ FindWaiting(p) \/ ReadDeleted(p) \/ LockRetried(p)
  \/ PruneWebhookData(p) \/ PruneEvents(p) \/ PruneSubscriptions(p)

CommitOf(p) ==
  \/ CommitEmit(p) \/ CommitTest(p) \/ CommitUpdate(p) \/ CommitDelete(p)
  \/ CommitClaim(p) \/ CommitComplete(p) \/ CommitRetry(p) \/ CommitPrune(p)

PgNext ==
  \/ \E s \in SubscriptionId : CreateSubscription(s)
  \/ \E p \in Session : Statement(p) \/ CommitOf(p) \/ Rollback(p)

PgSpec == PgInit /\ [][PgNext]_vars

----------------------------------------------------------------------------
\* Whom a transaction waits for, the locks of its next statement taken together.
WaitsFor(p) ==
  {q \in Others(p) :
     \/ In(p, "emit") /\ tx[p].todo \cap tx[q].excl # {}
     \/ In(p, "cancel") /\ tx[p].todo \cap tx[q].rows # {}
     \/ In(p, "complete") /\ \E d \in tx[p].rows : d[2] \in tx[q].excl
     \/ In(p, "retry") /\ \E d \in tx[p].rows : d[2] \in tx[q].excl \union tx[q].share}

\* NeverDeadlocked: transactions that lock a delivery before its subscription and one that
\* locks the subscription first never wait for each other in a circle (DeleteSubscription
\* beside CompleteDelivery, RetryDelivery and the outbox).
NeverDeadlocked ==
  \A P \in (SUBSET Session) \ {{}} : \E p \in P : WaitsFor(p) \cap P = {}

\* ImplementsTables: whatever the statements of transactions interleave to, each commit does
\* to the tables what the operation would do as one step: above all a deleted subscription is
\* left with nothing that waits, also of an event or a result written beside its deletion.
ImplementsTables == Spec

\* EventReachesSubscribers: an event is queued for exactly the subscriptions that are enabled
\* when it is committed and were when its statement looked for them, whoever updated or
\* deleted which of them in between (postgresEnqueueEventDeliveries).
EventReachesSubscribers ==
  [][\A p \in Session :
       In(p, "emit") /\ event'[tx[p].event] = "stored" =>
         \A s \in SubscriptionId :
           delivery'[<<tx[p].event, s>>].state = "pending" <=> s \in tx[p].seen /\ Enabled(s)]_vars
=============================================================================
