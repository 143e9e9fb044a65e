--------------------------- MODULE PgWebhookProofs ---------------------------
(***************************************************************************)
(* Proofs about the outbox in Postgres, for any number of connections,     *)
(* subscriptions and events: what a transaction may rely on while it is    *)
(* open (PgInv), that no transactions wait for each other in a circle, and *)
(* that each commit is one step of WebhookTables.                          *)
(***************************************************************************)
EXTENDS PgWebhook, TLAPS

Ops == {"none", "emit", "update", "delete", "cancel", "test", "claim", "complete", "record",
        "retry", "requeue", "prune", "events", "gone"}
Value == SubscriptionId \union Live \union Waiting \union Settled
Tx == [op: Ops, event: EventId \union {NoEvent}, excl: SUBSET SubscriptionId,
       share: SUBSET SubscriptionId, rows: SUBSET Delivery,
       todo: SUBSET (SubscriptionId \union Delivery), seen: SUBSET SubscriptionId,
       to: SUBSET Value, events: SUBSET EventId]

Types ==
  /\ subscription \in [SubscriptionId -> Live \union {"new", "deleted", "pruned"}]
  /\ event \in [EventId -> {"new", "stored", "pruned"}]
  /\ delivery \in [Delivery -> [state: Waiting \union Settled \union {"absent", "delivering"},
                                attempt: 0..MaxAttempts]]
  /\ tx \in [Session -> Tx]

\* A delivery has an event that is stored and a subscription that has a row.
Referenced ==
  \A d \in Delivery : delivery[d] # Absent =>
    event[d[1]] = "stored" /\ subscription[d[2]] \in Live \union {"deleted"}

\* The one subscription, the one delivery a transaction works on.
Works(t, s)    == t.excl = {s} /\ t.share = {} /\ t.rows = {}
Handles(t, d)  == d \in Delivery /\ t.rows = {d}
NoRows(t)      == t.rows = {}
NoLocks(t)     == t.excl = {} /\ t.share = {}

\* What a transaction found and locked is still so.
EmitSound(t) ==
  t.op = "emit" =>
    /\ NoRows(t) /\ t.excl = {} /\ t.todo \subseteq t.seen /\ t.share = t.seen \ t.todo
    /\ t.to = {s \in t.share : Enabled(s)}
    /\ \A s \in t.seen : subscription[s] # "new"
SubscriptionSound(t) ==
  /\ t.op = "test" => \E s \in SubscriptionId : Works(t, s) /\ Enabled(s)
  /\ t.op = "update" => \E s \in SubscriptionId, to \in Live :
       Works(t, s) /\ t.to = {to} /\ subscription[s] \in Live
  /\ t.op = "delete" => \E s \in SubscriptionId : Works(t, s) /\ subscription[s] \in Live
CancelSound(t) ==
  t.op = "cancel" => \E s \in SubscriptionId :
    /\ t.excl = {s} /\ t.share = {} /\ subscription[s] \in Live /\ t.todo \subseteq Delivery
    /\ \A d \in t.todo \union t.rows : d[2] = s /\ delivery[d].state \in Waiting
    /\ \A d \in Delivery : d[2] = s /\ delivery[d].state \in Waiting => d \in t.todo \union t.rows
DeliverySound(t) ==
  /\ t.op = "claim" => \E d \in Delivery :
       /\ Handles(t, d) /\ t.excl = {d[2]} /\ t.share = {} /\ Enabled(d[2])
       /\ delivery[d].state \in Waiting \union {"delivering"} /\ delivery[d].attempt < MaxAttempts
  /\ t.op = "complete" => \E d \in Delivery, result \in Results :
       Handles(t, d) /\ NoLocks(t) /\ t.to = {result} /\ delivery[d].state = "delivering"
  /\ t.op = "record" => \E d \in Delivery, result \in Results :
       /\ Handles(t, d) /\ t.excl = {} /\ t.share = {d[2]} /\ delivery[d].state = "delivering"
       /\ t.to = {IF result = "retrying" /\ subscription[d[2]] = "deleted" THEN "canceled"
                  ELSE result}
  /\ t.op = "retry" => \E d \in Delivery :
       Handles(t, d) /\ NoLocks(t) /\ delivery[d].state = "failed"
  /\ t.op = "requeue" => \E d \in Delivery :
       Handles(t, d) /\ t.excl = {d[2]} /\ t.share = {} /\ delivery[d].state = "failed" /\ Enabled(d[2])
PruneSound(t) ==
  t.op \in {"prune", "events", "gone"} =>
    /\ t.share = {} /\ (t.op # "gone" => t.excl = {})
    /\ \A d \in t.rows : delivery[d].state \in Settled
    /\ \A e \in t.events : event[e] = "stored"
    /\ \A s \in t.excl : subscription[s] = "deleted"
    /\ \A d \in Delivery : delivery[d] # Absent /\ d \notin t.rows =>
         d[1] \notin t.events /\ d[2] \notin t.excl
Sound(t) ==
  /\ t.op = "none" => NoRows(t) /\ NoLocks(t)
  /\ t.event # NoEvent => t.op \in {"emit", "test"} /\ event[t.event] = "new"
  /\ t.op \in {"emit", "test"} => t.event # NoEvent
  /\ t.events # {} => t.op \in {"events", "gone"}
  /\ EmitSound(t) /\ SubscriptionSound(t) /\ CancelSound(t) /\ DeliverySound(t) /\ PruneSound(t)

\* Two transactions work on different rows.
Apart(t, u) ==
  /\ t.excl \cap (u.excl \union u.share) = {} /\ u.excl \cap t.share = {}
  /\ t.rows \cap u.rows = {} /\ t.events \cap u.events = {}
  /\ t.event # NoEvent => u.event # t.event

PgInv ==
  /\ Types /\ Referenced
  /\ \A p \in Session : Sound(tx[p])
  /\ \A p, q \in Session : p # q => Apart(tx[p], tx[q])

----------------------------------------------------------------------------
(* A statement: one transaction goes on, and no row changes.                *)

LEMMA ApartBothWays == ASSUME NEW t, NEW u, Apart(t, u) PROVE Apart(u, t)
BY DEF Apart

\* What a transaction relies on, of a step that leaves the rows alone, and said of the
\* transaction that a session has after the step.
LEMMA SoundStill ==
  ASSUME NEW t, Sound(t), subscription' = subscription, event' = event, delivery' = delivery
  PROVE  Sound(t)'
<1>1. EmitSound(t)'
  BY DEF Sound, EmitSound, NoRows, Enabled
<1>2. SubscriptionSound(t)'
  BY DEF Sound, SubscriptionSound, Works, Enabled
<1>3. CancelSound(t)'
  BY DEF Sound, CancelSound
<1>4. DeliverySound(t)'
  BY DEF Sound, DeliverySound, Handles, NoLocks, Enabled
<1>5. PruneSound(t)'
  BY DEF Sound, PruneSound
<1> QED
  BY <1>1, <1>2, <1>3, <1>4, <1>5 DEF Sound, NoRows, NoLocks

LEMMA SoundThen ==
  ASSUME NEW t, Sound(t)', NEW q, tx'[q] = t
  PROVE  Sound(tx[q])'
<1>1. EmitSound(tx[q])'
  BY DEF Sound, EmitSound, NoRows, Enabled
<1>2. SubscriptionSound(tx[q])'
  BY DEF Sound, SubscriptionSound, Works, Enabled
<1>3. CancelSound(tx[q])'
  BY DEF Sound, CancelSound
<1>4. DeliverySound(tx[q])'
  BY DEF Sound, DeliverySound, Handles, NoLocks, Enabled
<1>5. PruneSound(tx[q])'
  BY DEF Sound, PruneSound
<1> QED
  BY <1>1, <1>2, <1>3, <1>4, <1>5 DEF Sound, NoRows, NoLocks

LEMMA InitInv == PgInit => PgInv
<1> SUFFICES ASSUME PgInit PROVE PgInv
  OBVIOUS
<1>1. NoTx \in Tx
  BY DEF NoTx, Tx, Ops
<1>2. Types
  BY <1>1, SessionAssumption DEF PgInit, Init, Types, Absent
<1>3. Referenced
  BY DEF PgInit, Init, Referenced
<1>4. Sound(NoTx)
  BY DEF Sound, NoTx, NoRows, NoLocks, EmitSound, SubscriptionSound, CancelSound, DeliverySound,
         PruneSound
<1>5. Apart(NoTx, NoTx)
  BY DEF Apart, NoTx
<1> QED
  BY <1>2, <1>3, <1>4, <1>5 DEF PgInit, PgInv

\* Transaction p is t now.
GoesOn(p, t) ==
  /\ tx' = [tx EXCEPT ![p] = t] /\ t \in Tx
  /\ Sound(t) /\ \A q \in Others(p) : Apart(t, tx[q])

LEMMA StatementStep ==
  ASSUME PgInv, NEW p \in Session, NEW t, GoesOn(p, t), UNCHANGED tables
  PROVE  PgInv'
<1>1. subscription' = subscription /\ event' = event /\ delivery' = delivery
  BY DEF tables
<1>2. tx'[p] = t /\ \A q \in Session : q # p => tx'[q] = tx[q]
  BY DEF PgInv, Types, GoesOn
<1>3. Types' /\ Referenced'
  BY <1>1 DEF PgInv, Types, Referenced, GoesOn
<1>4. ASSUME NEW q \in Session PROVE Sound(tx[q])'
  <2>1. PICK u : u = tx'[q] /\ Sound(u)
    BY <1>2 DEF PgInv, GoesOn
  <2> QED
    BY <1>1, <2>1, SoundStill, SoundThen
<1>5. ASSUME NEW q \in Session, NEW r \in Session, q # r PROVE Apart(tx[q], tx[r])'
  <2>1. PICK u, v : u = tx'[q] /\ v = tx'[r] /\ Apart(u, v)
    BY <1>2, <1>5, ApartBothWays DEF PgInv, GoesOn, Others
  <2> QED
    BY <2>1 DEF Apart
<1> QED
  BY <1>3, <1>4, <1>5 DEF PgInv

----------------------------------------------------------------------------
(* A commit: rows change, and only those that the transaction has locked.   *)

\* A row of webhook_delivery that transaction u may write: one it locked, of a subscription
\* it has locked as well, or that is new with its event; and one that retention removes.
Writes(u, d) ==
  \/ d[2] \in u.excl \union u.share /\ (d \in u.rows \/ d[1] = u.event)
  \/ d \in u.rows /\ delivery'[d] = Absent

Committed(u) ==
  /\ \A s \in SubscriptionId : subscription'[s] # subscription[s] =>
       s \in u.excl /\ subscription'[s] # "new"
  /\ \A d \in Delivery : delivery'[d] # delivery[d] => Writes(u, d)
  /\ \A e \in EventId : event'[e] # event[e] => e = u.event \/ e \in u.events

\* What is locked to be written is a delivery.
LEMMA RowsPresent ==
  ASSUME NEW u \in Tx, Sound(u), NEW d \in u.rows
  PROVE  d \in Delivery /\ delivery[d].state # "absent" /\ delivery[d] # Absent
<1>1. d \in Delivery
  BY DEF Tx
<1>2. delivery[d].state # "absent"
  BY DEF Sound, NoRows, EmitSound, SubscriptionSound, CancelSound, DeliverySound, PruneSound, Tx,
         Works, Handles, Ops, Waiting, Settled
<1> QED
  BY <1>1, <1>2 DEF Absent

\* The event of an open transaction is new, and what retention removes is stored.
LEMMA EventsApart ==
  ASSUME NEW u \in Tx, Sound(u)
  PROVE  /\ u.event # NoEvent => u.event \in EventId /\ event[u.event] = "new"
         /\ \A e \in u.events : e \in EventId /\ event[e] = "stored"
BY DEF Sound, PruneSound, Tx

\* Whatever u commits, what another transaction relies on stays.
LEMMA OthersSound ==
  ASSUME Types, Types', Referenced, NEW t \in Tx, NEW u \in Tx, Sound(t), Sound(u), Apart(t, u),
         Committed(u)
  PROVE  Sound(t)'
<1>1. \A s \in t.excl \union t.share : subscription'[s] = subscription[s]
  BY DEF Committed, Apart, Tx
<1>2. \A d \in Delivery : d[1] \in EventId /\ d[2] \in SubscriptionId
  BY DEF Delivery
<1>3. \A d \in Delivery : delivery[d] # Absent => d[1] # u.event
  BY <1>2, EventsApart, SessionAssumption DEF Referenced
<1>4. \A d \in Delivery : d \in t.rows => delivery'[d] = delivery[d]
  BY <1>3, RowsPresent DEF Committed, Writes, Apart
<1>5. t.event # NoEvent => event'[t.event] = event[t.event]
  BY EventsApart DEF Committed, Apart
<1>6. \A e \in t.events : event'[e] = event[e]
  BY EventsApart, SessionAssumption DEF Committed, Apart
<1>7. EmitSound(t)'
  BY <1>1 DEF Sound, EmitSound, NoRows, Enabled, Committed, Tx
<1>8. SubscriptionSound(t)'
  BY <1>1 DEF Sound, SubscriptionSound, Works, Enabled
<1>9. CancelSound(t)'
  <2> SUFFICES ASSUME t.op = "cancel"
               PROVE  CancelSound(t)'
    BY DEF CancelSound
  <2>1. PICK s \in SubscriptionId :
          /\ t.excl = {s} /\ t.share = {} /\ subscription[s] \in Live /\ t.todo \subseteq Delivery
          /\ \A d \in t.todo \union t.rows : d[2] = s /\ delivery[d].state \in Waiting
          /\ \A d \in Delivery :
               d[2] = s /\ delivery[d].state \in Waiting => d \in t.todo \union t.rows
    BY DEF Sound, CancelSound
  <2>2. ASSUME NEW d \in Delivery, d[2] = s, delivery'[d] # delivery[d]
        PROVE  d \in u.rows /\ delivery'[d] = Absent
    BY <2>1, <2>2 DEF Committed, Writes, Apart
  <2>3. ASSUME NEW d \in t.todo \union t.rows
        PROVE  delivery'[d] = delivery[d]
    <3>1. d \in Delivery /\ d[2] = s /\ delivery[d].state \in Waiting
      BY <2>1 DEF Tx
    <3> SUFFICES ASSUME d \in u.rows PROVE FALSE
      BY <2>2, <3>1
    <3>2. s \notin u.excl \union u.share
      BY <2>1 DEF Apart
    <3> QED
      BY <3>1, <3>2 DEF Sound, NoRows, EmitSound, SubscriptionSound, CancelSound, DeliverySound,
         PruneSound, Tx, Works, Handles, Ops, Waiting, Settled
  <2>4. \A d \in Delivery :
          d[2] = s /\ delivery'[d].state \in Waiting => d \in t.todo \union t.rows
    BY <2>1, <2>2 DEF Absent, Waiting
  <2>5. subscription'[s] \in Live
    BY <1>1, <2>1
  <2> QED
    BY <2>1, <2>3, <2>4, <2>5 DEF CancelSound
<1>10. DeliverySound(t)'
  BY <1>1, <1>4 DEF Sound, DeliverySound, Handles, Enabled, NoLocks
<1>11. PruneSound(t)'
  <2> SUFFICES ASSUME t.op \in {"prune", "events", "gone"}
               PROVE  PruneSound(t)'
    BY DEF PruneSound
  <2>1. ASSUME NEW d \in Delivery, delivery'[d] # Absent, d \notin t.rows
        PROVE  d[1] \notin t.events /\ d[2] \notin t.excl
    <3>1. CASE delivery[d] # Absent
      BY <2>1, <3>1 DEF Sound, PruneSound
    <3>2. CASE delivery[d] = Absent
      <4>1. Writes(u, d) /\ d \notin u.rows
        BY <2>1, <3>2, RowsPresent DEF Committed
      <4>2. d[2] \in u.excl \union u.share /\ d[1] = u.event
        BY <4>1 DEF Writes
      <4> QED
        BY <1>2, <4>2, EventsApart, SessionAssumption DEF Apart
    <3> QED
      BY <3>1, <3>2
  <2>2. \A d \in t.rows : delivery'[d].state \in Settled
    BY <1>4, RowsPresent DEF Sound, PruneSound
  <2> QED
    BY <1>1, <1>6, <2>1, <2>2 DEF Sound, PruneSound
<1> QED
  BY <1>5, <1>7, <1>8, <1>9, <1>10, <1>11 DEF Sound, NoRows, NoLocks

\* The transaction of p ends.
Ends(p) == tx' = [tx EXCEPT ![p] = NoTx]

LEMMA CommitStep ==
  ASSUME PgInv, NEW p \in Session, Ends(p), Committed(tx[p]), Types', Referenced'
  PROVE  PgInv'
<1>1. tx'[p] = NoTx /\ \A q \in Session : q # p => tx'[q] = tx[q]
  BY DEF PgInv, Types, Ends
<1>2. Sound(NoTx)'
  BY DEF Sound, NoTx, NoRows, NoLocks, EmitSound, SubscriptionSound, CancelSound, DeliverySound,
         PruneSound
<1>3. \A u : Apart(NoTx, u) /\ Apart(u, NoTx)
  BY DEF Apart, NoTx
<1>4. PICK u \in Tx : u = tx[p]
  BY DEF PgInv, Types
<1>5. Sound(u) /\ Committed(u)
  BY <1>4 DEF PgInv, Committed, Writes
<1>6. ASSUME NEW q \in Session PROVE Sound(tx[q])'
  <2>1. PICK t \in Tx : t = tx'[q] /\ Sound(t)'
    <3>1. CASE q = p
      <4>1. NoTx \in Tx
        BY DEF NoTx, Tx, Ops
      <4> QED
        BY <1>1, <1>2, <3>1, <4>1
    <3>2. CASE q # p
      <4>1. PICK t \in Tx : t = tx[q]
        BY DEF PgInv, Types
      <4>2. Sound(t) /\ Apart(t, u)
        BY <1>4, <3>2, <4>1 DEF PgInv
      <4>3. Sound(t)'
        BY <1>5, <4>2, OthersSound DEF PgInv
      <4> QED
        BY <1>1, <3>2, <4>1, <4>3
    <3> QED
      BY <3>1, <3>2
  <2> QED
    BY <2>1, SoundThen
<1>7. ASSUME NEW q \in Session, NEW r \in Session, q # r PROVE Apart(tx[q], tx[r])'
  <2>1. PICK t, v : t = tx'[q] /\ v = tx'[r] /\ Apart(t, v)
    BY <1>1, <1>3, <1>7 DEF PgInv
  <2> QED
    BY <2>1 DEF Apart
<1> QED
  BY <1>6, <1>7 DEF PgInv

----------------------------------------------------------------------------
(* The statements, one by one.                                              *)

LEMMA Open ==
  ASSUME PgInv, NEW p \in Session
  PROVE  /\ tx[p] \in Tx /\ Sound(tx[p])
         /\ \A q \in Others(p) : tx[q] \in Tx /\ Apart(tx[p], tx[q])
BY DEF PgInv, Types, Others

\* What a transaction that begins has locked nobody else has.
LEMMA BeginsApart ==
  ASSUME PgInv, NEW p \in Session, NEW t \in Tx, t.events = {},
         \A s \in t.excl : Lockable(p, s), t.share = {}, \A d \in t.rows : RowFree(p, d),
         t.event # NoEvent => Fresh(t.event)
  PROVE  \A q \in Others(p) : Apart(t, tx[q])
BY Open DEF Apart, Lockable, Sharable, RowFree, Fresh, Others

LEMMA BeginEmitStep ==
  ASSUME PgInv, NEW p \in Session, NEW e \in EventId, BeginEmit(p, e)
  PROVE  PgInv'
<1> DEFINE found == {s \in SubscriptionId : Enabled(s)}
           t == [NoTx EXCEPT !.op = "emit", !.event = e, !.seen = found, !.todo = found]
<1>1. t \in Tx
  BY DEF Tx, NoTx, Ops
<1>2. Sound(t)
  BY SessionAssumption DEF Sound, NoTx, BeginEmit, Fresh, EmitSound, SubscriptionSound, CancelSound,
     DeliverySound, PruneSound, NoRows, Enabled
<1>3. \A q \in Others(p) : Apart(t, tx[q])
  BY DEF Apart, NoTx, BeginEmit, Fresh, Others
<1>4. tx' = [tx EXCEPT ![p] = t] /\ UNCHANGED tables
  BY DEF BeginEmit, Begin
<1> HIDE DEF t
<1> QED
  BY <1>1, <1>2, <1>3, <1>4, StatementStep DEF GoesOn

LEMMA ShareSubscriberStep ==
  ASSUME PgInv, NEW p \in Session, NEW s \in SubscriptionId, ShareSubscriber(p, s)
  PROVE  PgInv'
<1> DEFINE t == [tx[p] EXCEPT !.todo = @ \ {s}, !.share = @ \union {s},
                              !.to = IF Enabled(s) THEN @ \union {s} ELSE @]
<1>1. tx[p].op = "emit" /\ s \in tx[p].todo /\ Sharable(p, s)
  BY DEF ShareSubscriber, In
<1>2. t \in Tx
  BY Open DEF Tx, Value
<1>3. EmitSound(t)
  BY <1>1, Open DEF Sound, EmitSound, NoRows, Tx
<1>4. Sound(t)
  BY <1>1, <1>3, Open DEF Sound, SubscriptionSound, CancelSound, DeliverySound, PruneSound, Tx
<1>5. \A q \in Others(p) : Apart(t, tx[q])
  BY <1>1, Open DEF Apart, Sharable, Tx
<1>6. tx' = [tx EXCEPT ![p] = t] /\ UNCHANGED tables
  BY DEF ShareSubscriber, Goon
<1> HIDE DEF t
<1> QED
  BY <1>2, <1>4, <1>5, <1>6, StatementStep DEF GoesOn

\* The three operations that begin by locking one subscription.
LEMMA LockSubscriptionStep ==
  ASSUME PgInv, NEW p \in Session, NEW s \in SubscriptionId, Lockable(p, s),
         NEW t \in Tx, tx' = [tx EXCEPT ![p] = t], UNCHANGED tables,
         t.op \in {"test", "update", "delete"}, Works(t, s), t.events = {},
         t.op = "test" => Enabled(s) /\ t.event \in EventId /\ Fresh(t.event),
         t.op # "test" => subscription[s] \in Live /\ t.event = NoEvent,
         t.op = "update" => \E to \in Live : t.to = {to}
  PROVE  PgInv'
<1>1. Sound(t)
  BY SessionAssumption DEF Sound, EmitSound, SubscriptionSound, CancelSound, DeliverySound,
     PruneSound, Fresh, Works
<1>2. \A q \in Others(p) : Apart(t, tx[q])
  BY BeginsApart DEF Works
<1> QED
  BY <1>1, <1>2, StatementStep DEF GoesOn

LEMMA SubscriptionSteps ==
  ASSUME PgInv, NEW p \in Session, NEW s \in SubscriptionId,
         \/ \E e \in EventId : CreateTestDelivery(p, s, e)
         \/ \E to \in Live : UpdateSubscription(p, s, to)
         \/ DeleteSubscription(p, s)
  PROVE  PgInv'
<1>1. ASSUME NEW e \in EventId, CreateTestDelivery(p, s, e) PROVE PgInv'
  <2> DEFINE t == [NoTx EXCEPT !.op = "test", !.event = e, !.excl = {s}]
  <2>1. /\ t \in Tx /\ t.op = "test" /\ t.event = e /\ Works(t, s) /\ t.events = {}
        /\ tx' = [tx EXCEPT ![p] = t] /\ UNCHANGED tables
    BY <1>1 DEF Tx, NoTx, Ops, Works, CreateTestDelivery, Begin
  <2> HIDE DEF t
  <2> QED
    BY <1>1, <2>1, LockSubscriptionStep DEF CreateTestDelivery
<1>2. ASSUME NEW to \in Live, UpdateSubscription(p, s, to) PROVE PgInv'
  <2> DEFINE t == [NoTx EXCEPT !.op = "update", !.excl = {s}, !.to = {to}]
  <2>1. /\ t \in Tx /\ t.op = "update" /\ t.event = NoEvent /\ Works(t, s) /\ t.events = {}
        /\ t.to = {to} /\ tx' = [tx EXCEPT ![p] = t] /\ UNCHANGED tables
    BY <1>2 DEF Tx, NoTx, Ops, Works, UpdateSubscription, Begin, Value
  <2> HIDE DEF t
  <2> QED
    BY <1>2, <2>1, LockSubscriptionStep DEF UpdateSubscription
<1>3. CASE DeleteSubscription(p, s)
  <2> DEFINE t == [NoTx EXCEPT !.op = "delete", !.excl = {s}]
  <2>1. /\ t \in Tx /\ t.op = "delete" /\ t.event = NoEvent /\ Works(t, s) /\ t.events = {}
        /\ tx' = [tx EXCEPT ![p] = t] /\ UNCHANGED tables
    BY <1>3 DEF Tx, NoTx, Ops, Works, DeleteSubscription, Begin
  <2> HIDE DEF t
  <2> QED
    BY <1>3, <2>1, LockSubscriptionStep DEF DeleteSubscription
<1> QED
  BY <1>1, <1>2, <1>3

\* Where the deletion looks for what waits: whoever could write a waiting delivery of the
\* subscription has to lock the subscription first.
LEMMA FindWaitingStep ==
  ASSUME PgInv, NEW p \in Session, FindWaiting(p)
  PROVE  PgInv'
<1> DEFINE waiting == {d \in Delivery : d[2] \in tx[p].excl /\ delivery[d].state \in Waiting}
           t == [tx[p] EXCEPT !.op = "cancel", !.todo = waiting]
<1>1. tx[p].op = "delete"
  BY DEF FindWaiting, In
<1>2. t \in Tx
  BY Open DEF Tx, Ops
<1>3. PICK s \in SubscriptionId : Works(tx[p], s) /\ subscription[s] \in Live
  BY <1>1, Open DEF Sound, SubscriptionSound
<1>4. CancelSound(t)
  BY <1>3, Open DEF CancelSound, Works, Tx
<1>5. Sound(t)
  BY <1>1, <1>4, Open DEF Sound, EmitSound, SubscriptionSound, DeliverySound, PruneSound, Tx
<1>6. \A q \in Others(p) : Apart(t, tx[q])
  BY Open DEF Apart, Tx
<1>7. tx' = [tx EXCEPT ![p] = t] /\ UNCHANGED tables
  BY DEF FindWaiting, Goon, Cancelable
<1> HIDE DEF t
<1> QED
  BY <1>2, <1>5, <1>6, <1>7, StatementStep DEF GoesOn

LEMMA LockWaitingStep ==
  ASSUME PgInv, NEW p \in Session, NEW d \in Delivery, LockWaiting(p, d)
  PROVE  PgInv'
<1> DEFINE t == [tx[p] EXCEPT !.todo = @ \ {d}, !.rows = @ \union {d}]
<1>1. tx[p].op = "cancel" /\ d \in tx[p].todo /\ RowFree(p, d)
  BY DEF LockWaiting, In
<1>2. t \in Tx
  BY Open DEF Tx
<1>3. CancelSound(t)
  BY <1>1, Open DEF Sound, CancelSound, Tx
<1>4. Sound(t)
  BY <1>1, <1>3, Open DEF Sound, EmitSound, SubscriptionSound, DeliverySound, PruneSound, Tx
<1>5. \A q \in Others(p) : Apart(t, tx[q])
  BY <1>1, Open DEF Apart, RowFree, Tx
<1>6. tx' = [tx EXCEPT ![p] = t] /\ UNCHANGED tables
  BY DEF LockWaiting, Goon
<1> HIDE DEF t
<1> QED
  BY <1>2, <1>4, <1>5, <1>6, StatementStep DEF GoesOn

\* The three operations that begin by locking one delivery.
LEMMA LockDeliveryStep ==
  ASSUME PgInv, NEW p \in Session, NEW d \in Delivery, RowFree(p, d),
         NEW t \in Tx, tx' = [tx EXCEPT ![p] = t], UNCHANGED tables,
         t.op \in {"claim", "complete", "retry"}, Handles(t, d), t.event = NoEvent, t.events = {},
         t.share = {}, t.op = "claim" => t.excl = {d[2]} /\ Lockable(p, d[2]),
         t.op # "claim" => t.excl = {}, DeliverySound(t)
  PROVE  PgInv'
<1>1. Sound(t)
  BY DEF Sound, EmitSound, SubscriptionSound, CancelSound, PruneSound
<1>2. \A q \in Others(p) : Apart(t, tx[q])
  BY BeginsApart DEF Handles
<1> QED
  BY <1>1, <1>2, StatementStep DEF GoesOn

LEMMA ClaimDeliveryStep ==
  ASSUME PgInv, NEW p \in Session, NEW d \in Delivery, ClaimDelivery(p, d)
  PROVE  PgInv'
<1> DEFINE t == [NoTx EXCEPT !.op = "claim", !.rows = {d}, !.excl = {d[2]}]
<1>1. /\ t \in Tx /\ t.op = "claim" /\ Handles(t, d) /\ t.event = NoEvent /\ t.events = {}
      /\ t.share = {} /\ t.excl = {d[2]} /\ tx' = [tx EXCEPT ![p] = t] /\ UNCHANGED tables
  BY DEF Tx, NoTx, Ops, Handles, ClaimDelivery, Begin, Delivery
<1>2. DeliverySound(t)
  BY <1>1 DEF DeliverySound, ClaimDelivery
<1> HIDE DEF t
<1> QED
  BY <1>1, <1>2, LockDeliveryStep DEF ClaimDelivery

LEMMA CompleteDeliveryStep ==
  ASSUME PgInv, NEW p \in Session, NEW d \in Delivery, NEW result \in Results, NEW attempt,
         CompleteDelivery(p, d, attempt, result)
  PROVE  PgInv'
<1> DEFINE t == [NoTx EXCEPT !.op = "complete", !.rows = {d}, !.to = {result}]
<1>1. /\ t \in Tx /\ t.op = "complete" /\ Handles(t, d) /\ t.event = NoEvent /\ t.events = {}
      /\ t.to = {result} /\ NoLocks(t) /\ tx' = [tx EXCEPT ![p] = t] /\ UNCHANGED tables
  BY DEF Tx, NoTx, Ops, Handles, CompleteDelivery, Begin, NoLocks, Value, Results, Waiting, Settled
<1>2. DeliverySound(t) /\ t.share = {} /\ t.excl = {}
  BY <1>1 DEF DeliverySound, CompleteDelivery, ValidLease, NoLocks
<1> HIDE DEF t
<1> QED
  BY <1>1, <1>2, LockDeliveryStep DEF CompleteDelivery

LEMMA RetryDeliveryStep ==
  ASSUME PgInv, NEW p \in Session, NEW d \in Delivery, RetryDelivery(p, d)
  PROVE  PgInv'
<1> DEFINE t == [NoTx EXCEPT !.op = "retry", !.rows = {d}]
<1>1. /\ t \in Tx /\ t.op = "retry" /\ Handles(t, d) /\ t.event = NoEvent /\ t.events = {}
      /\ NoLocks(t) /\ tx' = [tx EXCEPT ![p] = t] /\ UNCHANGED tables
  BY DEF Tx, NoTx, Ops, Handles, RetryDelivery, Begin, NoLocks
<1>2. DeliverySound(t) /\ t.share = {} /\ t.excl = {}
  BY <1>1 DEF DeliverySound, RetryDelivery, NoLocks
<1> HIDE DEF t
<1> QED
  BY <1>1, <1>2, LockDeliveryStep DEF RetryDelivery

\* The subscription stays what it was found to be: it is locked as it is read.
LEMMA ReadDeletedStep ==
  ASSUME PgInv, NEW p \in Session, ReadDeleted(p)
  PROVE  PgInv'
<1>1. tx[p].op = "complete"
  BY DEF ReadDeleted, In
<1>2. PICK d \in Delivery, result \in Results :
        /\ Handles(tx[p], d) /\ NoLocks(tx[p]) /\ tx[p].to = {result}
        /\ delivery[d].state = "delivering"
  BY <1>1, Open DEF Sound, DeliverySound
<1> DEFINE to == IF result = "retrying" /\ subscription[d[2]] = "deleted" THEN "canceled" ELSE result
           t == [tx[p] EXCEPT !.op = "record", !.share = {d[2]}, !.to = {to}]
<1>3. Sharable(p, d[2]) /\ tx' = [tx EXCEPT ![p] = t] /\ UNCHANGED tables
  BY <1>2 DEF ReadDeleted, Goon, Handles
<1>4. d[2] \in SubscriptionId /\ to \in Value
  BY DEF Delivery, Value, Results, Waiting, Settled
<1>5. /\ t.op = "record" /\ t.share = {d[2]} /\ t.to = {to} /\ t.excl = {} /\ Handles(t, d)
      /\ t.event = tx[p].event /\ t.events = tx[p].events /\ t \in Tx
  BY <1>2, <1>4, Open DEF Tx, Ops, Handles, NoLocks
<1>6. DeliverySound(t)
  BY <1>2, <1>5 DEF DeliverySound
<1> HIDE DEF t, to
<1>7. Sound(t)
  BY <1>1, <1>5, <1>6, Open DEF Sound, EmitSound, SubscriptionSound, CancelSound, PruneSound
<1>8. \A q \in Others(p) : Apart(t, tx[q])
  BY <1>2, <1>3, <1>5, Open DEF Apart, Sharable, Handles
<1> QED
  BY <1>3, <1>5, <1>7, <1>8, StatementStep DEF GoesOn

LEMMA NothingApart == ASSUME NEW u PROVE Apart(NoTx, u) /\ Sound(NoTx) /\ NoTx \in Tx
BY DEF Apart, NoTx, Sound, NoRows, NoLocks, EmitSound, SubscriptionSound, CancelSound, DeliverySound,
       PruneSound, Tx, Ops

LEMMA RollbackStep ==
  ASSUME PgInv, NEW p \in Session, tx' = [tx EXCEPT ![p] = NoTx], UNCHANGED tables
  PROVE  PgInv'
BY NothingApart, StatementStep DEF GoesOn

LEMMA LockRetriedStep ==
  ASSUME PgInv, NEW p \in Session, LockRetried(p)
  PROVE  PgInv'
<1>1. tx[p].op = "retry"
  BY DEF LockRetried, In
<1>2. PICK d \in Delivery :
        Handles(tx[p], d) /\ NoLocks(tx[p]) /\ delivery[d].state = "failed"
  BY <1>1, Open DEF Sound, DeliverySound
<1> DEFINE t == [tx[p] EXCEPT !.op = "requeue", !.excl = {d[2]}]
<1>3. /\ Lockable(p, d[2]) /\ UNCHANGED tables
      /\ \/ tx' = [tx EXCEPT ![p] = t] /\ Enabled(d[2])
         \/ tx' = [tx EXCEPT ![p] = NoTx]
  BY <1>2 DEF LockRetried, Goon, Commit, Handles
<1>4. CASE tx' = [tx EXCEPT ![p] = t] /\ Enabled(d[2])
  <2>1. d[2] \in SubscriptionId
    BY DEF Delivery
  <2>2. /\ t.op = "requeue" /\ t.excl = {d[2]} /\ t.share = {} /\ Handles(t, d)
        /\ t.event = tx[p].event /\ t.events = tx[p].events /\ t \in Tx
    BY <1>2, <2>1, Open DEF Tx, Ops, Handles, NoLocks
  <2>3. DeliverySound(t)
    BY <1>2, <1>4, <2>2 DEF DeliverySound
  <2> HIDE DEF t
  <2>4. Sound(t)
    BY <1>1, <2>2, <2>3, Open DEF Sound, EmitSound, SubscriptionSound, CancelSound, PruneSound
  <2>5. \A q \in Others(p) : Apart(t, tx[q])
    BY <1>2, <1>3, <2>2, Open DEF Apart, Lockable, Sharable, Handles
  <2> QED
    BY <1>3, <1>4, <2>2, <2>4, <2>5, StatementStep DEF GoesOn
<1> QED
  BY <1>3, <1>4, RollbackStep

\* The statements of retention: each picks what nothing that stays refers to.
LEMMA PruneStep ==
  ASSUME PgInv, NEW p \in Session, NEW t \in Tx, tx' = [tx EXCEPT ![p] = t], UNCHANGED tables,
         t.op \in {"prune", "events", "gone"}, t.event = NoEvent, PruneSound(t),
         t.op = "prune" => t.events = {}, \A d \in t.rows : RowFree(p, d),
         \A s \in t.excl : Lockable(p, s),
         \A q \in Others(p) : t.events \cap tx[q].events = {}
  PROVE  PgInv'
<1>1. Sound(t)
  BY DEF Sound, EmitSound, SubscriptionSound, CancelSound, DeliverySound
<1>2. \A q \in Others(p) : Apart(t, tx[q])
  BY DEF Apart, Lockable, Sharable, RowFree, PruneSound
<1> QED
  BY <1>1, <1>2, StatementStep DEF GoesOn

LEMMA PruneWebhookDataStep ==
  ASSUME PgInv, NEW p \in Session, PruneWebhookData(p)
  PROVE  PgInv'
<1>1. PICK expired \in SUBSET {d \in Delivery : delivery[d].state \in Settled /\ RowFree(p, d)} :
        Begin(p, [NoTx EXCEPT !.op = "prune", !.rows = expired])
  BY DEF PruneWebhookData
<1> DEFINE t == [NoTx EXCEPT !.op = "prune", !.rows = expired]
<1>2. /\ t \in Tx /\ t.op = "prune" /\ t.event = NoEvent /\ t.events = {} /\ t.rows = expired
      /\ t.share = {} /\ t.excl = {} /\ tx' = [tx EXCEPT ![p] = t] /\ UNCHANGED tables
  BY <1>1 DEF Tx, NoTx, Ops, PruneWebhookData, Begin
<1> HIDE DEF t
<1>3. PruneSound(t)
  BY <1>2 DEF PruneSound
<1> QED
  BY <1>2, <1>3, PruneStep

LEMMA PruneEventsStep ==
  ASSUME PgInv, NEW p \in Session, PruneEvents(p)
  PROVE  PgInv'
<1>1. PICK events \in SUBSET {e \in EventId :
                                /\ event[e] = "stored" /\ (\A d \in Kept(p) : d[1] # e)
                                /\ \A q \in Others(p) : e \notin tx[q].events} :
        Goon(p, [tx[p] EXCEPT !.op = "events", !.events = events])
  BY DEF PruneEvents
<1>2. tx[p].op = "prune"
  BY DEF PruneEvents, In
<1> DEFINE t == [tx[p] EXCEPT !.op = "events", !.events = events]
<1>z. tx[p] \in Tx /\ tx[p].event = NoEvent /\ tx[p].share = {} /\ tx[p].excl = {}
  BY <1>2, Open DEF Sound, PruneSound
<1>3. /\ t \in Tx /\ t.op = "events" /\ t.event = NoEvent /\ t.events = events
      /\ t.rows = tx[p].rows /\ t.share = {} /\ t.excl = {} /\ tx' = [tx EXCEPT ![p] = t]
      /\ UNCHANGED tables
  BY <1>1, <1>z DEF Tx, Ops, PruneEvents, Goon
<1> HIDE DEF t
<1>4. PruneSound(t)
  BY <1>2, <1>3, Open DEF Sound, PruneSound, Kept
<1>5. \A d \in t.rows : RowFree(p, d)
  BY <1>3, Open DEF Apart, RowFree
<1> QED
  BY <1>3, <1>4, <1>5, PruneStep

LEMMA PruneSubscriptionsStep ==
  ASSUME PgInv, NEW p \in Session, PruneSubscriptions(p)
  PROVE  PgInv'
<1>1. PICK gone \in SUBSET {s \in SubscriptionId : subscription[s] = "deleted"
                              /\ Unreferenced(p, s) /\ Lockable(p, s)} :
        Goon(p, [tx[p] EXCEPT !.op = "gone", !.excl = gone])
  BY DEF PruneSubscriptions
<1>2. tx[p].op = "events"
  BY DEF PruneSubscriptions, In
<1> DEFINE t == [tx[p] EXCEPT !.op = "gone", !.excl = gone]
<1>z. tx[p] \in Tx /\ tx[p].event = NoEvent /\ tx[p].share = {} /\ tx[p].excl = {}
  BY <1>2, Open DEF Sound, PruneSound
<1>3. /\ t \in Tx /\ t.op = "gone" /\ t.event = NoEvent /\ t.events = tx[p].events
      /\ t.rows = tx[p].rows /\ t.share = {} /\ t.excl = gone /\ tx' = [tx EXCEPT ![p] = t]
      /\ UNCHANGED tables
  BY <1>1, <1>z DEF Tx, Ops, PruneSubscriptions, Goon
<1> HIDE DEF t
<1>4. PruneSound(t)
  BY <1>2, <1>3, Open DEF Sound, PruneSound, Unreferenced, Kept
<1>5. /\ \A d \in t.rows : RowFree(p, d)
      /\ \A q \in Others(p) : t.events \cap tx[q].events = {}
  BY <1>3, Open DEF Apart, RowFree
<1> QED
  BY <1>3, <1>4, <1>5, PruneStep

LEMMA StatementsKeepInv ==
  ASSUME PgInv, NEW p \in Session, Statement(p)
  PROVE  PgInv' /\ UNCHANGED tables
<1>1. UNCHANGED tables
  BY DEF Statement, BeginEmit, CreateTestDelivery, ShareSubscriber, DeleteSubscription,
     UpdateSubscription, ClaimDelivery, RetryDelivery, LockWaiting, CompleteDelivery, FindWaiting,
     ReadDeleted, LockRetried, PruneWebhookData, PruneEvents, PruneSubscriptions
<1> QED
  BY <1>1, BeginEmitStep, SubscriptionSteps, ShareSubscriberStep, ClaimDeliveryStep,
     RetryDeliveryStep, LockWaitingStep, CompleteDeliveryStep, FindWaitingStep, ReadDeletedStep,
     LockRetriedStep, PruneWebhookDataStep, PruneEventsStep, PruneSubscriptionsStep DEF Statement

----------------------------------------------------------------------------
(* The commits, one by one: each keeps the invariant and does to the tables *)
(* what one operation of WebhookTables does.                                *)

\* What a commit must show.
LEMMA CommitKeepsInv ==
  ASSUME PgInv, NEW p \in Session, Commit(p), Committed(tx[p]), Referenced',
         subscription' \in [SubscriptionId -> Live \union {"new", "deleted", "pruned"}],
         event' \in [EventId -> {"new", "stored", "pruned"}],
         delivery' \in [Delivery -> [state: Waiting \union Settled \union {"absent", "delivering"},
                                     attempt: 0..MaxAttempts]]
  PROVE  PgInv'
<1>1. Ends(p) /\ tx' \in [Session -> Tx]
  BY NothingApart DEF Commit, Ends, PgInv, Types
<1>2. Types'
  BY <1>1 DEF Types
<1> QED
  BY <1>1, <1>2, CommitStep

LEMMA QueuedStep ==
  ASSUME PgInv, NEW p \in Session, tx[p].event # NoEvent, Commit(p),
         NEW subscribers \in SUBSET (tx[p].excl \union tx[p].share),
         \A s \in subscribers : Enabled(s), Queued(tx[p].event, subscribers)
  PROVE  PgInv' /\ Next
<1> DEFINE e == tx[p].event
<1>1. e \in EventId /\ event[e] = "new" /\ subscribers \in SUBSET SubscriptionId
  BY Open, EventsApart DEF Tx
<1>2. Emit(e, subscribers)
  BY <1>1 DEF Emit, Queued
<1>3. /\ subscription' = subscription /\ event' = [event EXCEPT ![e] = "stored"]
      /\ \A d \in Delivery : delivery'[d] =
           IF d[1] = e /\ d[2] \in subscribers THEN [state |-> "pending", attempt |-> 0]
           ELSE delivery[d]
  BY DEF Queued
<1>4. /\ event' \in [EventId -> {"new", "stored", "pruned"}]
      /\ delivery' \in [Delivery -> [state: Waiting \union Settled \union {"absent", "delivering"},
                                     attempt: 0..MaxAttempts]]
  <2>1. event' \in [EventId -> {"new", "stored", "pruned"}]
    BY <1>3 DEF PgInv, Types
  <2>2. [state |-> "pending", attempt |-> 0] \in
          [state: Waiting \union Settled \union {"absent", "delivering"}, attempt: 0..MaxAttempts]
    BY SessionAssumption DEF Waiting
  <2> QED
    BY <2>1, <2>2 DEF PgInv, Types, Queued
<1>5. \A d \in Delivery : d[1] \in EventId /\ d[2] \in SubscriptionId
  BY DEF Delivery
<1>6. Referenced'
  BY <1>1, <1>3, <1>5 DEF PgInv, Types, Referenced, Enabled, Live
<1>7. Committed(tx[p])
  BY <1>1, <1>3 DEF Committed, Writes, PgInv, Types
<1>8. PgInv'
  BY <1>3, <1>4, <1>6, <1>7, CommitKeepsInv DEF PgInv, Types
<1> QED
  BY <1>1, <1>2, <1>8 DEF Next

LEMMA CommitEmitStep ==
  ASSUME PgInv, NEW p \in Session, CommitEmit(p) \/ CommitTest(p)
  PROVE  PgInv' /\ Next
<1>1. CASE CommitEmit(p)
  <2>1. /\ tx[p].event # NoEvent /\ tx[p].to \subseteq tx[p].share
        /\ \A s \in tx[p].to : Enabled(s)
    BY <1>1, Open DEF CommitEmit, In, Sound, EmitSound
  <2> QED
    BY <1>1, <2>1, QueuedStep DEF CommitEmit
<1>2. CASE CommitTest(p)
  <2>1. tx[p].event # NoEvent /\ \A s \in tx[p].excl : Enabled(s)
    BY <1>2, Open DEF CommitTest, In, Sound, SubscriptionSound, Works
  <2> QED
    BY <1>2, <2>1, QueuedStep DEF CommitTest
<1> QED
  BY <1>1, <1>2

LEMMA CommitUpdateStep ==
  ASSUME PgInv, NEW p \in Session, CommitUpdate(p)
  PROVE  PgInv' /\ Next
<1>1. PICK s \in tx[p].excl, to \in tx[p].to : Goes(s, to)
  BY DEF CommitUpdate
<1>2. s \in SubscriptionId /\ to \in Live /\ subscription[s] \in Live
  BY Open DEF CommitUpdate, In, Sound, SubscriptionSound, Works
<1>3. event' = event /\ delivery' = delivery /\ Commit(p)
  BY DEF CommitUpdate
<1>4. Update(s, to)
  BY <1>1, <1>2, <1>3 DEF Update
<1>5. Referenced'
  BY <1>1, <1>2, <1>3 DEF PgInv, Types, Referenced, Goes, Delivery
<1>6. Committed(tx[p])
  BY <1>1, <1>2, <1>3 DEF Committed, PgInv, Types, Goes, Live
<1>7. subscription' \in [SubscriptionId -> Live \union {"new", "deleted", "pruned"}]
  BY <1>1, <1>2 DEF PgInv, Types, Goes
<1>8. PgInv'
  BY <1>3, <1>5, <1>6, <1>7, CommitKeepsInv DEF PgInv, Types
<1> QED
  BY <1>2, <1>4, <1>8 DEF Next

LEMMA CommitDeleteStep ==
  ASSUME PgInv, NEW p \in Session, CommitDelete(p)
  PROVE  PgInv' /\ Next
<1>1. tx[p].op = "cancel" /\ tx[p].todo = {} /\ event' = event /\ Commit(p)
  BY DEF CommitDelete, In
<1>2. PICK s \in SubscriptionId :
        /\ tx[p].excl = {s} /\ tx[p].share = {} /\ subscription[s] \in Live
        /\ \A d \in tx[p].rows : d[2] = s /\ delivery[d].state \in Waiting
        /\ \A d \in Delivery : d[2] = s /\ delivery[d].state \in Waiting => d \in tx[p].rows
  BY <1>1, Open DEF Sound, CancelSound
<1>3. /\ Goes(s, "deleted")
      /\ delivery' = [d \in Delivery |->
           IF d[2] = s /\ delivery[d].state \in Waiting THEN [delivery[d] EXCEPT !.state = "canceled"]
           ELSE delivery[d]]
  BY <1>2 DEF CommitDelete, Cancelable
<1>4. Delete(s)
  BY <1>1, <1>2, <1>3 DEF Delete
<1>5. \A d \in Delivery : /\ delivery'[d] # delivery[d] => delivery[d].state \in Waiting /\ d[2] = s
                          /\ delivery[d].state \in Waiting => delivery[d] # Absent
  BY <1>3 DEF Absent, Waiting
<1>6. delivery' \in [Delivery -> [state: Waiting \union Settled \union {"absent", "delivering"},
                                  attempt: 0..MaxAttempts]]
  <2>1. \A d \in Delivery : delivery'[d] \in
          [state: Waiting \union Settled \union {"absent", "delivering"}, attempt: 0..MaxAttempts]
    BY <1>3 DEF PgInv, Types, Settled
  <2> QED
    BY <1>3, <2>1
<1>7. subscription' \in [SubscriptionId -> Live \union {"new", "deleted", "pruned"}]
  BY <1>3 DEF PgInv, Types, Goes
<1>8. Referenced'
  BY <1>1, <1>3, <1>5 DEF PgInv, Types, Referenced, Goes, Delivery
<1>9. Committed(tx[p])
  BY <1>1, <1>2, <1>3, <1>5 DEF Committed, Writes, PgInv, Types, Goes
<1>10. PgInv'
  BY <1>1, <1>6, <1>7, <1>8, <1>9, CommitKeepsInv DEF PgInv, Types
<1> QED
  BY <1>4, <1>10 DEF Next

\* The commits that write one delivery under a lock of its subscription.
LEMMA WriteDeliveryStep ==
  ASSUME PgInv, NEW p \in Session, Commit(p), NEW d \in Delivery, d \in tx[p].rows,
         d[2] \in tx[p].excl \union tx[p].share, UNCHANGED <<subscription, event>>,
         NEW row \in [state: Waiting \union Settled \union {"absent", "delivering"},
                      attempt: 0..MaxAttempts],
         delivery' = [delivery EXCEPT ![d] = row]
  PROVE  PgInv'
<1>1. delivery' \in [Delivery -> [state: Waiting \union Settled \union {"absent", "delivering"},
                                  attempt: 0..MaxAttempts]]
  BY DEF PgInv, Types
<1>2. Referenced'
  <2>1. delivery[d] # Absent
    BY Open, RowsPresent
  <2> QED
    BY <2>1 DEF PgInv, Types, Referenced
<1>3. Committed(tx[p])
  BY DEF Committed, Writes, PgInv, Types
<1> QED
  BY <1>1, <1>2, <1>3, CommitKeepsInv DEF PgInv, Types

LEMMA CommitClaimStep ==
  ASSUME PgInv, NEW p \in Session, CommitClaim(p)
  PROVE  PgInv' /\ Next
<1>1. PICK d \in Delivery :
        /\ tx[p].rows = {d} /\ tx[p].excl = {d[2]} /\ Enabled(d[2])
        /\ delivery[d].state \in Waiting \union {"delivering"} /\ delivery[d].attempt < MaxAttempts
  BY Open DEF CommitClaim, In, Sound, DeliverySound, Handles
<1> DEFINE row == [state |-> "delivering", attempt |-> delivery[d].attempt + 1]
<1>2. /\ delivery' = [delivery EXCEPT ![d] = row] /\ Commit(p) /\ UNCHANGED <<subscription, event>>
  BY <1>1 DEF CommitClaim
<1>3. row \in [state: Waiting \union Settled \union {"absent", "delivering"}, attempt: 0..MaxAttempts]
  BY <1>1, SessionAssumption DEF PgInv, Types
<1>4. Claim(d)
  BY <1>1, <1>2 DEF Claim
<1> HIDE DEF row
<1>5. PgInv'
  BY <1>1, <1>2, <1>3, WriteDeliveryStep
<1> QED
  BY <1>4, <1>5 DEF Next

LEMMA CommitCompleteStep ==
  ASSUME PgInv, NEW p \in Session, CommitComplete(p)
  PROVE  PgInv' /\ Next
<1>1. PICK d \in Delivery, result \in Results :
        /\ tx[p].rows = {d} /\ tx[p].share = {d[2]} /\ delivery[d].state = "delivering"
        /\ tx[p].to = {IF result = "retrying" /\ subscription[d[2]] = "deleted" THEN "canceled"
                       ELSE result}
  BY Open DEF CommitComplete, In, Sound, DeliverySound, Handles
<1> DEFINE to == IF result = "retrying" /\ subscription[d[2]] = "deleted" THEN "canceled" ELSE result
           row == [delivery[d] EXCEPT !.state = to]
<1>2. /\ delivery' = [delivery EXCEPT ![d] = row] /\ Commit(p) /\ UNCHANGED <<subscription, event>>
      /\ Becomes(d, to)
  BY <1>1 DEF CommitComplete, Becomes
<1>3. row \in [state: Waiting \union Settled \union {"absent", "delivering"}, attempt: 0..MaxAttempts]
  BY DEF PgInv, Types, Results, Settled, Waiting
<1>4. Complete(d, result)
  <2>1. delivery[d] # Absent /\ d[2] \in SubscriptionId
    BY <1>1 DEF Absent, Delivery
  <2>2. subscription[d[2]] \notin Live <=> subscription[d[2]] = "deleted"
    BY <2>1 DEF PgInv, Referenced, Live
  <2> QED
    BY <1>1, <1>2, <2>2 DEF Complete
<1> HIDE DEF row
<1>5. PgInv'
  BY <1>1, <1>2, <1>3, WriteDeliveryStep
<1> QED
  BY <1>4, <1>5 DEF Next

LEMMA CommitRetryStep ==
  ASSUME PgInv, NEW p \in Session, CommitRetry(p)
  PROVE  PgInv' /\ Next
<1>1. PICK d \in Delivery :
        tx[p].rows = {d} /\ tx[p].excl = {d[2]} /\ Enabled(d[2]) /\ delivery[d].state = "failed"
  BY Open DEF CommitRetry, In, Sound, DeliverySound, Handles
<1> DEFINE row == [delivery[d] EXCEPT !.state = "retrying"]
<1>2. /\ delivery' = [delivery EXCEPT ![d] = row] /\ Commit(p) /\ UNCHANGED <<subscription, event>>
      /\ Becomes(d, "retrying")
  BY <1>1 DEF CommitRetry, Becomes
<1>3. row \in [state: Waiting \union Settled \union {"absent", "delivering"}, attempt: 0..MaxAttempts]
  BY DEF PgInv, Types, Waiting
<1>4. Retry(d)
  BY <1>1, <1>2 DEF Retry
<1> HIDE DEF row
<1>5. PgInv'
  BY <1>1, <1>2, <1>3, WriteDeliveryStep
<1> QED
  BY <1>4, <1>5 DEF Next

LEMMA CommitPruneStep ==
  ASSUME PgInv, NEW p \in Session, CommitPrune(p)
  PROVE  PgInv' /\ Next
<1> DEFINE t == tx[p]
<1>1. /\ t \in Tx /\ t.op = "gone" /\ Commit(p)
      /\ \A d \in t.rows : delivery[d].state \in Settled
      /\ \A e \in t.events : event[e] = "stored"
      /\ \A s \in t.excl : subscription[s] = "deleted"
      /\ \A d \in Delivery : delivery[d] # Absent /\ d \notin t.rows =>
           d[1] \notin t.events /\ d[2] \notin t.excl
  BY Open DEF CommitPrune, In, Sound, PruneSound
<1> HIDE DEF t
<1>2. /\ delivery' = [d \in Delivery |-> IF d \in t.rows THEN Absent ELSE delivery[d]]
      /\ event' = [e \in EventId |-> IF e \in t.events THEN "pruned" ELSE event[e]]
      /\ subscription' = [s \in SubscriptionId |-> IF s \in t.excl THEN "pruned" ELSE subscription[s]]
  BY DEF CommitPrune, t
<1>3. t.rows \in SUBSET Delivery /\ t.events \in SUBSET EventId /\ t.excl \in SUBSET SubscriptionId
  BY <1>1 DEF Tx
<1>4. Prune(t.rows, t.events, t.excl)
  BY <1>1, <1>2, <1>3 DEF Prune
<1>5. /\ delivery' \in [Delivery -> [state: Waiting \union Settled \union {"absent", "delivering"},
                                     attempt: 0..MaxAttempts]]
      /\ event' \in [EventId -> {"new", "stored", "pruned"}]
      /\ subscription' \in [SubscriptionId -> Live \union {"new", "deleted", "pruned"}]
  BY <1>2, SessionAssumption DEF PgInv, Types, Absent
<1>6. \A d \in Delivery : d[1] \in EventId /\ d[2] \in SubscriptionId
  BY DEF Delivery
<1>7. Referenced'
  BY <1>1, <1>2, <1>6 DEF PgInv, Referenced
<1>8. Committed(t)
  BY <1>2, <1>3 DEF Committed, Writes
<1>9. PgInv'
  BY <1>1, <1>5, <1>7, <1>8, CommitKeepsInv DEF t
<1> QED
  BY <1>3, <1>4, <1>9 DEF Next

----------------------------------------------------------------------------
(* Every step, and what follows.                                            *)

LEMMA CreateSubscriptionStep ==
  ASSUME PgInv, NEW s \in SubscriptionId, CreateSubscription(s)
  PROVE  PgInv' /\ Next
<1>1. PICK to \in Live : Create(s, to) /\ tx' = tx
  BY DEF CreateSubscription
<1>2. /\ subscription[s] = "new" /\ subscription' = [subscription EXCEPT ![s] = to]
      /\ event' = event /\ delivery' = delivery
  BY <1>1 DEF Create, Goes
<1>3. \A z \in SubscriptionId : \/ subscription'[z] = subscription[z]
                                \/ subscription[z] = "new" /\ subscription'[z] \in Live
  BY <1>2 DEF PgInv, Types
<1>4. Types' /\ Referenced'
  <2>1. subscription' \in [SubscriptionId -> Live \union {"new", "deleted", "pruned"}]
    BY <1>2 DEF PgInv, Types
  <2>2. \A d \in Delivery : d[2] \in SubscriptionId
    BY DEF Delivery
  <2> QED
    BY <1>1, <1>2, <1>3, <2>1, <2>2 DEF PgInv, Types, Referenced, Live
<1>5. ASSUME NEW q \in Session PROVE Sound(tx[q])'
  <2>1. PICK t \in Tx : t = tx'[q] /\ Sound(t)
    BY <1>1 DEF PgInv, Types
  <2>2. EmitSound(t)'
    BY <1>3, <2>1 DEF Sound, EmitSound, NoRows, Enabled, Tx, Live
  <2>3. SubscriptionSound(t)' /\ CancelSound(t)'
    BY <1>2, <1>3, <2>1 DEF Sound, SubscriptionSound, CancelSound, Enabled, Live, Works
  <2>4. DeliverySound(t)'
    <3>1. \A d \in Delivery : delivery[d] # Absent => subscription'[d[2]] = subscription[d[2]]
      BY <1>3 DEF PgInv, Referenced, Live, Delivery
    <3> QED
      BY <1>2, <2>1, <3>1 DEF Sound, DeliverySound, Enabled, Handles, NoLocks, Absent, Waiting
  <2>5. PruneSound(t)'
    BY <1>2, <1>3, <2>1 DEF Sound, PruneSound, Tx
  <2>6. Sound(t)'
    BY <1>2, <2>1, <2>2, <2>3, <2>4, <2>5 DEF Sound, NoRows, NoLocks
  <2> QED
    BY <2>1, <2>6, SoundThen
<1>6. \A p, q \in Session : p # q => Apart(tx[p], tx[q])'
  BY <1>1 DEF PgInv, Apart
<1>7. PgInv'
  BY <1>4, <1>5, <1>6 DEF PgInv
<1> QED
  BY <1>1, <1>7 DEF Next

LEMMA PgStep ==
  ASSUME PgInv, [PgNext]_vars
  PROVE  PgInv' /\ [Next]_tables
<1>1. CASE UNCHANGED vars
  <2>1. tx' = tx /\ subscription' = subscription /\ event' = event /\ delivery' = delivery
    BY <1>1 DEF vars, tables
  <2>2. Types' /\ Referenced'
    BY <2>1 DEF PgInv, Types, Referenced
  <2>3. ASSUME NEW q \in Session PROVE Sound(tx[q])'
    BY <2>1, SoundStill, SoundThen DEF PgInv
  <2>4. \A p, q \in Session : p # q => Apart(tx[p], tx[q])'
    BY <2>1 DEF PgInv, Apart
  <2> QED
    BY <2>1, <2>2, <2>3, <2>4 DEF PgInv, tables
<1>2. ASSUME NEW s \in SubscriptionId, CreateSubscription(s) PROVE PgInv' /\ Next
  BY <1>2, CreateSubscriptionStep
<1>3. ASSUME NEW p \in Session, Statement(p) PROVE PgInv' /\ UNCHANGED tables
  BY <1>3, StatementsKeepInv
<1>4. ASSUME NEW p \in Session, CommitOf(p) PROVE PgInv' /\ Next
  BY <1>4, CommitEmitStep, CommitUpdateStep, CommitDeleteStep, CommitClaimStep, CommitCompleteStep,
     CommitRetryStep, CommitPruneStep DEF CommitOf
<1>5. ASSUME NEW p \in Session, Rollback(p) PROVE PgInv' /\ UNCHANGED tables
  BY <1>5, RollbackStep DEF Rollback, Commit
<1> QED
  BY <1>1, <1>2, <1>3, <1>4, <1>5 DEF PgNext

\* PgInvCorrect: what an open transaction found and locked stays as it found it until it
\* ends, whatever the others commit meanwhile.
THEOREM PgInvCorrect == PgSpec => []PgInv
  BY InitInv, PgStep, PTL DEF PgSpec

\* TransactionsTyped: the rows are well formed, and no row is locked to be written by two
\* transactions, or to be written by one and shared by another.
THEOREM TransactionsTyped == PgSpec => []TypeOK
<1>1. PgInv => TypeOK
  <2> SUFFICES ASSUME PgInv PROVE TypeOK
    OBVIOUS
  <2>1. \A p \in Session :
          /\ tx[p].op \in {"none", "emit", "update", "delete", "cancel", "test", "claim",
                           "complete", "record", "retry", "requeue", "prune", "events", "gone"}
          /\ tx[p].excl \subseteq SubscriptionId /\ tx[p].share \subseteq SubscriptionId
          /\ tx[p].rows \subseteq Delivery /\ tx[p].event \in EventId \union {NoEvent}
    BY DEF PgInv, Types, Tx, Ops
  <2>2. \A p, q \in Session : p # q =>
          /\ tx[p].excl \cap (tx[q].excl \union tx[q].share) = {}
          /\ tx[p].rows \cap tx[q].rows = {}
    BY DEF PgInv, Apart
  <2> QED
    BY <2>1, <2>2 DEF PgInv, Types, TypeOK
<1> QED
  BY <1>1, PgInvCorrect, PTL

\* CommitsImplementTables: whatever the statements of any number of transactions interleave
\* to, each commit is one operation of WebhookTables: a release event and its deliveries, a
\* deletion and the end of all that waits, a result and the look at the subscription are
\* one step each.
THEOREM CommitsImplementTables == PgSpec => ImplementsTables
<1>1. PgInit => Init
  BY DEF PgInit
<1> QED
  BY <1>1, PgStep, PgInvCorrect, PTL DEF PgSpec, ImplementsTables, Spec

\* Whom a transaction of each kind can wait for: one that deletes a subscription waits for
\* nobody, because who holds a waiting delivery holds its subscription too.
LEMMA Waits ==
  ASSUME PgInv, NEW p \in Session, NEW q \in WaitsFor(p)
  PROVE  /\ q \in Session
         /\ tx[p].op \in {"emit", "complete", "retry"}
         /\ tx[p].op \in {"emit", "complete"} => tx[q].op \notin {"emit", "complete", "retry"}
         /\ tx[p].op = "retry" => tx[q].op \notin {"complete", "retry"}
<1>1. q \in Others(p) /\ q \in Session
  BY DEF WaitsFor, Others
<1>2. /\ tx[p] \in Tx /\ Sound(tx[p]) /\ tx[q] \in Tx /\ Sound(tx[q]) /\ Apart(tx[p], tx[q])
  BY <1>1, Open
<1>3. PICK t \in Tx, u \in Tx : t = tx[p] /\ u = tx[q] /\ Sound(t) /\ Sound(u) /\ Apart(t, u)
  BY <1>2
<1>4. ASSUME t.op = "cancel" PROVE FALSE
  <2>1. PICK d : d \in t.todo /\ d \in u.rows
    BY <1>3, <1>4 DEF WaitsFor, In
  <2>2. d \in Delivery /\ d[2] \in t.excl /\ delivery[d].state \in Waiting
    BY <1>3, <1>4, <2>1 DEF Sound, CancelSound
  <2>3. d[2] \notin u.excl \union u.share
    BY <1>3, <2>2 DEF Apart
  <2> QED
    BY <1>3, <2>1, <2>2, <2>3 DEF Sound, NoRows, EmitSound, SubscriptionSound, CancelSound,
       DeliverySound, PruneSound, Tx, Works, Handles, Ops, Waiting, Settled
<1>5. t.op \in {"emit", "complete", "retry"}
  BY <1>3, <1>4 DEF WaitsFor, In
<1>6. t.op \in {"emit", "complete"} => u.excl # {}
  BY <1>3 DEF WaitsFor, In
<1>7. t.op = "retry" => u.excl # {} \/ u.share # {}
  BY <1>3 DEF WaitsFor, In
<1>8. /\ u.op = "emit" => u.excl = {}
      /\ u.op \in {"complete", "retry"} => u.excl = {} /\ u.share = {}
  BY <1>3 DEF Sound, EmitSound, DeliverySound, NoLocks
<1> QED
  BY <1>1, <1>3, <1>5, <1>6, <1>7, <1>8

\* NeverWaitsInCircle: for any number of transactions, each set of them has one that waits
\* for none of the others: nothing the outbox does in Postgres ends in a deadlock.
THEOREM NeverWaitsInCircle == PgSpec => []NeverDeadlocked
<1>1. PgInv => NeverDeadlocked
  <2> SUFFICES ASSUME PgInv, NEW P \in (SUBSET Session) \ {{}}
               PROVE  \E p \in P : WaitsFor(p) \cap P = {}
    BY DEF NeverDeadlocked
  <2>1. CASE \E p \in P : tx[p].op \notin {"emit", "complete", "retry"}
    BY <2>1, Waits
  <2>2. CASE /\ \A p \in P : tx[p].op \in {"emit", "complete", "retry"}
             /\ \E p \in P : tx[p].op # "retry"
    BY <2>2, Waits
  <2>3. CASE \A p \in P : tx[p].op = "retry"
    BY <2>3, Waits
  <2> QED
    BY <2>1, <2>2, <2>3
<1> QED
  BY <1>1, PgInvCorrect, PTL

\* EventsReachSubscribers: a committed release event is queued for exactly the subscriptions
\* that its statement saw enabled and that are enabled still, for any updates and deletions
\* in between.
THEOREM EventsReachSubscribers == PgSpec => EventReachesSubscribers
<1> DEFINE Reaches ==
      \A p \in Session :
        In(p, "emit") /\ event'[tx[p].event] = "stored" =>
          \A s \in SubscriptionId :
            delivery'[<<tx[p].event, s>>].state = "pending" <=> s \in tx[p].seen /\ Enabled(s)
<1>1. ASSUME PgInv, PgNext PROVE Reaches
  <2> SUFFICES ASSUME NEW p \in Session, In(p, "emit"), event'[tx[p].event] = "stored",
                      NEW s \in SubscriptionId
               PROVE  delivery'[<<tx[p].event, s>>].state = "pending"
                        <=> s \in tx[p].seen /\ Enabled(s)
    OBVIOUS
  <2> DEFINE e == tx[p].event
  <2>1. e \in EventId /\ e # NoEvent /\ event[e] = "new"
    BY <1>1, Open, EventsApart DEF In, Sound
  <2>2. event' # event
    BY <2>1
  <2>3. PICK q \in Session : CommitEmit(q) \/ CommitTest(q) \/ CommitPrune(q)
    BY <1>1, <2>2, StatementsKeepInv DEF PgNext, CreateSubscription, Create, Rollback, CommitOf,
       CommitUpdate, CommitDelete, CommitClaim, CommitComplete, CommitRetry, tables
  <2>4. ~CommitPrune(q)
    BY <2>1 DEF CommitPrune
  <2>5. tx[q].event = e
    BY <1>1, <2>1, <2>3, <2>4 DEF CommitEmit, CommitTest, Queued, PgInv, Types
  <2>6. q = p /\ CommitEmit(p)
    BY <1>1, <2>1, <2>3, <2>4, <2>5, Open DEF Apart, Others, In, CommitTest
  <2>7. tx[p].to = {z \in tx[p].seen : Enabled(z)}
    BY <1>1, <2>6, Open DEF CommitEmit, In, Sound, EmitSound
  <2>8. delivery[<<e, s>>] = Absent /\ <<e, s>> \in Delivery
    BY <1>1, <2>1 DEF PgInv, Referenced, Delivery
  <2>9. delivery'[<<e, s>>] = IF s \in tx[p].to THEN [state |-> "pending", attempt |-> 0]
                              ELSE delivery[<<e, s>>]
    BY <2>6, <2>8 DEF CommitEmit, Queued
  <2> QED
    BY <2>7, <2>8, <2>9 DEF Absent
<1>2. PgInv /\ [PgNext]_vars => [Reaches]_vars
  BY <1>1
<1> QED
  BY <1>2, PgInvCorrect, PTL DEF PgSpec, EventReachesSubscribers
=============================================================================
