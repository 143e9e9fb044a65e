-------------------------- MODULE MCWebhookDelivery --------------------------
(* Instances of WebhookDelivery small enough for TLC.                       *)
EXTENDS WebhookDelivery, TLC

CONSTANTS app, worker

\* A subscription to everything, and one to the publications of one app only.
Everything   == [types |-> EventType, apps |-> {}]
Publications == [types |-> {"release.published"}, apps |-> {app}]
OneFilter    == {Everything}
BothFilters  == {Everything, Publications}

\* Replicas started with one --worker-id, the least the store can tell apart.
SharedWorkerId == [w \in DispatcherId |-> worker]

Symmetric == Permutations(DispatcherId) \union Permutations(EventId)
=============================================================================
