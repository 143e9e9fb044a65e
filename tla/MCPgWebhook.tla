----------------------------- MODULE MCPgWebhook -----------------------------
(* Instances of PgWebhook small enough for TLC.                             *)
EXTENDS PgWebhook, TLC

Symmetric == Permutations(Session) \union Permutations(SubscriptionId)
=============================================================================
