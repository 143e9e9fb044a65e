----------------------------- MODULE MCPgQueue -----------------------------
(* Instances of PgQueue small enough for TLC.                               *)
EXTENDS PgQueue, TLC

CONSTANTS app

OneApp   == [r \in RunId |-> app]
LimitOne == [r \in RunId |-> 1]

Symmetric == Permutations(TxnId) \union Permutations(JobId) \union Permutations(RunId)
               \union Permutations(WorkerId)
=============================================================================
