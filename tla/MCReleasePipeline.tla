-------------------------- MODULE MCReleasePipeline --------------------------
(* Instances of ReleasePipeline small enough for TLC.                       *)
EXTENDS ReleasePipeline, TLC

CONSTANTS app

\* Every commit of every source is the same app.
SharedApp == [s \in Source |-> [c \in Commit |-> app]]

\* A server for each operation, and one server for all of them.
OwnServer == [o \in OperationId |-> o]
OneServer == [o \in OperationId |-> CHOOSE v \in ServerId : TRUE]

Symmetric == Permutations(Commit) \union Permutations(Source) \union Permutations(OperationId)
=============================================================================
