------------------------ MODULE MCExecutionBundles ------------------------
(* Instances of ExecutionBundles small enough for TLC.                      *)
EXTENDS ExecutionBundles, TLC

OwnCaches   == [w \in Worker |-> w]
SharedCache == [w \in Worker |-> "cache"]
Processes   == Permutations(Server)
=============================================================================
