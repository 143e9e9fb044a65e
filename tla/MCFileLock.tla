------------------------------ MODULE MCFileLock ------------------------------
(* Instances of FileLock small enough for TLC.                              *)
EXTENDS FileLock, TLC

Callers == Permutations(Caller)
=============================================================================
