--------------------------- MODULE MCJobExecution ---------------------------
(* Instances of JobExecution small enough for TLC.                          *)
EXTENDS JobExecution

CONSTANTS j1, j2

Adapters == [j \in JobId |-> IF j = j1 THEN "entrypoint" ELSE "command"]
=============================================================================
