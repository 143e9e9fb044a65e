----------------------------- MODULE MCJobViews -----------------------------
(* Instances of JobViews small enough for TLC: one worker, no routing.      *)
EXTENDS JobViews, TLC

CONSTANTS app, act, plain, j1, j2, j3, c1

OneApp     == [r \in RunId |-> app]
OneAction  == [r \in RunId |-> act]
NoLimit    == [r \in RunId |-> 0]
PlainRoute == [r \in RunId |-> plain]
NoLabels   == [r \in RunId |-> {}]
AnyTag     == [w \in WorkerId |-> {}]
NoOffer    == [w \in WorkerId |-> {}]
Ranks      == [j \in JobId |-> IF j = j1 THEN 1 ELSE IF j = j2 THEN 2 ELSE 3]

\* One client reads, the other one writes.
Sides      == [c \in Client |-> IF c = c1 THEN Op \ {"tx"} ELSE {"tx"}]
=============================================================================
