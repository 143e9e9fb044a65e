----------------------------- MODULE MCRunQueue -----------------------------
(* Instances of RunQueue small enough for TLC.  Every run is of one app.    *)
EXTENDS RunQueue, TLC

CONSTANTS r1, w1, app, act1, act2, plain, browser

OneApp        == [r \in RunId |-> app]
OneAction     == [r \in RunId |-> act1]
TwoActions    == [r \in RunId |-> IF r = r1 THEN act1 ELSE act2]
NoLimit       == [r \in RunId |-> 0]
LimitOne      == [r \in RunId |-> 1]
PlainRoute    == [r \in RunId |-> plain]
NoLabels      == [r \in RunId |-> {}]
NeedsBrowser  == [r \in RunId |-> {browser}]

\* Workers that serve every tag and offer no label ...
AnyWorkerTag  == [w \in WorkerId |-> {}]
NoOffer       == [w \in WorkerId |-> {}]
\* ... and workers of which only w1 serves the plain tag, both with a browser.
MixedTags     == [w \in WorkerId |-> IF w = w1 THEN {plain} ELSE {browser}]
BrowserOffer  == [w \in WorkerId |-> {browser}]

\* Job and worker ids are interchangeable where all workers are alike.
Symmetric == Permutations(JobId) \union Permutations(WorkerId)
JobSymmetry == Permutations(JobId)
=============================================================================
