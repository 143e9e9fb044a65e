----------------------------- MODULE MCRouting -----------------------------
(* Instances of Routing small enough for TLC.                               *)
EXTENDS Routing, TLC

CONSTANTS a, b, j1, blue, green, w1, p1, p2

Actions1    == [j \in Job |-> IF j = j1 THEN a ELSE b]
\* Release 1 leaves its actions on the app's tag; release 2 sends a elsewhere
\* and has no b.
AppTags     == [r \in Release |-> NoTag]
ActionTags  == [r \in Release |-> IF r = 1 THEN [x \in {a, b} |-> NoTag] ELSE [x \in {a} |-> green]]
\* The file holds an override, and no id of its active release.
LegacyFile  == [row |-> [release |-> 1, app |-> green, action |-> [x \in Action |-> NoTag]],
                history |-> (0 :> 1), id |-> NoId]
\* w1 serves one tag, any other worker all of them.
Pools       == [w \in Worker |-> IF w = w1 THEN {green} ELSE {}]
Overrides   == {blue, NoTag}
Patchers    == Permutations(Patcher)
=============================================================================
