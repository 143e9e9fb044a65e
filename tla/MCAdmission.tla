---------------------------- MODULE MCAdmission ----------------------------
(* Instances of Admission small enough for TLC.                             *)
EXTENDS Admission, TLC

Symmetric == Permutations(Request) \union Permutations(Value)
=============================================================================
