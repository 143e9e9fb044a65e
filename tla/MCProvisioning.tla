--------------------------- MODULE MCProvisioning ---------------------------
(* Instances of Provisioning small enough for TLC.                          *)
EXTENDS Provisioning, TLC

MCRegistered == [i \in 1..MaxId |->
  IF i = 1 THEN [name |-> "n1", at |-> "l1", branch |-> "b1", mark |-> NoCommit]
  ELSE NoSource]
MCRegistration == {[name |-> "n2", at |-> "l1", branch |-> "b1"]}
MCChange == {[name |-> "n2", at |-> "none", branch |-> "none"],
             [name |-> "none", at |-> "none", branch |-> "b2"]}

MCStored == [x \in {"x1", "x2"} |->
  IF x = "x2" THEN [value |-> "v2", secret |-> TRUE, sealed |-> TRUE] ELSE NoVariable]

\* A source that is declared in another place and on another branch than it is
\* registered with, an exported credential and an exported variable among documents
\* with values.
Plain(kind, name, value, secret) ==
  [kind |-> kind, name |-> name, value |-> value, secret |-> secret,
   at |-> "none", branch |-> "none"]
MCDocs == <<
  Plain("Client", "c1", Redacted, FALSE),
  Plain("InputSettings", "c1", "v1", FALSE),
  [Plain("AppSource", "n2", Redacted, FALSE) EXCEPT !.at = "l2", !.branch = "b2"],
  Plain("Variable", "x2", Redacted, FALSE),
  Plain("GitCredential", "x1", "v1", TRUE),
  Plain("GitCredential", "x2", Redacted, TRUE)>>

\* What ApplyEstablishes is proved from holds of these documents.
ASSUME DocumentsAssumption == DocumentsFit /\ DocumentsApart
=============================================================================
