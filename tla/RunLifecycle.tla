---------------------------- MODULE RunLifecycle ----------------------------
(***************************************************************************)
(* What the run queue promises a caller, with no jobs, tasks, clocks or    *)
(* worker names: every run moves along the life cycle below, a worker may  *)
(* act for a run only under a token it was granted, a token is granted     *)
(* once and to one run, and only the token a run holds now can report an   *)
(* outcome for it.  One step may move many runs: a claim takes back every  *)
(* lapsed lease, and retention works on all runs at once.                  *)
(***************************************************************************)
CONSTANTS RunId
VARIABLES phase,    \* where each run is in its life
          held,     \* the tokens that can act for each run now
          granted   \* every token ever granted

lifecycleVars == <<phase, held, granted>>

Outcome   == {"SUCCEEDED", "FAILED", "WAITING_HUMAN"}
Pending   == {"QUEUED", "RUNNING", "RESUMING"}
Retryable == {"FAILED", "CANCELED", "EXPIRED"}

LifecycleInit ==
  /\ phase = [r \in RunId |-> "ABSENT"]
  /\ held = [r \in RunId |-> {}]
  /\ granted = {}

Moves(r, from, to) == phase[r] \in from /\ phase'[r] = to /\ held'[r] = {}

Same(r)   == phase'[r] = phase[r] /\ held'[r] = held[r]
Admit(r)  == Moves(r, {"ABSENT"}, "QUEUED")
Revoke(r) == held[r] # {} /\ Moves(r, {"RUNNING"}, "RUNNING")
Report(r) == held[r] # {} /\ \E o \in Outcome : Moves(r, {"RUNNING"}, o)
Resume(r) == Moves(r, {"WAITING_HUMAN"}, "RESUMING")
Cancel(r) == Moves(r, Pending \union {"WAITING_HUMAN"}, "CANCELED")
Expire(r) == Moves(r, Pending, "EXPIRED")
Retry(r)  == Moves(r, Retryable, "QUEUED")
Forget(r) == Moves(r, Retryable \union {"SUCCEEDED"}, "ABSENT")

Step(r) == \/ Same(r) \/ Admit(r) \/ Revoke(r) \/ Report(r) \/ Resume(r)
           \/ Cancel(r) \/ Expire(r) \/ Retry(r) \/ Forget(r)

Grant(r, token) ==
  /\ phase[r] \in Pending
  /\ phase'[r] = "RUNNING"
  /\ held'[r] = {token}

LifecycleNext ==
  \/ /\ granted' = granted
     /\ \A r \in RunId : Step(r)
  \/ \E r \in RunId, token \in granted' \ granted :
       /\ granted' = granted \union {token}
       /\ Grant(r, token)
       /\ \A s \in RunId \ {r} : Step(s)

LifecycleSpec == LifecycleInit /\ [][LifecycleNext]_lifecycleVars
=============================================================================
