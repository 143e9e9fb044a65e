----------------------------- MODULE Admission -----------------------------
(***************************************************************************)
(* Admission of runs (internal/execution/service.go) by the execution API  *)
(* and the public API, on top of the client registry and of the input      *)
(* settings (internal/state/local_clients.go, input_config.go), and what   *)
(* becomes of the admitted input when the run's jobs are claimed.          *)
(*                                                                         *)
(* One app with one action, and one key of its input.  A request reads the *)
(* client, the runs, the release and the settings one after the other, and *)
(* the rest of the system goes on in between; reads that no property tells *)
(* apart are one step.  The release itself, schemas and audit records are  *)
(* left out: a request may be refused for their sake.                      *)
(***************************************************************************)
EXTENDS Naturals

CONSTANTS
  Request,      \* requests being handled
  Key,          \* idempotency keys
  Client, NoClient,
  Value, NoValue,   \* what the key of an input may be set to, or not at all
  NoRun,
  Store,        \* "local" or "postgres"
  Claimer,      \* who claims jobs: "local" workers, "remote" ones, or both
  MaxEdits,     \* bound of the model: changes of settings and clients
  MaxJobs       \* bound of the model: claims of one run

ASSUME ConstantAssumption ==
  /\ Key # {}
  /\ NoClient \notin Client /\ NoValue \notin Value
  /\ Store \in {"local", "postgres"}
  /\ Claimer \subseteq {"local", "remote"}
  /\ MaxEdits \in Nat /\ MaxJobs \in Nat

Caller == Client \union {NoClient}
Input  == Value \union {NoValue}

\* Input settings exist per app, per action, per client, and per client and action.
Scope     == [action: BOOLEAN, client: Caller]
Setting   == [value: Input, locked: BOOLEAN]
NoSetting == [value |-> NoValue, locked |-> FALSE]

\* The id of a run with an idempotency key is computed from the key and the client.
RunId == [key: Key, client: Caller]

VARIABLES
  client,   \* the registry: a client has a token, none, or was deleted
  setting,  \* the input settings
  req,      \* the requests and where their handling is
  run,      \* the runs and the job each is at
  admitted, pruned,   \* how often a run was created, and deleted by retention
  edits

vars == <<client, setting, req, run, admitted, pruned, edits>>

RequestRow == [at: {"idle", "authorized", "looked_up", "resolved", "conflict",
                    "answered", "refused"},
               client: Caller, key: Key, sent: Input, input: Input,
               settings: [Scope -> Setting], answer: RunId \union {NoRun}]
RunRow == [state: {"absent", "queued", "running", "failed", "waiting", "succeeded"},
           client: Caller, sent: Input, input: Input, settings: [Scope -> Setting],
           runResolved: BOOLEAN, jobResolved: BOOLEAN,
           seen: Input \union {"nothing", "refused"}, jobs: Nat]

NoSettings == [s \in Scope |-> NoSetting]
Absent == [state |-> "absent", client |-> NoClient, sent |-> NoValue, input |-> NoValue,
           settings |-> NoSettings, runResolved |-> FALSE, jobResolved |-> FALSE,
           seen |-> "nothing", jobs |-> 0]
NoRequest(k) == [at |-> "idle", client |-> NoClient, key |-> k, sent |-> NoValue,
                 input |-> NoValue, settings |-> NoSettings, answer |-> NoRun]

\* TypeOK: the types of the state, with settings kept for registered clients only
\* (DeleteClient and SetInputConfig, which run in any order).
TypeOK ==
  /\ client \in [Client -> {"token", "no_token", "deleted"}]
  /\ setting \in [Scope -> Setting]
  /\ \A s \in Scope : setting[s] = NoSetting \/ s.client = NoClient
                     \/ client[s.client] # "deleted"
  /\ req \in [Request -> RequestRow]
  /\ run \in [RunId -> RunRow]
  /\ admitted \in [RunId -> Nat] /\ pruned \in [RunId -> Nat]
  /\ edits \in 0..MaxEdits

\* Clients registered before.
Init ==
  /\ client \in [Client -> {"token", "no_token"}]
  /\ setting = NoSettings
  /\ req = [q \in Request |-> NoRequest(CHOOSE k \in Key : TRUE)]
  /\ run = [r \in RunId |-> Absent]
  /\ admitted = [r \in RunId |-> 0] /\ pruned = [r \in RunId |-> 0]
  /\ edits = 0

----------------------------------------------------------------------------
(* The overlay of the input settings.                                       *)

\* Each layer sets the keys it has and locks some of them; one that is not set leaves
\* what is below it.
LaidOn(below, above) ==
  [value  |-> IF above.value = NoValue THEN below.value ELSE above.value,
   locked |-> below.locked \/ above.locked]

\* The layers that apply to a request of client c, the least specific at the bottom.
LayersWrongOrderFault(c, settings) ==
  LET Of(of, action) == settings[[action |-> action, client |-> of]]
      shared == LaidOn(Of(NoClient, FALSE), Of(NoClient, TRUE))
  IN IF c = NoClient THEN shared ELSE LaidOn(LaidOn(Of(c, FALSE), Of(c, TRUE)), shared)
Layers(c, settings) ==
  LET Of(of, action) == settings[[action |-> action, client |-> of]]
      shared == LaidOn(Of(NoClient, FALSE), Of(NoClient, TRUE))
  IN IF c = NoClient THEN shared ELSE LaidOn(shared, LaidOn(Of(c, FALSE), Of(c, TRUE)))

\* The request is laid on top, and refused if it sets a locked key.
ApplyInputOverlay(sent, layers) ==
  [value    |-> IF sent = NoValue THEN layers.value ELSE sent,
   rejected |-> layers.locked /\ sent # NoValue]

ResolveInput(c, sent, settings) == ApplyInputOverlay(sent, Layers(c, settings))

----------------------------------------------------------------------------
(* Clients and input settings.                                              *)

Edit == edits < MaxEdits /\ edits' = edits + 1

RotateClientToken(c) ==
  /\ Edit /\ client[c] = "no_token"
  /\ client' = [client EXCEPT ![c] = "token"]
  /\ UNCHANGED <<setting, req, run, admitted, pruned>>

RevokeClientToken(c) ==
  /\ Edit /\ client[c] = "token"
  /\ client' = [client EXCEPT ![c] = "no_token"]
  /\ UNCHANGED <<setting, req, run, admitted, pruned>>

DeleteClient(c) ==
  /\ Edit /\ client[c] = "no_token"
  /\ client' = [client EXCEPT ![c] = "deleted"]
  /\ setting' = [s \in Scope |-> IF s.client = c THEN NoSetting ELSE setting[s]]
  /\ UNCHANGED <<req, run, admitted, pruned>>

\* Only a key that is set can be locked.
SetInputConfig(s, new) ==
  /\ Edit
  /\ s.client # NoClient => client[s.client] # "deleted"
  /\ new.value # NoValue /\ new # setting[s]
  /\ setting' = [setting EXCEPT ![s] = new]
  /\ UNCHANGED <<client, req, run, admitted, pruned>>

DeleteInputConfig(s) ==
  /\ Edit /\ setting[s] # NoSetting
  /\ setting' = [setting EXCEPT ![s] = NoSetting]
  /\ UNCHANGED <<client, req, run, admitted, pruned>>

----------------------------------------------------------------------------
(* CreateRun.                                                               *)

RunOf(q) == [key |-> req[q].key, client |-> req[q].client]

Known(q)  == req[q].client = NoClient \/ client[req[q].client] # "deleted"
GoTo(q, at)     == req' = [req EXCEPT ![q].at = at]
AnswerWith(q)   == req' = [req EXCEPT ![q].at = "answered", ![q].answer = RunOf(q)]

Receive(q, c, k, v) ==
  /\ req[q].at = "idle"
  /\ req' = [req EXCEPT ![q] = [@ EXCEPT !.at = "authorized", !.client = c, !.key = k,
                                         !.sent = v]]
  /\ UNCHANGED <<client, setting, run, admitted, pruned, edits>>

\* The public API takes the client from the token, the execution API trusts its
\* caller to name one.
PublicRequest(q, c, k, v)    == c # NoClient /\ client[c] = "token" /\ Receive(q, c, k, v)
ExecutionRequest(q, c, k, v) == Receive(q, c, k, v)

\* A run of the same key is the answer, whatever its request asked for.
LookUp(q) ==
  /\ req[q].at = "authorized"
  /\ CASE ~Known(q)                        -> GoTo(q, "refused")
       [] Known(q) /\ run[RunOf(q)].state # "absent" -> AnswerWith(q)
       [] OTHER                            -> GoTo(q, "looked_up")
  /\ UNCHANGED <<client, setting, run, admitted, pruned, edits>>

\* The settings are read in one go, and remembered here for the properties.
Resolve(q) == LET effective == ResolveInput(req[q].client, req[q].sent, setting) IN
  /\ req[q].at = "looked_up"
  /\ IF ~Known(q) \/ effective.rejected THEN GoTo(q, "refused")
     ELSE req' = [req EXCEPT ![q] = [@ EXCEPT !.at = "resolved", !.input = effective.value,
                                              !.settings = setting]]
  /\ UNCHANGED <<client, setting, run, admitted, pruned, edits>>

\* No release, no such action, no bundle, or an input its schema does not take.
Refuse(q) ==
  /\ req[q].at \in {"looked_up", "resolved"}
  /\ GoTo(q, "refused")
  /\ UNCHANGED <<client, setting, run, admitted, pruned, edits>>

NewRun(q) ==
  [state |-> "queued", client |-> req[q].client, sent |-> req[q].sent,
   input |-> req[q].input, settings |-> req[q].settings,
   runResolved |-> TRUE, jobResolved |-> TRUE, seen |-> "nothing", jobs |-> 0]

CreateRunOverwritesFault(q) ==
  /\ req[q].at = "resolved"
  /\ run' = [run EXCEPT ![RunOf(q)] = NewRun(q)]
  /\ admitted' = [admitted EXCEPT ![RunOf(q)] = @ + 1]
  /\ AnswerWith(q)
  /\ UNCHANGED <<client, setting, pruned, edits>>
CreateRunAndEnqueue(q) ==
  /\ req[q].at = "resolved"
  /\ IF run[RunOf(q)].state = "absent"
     THEN /\ run' = [run EXCEPT ![RunOf(q)] = NewRun(q)]
          /\ admitted' = [admitted EXCEPT ![RunOf(q)] = @ + 1]
          /\ AnswerWith(q)
     ELSE GoTo(q, "conflict") /\ UNCHANGED <<run, admitted>>
  /\ UNCHANGED <<client, setting, pruned, edits>>

\* The loser of two inserts answers with the winner's run, if it is still there.
AnswerConflict(q) ==
  /\ req[q].at = "conflict"
  /\ IF run[RunOf(q)].state # "absent" THEN AnswerWith(q) ELSE GoTo(q, "refused")
  /\ UNCHANGED <<client, setting, run, admitted, pruned, edits>>

----------------------------------------------------------------------------
(* The run's jobs.                                                          *)

\* A local worker resolves the input of a job that was not resolved before; the
\* worker plane resolves every input (the remote worker none).
ResolvesAgainFault(r, w) == w = "local" \/ ~run[r].jobResolved
ResolvesAgain(r, w) == w = "remote" \/ ~run[r].jobResolved

InputSeen(r, w) ==
  LET again == ResolveInput(run[r].client, run[r].input, setting)
      gone  == run[r].client # NoClient /\ client[run[r].client] = "deleted"
  IN IF ~ResolvesAgain(r, w) THEN run[r].input
     ELSE IF gone \/ again.rejected THEN "refused" ELSE again.value

ClaimJob(r, w) ==
  /\ run[r].state = "queued" /\ run[r].jobs < MaxJobs
  /\ run' = [run EXCEPT ![r].jobs = @ + 1, ![r].seen = InputSeen(r, w),
                 ![r].state = IF InputSeen(r, w) = "refused" THEN "failed" ELSE "running"]
  /\ UNCHANGED <<client, setting, req, admitted, pruned, edits>>

\* The attempt ends, or its lease lapses and the same job is claimed again.
AttemptEnds(r) ==
  /\ run[r].state = "running"
  /\ \E s \in {"succeeded", "failed", "waiting", "queued"} : run' = [run EXCEPT ![r].state = s]
  /\ UNCHANGED <<client, setting, req, admitted, pruned, edits>>

\* A retry, or the answer of a person, makes a new job of the stored run.  The runs
\* table of PostgreSQL has no column for the flag.
NewJob(r) == run' = [run EXCEPT
  ![r].state = "queued", ![r].jobResolved = Store = "local" /\ run[r].runResolved]
RetryRun(r) ==
  /\ run[r].state = "failed" /\ NewJob(r)
  /\ UNCHANGED <<client, setting, req, admitted, pruned, edits>>
ResumeHumanTask(r) ==
  /\ run[r].state = "waiting" /\ NewJob(r)
  /\ UNCHANGED <<client, setting, req, admitted, pruned, edits>>

PruneSettledJobs(r) ==
  /\ run[r].state \in {"failed", "succeeded"} /\ pruned[r] = 0
  /\ run' = [run EXCEPT ![r] = Absent]
  /\ pruned' = [pruned EXCEPT ![r] = @ + 1]
  /\ UNCHANGED <<client, setting, req, admitted, edits>>

Next ==
  \/ \E c \in Client : RotateClientToken(c) \/ RevokeClientToken(c) \/ DeleteClient(c)
  \/ \E s \in Scope : DeleteInputConfig(s) \/ \E new \in Setting : SetInputConfig(s, new)
  \/ \E q \in Request :
       \/ \E c \in Caller, k \in Key, v \in Input :
            PublicRequest(q, c, k, v) \/ ExecutionRequest(q, c, k, v)
       \/ LookUp(q) \/ Resolve(q) \/ Refuse(q)
       \/ CreateRunAndEnqueue(q) \/ AnswerConflict(q)
  \/ \E r \in RunId :
       \/ \E w \in Claimer : ClaimJob(r, w)
       \/ AttemptEnds(r) \/ RetryRun(r) \/ ResumeHumanTask(r) \/ PruneSettledJobs(r)

Spec == Init /\ [][Next]_vars

----------------------------------------------------------------------------
\* AnswersOneRun: whatever requests with one idempotency key overlap, the run is
\* created once until retention deletes it, and every answer names the run of the
\* request's own client and key (the lookup, the insert and the second lookup of
\* CreateRun, around deterministicRunID).
AnswersOneRun ==
  /\ \A r \in RunId : admitted[r] <= 1 + pruned[r]
  /\ \A q \in Request : req[q].at = "answered" =>
       LET r == req[q].answer IN
         run[r].state = "absent" \/ (run[r].client = req[q].client /\ r.key = req[q].key)

\* Expected: what the settings and the request make of the input, stated without
\* layers: the request has its way with a key that nothing locks, and otherwise the
\* most specific setting has (a client counts for more than an action).
Rank(s) == (IF s.action THEN 1 ELSE 0) + (IF s.client = NoClient THEN 0 ELSE 2)
Applicable(c, settings) ==
  {s \in Scope : s.client \in {NoClient, c} /\ settings[s] # NoSetting}
Expected(c, sent, settings) ==
  LET over == Applicable(c, settings) IN
  IF sent # NoValue /\ \A s \in over : ~settings[s].locked THEN sent
  ELSE IF over = {} THEN NoValue
  ELSE settings[CHOOSE s \in over : \A t \in over : Rank(t) <= Rank(s)].value

\* LockedKeysHold: a run is admitted with the input that the settings of one moment
\* and the request make together, and never with a value of the request for a key
\* that was locked then (ResolveInput, ApplyInputOverlay).
LockedKeysHold == \A r \in RunId : run[r].state # "absent" =>
  /\ run[r].input = Expected(run[r].client, run[r].sent, run[r].settings)
  /\ run[r].sent # NoValue =>
       \A s \in Applicable(run[r].client, run[r].settings) : ~run[r].settings[s].locked

\* RunsAdmittedInput: what an action is given is the input that was admitted,
\* however the settings change and however often the run is claimed, retried or
\* resumed (docs/concepts/public-api.md: "is not changed by later catalog or
\* InputConfig updates").
RunsAdmittedInput == \A r \in RunId :
  run[r].seen # "nothing" => run[r].seen = run[r].input
=============================================================================
