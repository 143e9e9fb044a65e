------------------------------ MODULE JobViews ------------------------------
(***************************************************************************)
(* What clients see of the queue while it moves: internal/server/jobs.go   *)
(* over the Postgres store.  A job is read in one statement and its run in *)
(* the next, a list reads its jobs one by one, a wait reads again and      *)
(* again; the queue (RunQueue, whose operations commit in one step each)   *)
(* changes between any two statements.                                     *)
(*                                                                         *)
(* Every statement needs one of the connections of pgxpool.  A list keeps  *)
(* the connection of its open rows while it reads their jobs, and a        *)
(* transaction that encrypts or decrypts keeps its own while it reads the  *)
(* key of the workspace: each of them may need a second connection.  What  *)
(* a statement, or a transaction that needs no second, holds while it runs *)
(* is left out: it waits for nothing.                                      *)
(***************************************************************************)
EXTENDS RunQueue

CONSTANTS
  Client, NoJob,
  MaxConns,     \* pool_max_conns
  MaxDoubles,   \* assumed of the load: requests at a time that may need two
  PageSize,     \* the limit of a list
  Asks,         \* bound of the model: the kinds of request of a client
  Rank          \* the order of job ids, which are random

Op == {"get", "wait", "await", "list", "tx"}

ASSUME ViewAssumption ==
  /\ Asks \in [Client -> SUBSET Op]
  /\ NoJob \notin JobId
  /\ MaxConns \in Nat \ {0} /\ MaxDoubles \in Nat /\ PageSize \in Nat \ {0}
  /\ Rank \in [JobId -> Nat] /\ \A i, j \in JobId : Rank[i] = Rank[j] => i = j

VARIABLES
  req,   \* the request a client waits for
  walk   \* the pages a client has read so far

views == <<req, walk>>
all == <<vars, views>>

Status == JobState \union {"success", "failure", "canceled", "absent"}
Item == [id: JobId, created: Nat]

NoCursor == [id |-> NoJob, created |-> 0]
NoRequest == [op |-> "none", stage |-> "none", job |-> NoJob, of |-> NoRun, seen |-> "absent", created |-> 0,
              views |-> {}, rows |-> {}, items |-> {}]
NoWalk == [cursor |-> NoCursor, listed |-> {}, stayed |-> {}]

ViewsTypeOK ==
  /\ TypeOK
  /\ req \in [Client -> [op: Op \union {"none"},
                         stage: {"none", "job", "run", "sleep", "rows", "key"},
                         job: JobId \union {NoJob}, of: RunId \union {NoRun},
                         seen: JobState \union {"absent"}, created: Nat, views: SUBSET Status,
                         rows: SUBSET JobId, items: SUBSET Item]]
  /\ walk \in [Client -> [cursor: Item \union {NoCursor}, listed: SUBSET JobId, stayed: SUBSET JobId]]
  \* A walk goes on from an item that was listed.
  /\ \A c \in Client : walk[c].cursor # NoCursor => walk[c].cursor.id \in walk[c].listed

ViewsInit ==
  /\ Init
  /\ req = [c \in Client |-> NoRequest]
  /\ walk = [c \in Client |-> NoWalk]

----------------------------------------------------------------------------
(* Status.                                                                  *)

\* What a list shows (state.jobTerminalStatus).
JobTerminalStatus(j, r) ==
  IF r = "CANCELED" THEN "canceled"
  ELSE IF j \in {"queued", "running"} THEN j
  ELSE IF j = "succeeded" \/ r \in {"SUCCEEDED", "WAITING_HUMAN"} THEN "success" ELSE "failure"

\* Fault: a job that was canceled while it ran counts as a failure.
TerminalJobStatusFault(j, r) ==
  IF j = "succeeded" \/ r \in {"SUCCEEDED", "WAITING_HUMAN"} THEN "success" ELSE "failure"
\* What a job's own pages show once it is settled (server.terminalJobStatus).
TerminalJobStatus(j, r) ==
  IF r = "CANCELED" THEN "canceled"
  ELSE IF j = "succeeded" \/ r \in {"SUCCEEDED", "WAITING_HUMAN"} THEN "success" ELSE "failure"

\* jobResult, newJobStatus: "pending" or the state, until the job is settled.
JobResult(j, r) == IF j \in Settled THEN TerminalJobStatus(j, r) ELSE j

StoredJobs == {j \in JobId : job[j].state # "absent"}

\* The status of a job among these jobs and runs, and now.
StatusAmong(jobs, runs, j) ==
  IF jobs[j].state = "absent" THEN "absent" ELSE JobTerminalStatus(jobs[j].state, runs[jobs[j].run].state)
View(j) == StatusAmong(job, run, j)

IsSettledForTrigger(r) == run[r].state \in Terminal \union {"WAITING_HUMAN"}

----------------------------------------------------------------------------
(* Connections.                                                             *)

In(c, op) == req[c].op = op
At(c, stage) == req[c].stage = stage
Doubles(c) == In(c, "list") \/ In(c, "tx")

\* Fault: the first statement's connection is kept for the second.
HoldsFault(c) == Doubles(c) \/ (At(c, "run") /\ ~In(c, "await"))
Holds(c) == Doubles(c)

Free == MaxConns - Cardinality({c \in Client : Holds(c)})
DoublesAllowed == Cardinality({c \in Client : Doubles(c)}) < MaxDoubles

\* The client has its answer, or its connection is gone.
Answer(c) == req' = [req EXCEPT ![c] = NoRequest]
Becomes(c, r) == req' = [req EXCEPT ![c] = r]
Quiet == UNCHANGED vars

----------------------------------------------------------------------------
(* One job.                                                                 *)

\* handleJobStatus, handleJobResult, and waitForJobResult with its polls.
BeginGet(c, j) ==
  /\ In(c, "none") /\ Quiet /\ UNCHANGED walk
  /\ \E op \in {"get", "wait"} \cap Asks[c] : Becomes(c, [NoRequest EXCEPT !.op = op, !.stage = "job", !.job = j])

\* waitForRun reads the run only.
BeginAwait(c, r) ==
  /\ In(c, "none") /\ "await" \in Asks[c] /\ Quiet /\ UNCHANGED walk
  /\ Becomes(c, [NoRequest EXCEPT !.op = "await", !.stage = "run", !.of = r])

\* GetJob, first statement.
ReadJob(c) ==
  /\ At(c, "job") /\ Free > 0 /\ Quiet /\ UNCHANGED walk
  /\ LET j == req[c].job IN
     IF j \in StoredJobs
     THEN Becomes(c, [req[c] EXCEPT !.stage = "run", !.of = job[j].run, !.seen = job[j].state,
                                    !.created = job[j].created, !.views = {View(j)}])
     ELSE IF In(c, "list") THEN Becomes(c, [req[c] EXCEPT !.stage = "rows"]) ELSE Answer(c)

\* What GetJob's second statement makes of the two; a run that is gone is an error.
Shown(c) ==
  LET r == run[req[c].of].state IN
    IF r = "ABSENT" THEN "absent"
    ELSE IF In(c, "list") THEN JobTerminalStatus(req[c].seen, r) ELSE JobResult(req[c].seen, r)

\* GetJob, second statement, and the key that decrypts what it read.
ReadRun(c) ==
  /\ At(c, "run") /\ ~In(c, "await") /\ Free > 0 /\ Quiet /\ UNCHANGED walk
  /\ CASE Shown(c) = "absent" -> Answer(c)
       [] In(c, "list") /\ Shown(c) # "absent" ->
            Becomes(c, [req[c] EXCEPT !.stage = "rows",
                          !.items = @ \union {[id |-> req[c].job, created |-> req[c].created]}])
       [] In(c, "wait") /\ Shown(c) \in {"queued", "running"} -> Becomes(c, [req[c] EXCEPT !.stage = "sleep"])
       [] OTHER -> Answer(c)

AwaitRun(c) ==
  /\ At(c, "run") /\ In(c, "await") /\ Free > 0 /\ Quiet /\ UNCHANGED walk
  /\ IF StoredRun(req[c].of) /\ ~IsSettledForTrigger(req[c].of)
     THEN Becomes(c, [req[c] EXCEPT !.stage = "sleep"]) ELSE Answer(c)

Poll(c) ==
  /\ At(c, "sleep") /\ Quiet /\ UNCHANGED walk
  /\ Becomes(c, [req[c] EXCEPT !.stage = IF In(c, "wait") THEN "job" ELSE "run", !.views = {}])

Deadline(c) == At(c, "sleep") /\ Answer(c) /\ Quiet /\ UNCHANGED walk

----------------------------------------------------------------------------
(* Lists, and the summary, which reads the same rows.                       *)

BeginList(c) ==
  /\ In(c, "none") /\ "list" \in Asks[c] /\ Free > 0 /\ DoublesAllowed /\ Quiet
  /\ Becomes(c, [NoRequest EXCEPT !.op = "list", !.stage = "rows", !.rows = StoredJobs])
  /\ walk' = IF walk[c].cursor = NoCursor THEN [walk EXCEPT ![c] = [NoWalk EXCEPT !.stayed = StoredJobs]]
             ELSE walk

NextRow(c, j) ==
  /\ At(c, "rows") /\ j \in req[c].rows /\ Quiet /\ UNCHANGED walk
  /\ Becomes(c, [req[c] EXCEPT !.stage = "job", !.job = j, !.rows = @ \ {j}])

\* Newest first, ties by id.
Before(x, y) == x.created > y.created \/ (x.created = y.created /\ Rank[x.id] > Rank[y.id])

\* Fault: jobs of the cursor's time are taken for newer ones.
AfterCursorFault(c) ==
  {x \in req[c].items : walk[c].cursor = NoCursor \/ walk[c].cursor.created > x.created}
AfterCursor(c) == {x \in req[c].items : walk[c].cursor = NoCursor \/ Before(walk[c].cursor, x)}
Ahead(c, x) == Cardinality({y \in AfterCursor(c) : Before(y, x)})
Page(c) == {x \in AfterCursor(c) : Ahead(c, x) < PageSize}
HasMore(c) == Cardinality(AfterCursor(c)) > PageSize

NextCursor(c) == {x \in Page(c) : Ahead(c, x) = PageSize - 1}

Ids(items) == {x.id : x \in items}

EndList(c) ==
  /\ At(c, "rows") /\ req[c].rows = {} /\ Quiet /\ Answer(c)
  /\ IF HasMore(c)
     THEN \E next \in NextCursor(c) :
            walk' = [walk EXCEPT ![c].cursor = next, ![c].listed = @ \union Ids(Page(c))]
     ELSE walk' = [walk EXCEPT ![c] = NoWalk]

----------------------------------------------------------------------------
(* The queue moves.                                                         *)

\* The operations that encrypt or decrypt inside their transaction.
Crypts ==
  \/ \E r \in RunId, j \in JobId : CreateRunAndEnqueue(r, j) \/ RetryRun(r, j)
  \/ \E t \in TaskId, j \in JobId : ResumeHumanTask(t, j)
  \/ \E l \in issued : \/ CompleteJobSucceeded(l) \/ CompleteJobFailed(l)
                       \/ \E t \in TaskId : CompleteJobWaitingHuman(l, t)

Others ==
  \/ \E w \in WorkerId, j \in JobId : ClaimJobForWorker(w, j)
  \/ \E l \in issued : HeartbeatJob(l) \/ CompleteCanceled(l)
  \/ \E j \in JobId : CancelJob(j)
  \/ \E r \in RunId : CancelRun(r)
  \/ \E stuckBefore \in 0..now : ExpireStuckJobs(stuckBefore)
  \/ \E s, f \in 0..now : PruneSettledJobs(s, f)

\* Whoever is between its two statements could now see something else.
Witnessed(requests) ==
  req' = [c \in Client |-> IF requests[c].stage = "run" /\ requests[c].job # NoJob
                           THEN [requests[c] EXCEPT !.views = @ \union {StatusAmong(job', run', requests[c].job)}]
                           ELSE requests[c]]
Stays == walk' = [c \in Client |-> [walk[c] EXCEPT !.stayed = @ \cap StoredJobs']]

BeginTx(c) ==
  /\ In(c, "none") /\ "tx" \in Asks[c] /\ Free > 0 /\ DoublesAllowed /\ Quiet /\ UNCHANGED walk
  /\ Becomes(c, [NoRequest EXCEPT !.op = "tx", !.stage = "key"])

\* The key has been read: commit, or fail.
CommitTx(c) ==
  /\ At(c, "key") /\ Free > 0
  /\ Crypts \/ Quiet
  /\ Witnessed([req EXCEPT ![c] = NoRequest]) /\ Stays

QueueStep == ((Free > 0 /\ Others) \/ Tick) /\ Witnessed(req) /\ Stays

----------------------------------------------------------------------------
Serve(c) ==
  \/ ReadJob(c) \/ ReadRun(c) \/ AwaitRun(c) \/ Deadline(c)
  \/ (\E j \in JobId : NextRow(c, j)) \/ EndList(c) \/ CommitTx(c)

Request(c) ==
  \/ \E j \in JobId : BeginGet(c, j)
  \/ \E r \in RunId : BeginAwait(c, r)
  \/ BeginList(c) \/ BeginTx(c) \/ Poll(c)

ViewsNext == QueueStep \/ \E c \in Client : Request(c) \/ Serve(c)
ViewsSpec == ViewsInit /\ [][ViewsNext]_all

----------------------------------------------------------------------------
\* AnswersWereTrue: although a job and its run are read at two moments, the status answered was
\* the status of the job at one of the moments between them, and there is an error, or the status
\* of a run admitted again under the same key, only where the job was removed meanwhile
\* (PostgresStore.GetJob; terminalJobStatus and jobTerminalStatus agree).
AnswersWereTrue ==
  [][\A c \in Client : ReadRun(c) => req[c].views \cap {Shown(c), "absent"} # {}]_all

\* WalkComplete: whoever reads the pages of the list one after another, while jobs are created,
\* settled and pruned, gets every job that was there all the time, and gets none twice.
WalkComplete ==
  [][\A c \in Client : EndList(c) =>
       /\ Ids(Page(c)) \cap walk[c].listed = {}
       /\ ~HasMore(c) => walk[c].stayed \subseteq walk[c].listed \union Ids(Page(c))]_all

\* PoolNeverStarves: as long as fewer requests than there are connections may need two of them,
\* it never happens that all connections are taken and each of their holders waits for another
\* (PostgresStore.ListJobs, JobSummary and the transactions that encrypt): whoever waits is
\* served, for the pool serves in turn.
NeedsAnother(c) == At(c, "job") \/ At(c, "run") \/ At(c, "key")
PoolNeverStarves == Free = 0 => \E c \in Client : Holds(c) /\ ~NeedsAnother(c)
=============================================================================
