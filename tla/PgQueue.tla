------------------------------ MODULE PgQueue ------------------------------
(***************************************************************************)
(* The run queue over PostgreSQL (internal/state/postgres_store.go).  An   *)
(* operation of PostgresStore is a transaction of several statements under *)
(* READ COMMITTED: each statement selects its rows from what is committed  *)
(* when it begins, waits for the row locks it needs, and looks at the rows *)
(* it locked once more.  The rows a transaction writes stay locked until   *)
(* it ends, so all its writes are made by the step that commits it.        *)
(*                                                                         *)
(* Routing, encryption, events and the other data that RunQueue has or     *)
(* leaves out are left out here.  The clock is left out too: a lease is    *)
(* live or lapsed, and a run is idle once updated_at of its row and of its *)
(* jobs lies before the cutoff of the retention sweeps.                    *)
(***************************************************************************)
EXTENDS Naturals, FiniteSets

CONSTANTS
  RunId, JobId, WorkerId, App,
  TxnId,               \* connections of the pool: transactions in progress
  NoRun, NoJob, NoWorker, Nobody,
  AppOf,               \* the app of a run
  Limit,               \* the max-concurrent a run pins; 0 is "no limit"
  SweepsAlone,         \* TRUE: a retention sweep meets no other transaction
  MaxAttempts          \* bound of the model: a job is claimed this often

ASSUME ConstantAssumption ==
  /\ NoRun \notin RunId /\ NoJob \notin JobId
  /\ NoWorker \notin WorkerId /\ Nobody \notin TxnId
  /\ AppOf \in [RunId -> App]
  /\ Limit \in [RunId -> Nat]
  /\ SweepsAlone \in BOOLEAN
  /\ MaxAttempts \in Nat

VARIABLES
  run, job, task,  \* the committed rows: state of runs, jobs, human_tasks
  idle,            \* the runs nothing has touched for a long time
  holder,          \* who holds the lock of a row, or of an app's advisory lock
  txn,             \* the transactions in progress
  issued           \* every lease a committed claim returned

vars == <<run, job, task, idle, holder, txn, issued>>

Terminal == {"SUCCEEDED", "FAILED", "CANCELED", "EXPIRED"}
Working  == {"QUEUED", "RUNNING", "RESUMING"}
Outcome  == {"SUCCEEDED", "FAILED", "WAITING_HUMAN"}
Sweep    == {"expire", "prune"}

RunState == Terminal \union Working \union {"WAITING_HUMAN", "ABSENT"}
JobRow  == [state: {"absent", "queued", "running", "succeeded", "failed"},
            run: RunId \union {NoRun}, attempt: Nat, owner: WorkerId \union {NoWorker},
            lease: {"none", "live", "lapsed"}, canceled: BOOLEAN]
Lease   == [job: JobId, owner: WorkerId, attempt: Nat]
NoJobRow == [state |-> "absent", run |-> NoRun, attempt |-> 0, owner |-> NoWorker,
             lease |-> "none", canceled |-> FALSE]

\* What is locked.  A run has one row of human_tasks: its last task.
Lock == [kind: {"run", "task"}, id: RunId] \union [kind: {"job"}, id: JobId]
          \union [kind: {"app"}, id: App]
RunLocks(R)  == {[kind |-> "run", id |-> r] : r \in R}
TaskLocks(R) == {[kind |-> "task", id |-> r] : r \in R}
JobLocks(J)  == {[kind |-> "job", id |-> j] : j \in J}
AppLock(a)   == [kind |-> "app", id |-> a]

\* A transaction: its operation and arguments, the statement it is at, the
\* locks that statement still waits for, and the rows it found so far.
Txn == [op: {"none", "claim", "complete", "cancelJob", "cancelRun", "resume"} \union Sweep,
        at: {"first", "jobs", "task", "run", "lapsed", "count", "limit", "grant"},
        want: SUBSET Lock,
        run: RunId \union {NoRun}, job: JobId \union {NoJob},
        worker: WorkerId \union {NoWorker},
        outcome: Outcome \union {"none"},
        found: SUBSET RunId, jobs: SUBSET JobId, back: SUBSET JobId, pool: SUBSET JobId]
NoTxn == [op |-> "none", at |-> "first", want |-> {}, run |-> NoRun, job |-> NoJob,
          worker |-> NoWorker, outcome |-> "none",
          found |-> {}, jobs |-> {}, back |-> {}, pool |-> {}]

TypeOK ==
  /\ run \in [RunId -> RunState]
  /\ job \in [JobId -> JobRow]
  /\ task \in [RunId -> {"none", "pending", "done"}]
  /\ idle \subseteq RunId
  /\ holder \in [Lock -> TxnId \union {Nobody}]
  /\ txn \in [TxnId -> Txn]
  /\ issued \subseteq Lease

Init ==
  /\ run = [r \in RunId |-> "ABSENT"]
  /\ job = [j \in JobId |-> NoJobRow]
  /\ task = [r \in RunId |-> "none"]
  /\ idle = {}
  /\ holder = [x \in Lock |-> Nobody]
  /\ txn = [t \in TxnId |-> NoTxn]
  /\ issued = {}

-----------------------------------------------------------------------------
(* Transactions and locks.                                                 *)

rows == <<run, job, task, idle, issued>>

Busy(t) == txn[t].op # "none"

\* A sweep that is to be alone neither starts beside others nor lets them in.
Undisturbed(op) ==
  SweepsAlone => \A u \in TxnId : Busy(u) => op \notin Sweep /\ txn[u].op \notin Sweep

Free(locks) == \A x \in locks : holder[x] = Nobody

\* A transaction begins with a statement that takes locks and goes on to one
\* that needs more.  (Until it has its first lock it is as if not begun.)
Begin(t, remembered, taken, at, locks) ==
  /\ ~Busy(t)
  /\ Undisturbed(remembered.op)
  /\ Free(taken)
  /\ holder' = [x \in Lock |-> IF x \in taken THEN t ELSE holder[x]]
  /\ txn' = [txn EXCEPT ![t] = [remembered EXCEPT !.at = at, !.want = locks \ taken]]
  /\ UNCHANGED rows

\* A transaction of one statement leaves no trace but its writes to runs R.
AtOnce(op, locks, R) ==
  /\ Undisturbed(op)
  /\ Free(locks)
  /\ idle' = idle \ R
  /\ UNCHANGED <<holder, txn>>

\* t executes the statement `at` of its operation: the locks it selected when
\* it began are free.  It takes them together ...
Executes(t, op, at) == txn[t].op = op /\ txn[t].at = at /\ Free(txn[t].want)
Locked(t) == {x \in Lock : holder[x] = t} \union txn[t].want
LockedJobs(t) == {j \in JobId : [kind |-> "job", id |-> j] \in Locked(t)}

\* ... and keeps them, and what it picked, while it goes on to a statement that
\* needs more ...
GoOn(t, remembered, at, locks) ==
  /\ holder' = [x \in Lock |-> IF x \in Locked(t) \union JobLocks(remembered.pool)
                               THEN t ELSE holder[x]]
  /\ txn' = [txn EXCEPT ![t] = [remembered EXCEPT !.at = at, !.want = locks \ Locked(t)]]
  /\ UNCHANGED rows

\* ... until it ends: it commits what it wrote to runs R, or is rolled back.
End(t) ==
  /\ txn' = [txn EXCEPT ![t] = NoTxn]
  /\ holder' = [x \in Lock |-> IF holder[x] = t THEN Nobody ELSE holder[x]]
Commit(t, R) == End(t) /\ idle' = idle \ R
Rollback(t) == End(t) /\ UNCHANGED rows

\* A connection breaks, or the caller's context ends, before the commit.
Disconnect(t) == Busy(t) /\ Rollback(t)

\* PostgreSQL rolls one transaction of a cycle of waiting ones back.
WaitsFor(t, u) == \E x \in txn[t].want : holder[x] = u
Deadlocked(t) ==
  \E C \in SUBSET TxnId :
    /\ t \in C
    /\ \A u \in C : (\E v \in C : WaitsFor(u, v)) /\ (\E v \in C : WaitsFor(v, u))
Victim(t) == Deadlocked(t) /\ Rollback(t)

-----------------------------------------------------------------------------
(* Rows.                                                                   *)

JobsOf(r)  == {j \in JobId : job[j].run = r}
Active(j)  == job[j].state \in {"queued", "running"}
Lapsed(j)  == job[j].state = "running" /\ job[j].lease = "lapsed"
FreshJob(j) == job[j].state = "absent" /\ \A l \in issued : l.job # j
NewJob(r)  == [NoJobRow EXCEPT !.state = "queued", !.run = r]
SomeFresh  == \E j \in JobId : FreshJob(j)  \* bound of the model: ids may run out
Inserts(r) == \E j \in JobId : FreshJob(j) /\ job' = [job EXCEPT ![j] = NewJob(r)]

CanceledJob(j)  == [job[j] EXCEPT !.state = "failed", !.lease = "none", !.canceled = TRUE]
CompletedJob(j, state) == [job[j] EXCEPT !.state = state, !.lease = "none"]

CreateRunAndEnqueue(r, j) ==
  /\ run[r] = "ABSENT" /\ FreshJob(j)
  /\ AtOnce("create", RunLocks({r}), {})
  /\ run' = [run EXCEPT ![r] = "QUEUED"]
  /\ job' = [job EXCEPT ![j] = NewJob(r)]
  /\ UNCHANGED <<task, issued>>

-----------------------------------------------------------------------------
(* ClaimJobForWorker.                                                      *)

\* Lock the jobs that were to be canceled and lost their worker, then their runs ...
ClaimLost(t, w) ==
  LET lost == {j \in JobId : Lapsed(j) /\ job[j].canceled}
  IN Begin(t, [NoTxn EXCEPT !.op = "claim", !.worker = w, !.jobs = lost], JobLocks(lost),
           "lapsed", RunLocks({job[j].run : j \in lost}))

\* ... then the other jobs whose lease has lapsed, to queue them again.
ClaimLapsed(t) ==
  /\ Executes(t, "claim", "lapsed")
  /\ GoOn(t, txn[t], "jobs", JobLocks({j \in JobId : Lapsed(j) /\ ~job[j].canceled}))

PickFault(t, back) ==
  {j \in JobId : (job[j].state = "queued" \/ j \in back) /\ job[j].attempt < MaxAttempts}
\* FOR UPDATE SKIP LOCKED: the queued jobs nobody else has locked.
Pick(t, back) ==
  {j \in JobId : /\ job[j].state = "queued" \/ j \in back
                 /\ holder[[kind |-> "job", id |-> j]] = Nobody \/ j \in LockedJobs(t)
                 /\ job[j].attempt < MaxAttempts}

ClaimPick(t) ==
  /\ Executes(t, "claim", "jobs")
  /\ LET back == {j \in LockedJobs(t) : Lapsed(j) /\ ~job[j].canceled}
         pool == Pick(t, back)
     IN IF pool = {} THEN Rollback(t)  \* ErrNoQueuedJob
        ELSE GoOn(t, [txn[t] EXCEPT !.back = back, !.pool = pool], "count", {})

CountLocksFault(j) == {}
\* pg_advisory_xact_lock of the app of a candidate that pins a limit.
CountLocks(j) == IF Limit[job[j].run] = 0 THEN {} ELSE {AppLock(AppOf[job[j].run])}

\* The candidates are tried one by one (by age, which is left out).
ClaimCount(t) ==
  /\ Executes(t, "claim", "count")
  /\ \E j \in txn[t].pool : GoOn(t, [txn[t] EXCEPT !.job = j], "limit", CountLocks(j))

\* Running jobs as t sees them: what others committed and its own writes.
RunningFor(t, a) ==
  {j \in JobId : /\ job[j].state = "running" /\ AppOf[job[j].run] = a
                 /\ j \notin txn[t].jobs \union txn[t].back}
LimitReached(t, r) == Limit[r] > 0 /\ Cardinality(RunningFor(t, AppOf[r])) >= Limit[r]

ClaimLimit(t) ==
  /\ Executes(t, "claim", "limit")
  /\ LET j == txn[t].job
         left == txn[t].pool \ {j}
     IN IF ~LimitReached(t, job[j].run)
        THEN GoOn(t, txn[t], "grant", RunLocks({job[j].run}))
        ELSE IF left = {} THEN Rollback(t)
        ELSE GoOn(t, [txn[t] EXCEPT !.pool = left], "count", {})

ClaimGrant(t) ==
  /\ Executes(t, "claim", "grant")
  /\ LET c == txn[t]
         lost == {job[j].run : j \in c.jobs}
     IN /\ job' = [j \in JobId |->
                     IF j = c.job
                     THEN [job[j] EXCEPT !.state = "running", !.attempt = @ + 1,
                                         !.owner = c.worker, !.lease = "live"]
                     ELSE IF j \in c.jobs THEN CanceledJob(j)
                     ELSE IF j \in c.back
                     THEN [job[j] EXCEPT !.state = "queued", !.owner = NoWorker,
                                         !.lease = "none"]
                     ELSE job[j]]
        /\ run' = [r \in RunId |->
                     IF r \in lost THEN "CANCELED"
                     ELSE IF r = job[c.job].run /\ run[r] \in {"QUEUED", "RESUMING"}
                     THEN "RUNNING" ELSE run[r]]
        /\ issued' = issued \union {[job |-> c.job, owner |-> c.worker,
                                     attempt |-> job[c.job].attempt + 1]}
        /\ Commit(t, {job[j].run : j \in c.jobs \union c.back \union {c.job}})
  /\ UNCHANGED task

Claim(t) == ClaimLapsed(t) \/ ClaimPick(t) \/ ClaimCount(t) \/ ClaimLimit(t) \/ ClaimGrant(t)

-----------------------------------------------------------------------------
(* Workers: heartbeat and completion.                                      *)

Owned(l) ==
  job[l.job].state = "running" /\ job[l.job].owner = l.owner /\ job[l.job].attempt = l.attempt

HeartbeatJob(l) ==
  /\ Owned(l)
  /\ AtOnce("heartbeat", JobLocks({l.job}), {job[l.job].run})
  /\ job' = [job EXCEPT ![l.job].lease = "live"]
  /\ UNCHANGED <<run, task, issued>>

\* leasedJobAndRunPostgres, once the row of the job is locked.
ValidLease(l) == Owned(l) /\ job[l.job].lease # "lapsed"

CompleteLeased(t, l, outcome) ==
  /\ ValidLease(l)
  /\ Begin(t, [NoTxn EXCEPT !.op = "complete", !.job = l.job, !.outcome = outcome],
           JobLocks({l.job}), "run", RunLocks({job[l.job].run}))

CompleteRun(t) ==
  /\ Executes(t, "complete", "run")
  /\ LET j == txn[t].job
         r == job[j].run
         o == txn[t].outcome
     IN /\ Commit(t, {r})
        /\ IF job[j].canceled
           THEN /\ job' = [job EXCEPT ![j] = CanceledJob(j)]
                /\ run' = [run EXCEPT ![r] = "CANCELED"]
                /\ UNCHANGED task
           ELSE /\ job' = [job EXCEPT ![j] =
                             CompletedJob(j, IF o = "FAILED" THEN "failed" ELSE "succeeded")]
                /\ run' = [run EXCEPT ![r] = o]
                /\ task' = [task EXCEPT ![r] = IF o = "WAITING_HUMAN" THEN "pending" ELSE @]
  /\ UNCHANGED issued

-----------------------------------------------------------------------------
(* Control: cancel, resume, retry, retag.                                  *)

CancelJobLockedFault(t, j) ==
  /\ job[j].state # "absent"
  /\ Begin(t, [NoTxn EXCEPT !.op = "cancelJob", !.job = j], RunLocks({job[j].run}),
           "run", JobLocks({j}))
CancelJobLocked(t, j) ==
  /\ job[j].state # "absent"
  /\ Begin(t, [NoTxn EXCEPT !.op = "cancelJob", !.job = j], JobLocks({j}),
           "run", RunLocks({job[j].run}))
CancelJob(t) ==
  /\ Executes(t, "cancelJob", "run")
  /\ LET j == txn[t].job
         r == job[j].run
     IN IF run[r] \in Terminal \/ ~Active(j)
        THEN UNCHANGED <<run, job>> /\ Commit(t, {})
        ELSE /\ Commit(t, {r})
             /\ IF job[j].state = "running"
                THEN job' = [job EXCEPT ![j].canceled = TRUE] /\ UNCHANGED run
                ELSE /\ job' = [job EXCEPT ![j] = CanceledJob(j)]
                     /\ run' = [run EXCEPT ![r] = "CANCELED"]
  /\ UNCHANGED <<task, issued>>

CancelRunJobs(t, r) ==
  /\ run[r] \notin Terminal \union {"ABSENT"}
  /\ Begin(t, [NoTxn EXCEPT !.op = "cancelRun", !.run = r], RunLocks({r}),
           "jobs", JobLocks({j \in JobsOf(r) : Active(j)}))
CancelRunTask(t) ==
  /\ Executes(t, "cancelRun", "jobs")
  /\ LET r == txn[t].run
     IN GoOn(t, [txn[t] EXCEPT !.jobs = {j \in LockedJobs(t) : Active(j)}], "task",
             IF task[r] = "pending" THEN TaskLocks({r}) ELSE {})

CancelRun(t) ==
  /\ Executes(t, "cancelRun", "task")
  /\ run' = [run EXCEPT ![txn[t].run] = "CANCELED"]
  /\ job' = [j \in JobId |-> IF j \in txn[t].jobs
                             THEN [CompletedJob(j, "failed") EXCEPT !.owner = NoWorker] ELSE job[j]]
  /\ task' = [task EXCEPT ![txn[t].run] = IF @ = "pending" THEN "done" ELSE @]
  /\ Commit(t, {txn[t].run})
  /\ UNCHANGED issued

RetryRun(r) ==
  /\ run[r] \in {"FAILED", "CANCELED", "EXPIRED"}
  /\ AtOnce("retry", RunLocks({r}), {r})
  /\ Inserts(r)
  /\ run' = [run EXCEPT ![r] = "QUEUED"]
  /\ UNCHANGED <<task, issued>>

ResumeTask(t, r) ==
  /\ task[r] = "pending"
  /\ Begin(t, [NoTxn EXCEPT !.op = "resume", !.run = r], TaskLocks({r}), "run", RunLocks({r}))
ResumeHumanTask(t) ==
  /\ Executes(t, "resume", "run")
  /\ LET r == txn[t].run
     IN IF run[r] # "WAITING_HUMAN" \/ ~SomeFresh THEN Rollback(t)
        ELSE /\ Inserts(r)
             /\ run' = [run EXCEPT ![r] = "RESUMING"]
             /\ task' = [task EXCEPT ![r] = "done"]
             /\ Commit(t, {r})
             /\ UNCHANGED issued

\* The tag of a queued job is data; that its row is locked and renewed is not.
RequeueQueuedJobsForApp ==
  /\ \E J \in SUBSET {j \in JobId : job[j].state = "queued"} :
       AtOnce("retag", JobLocks({j \in JobId : job[j].state = "queued"}), {job[j].run : j \in J})
  /\ UNCHANGED <<run, job, task, issued>>

-----------------------------------------------------------------------------
(* Retention.  The runs are selected into a temporary table; the later     *)
(* statements go by that table and do not look at the runs again.          *)

Stuck(r)    == r \in idle /\ run[r] \in Working
Prunable(r) == r \in idle /\ run[r] \in Terminal

ExpireFound(t) ==
  Begin(t, [NoTxn EXCEPT !.op = "expire", !.found = {r \in RunId : Stuck(r)}], {}, "first", {})
ExpireSelect(t) ==
  /\ Executes(t, "expire", "first")
  /\ GoOn(t, txn[t], "jobs", JobLocks({j \in JobId : job[j].run \in txn[t].found /\ Active(j)}))
ExpireJobs(t) ==
  /\ Executes(t, "expire", "jobs")
  /\ GoOn(t, [txn[t] EXCEPT !.jobs = {j \in LockedJobs(t) : Active(j)}], "run",
          RunLocks({r \in txn[t].found : run[r] # "ABSENT"}))

ExpireStuckJobs(t) ==
  /\ Executes(t, "expire", "run")
  /\ job' = [j \in JobId |-> IF j \in txn[t].jobs
                             THEN [job[j] EXCEPT !.state = "failed"] ELSE job[j]]
  /\ run' = [r \in RunId |-> IF r \in txn[t].found /\ run[r] # "ABSENT"
                             THEN "EXPIRED" ELSE run[r]]
  /\ Commit(t, txn[t].found)
  /\ UNCHANGED <<task, issued>>

PruneFound(t) ==
  Begin(t, [NoTxn EXCEPT !.op = "prune", !.found = {r \in RunId : Prunable(r)}], {}, "first", {})
PruneSelect(t) ==
  /\ Executes(t, "prune", "first")
  /\ GoOn(t, txn[t], "jobs", JobLocks({j \in JobId : job[j].run \in txn[t].found}))
PruneJobs(t) ==
  /\ Executes(t, "prune", "jobs")
  /\ GoOn(t, [txn[t] EXCEPT !.jobs = {j \in LockedJobs(t) : job[j].run \in txn[t].found}], "task",
          TaskLocks({r \in txn[t].found : task[r] # "none"}))

PruneTasks(t) ==
  /\ Executes(t, "prune", "task")
  /\ GoOn(t, txn[t], "run", RunLocks({r \in txn[t].found : run[r] # "ABSENT"}))

\* A run some job still refers to cannot be deleted: the sweep fails.
PruneSettledJobs(t) ==
  /\ Executes(t, "prune", "run")
  /\ IF \E r \in txn[t].found : JobsOf(r) \ txn[t].jobs # {} THEN Rollback(t)
     ELSE /\ job' = [j \in JobId |-> IF j \in txn[t].jobs THEN NoJobRow ELSE job[j]]
          /\ task' = [r \in RunId |-> IF r \in txn[t].found THEN "none" ELSE task[r]]
          /\ run' = [r \in RunId |-> IF r \in txn[t].found
                                     THEN "ABSENT" ELSE run[r]]
          /\ Commit(t, txn[t].found)
          /\ UNCHANGED issued

-----------------------------------------------------------------------------
(* Time.  A live lease keeps renewing its job: the cutoff of the sweeps lies *)
(* further back than a lease lasts.                                         *)

Lapse(j) ==
  /\ job[j].state = "running" /\ job[j].lease = "live"
  /\ job' = [job EXCEPT ![j].lease = "lapsed"]
  /\ UNCHANGED <<run, task, idle, holder, txn, issued>>
GrowsOld(r) ==
  /\ run[r] # "ABSENT" /\ r \notin idle
  /\ \A j \in JobsOf(r) : job[j].state = "running" => job[j].lease # "live"
  /\ idle' = idle \union {r}
  /\ UNCHANGED <<run, job, task, holder, txn, issued>>

Start(t) ==
  \/ \E w \in WorkerId : ClaimLost(t, w)
  \/ \E l \in issued, o \in Outcome : CompleteLeased(t, l, o)
  \/ \E j \in JobId : CancelJobLocked(t, j)
  \/ \E r \in RunId : CancelRunJobs(t, r)
  \/ \E r \in RunId : ResumeTask(t, r)
  \/ ExpireFound(t)
  \/ PruneFound(t)

Proceed(t) ==
  \/ Claim(t) \/ CompleteRun(t) \/ CancelJob(t) \/ CancelRunTask(t) \/ CancelRun(t)
  \/ ResumeHumanTask(t)
  \/ ExpireSelect(t) \/ ExpireJobs(t) \/ ExpireStuckJobs(t)
  \/ PruneSelect(t) \/ PruneJobs(t) \/ PruneTasks(t) \/ PruneSettledJobs(t)

Next ==
  \/ \E r \in RunId, j \in JobId : CreateRunAndEnqueue(r, j)
  \/ \E l \in issued : HeartbeatJob(l)
  \/ \E r \in RunId : RetryRun(r)
  \/ RequeueQueuedJobsForApp
  \/ \E t \in TxnId : Start(t) \/ Proceed(t) \/ Disconnect(t) \/ Victim(t)
  \/ \E j \in JobId : Lapse(j)
  \/ \E r \in RunId : GrowsOld(r)

Spec == Init /\ [][Next]_vars

-----------------------------------------------------------------------------
(* Properties.                                                             *)

\* ConcurrencyRespected: however claims overlap, an app never has more jobs
\* running than the largest max-concurrent its runs pin (the advisory lock of
\* postgresMaxConcurrentReached is held until the claim commits).
ConcurrencyRespected ==
  \A a \in App :
    LET running == {j \in JobId : job[j].state = "running" /\ AppOf[job[j].run] = a}
    IN running # {} =>
         \E r \in RunId : AppOf[r] = a /\ (Limit[r] = 0 \/ Cardinality(running) <= Limit[r])

\* ImplementsLifecycle: the transactions move runs exactly as the operations of
\* the local store do: a lease is granted once, only the current one reports,
\* and a cancel, resume or retry that overlaps either takes effect or fails.
phaseOf == run
heldOf  == [r \in RunId |-> {[job |-> j, owner |-> job[j].owner, attempt |-> job[j].attempt] :
                               j \in {i \in JobsOf(r) : job[i].state = "running"}}]
Lifecycle == INSTANCE RunLifecycle WITH phase <- phaseOf, held <- heldOf, granted <- issued
ImplementsLifecycle == Lifecycle!LifecycleSpec

\* DeadlocksNeedCancelRun: everything but CancelRun locks a task or a job before
\* its run, so transactions can only wait for each other in a circle around a
\* CancelRun, or around the advisory locks of two apps that one claim tries in
\* turn.  Heartbeats, completions and CancelJob never fail that way among themselves.
DeadlocksNeedCancelRun ==
  \A t \in TxnId : Deadlocked(t) =>
    \E u \in TxnId : Deadlocked(u) /\ (txn[u].op = "cancelRun" \/ txn[u].at = "limit")

\* SweepsSpareActive: "Queued, running, and waiting-human runs are never touched"
\* by pruning, and "actively leased jobs are never stuck" (postgres_store.go:941
\* and :984).
SweepsSpareActive ==
  [][\A r \in RunId : run'[r] # run[r] =>
       /\ run'[r] = "ABSENT" => run[r] \in Terminal
       /\ run'[r] = "EXPIRED" => \A j \in JobsOf(r) :
                                   ~(job[j].state = "running" /\ job[j].lease = "live")]_vars
=============================================================================
