------------------------------ MODULE RunQueue ------------------------------
(***************************************************************************)
(* The run queue of internal/state: runs, the jobs that execute them, the  *)
(* human tasks that suspend them and the leases under which workers hold   *)
(* jobs.  One action per operation of state.Store.  An operation of the    *)
(* local store reads the snapshot, edits it and writes it back under one   *)
(* file lock, and writes nothing when it returns an error, so every        *)
(* operation is one step and a refused call is a stuttering step.          *)
(*                                                                         *)
(* Data that no property tells apart is left out: payloads, logs, events,  *)
(* StartedAt, the stored result.  Priority is the constant 100 of          *)
(* NewActionJob, so the claim order is by creation time, ties by random id.*)
(***************************************************************************)
EXTENDS Naturals, FiniteSets

CONSTANTS
  RunId, JobId, TaskId, WorkerId,  \* identifiers
  NoRun, NoTask, NoWorker, NoTag,  \* the empty identifiers
  App, Action, Tag, Label,
  AppOf, ActionOf, \* the app and the action a run executes
  Limit,           \* the max-concurrent a run pins for its app; 0 is "no limit"
  RouteTag,        \* the route tag the run's pinned deployment gives its jobs
  RequiredLabels,  \* the labels the run's pinned deployment requires
  WorkerTags,      \* the tags a worker serves; {} serves every tag
  WorkerLabels,    \* the labels a worker offers
  LeaseTTL,        \* how long a claim or a heartbeat holds a job
  StuckAfter,      \* --job-stuck-after: idle time after which a run is stuck
  MaxTime          \* bound of the model: the clock stops here

ASSUME ConstantAssumption ==
  /\ NoRun \notin RunId /\ NoTask \notin TaskId
  /\ NoWorker \notin WorkerId /\ NoTag \notin Tag
  /\ AppOf \in [RunId -> App]
  /\ ActionOf \in [RunId -> Action]
  /\ Limit \in [RunId -> Nat]
  /\ RouteTag \in [RunId -> Tag]
  /\ RequiredLabels \in [RunId -> SUBSET Label]
  /\ WorkerTags \in [WorkerId -> SUBSET Tag]
  /\ WorkerLabels \in [WorkerId -> SUBSET Label]
  /\ LeaseTTL \in Nat \ {0}
  /\ StuckAfter \in Nat \ {0}
  /\ MaxTime \in Nat

VARIABLES
  now,     \* the clock every process reads
  run,     \* Snapshot.Runs
  job,     \* Snapshot.Jobs
  task,    \* Snapshot.HumanTasks
  issued   \* every lease a claim has ever returned to a worker

vars == <<now, run, job, task, issued>>

Terminal == {"SUCCEEDED", "FAILED", "CANCELED", "EXPIRED"}
Working  == {"QUEUED", "RUNNING", "RESUMING"}
RunState == Terminal \union Working \union {"WAITING_HUMAN"}
Settled  == {"succeeded", "failed"}
JobState == Settled \union {"queued", "running"}

RunRecord == [state: RunState \union {"ABSENT"}, task: TaskId \union {NoTask},
              output: BOOLEAN, error: BOOLEAN, updated: Nat]
JobRecord == [state: JobState \union {"absent"}, run: RunId \union {NoRun}, tag: Tag \union {NoTag},
              attempt: Nat, owner: WorkerId \union {NoWorker}, expires: Nat,
              canceled: BOOLEAN, created: Nat, updated: Nat]
TaskRecord == [state: {"absent", "pending", "completed", "expired"},
               run: RunId \union {NoRun}]
Lease == [job: JobId, owner: WorkerId, attempt: Nat]

NoExpiry == 0   \* LeaseExpiresAt = nil: a lease expires at LeaseTTL or later
AbsentRun == [state |-> "ABSENT", task |-> NoTask, output |-> FALSE,
              error |-> FALSE, updated |-> 0]
AbsentJob == [state |-> "absent", run |-> NoRun, tag |-> NoTag, attempt |-> 0,
              owner |-> NoWorker, expires |-> NoExpiry, canceled |-> FALSE,
              created |-> 0, updated |-> 0]
AbsentTask == [state |-> "absent", run |-> NoRun]

TypeOK ==
  /\ now \in Nat
  /\ run \in [RunId -> RunRecord]
  /\ job \in [JobId -> JobRecord]
  /\ task \in [TaskId -> TaskRecord]
  /\ issued \subseteq Lease

Init ==
  /\ now = 0
  /\ run = [r \in RunId |-> AbsentRun]
  /\ job = [j \in JobId |-> AbsentJob]
  /\ task = [t \in TaskId |-> AbsentTask]
  /\ issued = {}

-----------------------------------------------------------------------------
(* Helpers.                                                                *)

\* Job and task identifiers are random: a fresh one was never handed out.
FreshJob(j) == job[j].state = "absent" /\ \A l \in issued : l.job # j

NewActionJob(r) ==
  [AbsentJob EXCEPT !.state = "queued", !.run = r, !.tag = RouteTag[r],
                    !.created = now, !.updated = now]

Active(j) == job[j].state \in {"queued", "running"}
StoredRun(r) == r \in RunId /\ run[r].state # "ABSENT"
JobsOf(r) == {j \in JobId : job[j].run = r}
RunsOf(a) == {r \in RunId : AppOf[r] = a}

\* The lease of a running job is over: requeueExpiredJobs may take it back.
Lapsed(j) == /\ job[j].state = "running"
             /\ job[j].expires # NoExpiry
             /\ job[j].expires <= now

\* applyCanceledJob: the job fails for good and its run becomes CANCELED.
CanceledJob(j) == [job[j] EXCEPT !.state = "failed", !.expires = NoExpiry,
                                 !.canceled = TRUE, !.updated = now]
CanceledRun(r) == [run[r] EXCEPT !.state = "CANCELED", !.error = TRUE, !.updated = now]

\* Faults, here and below: definitions named ...Fault carry a bug of the kind
\* this code could have; no specification uses them.  Each property that is run
\* fails when one of them takes the place of the definition after it.
RequeuedJobRestartsFault(j) == [job[j] EXCEPT !.state = "queued", !.owner = NoWorker, !.attempt = 0,
                                              !.expires = NoExpiry, !.updated = now]
RequeuedJob(j) == [job[j] EXCEPT !.state = "queued", !.owner = NoWorker,
                                 !.expires = NoExpiry, !.updated = now]

\* Both claim dimensions of ADR 0009: tag membership and label containment.
ClaimAllowed(w, j) ==
  /\ WorkerTags[w] = {} \/ job[j].tag \in WorkerTags[w]
  /\ job[j].run \in RunId => RequiredLabels[job[j].run] \subseteq WorkerLabels[w]

SameApp(r, s) == AppOf[r] = AppOf[s]

ValidLeaseAnyAttemptFault(l) ==
  /\ job[l.job].state = "running"
  /\ job[l.job].owner = l.owner
  /\ job[l.job].expires = NoExpiry \/ now <= job[l.job].expires
  /\ StoredRun(job[l.job].run)
\* Only the current attempt of a running, unexpired lease may report.
ValidLease(l) ==
  /\ job[l.job].state = "running"
  /\ job[l.job].owner = l.owner
  /\ job[l.job].attempt = l.attempt
  /\ job[l.job].expires = NoExpiry \/ now <= job[l.job].expires
  /\ StoredRun(job[l.job].run)

\* A completion of a job that was asked to cancel records the cancellation,
\* whatever the worker reports.
UncanceledLeaseFault(l) == ValidLease(l)
UncanceledLease(l) == ValidLease(l) /\ ~job[l.job].canceled

-----------------------------------------------------------------------------
(* Admission and routing.                                                  *)

CreateRunAndEnqueue(r, j) ==
  /\ run[r].state = "ABSENT"
  /\ FreshJob(j)
  /\ run' = [run EXCEPT ![r] = [AbsentRun EXCEPT !.state = "QUEUED", !.updated = now]]
  /\ job' = [job EXCEPT ![j] = NewActionJob(r)]
  /\ UNCHANGED <<now, task, issued>>

\* An operator moves the queued jobs of an app to the tags its active release
\* gives their actions; NoTag is an action the call does not cover.
RequeueQueuedJobsForApp(a, actionTags) ==
  /\ job' = [j \in JobId |->
               LET newTag == actionTags[ActionOf[job[j].run]]
               IN IF /\ job[j].state = "queued"
                     /\ job[j].run \in RunsOf(a)
                     /\ newTag \notin {NoTag, job[j].tag}
                  THEN [job[j] EXCEPT !.tag = newTag, !.updated = now]
                  ELSE job[j]]
  /\ UNCHANGED <<now, run, task, issued>>

-----------------------------------------------------------------------------
(* Claims and leases.                                                      *)

\* The snapshot after requeueExpiredJobs: a lapsed job goes back to the queue,
\* unless it was asked to cancel, in which case its worker is given up for lost.
\* (The code first looks the run up; NoOrphans says it is there.)
Requeued(j) == IF ~Lapsed(j) THEN job[j]
               ELSE IF job[j].canceled THEN CanceledJob(j) ELSE RequeuedJob(j)
LostCanceled(r) == StoredRun(r) /\ \E j \in JobsOf(r) : Lapsed(j) /\ job[j].canceled

\* The jobs that are queued, and those that are running, after the requeue.
QueuedNow(j)  == job[j].state = "queued" \/ (Lapsed(j) /\ ~job[j].canceled)
RunningNow(j) == job[j].state = "running" /\ ~Lapsed(j)

MaxConcurrentFault(j) ==
  /\ Limit[job[j].run] > 0
  /\ Cardinality({i \in JobId : RunningNow(i) /\ SameApp(job[i].run, job[j].run)})
       > Limit[job[j].run]
MaxConcurrentReached(j) ==
  /\ Limit[job[j].run] > 0
  /\ Cardinality({i \in JobId : RunningNow(i) /\ SameApp(job[i].run, job[j].run)})
       >= Limit[job[j].run]

Claimable(w, j) == QueuedNow(j) /\ ClaimAllowed(w, j) /\ ~MaxConcurrentReached(j)

\* Worker w takes the oldest job it may run.  Without such a job the call
\* returns ErrNoQueuedJob and the requeue it began is not written either.
ClaimJobForWorker(w, j) ==
  /\ Claimable(w, j)
  /\ \A i \in JobId : Claimable(w, i) => job[j].created <= job[i].created
  /\ job' = [i \in JobId |->
               IF i = j
               THEN [job[j] EXCEPT !.state = "running", !.attempt = @ + 1, !.owner = w,
                                   !.expires = now + LeaseTTL, !.updated = now]
               ELSE Requeued(i)]
  /\ run' = [r \in RunId |->
               IF LostCanceled(r) THEN CanceledRun(r)
               ELSE IF r = job[j].run /\ run[r].state \in {"QUEUED", "RESUMING"}
               THEN [run[r] EXCEPT !.state = "RUNNING", !.updated = now]
               ELSE run[r]]
  /\ issued' = issued \union {[job |-> j, owner |-> w, attempt |-> job[j].attempt + 1]}
  /\ UNCHANGED <<now, task>>

\* A heartbeat extends the lease it names, even one that has run out but was
\* not taken back yet.
HeartbeatJob(l) ==
  /\ job[l.job].state = "running"
  /\ job[l.job].owner = l.owner
  /\ job[l.job].attempt = l.attempt
  /\ job' = [job EXCEPT ![l.job] = [@ EXCEPT !.expires = now + LeaseTTL, !.updated = now]]
  /\ UNCHANGED <<now, run, task, issued>>

-----------------------------------------------------------------------------
(* Completion.                                                             *)

CompleteCanceled(l) ==
  /\ ValidLease(l)
  /\ job[l.job].canceled
  /\ job' = [job EXCEPT ![l.job] = CanceledJob(l.job)]
  /\ run' = [run EXCEPT ![job[l.job].run] = CanceledRun(job[l.job].run)]
  /\ UNCHANGED <<now, task, issued>>

CompleteJobSucceeded(l) ==
  /\ UncanceledLease(l)
  /\ job' = [job EXCEPT ![l.job] = [@ EXCEPT !.state = "succeeded", !.expires = NoExpiry,
                                             !.updated = now]]
  /\ run' = [run EXCEPT ![job[l.job].run] =
               [@ EXCEPT !.state = "SUCCEEDED", !.output = TRUE, !.error = FALSE,
                         !.task = NoTask, !.updated = now]]
  /\ UNCHANGED <<now, task, issued>>

CompleteJobFailed(l) ==
  /\ UncanceledLease(l)
  /\ job' = [job EXCEPT ![l.job] = [@ EXCEPT !.state = "failed", !.expires = NoExpiry,
                                             !.updated = now]]
  /\ run' = [run EXCEPT ![job[l.job].run] =
               [@ EXCEPT !.state = "FAILED", !.error = TRUE, !.updated = now]]
  /\ UNCHANGED <<now, task, issued>>

CompleteJobWaitingHuman(l, t) ==
  /\ UncanceledLease(l)
  /\ task[t].state = "absent"
  /\ job' = [job EXCEPT ![l.job] = [@ EXCEPT !.state = "succeeded", !.expires = NoExpiry,
                                             !.updated = now]]
  /\ run' = [run EXCEPT ![job[l.job].run] =
               [@ EXCEPT !.state = "WAITING_HUMAN", !.error = FALSE, !.task = t,
                         !.updated = now]]
  /\ task' = [task EXCEPT ![t] = [state |-> "pending", run |-> job[l.job].run]]
  /\ UNCHANGED <<now, issued>>

-----------------------------------------------------------------------------
(* Control: resume, cancel, retry.                                         *)

\* ResumeRun(r) is ResumeHumanTask of run[r].task, a task read before the lock:
\* every task is a possible argument here.
ResumeHumanTask(t, j) ==
  /\ task[t].state = "pending"
  /\ StoredRun(task[t].run)
  /\ run[task[t].run].state = "WAITING_HUMAN"
  /\ FreshJob(j)
  /\ task' = [task EXCEPT ![t].state = "completed"]
  /\ run' = [run EXCEPT ![task[t].run] = [@ EXCEPT !.state = "RESUMING", !.task = NoTask,
                                                   !.updated = now]]
  /\ job' = [job EXCEPT ![j] = NewActionJob(task[t].run)]
  /\ UNCHANGED <<now, issued>>

\* A queued job is canceled at once; a running one is only marked, for its
\* worker to see at the next heartbeat.
CancelJob(j) ==
  /\ Active(j)
  /\ StoredRun(job[j].run)
  /\ run[job[j].run].state \notin Terminal
  /\ IF job[j].state = "running"
     THEN /\ job' = [job EXCEPT ![j] = [@ EXCEPT !.canceled = TRUE, !.updated = now]]
          /\ UNCHANGED run
     ELSE /\ job' = [job EXCEPT ![j] = CanceledJob(j)]
          /\ run' = [run EXCEPT ![job[j].run] = CanceledRun(job[j].run)]
  /\ UNCHANGED <<now, task, issued>>

CancelRun(r) ==
  /\ StoredRun(r)
  /\ run[r].state \notin Terminal
  /\ run' = [run EXCEPT ![r] = CanceledRun(r)]
  /\ job' = [j \in JobId |->
               IF job[j].run = r /\ Active(j)
               THEN [job[j] EXCEPT !.state = "failed", !.owner = NoWorker,
                                   !.expires = NoExpiry, !.updated = now]
               ELSE job[j]]
  /\ task' = [t \in TaskId |->
               IF task[t].run = r /\ task[t].state = "pending"
               THEN [task[t] EXCEPT !.state = "expired"] ELSE task[t]]
  /\ UNCHANGED <<now, issued>>

RetriedRun(r) == [run[r] EXCEPT !.state = "QUEUED", !.output = FALSE, !.error = FALSE,
                                !.task = NoTask, !.updated = now]
RetryRun(r, j) ==
  /\ run[r].state \in {"FAILED", "CANCELED", "EXPIRED"}
  /\ FreshJob(j)
  /\ run' = [run EXCEPT ![r] = RetriedRun(r)]
  /\ job' = [job EXCEPT ![j] = NewActionJob(r)]
  /\ UNCHANGED <<now, task, issued>>

-----------------------------------------------------------------------------
(* Retention.  The loop computes its cutoffs before it takes the lock, so  *)
(* they may be older than the clock the operation sees.                    *)

StuckFault(r, stuckBefore) == run[r].state \in Working /\ run[r].updated < stuckBefore
Stuck(r, stuckBefore) ==
  /\ run[r].state \in Working
  /\ run[r].updated < stuckBefore
  /\ \A j \in JobsOf(r) : job[j].updated < stuckBefore

ExpireStuckJobs(stuckBefore) ==
  /\ stuckBefore + StuckAfter <= now
  /\ run' = [r \in RunId |->
               IF Stuck(r, stuckBefore)
               THEN [run[r] EXCEPT !.state = "EXPIRED", !.updated = now] ELSE run[r]]
  /\ job' = [j \in JobId |->
               IF Active(j) /\ StoredRun(job[j].run) /\ Stuck(job[j].run, stuckBefore)
               THEN [job[j] EXCEPT !.state = "failed", !.updated = now] ELSE job[j]]
  /\ UNCHANGED <<now, task, issued>>

PrunableFault(r, successOlderThan, failureOlderThan) ==
  \/ run[r].state = "SUCCEEDED" /\ run[r].updated < successOlderThan
  \/ run[r].state # "SUCCEEDED" /\ run[r].updated < failureOlderThan
Prunable(r, successOlderThan, failureOlderThan) ==
  \/ run[r].state = "SUCCEEDED" /\ run[r].updated < successOlderThan
  \/ run[r].state \in Terminal \ {"SUCCEEDED"} /\ run[r].updated < failureOlderThan

PruneSettledJobs(successOlderThan, failureOlderThan) ==
  LET gone == {r \in RunId : Prunable(r, successOlderThan, failureOlderThan)}
  IN /\ job' = [j \in JobId |-> IF job[j].run \in gone THEN AbsentJob ELSE job[j]]
     /\ task' = [t \in TaskId |-> IF task[t].run \in gone THEN AbsentTask ELSE task[t]]
     /\ run' = [r \in RunId |-> IF r \in gone THEN AbsentRun ELSE run[r]]
     /\ UNCHANGED <<now, issued>>

Tick ==
  /\ now < MaxTime
  /\ now' = now + 1
  /\ UNCHANGED <<run, job, task, issued>>

-----------------------------------------------------------------------------

Complete(l) ==
  \/ CompleteCanceled(l)
  \/ CompleteJobSucceeded(l)
  \/ CompleteJobFailed(l)
  \/ \E t \in TaskId : CompleteJobWaitingHuman(l, t)

Next ==
  \/ \E r \in RunId, j \in JobId : CreateRunAndEnqueue(r, j)
  \/ \E a \in App, actionTags \in [Action -> Tag \union {NoTag}] :
        RequeueQueuedJobsForApp(a, actionTags)
  \/ \E w \in WorkerId, j \in JobId : ClaimJobForWorker(w, j)
  \/ \E l \in issued : HeartbeatJob(l)
  \/ \E l \in issued : Complete(l)
  \/ \E t \in TaskId, j \in JobId : ResumeHumanTask(t, j)
  \/ \E j \in JobId : CancelJob(j)
  \/ \E r \in RunId : CancelRun(r)
  \/ \E r \in RunId, j \in JobId : RetryRun(r, j)
  \/ \E stuckBefore \in 0..now : ExpireStuckJobs(stuckBefore)
  \/ \E s, f \in 0..now : PruneSettledJobs(s, f)
  \/ Tick

Spec == Init /\ [][Next]_vars

-----------------------------------------------------------------------------
(* Properties.                                                             *)

\* RunHasItsJob: a run is queued, running or resuming exactly while one job of
\* it is queued or running, and never two (a retry, a resume or a requeue of
\* local_store.go that raced a completion would leave a run nobody executes,
\* or execute one twice).
RunHasItsJob ==
  \A r \in RunId :
    /\ run[r].state \in Working <=> \E j \in JobsOf(r) : Active(j)
    /\ \A i, j \in JobsOf(r) : Active(i) /\ Active(j) => i = j

\* RunningJobRunningRun: the run of a job a worker holds is RUNNING, so a claim
\* never works for a run that is settled, waiting or still queued.
RunningJobRunningRun ==
  \A j \in JobId : job[j].state = "running" => run[job[j].run].state = "RUNNING"

\* WaitingHasItsTask: a run waits for a human exactly while one pending task
\* points at it, and that is the task the run names: CancelRun, resume and
\* completion keep the two records in step.
WaitingHasItsTask ==
  /\ \A t \in TaskId : task[t].state = "pending" =>
       /\ run[task[t].run].state = "WAITING_HUMAN"
       /\ run[task[t].run].task = t
  /\ \A r \in RunId : run[r].state = "WAITING_HUMAN" =>
       /\ run[r].task \in TaskId
       /\ task[run[r].task].state = "pending"
       /\ task[run[r].task].run = r

\* NoOrphans: a stored job or task belongs to a stored run; pruning removes the
\* run together with everything that refers to it.
NoOrphans ==
  /\ \A j \in JobId : job[j].state # "absent" =>
       StoredRun(job[j].run)
  /\ \A t \in TaskId : task[t].state # "absent" =>
       StoredRun(task[t].run)

\* LeaseIsExclusive: the lease a running job records was issued, no lease of a
\* later attempt exists for it, and no two leases share a job and an attempt.
LeaseIsExclusive ==
  /\ \A j \in JobId : job[j].state = "running" =>
       [job |-> j, owner |-> job[j].owner, attempt |-> job[j].attempt] \in issued
  /\ \A l \in issued : job[l.job].state # "absent" => l.attempt <= job[l.job].attempt
  /\ \A k, l \in issued : k.job = l.job /\ k.attempt = l.attempt => k = l

\* CanceledNeverQueued: a job that was asked to cancel is never back in the
\* queue, so losing its worker does not start the canceled work again.
CanceledNeverQueued == \A j \in JobId : job[j].state = "queued" => ~job[j].canceled

\* OutcomeMatchesState: a run carries an output exactly when it succeeded and an
\* error exactly when it failed or was canceled: nothing of an earlier attempt
\* survives a retry, a resume or a late completion.
OutcomeMatchesState ==
  \A r \in RunId :
    /\ run[r].output <=> run[r].state = "SUCCEEDED"
    /\ run[r].error <=> run[r].state \in {"FAILED", "CANCELED"}

\* ConcurrencyRespected: an app never has more jobs running than the largest
\* max-concurrent any of its runs pinned, lapsed leases counted.
ConcurrencyRespected ==
  \A a \in App :
    LET running == {j \in JobId : job[j].state = "running" /\ job[j].run \in RunsOf(a)}
    IN running # {} =>
         \E r \in RunsOf(a) : Limit[r] = 0 \/ Cardinality(running) <= Limit[r]

\* RunningWhereRouted: a worker only ever holds a job whose tag and labels it
\* serves, although an operator may retag the app's queue at any moment.
RunningWhereRouted ==
  \A j \in JobId : job[j].state = "running" => ClaimAllowed(job[j].owner, j)

\* LeaseIsRecent: a running job was touched at most LeaseTTL before its lease
\* ends, by claim, heartbeat, cancel or retag; without it the stuck-run cutoff
\* could overtake a live lease.
LeaseIsRecent ==
  \A j \in JobId :
    /\ job[j].updated <= now
    /\ job[j].state = "running" => job[j].expires <= job[j].updated + LeaseTTL

\* QueueInv: runs, jobs, human tasks and leases are in step, through every order of
\* claims, late reports, cancellations, resumes, retries and pruning.  It is the
\* invariant the proofs carry: each part needs the others to be inductive.
QueueInv ==
  /\ TypeOK
  /\ RunHasItsJob
  /\ RunningJobRunningRun
  /\ WaitingHasItsTask
  /\ NoOrphans
  /\ LeaseIsExclusive
  /\ CanceledNeverQueued
  /\ OutcomeMatchesState
  /\ LeaseIsRecent

\* SupersededLeaseNeverReports: once a newer attempt of a job was handed out, the
\* older lease changes nothing: neither a completion nor a heartbeat accepts it.
Superseded(l) == \E k \in issued : k.job = l.job /\ k.attempt > l.attempt
SupersededLeaseNeverReports ==
  [][\A l \in issued : Superseded(l) => ~Complete(l) /\ ~HeartbeatJob(l)]_vars

\* CancelPrevails: from the moment a running job is asked to cancel, its run can
\* only end CANCELED, or EXPIRED by retention; no completion, requeue or claim
\* turns it into a success, a failure or a new attempt.
CancelPrevails ==
  [][\A j \in JobId : job[j].state = "running" /\ job[j].canceled =>
       /\ run'[job[j].run].state \in {"RUNNING", "CANCELED", "EXPIRED"}
       /\ job'[j].attempt = job[j].attempt
       /\ job'[j].state \in {"running", "failed"}]_vars

\* LiveLeaseNotStuck: with a stuck cutoff no shorter than a lease, retention never
\* expires a run whose job is held under a lease that has not run out
\* (local_store.go:1243 "never considered stuck").
LiveLeaseNotStuck ==
  [][\A j \in JobId : job[j].state = "running" /\ now < job[j].expires =>
       run'[job[j].run].state # "EXPIRED"]_vars

\* SettledJobStays: a job that succeeded or failed never changes again until it
\* is pruned with its run, whatever stale leases, cancels or retention passes do.
SettledJobStays ==
  [][\A j \in JobId : job[j].state \in Settled =>
       job'[j] = job[j] \/ (job'[j] = AbsentJob /\ run'[job[j].run].state = "ABSENT")]_vars

\* The queue implements the life cycle of RunLifecycle: a run's phase is its
\* state, and the tokens that act for it are the leases of its running jobs.
CurrentLease(j) == [job |-> j, owner |-> job[j].owner, attempt |-> job[j].attempt]
phaseOf == [r \in RunId |-> run[r].state]
heldOf  == [r \in RunId |-> {CurrentLease(j) : j \in {i \in JobsOf(r) : job[i].state = "running"}}]
Lifecycle == INSTANCE RunLifecycle WITH phase <- phaseOf, held <- heldOf, granted <- issued
ImplementsLifecycle == Lifecycle!LifecycleSpec

-----------------------------------------------------------------------------
(* A statement of the repository that the queue does not keep: README.md.  *)

\* Time passes and every worker keeps polling for work; retention is off, as
\* --job-stuck-after 0 and --job-*-retention 0 leave it.
FairSpec ==
  /\ Spec
  /\ WF_vars(Tick)
  /\ \A w \in WorkerId : WF_vars(\E j \in JobId : ClaimJobForWorker(w, j))

\* LapsedLeaseReclaimed: an expired lease is taken back, the job queued again or
\* failed (ADR 0002).  A poll that finds nothing to claim rolls the requeue back.
LapsedLeaseReclaimed == \A j \in JobId : Lapsed(j) ~> ~Lapsed(j)
=============================================================================
