--------------------------- MODULE RunQueueProofs ---------------------------
(***************************************************************************)
(* Proofs about the run queue, for any number of runs, jobs and workers:   *)
(* its types, the inductive invariant QueueInv and what follows from it,   *)
(* what a step may never do, and that the queue implements RunLifecycle;   *)
(* about JobViews, what clients see of the queue while it moves; and about *)
(* FileLock, which makes an update of the queue one step.                  *)
(***************************************************************************)
EXTENDS JobViews, FileLock, FiniteSetTheorems, TLAPS

----------------------------------------------------------------------------
(* Types.                                                                   *)

\* The transformed records of the actions are records of the right type.
LEMMA RecordTypes ==
  ASSUME TypeOK
  PROVE  /\ \A r \in RunId : CanceledRun(r) \in RunRecord /\ NewActionJob(r) \in JobRecord
         /\ \A j \in JobId : CanceledJob(j) \in JobRecord /\ RequeuedJob(j) \in JobRecord
         /\ \A j \in JobId : Requeued(j) \in JobRecord
         /\ AbsentRun \in RunRecord
         /\ AbsentJob \in JobRecord
         /\ AbsentTask \in TaskRecord
<1>1. \A r \in RunId : run[r] \in RunRecord
  BY DEF TypeOK
<1>2. \A j \in JobId : job[j] \in JobRecord
  BY DEF TypeOK
<1>3. now \in Nat
  BY DEF TypeOK
<1>4. AbsentRun \in RunRecord
  BY DEF AbsentRun, RunRecord
<1>5. AbsentJob \in JobRecord
  BY DEF AbsentJob, JobRecord, NoExpiry
<1>6. AbsentTask \in TaskRecord
  BY DEF AbsentTask, TaskRecord
<1>7. ASSUME NEW r \in RunId PROVE CanceledRun(r) \in RunRecord
  BY <1>1, <1>3 DEF CanceledRun, RunRecord, RunState, Terminal
<1>8. ASSUME NEW r \in RunId PROVE NewActionJob(r) \in JobRecord
  <2>1. RouteTag[r] \in Tag
    BY ConstantAssumption
  <2>. QED
    BY <1>3, <1>5, <2>1 DEF NewActionJob, JobRecord, JobState
<1>9. ASSUME NEW j \in JobId PROVE CanceledJob(j) \in JobRecord
  BY <1>2, <1>3 DEF CanceledJob, JobRecord, JobState, Settled, NoExpiry
<1>10. ASSUME NEW j \in JobId PROVE RequeuedJob(j) \in JobRecord
  BY <1>2, <1>3 DEF RequeuedJob, JobRecord, JobState, NoExpiry
<1>11. ASSUME NEW j \in JobId PROVE Requeued(j) \in JobRecord
  BY <1>2, <1>9, <1>10 DEF Requeued
<1>. QED
  BY <1>4, <1>5, <1>6, <1>7, <1>8, <1>9, <1>10, <1>11

LEMMA TypeStep ==
  ASSUME TypeOK, [Next]_vars
  PROVE  TypeOK'
<1>1. \A r \in RunId : run[r] \in RunRecord
  BY DEF TypeOK
<1>2. \A j \in JobId : job[j] \in JobRecord
  BY DEF TypeOK
<1>3. now \in Nat
  BY DEF TypeOK
<1>4. \A l \in issued : l.job \in JobId /\ l \in Lease
  BY DEF TypeOK, Lease
<1>5. now + LeaseTTL \in Nat
  BY <1>3, ConstantAssumption
<1>6. \A j \in JobId : job[j].attempt + 1 \in Nat
  BY <1>2 DEF JobRecord
<1>7. \A j \in JobId : job[j].run \in RunId \union {NoRun}
  BY <1>2 DEF JobRecord
<1> DEFINE Settle(j, s) == [job[j] EXCEPT !.state = s, !.expires = NoExpiry, !.updated = now]
<1>8. ASSUME NEW j \in JobId, NEW s \in Settled PROVE Settle(j, s) \in JobRecord
  BY <1>2, <1>3 DEF JobRecord, JobState, NoExpiry
<1>9. CASE UNCHANGED vars
  BY <1>9 DEF TypeOK, vars
<1>10. ASSUME NEW r \in RunId, NEW j \in JobId, CreateRunAndEnqueue(r, j) PROVE TypeOK'
  <2>1. [AbsentRun EXCEPT !.state = "QUEUED", !.updated = now] \in RunRecord
    BY <1>3, RecordTypes DEF RunRecord, RunState, Working
  <2>. QED
    BY <1>10, <2>1, RecordTypes DEF CreateRunAndEnqueue, TypeOK
<1>11. ASSUME NEW a \in App, NEW actionTags \in [Action -> Tag \union {NoTag}],
              RequeueQueuedJobsForApp(a, actionTags)
       PROVE  TypeOK'
  <2>1. \A j \in JobId, t \in Tag \union {NoTag} :
          [job[j] EXCEPT !.tag = t, !.updated = now] \in JobRecord
    BY <1>2, <1>3 DEF JobRecord
  <2>2. \A j \in JobId : job[j].run \in RunsOf(a) =>
          actionTags[ActionOf[job[j].run]] \in Tag \union {NoTag}
    BY ConstantAssumption DEF RunsOf
  <2>. QED
    BY <1>11, <1>2, <2>1, <2>2 DEF RequeueQueuedJobsForApp, TypeOK
<1>12. ASSUME NEW w \in WorkerId, NEW j \in JobId, ClaimJobForWorker(w, j) PROVE TypeOK'
  <2>1. ASSUME NEW a \in Nat, NEW e \in Nat
        PROVE  [job[j] EXCEPT !.state = "running", !.attempt = a, !.owner = w,
                              !.expires = e, !.updated = now] \in JobRecord
    BY <1>2, <1>3 DEF JobRecord, JobState
  <2>2. \A r \in RunId : [run[r] EXCEPT !.state = "RUNNING", !.updated = now] \in RunRecord
    BY <1>1, <1>3 DEF RunRecord, RunState, Working
  <2>3. [job |-> j, owner |-> w, attempt |-> job[j].attempt + 1] \in Lease
    BY <1>6 DEF Lease
  <2>4. job' \in [JobId -> JobRecord]
    BY <1>12, <1>5, <1>6, <2>1, RecordTypes DEF ClaimJobForWorker
  <2>5. run' \in [RunId -> RunRecord]
    BY <1>12, <1>1, <2>2, RecordTypes DEF ClaimJobForWorker
  <2>. QED
    BY <1>12, <2>3, <2>4, <2>5 DEF ClaimJobForWorker, TypeOK
<1>13. ASSUME NEW l \in issued, HeartbeatJob(l) PROVE TypeOK'
  <2>1. ASSUME NEW j \in JobId, NEW e \in Nat
        PROVE  [job[j] EXCEPT !.expires = e, !.updated = now] \in JobRecord
    BY <1>2, <1>3 DEF JobRecord
  <2>2. [job[l.job] EXCEPT !.expires = now + LeaseTTL, !.updated = now] \in JobRecord
    BY <2>1, <1>4, <1>5
  <2>3. job' \in [JobId -> JobRecord]
    BY <1>13, <1>4, <2>2 DEF HeartbeatJob, TypeOK
  <2>. QED
    BY <1>13, <2>3 DEF HeartbeatJob, TypeOK
<1>14. ASSUME NEW l \in issued, Complete(l) PROVE TypeOK'
  <2>1. CASE CompleteCanceled(l)
    BY <2>1, <1>4, <1>7, RecordTypes DEF CompleteCanceled, TypeOK
  <2>2. CASE CompleteJobSucceeded(l)
    <3>1. \A r \in RunId : [run[r] EXCEPT !.state = "SUCCEEDED", !.output = TRUE, !.error = FALSE,
                         !.task = NoTask, !.updated = now] \in RunRecord
      BY <1>1, <1>3 DEF RunRecord, RunState, Terminal
    <3>. QED
      BY <2>2, <1>4, <1>7, <1>8, <3>1 DEF CompleteJobSucceeded, TypeOK, Settled
  <2>3. CASE CompleteJobFailed(l)
    <3>1. \A r \in RunId : [run[r] EXCEPT !.state = "FAILED", !.error = TRUE, !.updated = now]
                             \in RunRecord
      BY <1>1, <1>3 DEF RunRecord, RunState, Terminal
    <3>. QED
      BY <2>3, <1>4, <1>7, <1>8, <3>1 DEF CompleteJobFailed, TypeOK, Settled
  <2>4. ASSUME NEW t \in TaskId, CompleteJobWaitingHuman(l, t) PROVE TypeOK'
    <3>1. \A r \in RunId : [run[r] EXCEPT !.state = "WAITING_HUMAN", !.error = FALSE, !.task = t,
                         !.updated = now] \in RunRecord
      BY <1>1, <1>3 DEF RunRecord, RunState
    <3>2. [state |-> "pending", run |-> job[l.job].run] \in TaskRecord
      BY <1>4, <1>7 DEF TaskRecord
    <3>. QED
      BY <2>4, <1>4, <1>7, <1>8, <3>1, <3>2 DEF CompleteJobWaitingHuman, TypeOK, Settled
  <2>. QED
    BY <1>14, <2>1, <2>2, <2>3, <2>4 DEF Complete
<1>15. ASSUME NEW t \in TaskId, NEW j \in JobId, ResumeHumanTask(t, j) PROVE TypeOK'
  <2>1. \A r \in RunId : [run[r] EXCEPT !.state = "RESUMING", !.task = NoTask, !.updated = now]
                           \in RunRecord
    BY <1>1, <1>3 DEF RunRecord, RunState, Working
  <2>2. [task[t] EXCEPT !.state = "completed"] \in TaskRecord
    BY DEF TypeOK, TaskRecord
  <2>. QED
    BY <1>15, <2>1, <2>2, RecordTypes DEF ResumeHumanTask, StoredRun, TypeOK
<1>16. ASSUME NEW j \in JobId, CancelJob(j) PROVE TypeOK'
  <2>1. [job[j] EXCEPT !.canceled = TRUE, !.updated = now] \in JobRecord
    BY <1>2, <1>3 DEF JobRecord
  <2>. QED
    BY <1>16, <2>1, RecordTypes DEF CancelJob, StoredRun, TypeOK
<1>17. ASSUME NEW r \in RunId, CancelRun(r) PROVE TypeOK'
  <2>1. \A j \in JobId : [job[j] EXCEPT !.state = "failed", !.owner = NoWorker,
                                   !.expires = NoExpiry, !.updated = now] \in JobRecord
    BY <1>2, <1>3 DEF JobRecord, JobState, Settled, NoExpiry
  <2>2. \A t \in TaskId : [task[t] EXCEPT !.state = "expired"] \in TaskRecord
    BY DEF TypeOK, TaskRecord
  <2>. QED
    BY <1>17, <2>1, <2>2, RecordTypes DEF CancelRun, TypeOK
<1>18. ASSUME NEW r \in RunId, NEW j \in JobId, RetryRun(r, j) PROVE TypeOK'
  <2>1. RetriedRun(r) \in RunRecord
    BY <1>1, <1>3 DEF RetriedRun, RunRecord, RunState, Working
  <2>. QED
    BY <1>18, <2>1, RecordTypes DEF RetryRun, TypeOK
<1>19. ASSUME NEW s \in 0..now, ExpireStuckJobs(s) PROVE TypeOK'
  <2>1. \A r \in RunId : [run[r] EXCEPT !.state = "EXPIRED", !.updated = now] \in RunRecord
    BY <1>1, <1>3 DEF RunRecord, RunState, Terminal
  <2>2. \A j \in JobId : [job[j] EXCEPT !.state = "failed", !.updated = now] \in JobRecord
    BY <1>2, <1>3 DEF JobRecord, JobState, Settled
  <2>. QED
    BY <1>19, <2>1, <2>2 DEF ExpireStuckJobs, TypeOK
<1>20. ASSUME NEW s \in 0..now, NEW f \in 0..now, PruneSettledJobs(s, f) PROVE TypeOK'
  BY <1>20, RecordTypes DEF PruneSettledJobs, TypeOK
<1>21. CASE Tick
  BY <1>21, <1>3 DEF Tick, TypeOK
<1>. QED
  BY <1>9, <1>10, <1>11, <1>12, <1>13, <1>14, <1>15, <1>16, <1>17, <1>18, <1>19, <1>20, <1>21 DEF Next

LEMMA InitType == Init => TypeOK
<1> SUFFICES ASSUME Init PROVE TypeOK
  OBVIOUS
<1>1. AbsentRun \in RunRecord
  BY DEF AbsentRun, RunRecord
<1>2. AbsentJob \in JobRecord
  BY DEF AbsentJob, JobRecord, NoExpiry
<1>3. AbsentTask \in TaskRecord
  BY DEF AbsentTask, TaskRecord
<1>. QED
  BY <1>1, <1>2, <1>3 DEF Init, TypeOK

\* TypeCorrect: every reachable state of the queue is well typed: no operation
\* leaves a run, job, task or lease outside its record type.
THEOREM TypeCorrect == Spec => []TypeOK
  BY InitType, TypeStep, PTL DEF Spec

----------------------------------------------------------------------------
(* The inductive invariant.                                                 *)

\* What the record helpers of the queue leave in the fields the invariant reads.
LEMMA JobFields ==
  ASSUME TypeOK
  PROVE  /\ \A j \in JobId : job[j] \in JobRecord
         /\ \A j \in JobId : /\ CanceledJob(j).state = "failed"
                             /\ CanceledJob(j).run = job[j].run
                             /\ CanceledJob(j).attempt = job[j].attempt
                             /\ CanceledJob(j).updated = now
         /\ \A j \in JobId : /\ RequeuedJob(j).state = "queued"
                             /\ RequeuedJob(j).run = job[j].run
                             /\ RequeuedJob(j).attempt = job[j].attempt
                             /\ RequeuedJob(j).canceled = job[j].canceled
                             /\ RequeuedJob(j).updated = now
         /\ \A r \in RunId : /\ NewActionJob(r).state = "queued"
                             /\ NewActionJob(r).run = r
                             /\ NewActionJob(r).attempt = 0
                             /\ NewActionJob(r).canceled = FALSE
                             /\ NewActionJob(r).updated = now
         /\ AbsentJob.state = "absent" /\ AbsentJob.run = NoRun /\ AbsentJob.updated = 0
<1>1. \A j \in JobId : job[j] \in JobRecord
  BY DEF TypeOK
<1>. QED
  BY <1>1 DEF JobRecord, CanceledJob, RequeuedJob, NewActionJob, AbsentJob

LEMMA RunFields ==
  ASSUME TypeOK
  PROVE  /\ \A r \in RunId : run[r] \in RunRecord
         /\ \A r \in RunId : /\ CanceledRun(r).state = "CANCELED"
                             /\ CanceledRun(r).output = run[r].output
                             /\ CanceledRun(r).error = TRUE
         /\ \A r \in RunId : /\ RetriedRun(r).state = "QUEUED"
                             /\ RetriedRun(r).output = FALSE
                             /\ RetriedRun(r).error = FALSE
         /\ AbsentRun.state = "ABSENT" /\ AbsentRun.output = FALSE /\ AbsentRun.error = FALSE
         /\ AbsentTask.state = "absent" /\ AbsentTask.run = NoRun
<1>1. \A r \in RunId : run[r] \in RunRecord
  BY DEF TypeOK
<1>. QED
  BY <1>1 DEF RunRecord, CanceledRun, RetriedRun, AbsentRun, AbsentTask

\* Facts every step lemma needs from the invariant.
LEMMA Basics ==
  ASSUME QueueInv
  PROVE  /\ TypeOK
         /\ now \in Nat
         /\ \A i \in JobId : job[i].updated \in Nat /\ job[i].expires \in Nat /\ job[i].attempt \in Nat
         /\ \A l \in issued : l.job \in JobId /\ l.owner \in WorkerId /\ l.attempt \in Nat
         /\ \A i \in JobId : Active(i) =>
              /\ job[i].run \in RunId
              /\ run[job[i].run].state \in Working
              /\ \A k \in JobId : Active(k) /\ job[k].run = job[i].run => k = i
<1>1. TypeOK
  BY DEF QueueInv
<1>2. \A i \in JobId : job[i].updated \in Nat /\ job[i].expires \in Nat /\ job[i].attempt \in Nat
  BY <1>1 DEF TypeOK, JobRecord
<1>3. \A l \in issued : l.job \in JobId /\ l.owner \in WorkerId /\ l.attempt \in Nat
  BY <1>1 DEF TypeOK, Lease
<1>4. \A i \in JobId : Active(i) => job[i].run \in RunId
  BY DEF QueueInv, NoOrphans, Active, StoredRun
<1>. QED
  BY <1>1, <1>2, <1>3, <1>4 DEF QueueInv, RunHasItsJob, JobsOf, TypeOK

\* A run gets a new queued job: by admission, retry or resume.
LEMMA EnqueueStep ==
  ASSUME QueueInv, TypeOK', NEW r \in RunId, NEW j \in JobId, FreshJob(j),
         job' = [job EXCEPT ![j] = NewActionJob(r)],
         \A i \in JobId : Active(i) => job[i].run # r,
         \A s \in RunId \ {r} : run'[s] = run[s],
         run'[r].state \in {"QUEUED", "RESUMING"}, run'[r].output = FALSE, run'[r].error = FALSE,
         now' = now, issued' = issued, WaitingHasItsTask',
         \A t \in TaskId : task'[t].state # "absent" => StoredRun(task'[t].run)
  PROVE  QueueInv'
<1>1. TypeOK /\ job[j].state = "absent" /\ \A l \in issued : l.job # j
  BY Basics DEF FreshJob
<1>2. job'[j] = NewActionJob(r)
  BY <1>1 DEF TypeOK
<1>3. /\ job'[j].state = "queued" /\ job'[j].run = r /\ job'[j].attempt = 0
      /\ job'[j].canceled = FALSE /\ job'[j].updated = now
  BY ZenonT(60), <1>1, <1>2, JobFields
<1>4. \A i \in JobId \ {j} : job'[i] = job[i]
  BY <1>1 DEF TypeOK
<1>5. RunHasItsJob'
  BY <1>1, <1>3, <1>4 DEF QueueInv, RunHasItsJob, JobsOf, Active, Working
<1>6. RunningJobRunningRun'
  BY <1>1, <1>3, <1>4 DEF QueueInv, RunningJobRunningRun, NoOrphans, StoredRun, Active
<1>7. NoOrphans'
  BY <1>1, <1>3, <1>4 DEF QueueInv, NoOrphans, StoredRun
<1>8. LeaseIsExclusive'
  BY <1>1, <1>3, <1>4, Basics DEF QueueInv, LeaseIsExclusive
<1>9. CanceledNeverQueued'
  BY <1>3, <1>4 DEF QueueInv, CanceledNeverQueued
<1>10. OutcomeMatchesState'
  BY DEF QueueInv, OutcomeMatchesState
<1>11. LeaseIsRecent'
  BY <1>3, <1>4, Basics DEF QueueInv, LeaseIsRecent
<1>. QED
  BY <1>5, <1>6, <1>7, <1>8, <1>9, <1>10, <1>11 DEF QueueInv

LEMMA CreateRunStep ==
  ASSUME QueueInv, TypeOK', NEW r \in RunId, NEW j \in JobId, CreateRunAndEnqueue(r, j)
  PROVE  QueueInv'
<1>1. /\ TypeOK /\ run[r].state = "ABSENT" /\ FreshJob(j)
      /\ now' = now /\ task' = task /\ issued' = issued
      /\ job' = [job EXCEPT ![j] = NewActionJob(r)]
  BY Basics DEF CreateRunAndEnqueue
<1>2. /\ \A s \in RunId \ {r} : run'[s] = run[s]
      /\ run'[r].state = "QUEUED" /\ run'[r].output = FALSE /\ run'[r].error = FALSE
  BY <1>1 DEF CreateRunAndEnqueue, TypeOK, AbsentRun
<1>3. \A i \in JobId : Active(i) => job[i].run # r
  BY <1>1, Basics DEF Working
<1>4. WaitingHasItsTask'
  BY <1>1, <1>2 DEF QueueInv, WaitingHasItsTask, NoOrphans, StoredRun
<1>5. \A t \in TaskId : task'[t].state # "absent" => StoredRun(task'[t].run)
  BY <1>1 DEF QueueInv, NoOrphans
<1>. QED
  BY <1>1, <1>2, <1>3, <1>4, <1>5, EnqueueStep

LEMMA RetryRunStep ==
  ASSUME QueueInv, TypeOK', NEW r \in RunId, NEW j \in JobId, RetryRun(r, j)
  PROVE  QueueInv'
<1>1. /\ TypeOK /\ run[r].state \in {"FAILED", "CANCELED", "EXPIRED"} /\ FreshJob(j)
      /\ now' = now /\ task' = task /\ issued' = issued
      /\ job' = [job EXCEPT ![j] = NewActionJob(r)]
  BY Basics DEF RetryRun
<1>2. run'[r] = RetriedRun(r) /\ \A s \in RunId \ {r} : run'[s] = run[s]
  BY <1>1 DEF RetryRun, TypeOK
<1>3. run'[r].state = "QUEUED" /\ run'[r].output = FALSE /\ run'[r].error = FALSE
  BY <1>1, <1>2, RunFields
<1>4. \A i \in JobId : Active(i) => job[i].run # r
  BY <1>1, Basics DEF Working
<1>5. WaitingHasItsTask'
  BY <1>1, <1>2, <1>3 DEF QueueInv, WaitingHasItsTask, NoOrphans, StoredRun
<1>6. \A t \in TaskId : task'[t].state # "absent" => StoredRun(task'[t].run)
  BY <1>1 DEF QueueInv, NoOrphans
<1>. QED
  BY <1>1, <1>2, <1>3, <1>4, <1>5, <1>6, EnqueueStep

LEMMA ResumeStep ==
  ASSUME QueueInv, TypeOK', NEW t \in TaskId, NEW j \in JobId, ResumeHumanTask(t, j)
  PROVE  QueueInv'
<1> DEFINE r == task[t].run
<1>1. /\ TypeOK /\ r \in RunId /\ run[r].state = "WAITING_HUMAN" /\ FreshJob(j)
      /\ task[t].state = "pending"
      /\ now' = now /\ issued' = issued
      /\ job' = [job EXCEPT ![j] = NewActionJob(r)]
  BY Basics DEF ResumeHumanTask, StoredRun
<1>2. /\ \A s \in RunId \ {r} : run'[s] = run[s]
      /\ run'[r].state = "RESUMING" /\ run'[r].output = run[r].output /\ run'[r].error = run[r].error
  <2>1. run[r] \in RunRecord
    BY <1>1 DEF TypeOK
  <2>. QED
    BY <1>1, <2>1 DEF ResumeHumanTask, TypeOK, RunRecord
<1>3. run'[r].output = FALSE /\ run'[r].error = FALSE
  <2>1. run[r].output \in BOOLEAN /\ run[r].error \in BOOLEAN
    BY <1>1 DEF TypeOK, RunRecord
  <2>. QED
    BY <1>1, <1>2, <2>1 DEF QueueInv, OutcomeMatchesState
<1>4. /\ \A u \in TaskId \ {t} : task'[u] = task[u]
      /\ task'[t].state = "completed" /\ task'[t].run = r
  <2>1. task[t] \in TaskRecord
    BY <1>1 DEF TypeOK
  <2>. QED
    BY <1>1, <2>1 DEF ResumeHumanTask, TypeOK, TaskRecord
<1>5. \A i \in JobId : Active(i) => job[i].run # r
  BY <1>1, Basics DEF Working
<1>6. WaitingHasItsTask'
  BY <1>1, <1>2, <1>4 DEF QueueInv, WaitingHasItsTask, NoOrphans, StoredRun
<1>7. \A u \in TaskId : task'[u].state # "absent" => StoredRun(task'[u].run)
  BY <1>1, <1>4 DEF QueueInv, NoOrphans, StoredRun
<1>. QED
  BY <1>1, <1>2, <1>3, <1>5, <1>6, <1>7, EnqueueStep

-----------------------------------------------------------------------------
(* Steps that move the clock or touch only tags, leases and time stamps.   *)

\* Nothing but tags, lease ends, cancel marks and time stamps of jobs change.
LEMMA TouchStep ==
  ASSUME QueueInv, TypeOK',
         now' \in Nat, now <= now', UNCHANGED <<run, task, issued>>,
         \A i \in JobId : /\ job'[i].state = job[i].state
                          /\ job'[i].run = job[i].run
                          /\ job'[i].owner = job[i].owner
                          /\ job'[i].attempt = job[i].attempt
                          /\ job[i].state = "queued" => job'[i].canceled = job[i].canceled
                          /\ job'[i].updated \in {job[i].updated, now}
                          /\ \/ job'[i].expires = job[i].expires
                             \/ job'[i].expires = now + LeaseTTL /\ job'[i].updated = now
  PROVE  QueueInv'
<1>1. RunHasItsJob'
  BY DEF QueueInv, RunHasItsJob, JobsOf, Active
<1>2. RunningJobRunningRun'
  BY DEF QueueInv, RunningJobRunningRun
<1>3. WaitingHasItsTask'
  BY DEF QueueInv, WaitingHasItsTask
<1>4. NoOrphans'
  BY DEF QueueInv, NoOrphans, StoredRun
<1>5. LeaseIsExclusive'
  BY Basics DEF QueueInv, LeaseIsExclusive
<1>6. CanceledNeverQueued'
  BY DEF QueueInv, CanceledNeverQueued
<1>7. OutcomeMatchesState'
  BY DEF QueueInv, OutcomeMatchesState
<1>8. LeaseIsRecent'
  BY Basics, ConstantAssumption DEF QueueInv, LeaseIsRecent
<1>. QED
  BY <1>1, <1>2, <1>3, <1>4, <1>5, <1>6, <1>7, <1>8 DEF QueueInv

LEMMA RequeueAppStep ==
  ASSUME QueueInv, TypeOK', NEW a \in App, NEW actionTags \in [Action -> Tag \union {NoTag}],
         RequeueQueuedJobsForApp(a, actionTags)
  PROVE  QueueInv'
<1>1. \A i \in JobId : job[i] \in JobRecord
  BY SMTT(30), Basics DEF TypeOK
<1>2. \A i \in JobId : /\ job'[i].state = job[i].state
                       /\ job'[i].run = job[i].run
                       /\ job'[i].owner = job[i].owner
                       /\ job'[i].attempt = job[i].attempt
                       /\ job'[i].canceled = job[i].canceled
                       /\ job'[i].updated \in {job[i].updated, now}
                       /\ job'[i].expires = job[i].expires
  BY ZenonT(60), <1>1 DEF RequeueQueuedJobsForApp, JobRecord
<1>3. now' = now /\ UNCHANGED <<run, task, issued>>
  BY DEF RequeueQueuedJobsForApp
<1>. QED
  BY <1>2, <1>3, Basics, TouchStep

LEMMA HeartbeatStep ==
  ASSUME QueueInv, TypeOK', NEW l \in issued, HeartbeatJob(l)
  PROVE  QueueInv'
<1>1. TypeOK /\ l.job \in JobId /\ job[l.job] \in JobRecord /\ job[l.job].state = "running"
  BY Basics DEF TypeOK, HeartbeatJob
<1>2. \A i \in JobId \ {l.job} : job'[i] = job[i]
  BY <1>1 DEF HeartbeatJob, TypeOK
<1>3. /\ job'[l.job].state = job[l.job].state
      /\ job'[l.job].run = job[l.job].run
      /\ job'[l.job].owner = job[l.job].owner
      /\ job'[l.job].attempt = job[l.job].attempt
      /\ job'[l.job].canceled = job[l.job].canceled
      /\ job'[l.job].updated = now
      /\ job'[l.job].expires = now + LeaseTTL
  BY <1>1 DEF HeartbeatJob, TypeOK, JobRecord
<1>4. now' = now /\ UNCHANGED <<run, task, issued>>
  BY DEF HeartbeatJob
<1>. QED
  BY <1>2, <1>3, <1>4, Basics, TouchStep

LEMMA TickStep ==
  ASSUME QueueInv, TypeOK', Tick
  PROVE  QueueInv'
BY Basics, TouchStep DEF Tick

-----------------------------------------------------------------------------
(* Steps that settle a job and its run.                                    *)

\* One active job settles and its run with it.
LEMMA SettleStep ==
  ASSUME QueueInv, TypeOK', NEW j \in JobId, Active(j), NEW r, r = job[j].run,
         UNCHANGED <<now, task, issued>>,
         \A i \in JobId \ {j} : job'[i] = job[i],
         job'[j].state \in Settled, job'[j].run = r,
         job'[j].attempt = job[j].attempt, job'[j].updated = now,
         \A s \in RunId \ {r} : run'[s] = run[s],
         run'[r].state \in {"SUCCEEDED", "FAILED", "CANCELED"},
         run'[r].output <=> run'[r].state = "SUCCEEDED",
         run'[r].error <=> run'[r].state \in {"FAILED", "CANCELED"}
  PROVE  QueueInv'
<1>1. /\ r \in RunId /\ run[r].state \in Working
      /\ \A k \in JobId : Active(k) /\ job[k].run = r => k = j
  BY Basics
<1>2. RunHasItsJob'
  BY <1>1 DEF QueueInv, RunHasItsJob, JobsOf, Active, Working, Settled
<1>3. RunningJobRunningRun'
  BY <1>1 DEF QueueInv, RunningJobRunningRun, NoOrphans, StoredRun, Active, Settled
<1>4. WaitingHasItsTask'
  BY <1>1 DEF QueueInv, WaitingHasItsTask, NoOrphans, StoredRun, Working
<1>5. NoOrphans'
  BY <1>1 DEF QueueInv, NoOrphans, StoredRun
<1>6. LeaseIsExclusive'
  BY Basics DEF QueueInv, LeaseIsExclusive, Active, Settled
<1>7. CanceledNeverQueued'
  BY DEF QueueInv, CanceledNeverQueued, Settled
<1>8. OutcomeMatchesState'
  BY DEF QueueInv, OutcomeMatchesState
<1>9. LeaseIsRecent'
  BY Basics DEF QueueInv, LeaseIsRecent, Settled
<1>. QED
  BY <1>2, <1>3, <1>4, <1>5, <1>6, <1>7, <1>8, <1>9 DEF QueueInv

\* A job that is canceled settles its run as CANCELED.
LEMMA CancelSettles ==
  ASSUME QueueInv, TypeOK', NEW j \in JobId, Active(j),
         job' = [job EXCEPT ![j] = CanceledJob(j)],
         run' = [run EXCEPT ![job[j].run] = CanceledRun(job[j].run)],
         UNCHANGED <<now, task, issued>>
  PROVE  QueueInv'
<1> DEFINE r == job[j].run
<1>1. TypeOK /\ r \in RunId /\ run[r].state \in Working
  BY Basics
<1>2. job'[j] = CanceledJob(j) /\ \A i \in JobId \ {j} : job'[i] = job[i]
  BY <1>1 DEF TypeOK
<1>3. run'[r] = CanceledRun(r) /\ \A s \in RunId \ {r} : run'[s] = run[s]
  BY <1>1 DEF TypeOK
<1>4. /\ job'[j].state \in Settled /\ job'[j].run = r
      /\ job'[j].attempt = job[j].attempt /\ job'[j].updated = now
  BY <1>1, <1>2, JobFields DEF Settled
<1>5. run'[r].state = "CANCELED" /\ run'[r].output = run[r].output /\ run'[r].error = TRUE
  BY <1>1, <1>3, RunFields
<1>6. ~run[r].output
  BY <1>1 DEF QueueInv, OutcomeMatchesState, Working
<1>. QED
  BY <1>1, <1>2, <1>3, <1>4, <1>5, <1>6, SettleStep

LEMMA CancelJobStep ==
  ASSUME QueueInv, TypeOK', NEW j \in JobId, CancelJob(j)
  PROVE  QueueInv'
<1>1. TypeOK /\ job[j] \in JobRecord /\ Active(j) /\ UNCHANGED <<now, task, issued>>
  BY Basics DEF TypeOK, CancelJob
<1>2. CASE job[j].state = "running"
  <2>1. UNCHANGED run /\ \A i \in JobId \ {j} : job'[i] = job[i]
    BY <1>1, <1>2 DEF CancelJob, TypeOK
  <2>2. /\ job'[j].state = job[j].state
        /\ job'[j].run = job[j].run
        /\ job'[j].owner = job[j].owner
        /\ job'[j].attempt = job[j].attempt
        /\ job'[j].updated = now
        /\ job'[j].expires = job[j].expires
    <3>1. job'[j] = [job[j] EXCEPT !.canceled = TRUE, !.updated = now]
      BY <1>1, <1>2 DEF CancelJob, TypeOK
    <3>. QED
      BY <1>1, <3>1 DEF JobRecord
  <2>. QED
    BY <1>1, <1>2, <2>1, <2>2, Basics, TouchStep
<1>3. CASE job[j].state # "running"
  BY <1>1, <1>3, CancelSettles DEF CancelJob
<1>. QED
  BY <1>2, <1>3

LEMMA ReportStep ==
  ASSUME QueueInv, TypeOK', NEW l \in issued,
         CompleteJobSucceeded(l) \/ CompleteJobFailed(l)
  PROVE  QueueInv'
<1> DEFINE j == l.job
           r == job[j].run
<1>1. /\ TypeOK /\ j \in JobId /\ job[j] \in JobRecord /\ job[j].state = "running"
      /\ UNCHANGED <<now, task, issued>>
  BY Basics DEF TypeOK, CompleteJobSucceeded, CompleteJobFailed, UncanceledLease, ValidLease
<1>2. Active(j) /\ r \in RunId /\ run[r].state \in Working /\ run[r] \in RunRecord
  BY <1>1, Basics DEF Active, TypeOK
<1>3. \A i \in JobId \ {j} : job'[i] = job[i]
  BY <1>1 DEF CompleteJobSucceeded, CompleteJobFailed, TypeOK
<1>4. /\ job'[j].state \in Settled /\ job'[j].run = r
      /\ job'[j].attempt = job[j].attempt /\ job'[j].updated = now
  <2>1. \E s \in Settled :
          job'[j] = [job[j] EXCEPT !.state = s, !.expires = NoExpiry, !.updated = now]
    BY <1>1 DEF CompleteJobSucceeded, CompleteJobFailed, TypeOK, Settled
  <2>. QED
    BY <1>1, <2>1 DEF JobRecord
<1>5. \A s \in RunId \ {r} : run'[s] = run[s]
  BY <1>1 DEF CompleteJobSucceeded, CompleteJobFailed, TypeOK
<1>6. ~run[r].output
  BY <1>2 DEF QueueInv, OutcomeMatchesState, Working
<1>7. CASE CompleteJobSucceeded(l)
  <2>1. run'[r].state = "SUCCEEDED" /\ run'[r].output = TRUE /\ run'[r].error = FALSE
    BY <1>1, <1>2, <1>7 DEF CompleteJobSucceeded, TypeOK, RunRecord
  <2>. QED
    BY <1>1, <1>2, <1>3, <1>4, <1>5, <2>1, SettleStep
<1>8. CASE CompleteJobFailed(l)
  <2>1. run'[r].state = "FAILED" /\ run'[r].output = run[r].output /\ run'[r].error = TRUE
    BY <1>1, <1>2, <1>8 DEF CompleteJobFailed, TypeOK, RunRecord
  <2>. QED
    BY <1>1, <1>2, <1>3, <1>4, <1>5, <1>6, <2>1, SettleStep
<1>. QED
  BY <1>7, <1>8

LEMMA WaitingStep ==
  ASSUME QueueInv, TypeOK', NEW l \in issued, NEW t \in TaskId, CompleteJobWaitingHuman(l, t)
  PROVE  QueueInv'
<1> DEFINE j == l.job
           r == job[j].run
<1>1. /\ TypeOK /\ j \in JobId /\ job[j] \in JobRecord /\ job[j].state = "running"
      /\ task[t].state = "absent" /\ UNCHANGED <<now, issued>>
  BY Basics DEF TypeOK, CompleteJobWaitingHuman, UncanceledLease, ValidLease
<1>2. /\ Active(j) /\ r \in RunId /\ run[r].state = "RUNNING" /\ run[r] \in RunRecord
      /\ \A k \in JobId : Active(k) /\ job[k].run = r => k = j
  BY <1>1, Basics DEF Active, TypeOK, QueueInv, RunningJobRunningRun
<1>3. \A i \in JobId \ {j} : job'[i] = job[i]
  BY <1>1 DEF CompleteJobWaitingHuman, TypeOK
<1>4. /\ job'[j].state = "succeeded" /\ job'[j].run = r
      /\ job'[j].attempt = job[j].attempt /\ job'[j].updated = now
  BY <1>1 DEF CompleteJobWaitingHuman, TypeOK, JobRecord
<1>5. /\ run'[r].state = "WAITING_HUMAN" /\ run'[r].task = t
      /\ run'[r].output = run[r].output /\ run'[r].error = FALSE
  BY <1>1, <1>2 DEF CompleteJobWaitingHuman, TypeOK, RunRecord
<1>6. \A s \in RunId \ {r} : run'[s] = run[s]
  BY <1>1 DEF CompleteJobWaitingHuman, TypeOK
<1>7. /\ task'[t].state = "pending" /\ task'[t].run = r
      /\ \A u \in TaskId \ {t} : task'[u] = task[u]
  BY <1>1 DEF CompleteJobWaitingHuman, TypeOK
<1>8. RunHasItsJob'
  BY <1>1, <1>2, <1>3, <1>4, <1>5, <1>6 DEF QueueInv, RunHasItsJob, JobsOf, Active, Working
<1>9. RunningJobRunningRun'
  BY <1>2, <1>3, <1>4, <1>6 DEF QueueInv, RunningJobRunningRun, NoOrphans, StoredRun, Active
<1>10. WaitingHasItsTask'
  BY <1>1, <1>2, <1>5, <1>6, <1>7 DEF QueueInv, WaitingHasItsTask, NoOrphans, StoredRun
<1>11. NoOrphans'
  BY <1>1, <1>2, <1>3, <1>4, <1>5, <1>6, <1>7 DEF QueueInv, NoOrphans, StoredRun
<1>12. LeaseIsExclusive'
  BY <1>1, <1>3, <1>4, Basics DEF QueueInv, LeaseIsExclusive
<1>13. CanceledNeverQueued'
  BY <1>3, <1>4 DEF QueueInv, CanceledNeverQueued
<1>14. OutcomeMatchesState'
  BY <1>2, <1>5, <1>6 DEF QueueInv, OutcomeMatchesState
<1>15. LeaseIsRecent'
  BY <1>1, <1>3, <1>4, Basics DEF QueueInv, LeaseIsRecent
<1>. QED
  BY <1>8, <1>9, <1>10, <1>11, <1>12, <1>13, <1>14, <1>15 DEF QueueInv

LEMMA CompleteStep ==
  ASSUME QueueInv, TypeOK', NEW l \in issued, Complete(l)
  PROVE  QueueInv'
<1>1. CASE CompleteCanceled(l)
  BY <1>1, Basics, CancelSettles DEF CompleteCanceled, ValidLease, Active
<1>2. CASE CompleteJobSucceeded(l) \/ CompleteJobFailed(l)
  BY <1>2, ReportStep
<1>3. ASSUME NEW t \in TaskId, CompleteJobWaitingHuman(l, t) PROVE QueueInv'
  BY <1>3, WaitingStep
<1>. QED
  BY <1>1, <1>2, <1>3 DEF Complete

-----------------------------------------------------------------------------
(* Steps on whole sets of runs: cancel, retention, claim.                  *)

\* The runs of S are given up, with their active jobs and pending tasks.
LEMMA GiveUpStep ==
  ASSUME QueueInv, TypeOK', NEW S \in SUBSET RunId,
         UNCHANGED <<now, issued>>,
         \A r \in S : /\ run[r].state \in Working \union {"WAITING_HUMAN"}
                      /\ run'[r].state \in {"CANCELED", "EXPIRED"}
                      /\ ~run'[r].output
                      /\ run'[r].error <=> run'[r].state = "CANCELED",
         \A r \in RunId \ S : run'[r] = run[r],
         \A i \in JobId : IF Active(i) /\ job[i].run \in S
                          THEN /\ job'[i].state = "failed" /\ job'[i].run = job[i].run
                               /\ job'[i].attempt = job[i].attempt /\ job'[i].updated = now
                          ELSE job'[i] = job[i],
         \A t \in TaskId : IF task[t].state = "pending" /\ task[t].run \in S
                           THEN task'[t].state = "expired" /\ task'[t].run = task[t].run
                           ELSE task'[t] = task[t]
  PROVE  QueueInv'
<1>1. RunHasItsJob'
  BY DEF QueueInv, RunHasItsJob, JobsOf, Active, Working
<1>2. RunningJobRunningRun'
  BY DEF QueueInv, RunningJobRunningRun, NoOrphans, StoredRun, Active
<1>3. WaitingHasItsTask'
  BY DEF QueueInv, WaitingHasItsTask, NoOrphans, StoredRun
<1>4. NoOrphans'
  BY DEF QueueInv, NoOrphans, StoredRun, Active
<1>5. LeaseIsExclusive'
  BY Basics DEF QueueInv, LeaseIsExclusive, Active
<1>6. CanceledNeverQueued'
  BY DEF QueueInv, CanceledNeverQueued
<1>7. OutcomeMatchesState'
  BY DEF QueueInv, OutcomeMatchesState
<1>8. LeaseIsRecent'
  BY Basics DEF QueueInv, LeaseIsRecent
<1>. QED
  BY <1>1, <1>2, <1>3, <1>4, <1>5, <1>6, <1>7, <1>8 DEF QueueInv

LEMMA CancelRunStep ==
  ASSUME QueueInv, TypeOK', NEW r \in RunId, CancelRun(r)
  PROVE  QueueInv'
<1>1. /\ TypeOK /\ UNCHANGED <<now, issued>>
      /\ \A i \in JobId : job[i] \in JobRecord
      /\ \A t \in TaskId : task[t] \in TaskRecord
  BY Basics DEF TypeOK, CancelRun
<1>2. run[r].state \in Working \union {"WAITING_HUMAN"} /\ run[r].output = FALSE
  <2>1. run[r] \in RunRecord
    BY <1>1 DEF TypeOK
  <2>2. run[r].state \in Working \union {"WAITING_HUMAN"} /\ run[r].output \in BOOLEAN
    BY <2>1 DEF CancelRun, StoredRun, RunRecord, RunState
  <2>. QED
    BY <2>2 DEF QueueInv, OutcomeMatchesState, Working
<1>3. run'[r] = CanceledRun(r) /\ \A s \in RunId \ {r} : run'[s] = run[s]
  BY <1>1 DEF CancelRun, TypeOK
<1>4. run'[r].state = "CANCELED" /\ ~run'[r].output /\ run'[r].error
  BY <1>1, <1>2, <1>3, RunFields
<1>5. \A i \in JobId : IF Active(i) /\ job[i].run \in {r}
                       THEN /\ job'[i].state = "failed" /\ job'[i].run = job[i].run
                            /\ job'[i].attempt = job[i].attempt /\ job'[i].updated = now
                       ELSE job'[i] = job[i]
  BY <1>1 DEF CancelRun, JobRecord
<1>6. \A t \in TaskId : IF task[t].state = "pending" /\ task[t].run \in {r}
                        THEN task'[t].state = "expired" /\ task'[t].run = task[t].run
                        ELSE task'[t] = task[t]
  BY <1>1 DEF CancelRun, TaskRecord
<1> DEFINE S == {r}
<1>7. S \in SUBSET RunId
  OBVIOUS
<1>8. \A q \in S : /\ run[q].state \in Working \union {"WAITING_HUMAN"}
                   /\ run'[q].state \in {"CANCELED", "EXPIRED"}
                   /\ ~run'[q].output
                   /\ run'[q].error <=> run'[q].state = "CANCELED"
  BY <1>2, <1>4
<1>9. \A q \in RunId \ S : run'[q] = run[q]
  BY <1>3
<1>10. \A i \in JobId : IF Active(i) /\ job[i].run \in S
                        THEN /\ job'[i].state = "failed" /\ job'[i].run = job[i].run
                             /\ job'[i].attempt = job[i].attempt /\ job'[i].updated = now
                        ELSE job'[i] = job[i]
  BY <1>5
<1>11. \A t \in TaskId : IF task[t].state = "pending" /\ task[t].run \in S
                         THEN task'[t].state = "expired" /\ task'[t].run = task[t].run
                         ELSE task'[t] = task[t]
  BY <1>6
<1>. HIDE DEF S
<1>. QED
  BY <1>1, <1>7, <1>8, <1>9, <1>10, <1>11, GiveUpStep, ZenonT(60)

LEMMA ExpireStep ==
  ASSUME QueueInv, TypeOK', NEW s \in 0..now, ExpireStuckJobs(s)
  PROVE  QueueInv'
<1> DEFINE S == {r \in RunId : Stuck(r, s)}
<1>1. /\ TypeOK /\ UNCHANGED <<now, task, issued>>
      /\ \A i \in JobId : job[i] \in JobRecord
      /\ \A r \in RunId : run[r] \in RunRecord
  BY Basics DEF TypeOK, ExpireStuckJobs
<1>2. \A r \in S : /\ run[r].state \in Working
                   /\ run'[r].state = "EXPIRED" /\ run'[r].output = run[r].output
                   /\ run'[r].error = run[r].error
  BY <1>1 DEF ExpireStuckJobs, Stuck, RunRecord
<1>3. \A r \in S : ~run[r].output /\ ~run[r].error
  BY <1>2 DEF QueueInv, OutcomeMatchesState, Working
<1>4. \A r \in RunId \ S : run'[r] = run[r]
  BY DEF ExpireStuckJobs
<1>5. \A i \in JobId : Active(i) => StoredRun(job[i].run)
  BY DEF QueueInv, NoOrphans, Active
<1>6. \A i \in JobId : IF Active(i) /\ job[i].run \in S
                       THEN /\ job'[i].state = "failed" /\ job'[i].run = job[i].run
                            /\ job'[i].attempt = job[i].attempt /\ job'[i].updated = now
                       ELSE job'[i] = job[i]
  BY <1>1, <1>5 DEF ExpireStuckJobs, JobRecord, StoredRun
<1>7. \A t \in TaskId : task[t].state = "pending" => task[t].run \notin S
  BY <1>2 DEF QueueInv, WaitingHasItsTask, Working
<1>. QED
  BY <1>1, <1>2, <1>3, <1>4, <1>6, <1>7, GiveUpStep

LEMMA PruneStep ==
  ASSUME QueueInv, TypeOK', NEW s \in 0..now, NEW f \in 0..now, PruneSettledJobs(s, f)
  PROVE  QueueInv'
<1> DEFINE gone == {r \in RunId : Prunable(r, s, f)}
<1>1. TypeOK /\ UNCHANGED <<now, issued>>
  BY Basics DEF PruneSettledJobs
<1>2. /\ \A i \in JobId : IF job[i].run \in gone
                          THEN job'[i].state = "absent" /\ job'[i].run = NoRun /\ job'[i].updated = 0
                          ELSE job'[i] = job[i]
      /\ \A t \in TaskId : IF task[t].run \in gone
                           THEN task'[t].state = "absent" /\ task'[t].run = NoRun
                           ELSE task'[t] = task[t]
      /\ \A r \in RunId : IF r \in gone
                          THEN run'[r].state = "ABSENT" /\ run'[r].output = FALSE /\ run'[r].error = FALSE
                          ELSE run'[r] = run[r]
  BY <1>1, JobFields, RunFields DEF PruneSettledJobs
<1>3. \A r \in gone : run[r].state \in Terminal
  BY DEF Prunable, Terminal
<1>4. \A i \in JobId : Active(i) => job[i].run \notin gone
  BY <1>3, Basics DEF Terminal, Working
<1>5. RunHasItsJob'
  BY <1>2, <1>3, <1>4, ConstantAssumption DEF QueueInv, RunHasItsJob, JobsOf, Active, Working, Terminal
<1>6. RunningJobRunningRun'
  BY <1>2, <1>4, Basics DEF QueueInv, RunningJobRunningRun, Active
<1>7. WaitingHasItsTask'
  BY <1>2, <1>3 DEF QueueInv, WaitingHasItsTask, NoOrphans, StoredRun, Terminal
<1>8. NoOrphans'
  BY <1>2 DEF QueueInv, NoOrphans, StoredRun
<1>9. LeaseIsExclusive'
  BY <1>1, <1>2, Basics DEF QueueInv, LeaseIsExclusive
<1>10. CanceledNeverQueued'
  BY <1>2 DEF QueueInv, CanceledNeverQueued
<1>11. OutcomeMatchesState'
  BY <1>2 DEF QueueInv, OutcomeMatchesState
<1>12. LeaseIsRecent'
  BY <1>1, <1>2, Basics DEF QueueInv, LeaseIsRecent
<1>. QED
  BY <1>5, <1>6, <1>7, <1>8, <1>9, <1>10, <1>11, <1>12 DEF QueueInv

\* A lapsed job that was asked to cancel: its worker is given up for lost.
Lost(i) == Lapsed(i) /\ job[i].canceled
LostRuns == {job[i].run : i \in {k \in JobId : Lost(k)}}

\* What a claim does to the job it hands out ...
LEMMA ClaimedJob ==
  ASSUME QueueInv, NEW w \in WorkerId, NEW j \in JobId, ClaimJobForWorker(w, j)
  PROVE  /\ Active(j) /\ ~job[j].canceled
         /\ job'[j].state = "running" /\ job'[j].run = job[j].run
         /\ job'[j].attempt = job[j].attempt + 1 /\ job'[j].owner = w
         /\ job'[j].expires = now + LeaseTTL /\ job'[j].updated = now
<1>1. TypeOK /\ job[j] \in JobRecord
  BY Basics DEF TypeOK
<1>2. Active(j) /\ ~job[j].canceled
  BY DEF ClaimJobForWorker, Claimable, QueuedNow, Lapsed, Active, QueueInv, CanceledNeverQueued
<1>3. job'[j] = [job[j] EXCEPT !.state = "running", !.attempt = @ + 1, !.owner = w,
                               !.expires = now + LeaseTTL, !.updated = now]
  BY DEF ClaimJobForWorker
<1>. QED
  BY <1>1, <1>2, <1>3 DEF JobRecord

\* ... to the other jobs ...
LEMMA ClaimOthers ==
  ASSUME QueueInv, NEW w \in WorkerId, NEW j \in JobId, ClaimJobForWorker(w, j),
         NEW i \in JobId, i # j
  PROVE  /\ job'[i].run = job[i].run
         /\ job'[i].attempt = job[i].attempt
         /\ job'[i].updated \in {job[i].updated, now}
         /\ Lost(i) => job'[i].state = "failed"
         /\ Lapsed(i) /\ ~Lost(i) => job'[i].state = "queued" /\ ~job'[i].canceled
         /\ ~Lapsed(i) => job'[i] = job[i]
<1>1. TypeOK /\ job[i] \in JobRecord
  BY Basics DEF TypeOK
<1>2. job'[i] = Requeued(i)
  BY DEF ClaimJobForWorker
<1>. QED
  BY <1>1, <1>2, JobFields DEF Requeued, Lost

\* ... and to the runs.
LEMMA ClaimedRuns ==
  ASSUME QueueInv, NEW w \in WorkerId, NEW j \in JobId, ClaimJobForWorker(w, j),
         NEW r \in RunId
  PROVE  /\ r \in LostRuns =>
              /\ run[r].state = "RUNNING" /\ run'[r].state = "CANCELED"
              /\ run'[r].output = run[r].output /\ run'[r].error = TRUE
         /\ r \notin LostRuns /\ r = job[j].run =>
              /\ run[r].state \in Working /\ run'[r].state = "RUNNING"
              /\ run'[r].output = run[r].output /\ run'[r].error = run[r].error
         /\ r \notin LostRuns /\ r # job[j].run => run'[r] = run[r]
<1>1. TypeOK /\ run[r] \in RunRecord
  BY Basics DEF TypeOK
<1>2. LostCanceled(r) <=> r \in LostRuns
  BY DEF LostRuns, LostCanceled, JobsOf, Lost, Lapsed, QueueInv, NoOrphans
<1>3. CASE r \in LostRuns
  <2>1. run'[r] = CanceledRun(r)
    BY <1>2, <1>3 DEF ClaimJobForWorker
  <2>2. run[r].state = "RUNNING"
    BY <1>3 DEF LostRuns, Lost, Lapsed, QueueInv, RunningJobRunningRun
  <2>. QED
    BY <1>1, <1>3, <2>1, <2>2, RunFields
<1>4. CASE r \notin LostRuns /\ r = job[j].run
  <2>1. run[r].state \in Working
    BY <1>4, ClaimedJob, Basics
  <2>2. CASE run[r].state \in {"QUEUED", "RESUMING"}
    <3>1. run'[r] = [run[r] EXCEPT !.state = "RUNNING", !.updated = now]
      BY <1>2, <1>4, <2>2 DEF ClaimJobForWorker
    <3>. QED
      BY <1>1, <1>4, <2>1, <3>1 DEF RunRecord
  <2>3. CASE run[r].state = "RUNNING"
    <3>1. run'[r] = run[r]
      BY <1>2, <1>4, <2>3 DEF ClaimJobForWorker
    <3>. QED
      BY <1>4, <2>1, <2>3, <3>1
  <2>. QED
    BY <2>1, <2>2, <2>3 DEF Working
<1>5. CASE r \notin LostRuns /\ r # job[j].run
  BY <1>2, <1>5 DEF ClaimJobForWorker
<1>. QED
  BY <1>3, <1>4, <1>5

LEMMA ClaimStep ==
  ASSUME QueueInv, TypeOK', NEW w \in WorkerId, NEW j \in JobId, ClaimJobForWorker(w, j)
  PROVE  QueueInv'
<1>1. /\ Active(j) /\ ~job[j].canceled
      /\ job'[j].state = "running" /\ job'[j].run = job[j].run
      /\ job'[j].attempt = job[j].attempt + 1 /\ job'[j].owner = w
      /\ job'[j].expires = now + LeaseTTL /\ job'[j].updated = now
  BY ClaimedJob
<1>2. /\ issued' = issued \union {[job |-> j, owner |-> w, attempt |-> job[j].attempt + 1]}
      /\ now' = now /\ task' = task
  BY DEF ClaimJobForWorker
<1>3. /\ job[j].run \in RunId /\ run[job[j].run].state \in Working
      /\ \A k \in JobId : Active(k) /\ job[k].run = job[j].run => k = j
  BY <1>1, Basics
<1>4. \A i \in JobId : Lost(i) => Active(i) /\ i # j
  BY <1>1 DEF Lost, Lapsed, Active
<1>5. \A i \in JobId : Active(i) => (job[i].run \in LostRuns <=> Lost(i))
  BY <1>4, Basics DEF LostRuns
<1>6. job[j].run \notin LostRuns /\ run'[job[j].run].state = "RUNNING"
  <2>1. job[j].run \notin LostRuns
    BY <1>1, <1>4, <1>5
  <2>. QED
    BY <1>3, <2>1, ClaimedRuns
<1>7. ASSUME NEW i \in JobId, i # j
      PROVE  /\ job'[i].state \in {"queued", "running"} <=> Active(i) /\ ~Lost(i)
             /\ job'[i].state = "running" =>
                  job[i].state = "running" /\ ~Lapsed(i) /\ job'[i] = job[i]
             /\ job'[i].state = "absent" => job[i].state = "absent"
  BY <1>7, ClaimOthers DEF Active, Lost, Lapsed
<1>8. ASSUME NEW r \in RunId
      PROVE  /\ run'[r].state # run[r].state =>
                  run[r].state \in Working /\ run'[r].state \in {"RUNNING", "CANCELED"}
             /\ run'[r].state \in Working <=> run[r].state \in Working /\ r \notin LostRuns
             /\ "WAITING_HUMAN" \in {run[r].state, run'[r].state} => run'[r] = run[r]
  <2>1. CASE r \in LostRuns
    <3>1. run[r].state = "RUNNING" /\ run'[r].state = "CANCELED"
      BY <2>1, ClaimedRuns
    <3>. QED
      BY <2>1, <3>1 DEF Working
  <2>2. CASE r \notin LostRuns /\ r = job[j].run
    BY <1>3, <1>6, <2>2 DEF Working
  <2>3. CASE r \notin LostRuns /\ r # job[j].run
    <3>1. run'[r] = run[r]
      BY <2>3, ClaimedRuns
    <3>. QED
      BY <2>3, <3>1
  <2>. QED
    BY <2>1, <2>2, <2>3
<1>9. \A i \in JobId : job'[i].run = job[i].run
  BY <1>1, ClaimOthers
<1>10. RunHasItsJob'
  <2>1. \A i \in JobId : Active(i)' <=> Active(i) /\ ~Lost(i)
    BY <1>1, <1>4, <1>7 DEF Active
  <2>2. ASSUME NEW r \in RunId
        PROVE  /\ run'[r].state \in Working <=>
                    \E i \in JobId : job[i].run = r /\ Active(i) /\ ~Lost(i)
               /\ \A i, k \in JobId :
                    job[i].run = r /\ job[k].run = r /\ Active(i) /\ Active(k) => i = k
    <3>1. run[r].state \in Working <=> \E i \in JobId : job[i].run = r /\ Active(i)
      BY DEF QueueInv, RunHasItsJob, JobsOf
    <3>. QED
      BY <1>5, <1>8, <3>1, Basics
  <2>. QED
    BY <1>9, <2>1, <2>2 DEF RunHasItsJob, JobsOf
<1>11. RunningJobRunningRun'
  <2>1. ASSUME NEW i \in JobId, i # j, job'[i].state = "running"
        PROVE  run'[job'[i].run].state = "RUNNING"
    <3>1. job'[i] = job[i] /\ job[i].state = "running" /\ ~Lapsed(i)
      BY <1>7, <2>1
    <3>2. Active(i) /\ ~Lost(i)
      BY <3>1 DEF Active, Lost
    <3>3. job[i].run \in RunId /\ run[job[i].run].state = "RUNNING" /\ job[i].run # job[j].run
      BY <1>3, <2>1, <3>1, <3>2, Basics DEF QueueInv, RunningJobRunningRun
    <3>4. run'[job[i].run] = run[job[i].run]
      BY <1>5, <3>2, <3>3, ClaimedRuns
    <3>. QED
      BY <3>1, <3>3, <3>4
  <2>. QED
    BY <1>1, <1>6, <2>1 DEF RunningJobRunningRun
<1>12. WaitingHasItsTask'
  BY <1>2, <1>8 DEF QueueInv, WaitingHasItsTask, NoOrphans, StoredRun
<1>13. NoOrphans'
  <2>1. \A r : StoredRun(r) => StoredRun(r)'
    BY <1>8 DEF StoredRun, Working
  <2>2. \A i \in JobId : job'[i].state # "absent" => job[i].state # "absent"
    <3>1. \A i \in JobId : i # j => (job'[i].state # "absent" => job[i].state # "absent")
      BY ClaimOthers DEF Lapsed, Lost
    <3>. QED
      BY <1>1, <3>1 DEF Active
  <2>. QED
    BY <1>2, <1>9, <2>1, <2>2 DEF QueueInv, NoOrphans
<1>14. LeaseIsExclusive'
  <2> DEFINE new == [job |-> j, owner |-> w, attempt |-> job[j].attempt + 1]
  <2>1. \A l \in issued : l.job = j => l.attempt <= job[j].attempt
    BY <1>1 DEF QueueInv, LeaseIsExclusive, Active
  <2>2. issued' = issued \union {new} /\ new.job = j /\ new.owner = w /\ new.attempt = job[j].attempt + 1
    BY <1>2
  <2>3. ASSUME NEW i \in JobId, job'[i].state = "running"
        PROVE  [job |-> i, owner |-> job'[i].owner, attempt |-> job'[i].attempt] \in issued'
    <3>1. CASE i = j
      BY <1>1, <1>2, <3>1
    <3>2. CASE i # j
      <4>1. job'[i] = job[i] /\ job[i].state = "running"
        BY <1>7, <2>3, <3>2
      <4>. QED
        BY <2>2, <4>1 DEF QueueInv, LeaseIsExclusive
    <3>. QED
      BY <3>1, <3>2
  <2>4. ASSUME NEW l \in issued', job'[l.job].state # "absent"
        PROVE  l.attempt <= job'[l.job].attempt
    <3> HIDE DEF new
    <3>1. CASE l = new
      BY <1>1, <2>2, <3>1, Basics
    <3>2. CASE l \in issued /\ l.job = j
      BY <1>1, <2>1, <3>2, Basics
    <3>3. CASE l \in issued /\ l.job # j
      <4>1. l.job \in JobId /\ job'[l.job].attempt = job[l.job].attempt /\ job[l.job].state # "absent"
        BY <2>4, <3>3, ClaimOthers, Basics DEF Lost, Lapsed
      <4>. QED
        BY <3>3, <4>1 DEF QueueInv, LeaseIsExclusive
    <3>. QED
      BY <2>2, <3>1, <3>2, <3>3
  <2>5. \A k, l \in issued' : k.job = l.job /\ k.attempt = l.attempt => k = l
    <3> HIDE DEF new
    <3>. QED
      BY <2>1, <2>2, Basics DEF QueueInv, LeaseIsExclusive
  <2>. QED
    BY <2>3, <2>4, <2>5 DEF LeaseIsExclusive
<1>15. CanceledNeverQueued'
  <2>1. ASSUME NEW i \in JobId, job'[i].state = "queued" PROVE ~job'[i].canceled
    <3>1. i # j
      BY <1>1, <2>1
    <3>. QED
      BY <2>1, <3>1, ClaimOthers DEF QueueInv, CanceledNeverQueued, Lost
  <2>. QED
    BY <2>1 DEF CanceledNeverQueued
<1>16. OutcomeMatchesState'
  <2>1. ASSUME NEW r \in RunId
        PROVE  /\ run'[r].output <=> run'[r].state = "SUCCEEDED"
               /\ run'[r].error <=> run'[r].state \in {"FAILED", "CANCELED"}
    <3>1. run[r].state \in Working => ~run[r].output /\ ~run[r].error
      BY DEF QueueInv, OutcomeMatchesState, Working
    <3>2. CASE r \in LostRuns
      <4>1. /\ run[r].state = "RUNNING" /\ run'[r].state = "CANCELED"
            /\ run'[r].output = run[r].output /\ run'[r].error = TRUE
        BY <3>2, ClaimedRuns
      <4>. QED
        BY <3>1, <4>1 DEF Working
    <3>3. CASE r \notin LostRuns /\ r = job[j].run
      <4>1. /\ run[r].state \in Working /\ run'[r].state = "RUNNING"
            /\ run'[r].output = run[r].output /\ run'[r].error = run[r].error
        BY <3>3, ClaimedRuns
      <4>. QED
        BY <3>1, <4>1
    <3>4. CASE r \notin LostRuns /\ r # job[j].run
      <4>1. run'[r] = run[r]
        BY <3>4, ClaimedRuns
      <4>. QED
        BY <4>1 DEF QueueInv, OutcomeMatchesState
    <3>. QED
      BY <3>2, <3>3, <3>4
  <2>. QED
    BY <2>1 DEF OutcomeMatchesState
<1>17. LeaseIsRecent'
  <2>1. ASSUME NEW i \in JobId
        PROVE  /\ job'[i].updated <= now
               /\ job'[i].state = "running" => job'[i].expires <= job'[i].updated + LeaseTTL
    <3>1. CASE i = j
      BY <1>1, <3>1, Basics, ConstantAssumption
    <3>2. CASE i # j
      <4>1. job'[i].updated \in {job[i].updated, now} /\ (job'[i].state = "running" => job'[i] = job[i])
        BY <1>7, <3>2, ClaimOthers
      <4>. QED
        BY <4>1, Basics DEF QueueInv, LeaseIsRecent
    <3>. QED
      BY <3>1, <3>2
  <2>. QED
    BY <1>2, <2>1 DEF LeaseIsRecent
<1>. QED
  BY <1>10, <1>11, <1>12, <1>13, <1>14, <1>15, <1>16, <1>17 DEF QueueInv

-----------------------------------------------------------------------------

LEMMA QueueInvStep ==
  ASSUME QueueInv, [Next]_vars
  PROVE  QueueInv'
<1>1. TypeOK'
  BY TypeStep DEF QueueInv
<1>2. CASE UNCHANGED vars
  BY <1>2, <1>1, Basics, TouchStep DEF vars
<1>3. ASSUME NEW r \in RunId, NEW j \in JobId, CreateRunAndEnqueue(r, j) PROVE QueueInv'
  BY <1>1, <1>3, CreateRunStep
<1>4. ASSUME NEW a \in App, NEW actionTags \in [Action -> Tag \union {NoTag}],
             RequeueQueuedJobsForApp(a, actionTags)
      PROVE  QueueInv'
  BY <1>1, <1>4, RequeueAppStep
<1>5. ASSUME NEW w \in WorkerId, NEW j \in JobId, ClaimJobForWorker(w, j) PROVE QueueInv'
  BY <1>1, <1>5, ClaimStep
<1>6. ASSUME NEW l \in issued, HeartbeatJob(l) PROVE QueueInv'
  BY <1>1, <1>6, HeartbeatStep
<1>7. ASSUME NEW l \in issued, Complete(l) PROVE QueueInv'
  BY <1>1, <1>7, CompleteStep
<1>8. ASSUME NEW t \in TaskId, NEW j \in JobId, ResumeHumanTask(t, j) PROVE QueueInv'
  BY <1>1, <1>8, ResumeStep
<1>9. ASSUME NEW j \in JobId, CancelJob(j) PROVE QueueInv'
  BY <1>1, <1>9, CancelJobStep
<1>10. ASSUME NEW r \in RunId, CancelRun(r) PROVE QueueInv'
  BY <1>1, <1>10, CancelRunStep
<1>11. ASSUME NEW r \in RunId, NEW j \in JobId, RetryRun(r, j) PROVE QueueInv'
  BY <1>1, <1>11, RetryRunStep
<1>12. ASSUME NEW s \in 0..now, ExpireStuckJobs(s) PROVE QueueInv'
  BY <1>1, <1>12, ExpireStep
<1>13. ASSUME NEW s \in 0..now, NEW f \in 0..now, PruneSettledJobs(s, f) PROVE QueueInv'
  BY <1>1, <1>13, PruneStep
<1>14. CASE Tick
  BY <1>1, <1>14, TickStep
<1>. QED
  BY <1>2, <1>3, <1>4, <1>5, <1>6, <1>7, <1>8, <1>9, <1>10, <1>11, <1>12, <1>13, <1>14 DEF Next

LEMMA InitQueueInv == Init => QueueInv
<1> SUFFICES ASSUME Init PROVE QueueInv
  OBVIOUS
<1>1. TypeOK
  BY InitType
<1>2. /\ \A r \in RunId : run[r].state = "ABSENT" /\ run[r].output = FALSE /\ run[r].error = FALSE
      /\ \A j \in JobId : job[j].state = "absent" /\ job[j].updated = 0
      /\ \A t \in TaskId : task[t].state = "absent"
      /\ now = 0 /\ issued = {}
  BY DEF Init, AbsentRun, AbsentJob, AbsentTask
<1>3. RunHasItsJob /\ RunningJobRunningRun /\ WaitingHasItsTask /\ NoOrphans
  BY <1>2 DEF RunHasItsJob, JobsOf, Active, Working, RunningJobRunningRun, WaitingHasItsTask, NoOrphans
<1>4. LeaseIsExclusive /\ CanceledNeverQueued /\ OutcomeMatchesState /\ LeaseIsRecent
  BY <1>2 DEF LeaseIsExclusive, CanceledNeverQueued, OutcomeMatchesState, LeaseIsRecent
<1>. QED
  BY <1>1, <1>3, <1>4 DEF QueueInv

\* QueueInvCorrect: the runs, jobs, tasks and leases of the queue are in step in
\* every reachable state, whatever the sets of runs, jobs and workers.
THEOREM QueueInvCorrect == Spec => []QueueInv
  BY InitQueueInv, QueueInvStep, PTL DEF Spec

\* RunAlwaysHasItsJob: a run is queued, running or resuming exactly while one job
\* of it, and only one, is queued or running.
THEOREM RunAlwaysHasItsJob == Spec => []RunHasItsJob
  BY QueueInvCorrect, PTL DEF QueueInv

\* WaitingAlwaysHasItsTask: a run waits for a human exactly while the task it names
\* is pending.
THEOREM WaitingAlwaysHasItsTask == Spec => []WaitingHasItsTask
  BY QueueInvCorrect, PTL DEF QueueInv

\* NothingOrphaned: pruning never leaves a job or a task without its run.
THEOREM NothingOrphaned == Spec => []NoOrphans
  BY QueueInvCorrect, PTL DEF QueueInv

\* LeaseAlwaysExclusive: the lease a running job records is the newest one issued
\* for it, and it was issued to one worker.
THEOREM LeaseAlwaysExclusive == Spec => []LeaseIsExclusive
  BY QueueInvCorrect, PTL DEF QueueInv

\* CanceledStaysOut: a job that was asked to cancel is never queued again.
THEOREM CanceledStaysOut == Spec => []CanceledNeverQueued
  BY QueueInvCorrect, PTL DEF QueueInv

\* OutcomeAlwaysMatches: a run carries the outcome of its present state only.
THEOREM OutcomeAlwaysMatches == Spec => []OutcomeMatchesState
  BY QueueInvCorrect, PTL DEF QueueInv

\* RunningAlwaysRunningRun: the run of a job a worker holds is RUNNING.
THEOREM RunningAlwaysRunningRun == Spec => []RunningJobRunningRun
  BY QueueInvCorrect, PTL DEF QueueInv

\* LeaseAlwaysRecent: a lease ends at most LeaseTTL after its job was last touched.
THEOREM LeaseAlwaysRecent == Spec => []LeaseIsRecent
  BY QueueInvCorrect, PTL DEF QueueInv

-----------------------------------------------------------------------------
(* Routing and concurrency.                                                *)

\* A job that runs after a step ran before it under the same worker and route,
\* or is the one a claim has just handed out.
SameRoute(j) == job'[j].run = job[j].run /\ job'[j].tag = job[j].tag
StillHeld(j) == job[j].state = "running" /\ SameRoute(j) /\ job'[j].owner = job[j].owner
Taken(w, j)  == ClaimJobForWorker(w, j) /\ SameRoute(j) /\ job'[j].owner = w

LEMMA RunningBefore ==
  ASSUME QueueInv, [Next]_vars, NEW j \in JobId, job'[j].state = "running"
  PROVE  StillHeld(j) \/ \E w \in WorkerId : Taken(w, j)
<1>1. TypeOK /\ job[j] \in JobRecord
  BY Basics DEF TypeOK
<1>2. ASSUME job'[j] = job[j] PROVE StillHeld(j)
  BY <1>2 DEF StillHeld, SameRoute
<1>3. CASE UNCHANGED vars
  BY <1>2, <1>3 DEF vars
<1>4. ASSUME NEW r \in RunId, NEW i \in JobId,
             CreateRunAndEnqueue(r, i) \/ RetryRun(r, i)
      PROVE  StillHeld(j)
  BY <1>1, <1>2, <1>4, JobFields DEF CreateRunAndEnqueue, RetryRun, TypeOK
<1>5. ASSUME NEW a \in App, NEW actionTags \in [Action -> Tag \union {NoTag}],
             RequeueQueuedJobsForApp(a, actionTags)
      PROVE  StillHeld(j)
  <2>1. CASE job[j].state = "queued"
    <3>1. \A tag : [job[j] EXCEPT !.tag = tag, !.updated = now].state = job[j].state
      BY <1>1 DEF JobRecord
    <3>. QED
      BY <1>5, <2>1, <3>1 DEF RequeueQueuedJobsForApp
  <2>. QED
    BY <1>2, <1>5, <2>1 DEF RequeueQueuedJobsForApp
<1>6. ASSUME NEW w \in WorkerId, NEW i \in JobId, ClaimJobForWorker(w, i)
      PROVE  StillHeld(j) \/ Taken(w, j)
  <2>1. CASE i = j
    <3>1. job'[j] = [job[j] EXCEPT !.state = "running", !.attempt = @ + 1, !.owner = w,
                                   !.expires = now + LeaseTTL, !.updated = now]
      BY <1>6, <2>1 DEF ClaimJobForWorker
    <3>. QED
      BY <1>1, <1>6, <2>1, <3>1 DEF JobRecord, Taken, SameRoute
  <2>. QED
    BY <1>2, <1>6, <2>1, ClaimOthers DEF Lost
<1>7. ASSUME NEW l \in issued, HeartbeatJob(l) PROVE StillHeld(j)
  <2>1. [job[j] EXCEPT !.expires = now + LeaseTTL, !.updated = now].state = job[j].state
        /\ [job[j] EXCEPT !.expires = now + LeaseTTL, !.updated = now].run = job[j].run
        /\ [job[j] EXCEPT !.expires = now + LeaseTTL, !.updated = now].tag = job[j].tag
        /\ [job[j] EXCEPT !.expires = now + LeaseTTL, !.updated = now].owner = job[j].owner
    BY <1>1 DEF JobRecord
  <2>. QED
    BY <1>1, <1>2, <1>7, <2>1 DEF HeartbeatJob, TypeOK, StillHeld, SameRoute
<1>8. ASSUME NEW l \in issued, Complete(l) PROVE StillHeld(j)
  <2>1. CASE l.job # j
    <3>1. job'[j] = job[j]
      BY <1>1, <1>8, <2>1 DEF Complete, CompleteCanceled, CompleteJobSucceeded,
                              CompleteJobFailed, CompleteJobWaitingHuman, TypeOK
    <3>. QED
      BY <1>2, <3>1
  <2>2. CASE l.job = j /\ CompleteCanceled(l)
    <3>1. job'[j] = CanceledJob(j)
      BY <1>1, <2>2 DEF CompleteCanceled, TypeOK
    <3>. QED
      BY <1>1, <3>1, JobFields
  <2>3. CASE l.job = j /\ ~CompleteCanceled(l)
    <3>1. \E s \in Settled :
            job'[j] = [job[j] EXCEPT !.state = s, !.expires = NoExpiry, !.updated = now]
      BY <1>1, <1>8, <2>3 DEF Complete, CompleteJobSucceeded, CompleteJobFailed,
                              CompleteJobWaitingHuman, TypeOK, Settled
    <3>2. job'[j].state \in Settled
      BY <1>1, <3>1 DEF JobRecord
    <3>. QED
      BY <3>2 DEF Settled
  <2>. QED
    BY <2>1, <2>2, <2>3
<1>9. ASSUME NEW t \in TaskId, NEW i \in JobId, ResumeHumanTask(t, i) PROVE StillHeld(j)
  <2>1. task[t].run \in RunId
    BY <1>9 DEF ResumeHumanTask, StoredRun
  <2>. QED
    BY <1>1, <1>2, <1>9, <2>1, JobFields DEF ResumeHumanTask, TypeOK
<1>10. ASSUME NEW i \in JobId, CancelJob(i) PROVE StillHeld(j)
  <2>1. CASE i = j /\ job[j].state = "running"
    <3>1. job'[j] = [job[j] EXCEPT !.canceled = TRUE, !.updated = now]
      BY <1>1, <1>10, <2>1 DEF CancelJob, TypeOK
    <3>. QED
      BY <1>1, <2>1, <3>1 DEF JobRecord, StillHeld, SameRoute
  <2>2. CASE i = j /\ job[j].state # "running"
    <3>1. job'[j] = CanceledJob(j)
      BY <1>1, <1>10, <2>2 DEF CancelJob, TypeOK
    <3>. QED
      BY <1>1, <3>1, JobFields
  <2>3. CASE i # j
    <3>1. job'[j] = job[j]
      BY <1>1, <1>10, <2>3 DEF CancelJob, TypeOK
    <3>. QED
      BY <1>2, <3>1
  <2>. QED
    BY <2>1, <2>2, <2>3
<1>11. ASSUME NEW r \in RunId, CancelRun(r) PROVE StillHeld(j)
  <2>1. [job[j] EXCEPT !.state = "failed", !.owner = NoWorker,
                       !.expires = NoExpiry, !.updated = now].state = "failed"
    BY <1>1 DEF JobRecord
  <2>. QED
    BY <1>2, <1>11, <2>1 DEF CancelRun
<1>12. ASSUME NEW cutoff \in 0..now, ExpireStuckJobs(cutoff) PROVE StillHeld(j)
  <2>1. [job[j] EXCEPT !.state = "failed", !.updated = now].state = "failed"
    BY <1>1 DEF JobRecord
  <2>. QED
    BY <1>2, <1>12, <2>1 DEF ExpireStuckJobs
<1>13. ASSUME NEW s \in 0..now, NEW f \in 0..now, PruneSettledJobs(s, f) PROVE StillHeld(j)
  BY <1>2, <1>13, JobFields, <1>1 DEF PruneSettledJobs
<1>14. CASE Tick
  BY <1>2, <1>14 DEF Tick
<1>. QED
  BY <1>3, <1>4, <1>5, <1>6, <1>7, <1>8, <1>9, <1>10, <1>11, <1>12, <1>13, <1>14 DEF Next

\* AlwaysWhereRouted: a worker only ever holds a job whose tag and labels it serves,
\* although RequeueQueuedJobsForApp may retag the queue at any moment.
THEOREM AlwaysWhereRouted == Spec => []RunningWhereRouted
<1>1. Init => RunningWhereRouted
  BY DEF Init, RunningWhereRouted, AbsentJob
<1>2. QueueInv /\ RunningWhereRouted /\ [Next]_vars => RunningWhereRouted'
  <2> SUFFICES ASSUME QueueInv, RunningWhereRouted, [Next]_vars,
                      NEW j \in JobId, job'[j].state = "running"
               PROVE  ClaimAllowed(job[j].owner, j)'
    BY DEF RunningWhereRouted
  <2>1. CASE StillHeld(j)
    BY <2>1 DEF StillHeld, SameRoute, RunningWhereRouted, ClaimAllowed
  <2>2. ASSUME NEW w \in WorkerId, Taken(w, j) PROVE ClaimAllowed(job[j].owner, j)'
    BY <2>2 DEF Taken, SameRoute, ClaimJobForWorker, Claimable, ClaimAllowed
  <2>. QED
    BY <2>1, <2>2, RunningBefore
<1>. QED
  BY <1>1, <1>2, QueueInvCorrect, PTL DEF Spec

RunningOf(a) == {j \in JobId : job[j].state = "running" /\ job[j].run \in RunsOf(a)}

LEMMA OneMore ==
  ASSUME NEW S, NEW x, IsFiniteSet(S)
  PROVE  /\ IsFiniteSet(S \union {x})
         /\ Cardinality(S \union {x}) <= Cardinality(S) + 1
<1>1. Cardinality(S) \in Nat
  BY FS_CardinalityType
<1>2. /\ IsFiniteSet(S \union {x})
      /\ Cardinality(S \union {x}) = IF x \in S THEN Cardinality(S) ELSE Cardinality(S) + 1
  BY FS_AddElement, Zenon
<1>. QED
  BY <1>1, <1>2

\* A claim adds at most the job it hands out to those that hold their lease.
LEMMA ClaimCounts ==
  ASSUME QueueInv, IsFiniteSet(JobId), [Next]_vars, NEW a \in App,
         NEW w \in WorkerId, NEW j \in JobId, ClaimJobForWorker(w, j),
         job[j].run \in RunsOf(a)
  PROVE  Limit[job[j].run] = 0 \/ Cardinality(RunningOf(a)') <= Limit[job[j].run]
<1> DEFINE counted == {i \in JobId : RunningNow(i) /\ SameApp(job[i].run, job[j].run)}
<1>1. job[j].run \in RunId /\ AppOf[job[j].run] = a /\ Limit[job[j].run] \in Nat
  BY ConstantAssumption DEF RunsOf
<1>2. RunningOf(a)' \subseteq counted \union {j}
  <2> SUFFICES ASSUME NEW i \in JobId, i # j, job'[i].state = "running", job'[i].run \in RunsOf(a)
               PROVE  i \in counted
    BY DEF RunningOf, RunsOf
  <2>1. ~Lapsed(i) /\ job'[i] = job[i]
    BY ClaimOthers DEF Lost
  <2>. QED
    BY <1>1, <2>1 DEF RunningNow, SameApp, RunsOf
<1>3. IsFiniteSet(counted) /\ Cardinality(counted) \in Nat
  <2>1. counted \in SUBSET JobId
    OBVIOUS
  <2>. HIDE DEF counted
  <2>. QED
    BY <2>1, FS_Subset, FS_CardinalityType
<1>4. /\ IsFiniteSet(counted \union {j})
      /\ Cardinality(counted \union {j}) <= Cardinality(counted) + 1
  <2>. HIDE DEF counted
  <2>. QED
    BY <1>3, OneMore
<1>5. Cardinality(RunningOf(a)') \in Nat /\ Cardinality(RunningOf(a)') <= Cardinality(counted) + 1
  <2>. HIDE DEF counted
  <2> DEFINE later == RunningOf(a)'
  <2>1. later \in SUBSET (counted \union {j})
    BY <1>2
  <2>. HIDE DEF later
  <2>2. /\ Cardinality(later) \in Nat /\ Cardinality(later) <= Cardinality(counted \union {j})
        /\ Cardinality(counted \union {j}) \in Nat
    BY <1>4, <2>1, FS_Subset, FS_CardinalityType
  <2>3. Cardinality(later) \in Nat /\ Cardinality(later) <= Cardinality(counted) + 1
    BY <1>3, <1>4, <2>2
  <2>. QED
    BY <2>3 DEF later
<1>6. Limit[job[j].run] = 0 \/ Cardinality(counted) < Limit[job[j].run]
  <2>1. ~(Limit[job[j].run] > 0 /\ Cardinality(counted) >= Limit[job[j].run])
    BY Zenon DEF ClaimJobForWorker, Claimable, MaxConcurrentReached
  <2>. HIDE DEF counted
  <2>. QED
    BY <1>1, <1>3, <2>1
<1>. HIDE DEF counted
<1>. QED
  BY <1>1, <1>3, <1>5, <1>6

\* ConcurrencyAlwaysRespected: an app never has more jobs running than the largest
\* max-concurrent its runs pin, however claims, lapses and requeues interleave.
THEOREM ConcurrencyAlwaysRespected ==
  ASSUME IsFiniteSet(JobId)
  PROVE  Spec => []ConcurrencyRespected
<1>1. Init => ConcurrencyRespected
  BY DEF Init, ConcurrencyRespected, AbsentJob
<1>2. QueueInv /\ ConcurrencyRespected /\ [Next]_vars => ConcurrencyRespected'
  <2> SUFFICES ASSUME QueueInv, ConcurrencyRespected, [Next]_vars,
                      NEW a \in App, RunningOf(a)' # {}
               PROVE  \E r \in RunsOf(a) : Limit[r] = 0 \/ Cardinality(RunningOf(a)') <= Limit[r]
    BY DEF ConcurrencyRespected, RunningOf, RunsOf
  <2>1. ASSUME NEW w \in WorkerId, NEW j \in JobId, ClaimJobForWorker(w, j),
               job[j].run \in RunsOf(a)
        PROVE  \E r \in RunsOf(a) : Limit[r] = 0 \/ Cardinality(RunningOf(a)') <= Limit[r]
    BY <2>1, ClaimCounts
  <2>2. CASE ~ \E w \in WorkerId, j \in JobId :
                 ClaimJobForWorker(w, j) /\ job[j].run \in RunsOf(a)
    <3> DEFINE before == RunningOf(a)
               later  == RunningOf(a)'
    <3>1. later \in SUBSET before /\ before \in SUBSET JobId
      BY <2>2, RunningBefore DEF RunningOf, RunsOf, StillHeld, Taken, SameRoute
    <3>2. PICK r \in RunsOf(a) : Limit[r] = 0 \/ Cardinality(before) <= Limit[r]
      BY <3>1 DEF ConcurrencyRespected, RunningOf
    <3>3. Limit[r] \in Nat
      BY ConstantAssumption DEF RunsOf
    <3>. HIDE DEF before, later
    <3>4. IsFiniteSet(before) /\ Cardinality(before) \in Nat
      BY <3>1, FS_Subset, FS_CardinalityType
    <3>5. Cardinality(later) <= Cardinality(before) /\ Cardinality(later) \in Nat
      BY <3>1, <3>4, FS_Subset, FS_CardinalityType
    <3>6. Limit[r] = 0 \/ Cardinality(later) <= Limit[r]
      BY <3>2, <3>3, <3>4, <3>5
    <3>. QED
      BY <3>6 DEF later
  <2>. QED
    BY <2>1, <2>2
<1>. QED
  BY <1>1, <1>2, QueueInvCorrect, PTL DEF Spec

----------------------------------------------------------------------------
(* What a step may never do, and the life cycle of RunLifecycle.            *)

\* What can become of a job a worker holds, and of its run, in one step.
Kept(j)      == /\ job'[j].state = "running" /\ job'[j].attempt = job[j].attempt
                /\ run'[job[j].run].state = "RUNNING"
Reclaimed(j) == /\ ~job[j].canceled /\ job'[j].state \in {"queued", "running"}
                /\ run'[job[j].run].state = "RUNNING"
Reported(j)  == /\ ~job[j].canceled /\ job'[j].state \in Settled
                /\ run'[job[j].run].state \in {"SUCCEEDED", "FAILED", "WAITING_HUMAN"}
GivenUp(j)   == /\ job'[j].state = "failed" /\ job'[j].attempt = job[j].attempt
                /\ run'[job[j].run].state = "CANCELED"
Expired(j)   == /\ job'[j].state = "failed" /\ job'[j].attempt = job[j].attempt
                /\ run'[job[j].run].state = "EXPIRED"
                /\ \E s \in 0..now : s + StuckAfter <= now /\ job[j].updated < s

LEMMA RunningJobFate ==
  ASSUME QueueInv, [Next]_vars, NEW j \in JobId, job[j].state = "running"
  PROVE  Kept(j) \/ Reclaimed(j) \/ Reported(j) \/ GivenUp(j) \/ Expired(j)
<1> DEFINE r == job[j].run
           Fate == Kept(j) \/ Reclaimed(j) \/ Reported(j) \/ GivenUp(j) \/ Expired(j)
<1>1. /\ TypeOK /\ r \in RunId /\ run[r].state = "RUNNING" /\ Active(j)
      /\ \A k \in JobId : Active(k) /\ job[k].run = r => k = j
      /\ \A i \in JobId : job[i] \in JobRecord
      /\ \A s \in RunId : run[s] \in RunRecord
  BY Basics DEF Active, QueueInv, RunningJobRunningRun, TypeOK
<1>2. ASSUME job'[j] = job[j], run'[r] = run[r] PROVE Fate
  BY <1>1, <1>2 DEF Kept
<1>3. CASE UNCHANGED vars
  BY <1>2, <1>3 DEF vars
<1>4. ASSUME NEW s \in RunId, NEW i \in JobId, CreateRunAndEnqueue(s, i) PROVE Fate
  <2>1. job'[j] = job[j] /\ run'[r] = run[r]
    BY <1>1, <1>4 DEF CreateRunAndEnqueue, FreshJob, TypeOK
  <2>. QED
    BY <1>2, <2>1
<1>5. ASSUME NEW a \in App, NEW actionTags \in [Action -> Tag \union {NoTag}],
             RequeueQueuedJobsForApp(a, actionTags)
      PROVE  Fate
  <2>1. job'[j] = job[j] /\ run'[r] = run[r]
    BY <1>1, <1>5 DEF RequeueQueuedJobsForApp
  <2>. QED
    BY SMTT(30), <1>2, <2>1
<1>6. ASSUME NEW w \in WorkerId, NEW i \in JobId, ClaimJobForWorker(w, i) PROVE Fate
  <2>1. CASE i = j
    <3>1. ~job[j].canceled /\ job'[j].state = "running"
      BY <1>6, <2>1, ClaimedJob
    <3>2. r \notin LostRuns
      BY <1>1, <3>1 DEF LostRuns, Lost, Lapsed, Active
    <3>3. run'[r].state = "RUNNING"
      BY <1>1, <1>6, <2>1, <3>2, ClaimedRuns
    <3>. QED
      BY <3>1, <3>3 DEF Reclaimed
  <2>2. CASE i # j /\ Lost(j)
    <3>1. r \in LostRuns
      BY <2>2 DEF LostRuns
    <3>2. job'[j].state = "failed" /\ job'[j].attempt = job[j].attempt
      BY <1>6, <2>2, ClaimOthers
    <3>. QED
      BY <1>1, <1>6, <3>1, <3>2, ClaimedRuns DEF GivenUp
  <2>3. CASE i # j /\ ~Lost(j)
    <3>1. r \notin LostRuns
      BY <1>1, <2>3 DEF LostRuns, Lost, Lapsed, Active
    <3>2. Active(i) /\ job[i].run # r
      BY <1>1, <1>6, <2>3, ClaimedJob
    <3>3. run'[r] = run[r]
      BY <1>1, <1>6, <3>1, <3>2, ClaimedRuns
    <3>4. Lapsed(j) => ~job[j].canceled /\ job'[j].state = "queued"
      BY <1>6, <2>3, ClaimOthers DEF Lost
    <3>5. ~Lapsed(j) => job'[j] = job[j]
      BY <1>6, <2>3, ClaimOthers
    <3>. QED
      BY <1>1, <3>3, <3>4, <3>5 DEF Kept, Reclaimed
  <2>. QED
    BY <2>1, <2>2, <2>3
<1>7. ASSUME NEW l \in issued, HeartbeatJob(l) PROVE Fate
  <2>1. job'[j].state = "running" /\ job'[j].attempt = job[j].attempt
    <3>1. CASE j = l.job
      <4>1. job'[j] = [job[j] EXCEPT !.expires = now + LeaseTTL, !.updated = now]
        BY <1>1, <1>7, <3>1 DEF HeartbeatJob, TypeOK
      <4>. QED
        BY <1>1, <4>1 DEF JobRecord
    <3>2. CASE j # l.job
      BY <1>1, <1>7, <3>2 DEF HeartbeatJob, TypeOK
    <3>. QED
      BY <3>1, <3>2
  <2>. QED
    BY <1>1, <1>7, <2>1 DEF HeartbeatJob, Kept
<1>8. ASSUME NEW l \in issued, Complete(l) PROVE Fate
  <2>1. l.job \in JobId /\ job[l.job].state = "running"
    BY <1>8, Basics DEF Complete, CompleteCanceled, CompleteJobSucceeded, CompleteJobFailed,
                        CompleteJobWaitingHuman, UncanceledLease, ValidLease
  <2>2. CASE l.job # j
    <3>1. Active(l.job) /\ job[l.job].run # r
      BY <1>1, <2>1, <2>2 DEF Active
    <3>2. job'[j] = job[j] /\ run'[r] = run[r]
      BY <1>1, <1>8, <2>2, <3>1 DEF Complete, CompleteCanceled, CompleteJobSucceeded,
                                    CompleteJobFailed, CompleteJobWaitingHuman, TypeOK
    <3>. QED
      BY <1>2, <3>2
  <2>3. CASE l.job = j /\ CompleteCanceled(l)
    <3>1. job'[j] = CanceledJob(j) /\ run'[r] = CanceledRun(r)
      BY <1>1, <2>3 DEF CompleteCanceled, TypeOK
    <3>2. job'[j].state = "failed" /\ job'[j].attempt = job[j].attempt
      BY <1>1, <3>1, JobFields
    <3>3. run'[r].state = "CANCELED"
      BY <1>1, <3>1, RunFields
    <3>. QED
      BY <3>2, <3>3 DEF GivenUp
  <2>4. CASE l.job = j /\ ~CompleteCanceled(l)
    <3>1. ~job[j].canceled
      BY <1>8, <2>4 DEF Complete, CompleteJobSucceeded, CompleteJobFailed,
                        CompleteJobWaitingHuman, UncanceledLease
    <3>2. \E s \in Settled :
            job'[j] = [job[j] EXCEPT !.state = s, !.expires = NoExpiry, !.updated = now]
      BY <1>1, <1>8, <2>4 DEF Complete, CompleteJobSucceeded, CompleteJobFailed,
                              CompleteJobWaitingHuman, TypeOK, Settled
    <3>3. job'[j].state \in Settled
      BY <1>1, <3>2 DEF JobRecord
    <3>4. CASE CompleteJobSucceeded(l)
      <4>1. run'[r].state = "SUCCEEDED"
        BY <1>1, <2>4, <3>4 DEF CompleteJobSucceeded, TypeOK, RunRecord
      <4>. QED
        BY <3>1, <3>3, <4>1 DEF Reported
    <3>5. CASE CompleteJobFailed(l)
      <4>1. run'[r].state = "FAILED"
        BY <1>1, <2>4, <3>5 DEF CompleteJobFailed, TypeOK, RunRecord
      <4>. QED
        BY <3>1, <3>3, <4>1 DEF Reported
    <3>6. ASSUME NEW t \in TaskId, CompleteJobWaitingHuman(l, t) PROVE Fate
      <4>1. run'[r].state = "WAITING_HUMAN"
        BY <1>1, <2>4, <3>6 DEF CompleteJobWaitingHuman, TypeOK, RunRecord
      <4>. QED
        BY <3>1, <3>3, <4>1 DEF Reported
    <3>. QED
      BY <1>8, <2>4, <3>4, <3>5, <3>6 DEF Complete
  <2>. QED
    BY <2>2, <2>3, <2>4, SMTT(30)
<1>9. ASSUME NEW t \in TaskId, NEW i \in JobId, ResumeHumanTask(t, i) PROVE Fate
  <2>1. job'[j] = job[j] /\ run'[r] = run[r]
    BY <1>1, <1>9 DEF ResumeHumanTask, FreshJob, TypeOK
  <2>. QED
    BY <1>2, <2>1
<1>10. ASSUME NEW i \in JobId, CancelJob(i) PROVE Fate
  <2>1. CASE i = j
    <3>1. job'[j] = [job[j] EXCEPT !.canceled = TRUE, !.updated = now] /\ run' = run
      BY <1>1, <1>10, <2>1 DEF CancelJob, TypeOK
    <3>2. job'[j].state = "running" /\ job'[j].attempt = job[j].attempt
      BY <1>1, <3>1 DEF JobRecord
    <3>. QED
      BY <1>1, <3>1, <3>2 DEF Kept
  <2>2. CASE i # j
    <3>1. Active(i) /\ job[i].run # r
      BY <1>1, <1>10, <2>2 DEF CancelJob
    <3>2. job'[j] = job[j] /\ run'[r] = run[r]
      BY <1>1, <1>10, <2>2, <3>1 DEF CancelJob, TypeOK
    <3>. QED
      BY <1>2, <3>2
  <2>. QED
    BY <2>1, <2>2
<1>11. ASSUME NEW s \in RunId, CancelRun(s) PROVE Fate
  <2>1. CASE s = r
    <3>1. run'[r] = CanceledRun(r)
      BY <1>1, <1>11, <2>1 DEF CancelRun, TypeOK
    <3>2. job'[j] = [job[j] EXCEPT !.state = "failed", !.owner = NoWorker,
                                   !.expires = NoExpiry, !.updated = now]
      BY <1>1, <1>11, <2>1 DEF CancelRun
    <3>3. job'[j].state = "failed" /\ job'[j].attempt = job[j].attempt
      BY <1>1, <3>2 DEF JobRecord
    <3>. QED
      BY <1>1, <3>1, <3>3, RunFields DEF GivenUp
  <2>2. CASE s # r
    <3>1. job'[j] = job[j] /\ run'[r] = run[r]
      BY <1>1, <1>11, <2>2 DEF CancelRun, TypeOK
    <3>. QED
      BY <1>2, <3>1
  <2>. QED
    BY <2>1, <2>2
<1>12. ASSUME NEW s \in RunId, NEW i \in JobId, RetryRun(s, i) PROVE Fate
  <2>1. job'[j] = job[j] /\ run'[r] = run[r]
    BY <1>1, <1>12 DEF RetryRun, FreshJob, TypeOK
  <2>. QED
    BY <1>2, <2>1
<1>13. ASSUME NEW s \in 0..now, ExpireStuckJobs(s) PROVE Fate
  <2>1. CASE Stuck(r, s)
    <3>1. job'[j] = [job[j] EXCEPT !.state = "failed", !.updated = now]
      BY <1>1, <1>13, <2>1 DEF ExpireStuckJobs, StoredRun
    <3>2. run'[r] = [run[r] EXCEPT !.state = "EXPIRED", !.updated = now]
      BY ZenonT(60), <1>1, <1>13, <2>1 DEF ExpireStuckJobs
    <3>3. s + StuckAfter <= now /\ job[j].updated < s
      BY <1>13, <2>1 DEF ExpireStuckJobs, Stuck, JobsOf
    <3>4. job'[j].state = "failed" /\ job'[j].attempt = job[j].attempt
      BY <1>1, <3>1 DEF JobRecord
    <3>5. run'[r].state = "EXPIRED"
      BY <1>1, <3>2 DEF RunRecord
    <3>. QED
      BY <3>3, <3>4, <3>5 DEF Expired
  <2>2. CASE ~Stuck(r, s)
    <3>1. job'[j] = job[j] /\ run'[r] = run[r]
      BY <1>1, <1>13, <2>2 DEF ExpireStuckJobs
    <3>. QED
      BY <1>2, <3>1
  <2>. QED
    BY <2>1, <2>2
<1>14. ASSUME NEW s \in 0..now, NEW f \in 0..now, PruneSettledJobs(s, f) PROVE Fate
  <2>1. ~Prunable(r, s, f)
    BY <1>1 DEF Prunable, Terminal
  <2>2. job'[j] = job[j] /\ run'[r] = run[r]
    BY <1>1, <1>14, <2>1 DEF PruneSettledJobs
  <2>. QED
    BY <1>2, <2>2
<1>15. CASE Tick
  BY <1>2, <1>15 DEF Tick
<1>. QED
  BY <1>3, <1>4, <1>5, <1>6, <1>7, <1>8, <1>9, <1>10, <1>11, <1>12, <1>13, <1>14, <1>15 DEF Next

\* A settled job is pruned with its run or does not change.
LEMMA SettledJobFate ==
  ASSUME QueueInv, [Next]_vars, NEW j \in JobId, job[j].state \in Settled
  PROVE  job'[j] = job[j] \/ (job'[j] = AbsentJob /\ run'[job[j].run].state = "ABSENT")
<1> DEFINE Fate == job'[j] = job[j] \/ (job'[j] = AbsentJob /\ run'[job[j].run].state = "ABSENT")
<1>1. TypeOK /\ ~Active(j) /\ job[j].state # "absent"
  BY Basics DEF Settled, Active
<1>2. CASE UNCHANGED vars
  BY <1>2 DEF vars
<1>3. ASSUME NEW r \in RunId, NEW i \in JobId, CreateRunAndEnqueue(r, i) \/ RetryRun(r, i)
      PROVE  Fate
  BY SMTT(30), <1>1, <1>3 DEF CreateRunAndEnqueue, RetryRun, FreshJob, TypeOK
<1>4. ASSUME NEW a \in App, NEW actionTags \in [Action -> Tag \union {NoTag}],
             RequeueQueuedJobsForApp(a, actionTags)
      PROVE  Fate
  BY <1>1, <1>4 DEF RequeueQueuedJobsForApp, Active
<1>5. ASSUME NEW w \in WorkerId, NEW i \in JobId, ClaimJobForWorker(w, i) PROVE Fate
  <2>1. i # j /\ ~Lapsed(j)
    BY <1>1, <1>5, ClaimedJob DEF Lapsed, Active
  <2>. QED
    BY <1>5, <2>1, ClaimOthers
<1>6. ASSUME NEW l \in issued, HeartbeatJob(l) \/ Complete(l) PROVE Fate
  <2>1. l.job \in JobId /\ l.job # j
    BY <1>1, <1>6, Basics DEF HeartbeatJob, Complete, CompleteCanceled, CompleteJobSucceeded,
         CompleteJobFailed, CompleteJobWaitingHuman, UncanceledLease, ValidLease, Active
  <2>. QED
    BY ZenonT(60), <1>1, <1>6, <2>1 DEF HeartbeatJob, Complete, CompleteCanceled, CompleteJobSucceeded,
         CompleteJobFailed, CompleteJobWaitingHuman, TypeOK
<1>7. ASSUME NEW t \in TaskId, NEW i \in JobId, ResumeHumanTask(t, i) PROVE Fate
  BY <1>1, <1>7 DEF ResumeHumanTask, FreshJob, TypeOK
<1>8. ASSUME NEW i \in JobId, CancelJob(i) PROVE Fate
  BY <1>1, <1>8 DEF CancelJob, TypeOK
<1>9. ASSUME NEW r \in RunId, CancelRun(r) PROVE Fate
  BY <1>1, <1>9 DEF CancelRun
<1>10. ASSUME NEW s \in 0..now, ExpireStuckJobs(s) PROVE Fate
  BY <1>1, <1>10 DEF ExpireStuckJobs
<1>11. ASSUME NEW s \in 0..now, NEW f \in 0..now, PruneSettledJobs(s, f) PROVE Fate
  <2>1. CASE job[j].run \in RunId /\ Prunable(job[j].run, s, f)
    <3>1. job'[j] = AbsentJob /\ run'[job[j].run] = AbsentRun
      BY <1>11, <2>1 DEF PruneSettledJobs
    <3>. QED
      BY <3>1 DEF AbsentRun
  <2>2. CASE ~(job[j].run \in RunId /\ Prunable(job[j].run, s, f))
    BY <1>11, <2>2 DEF PruneSettledJobs
  <2>. QED
    BY <2>1, <2>2
<1>12. CASE Tick
  BY <1>12 DEF Tick
<1>. QED
  BY <1>2, <1>3, <1>4, <1>5, <1>6, <1>7, <1>8, <1>9, <1>10, <1>11, <1>12 DEF Next

-----------------------------------------------------------------------------

\* SupersededNeverReports: once a newer attempt of a job was handed out, neither a
\* completion nor a heartbeat of an older lease is accepted.
THEOREM SupersededNeverReports == Spec => SupersededLeaseNeverReports
<1>1. QueueInv => \A l \in issued : Superseded(l) => ~Complete(l) /\ ~HeartbeatJob(l)
  <2> SUFFICES ASSUME QueueInv, NEW l \in issued, Superseded(l)
               PROVE  ~Complete(l) /\ ~HeartbeatJob(l)
    OBVIOUS
  <2>1. PICK k \in issued : k.job = l.job /\ k.attempt > l.attempt
    BY DEF Superseded
  <2>2. job[l.job].state = "running" => job[l.job].attempt # l.attempt
    BY <2>1, Basics DEF QueueInv, LeaseIsExclusive
  <2>. QED
    BY <2>2 DEF HeartbeatJob, Complete, CompleteCanceled, CompleteJobSucceeded,
         CompleteJobFailed, CompleteJobWaitingHuman, UncanceledLease, ValidLease
<1>. QED
  BY <1>1, QueueInvCorrect, PTL DEF SupersededLeaseNeverReports

\* CancelAlwaysPrevails: once a running job is asked to cancel, its run ends
\* CANCELED, or EXPIRED by retention, and the job is not run again.
THEOREM CancelAlwaysPrevails == Spec => CancelPrevails
<1>1. QueueInv /\ [Next]_vars =>
        \A j \in JobId : job[j].state = "running" /\ job[j].canceled =>
          /\ run'[job[j].run].state \in {"RUNNING", "CANCELED", "EXPIRED"}
          /\ job'[j].attempt = job[j].attempt
          /\ job'[j].state \in {"running", "failed"}
  BY RunningJobFate DEF Kept, Reclaimed, Reported, GivenUp, Expired
<1>. QED
  BY <1>1, QueueInvCorrect, PTL DEF CancelPrevails, Spec

\* LiveLeaseNeverStuck: with a stuck cutoff no shorter than a lease, the retention
\* loop never expires a run whose job is held under a lease that has not run out.
THEOREM LiveLeaseNeverStuck ==
  ASSUME LeaseTTL <= StuckAfter
  PROVE  Spec => LiveLeaseNotStuck
<1>1. QueueInv /\ [Next]_vars =>
        \A j \in JobId : job[j].state = "running" /\ now < job[j].expires =>
          run'[job[j].run].state # "EXPIRED"
  <2> SUFFICES ASSUME QueueInv, [Next]_vars, NEW j \in JobId,
                      job[j].state = "running", now < job[j].expires
               PROVE  run'[job[j].run].state # "EXPIRED"
    OBVIOUS
  <2>1. ~Expired(j)
    BY Basics, ConstantAssumption DEF Expired, QueueInv, LeaseIsRecent
  <2>. QED
    BY <2>1, RunningJobFate DEF Kept, Reclaimed, Reported, GivenUp
<1>. QED
  BY <1>1, QueueInvCorrect, PTL DEF LiveLeaseNotStuck, Spec

\* SettledJobNeverChanges: a job that succeeded or failed keeps its record until it
\* is pruned with its run.
THEOREM SettledJobNeverChanges == Spec => SettledJobStays
<1>1. QueueInv /\ [Next]_vars =>
        \A j \in JobId : job[j].state \in Settled =>
          job'[j] = job[j] \/ (job'[j] = AbsentJob /\ run'[job[j].run].state = "ABSENT")
  BY SettledJobFate
<1>. QED
  BY <1>1, QueueInvCorrect, PTL DEF SettledJobStays, Spec

-----------------------------------------------------------------------------
(* Refinement.                                                             *)

Held(r) == {CurrentLease(j) : j \in {i \in JobsOf(r) : job[i].state = "running"}}

\* The tokens of a run are the lease of its one running job, if it has one.
LEMMA HeldTokens ==
  ASSUME QueueInv, NEW r \in RunId
  PROVE  /\ \A j \in JobId : job[j].state = "running" /\ job[j].run = r => Held(r) # {}
         /\ (\A j \in JobId : ~(job[j].state = "running" /\ job[j].run = r)) => Held(r) = {}
BY DEF Held, JobsOf

LEMMA SameTokens ==
  ASSUME NEW r,
         \A j \in JobId : (job'[j].state = "running" /\ job'[j].run = r)
                          <=> (job[j].state = "running" /\ job[j].run = r),
         \A j \in JobId : job[j].state = "running" /\ job[j].run = r =>
                            job'[j].owner = job[j].owner /\ job'[j].attempt = job[j].attempt
  PROVE  Held(r)' = Held(r)
BY DEF Held, JobsOf, CurrentLease

LEMMA NoTokens ==
  ASSUME NEW r, \A j \in JobId : ~(job'[j].state = "running" /\ job'[j].run = r)
  PROVE  Held(r)' = {}
BY DEF Held, JobsOf

\* What a step does to one run, in the terms of the life cycle.
Moved(r, from, to) == run[r].state \in from /\ run'[r].state = to /\ Held(r)' = {}
StaysPut(r) == run'[r].state = run[r].state /\ Held(r)' = Held(r)
Walks(r) ==
  \/ StaysPut(r)
  \/ Moved(r, {"ABSENT"}, "QUEUED")
  \/ Held(r) # {} /\ Moved(r, {"RUNNING"}, "RUNNING")
  \/ Held(r) # {} /\ \E o \in {"SUCCEEDED", "FAILED", "WAITING_HUMAN"} : Moved(r, {"RUNNING"}, o)
  \/ Moved(r, {"WAITING_HUMAN"}, "RESUMING")
  \/ Moved(r, Working \union {"WAITING_HUMAN"}, "CANCELED")
  \/ Moved(r, Working, "EXPIRED")
  \/ Moved(r, {"FAILED", "CANCELED", "EXPIRED"}, "QUEUED")
  \/ Moved(r, Terminal, "ABSENT")

LEMMA WalkIsStep ==
  ASSUME NEW r \in RunId, Walks(r)
  PROVE  Lifecycle!Step(r)
BY DEF Walks, StaysPut, Moved, Held, phaseOf, heldOf, Terminal, Working,
   Lifecycle!Step, Lifecycle!Same, Lifecycle!Admit, Lifecycle!Revoke, Lifecycle!Report,
   Lifecycle!Resume, Lifecycle!Cancel, Lifecycle!Expire, Lifecycle!Retry, Lifecycle!Forget,
   Lifecycle!Moves, Lifecycle!Outcome, Lifecycle!Pending, Lifecycle!Retryable

\* Jobs change only outside the running ones.
LEMMA EnqueueTokens ==
  ASSUME QueueInv, NEW r \in RunId, NEW j \in JobId, FreshJob(j),
         job' = [job EXCEPT ![j] = NewActionJob(r)], run[r].state # "RUNNING"
  PROVE  /\ Held(r)' = {}
         /\ \A s \in RunId : Held(s)' = Held(s)
<1>1. TypeOK /\ job[j].state = "absent"
  BY Basics DEF FreshJob
<1>2. job'[j] = NewActionJob(r) /\ \A i \in JobId \ {j} : job'[i] = job[i]
  BY <1>1 DEF TypeOK
<1>3. job'[j].state = "queued"
  BY <1>1, <1>2, JobFields
<1>4. \A i \in JobId : ~(job'[i].state = "running" /\ job'[i].run = r)
  BY <1>1, <1>2, <1>3 DEF QueueInv, RunningJobRunningRun
<1>5. Held(r)' = {}
  BY <1>4, NoTokens
<1>6. ASSUME NEW s \in RunId PROVE Held(s)' = Held(s)
  BY <1>1, <1>2, <1>3, SameTokens
<1>. QED
  BY <1>5, <1>6

\* Job j, one of its run's, stops being active; no other job changes.
LEMMA SettleTokens ==
  ASSUME QueueInv, NEW j \in JobId, Active(j), NEW r \in RunId, job[j].run = r,
         \A i \in JobId \ {j} : job'[i] = job[i], job'[j].state \in Settled
  PROVE  /\ Held(r)' = {}
         /\ \A s \in RunId \ {r} : Held(s)' = Held(s)
<1>1. \A k \in JobId : Active(k) /\ job[k].run = r => k = j
  BY Basics
<1>2. \A i \in JobId : ~(job'[i].state = "running" /\ job'[i].run = r)
  BY <1>1 DEF Active, Settled
<1>3. Held(r)' = {}
  BY <1>2, NoTokens
<1>4. ASSUME NEW s \in RunId \ {r} PROVE Held(s)' = Held(s)
  <2>1. \A i \in JobId : (job'[i].state = "running" /\ job'[i].run = s)
                         <=> (job[i].state = "running" /\ job[i].run = s)
    BY <1>4 DEF Settled
  <2>2. \A i \in JobId : job[i].state = "running" /\ job[i].run = s =>
                           job'[i].owner = job[i].owner /\ job'[i].attempt = job[i].attempt
    BY <1>4
  <2>. QED
    BY <2>1, <2>2, SameTokens
<1>. QED
  BY <1>3, <1>4

\* The active jobs of the runs in S fail; no other job changes.
LEMMA GiveUpTokens ==
  ASSUME QueueInv, NEW S \in SUBSET RunId,
         \A i \in JobId : IF Active(i) /\ job[i].run \in S
                          THEN job'[i].state = "failed" /\ job'[i].run = job[i].run
                          ELSE job'[i] = job[i]
  PROVE  \A r \in RunId : IF r \in S THEN Held(r)' = {} ELSE Held(r)' = Held(r)
<1>1. ASSUME NEW r \in RunId, r \in S PROVE Held(r)' = {}
  <2>1. \A i \in JobId : ~(job'[i].state = "running" /\ job'[i].run = r)
    BY <1>1 DEF Active
  <2>. QED
    BY <2>1, NoTokens
<1>2. ASSUME NEW r \in RunId, r \notin S PROVE Held(r)' = Held(r)
  <2>1. \A i \in JobId : (job'[i].state = "running" /\ job'[i].run = r)
                         <=> (job[i].state = "running" /\ job[i].run = r)
    BY <1>2
  <2>2. \A i \in JobId : job[i].state = "running" /\ job[i].run = r => job'[i] = job[i]
    BY <1>2
  <2>. QED
    BY <2>1, <2>2, SameTokens
<1>. QED
  BY <1>1, <1>2

-----------------------------------------------------------------------------

LEMMA CreateRunWalk ==
  ASSUME QueueInv, NEW r \in RunId, NEW j \in JobId, CreateRunAndEnqueue(r, j), NEW s \in RunId
  PROVE  Walks(s)
<1>1. /\ TypeOK /\ FreshJob(j) /\ run[r].state = "ABSENT"
      /\ job' = [job EXCEPT ![j] = NewActionJob(r)]
  BY Basics DEF CreateRunAndEnqueue
<1>2. /\ s # r => run'[s] = run[s]
      /\ run'[r].state = "QUEUED"
  BY <1>1 DEF CreateRunAndEnqueue, TypeOK, AbsentRun
<1>3. Held(r)' = {} /\ Held(s)' = Held(s)
  BY <1>1, EnqueueTokens
<1>. QED
  BY <1>1, <1>2, <1>3 DEF Walks, Moved, StaysPut

LEMMA RetryRunWalk ==
  ASSUME QueueInv, NEW r \in RunId, NEW j \in JobId, RetryRun(r, j), NEW s \in RunId
  PROVE  Walks(s)
<1>1. /\ TypeOK /\ FreshJob(j) /\ run[r].state \in {"FAILED", "CANCELED", "EXPIRED"}
      /\ job' = [job EXCEPT ![j] = NewActionJob(r)]
  BY Basics DEF RetryRun
<1>2. run'[r] = RetriedRun(r) /\ (s # r => run'[s] = run[s])
  BY <1>1 DEF RetryRun, TypeOK
<1>3. run'[r].state = "QUEUED"
  BY <1>1, <1>2, RunFields
<1>4. Held(r)' = {} /\ Held(s)' = Held(s)
  BY <1>1, EnqueueTokens
<1>. QED
  BY <1>1, <1>2, <1>3, <1>4 DEF Walks, Moved, StaysPut

LEMMA ResumeWalk ==
  ASSUME QueueInv, NEW t \in TaskId, NEW j \in JobId, ResumeHumanTask(t, j), NEW s \in RunId
  PROVE  Walks(s)
<1> PICK r \in RunId : r = task[t].run
  BY DEF ResumeHumanTask, StoredRun
<1>1. /\ TypeOK /\ FreshJob(j) /\ run[r].state = "WAITING_HUMAN"
      /\ run[r] \in RunRecord
      /\ job' = [job EXCEPT ![j] = NewActionJob(r)]
  BY Basics DEF ResumeHumanTask, StoredRun, TypeOK
<1>2. /\ s # r => run'[s] = run[s]
      /\ run'[r].state = "RESUMING"
  BY <1>1 DEF ResumeHumanTask, TypeOK, RunRecord
<1>3. Held(r)' = {} /\ Held(s)' = Held(s)
  BY <1>1, EnqueueTokens
<1>. QED
  BY <1>1, <1>2, <1>3 DEF Walks, Moved, StaysPut

LEMMA RequeueAppWalk ==
  ASSUME QueueInv, NEW a \in App, NEW actionTags \in [Action -> Tag \union {NoTag}],
         RequeueQueuedJobsForApp(a, actionTags), NEW s \in RunId
  PROVE  StaysPut(s)
<1>1. \A i \in JobId : job[i] \in JobRecord
  BY SMTT(30), Basics DEF TypeOK
<1>2. \A i \in JobId : /\ job'[i].state = job[i].state
                       /\ job'[i].run = job[i].run
                       /\ job'[i].owner = job[i].owner
                       /\ job'[i].attempt = job[i].attempt
  BY <1>1 DEF RequeueQueuedJobsForApp, JobRecord
<1>. QED
  BY <1>2, SameTokens DEF RequeueQueuedJobsForApp, StaysPut

LEMMA HeartbeatWalk ==
  ASSUME QueueInv, NEW l \in issued, HeartbeatJob(l), NEW s \in RunId
  PROVE  StaysPut(s)
<1>1. TypeOK /\ l.job \in JobId /\ job[l.job] \in JobRecord
  BY Basics DEF TypeOK
<1>2. /\ \A i \in JobId \ {l.job} : job'[i] = job[i]
      /\ job'[l.job] = [job[l.job] EXCEPT !.expires = now + LeaseTTL, !.updated = now]
  BY <1>1 DEF HeartbeatJob, TypeOK
<1>3. /\ job'[l.job].state = job[l.job].state
      /\ job'[l.job].run = job[l.job].run
      /\ job'[l.job].owner = job[l.job].owner
      /\ job'[l.job].attempt = job[l.job].attempt
  BY <1>1, <1>2 DEF JobRecord
<1>4. Held(s)' = Held(s)
  BY <1>2, <1>3, SameTokens
<1>. QED
  BY <1>4 DEF HeartbeatJob, StaysPut

LEMMA CompleteWalk ==
  ASSUME QueueInv, NEW l \in issued, Complete(l), NEW s \in RunId
  PROVE  Walks(s)
<1> DEFINE j == l.job
<1> PICK r \in RunId : r = job[j].run
  BY DEF Complete, CompleteCanceled, CompleteJobSucceeded, CompleteJobFailed,
         CompleteJobWaitingHuman, UncanceledLease, ValidLease, StoredRun
<1>1. /\ TypeOK /\ j \in JobId /\ job[j] \in JobRecord /\ job[j].state = "running"
  BY Basics DEF TypeOK, Complete, CompleteCanceled, CompleteJobSucceeded, CompleteJobFailed,
                CompleteJobWaitingHuman, UncanceledLease, ValidLease
<1>2. /\ Active(j) /\ run[r].state = "RUNNING" /\ run[r] \in RunRecord
      /\ Held(r) # {}
  BY <1>1, Basics, HeldTokens DEF Active, TypeOK, QueueInv, RunningJobRunningRun
<1>3. \A i \in JobId \ {j} : job'[i] = job[i]
  BY <1>1 DEF Complete, CompleteCanceled, CompleteJobSucceeded, CompleteJobFailed,
              CompleteJobWaitingHuman, TypeOK
<1>4. job'[j].state \in Settled
  <2>1. CASE CompleteCanceled(l)
    <3>1. job'[j] = CanceledJob(j)
      BY <1>1, <2>1 DEF CompleteCanceled, TypeOK
    <3>. QED
      BY <1>1, <3>1, JobFields DEF Settled
  <2>2. CASE ~CompleteCanceled(l)
    <3>1. \E o \in Settled :
            job'[j] = [job[j] EXCEPT !.state = o, !.expires = NoExpiry, !.updated = now]
      BY <1>1, <2>2 DEF Complete, CompleteJobSucceeded, CompleteJobFailed,
                        CompleteJobWaitingHuman, TypeOK, Settled
    <3>. QED
      BY <1>1, <3>1 DEF JobRecord
  <2>. QED
    BY <2>1, <2>2
<1>5. Held(r)' = {} /\ (s # r => Held(s)' = Held(s))
  BY <1>1, <1>2, <1>3, <1>4, SettleTokens
<1>6. s # r => run'[s] = run[s]
  BY <1>1 DEF Complete, CompleteCanceled, CompleteJobSucceeded, CompleteJobFailed,
              CompleteJobWaitingHuman, TypeOK
<1>7. run'[r].state \in {"CANCELED", "SUCCEEDED", "FAILED", "WAITING_HUMAN"}
  <2>1. CASE CompleteCanceled(l)
    <3>1. run'[r] = CanceledRun(r)
      BY <1>1, <1>2, <2>1 DEF CompleteCanceled, TypeOK
    <3>. QED
      BY <1>1, <1>2, <3>1, RunFields
  <2>2. CASE CompleteJobSucceeded(l)
    BY <1>1, <1>2, <2>2 DEF CompleteJobSucceeded, TypeOK, RunRecord
  <2>3. CASE CompleteJobFailed(l)
    BY <1>1, <1>2, <2>3 DEF CompleteJobFailed, TypeOK, RunRecord
  <2>4. ASSUME NEW t \in TaskId, CompleteJobWaitingHuman(l, t)
        PROVE  run'[r].state = "WAITING_HUMAN"
    BY <1>1, <1>2, <2>4 DEF CompleteJobWaitingHuman, TypeOK, RunRecord
  <2>. QED
    BY <2>1, <2>2, <2>3, <2>4 DEF Complete
<1>8. CASE s # r
  BY <1>5, <1>6, <1>8 DEF Walks, StaysPut
<1>9. CASE s = r
  BY <1>2, <1>5, <1>7, <1>9 DEF Walks, Moved, Working
<1>. QED
  BY <1>8, <1>9

LEMMA CancelJobWalk ==
  ASSUME QueueInv, NEW j \in JobId, CancelJob(j), NEW s \in RunId
  PROVE  Walks(s)
<1> PICK r \in RunId : r = job[j].run
  BY DEF CancelJob, StoredRun
<1>1. /\ TypeOK /\ Active(j) /\ job[j] \in JobRecord /\ run[r].state \in Working
  BY Basics DEF CancelJob, TypeOK
<1>2. CASE job[j].state = "running"
  <2>1. /\ job' = [job EXCEPT ![j] = [job[j] EXCEPT !.canceled = TRUE, !.updated = now]]
        /\ run' = run
    BY <1>2 DEF CancelJob
  <2>2. /\ job'[j].state = job[j].state
        /\ job'[j].run = job[j].run
        /\ job'[j].owner = job[j].owner
        /\ job'[j].attempt = job[j].attempt
    BY <1>1, <2>1 DEF TypeOK, JobRecord
  <2>3. \A i \in JobId \ {j} : job'[i] = job[i]
    BY <1>1, <2>1 DEF TypeOK
  <2>4. Held(s)' = Held(s)
    BY <2>2, <2>3, SameTokens
  <2>. QED
    BY <2>1, <2>4 DEF Walks, StaysPut
<1>3. CASE job[j].state # "running"
  <2>1. /\ job' = [job EXCEPT ![j] = CanceledJob(j)]
        /\ run' = [run EXCEPT ![r] = CanceledRun(r)]
    BY <1>3 DEF CancelJob
  <2>2. job'[j].state \in Settled /\ \A i \in JobId \ {j} : job'[i] = job[i]
    BY <1>1, <2>1, JobFields DEF TypeOK, Settled
  <2>3. Held(r)' = {} /\ (s # r => Held(s)' = Held(s))
    BY <1>1, <2>2, SettleTokens
  <2>4. run'[r].state = "CANCELED" /\ (s # r => run'[s] = run[s])
    <3>1. run'[r] = CanceledRun(r) /\ (s # r => run'[s] = run[s])
      BY <1>1, <2>1 DEF TypeOK
    <3>. QED
      BY <1>1, <3>1, RunFields
  <2>. QED
    BY <1>1, <2>3, <2>4 DEF Walks, Moved, StaysPut
<1>. QED
  BY <1>2, <1>3

LEMMA CancelRunWalk ==
  ASSUME QueueInv, NEW r \in RunId, CancelRun(r), NEW s \in RunId
  PROVE  Walks(s)
<1>1. /\ TypeOK /\ run[r] \in RunRecord /\ \A i \in JobId : job[i] \in JobRecord
  BY Basics DEF TypeOK
<1>2. run[r].state \in Working \union {"WAITING_HUMAN"}
  BY <1>1 DEF CancelRun, StoredRun, RunRecord, RunState
<1>3. \A i \in JobId : IF Active(i) /\ job[i].run \in {r}
                       THEN job'[i].state = "failed" /\ job'[i].run = job[i].run
                       ELSE job'[i] = job[i]
  BY <1>1 DEF CancelRun, JobRecord
<1>4. Held(r)' = {} /\ (s # r => Held(s)' = Held(s))
  BY ZenonT(60), <1>3, GiveUpTokens
<1>5. run'[r].state = "CANCELED" /\ (s # r => run'[s] = run[s])
  <2>1. run'[r] = CanceledRun(r) /\ (s # r => run'[s] = run[s])
    BY <1>1 DEF CancelRun, TypeOK
  <2>. QED
    BY <1>1, <2>1, RunFields
<1>. QED
  BY <1>2, <1>4, <1>5 DEF Walks, Moved, StaysPut

LEMMA ExpireWalk ==
  ASSUME QueueInv, NEW c \in 0..now, ExpireStuckJobs(c), NEW s \in RunId
  PROVE  Walks(s)
<1> PICK S \in SUBSET RunId : S = {r \in RunId : Stuck(r, c)}
  OBVIOUS
<1>1. run[s] \in RunRecord /\ \A i \in JobId : job[i] \in JobRecord
  BY Basics DEF TypeOK
<1>2. \A i \in JobId : Active(i) => StoredRun(job[i].run)
  BY DEF QueueInv, NoOrphans, Active
<1>3. \A i \in JobId : IF Active(i) /\ job[i].run \in S
                       THEN job'[i].state = "failed" /\ job'[i].run = job[i].run
                       ELSE job'[i] = job[i]
  BY <1>1, <1>2 DEF ExpireStuckJobs, JobRecord, StoredRun
<1>4. IF s \in S THEN Held(s)' = {} ELSE Held(s)' = Held(s)
  BY <1>3, GiveUpTokens
<1>5. CASE s \in S
  <2>1. run[s].state \in Working /\ run'[s].state = "EXPIRED"
    BY <1>1, <1>5 DEF ExpireStuckJobs, Stuck, RunRecord
  <2>. QED
    BY SMTT(30), <1>4, <1>5, <2>1 DEF Walks, Moved
<1>6. CASE s \notin S
  BY <1>4, <1>6 DEF ExpireStuckJobs, Walks, StaysPut
<1>. QED
  BY <1>5, <1>6

LEMMA PruneWalk ==
  ASSUME QueueInv, NEW c \in 0..now, NEW f \in 0..now, PruneSettledJobs(c, f), NEW s \in RunId
  PROVE  Walks(s)
<1> PICK gone \in SUBSET RunId : gone = {r \in RunId : Prunable(r, c, f)}
  OBVIOUS
<1>1. \A i \in JobId : IF job[i].run \in gone
                       THEN job'[i] = AbsentJob ELSE job'[i] = job[i]
  BY DEF PruneSettledJobs
<1>2. \A r \in gone : run[r].state \in Terminal
  BY DEF Prunable, Terminal
<1>3. \A i \in JobId : job[i].state = "running" => job[i].run \notin gone
  BY <1>2 DEF QueueInv, RunningJobRunningRun, Terminal
<1>4. CASE s \in gone
  <2>1. \A i \in JobId : ~(job'[i].state = "running" /\ job'[i].run = s)
    BY <1>1, <1>4 DEF AbsentJob
  <2>2. Held(s)' = {}
    BY <2>1, NoTokens
  <2>3. run'[s].state = "ABSENT"
    BY <1>4 DEF PruneSettledJobs, AbsentRun
  <2>. QED
    BY <1>2, <1>4, <2>2, <2>3 DEF Walks, Moved
<1>5. CASE s \notin gone
  <2>1. /\ \A i \in JobId : (job'[i].state = "running" /\ job'[i].run = s)
                            <=> (job[i].state = "running" /\ job[i].run = s)
        /\ \A i \in JobId : job[i].state = "running" => job'[i] = job[i]
    BY <1>1, <1>3, <1>5 DEF AbsentJob
  <2>2. Held(s)' = Held(s)
    BY <2>1, SameTokens
  <2>. QED
    BY <1>5, <2>2 DEF PruneSettledJobs, Walks, StaysPut
<1>. QED
  BY <1>4, <1>5

\* A claim grants a fresh lease to one run and takes lapsed leases from others.
LEMMA ClaimWalk ==
  ASSUME QueueInv, NEW w \in WorkerId, NEW j \in JobId, ClaimJobForWorker(w, j),
         NEW r \in RunId, r = job[j].run, NEW token,
         token = [job |-> j, owner |-> w, attempt |-> job[j].attempt + 1]
  PROVE  /\ token \notin issued /\ issued' = issued \union {token}
         /\ run[r].state \in Working /\ run'[r].state = "RUNNING" /\ Held(r)' = {token}
         /\ \A s \in RunId \ {r} : Walks(s)
<1>1. /\ Active(j) /\ ~job[j].canceled
      /\ job'[j].state = "running" /\ job'[j].run = job[j].run
      /\ job'[j].attempt = job[j].attempt + 1 /\ job'[j].owner = w
  BY ClaimedJob
<1>2. /\ \A k \in JobId : Active(k) /\ job[k].run = r => k = j
      /\ run[r].state \in Working
      /\ job[j].attempt \in Nat
  BY <1>1, Basics
<1>3. token \notin issued
  <2>1. \A l \in issued : l.job = j => l.attempt <= job[j].attempt
    BY <1>1 DEF QueueInv, LeaseIsExclusive, Active
  <2>. QED
    BY <1>2, <2>1
<1>4. \A i \in JobId : i # j => /\ job'[i].run = job[i].run
                                /\ job'[i].state = "running" => job'[i] = job[i] /\ ~Lapsed(i)
                                /\ job[i].state = "running" /\ ~Lapsed(i) => job'[i] = job[i]
  BY ClaimOthers DEF Lost, Lapsed
<1>5. Held(r)' = {token}
  <2>1. \A i \in JobId : job'[i].run = r /\ job'[i].state = "running" <=> i = j
    BY <1>1, <1>2, <1>4 DEF Active
  <2>2. CurrentLease(j)' = token
    BY <1>1 DEF CurrentLease
  <2>. QED
    BY <2>1, <2>2 DEF Held, JobsOf
<1>6. r \notin LostRuns
  BY <1>1, <1>2 DEF LostRuns, Lost, Lapsed, Active
<1>7. run'[r].state = "RUNNING"
  BY <1>6, ClaimedRuns
<1>8. ASSUME NEW s \in RunId, s # r PROVE Walks(s)
  <2>1. CASE \E i \in JobId : job[i].run = s /\ Lapsed(i)
    <3>1. PICK i \in JobId : job[i].run = s /\ Lapsed(i)
      BY <2>1
    <3>2. /\ job[i].state = "running" /\ run[s].state = "RUNNING" /\ Held(s) # {}
          /\ \A k \in JobId : Active(k) /\ job[k].run = s => k = i
      BY <3>1, HeldTokens, Basics DEF Lapsed, Active, QueueInv, RunningJobRunningRun
    <3>3. \A k \in JobId : ~(job'[k].state = "running" /\ job'[k].run = s)
      BY <1>1, <1>4, <1>8, <3>1, <3>2 DEF Active
    <3>4. Held(s)' = {}
      BY <3>3, NoTokens
    <3>5. run'[s].state \in {"RUNNING", "CANCELED"}
      BY <1>8, <3>2, ClaimedRuns
    <3>. QED
      BY <3>2, <3>4, <3>5 DEF Walks, Moved, Working
  <2>2. CASE ~ \E i \in JobId : job[i].run = s /\ Lapsed(i)
    <3>1. s \notin LostRuns
      BY <2>2 DEF LostRuns, Lost
    <3>2. run'[s] = run[s]
      BY <1>8, <3>1, ClaimedRuns
    <3>3. \A i \in JobId : (job'[i].state = "running" /\ job'[i].run = s)
                           <=> (job[i].state = "running" /\ job[i].run = s)
      BY <1>1, <1>4, <1>8, <2>2
    <3>4. \A i \in JobId : job[i].state = "running" /\ job[i].run = s => job'[i] = job[i]
      BY <1>4, <1>8, <2>2
    <3>5. Held(s)' = Held(s)
      BY <3>3, <3>4, SameTokens
    <3>. QED
      BY <3>2, <3>5 DEF Walks, StaysPut
  <2>. QED
    BY <2>1, <2>2
<1>9. issued' = issued \union {token}
  BY DEF ClaimJobForWorker
<1>. QED
  BY <1>2, <1>3, <1>5, <1>7, <1>8, <1>9

-----------------------------------------------------------------------------

\* A step that hands out no token moves every run by a step of the life cycle.
LEMMA WalksAreNext ==
  ASSUME issued' = issued, \A r \in RunId : Walks(r)
  PROVE  Lifecycle!LifecycleNext
BY WalkIsStep DEF Lifecycle!LifecycleNext

LEMMA ClaimIsNext ==
  ASSUME QueueInv, NEW w \in WorkerId, NEW j \in JobId, ClaimJobForWorker(w, j)
  PROVE  Lifecycle!LifecycleNext
<1>1. PICK r \in RunId : r = job[j].run
  BY ClaimedJob, Basics
<1>2. PICK token : token = [job |-> j, owner |-> w, attempt |-> job[j].attempt + 1]
  OBVIOUS
<1>3. /\ token \notin issued /\ issued' = issued \union {token}
      /\ run[r].state \in Working /\ run'[r].state = "RUNNING" /\ Held(r)' = {token}
      /\ \A s \in RunId \ {r} : Walks(s)
  BY <1>1, <1>2, ClaimWalk
<1>4. Lifecycle!Grant(r, token)
  BY <1>3 DEF Lifecycle!Grant, Lifecycle!Pending, Working, phaseOf, heldOf, Held
<1>5. \A s \in RunId \ {r} : Lifecycle!Step(s)
  BY <1>3, WalkIsStep
<1>6. token \in issued' \ issued
  BY <1>3
<1>. QED
  BY <1>3, <1>4, <1>5, <1>6 DEF Lifecycle!LifecycleNext

LEMMA NextImplementsLifecycle ==
  ASSUME QueueInv, [Next]_vars
  PROVE  [Lifecycle!LifecycleNext]_(Lifecycle!lifecycleVars)
<1> DEFINE Goal == [Lifecycle!LifecycleNext]_(Lifecycle!lifecycleVars)
<1>1. CASE UNCHANGED vars \/ Tick
  BY <1>1 DEF vars, Tick, Lifecycle!lifecycleVars, phaseOf, heldOf, JobsOf, CurrentLease
<1>2. ASSUME NEW r \in RunId, NEW j \in JobId, CreateRunAndEnqueue(r, j) PROVE Goal
  BY ZenonT(60), <1>2, CreateRunWalk, WalksAreNext DEF CreateRunAndEnqueue
<1>3. ASSUME NEW a \in App, NEW actionTags \in [Action -> Tag \union {NoTag}],
             RequeueQueuedJobsForApp(a, actionTags)
      PROVE  Goal
  BY ZenonT(60), <1>3, RequeueAppWalk, WalksAreNext DEF RequeueQueuedJobsForApp, Walks
<1>4. ASSUME NEW w \in WorkerId, NEW j \in JobId, ClaimJobForWorker(w, j) PROVE Goal
  BY <1>4, ClaimIsNext
<1>5. ASSUME NEW l \in issued, HeartbeatJob(l) PROVE Goal
  BY <1>5, HeartbeatWalk, WalksAreNext DEF HeartbeatJob, Walks
<1>6. ASSUME NEW l \in issued, Complete(l) PROVE Goal
  <2>1. issued' = issued
    BY <1>6 DEF Complete, CompleteCanceled, CompleteJobSucceeded, CompleteJobFailed,
                CompleteJobWaitingHuman
  <2>. QED
    BY <1>6, <2>1, CompleteWalk, WalksAreNext
<1>7. ASSUME NEW t \in TaskId, NEW j \in JobId, ResumeHumanTask(t, j) PROVE Goal
  BY ZenonT(60), <1>7, ResumeWalk, WalksAreNext DEF ResumeHumanTask
<1>8. ASSUME NEW j \in JobId, CancelJob(j) PROVE Goal
  BY <1>8, CancelJobWalk, WalksAreNext DEF CancelJob
<1>9. ASSUME NEW r \in RunId, CancelRun(r) PROVE Goal
  BY <1>9, CancelRunWalk, WalksAreNext DEF CancelRun
<1>10. ASSUME NEW r \in RunId, NEW j \in JobId, RetryRun(r, j) PROVE Goal
  BY <1>10, RetryRunWalk, WalksAreNext DEF RetryRun
<1>11. ASSUME NEW c \in 0..now, ExpireStuckJobs(c) PROVE Goal
  BY <1>11, ExpireWalk, WalksAreNext DEF ExpireStuckJobs
<1>12. ASSUME NEW c \in 0..now, NEW f \in 0..now, PruneSettledJobs(c, f) PROVE Goal
  BY <1>12, PruneWalk, WalksAreNext DEF PruneSettledJobs
<1>. QED
  BY <1>1, <1>2, <1>3, <1>4, <1>5, <1>6, <1>7, <1>8, <1>9, <1>10, <1>11, <1>12 DEF Next

LEMMA InitImplementsLifecycle == Init => Lifecycle!LifecycleInit
BY DEF Init, Lifecycle!LifecycleInit, phaseOf, heldOf, JobsOf, AbsentRun, AbsentJob

\* QueueImplementsLifecycle: read through states and current leases only, every
\* behaviour of the queue is one that RunLifecycle promises its callers.
THEOREM QueueImplementsLifecycle == Spec => ImplementsLifecycle
  BY InitImplementsLifecycle, NextImplementsLifecycle, QueueInvCorrect, PTL
     DEF Spec, ImplementsLifecycle, Lifecycle!LifecycleSpec

----------------------------------------------------------------------------
(* What clients see while the queue moves.                                  *)

Stored(jobs) == {j \in JobId : jobs[j].state # "absent"}

\* What becomes of a job's record in one step of the queue.
Follows(jobs, more, time, j) ==
  \/ more[j] = jobs[j]
  \/ more[j].state = "absent"
  \/ jobs[j].state = "absent" /\ more[j].created = time
  \/ /\ jobs[j].state \in {"queued", "running"}
     /\ more[j].created = jobs[j].created /\ more[j].run = jobs[j].run

LEMMA FieldsKept ==
  ASSUME TypeOK, NEW j \in JobId, NEW s, NEW e
  PROVE  /\ CanceledJob(j).created = job[j].created /\ CanceledJob(j).run = job[j].run
         /\ LET p == [job[j] EXCEPT !.state = s, !.expires = e, !.updated = now]
            IN p.created = job[j].created /\ p.run = job[j].run
         /\ LET p == [job[j] EXCEPT !.expires = e, !.updated = now]
            IN p.created = job[j].created /\ p.run = job[j].run
         /\ LET p == [job[j] EXCEPT !.canceled = TRUE, !.updated = now]
            IN p.created = job[j].created /\ p.run = job[j].run
<1>1. PICK o \in JobRecord : o = job[j]
  BY DEF TypeOK
<1>. QED
  BY <1>1 DEF JobRecord, CanceledJob

LEMMA JobFollows ==
  ASSUME QueueInv, [Next]_vars, NEW j \in JobId
  PROVE  Follows(job, job', now, j)
<1> DEFINE Fate == Follows(job, job', now, j)
<1>1. /\ TypeOK /\ job = [i \in JobId |-> job[i]] /\ job[j] \in JobRecord
      /\ AbsentJob.state = "absent"
  BY JobFields DEF QueueInv, TypeOK
<1>2. \A i \in JobId : \A x : job' = [job EXCEPT ![i] = x] =>
        (i # j => job'[j] = job[j]) /\ (i = j => job'[j] = x)
  BY <1>1
<1>15. ASSUME NEW x, job' = [job EXCEPT ![j] = x] PROVE job'[j] = x
  BY <1>1, <1>15
<1>16. ASSUME CanceledJob(j) = job'[j] PROVE job'[j].created = job[j].created /\ job'[j].run = job[j].run
  BY <1>1, <1>16, FieldsKept
<1>3. \A r : NewActionJob(r).created = now
  BY DEF NewActionJob, AbsentJob
<1>4. CASE UNCHANGED vars
  BY <1>4 DEF vars, Follows
<1>5. ASSUME NEW r \in RunId, NEW i \in JobId, CreateRunAndEnqueue(r, i) \/ RetryRun(r, i)
      PROVE  Fate
  BY <1>2, <1>3, <1>5 DEF CreateRunAndEnqueue, RetryRun, FreshJob, Follows
<1>6. ASSUME NEW t \in TaskId, NEW i \in JobId, ResumeHumanTask(t, i) PROVE Fate
  BY <1>2, <1>3, <1>6 DEF ResumeHumanTask, FreshJob, Follows
<1>7. ASSUME NEW a \in App, NEW actionTags \in [Action -> Tag \union {NoTag}],
             RequeueQueuedJobsForApp(a, actionTags)
      PROVE  Fate
  BY <1>1, <1>7 DEF RequeueQueuedJobsForApp, Follows, JobRecord
<1>8. ASSUME NEW w \in WorkerId, NEW i \in JobId, ClaimJobForWorker(w, i) PROVE Fate
  BY <1>1, <1>8 DEF ClaimJobForWorker, Requeued, Claimable, QueuedNow, Lapsed, CanceledJob,
     RequeuedJob, Follows, JobRecord
<1>9. ASSUME NEW l \in issued, HeartbeatJob(l) \/ Complete(l) PROVE Fate
  <2>1. l.job \in JobId /\ job[l.job].state = "running"
    BY <1>1, <1>9, Basics DEF HeartbeatJob, Complete, CompleteCanceled, CompleteJobSucceeded,
       CompleteJobFailed, CompleteJobWaitingHuman, UncanceledLease, ValidLease
  <2>2. CASE l.job # j
    <3>1. job'[j] = job[j]
      BY <1>1, <1>9, <2>1, <2>2 DEF HeartbeatJob, Complete, CompleteCanceled, CompleteJobSucceeded,
         CompleteJobFailed, CompleteJobWaitingHuman
    <3>. QED
      BY <3>1 DEF Follows
  <2>3. CASE l.job = j
    <3>2. \/ job' = [job EXCEPT ![j] = [job[j] EXCEPT !.expires = now + LeaseTTL, !.updated = now]]
          \/ job' = [job EXCEPT ![j] = CanceledJob(j)]
          \/ \E s : job' = [job EXCEPT ![j] = [job[j] EXCEPT !.state = s, !.expires = NoExpiry, !.updated = now]]
      <4>1. CASE HeartbeatJob(l)
        BY <1>1, <2>3, <4>1 DEF HeartbeatJob
      <4>2. CASE CompleteCanceled(l)
        BY <2>3, <4>2 DEF CompleteCanceled
      <4>3. CASE CompleteJobSucceeded(l) \/ CompleteJobFailed(l)
        BY <1>1, <2>3, <4>3 DEF CompleteJobSucceeded, CompleteJobFailed
      <4>4. CASE \E t \in TaskId : CompleteJobWaitingHuman(l, t)
        BY <1>1, <2>3, <4>4 DEF CompleteJobWaitingHuman
      <4>. QED
        BY <1>9, <4>1, <4>2, <4>3, <4>4 DEF Complete
    <3>3. job'[j].created = job[j].created /\ job'[j].run = job[j].run
      <4>1. CASE job' = [job EXCEPT ![j] = [job[j] EXCEPT !.expires = now + LeaseTTL, !.updated = now]]
        <5>1. job'[j] = [job[j] EXCEPT !.expires = now + LeaseTTL, !.updated = now]
          BY <1>15, <4>1
        <5>. QED
          BY <1>1, <5>1, FieldsKept
      <4>2. CASE job' = [job EXCEPT ![j] = CanceledJob(j)]
        BY <1>15, <1>16, <4>2
      <4>3. ASSUME NEW s, job' = [job EXCEPT ![j] = [job[j] EXCEPT !.state = s, !.expires = NoExpiry,
                                                                   !.updated = now]]
            PROVE  job'[j].created = job[j].created /\ job'[j].run = job[j].run
        <5>1. job'[j] = [job[j] EXCEPT !.state = s, !.expires = NoExpiry, !.updated = now]
          BY <1>15, <4>3
        <5>. QED
          BY <1>1, <5>1, FieldsKept
      <4>. QED
        BY <3>2, <4>1, <4>2, <4>3
    <3>. QED
      BY <2>1, <2>3, <3>3 DEF Follows
  <2>. QED
    BY <2>2, <2>3
<1>10. ASSUME NEW i \in JobId, CancelJob(i) PROVE Fate
  <2>1. CASE i # j
    <3>1. job'[j] = job[j]
      BY <1>1, <1>10, <2>1 DEF CancelJob
    <3>. QED
      BY <3>1 DEF Follows
  <2>2. CASE i = j
    <3>2. \/ job' = [job EXCEPT ![j] = [job[j] EXCEPT !.canceled = TRUE, !.updated = now]]
          \/ job' = [job EXCEPT ![j] = CanceledJob(j)]
      BY <1>1, <1>10, <2>2 DEF CancelJob
    <3>3. job'[j].created = job[j].created /\ job'[j].run = job[j].run
      <4>1. CASE job' = [job EXCEPT ![j] = [job[j] EXCEPT !.canceled = TRUE, !.updated = now]]
        <5>1. job'[j] = [job[j] EXCEPT !.canceled = TRUE, !.updated = now]
          BY <1>15, <4>1
        <5>. QED
          BY <1>1, <5>1, FieldsKept
      <4>2. CASE job' = [job EXCEPT ![j] = CanceledJob(j)]
        BY <1>15, <1>16, <4>2
      <4>. QED
        BY <3>2, <4>1, <4>2
    <3>. QED
      BY <1>10, <2>2, <3>3 DEF CancelJob, Active, Follows
  <2>. QED
    BY <2>1, <2>2
<1>11. ASSUME NEW r \in RunId, CancelRun(r) PROVE Fate
  BY <1>1, <1>11 DEF CancelRun, Active, Follows, JobRecord
<1>12. ASSUME NEW s \in 0..now, ExpireStuckJobs(s) PROVE Fate
  BY <1>1, <1>12 DEF ExpireStuckJobs, Active, Follows, JobRecord
<1>13. ASSUME NEW s \in 0..now, NEW f \in 0..now, PruneSettledJobs(s, f) PROVE Fate
  BY <1>1, <1>13 DEF PruneSettledJobs, Follows
<1>14. CASE Tick
  BY <1>14 DEF Tick, Follows
<1>. QED
  BY <1>4, <1>5, <1>6, <1>7, <1>8, <1>9, <1>10, <1>11, <1>12, <1>13, <1>14 DEF Next

LEMMA TimePasses ==
  ASSUME TypeOK, [Next]_vars
  PROVE  now \in Nat /\ now' \in Nat /\ now <= now'
<1>1. now \in Nat
  BY DEF TypeOK
<1>2. now' = now \/ now' = now + 1
  BY DEF Next, vars, CreateRunAndEnqueue, RequeueQueuedJobsForApp, ClaimJobForWorker, HeartbeatJob,
     Complete, CompleteCanceled, CompleteJobSucceeded, CompleteJobFailed, CompleteJobWaitingHuman,
     ResumeHumanTask, CancelJob, CancelRun, RetryRun, ExpireStuckJobs, PruneSettledJobs, Tick
<1>. QED
  BY <1>1, <1>2

----------------------------------------------------------------------------
(* Statuses.                                                                *)

\* Between the two statements that read a job and its run: the statuses witnessed so far
\* hold the present one, and the state that was read is the present one or was a status
\* itself, unless the job has been gone in between.
Reading(o) == o.stage = "run" /\ o.op # "await"
SeenTruly(o, jobs, runs) ==
  Reading(o) =>
    /\ o.job \in JobId /\ o.seen \in JobState
    /\ \/ "absent" \in o.views
       \/ /\ o.job \in Stored(jobs)
          /\ jobs[o.job].run = o.of
          /\ StatusAmong(jobs, runs, o.job) \in o.views
          /\ \/ jobs[o.job].state = o.seen
             \/ o.seen \in {"queued", "running"} /\ o.seen \in o.views

\* A job that waits or runs is shown so, for its run is not canceled.
LEMMA ActiveStatus ==
  ASSUME QueueInv, NEW j \in JobId, job[j].state \in {"queued", "running"}
  PROVE  View(j) = job[j].state
<1>1. run[job[j].run].state \in Working
  BY Basics DEF Active
<1>. QED
  BY <1>1 DEF View, StatusAmong, JobTerminalStatus, Working

\* The rest of the request is as it was; more statuses may have been witnessed.
SameButViews(o, p) ==
  /\ p.op = o.op /\ p.stage = o.stage /\ p.job = o.job /\ p.of = o.of
  /\ p.seen = o.seen /\ p.created = o.created /\ p.rows = o.rows /\ p.items = o.items
  /\ o.views \subseteq p.views

LEMMA SeenTrulyStays ==
  ASSUME QueueInv, [Next]_vars, NEW o, NEW p, SameButViews(o, p), SeenTruly(o, job, run),
         Reading(o) => StatusAmong(job', run', o.job) \in p.views
  PROVE  SeenTruly(p, job', run')
<1>. SUFFICES ASSUME Reading(p) PROVE SeenTruly(p, job', run')
  BY DEF SeenTruly
<1>1. Reading(o) /\ o.job \in JobId /\ p.job \in JobId /\ p.seen \in JobState
  BY DEF Reading, SeenTruly, SameButViews
<1>2. CASE "absent" \in p.views
  BY <1>1, <1>2 DEF SeenTruly
<1>3. CASE "absent" \notin p.views
  <2>1. /\ o.job \in Stored(job) /\ job[o.job].run = o.of
        /\ StatusAmong(job, run, o.job) \in p.views
        /\ job[o.job].state = o.seen \/ (o.seen \in {"queued", "running"} /\ o.seen \in p.views)
    BY <1>1, <1>3 DEF SeenTruly, SameButViews
  <2>2. job'[o.job].state # "absent" /\ StatusAmong(job', run', o.job) \in p.views
    BY <1>1, <1>3 DEF StatusAmong
  <2>3. Follows(job, job', now, o.job) /\ job[o.job].state # "absent"
    BY <1>1, <2>1, JobFollows DEF Stored
  <2>4. job'[o.job].run = o.of
    BY <2>1, <2>2, <2>3 DEF Follows
  <2>5. job'[o.job].state = o.seen \/ (o.seen \in {"queued", "running"} /\ o.seen \in p.views)
    <3>1. CASE job[o.job].state = o.seen /\ o.seen \in {"queued", "running"}
      BY <1>1, <2>1, <3>1, ActiveStatus DEF View
    <3>2. CASE job[o.job].state = o.seen /\ o.seen \notin {"queued", "running"}
      BY <2>2, <2>3, <3>2 DEF Follows
    <3>. QED
      BY <2>1, <3>1, <3>2
  <2>. QED
    BY <1>1, <2>2, <2>4, <2>5 DEF SeenTruly, SameButViews, Stored
<1>. QED
  BY <1>2, <1>3

\* What the second statement answers was the status at one of the moments.
LEMMA AnswerTrue ==
  ASSUME QueueInv, NEW c \in Client, At(c, "run"), ~In(c, "await"), SeenTruly(req[c], job, run)
  PROVE  req[c].views \cap {Shown(c), "absent"} # {}
<1>1. PICK o : o = req[c]
  OBVIOUS
<1>2. /\ o.job \in JobId /\ o.seen \in JobState
      /\ \/ "absent" \in o.views
         \/ /\ o.job \in Stored(job) /\ job[o.job].run = o.of /\ View(o.job) \in o.views
            /\ job[o.job].state = o.seen \/ (o.seen \in {"queued", "running"} /\ o.seen \in o.views)
  BY <1>1 DEF SeenTruly, Reading, At, In, View
<1>3. CASE "absent" \in o.views
  BY <1>1, <1>3
<1>4. CASE "absent" \notin o.views
  <2>1. PICK s : s = run[o.of].state
    OBVIOUS
  <2>2. job[o.job].state # "absent" /\ s # "ABSENT"
    BY <1>2, <1>4, <2>1 DEF Stored, QueueInv, NoOrphans, StoredRun
  <2>3. View(o.job) = JobTerminalStatus(job[o.job].state, s)
    BY <1>2, <1>4, <2>1, <2>2 DEF View, StatusAmong
  <2>4. Shown(c) = IF In(c, "list") THEN JobTerminalStatus(o.seen, s) ELSE JobResult(o.seen, s)
    BY <1>1, <2>1, <2>2 DEF Shown
  <2>5. CASE job[o.job].state = o.seen
    <3>1. CASE o.seen \in Settled
      <4>1. Shown(c) = View(o.job)
        BY <2>3, <2>4, <2>5, <3>1 DEF JobTerminalStatus, JobResult, TerminalJobStatus, Settled
      <4>. QED
        BY <1>1, <1>2, <1>4, <4>1
    <3>2. CASE o.seen \notin Settled
      <4>1. o.seen \in {"queued", "running"}
        BY <1>2, <3>2 DEF JobState
      <4>2. View(o.job) = o.seen
        BY <1>2, <2>5, <4>1, ActiveStatus
      <4>3. Shown(c) = View(o.job)
        BY <2>3, <2>4, <2>5, <3>2, <4>2 DEF JobResult
      <4>. QED
        BY <1>1, <1>2, <1>4, <4>3
    <3>. QED
      BY <3>1, <3>2
  <2>6. CASE o.seen \in {"queued", "running"} /\ o.seen \in o.views
    <3>1. Shown(c) \in {o.seen, View(o.job)}
      BY <2>3, <2>4, <2>6 DEF JobTerminalStatus, JobResult, Settled
    <3>. QED
      BY <1>1, <1>2, <1>4, <2>6, <3>1
  <2>. QED
    BY <1>2, <1>4, <2>5, <2>6
<1>. QED
  BY <1>3, <1>4

----------------------------------------------------------------------------
(* Pages.                                                                   *)

WalkRecord == [cursor: Item \union {NoCursor}, listed: SUBSET JobId, stayed: SUBSET JobId]

\* No record that a job has or will have is older.
Since(j, jobs, time) == IF j \in Stored(jobs) THEN jobs[j].created ELSE time

\* The list does not come to a job of that time again.
Behind(k, j, t) == t > k.created \/ (t = k.created /\ Rank[j] >= Rank[k.id])

\* A job whose record a list has read.
ReadInv(j, t, w, jobs, time) ==
  /\ t \in Nat /\ t <= Since(j, jobs, time)
  /\ j \in w.stayed => t = jobs[j].created
  /\ j \in w.listed => Behind(w.cursor, j, t)

\* A list under way has read, or is going to read, every job that stayed.
ListInv(o, w, jobs, time) ==
  o.op = "list" =>
    /\ o.stage \in {"rows", "job", "run"}
    /\ o.stage # "rows" => o.job \in JobId
    /\ w.stayed \subseteq o.rows \union Ids(o.items) \union (IF o.stage = "rows" THEN {} ELSE {o.job})
    /\ IsFiniteSet(o.items)
    /\ \A x \in o.items : ReadInv(x.id, x.created, w, jobs, time)
    /\ o.stage = "run" => ReadInv(o.job, o.created, w, jobs, time)

\* The pages read so far hold no job that comes after the cursor, and every job that
\* stayed and comes before it.
WalkInv(w, jobs, time) ==
  /\ w.stayed \subseteq Stored(jobs)
  /\ w.cursor = NoCursor => w.listed = {}
  /\ w.cursor # NoCursor =>
       /\ \A j \in w.listed : Behind(w.cursor, j, Since(j, jobs, time))
       /\ \A j \in w.stayed \ w.listed : Before(w.cursor, [id |-> j, created |-> jobs[j].created])

JobsPast(jobs, time) == \A j \in Stored(jobs) : jobs[j].created \in Nat /\ jobs[j].created <= time

\* A step of the queue.
Passes(jobs, more, time, later) ==
  /\ time \in Nat /\ later \in Nat /\ time <= later
  /\ JobsPast(jobs, time)
  /\ \A j \in JobId : Follows(jobs, more, time, j)

LEMMA CreatedGoesOn ==
  ASSUME NEW jobs, NEW more, NEW time, NEW later, Passes(jobs, more, time, later), NEW j \in JobId
  PROVE  /\ Since(j, jobs, time) \in Nat /\ Since(j, more, later) \in Nat
         /\ Since(j, jobs, time) <= Since(j, more, later)
         /\ j \in Stored(jobs) \cap Stored(more) => more[j].created = jobs[j].created
         /\ j \in Stored(more) => more[j].created \in Nat /\ more[j].created <= later
<1>1. time \in Nat /\ later \in Nat /\ time <= later /\ Follows(jobs, more, time, j)
  BY DEF Passes
<1>2. j \in Stored(jobs) => jobs[j].created \in Nat /\ jobs[j].created <= time
  BY DEF Passes, JobsPast
<1>. QED
  BY <1>1, <1>2 DEF Follows, Since, Stored

LEMMA BehindStays ==
  ASSUME NEW k, k.created \in Nat, NEW j, NEW t \in Nat, NEW u \in Nat, t <= u, Behind(k, j, t)
  PROVE  Behind(k, j, u)
BY DEF Behind

LEMMA CursorTyped ==
  ASSUME NEW w \in WalkRecord
  PROVE  w.cursor.created \in Nat /\ w.listed \subseteq JobId /\ w.stayed \subseteq JobId
BY DEF WalkRecord, Item, NoCursor

\* The walk, after a step of the queue.
SameButStayed(w, v, more) ==
  v.cursor = w.cursor /\ v.listed = w.listed /\ v.stayed = w.stayed \cap Stored(more)

LEMMA WalkGoesOn ==
  ASSUME NEW jobs, NEW more, NEW time, NEW later, Passes(jobs, more, time, later),
         NEW w \in WalkRecord, NEW v, SameButStayed(w, v, more), WalkInv(w, jobs, time)
  PROVE  WalkInv(v, more, later)
<1>1. ASSUME NEW j \in JobId
      PROVE  /\ Since(j, jobs, time) \in Nat /\ Since(j, more, later) \in Nat
             /\ Since(j, jobs, time) <= Since(j, more, later)
             /\ j \in Stored(jobs) \cap Stored(more) => more[j].created = jobs[j].created
  BY <1>1, CreatedGoesOn
<1>2. v.stayed \subseteq Stored(more) /\ (v.cursor = NoCursor => v.listed = {})
  BY DEF SameButStayed, WalkInv
<1>3. ASSUME w.cursor # NoCursor, NEW j \in w.listed PROVE Behind(w.cursor, j, Since(j, more, later))
  <2>1. Behind(w.cursor, j, Since(j, jobs, time)) /\ j \in JobId /\ w.cursor.created \in Nat
    BY <1>3, CursorTyped DEF WalkInv
  <2>. QED
    BY <1>1, <2>1, BehindStays
<1>4. ASSUME w.cursor # NoCursor, NEW j \in v.stayed, j \notin w.listed
      PROVE  Before(w.cursor, [id |-> j, created |-> more[j].created])
  <2>1. j \in w.stayed /\ j \in Stored(jobs) \cap Stored(more) /\ j \in JobId
    BY <1>4, CursorTyped DEF SameButStayed, WalkInv
  <2>2. Before(w.cursor, [id |-> j, created |-> jobs[j].created])
    BY <1>4, <2>1 DEF WalkInv
  <2>. QED
    BY <1>1, <2>1, <2>2
<1>. QED
  BY <1>2, <1>3, <1>4 DEF WalkInv, SameButStayed

LEMMA ReadGoesOn ==
  ASSUME NEW jobs, NEW more, NEW time, NEW later, Passes(jobs, more, time, later),
         NEW w \in WalkRecord, NEW v, SameButStayed(w, v, more), WalkInv(w, jobs, time),
         NEW j \in JobId, NEW t, ReadInv(j, t, w, jobs, time)
  PROVE  ReadInv(j, t, v, more, later)
<1>1. /\ Since(j, jobs, time) \in Nat /\ Since(j, more, later) \in Nat
      /\ Since(j, jobs, time) <= Since(j, more, later)
      /\ j \in Stored(jobs) \cap Stored(more) => more[j].created = jobs[j].created
  BY CreatedGoesOn
<1>2. t \in Nat /\ t <= Since(j, more, later)
  BY <1>1 DEF ReadInv
<1>3. j \in v.stayed => t = more[j].created
  BY <1>1 DEF ReadInv, SameButStayed, WalkInv
<1>. QED
  BY <1>2, <1>3 DEF ReadInv, SameButStayed

LEMMA ListGoesOn ==
  ASSUME NEW jobs, NEW more, NEW time, NEW later, Passes(jobs, more, time, later),
         NEW w \in WalkRecord, NEW v, SameButStayed(w, v, more), WalkInv(w, jobs, time),
         NEW o, o.items \subseteq Item, NEW p, SameButViews(o, p), ListInv(o, w, jobs, time)
  PROVE  ListInv(p, v, more, later)
<1>. SUFFICES ASSUME o.op = "list" PROVE ListInv(p, v, more, later)
  BY DEF ListInv, SameButViews
<1>1. /\ o.stage \in {"rows", "job", "run"}
      /\ o.stage # "rows" => o.job \in JobId
      /\ w.stayed \subseteq o.rows \union Ids(o.items) \union (IF o.stage = "rows" THEN {} ELSE {o.job})
      /\ IsFiniteSet(o.items)
  BY DEF ListInv
<1>2. v.stayed \subseteq w.stayed
  BY DEF SameButStayed
<1>3. ASSUME NEW x \in o.items PROVE ReadInv(x.id, x.created, v, more, later)
  <2>1. x.id \in JobId /\ ReadInv(x.id, x.created, w, jobs, time)
    BY <1>3 DEF ListInv, Item
  <2>. QED
    BY <2>1, ReadGoesOn
<1>4. o.stage = "run" => ReadInv(o.job, o.created, v, more, later)
  <2>1. o.stage = "run" => o.job \in JobId /\ ReadInv(o.job, o.created, w, jobs, time)
    BY <1>1 DEF ListInv
  <2>. QED
    BY <2>1, ReadGoesOn
<1>. QED
  BY <1>1, <1>2, <1>3, <1>4 DEF ListInv, SameButViews

----------------------------------------------------------------------------
\* The order of a list is a total one.
LEMMA Ordered ==
  ASSUME NEW x \in Item, NEW y \in Item, NEW z \in Item
  PROVE  /\ ~Before(x, x)
         /\ x # y => Before(x, y) \/ Before(y, x)
         /\ Before(x, y) /\ Before(y, z) => Before(x, z)
<1>1. /\ x.created \in Nat /\ y.created \in Nat /\ z.created \in Nat
      /\ Rank[x.id] \in Nat /\ Rank[y.id] \in Nat /\ Rank[z.id] \in Nat
      /\ Rank[x.id] = Rank[y.id] => x.id = y.id
      /\ x.id = y.id /\ x.created = y.created => x = y
  BY ViewAssumption DEF Item
<1>. QED
  BY <1>1 DEF Before

LEMMA AheadGrows ==
  ASSUME NEW c \in Client, req[c].items \subseteq Item, IsFiniteSet(req[c].items)
  PROVE  /\ IsFiniteSet(AfterCursor(c)) /\ AfterCursor(c) \subseteq Item
         /\ \A x \in AfterCursor(c) : Ahead(c, x) \in Nat /\ Ahead(c, x) < Cardinality(AfterCursor(c))
         /\ \A x, y \in AfterCursor(c) : Before(x, y) => Ahead(c, x) < Ahead(c, y)
<1>1. IsFiniteSet(AfterCursor(c)) /\ AfterCursor(c) \subseteq Item
  <2>1. AfterCursor(c) \subseteq req[c].items
    BY DEF AfterCursor
  <2>. QED
    BY <2>1, FS_Subset
<1>2. ASSUME NEW S, NEW x \in S, S \subseteq AfterCursor(c), NEW T \in SUBSET S, x \notin T
      PROVE  Cardinality(T) \in Nat /\ Cardinality(T) < Cardinality(S)
  <2>1. IsFiniteSet(S)
    BY <1>1, <1>2, FS_Subset
  <2>2. IsFiniteSet(T) /\ Cardinality(T) <= Cardinality(S)
        /\ (Cardinality(S) = Cardinality(T) => S = T)
    BY <2>1, FS_Subset
  <2>3. Cardinality(S) \in Nat /\ Cardinality(T) \in Nat
    BY <2>1, <2>2, FS_CardinalityType
  <2>. QED
    BY <1>2, <2>2, <2>3
<1>3. ASSUME NEW x \in AfterCursor(c)
      PROVE  Ahead(c, x) \in Nat /\ Ahead(c, x) < Cardinality(AfterCursor(c))
  <2>1. x \notin {y \in AfterCursor(c) : Before(y, x)}
    BY <1>1, Ordered
  <2>. QED
    BY <1>2, <2>1 DEF Ahead
<1>4. ASSUME NEW x \in AfterCursor(c), NEW y \in AfterCursor(c), Before(x, y)
      PROVE  Ahead(c, x) < Ahead(c, y)
  <2> DEFINE S == {z \in AfterCursor(c) : Before(z, y)}
             T == {z \in AfterCursor(c) : Before(z, x)}
  <2>1. x \in S /\ x \notin T /\ T \subseteq S
    BY <1>1, <1>4, Ordered
  <2>2. S \subseteq AfterCursor(c)
    OBVIOUS
  <2> HIDE DEF S, T
  <2>3. Cardinality(T) < Cardinality(S)
    BY <1>2, <2>1, <2>2
  <2>. QED
    BY <2>3 DEF Ahead, S, T
<1>. QED
  BY <1>1, <1>3, <1>4

\* What the last page, and every page, of a walk holds.
LEMMA PageHolds ==
  ASSUME NEW c \in Client, NEW jobs, NEW time,
         req[c].items \subseteq Item, walk[c] \in WalkRecord,
         req[c].op = "list", req[c].stage = "rows", req[c].rows = {},
         ListInv(req[c], walk[c], jobs, time), WalkInv(walk[c], jobs, time)
  PROVE  /\ Ids(Page(c)) \cap walk[c].listed = {}
         /\ ~HasMore(c) => walk[c].stayed \subseteq walk[c].listed \union Ids(Page(c))
         /\ \A j \in walk[c].stayed \ walk[c].listed :
              \E x \in AfterCursor(c) : x.id = j /\ x.created = jobs[j].created
<1>1. PICK w : w = walk[c]
  OBVIOUS
<1>2. PICK items : items = req[c].items
  OBVIOUS
<1>3. /\ w \in WalkRecord /\ w.cursor.created \in Nat
      /\ items \subseteq Item /\ IsFiniteSet(items) /\ w.stayed \subseteq Ids(items)
      /\ \A x \in items : ReadInv(x.id, x.created, w, jobs, time)
  BY <1>1, <1>2, CursorTyped DEF ListInv
<1>4. /\ WalkInv(w, jobs, time)
      /\ AfterCursor(c) = {x \in items : w.cursor = NoCursor \/ Before(w.cursor, x)}
  BY <1>1, <1>2 DEF AfterCursor
<1>5. ASSUME NEW x \in AfterCursor(c) PROVE x.id \notin w.listed
  <2>1. CASE w.cursor = NoCursor
    BY <1>4, <2>1 DEF WalkInv
  <2>2. CASE w.cursor # NoCursor
    <3>1. x \in Item /\ Before(w.cursor, x) /\ (x.id \in w.listed => Behind(w.cursor, x.id, x.created))
      BY <1>3, <1>4, <1>5, <2>2 DEF ReadInv
    <3>2. w.cursor \in Item
      BY <1>3, <2>2 DEF WalkRecord
    <3>3. /\ x.created \in Nat /\ Rank[x.id] \in Nat /\ Rank[w.cursor.id] \in Nat
      BY <3>1, <3>2, ViewAssumption DEF Item
    <3>. QED
      BY <1>3, <3>1, <3>3 DEF Before, Behind
  <2>. QED
    BY <2>1, <2>2
<1>6. ASSUME NEW j \in w.stayed, j \notin w.listed
      PROVE  \E x \in AfterCursor(c) : x.id = j /\ x.created = jobs[j].created
  <2>1. PICK x \in items : x.id = j
    BY <1>3, <1>6 DEF Ids
  <2>2. x.created = jobs[j].created /\ x \in Item
    BY <1>3, <1>6, <2>1 DEF ReadInv
  <2>3. x = [id |-> j, created |-> jobs[j].created]
    BY <2>1, <2>2 DEF Item
  <2>4. w.cursor = NoCursor \/ Before(w.cursor, x)
    BY <1>4, <1>6, <2>3 DEF WalkInv
  <2>. QED
    BY <1>4, <2>1, <2>2, <2>4
<1>7. ASSUME ~HasMore(c) PROVE Page(c) = AfterCursor(c)
  <2>1. IsFiniteSet(AfterCursor(c)) /\ Cardinality(AfterCursor(c)) \in Nat
    BY <1>2, <1>3, AheadGrows, FS_CardinalityType
  <2>2. Cardinality(AfterCursor(c)) <= PageSize
    BY <1>7, <2>1, ViewAssumption DEF HasMore
  <2>3. \A x \in AfterCursor(c) : Ahead(c, x) \in Nat /\ Ahead(c, x) < Cardinality(AfterCursor(c))
    BY <1>2, <1>3, AheadGrows
  <2>4. \A x \in AfterCursor(c) : Ahead(c, x) < PageSize
    BY <2>1, <2>2, <2>3, ViewAssumption
  <2>. QED
    BY <2>4 DEF Page
<1>8. Page(c) \subseteq AfterCursor(c)
  BY DEF Page
<1>. QED
  BY <1>1, <1>5, <1>6, <1>7, <1>8 DEF Ids

\* A page more leaves no job behind.
LEMMA NextPage ==
  ASSUME NEW c \in Client, NEW jobs, NEW time \in Nat, JobsPast(jobs, time),
         req[c].items \subseteq Item, walk[c] \in WalkRecord,
         req[c].op = "list", req[c].stage = "rows", req[c].rows = {},
         ListInv(req[c], walk[c], jobs, time), WalkInv(walk[c], jobs, time),
         NEW next \in NextCursor(c), NEW v,
         v.cursor = next, v.listed = walk[c].listed \union Ids(Page(c)), v.stayed = walk[c].stayed
  PROVE  WalkInv(v, jobs, time) /\ next \in Item /\ next \in Page(c) /\ next # NoCursor
<1>1. PICK w : w = walk[c]
  OBVIOUS
<1>2. /\ AfterCursor(c) \subseteq Item
      /\ \A x \in AfterCursor(c) : Ahead(c, x) \in Nat
      /\ \A x, y \in AfterCursor(c) : Before(x, y) => Ahead(c, x) < Ahead(c, y)
  BY AheadGrows DEF ListInv
<1>3. /\ Page(c) \subseteq AfterCursor(c) /\ next \in Page(c) /\ Ahead(c, next) = PageSize - 1
      /\ \A x \in AfterCursor(c) : x \in Page(c) <=> Ahead(c, x) < PageSize
  BY DEF Page, NextCursor
<1>4. PageSize \in Nat /\ NoJob \notin JobId /\ Rank \in [JobId -> Nat]
  BY ViewAssumption
<1>5. next \in Item /\ next # NoCursor /\ next.id \in JobId /\ next.created \in Nat
  BY <1>2, <1>3, <1>4 DEF Item, NoCursor
<1>6. ASSUME NEW x \in Page(c) PROVE x = next \/ Before(x, next)
  <2>1. ~Before(next, x)
    BY <1>2, <1>3, <1>4, <1>6
  <2>. QED
    BY <1>2, <1>3, <1>6, <2>1, Ordered
<1>7. ASSUME NEW x \in AfterCursor(c), x \notin Page(c) PROVE Before(next, x)
  <2>1. ~Before(x, next) /\ x # next
    BY <1>2, <1>3, <1>4, <1>7
  <2>. QED
    BY <1>2, <1>3, <1>7, <2>1, Ordered
<1>8. ASSUME NEW j \in JobId PROVE Since(j, jobs, time) \in Nat
  BY <1>8 DEF Since, JobsPast
<1>9. ASSUME NEW j \in w.listed PROVE Behind(next, j, Since(j, jobs, time))
  <2>1. w.cursor # NoCursor /\ Behind(w.cursor, j, Since(j, jobs, time)) /\ Before(w.cursor, next)
    BY <1>1, <1>3, <1>9 DEF WalkInv, AfterCursor
  <2>2. w.cursor \in Item /\ j \in JobId
    BY <1>1, <1>9, <2>1 DEF WalkRecord
  <2>3. /\ Since(j, jobs, time) \in Nat /\ Rank[j] \in Nat /\ Rank[next.id] \in Nat
        /\ w.cursor.created \in Nat /\ Rank[w.cursor.id] \in Nat
    BY <1>4, <1>5, <1>8, <2>2 DEF Item
  <2>. QED
    BY <1>5, <2>1, <2>3 DEF Behind, Before
<1>10. ASSUME NEW x \in Page(c) PROVE Behind(next, x.id, Since(x.id, jobs, time))
  <2>1. x \in Item /\ x.created <= Since(x.id, jobs, time)
    BY <1>2, <1>3, <1>10 DEF ListInv, ReadInv, AfterCursor
  <2>2. /\ x.id \in JobId /\ x.created \in Nat /\ Rank[x.id] \in Nat /\ Rank[next.id] \in Nat
        /\ Since(x.id, jobs, time) \in Nat
    BY <1>4, <1>5, <1>8, <2>1 DEF Item
  <2>3. Behind(next, x.id, x.created)
    BY <1>5, <1>6, <1>10, <2>2 DEF Behind, Before
  <2>. QED
    BY <1>5, <2>1, <2>2, <2>3, BehindStays
<1>11. ASSUME NEW j \in w.stayed, j \notin v.listed
       PROVE  Before(next, [id |-> j, created |-> jobs[j].created])
  <2>1. PICK x \in AfterCursor(c) : x.id = j /\ x.created = jobs[j].created
    <3>1. j \in walk[c].stayed \ walk[c].listed
      BY <1>1, <1>11
    <3>2. \A i \in walk[c].stayed \ walk[c].listed :
            \E x \in AfterCursor(c) : x.id = i /\ x.created = jobs[i].created
      BY PageHolds
    <3>. QED
      BY <3>1, <3>2
  <2>2. x \notin Page(c)
    BY <1>11, <2>1 DEF Ids
  <2>3. x = [id |-> j, created |-> jobs[j].created]
    BY <1>2, <2>1 DEF Item
  <2>. QED
    BY <1>7, <2>1, <2>2, <2>3
<1>12. \A j \in v.listed : Behind(next, j, Since(j, jobs, time))
  BY <1>1, <1>9, <1>10 DEF Ids
<1>. QED
  BY <1>1, <1>3, <1>5, <1>11, <1>12 DEF WalkInv

----------------------------------------------------------------------------
(* Every step.                                                              *)

RequestRecord == [op: Op \union {"none"}, stage: {"none", "job", "run", "sleep", "rows", "key"},
                  job: JobId \union {NoJob}, of: RunId \union {NoRun},
                  seen: JobState \union {"absent"}, created: Nat, views: SUBSET Status,
                  rows: SUBSET JobId, items: SUBSET Item]

ClientInv(o, w, jobs, runs, time) ==
  /\ o \in RequestRecord /\ w \in WalkRecord
  /\ o.stage = "sleep" => o.op \in {"wait", "await"}
  /\ o.stage = "rows" => o.op = "list"
  /\ w.cursor # NoCursor => w.cursor.id \in w.listed
  /\ SeenTruly(o, jobs, runs)
  /\ ListInv(o, w, jobs, time)
  /\ WalkInv(w, jobs, time)

ViewsInv ==
  /\ QueueInv
  /\ JobsPast(job, now)
  /\ req = [c \in Client |-> req[c]] /\ walk = [c \in Client |-> walk[c]]
  /\ \A c \in Client : ClientInv(req[c], walk[c], job, run, now)

LEMMA NoRequestTyped ==
  /\ NoRequest \in RequestRecord /\ NoRequest.op = "none" /\ NoRequest.stage = "none"
  /\ NoWalk \in WalkRecord /\ NoWalk.cursor = NoCursor /\ NoWalk.listed = {} /\ NoWalk.stayed = {}
BY DEF NoRequest, RequestRecord, NoWalk, WalkRecord

LEMMA Answered ==
  ASSUME NEW w, NEW o, NEW jobs, NEW runs, NEW time, ClientInv(o, w, jobs, runs, time)
  PROVE  ClientInv(NoRequest, w, jobs, runs, time)
BY NoRequestTyped DEF ClientInv, SeenTruly, Reading, ListInv

LEMMA StatusTyped == ASSUME NEW jobs, NEW runs, NEW j PROVE StatusAmong(jobs, runs, j) \in Status
BY DEF StatusAmong, JobTerminalStatus, Status, JobState, Settled

LEMMA QueuePasses ==
  ASSUME QueueInv, JobsPast(job, now), [Next]_vars
  PROVE  /\ QueueInv' /\ Passes(job, job', now, now') /\ JobsPast(job', now')
<1>1. QueueInv' /\ now \in Nat /\ now' \in Nat /\ now <= now'
  BY QueueInvStep, TimePasses DEF QueueInv
<1>2. Passes(job, job', now, now')
  BY <1>1, JobFollows DEF Passes
<1>3. \A j \in Stored(job') : j \in JobId
  BY DEF Stored
<1>. QED
  BY <1>1, <1>2, <1>3, CreatedGoesOn DEF JobsPast

\* A step of one client.
LEMMA LocalStep ==
  ASSUME ViewsInv, UNCHANGED vars, NEW c \in Client, NEW x, NEW v,
         req' = [req EXCEPT ![c] = x], walk' = [walk EXCEPT ![c] = v],
         ClientInv(x, v, job, run, now)
  PROVE  ViewsInv'
<1>1. QueueInv' /\ JobsPast(job', now')
  BY QueuePasses DEF ViewsInv
<1>2. job' = job /\ run' = run /\ now' = now
  BY DEF vars
<1>3. /\ req' = [d \in Client |-> req'[d]] /\ walk' = [d \in Client |-> walk'[d]]
      /\ req'[c] = x /\ walk'[c] = v
      /\ \A d \in Client \ {c} : req'[d] = req[d] /\ walk'[d] = walk[d]
  BY DEF ViewsInv
<1>4. ASSUME NEW d \in Client PROVE ClientInv(req'[d], walk'[d], job', run', now')
  BY <1>2, <1>3 DEF ViewsInv
<1>. QED
  BY <1>1, <1>3, <1>4 DEF ViewsInv

\* A step of the queue, as the clients see it.
LEMMA ClientGoesOn ==
  ASSUME QueueInv, JobsPast(job, now), [Next]_vars,
         NEW o, NEW w, ClientInv(o, w, job, run, now),
         NEW p, p = IF o.stage = "run" /\ o.job # NoJob
                    THEN [o EXCEPT !.views = @ \union {StatusAmong(job', run', o.job)}] ELSE o,
         NEW v, v = [w EXCEPT !.stayed = @ \cap StoredJobs']
  PROVE  ClientInv(p, v, job', run', now')
<1>1. Passes(job, job', now, now') /\ StoredJobs' = Stored(job')
  BY QueuePasses DEF StoredJobs, Stored
<1>2. w \in WalkRecord /\ v \in WalkRecord /\ SameButStayed(w, v, job')
  BY <1>1 DEF ClientInv, WalkRecord, SameButStayed
<1>3. /\ o \in RequestRecord /\ p \in RequestRecord /\ SameButViews(o, p)
      /\ o.stage = "run" /\ o.job # NoJob => StatusAmong(job', run', o.job) \in p.views
  BY StatusTyped DEF ClientInv, RequestRecord, SameButViews
<1>4. SeenTruly(p, job', run')
  <2>1. Reading(o) => o.stage = "run" /\ o.job # NoJob
    BY ViewAssumption DEF ClientInv, SeenTruly, Reading
  <2>2. SeenTruly(o, job, run)
    BY DEF ClientInv
  <2>. QED
    BY <1>3, <2>1, <2>2, SeenTrulyStays
<1>5. ListInv(p, v, job', now') /\ WalkInv(v, job', now')
  <2>1. ListInv(o, w, job, now) /\ WalkInv(w, job, now) /\ o.items \subseteq Item
    BY <1>3 DEF ClientInv, RequestRecord
  <2>. QED
    BY <1>1, <1>2, <1>3, <2>1, ListGoesOn, WalkGoesOn
<1>6. /\ p.stage = "sleep" => p.op \in {"wait", "await"}
      /\ p.stage = "rows" => p.op = "list"
      /\ v.cursor # NoCursor => v.cursor.id \in v.listed
  BY <1>2, <1>3 DEF ClientInv, SameButViews, SameButStayed
<1>. QED
  BY <1>2, <1>3, <1>4, <1>5, <1>6 DEF ClientInv

LEMMA QueueStepKeeps ==
  ASSUME ViewsInv, [Next]_vars, NEW requests,
         \A c \in Client : requests[c] = req[c] \/ requests[c] = NoRequest,
         Witnessed(requests), Stays
  PROVE  ViewsInv'
<1>1. QueueInv' /\ JobsPast(job', now')
  BY QueuePasses DEF ViewsInv
<1>2. ASSUME NEW c \in Client PROVE ClientInv(req'[c], walk'[c], job', run', now')
  <2>1. PICK o : o = requests[c]
    OBVIOUS
  <2>2. PICK w : w = walk[c]
    OBVIOUS
  <2>3. ClientInv(o, w, job, run, now)
    BY <2>1, <2>2, Answered DEF ViewsInv
  <2>4. PICK p : p = req'[c]
    OBVIOUS
  <2>5. PICK v : v = walk'[c]
    OBVIOUS
  <2>6. p = IF o.stage = "run" /\ o.job # NoJob
            THEN [o EXCEPT !.views = @ \union {StatusAmong(job', run', o.job)}] ELSE o
    BY <2>1, <2>4 DEF Witnessed
  <2>7. v = [w EXCEPT !.stayed = @ \cap StoredJobs']
    BY <2>2, <2>5 DEF Stays
  <2>8. ClientInv(p, v, job', run', now')
    BY <2>3, <2>6, <2>7, ClientGoesOn DEF ViewsInv
  <2>. QED
    BY <2>4, <2>5, <2>8
<1>3. req' = [c \in Client |-> req'[c]] /\ walk' = [c \in Client |-> walk'[c]]
  BY DEF Witnessed, Stays
<1>. QED
  BY <1>1, <1>2, <1>3 DEF ViewsInv

----------------------------------------------------------------------------
\* What a client's own steps make of its request.
LEMMA BeginKeeps ==
  ASSUME ViewsInv, NEW c \in Client,
         \/ \E j \in JobId : BeginGet(c, j)
         \/ \E r \in RunId : BeginAwait(c, r)
         \/ BeginTx(c)
  PROVE  ViewsInv'
<1>1. PICK w : w = walk[c]
  OBVIOUS
<1>2. ClientInv(req[c], w, job, run, now) /\ walk' = [walk EXCEPT ![c] = w] /\ UNCHANGED vars
  BY <1>1 DEF ViewsInv, BeginGet, BeginAwait, BeginTx, Quiet
<1>3. PICK x : /\ req' = [req EXCEPT ![c] = x]
               /\ x \in RequestRecord /\ ~Reading(x) /\ x.op # "list"
               /\ x.stage \notin {"sleep", "rows"}
  <2>1. ASSUME NEW j \in JobId, BeginGet(c, j)
        PROVE  \E x : /\ req' = [req EXCEPT ![c] = x]
                      /\ x \in RequestRecord /\ ~Reading(x) /\ x.op # "list"
                      /\ x.stage \notin {"sleep", "rows"}
    <3>1. PICK op \in {"get", "wait"} : Becomes(c, [NoRequest EXCEPT !.op = op, !.stage = "job", !.job = j])
      BY <2>1 DEF BeginGet
    <3>2. PICK x : x = [NoRequest EXCEPT !.op = op, !.stage = "job", !.job = j]
      OBVIOUS
    <3>3. x \in RequestRecord /\ ~Reading(x) /\ x.op # "list" /\ x.stage \notin {"sleep", "rows"}
      BY <3>2 DEF NoRequest, RequestRecord, Reading, Op
    <3>. QED
      BY <3>1, <3>2, <3>3 DEF Becomes
  <2>2. ASSUME NEW r \in RunId, BeginAwait(c, r)
        PROVE  \E x : /\ req' = [req EXCEPT ![c] = x]
                      /\ x \in RequestRecord /\ ~Reading(x) /\ x.op # "list"
                      /\ x.stage \notin {"sleep", "rows"}
    <3>2. PICK x : x = [NoRequest EXCEPT !.op = "await", !.stage = "run", !.of = r]
      OBVIOUS
    <3>3. x \in RequestRecord /\ ~Reading(x) /\ x.op # "list" /\ x.stage \notin {"sleep", "rows"}
      BY <3>2 DEF NoRequest, RequestRecord, Reading, Op
    <3>. QED
      BY <2>2, <3>2, <3>3 DEF BeginAwait, Becomes
  <2>3. CASE BeginTx(c)
    <3>2. PICK x : x = [NoRequest EXCEPT !.op = "tx", !.stage = "key"]
      OBVIOUS
    <3>3. x \in RequestRecord /\ ~Reading(x) /\ x.op # "list" /\ x.stage \notin {"sleep", "rows"}
      BY <3>2 DEF NoRequest, RequestRecord, Reading, Op
    <3>. QED
      BY <2>3, <3>2, <3>3 DEF BeginTx, Becomes
  <2>. QED
    BY <2>1, <2>2, <2>3
<1>4. ClientInv(x, w, job, run, now)
  BY <1>2, <1>3 DEF ClientInv, SeenTruly, ListInv
<1>. QED
  BY <1>2, <1>3, <1>4, LocalStep

LEMMA AnswerKeeps ==
  ASSUME ViewsInv, NEW c \in Client, Answer(c), UNCHANGED walk, UNCHANGED vars
  PROVE  ViewsInv'
<1>1. PICK w : w = walk[c]
  OBVIOUS
<1>2. /\ ClientInv(NoRequest, w, job, run, now)
      /\ walk' = [walk EXCEPT ![c] = w] /\ req' = [req EXCEPT ![c] = NoRequest]
  BY <1>1, Answered DEF ViewsInv, Answer
<1>. QED
  BY <1>2, LocalStep

\* A job's record that a list reads.
LEMMA RecordRead ==
  ASSUME NEW w, NEW jobs, NEW time, WalkInv(w, jobs, time), JobsPast(jobs, time),
         NEW j \in Stored(jobs)
  PROVE  ReadInv(j, jobs[j].created, w, jobs, time)
BY DEF WalkInv, JobsPast, ReadInv, Since

JobReadAs(o, x, r, s, t, u) ==
  x = [o EXCEPT !.stage = "run", !.of = r, !.seen = s, !.created = t, !.views = u]
LEMMA JobRead ==
  ASSUME NEW o \in RequestRecord, NEW r \in RunId, NEW s \in JobState, NEW t \in Nat,
         NEW u \in SUBSET Status, NEW x, JobReadAs(o, x, r, s, t, u)
  PROVE  /\ x \in RequestRecord /\ x.op = o.op /\ x.stage = "run" /\ x.job = o.job
         /\ x.seen = s /\ x.of = r /\ x.created = t /\ x.views = u
         /\ x.rows = o.rows /\ x.items = o.items
BY DEF RequestRecord, JobReadAs

LEMMA ReadJobKeeps ==
  ASSUME ViewsInv, NEW c \in Client, ReadJob(c)
  PROVE  ViewsInv'
<1>1. PICK w : w = walk[c]
  OBVIOUS
<1>2. PICK o : o = req[c]
  OBVIOUS
<1>3. ClientInv(o, w, job, run, now) /\ walk' = [walk EXCEPT ![c] = w] /\ UNCHANGED vars /\ o.stage = "job"
  BY <1>1, <1>2 DEF ViewsInv, ReadJob, Quiet, At
<1>4. CASE o.job \in StoredJobs
  <2>1. PICK j : j = o.job
    OBVIOUS
  <2>2. /\ j \in Stored(job) /\ j \in JobId /\ job[j].state \in JobState /\ job[j].run \in RunId
        /\ job[j].created \in Nat
    BY <1>4, <2>1 DEF Stored, StoredJobs, ViewsInv, QueueInv, NoOrphans, StoredRun, TypeOK, JobRecord
  <2>3. PICK x : x = [o EXCEPT !.stage = "run", !.of = job[j].run, !.seen = job[j].state,
                               !.created = job[j].created, !.views = {View(j)}]
    OBVIOUS
  <2>4. /\ x \in RequestRecord /\ x.op = o.op /\ x.stage = "run" /\ x.job = j
        /\ x.seen = job[j].state /\ x.of = job[j].run /\ x.created = job[j].created
        /\ x.rows = o.rows /\ x.items = o.items /\ x.views = {View(j)}
    <3>1. PICK r \in RunId : r = job[j].run
      BY <2>2
    <3>2. PICK s \in JobState : s = job[j].state
      BY <2>2
    <3>3. PICK t \in Nat : t = job[j].created
      BY <2>2
    <3>4. PICK u \in SUBSET Status : u = {View(j)}
      BY StatusTyped DEF View
    <3>5. o \in RequestRecord
      BY <1>3 DEF ClientInv
    <3>6. JobReadAs(o, x, r, s, t, u)
      BY <2>3, <3>1, <3>2, <3>3, <3>4 DEF JobReadAs
    <3>7. /\ x \in RequestRecord /\ x.op = o.op /\ x.stage = "run" /\ x.job = o.job
          /\ x.seen = s /\ x.of = r /\ x.created = t /\ x.views = u
          /\ x.rows = o.rows /\ x.items = o.items
      BY <3>5, <3>6, JobRead
    <3>. QED
      BY <2>1, <3>1, <3>2, <3>3, <3>4, <3>7
  <2>5. SeenTruly(x, job, run)
    BY <2>2, <2>4 DEF SeenTruly, View
  <2>6. ListInv(x, w, job, now)
    <3>1. ReadInv(j, x.created, w, job, now)
      BY <1>3, <2>2, <2>4, RecordRead DEF ClientInv, ViewsInv
    <3>2. ListInv(o, w, job, now)
      BY <1>3 DEF ClientInv
    <3>. QED
      BY <1>3, <2>1, <2>2, <2>4, <3>1, <3>2 DEF ListInv
  <2>7. ClientInv(x, w, job, run, now)
    BY <1>3, <2>4, <2>5, <2>6 DEF ClientInv
  <2>8. req' = [req EXCEPT ![c] = x]
    BY <1>2, <1>4, <2>1, <2>3 DEF ReadJob, Becomes
  <2>. QED
    BY <1>3, <2>7, <2>8, LocalStep
<1>5. CASE o.job \notin StoredJobs /\ ~In(c, "list")
  BY <1>2, <1>5, AnswerKeeps DEF ReadJob, Quiet
<1>6. CASE o.job \notin StoredJobs /\ In(c, "list")
  <2>1. PICK x : x = [o EXCEPT !.stage = "rows"]
    OBVIOUS
  <2>2. /\ x \in RequestRecord /\ x.op = o.op /\ o.op = "list" /\ x.stage = "rows"
        /\ x.rows = o.rows /\ x.items = o.items
    BY <1>2, <1>3, <1>6, <2>1 DEF ClientInv, RequestRecord, In
  <2>3. o.job \notin w.stayed
    BY <1>3, <1>6 DEF ClientInv, WalkInv, Stored, StoredJobs
  <2>4. ListInv(x, w, job, now)
    <3>1. ListInv(o, w, job, now)
      BY <1>3 DEF ClientInv
    <3>. QED
      BY <1>3, <2>2, <2>3, <3>1 DEF ListInv
  <2>5. ClientInv(x, w, job, run, now)
    BY <1>3, <2>2, <2>4 DEF ClientInv, SeenTruly, Reading
  <2>6. req' = [req EXCEPT ![c] = x]
    BY <1>2, <1>6, <2>1 DEF ReadJob, Becomes
  <2>. QED
    BY <1>3, <2>5, <2>6, LocalStep
<1>. QED
  BY <1>4, <1>5, <1>6

LEMMA ReadRunKeeps ==
  ASSUME ViewsInv, NEW c \in Client, ReadRun(c)
  PROVE  ViewsInv'
<1>1. PICK w : w = walk[c]
  OBVIOUS
<1>2. PICK o : o = req[c]
  OBVIOUS
<1>3. /\ ClientInv(o, w, job, run, now) /\ walk' = [walk EXCEPT ![c] = w] /\ UNCHANGED vars
      /\ o.stage = "run" /\ Reading(o)
  BY <1>1, <1>2 DEF ViewsInv, ReadRun, Quiet, At, In, Reading
<1>4. \/ Answer(c)
      \/ /\ o.op = "list"
         /\ req' = [req EXCEPT ![c] = [o EXCEPT !.stage = "rows",
                                          !.items = @ \union {[id |-> o.job, created |-> o.created]}]]
      \/ o.op = "wait" /\ req' = [req EXCEPT ![c] = [o EXCEPT !.stage = "sleep"]]
  BY <1>2 DEF ReadRun, Becomes, In
<1>5. CASE Answer(c)
  BY <1>5, AnswerKeeps DEF ReadRun, Quiet
<1>6. CASE /\ o.op = "list"
           /\ req' = [req EXCEPT ![c] = [o EXCEPT !.stage = "rows",
                                            !.items = @ \union {[id |-> o.job, created |-> o.created]}]]
  <2>1. PICK y : y = [id |-> o.job, created |-> o.created]
    OBVIOUS
  <2>2. PICK x : x = [o EXCEPT !.stage = "rows", !.items = @ \union {y}]
    OBVIOUS
  <2>3. /\ o \in RequestRecord /\ o.job \in JobId /\ ListInv(o, w, job, now)
        /\ ReadInv(o.job, o.created, w, job, now)
    BY <1>3, <1>6 DEF ClientInv, SeenTruly, ListInv
  <2>4. y \in Item /\ y.id = o.job /\ y.created = o.created
    BY <2>1, <2>3 DEF RequestRecord, Item
  <2>5. /\ x \in RequestRecord /\ x.op = "list" /\ x.stage = "rows"
        /\ x.rows = o.rows /\ x.items = o.items \union {y}
    BY <1>6, <2>2, <2>3, <2>4 DEF RequestRecord
  <2>6. ListInv(x, w, job, now)
    <3>1. IsFiniteSet(x.items)
      BY <1>6, <2>3, <2>5, FS_AddElement DEF ListInv
    <3>2. w.stayed \subseteq x.rows \union Ids(x.items)
      BY <1>3, <1>6, <2>3, <2>4, <2>5 DEF ListInv, Ids
    <3>3. \A z \in x.items : ReadInv(z.id, z.created, w, job, now)
      BY <1>6, <2>3, <2>4, <2>5 DEF ListInv
    <3>. QED
      BY <2>5, <3>1, <3>2, <3>3 DEF ListInv
  <2>7. ClientInv(x, w, job, run, now)
    BY <1>3, <2>5, <2>6 DEF ClientInv, SeenTruly, Reading
  <2>8. req' = [req EXCEPT ![c] = x]
    BY <1>6, <2>1, <2>2
  <2>. QED
    BY <1>3, <2>7, <2>8, LocalStep
<1>7. CASE o.op = "wait" /\ req' = [req EXCEPT ![c] = [o EXCEPT !.stage = "sleep"]]
  <2>1. PICK x : x = [o EXCEPT !.stage = "sleep"]
    OBVIOUS
  <2>2. x \in RequestRecord /\ x.op = "wait" /\ x.stage = "sleep"
    BY <1>3, <1>7, <2>1 DEF ClientInv, RequestRecord
  <2>3. ClientInv(x, w, job, run, now)
    BY <1>3, <2>2 DEF ClientInv, SeenTruly, Reading, ListInv
  <2>. QED
    BY <1>3, <1>7, <2>1, <2>3, LocalStep
<1>. QED
  BY <1>4, <1>5, <1>6, <1>7

LEMMA WaitKeeps ==
  ASSUME ViewsInv, NEW c \in Client, AwaitRun(c) \/ Poll(c) \/ Deadline(c)
  PROVE  ViewsInv'
<1>1. PICK w : w = walk[c]
  OBVIOUS
<1>2. PICK o : o = req[c]
  OBVIOUS
<1>3. ClientInv(o, w, job, run, now) /\ walk' = [walk EXCEPT ![c] = w] /\ UNCHANGED vars
  BY <1>1, <1>2 DEF ViewsInv, AwaitRun, Poll, Deadline, Quiet
<1>4. CASE Answer(c)
  BY <1>4, AnswerKeeps DEF AwaitRun, Poll, Deadline, Quiet
<1>5. CASE AwaitRun(c) /\ ~Answer(c)
  <2>1. PICK x : x = [o EXCEPT !.stage = "sleep"]
    OBVIOUS
  <2>2. x \in RequestRecord /\ x.op = "await" /\ x.stage = "sleep"
    BY <1>2, <1>3, <1>5, <2>1 DEF ClientInv, RequestRecord, AwaitRun, In
  <2>3. ClientInv(x, w, job, run, now)
    BY <1>3, <2>2 DEF ClientInv, SeenTruly, Reading, ListInv
  <2>4. req' = [req EXCEPT ![c] = x]
    BY <1>2, <1>5, <2>1 DEF AwaitRun, Becomes
  <2>. QED
    BY <1>3, <2>3, <2>4, LocalStep
<1>6. CASE Poll(c)
  <2>1. PICK s : s = IF o.op = "wait" THEN "job" ELSE "run"
    OBVIOUS
  <2>2. PICK x : x = [o EXCEPT !.stage = s, !.views = {}]
    OBVIOUS
  <2>3. /\ x \in RequestRecord /\ x.op = o.op /\ x.stage = s /\ o.op \in {"wait", "await"}
        /\ s \in {"job", "run"} /\ (s = "run" => o.op = "await")
    BY <1>2, <1>3, <1>6, <2>1, <2>2 DEF ClientInv, RequestRecord, Poll, At
  <2>4. ClientInv(x, w, job, run, now)
    BY <1>3, <2>3 DEF ClientInv, SeenTruly, Reading, ListInv
  <2>5. req' = [req EXCEPT ![c] = x]
    BY <1>2, <1>6, <2>1, <2>2 DEF Poll, Becomes, In
  <2>. QED
    BY <1>3, <2>4, <2>5, LocalStep
<1>7. CASE Deadline(c)
  BY <1>4, <1>7 DEF Deadline
<1>. QED
  BY <1>4, <1>5, <1>6, <1>7

LEMMA BeginListKeeps ==
  ASSUME ViewsInv, NEW c \in Client, BeginList(c)
  PROVE  ViewsInv'
<1>1. PICK w : w = walk[c]
  OBVIOUS
<1>2. ClientInv(req[c], w, job, run, now) /\ UNCHANGED vars /\ StoredJobs = Stored(job)
  BY <1>1 DEF ViewsInv, BeginList, Quiet, StoredJobs, Stored
<1>3. PICK x : x = [NoRequest EXCEPT !.op = "list", !.stage = "rows", !.rows = StoredJobs]
  OBVIOUS
<1>4. /\ x \in RequestRecord /\ x.op = "list" /\ x.stage = "rows" /\ x.rows = StoredJobs
      /\ x.items = {}
  BY <1>3 DEF NoRequest, RequestRecord, Op, StoredJobs
<1>5. req' = [req EXCEPT ![c] = x]
  BY <1>3 DEF BeginList, Becomes
<1>6. PICK y : y = [NoWalk EXCEPT !.stayed = StoredJobs]
  OBVIOUS
<1>7. y \in WalkRecord /\ y.cursor = NoCursor /\ y.listed = {} /\ y.stayed = StoredJobs
  BY <1>6 DEF NoWalk, WalkRecord, StoredJobs
<1>8. PICK v : v = IF w.cursor = NoCursor THEN y ELSE w
  OBVIOUS
<1>9. walk' = [walk EXCEPT ![c] = v]
  BY <1>1, <1>6, <1>8 DEF BeginList, ViewsInv
<1>10. /\ v \in WalkRecord /\ WalkInv(v, job, now) /\ v.stayed \subseteq StoredJobs
       /\ (v.cursor # NoCursor => v.cursor.id \in v.listed)
  BY <1>2, <1>7, <1>8 DEF ClientInv, WalkInv
<1>11. ListInv(x, v, job, now)
  BY <1>4, <1>10, FS_EmptySet DEF ListInv
<1>12. ClientInv(x, v, job, run, now)
  BY <1>4, <1>10, <1>11 DEF ClientInv, SeenTruly, Reading
<1>. QED
  BY <1>2, <1>5, <1>9, <1>12, LocalStep

LEMMA NextRowKeeps ==
  ASSUME ViewsInv, NEW c \in Client, NEW j \in JobId, NextRow(c, j)
  PROVE  ViewsInv'
<1>1. PICK w : w = walk[c]
  OBVIOUS
<1>2. PICK o : o = req[c]
  OBVIOUS
<1>3. /\ ClientInv(o, w, job, run, now) /\ walk' = [walk EXCEPT ![c] = w] /\ UNCHANGED vars
      /\ o.stage = "rows" /\ o.op = "list"
  BY <1>1, <1>2 DEF ViewsInv, NextRow, Quiet, At, ClientInv
<1>4. PICK x : x = [o EXCEPT !.stage = "job", !.job = j, !.rows = @ \ {j}]
  OBVIOUS
<1>5. /\ x \in RequestRecord /\ x.op = "list" /\ x.stage = "job" /\ x.job = j
      /\ x.rows = o.rows \ {j} /\ x.items = o.items
  BY <1>3, <1>4 DEF ClientInv, RequestRecord
<1>6. ListInv(x, w, job, now)
  <2>1. ListInv(o, w, job, now)
    BY <1>3 DEF ClientInv
  <2>. QED
    BY <1>3, <1>5, <2>1 DEF ListInv
<1>7. ClientInv(x, w, job, run, now)
  BY <1>3, <1>5, <1>6 DEF ClientInv, SeenTruly, Reading
<1>8. req' = [req EXCEPT ![c] = x]
  BY <1>2, <1>4 DEF NextRow, Becomes
<1>. QED
  BY <1>3, <1>7, <1>8, LocalStep

\* What EndList asks of a walk.
LEMMA EndsList ==
  ASSUME ViewsInv, NEW c \in Client, EndList(c)
  PROVE  /\ now \in Nat /\ JobsPast(job, now)
         /\ req[c].items \subseteq Item /\ walk[c] \in WalkRecord
         /\ req[c].op = "list" /\ req[c].stage = "rows" /\ req[c].rows = {}
         /\ ListInv(req[c], walk[c], job, now) /\ WalkInv(walk[c], job, now)
<1>1. PICK o : o = req[c]
  OBVIOUS
<1>2. /\ o \in RequestRecord /\ o.op = "list" /\ o.stage = "rows" /\ o.rows = {}
      /\ walk[c] \in WalkRecord /\ ListInv(o, walk[c], job, now) /\ WalkInv(walk[c], job, now)
  BY <1>1 DEF ViewsInv, ClientInv, EndList, At
<1>3. now \in Nat /\ JobsPast(job, now)
  BY DEF ViewsInv, QueueInv, TypeOK
<1>. QED
  BY <1>1, <1>2, <1>3 DEF RequestRecord

LEMMA EndListKeeps ==
  ASSUME ViewsInv, NEW c \in Client, EndList(c)
  PROVE  ViewsInv'
<1>1. PICK w : w = walk[c]
  OBVIOUS
<1>2. /\ UNCHANGED vars /\ req' = [req EXCEPT ![c] = NoRequest]
      /\ ClientInv(NoRequest, w, job, run, now) /\ w \in WalkRecord
  BY <1>1, Answered, EndsList DEF ViewsInv, EndList, Quiet, Answer
<1>3. ASSUME NEW v \in WalkRecord, walk' = [walk EXCEPT ![c] = v], WalkInv(v, job, now),
             v.cursor # NoCursor => v.cursor.id \in v.listed
      PROVE  ViewsInv'
  <2>1. ClientInv(NoRequest, v, job, run, now)
    BY <1>3, NoRequestTyped DEF ClientInv, SeenTruly, Reading, ListInv
  <2>. QED
    BY <1>2, <1>3, <2>1, LocalStep
<1>4. CASE HasMore(c)
  <2>1. PICK next \in NextCursor(c) :
          walk' = [walk EXCEPT ![c].cursor = next, ![c].listed = @ \union Ids(Page(c))]
    BY <1>4 DEF EndList
  <2>2. PICK more : more = Ids(Page(c))
    OBVIOUS
  <2>3. PICK v : v = [w EXCEPT !.cursor = next, !.listed = @ \union more]
    OBVIOUS
  <2>4. walk' = [walk EXCEPT ![c] = v]
    BY <1>1, <2>1, <2>2, <2>3 DEF ViewsInv
  <2>5. v.cursor = next /\ v.listed = w.listed \union more /\ v.stayed = w.stayed
    BY <1>2, <2>3 DEF WalkRecord
  <2>6. WalkInv(v, job, now) /\ next \in Item /\ next \in Page(c)
    BY <1>1, <2>2, <2>5, EndsList, NextPage
  <2>7. more \subseteq JobId /\ next.id \in more
    <3>1. Page(c) \subseteq Item
      BY EndsList DEF Page, AfterCursor
    <3>. QED
      BY <2>2, <2>6, <3>1 DEF Ids, Item
  <2>8. v \in WalkRecord
    BY <1>2, <2>3, <2>6, <2>7 DEF WalkRecord
  <2>. QED
    BY <1>3, <2>4, <2>5, <2>6, <2>7, <2>8
<1>5. CASE ~HasMore(c)
  <2>1. walk' = [walk EXCEPT ![c] = NoWalk]
    BY <1>5 DEF EndList
  <2>2. WalkInv(NoWalk, job, now)
    BY NoRequestTyped DEF WalkInv
  <2>. QED
    BY <1>3, <2>1, <2>2, NoRequestTyped
<1>. QED
  BY <1>4, <1>5

----------------------------------------------------------------------------
\* Whatever moves the queue here is a step of RunQueue.
LEMMA CryptsMoves ==
  ASSUME Crypts \/ Others
  PROVE  Next
<1>1. ASSUME NEW l \in issued, CompleteCanceled(l) \/ CompleteJobSucceeded(l) \/ CompleteJobFailed(l)
                                \/ \E t \in TaskId : CompleteJobWaitingHuman(l, t)
      PROVE  Next
  <2>1. Complete(l)
    BY <1>1 DEF Complete
  <2>. QED
    BY <2>1 DEF Next
<1>2. CASE \E r \in RunId, j \in JobId : CreateRunAndEnqueue(r, j) \/ RetryRun(r, j)
  BY <1>2 DEF Next
<1>3. CASE \E t \in TaskId, j \in JobId : ResumeHumanTask(t, j)
  BY <1>3 DEF Next
<1>4. CASE \E w \in WorkerId, j \in JobId : ClaimJobForWorker(w, j)
  BY <1>4 DEF Next
<1>5. CASE \E l \in issued : HeartbeatJob(l)
  BY <1>5 DEF Next
<1>6. CASE \E j \in JobId : CancelJob(j)
  BY <1>6 DEF Next
<1>7. CASE \E r \in RunId : CancelRun(r)
  BY <1>7 DEF Next
<1>8. CASE \E stuckBefore \in 0..now : ExpireStuckJobs(stuckBefore)
  BY <1>8 DEF Next
<1>9. CASE \E s, f \in 0..now : PruneSettledJobs(s, f)
  BY <1>9 DEF Next
<1>. QED
  BY <1>1, <1>2, <1>3, <1>4, <1>5, <1>6, <1>7, <1>8, <1>9 DEF Crypts, Others

LEMMA QueueMoves ==
  ASSUME ViewsNext
  PROVE  [Next]_vars
<1>1. CASE QueueStep
  <2>1. CASE Others
    BY <2>1, CryptsMoves
  <2>2. CASE Tick
    BY <2>2 DEF Next
  <2>. QED
    BY <1>1, <2>1, <2>2 DEF QueueStep
<1>2. ASSUME NEW c \in Client, Request(c) \/ Serve(c) PROVE [Next]_vars
  <2>1. CASE CommitTx(c)
    BY <2>1, CryptsMoves DEF CommitTx, Quiet
  <2>2. CASE ~CommitTx(c)
    BY <1>2, <2>2 DEF Request, Serve, BeginGet, BeginAwait, BeginList, BeginTx, Poll, ReadJob,
       ReadRun, AwaitRun, Deadline, NextRow, EndList, Quiet
  <2>. QED
    BY <2>1, <2>2
<1>. QED
  BY <1>1, <1>2 DEF ViewsNext

LEMMA ViewsInvStep ==
  ASSUME ViewsInv, [ViewsNext]_all
  PROVE  ViewsInv'
<1>1. CASE UNCHANGED all
  <2>1. UNCHANGED vars /\ req' = req /\ walk' = walk /\ job' = job /\ run' = run /\ now' = now
    BY <1>1 DEF all, views, vars
  <2>2. QueueInv' /\ JobsPast(job', now')
    BY <2>1, QueuePasses DEF ViewsInv
  <2>. QED
    BY <2>1, <2>2 DEF ViewsInv
<1>2. CASE QueueStep
  <2>1. [Next]_vars
    BY <1>2, QueueMoves DEF ViewsNext
  <2>. QED
    BY <1>2, <2>1, QueueStepKeeps DEF QueueStep
<1>3. ASSUME NEW c \in Client, CommitTx(c) PROVE ViewsInv'
  <2>1. [Next]_vars
    BY <1>3, QueueMoves DEF ViewsNext, Serve
  <2>2. PICK requests : requests = [req EXCEPT ![c] = NoRequest]
    OBVIOUS
  <2>3. \A d \in Client : requests[d] = req[d] \/ requests[d] = NoRequest
    BY <2>2 DEF ViewsInv
  <2>4. Witnessed(requests) /\ Stays
    BY <1>3, <2>2 DEF CommitTx
  <2>. QED
    BY <2>1, <2>3, <2>4, QueueStepKeeps
<1>4. ASSUME NEW c \in Client, Request(c) PROVE ViewsInv'
  BY <1>4, BeginKeeps, BeginListKeeps, WaitKeeps DEF Request
<1>5. ASSUME NEW c \in Client, Serve(c) PROVE ViewsInv'
  BY <1>3, <1>5, ReadJobKeeps, ReadRunKeeps, WaitKeeps, NextRowKeeps, EndListKeeps DEF Serve
<1>. QED
  BY <1>1, <1>2, <1>4, <1>5 DEF ViewsNext

LEMMA InitViewsInv == ViewsInit => ViewsInv
<1>. SUFFICES ASSUME ViewsInit PROVE ViewsInv
  OBVIOUS
<1>1. QueueInv
  BY InitQueueInv DEF ViewsInit
<1>2. Stored(job) = {} /\ JobsPast(job, now)
  BY DEF ViewsInit, Init, AbsentJob, Stored, JobsPast
<1>3. ASSUME NEW c \in Client PROVE ClientInv(req[c], walk[c], job, run, now)
  <2>1. req[c] = NoRequest /\ walk[c] = NoWalk
    BY DEF ViewsInit
  <2>2. ClientInv(NoRequest, NoWalk, job, run, now)
    BY NoRequestTyped DEF ClientInv, SeenTruly, Reading, ListInv, WalkInv
  <2>. QED
    BY <2>1, <2>2
<1>4. req = [c \in Client |-> req[c]] /\ walk = [c \in Client |-> walk[c]]
  BY DEF ViewsInit
<1>. QED
  BY <1>1, <1>2, <1>3, <1>4 DEF ViewsInv

\* ViewsInvCorrect: the inductive invariant of what clients read and page through.
THEOREM ViewsInvCorrect == ViewsSpec => []ViewsInv
BY InitViewsInv, ViewsInvStep, PTL DEF ViewsSpec

\* ViewsTyped: the types of the views.
THEOREM ViewsTyped == ViewsSpec => []ViewsTypeOK
<1>1. ViewsInv => ViewsTypeOK
  <2>. SUFFICES ASSUME ViewsInv PROVE ViewsTypeOK
    OBVIOUS
  <2>1. \A c \in Client : /\ req[c] \in RequestRecord /\ walk[c] \in WalkRecord
                          /\ (walk[c].cursor # NoCursor => walk[c].cursor.id \in walk[c].listed)
    BY DEF ViewsInv, ClientInv
  <2>2. req \in [Client -> RequestRecord] /\ walk \in [Client -> WalkRecord]
    BY <2>1 DEF ViewsInv
  <2>3. TypeOK
    BY DEF ViewsInv, QueueInv
  <2>. QED
    BY <2>1, <2>2, <2>3 DEF ViewsTypeOK, RequestRecord, WalkRecord
<1>. QED
  BY <1>1, ViewsInvCorrect, PTL

\* AnswersAlwaysTrue: a status that is put together from a job and a run read at two
\* moments was the status of the job at one of the moments between them, or the job was
\* gone in between.
THEOREM AnswersAlwaysTrue == ViewsSpec => AnswersWereTrue
<1>1. ViewsInv /\ [ViewsNext]_all =>
        \A c \in Client : ReadRun(c) => req[c].views \cap {Shown(c), "absent"} # {}
  <2>. SUFFICES ASSUME ViewsInv, NEW c \in Client, ReadRun(c)
                PROVE  req[c].views \cap {Shown(c), "absent"} # {}
    OBVIOUS
  <2>1. QueueInv /\ At(c, "run") /\ ~In(c, "await") /\ SeenTruly(req[c], job, run)
    BY DEF ViewsInv, ClientInv, ReadRun
  <2>. QED
    BY <2>1, AnswerTrue
<1>. QED
  BY <1>1, ViewsInvCorrect, PTL DEF AnswersWereTrue, ViewsSpec

\* WalksAlwaysComplete: who reads the pages of a list to the end gets every job that was
\* there all the time, and none twice.
THEOREM WalksAlwaysComplete == ViewsSpec => WalkComplete
<1>1. ViewsInv /\ [ViewsNext]_all =>
        \A c \in Client : EndList(c) =>
          /\ Ids(Page(c)) \cap walk[c].listed = {}
          /\ ~HasMore(c) => walk[c].stayed \subseteq walk[c].listed \union Ids(Page(c))
  BY EndsList, PageHolds
<1>. QED
  BY <1>1, ViewsInvCorrect, PTL DEF WalkComplete, ViewsSpec

----------------------------------------------------------------------------
(* Connections.                                                             *)

\* As many requests may need two connections as the load is assumed to have.
DoublesInv ==
  /\ req = [c \in Client |-> req[c]]
  /\ IsFiniteSet({c \in Client : Doubles(c)})
  /\ Cardinality({c \in Client : Doubles(c)}) <= MaxDoubles

LEMMA FewerDoubles ==
  ASSUME DoublesInv, req' = [c \in Client |-> req'[c]],
         \A c \in Client : req'[c].op \in {"list", "tx"} => req[c].op \in {"list", "tx"}
  PROVE  DoublesInv'
<1> DEFINE old == {c \in Client : Doubles(c)}
           new == {c \in Client : Doubles(c)'}
<1>1. new \subseteq old
  BY DEF Doubles, In
<1>2. IsFiniteSet(old) /\ Cardinality(old) <= MaxDoubles
  BY DEF DoublesInv
<1> HIDE DEF old, new
<1>3. IsFiniteSet(new) /\ Cardinality(new) <= Cardinality(old)
  BY <1>1, <1>2, FS_Subset
<1>4. Cardinality(new) \in Nat /\ Cardinality(old) \in Nat /\ MaxDoubles \in Nat
  BY <1>2, <1>3, FS_CardinalityType, ViewAssumption
<1>5. Cardinality(new) <= MaxDoubles
  BY <1>2, <1>3, <1>4
<1>. QED
  BY <1>3, <1>5 DEF DoublesInv, new

LEMMA AnotherDouble ==
  ASSUME DoublesInv, NEW c \in Client, In(c, "none"), DoublesAllowed, NEW x, Becomes(c, x)
  PROVE  DoublesInv'
<1> DEFINE old == {d \in Client : Doubles(d)}
           new == {d \in Client : Doubles(d)'}
<1>1. new \subseteq old \union {c} /\ c \notin old
  BY DEF Doubles, In, Becomes, DoublesInv
<1>2. IsFiniteSet(old) /\ Cardinality(old) < MaxDoubles
  BY DEF DoublesInv, DoublesAllowed
<1>3. req' = [d \in Client |-> req'[d]]
  BY DEF DoublesInv, Becomes
<1> HIDE DEF old, new
<1>4. IsFiniteSet(old \union {c}) /\ Cardinality(old \union {c}) = Cardinality(old) + 1
  BY <1>1, <1>2, FS_AddElement
<1>5. IsFiniteSet(new) /\ Cardinality(new) <= Cardinality(old \union {c})
  BY <1>1, <1>4, FS_Subset
<1>6. Cardinality(new) \in Nat /\ Cardinality(old) \in Nat /\ MaxDoubles \in Nat
  BY <1>2, <1>5, FS_CardinalityType, ViewAssumption
<1>7. Cardinality(new) <= MaxDoubles
  BY <1>2, <1>4, <1>5, <1>6
<1>. QED
  BY <1>3, <1>5, <1>7 DEF DoublesInv, new

LEMMA DoublesStep ==
  ASSUME ViewsInv, DoublesInv, [ViewsNext]_all
  PROVE  DoublesInv'
<1>1. CASE UNCHANGED req
  BY <1>1 DEF DoublesInv, Doubles, In
<1>2. ASSUME NEW c \in Client, NEW x, Becomes(c, x),
             x.op \in {"list", "tx"} => req[c].op \in {"list", "tx"}
      PROVE  DoublesInv'
  BY <1>2, FewerDoubles DEF Becomes, DoublesInv
<1>3. ASSUME NEW c \in Client, Answer(c) PROVE DoublesInv'
  <2>1. Becomes(c, NoRequest)
    BY <1>3 DEF Answer, Becomes
  <2>. QED
    BY <1>2, <2>1, NoRequestTyped
<1>4. ASSUME NEW requests, Witnessed(requests),
             \A c \in Client : requests[c] = req[c] \/ requests[c] = NoRequest
      PROVE  DoublesInv'
  <2>1. ASSUME NEW c \in Client PROVE req'[c].op = requests[c].op
    <3>1. PICK o \in RequestRecord : o = requests[c]
      BY <1>4, NoRequestTyped DEF ViewsInv, ClientInv
    <3>2. req'[c] = o \/ \E u : req'[c] = [o EXCEPT !.views = u]
      BY <1>4, <3>1 DEF Witnessed
    <3>3. req'[c].op = o.op
      BY <3>2 DEF RequestRecord
    <3>. QED
      BY <3>1, <3>3
  <2>. QED
    BY <1>4, <2>1, NoRequestTyped, FewerDoubles DEF Witnessed
<1>5. ASSUME NEW c \in Client, Request(c) PROVE DoublesInv'
  <2>1. CASE BeginTx(c) \/ BeginList(c)
    BY <2>1, AnotherDouble DEF BeginTx, BeginList
  <2>2. ASSUME NEW j \in JobId, BeginGet(c, j) PROVE DoublesInv'
    <3>1. PICK op \in {"get", "wait"} : Becomes(c, [NoRequest EXCEPT !.op = op, !.stage = "job", !.job = j])
      BY <2>2 DEF BeginGet
    <3>2. [NoRequest EXCEPT !.op = op, !.stage = "job", !.job = j].op = op
      BY DEF NoRequest
    <3>. QED
      BY <1>2, <3>1, <3>2
  <2>3. ASSUME NEW r \in RunId, BeginAwait(c, r) PROVE DoublesInv'
    <3>1. [NoRequest EXCEPT !.op = "await", !.stage = "run", !.of = r].op = "await"
      BY DEF NoRequest
    <3>. QED
      BY <1>2, <2>3, <3>1 DEF BeginAwait
  <2>4. CASE Poll(c)
    <3>1. PICK o \in RequestRecord : o = req[c]
      BY DEF ViewsInv, ClientInv
    <3>2. PICK s : s = IF In(c, "wait") THEN "job" ELSE "run"
      OBVIOUS
    <3>3. PICK x : x = [o EXCEPT !.stage = s, !.views = {}]
      OBVIOUS
    <3>4. x.op = o.op
      BY <3>3 DEF RequestRecord
    <3>5. Becomes(c, x)
      BY <2>4, <3>1, <3>2, <3>3 DEF Poll
    <3>. QED
      BY <1>2, <3>1, <3>4, <3>5
  <2>. QED
    BY <1>5, <2>1, <2>2, <2>3, <2>4 DEF Request
<1>6. ASSUME NEW c \in Client, Serve(c) PROVE DoublesInv'
  <2>1. PICK o \in RequestRecord : o = req[c]
    BY DEF ViewsInv, ClientInv
  <2>2. CASE Answer(c)
    BY <1>3, <2>2
  <2>3. ASSUME NEW x, Becomes(c, x), x.op = o.op PROVE DoublesInv'
    BY <1>2, <2>1, <2>3
  <2>4. CASE CommitTx(c)
    <3>1. PICK requests : requests = [req EXCEPT ![c] = NoRequest]
      OBVIOUS
    <3>2. \A d \in Client : requests[d] = req[d] \/ requests[d] = NoRequest
      BY <3>1 DEF DoublesInv
    <3>. QED
      BY <1>4, <2>4, <3>1, <3>2 DEF CommitTx
  <2>5. ASSUME ReadJob(c), ~Answer(c) PROVE DoublesInv'
    <3>1. PICK j : j = o.job
      OBVIOUS
    <3>2. CASE j \in StoredJobs
      <4>1. PICK n : n = job[j].run
        OBVIOUS
      <4>2. PICK m : m = job[j].state
        OBVIOUS
      <4>3. PICK t : t = job[j].created
        OBVIOUS
      <4>4. PICK v : v = {View(j)}
        OBVIOUS
      <4>5. PICK x : x = [o EXCEPT !.stage = "run", !.of = n, !.seen = m, !.created = t, !.views = v]
        OBVIOUS
      <4>6. x.op = o.op
        BY <4>5 DEF RequestRecord
      <4>7. Becomes(c, x)
        BY <2>1, <2>5, <3>1, <3>2, <4>1, <4>2, <4>3, <4>4, <4>5 DEF ReadJob
      <4>. QED
        BY <2>3, <4>6, <4>7
    <3>3. CASE j \notin StoredJobs
      <4>1. PICK x : x = [o EXCEPT !.stage = "rows"]
        OBVIOUS
      <4>2. x.op = o.op
        BY <4>1 DEF RequestRecord
      <4>3. Becomes(c, x)
        BY <2>1, <2>5, <3>1, <3>3, <4>1 DEF ReadJob
      <4>. QED
        BY <2>3, <4>2, <4>3
    <3>. QED
      BY <3>2, <3>3
  <2>6. ASSUME ReadRun(c), ~Answer(c) PROVE DoublesInv'
    <3>1. PICK y : y = [id |-> o.job, created |-> o.created]
      OBVIOUS
    <3>2. PICK x : x = [o EXCEPT !.stage = "rows", !.items = @ \union {y}]
      OBVIOUS
    <3>3. PICK z : z = [o EXCEPT !.stage = "sleep"]
      OBVIOUS
    <3>4. x.op = o.op /\ z.op = o.op
      BY <3>2, <3>3 DEF RequestRecord
    <3>5. Becomes(c, x) \/ Becomes(c, z)
      BY <2>1, <2>6, <3>1, <3>2, <3>3 DEF ReadRun
    <3>. QED
      BY <2>3, <3>4, <3>5
  <2>7. ASSUME AwaitRun(c), ~Answer(c) PROVE DoublesInv'
    <3>1. PICK z : z = [o EXCEPT !.stage = "sleep"]
      OBVIOUS
    <3>2. z.op = o.op
      BY <3>1 DEF RequestRecord
    <3>3. Becomes(c, z)
      BY <2>1, <2>7, <3>1 DEF AwaitRun
    <3>. QED
      BY <2>3, <3>2, <3>3
  <2>8. ASSUME NEW j \in JobId, NextRow(c, j) PROVE DoublesInv'
    <3>1. PICK x : x = [o EXCEPT !.stage = "job", !.job = j, !.rows = @ \ {j}]
      OBVIOUS
    <3>2. x.op = o.op
      BY <3>1 DEF RequestRecord
    <3>3. Becomes(c, x)
      BY <2>1, <2>8, <3>1 DEF NextRow
    <3>. QED
      BY <2>3, <3>2, <3>3
  <2>. QED
    BY <1>6, <2>2, <2>4, <2>5, <2>6, <2>7, <2>8 DEF Serve, Deadline, EndList
<1>7. CASE QueueStep
  BY <1>4, <1>7 DEF QueueStep
<1>. QED
  BY <1>1, <1>5, <1>6, <1>7 DEF ViewsNext, all, views

\* PoolAlwaysServes: as long as fewer requests than there are connections may need two of
\* them, there is always a free connection, so nobody waits in a circle.
THEOREM PoolAlwaysServes ==
  ASSUME MaxDoubles < MaxConns
  PROVE  ViewsSpec => [](Free > 0) /\ []PoolNeverStarves
<1>1. ViewsInit => DoublesInv
  <2>. SUFFICES ASSUME ViewsInit PROVE DoublesInv
    OBVIOUS
  <2>1. {c \in Client : Doubles(c)} = {}
    BY NoRequestTyped DEF ViewsInit, Doubles, In
  <2>. QED
    BY <2>1, FS_EmptySet, ViewAssumption DEF ViewsInit, DoublesInv
<1>2. DoublesInv => Free > 0
  <2>1. DoublesInv => Cardinality({c \in Client : Doubles(c)}) \in Nat
    BY FS_CardinalityType DEF DoublesInv
  <2>. QED
    BY <2>1, ViewAssumption DEF DoublesInv, Free, Holds
<1>3. Free > 0 => PoolNeverStarves
  <2>1. Free > 0 => Free # 0
    OBVIOUS
  <2>. QED
    BY <2>1 DEF PoolNeverStarves
<1>. QED
  BY <1>1, <1>2, <1>3, DoublesStep, ViewsInvCorrect, PTL DEF ViewsSpec

----------------------------------------------------------------------------
(* The lock file: an update is one step, for any number of callers, updates *)
(* and crashes, as long as no lock is taken from who holds it.              *)

\* Who holds the lock made it.
Made(c) == Holding(c) => lock # NoLock /\ lock.by = c

\* What a caller loaded is what the snapshot still is, and what it will rename is that
\* with its own update.
Current(c) ==
  /\ pc[c] \in {"truncate", "fill", "rename"} => seen[c] = file
  /\ pc[c] = "rename" => tmp = Updated(c)

\* What a caller was told, and what it is about to be told, is there.
Promised(c) ==
  /\ file[c] >= done[c]
  /\ pc[c] = "return" => file[c] >= done[c] + 1

LockInv == LockTypeOK /\ (~stolen => file # Torn /\ \A c \in Caller : Made(c) /\ Current(c) /\ Promised(c))

LEMMA NewLock ==
  ASSUME LockAssumption, NEW c \in Caller, NEW l, l = [by |-> c, stale |-> FALSE]
  PROVE  l \in [by: Caller, stale: BOOLEAN] /\ l # NoLock /\ l.by = c
<1>1. l \in [by: Caller, stale: BOOLEAN] /\ l.by = c
  OBVIOUS
<1> QED
  BY <1>1, LockAssumption DEF LockAssumption

LEMMA Initially == ASSUME LockAssumption, LockInit PROVE LockInv
<1>1. NoUpdates \in Snapshot /\ NoUpdates # Torn
  BY LockAssumption DEF LockAssumption, NoUpdates, Snapshot
<1>2. LockTypeOK
  BY <1>1 DEF LockInit, LockTypeOK, HoldingStates
<1>3. ASSUME NEW c \in Caller PROVE Made(c) /\ Current(c) /\ Promised(c)
  BY DEF LockInit, NoUpdates, Holding, HoldingStates, Made, Current, Promised
<1> QED
  BY <1>1, <1>2, <1>3 DEF LockInit, LockInv

LEMMA Typed == ASSUME LockAssumption, LockTypeOK, [LockNext]_lockVars PROVE LockTypeOK'
<1> USE DEF LockTypeOK, HoldingStates
<1>1. ASSUME NEW c \in Caller, NEW from, NEW to, Goto(c, from, to),
             to \in {"idle", "create", "stat", "remove"} \union HoldingStates
      PROVE  pc' \in [Caller -> {"idle", "create", "stat", "remove"} \union HoldingStates]
  BY <1>1 DEF Goto
<1>2. ASSUME NEW c \in Caller, Step(c) \/ GiveUp(c) PROVE LockTypeOK'
  <2>1. CASE Begin(c) \/ Stat(c) \/ GiveUp(c) \/ Fail(c)
    BY <1>1, <2>1 DEF Begin, Stat, GiveUp, Fail
  <2>2. CASE Create(c)
    <3>1. /\ UNCHANGED <<file, tmp, seen, done, crashes, slow, stolen>>
          /\ lock' = lock \/ lock' = [by |-> c, stale |-> FALSE]
      BY <2>2 DEF Create
    <3>2. \E to \in {"load", "stat"} : Goto(c, "create", to)
      BY <2>2 DEF Create
    <3>3. pc' \in [Caller -> {"idle", "create", "stat", "remove"} \union HoldingStates]
      BY <1>1, <3>2
    <3>4. lock' \in [by: Caller, stale: BOOLEAN] \union {NoLock}
      BY <3>1, NewLock
    <3> QED
      BY <3>1, <3>3, <3>4
  <2>3. CASE RemoveStale(c)
    BY <1>1, <2>3 DEF RemoveStale, RemoveLock
  <2>4. CASE Load(c)
    BY <1>1, <2>4 DEF Load
  <2>5. CASE Truncate(c)
    BY <1>1, <2>5 DEF Truncate
  <2>6. CASE Fill(c)
    <3>1. Updated(c) \in Snapshot
      BY DEF Updated, Snapshot
    <3> QED
      BY <1>1, <2>6, <3>1 DEF Fill
  <2>7. CASE Rename(c)
    BY <1>1, <2>7 DEF Rename
  <2>8. CASE Return(c)
    BY <1>1, <2>8 DEF Return, RemoveLock
  <2> QED
    BY <1>2, <2>1, <2>2, <2>3, <2>4, <2>5, <2>6, <2>7, <2>8 DEF Step
<1>3. CASE Age
  BY <1>3 DEF Age
<1>4. CASE Crash
  BY <1>4 DEF Crash
<1>5. CASE UNCHANGED lockVars
  BY <1>5 DEF lockVars
<1> QED
  BY <1>2, <1>3, <1>4, <1>5 DEF LockNext

\* A lock that was taken stays taken, for the model.
LEMMA StolenStays == ASSUME LockTypeOK, [LockNext]_lockVars PROVE stolen => stolen'
BY DEF LockTypeOK, LockNext, Step, Begin, Create, Stat, RemoveStale, RemoveLock, GiveUp, Load, Truncate,
   Fill, Rename, Fail, Return, Age, Crash, lockVars

\* One caller at a time is under the lock.
LEMMA OneHolder ==
  ASSUME LockInv, ~stolen, NEW c \in Caller, NEW d \in Caller, Holding(c), Holding(d)
  PROVE  c = d
BY DEF LockInv, Made

\* The step of a caller that holds the lock leaves the others what they rely on.
LEMMA HolderStep ==
  ASSUME LockAssumption, LockInv, ~stolen', NEW c \in Caller,
         Load(c) \/ Truncate(c) \/ Fill(c) \/ Rename(c) \/ Fail(c)
  PROVE  LockInv' /\ (file' = file \/ Added(c))
<1>1. ~stolen /\ LockTypeOK /\ Step(c)
  BY DEF LockInv, Step, Load, Truncate, Fill, Rename, Fail
<1>2. LockTypeOK'
  BY <1>1, Typed DEF LockNext
<1>3. /\ lock' = lock /\ done' = done /\ Holding(c) /\ Holding(c)'
      /\ \A d \in Caller : d # c => pc'[d] = pc[d] /\ seen'[d] = seen[d] /\ ~Holding(d)
  <2>1. Holding(c) /\ Holding(c)' /\ lock' = lock /\ done' = done
    BY <1>1 DEF LockTypeOK, Load, Truncate, Fill, Rename, Fail, Goto, Holding, HoldingStates
  <2>2. \A d \in Caller : d # c => pc'[d] = pc[d] /\ seen'[d] = seen[d]
    BY <1>1 DEF LockTypeOK, Load, Truncate, Fill, Rename, Fail, Goto
  <2> QED
    BY <1>1, <2>1, <2>2, OneHolder
<1>4. /\ file \in Snapshot /\ Made(c) /\ Current(c) /\ Promised(c)
      /\ file[c] \in Nat /\ done[c] \in Nat
  BY <1>1 DEF LockInv, LockTypeOK, Snapshot
<1>5. /\ file' = file \/ Added(c)
      /\ file' # Torn /\ Current(c)' /\ Promised(c)'
  <2>1. CASE Load(c)
    <3>1. file' = file /\ seen'[c] = file /\ pc'[c] = "truncate"
      BY <1>1, <2>1 DEF LockTypeOK, Load, Goto
    <3> QED
      BY <1>3, <1>4, <2>1, <3>1 DEF Load, Current, Promised
  <2>2. CASE Truncate(c)
    <3>1. file' = file /\ seen' = seen /\ pc'[c] = "fill" /\ pc[c] = "truncate"
      BY <1>1, <2>2 DEF LockTypeOK, Truncate, Goto
    <3> QED
      BY <1>1, <1>3, <1>4, <3>1, LockAssumption DEF LockAssumption, Current, Promised, Snapshot
  <2>3. CASE Fill(c)
    <3>1. /\ file' = file /\ seen' = seen /\ pc'[c] = "rename" /\ pc[c] = "fill"
          /\ tmp' = Updated(c)
      BY <1>1, <2>3 DEF LockTypeOK, Fill, Goto
    <3> QED
      BY <1>1, <1>3, <1>4, <3>1, LockAssumption DEF LockAssumption, Current, Promised, Snapshot, Updated
  <2>4. CASE Rename(c)
    <3>1. /\ file' = [file EXCEPT ![c] = @ + 1] /\ pc'[c] = "return"
      BY <1>1, <1>4, <2>4 DEF LockTypeOK, Rename, Goto, Current, Updated
    <3>2. file' \in Snapshot /\ file'[c] = file[c] + 1
      BY <1>4, <3>1 DEF Snapshot
    <3>3. Torn \notin Snapshot
      BY LockAssumption DEF LockAssumption, Snapshot
    <3>4. file # Torn /\ file' # Torn
      BY <1>4, <3>2, <3>3
    <3>5. Added(c)
      BY <3>1, <3>4 DEF Added
    <3>6. Promised(c)'
      BY <1>3, <1>4, <3>2 DEF Promised
    <3>7. Current(c)'
      BY <3>1 DEF Current
    <3> QED
      BY <3>4, <3>5, <3>6, <3>7
  <2>5. CASE Fail(c)
    <3>1. file' = file /\ seen' = seen /\ pc'[c] = "fail"
      BY <1>1, <2>5 DEF LockTypeOK, Fail, Goto
    <3> QED
      BY <1>1, <1>3, <1>4, <3>1, LockAssumption DEF LockAssumption, Current, Promised, Snapshot
  <2> QED
    BY <2>1, <2>2, <2>3, <2>4, <2>5
<1>6. ASSUME NEW d \in Caller, d # c PROVE Made(d)' /\ Current(d)' /\ Promised(d)'
  <2>1. /\ pc'[d] = pc[d] /\ ~Holding(d)
    BY <1>3, <1>6
  <2>2. file'[d] = file[d] /\ Promised(d)
    BY <1>1, <1>4, <1>5, <1>6 DEF Added, LockInv, Snapshot
  <2> QED
    BY <1>3, <2>1, <2>2 DEF Made, Current, Promised, Holding, HoldingStates
<1>7. Made(c)'
  BY <1>3, <1>4 DEF Made
<1> QED
  BY <1>2, <1>5, <1>6, <1>7 DEF LockInv

\* A step outside the lock, or one that takes it or gives it back, leaves the snapshot.
LEMMA OtherStep ==
  ASSUME LockAssumption, LockInv, ~stolen', NEW c \in Caller,
         Begin(c) \/ Create(c) \/ Stat(c) \/ RemoveStale(c) \/ GiveUp(c) \/ Return(c)
  PROVE  LockInv' /\ file' = file
<1>1. LockTypeOK /\ [LockNext]_lockVars /\ ~stolen /\ file' = file /\ file \in Snapshot
  <2>1. [LockNext]_lockVars
    BY DEF LockNext, Step
  <2>2. LockTypeOK /\ ~stolen
    BY <2>1, StolenStays DEF LockInv
  <2> QED
    BY <2>1, <2>2 DEF LockInv, LockTypeOK, Begin, Create, Stat, RemoveStale, GiveUp, Return
<1>2. LockTypeOK'
  BY <1>1, Typed
<1>3. /\ \A d \in Caller : d # c => pc'[d] = pc[d] /\ done'[d] = done[d]
      /\ seen' = seen /\ tmp' = tmp
      /\ pc'[c] \in {"idle", "create", "stat", "remove", "load"}
      /\ pc'[c] = "load" => lock' # NoLock /\ lock'.by = c /\ lock = NoLock
      /\ done'[c] = done[c] \/ (pc[c] = "return" /\ done'[c] = done[c] + 1)
  <2>1. CASE Create(c)
    <3>1. seen' = seen /\ tmp' = tmp /\ done' = done
      BY <2>1 DEF Create
    <3>2. CASE lock = NoLock
      <4>1. pc' = [pc EXCEPT ![c] = "load"] /\ lock' = [by |-> c, stale |-> FALSE]
        BY <2>1, <3>2 DEF Create, Goto
      <4>2. lock' # NoLock /\ lock'.by = c
        BY <4>1, NewLock
      <4> QED
        BY <1>1, <3>1, <3>2, <4>1, <4>2 DEF LockTypeOK
    <3>3. CASE lock # NoLock
      <4>1. pc' = [pc EXCEPT ![c] = "stat"]
        BY <2>1, <3>3 DEF Create, Goto
      <4> QED
        BY <1>1, <3>1, <4>1 DEF LockTypeOK
    <3> QED
      BY <3>2, <3>3
  <2>2. CASE Begin(c) \/ Stat(c) \/ GiveUp(c)
    BY <1>1, <2>2 DEF LockTypeOK, Begin, Stat, GiveUp, Goto
  <2>3. CASE RemoveStale(c)
    BY <1>1, <2>3 DEF LockTypeOK, RemoveStale, Goto
  <2>4. CASE Return(c)
    BY <1>1, <2>4 DEF LockTypeOK, Return, Goto
  <2> QED
    BY <2>1, <2>2, <2>3, <2>4
<1>4. ASSUME NEW d \in Caller PROVE Current(d)' /\ Promised(d)'
  <2>1. Current(d) /\ Promised(d) /\ done[d] \in Nat /\ file[d] \in Nat
    BY <1>1 DEF LockInv, LockTypeOK, Snapshot
  <2>2. CASE d # c
    BY <1>1, <1>3, <2>1, <2>2 DEF Current, Promised, Updated
  <2>3. CASE d = c
    BY <1>1, <1>3, <2>1, <2>3 DEF Current, Promised
  <2> QED
    BY <2>2, <2>3
<1>5. ASSUME NEW d \in Caller, Holding(d)' PROVE lock' # NoLock /\ lock'.by = d
  <2>1. CASE d = c
    BY <1>3, <1>5, <2>1 DEF Holding, HoldingStates
  <2>2. CASE d # c
    <3>1. Holding(d) /\ lock # NoLock /\ lock.by = d
      BY <1>1, <1>3, <1>5, <2>2 DEF LockInv, Made, Holding
    <3>2. ~RemoveLock(c)
      BY <2>2, <3>1 DEF RemoveLock
    <3>3. lock' = lock
      BY <3>1, <3>2 DEF Begin, Create, Stat, RemoveStale, GiveUp, Return
    <3> QED
      BY <3>1, <3>3
  <2> QED
    BY <2>1, <2>2
<1> QED
  BY <1>1, <1>2, <1>4, <1>5 DEF LockInv, Made, Snapshot

LEMMA LockStep ==
  ASSUME LockAssumption, LockInv, [LockNext]_lockVars
  PROVE  LockInv' /\ (~stolen' => file' = file \/ \E c \in Caller : Added(c))
<1>1. LockTypeOK' /\ (stolen => stolen')
  BY Typed, StolenStays DEF LockInv
<1>2. CASE stolen'
  BY <1>1, <1>2 DEF LockInv
<1>3. CASE ~stolen'
  <2>1. ASSUME NEW c \in Caller, Step(c) \/ GiveUp(c)
        PROVE  LockInv' /\ (file' = file \/ Added(c))
    BY <1>3, <2>1, HolderStep, OtherStep DEF Step
  <2>2. CASE Age
    <3>1. /\ UNCHANGED <<file, tmp, pc, seen, done>>
          /\ lock # NoLock /\ lock' = [lock EXCEPT !.stale = TRUE]
      BY <2>2 DEF Age
    <3>2. lock' # NoLock /\ lock'.by = lock.by
      BY <3>1, LockAssumption DEF LockAssumption, LockInv, LockTypeOK
    <3> QED
      BY <1>1, <1>3, <3>1, <3>2 DEF LockInv, Made, Current, Promised, Holding, Updated
  <2>3. CASE Crash
    <3>1. /\ UNCHANGED <<lock, file, tmp, seen, done>>
          /\ \A c \in Caller : pc'[c] = "idle"
      BY <2>3 DEF Crash
    <3> QED
      BY <1>1, <1>3, <3>1 DEF LockInv, Made, Current, Promised, Holding, HoldingStates
  <2>4. CASE UNCHANGED lockVars
    BY <1>1, <1>3, <2>4 DEF lockVars, LockInv, Made, Current, Promised, Holding, Updated
  <2> QED
    BY <2>1, <2>2, <2>3, <2>4 DEF LockNext
<1> QED
  BY <1>2, <1>3

\* The inductive invariant.
THEOREM LockInvCorrect == ASSUME LockAssumption PROVE LockSpec => []LockInv
<1>1. LockInv /\ [LockNext]_lockVars => LockInv'
  BY LockStep
<1> QED
  BY <1>1, Initially, PTL DEF LockSpec

\* While no lock is taken from who holds it, an update is one step (update, write).
THEOREM UpdatesAreAtomic == ASSUME LockAssumption PROVE LockSpec => UpdatesAtomic
<1>1. LockInv /\ [LockNext]_lockVars =>
        [~stolen' => file' = file \/ \E c \in Caller : Added(c)]_lockVars
  BY LockStep
<1> QED
  BY <1>1, LockInvCorrect, PTL DEF LockSpec, UpdatesAtomic

\* What returned without an error is in the snapshot.
THEOREM UpdatesStay == ASSUME LockAssumption PROVE LockSpec => []UpdatesKept
<1>1. ASSUME LockInv, ~stolen
      PROVE  file # Torn /\ \A c \in Caller : file[c] >= done[c]
  <2>1. file # Torn /\ \A c \in Caller : Promised(c)
    BY <1>1 DEF LockInv
  <2> QED
    BY <2>1 DEF Promised
<1>2. LockInv => UpdatesKept
  BY <1>1 DEF UpdatesKept
<1> QED
  BY <1>2, LockInvCorrect, PTL
=============================================================================
