---------------------------- MODULE JobExecution ----------------------------
(***************************************************************************)
(* What happens between the claim of a job and its settlement: the loop of *)
(* a worker process (internal/worker/worker.go), over a store of its own   *)
(* or over the worker plane (internal/remoteworker, worker_plane.go), the  *)
(* heartbeats of the job it runs, and the processes its action consists of *)
(* (internal/runtime, internal/runner, internal/executor).                 *)
(*                                                                         *)
(* The store is the queue of RunQueue, reduced to one job per run and to   *)
(* leases that are live or lapsed.  A worker runs one job at a time.  An   *)
(* action is a main process and whatever it started that still holds its   *)
(* output open: Wait returns only once both are gone.  Logs, tokens and    *)
(* the contents of inputs and outputs are left out.                        *)
(***************************************************************************)
EXTENDS Naturals, FiniteSets

CONSTANTS
  JobId, WorkerId, NoJob, NoWorker,
  Remote,       \* the workers that speak to the worker plane over HTTP
  Adapter,      \* how a job's action is run: "entrypoint" or "command"
  Timed,        \* the jobs whose action has a timeout
  Forking,      \* the jobs whose action leaves a process holding its output
  MaxFaults     \* bound of the model: lost calls, crashes and late heartbeats

ASSUME WorkAssumption ==
  /\ NoJob \notin JobId /\ NoWorker \notin WorkerId
  /\ Remote \subseteq WorkerId
  /\ Adapter \in [JobId -> {"entrypoint", "command"}]
  /\ Timed \subseteq JobId /\ Forking \subseteq JobId
  /\ MaxFaults \in Nat

VARIABLES
  job,      \* the jobs as the store has them
  worker,   \* the loop of each worker process and the attempt it is at
  proc,     \* the processes of that attempt's action
  faults    \* what went wrong so far

workVars == <<job, worker, proc, faults>>

Settled == {"succeeded", "failed", "waiting_human", "canceled"}
\* What the result file says: a value, a declared failure (or one that is no JSON
\* object, which HumanTaskFromOutput refuses), a person's task, or no JSON at all.
Output  == {"none", "value", "failure", "human_task", "invalid"}

JobRow  == [state: {"queued", "running"} \union Settled, attempt: Nat,
            owner: WorkerId \union {NoWorker}, lease: {"none", "live", "lapsed"},
            cancel: BOOLEAN,
            by: {"none", "zero", "nonzero", "killed"},   \* how the reported process ended
            told: {"none", "cancel", "deadline"},        \* and what its context had been told
            output: Output]
Attempt == [at: {"down", "idle", "starting", "running", "reporting"},
            job: JobId \union {NoJob}, attempt: Nat, beating: BOOLEAN,
            told: {"none", "cancel", "deadline"},
            outcome: {"none", "succeeded", "failed", "waiting_human"}]
Group   == [main: {"none", "running", "zero", "nonzero", "killed"},
            holds: BOOLEAN, output: Output]

Idle    == [at |-> "idle", job |-> NoJob, attempt |-> 0, beating |-> FALSE,
            told |-> "none", outcome |-> "none"]
Down    == [Idle EXCEPT !.at = "down"]
NoGroup == [main |-> "none", holds |-> FALSE, output |-> "none"]

WorkTypeOK ==
  /\ job \in [JobId -> JobRow]
  /\ worker \in [WorkerId -> Attempt]
  /\ proc \in [WorkerId -> Group]
  /\ faults \in 0..MaxFaults

WorkInit ==
  /\ job = [j \in JobId |-> [state |-> "queued", attempt |-> 0, owner |-> NoWorker,
                             lease |-> "none", cancel |-> FALSE, by |-> "none",
                             told |-> "none", output |-> "none"]]
  /\ worker = [w \in WorkerId |-> Idle]
  /\ proc = [w \in WorkerId |-> NoGroup]
  /\ faults = 0

----------------------------------------------------------------------------
(* The store, as a worker sees it.                                          *)

\* The job is leased to this worker's attempt, whether or not the lease lapsed.
StillOwned(w) == LET a == worker[w] IN
  /\ a.job # NoJob
  /\ job[a.job].state = "running"
  /\ job[a.job].owner = w /\ job[a.job].attempt = a.attempt

\* Every claim first takes back the jobs whose lease lapsed.
Requeued(j) == IF job[j].state # "running" \/ job[j].lease # "lapsed" THEN job[j]
  ELSE [job[j] EXCEPT !.state = IF job[j].cancel THEN "canceled" ELSE "queued",
                      !.owner = NoWorker, !.lease = "none"]

Leased(j, w) == [i \in JobId |-> IF i # j THEN Requeued(i)
  ELSE [Requeued(j) EXCEPT !.state = "running", !.attempt = @ + 1,
                           !.owner = w, !.lease = "live"]]

\* What a report of worker w makes of its job: a cancellation that was asked for
\* prevails, an attempt that is not the current one changes nothing.
Settle(j, outcome, w) == [job EXCEPT
  ![j].state = outcome, ![j].owner = NoWorker, ![j].lease = "none",
  ![j].by = IF outcome = "failed" THEN @ ELSE proc[w].main,
  ![j].told = IF outcome = "failed" THEN @ ELSE worker[w].told,
  ![j].output = IF outcome = "failed" THEN @ ELSE proc[w].output]
Canceled(j) == [job EXCEPT ![j] = [@ EXCEPT !.state = "canceled", !.owner = NoWorker,
                                            !.lease = "none", !.cancel = TRUE]]
Reported(w, outcome) == LET j == worker[w].job IN
  CASE ~StillOwned(w) \/ job[j].lease = "lapsed" -> job
    [] StillOwned(w) /\ job[j].lease = "live" /\ job[j].cancel -> Canceled(j)
    [] OTHER -> Settle(j, outcome, w)

\* A lease runs out while nobody renews it, or because a renewal comes too late.
Unattended(j) == \A w \in WorkerId :
  StillOwned(w) /\ worker[w].job = j => ~worker[w].beating
Lapse(j) == /\ job[j].state = "running" /\ job[j].lease = "live"
            /\ job' = [job EXCEPT ![j].lease = "lapsed"]
            /\ UNCHANGED <<worker, proc>>
LeaseLapses(j)     == Unattended(j) /\ Lapse(j) /\ UNCHANGED faults
HeartbeatsLate(j)  == /\ ~Unattended(j) /\ faults < MaxFaults
                      /\ faults' = faults + 1 /\ Lapse(j)

CancelJob(j) ==
  /\ job[j].state \in {"queued", "running"} /\ ~job[j].cancel
  /\ job' = [job EXCEPT ![j].cancel = TRUE,
                        ![j].state = IF @ = "queued" THEN "canceled" ELSE @]
  /\ UNCHANGED <<worker, proc, faults>>

\* CancelRun does not wait for the worker.
CancelRun(j) ==
  /\ job[j].state \in {"queued", "running"}
  /\ job' = Canceled(j)
  /\ UNCHANGED <<worker, proc, faults>>

----------------------------------------------------------------------------
(* The loop of a worker.                                                    *)

StartWorker(w) ==
  /\ worker[w].at = "down"
  /\ worker' = [worker EXCEPT ![w] = Idle]
  /\ UNCHANGED <<job, proc, faults>>

Claimable(w, j) == worker[w].at = "idle" /\ Requeued(j).state = "queued"

WorkerClaims(w, j) ==
  /\ Claimable(w, j)
  /\ job' = Leased(j, w)
  /\ worker' = [worker EXCEPT ![w] = [Idle EXCEPT !.at = "starting", !.job = j,
                                        !.attempt = job'[j].attempt, !.beating = TRUE]]
  /\ UNCHANGED <<proc, faults>>

\* The worker plane prepares the input; what fails there fails the job, and the
\* worker is told that there was none.
ClaimFailsPreparation(w, j) ==
  /\ w \in Remote /\ Claimable(w, j)
  /\ job' = [Leased(j, w) EXCEPT ![j] = [@ EXCEPT !.state = "failed", !.owner = NoWorker,
                                           !.lease = "none"]]
  /\ UNCHANGED <<worker, proc, faults>>

\* The answer to a claim is lost: the job is leased to a worker that does not
\* know it.
ClaimLost(w, j) ==
  /\ w \in Remote /\ Claimable(w, j) /\ faults < MaxFaults
  /\ job' = Leased(j, w)
  /\ faults' = faults + 1
  /\ UNCHANGED <<worker, proc>>

\* The context of the attempt ends, for the first cause that comes up.  The
\* executor kills the process group, exec.CommandContext the main process only.
Stop(w, why) ==
  /\ worker' = [worker EXCEPT ![w].told = IF @ = "none" THEN why ELSE @,
                               ![w].beating = @ /\ why = "deadline"]
  /\ proc' = [proc EXCEPT ![w].main = IF @ = "running" THEN "killed" ELSE @,
                           ![w].holds = @ /\ Adapter[worker[w].job] = "command"]

\* One heartbeat of the job.  It renews a lease that is still its own, lapsed or
\* not; the first that reports a lost lease or a cancellation is the last one.
HeartbeatIgnoresCancelFault(w) ==
  /\ worker[w].beating
  /\ \/ /\ StillOwned(w)
        /\ job' = [job EXCEPT ![worker[w].job].lease = "live"]
        /\ UNCHANGED <<worker, proc>>
     \/ ~StillOwned(w) /\ UNCHANGED job /\ Stop(w, "cancel")
  /\ UNCHANGED faults
HeartbeatJob(w) ==
  /\ worker[w].beating
  /\ job' = IF StillOwned(w) THEN [job EXCEPT ![worker[w].job].lease = "live"] ELSE job
  /\ IF StillOwned(w) /\ ~job[worker[w].job].cancel THEN UNCHANGED <<worker, proc>>
     ELSE Stop(w, "cancel")
  /\ UNCHANGED faults

\* Decryption, the input overlay, the runtime bindings or the bundle fail before
\* anything runs, or because the context has ended: the attempt failed.
StartFails(w) ==
  /\ worker[w].at = "starting"
  /\ worker' = [worker EXCEPT ![w].at = "reporting", ![w].outcome = "failed"]
  /\ UNCHANGED <<job, proc, faults>>

\* A command is not started in a context that has ended; the executor starts
\* its process and kills it.
StartAction(w) == LET j == worker[w].job
                      dead == worker[w].told # "none" IN
  /\ worker[w].at = "starting"
  /\ dead => Adapter[j] = "entrypoint"
  /\ worker' = [worker EXCEPT ![w].at = "running"]
  /\ proc' = [proc EXCEPT ![w] = [main |-> IF dead THEN "killed" ELSE "running",
                                  holds |-> j \in Forking /\ ~dead, output |-> "none"]]
  /\ UNCHANGED <<job, faults>>

\* The main process ends, with whatever result file it wrote.
MainExits(w) ==
  /\ worker[w].at = "running" /\ proc[w].main = "running"
  /\ \/ \E file \in Output \ {"none"} :
          proc' = [proc EXCEPT ![w] = [@ EXCEPT !.main = "zero", !.output = file]]
     \/ proc' = [proc EXCEPT ![w].main = "nonzero"]
  /\ UNCHANGED <<job, worker, faults>>
ChildExits(w) ==
  /\ worker[w].at = "running" /\ proc[w].holds
  /\ proc' = [proc EXCEPT ![w].holds = FALSE]
  /\ UNCHANGED <<job, worker, faults>>

Deadline(w) ==
  /\ worker[w].at = "running" /\ worker[w].job \in Timed /\ worker[w].told = "none"
  /\ Stop(w, "deadline")
  /\ UNCHANGED <<job, faults>>

\* Run fails for a command whose context ended, whatever its process did, and for
\* one whose result cannot be read; the executor goes by the exit code alone, and
\* takes a result it cannot read for none.
ContextIgnoredFault(w) == FALSE
ContextEnded(w)     == Adapter[worker[w].job] = "command" /\ worker[w].told # "none"
ResultUnreadable(w) == Adapter[worker[w].job] = "command" /\ proc[w].output = "invalid"
DeclaresFailure(w)  == proc[w].output = "failure"
AsksPerson(w)       == proc[w].output = "human_task"

OutcomeOf(w) ==
  IF \/ ContextEnded(w) \/ ResultUnreadable(w)
     \/ proc[w].main # "zero" \/ DeclaresFailure(w) THEN "failed"
  ELSE IF AsksPerson(w) THEN "waiting_human" ELSE "succeeded"

RunReturns(w) ==
  /\ worker[w].at = "running" /\ proc[w].main # "running" /\ ~proc[w].holds
  /\ worker' = [worker EXCEPT ![w].at = "reporting", ![w].outcome = OutcomeOf(w)]
  /\ proc' = IF OutcomeOf(w) = "failed" THEN [proc EXCEPT ![w] = NoGroup] ELSE proc
  /\ UNCHANGED <<job, faults>>

\* The completion call.  Whatever it answers, the heartbeats stop and the loop
\* goes on to the next claim: a refused or failed report is not repeated.
ReportKeepsBeatingFault(w) ==
  /\ worker[w].at = "reporting"
  /\ worker' = [worker EXCEPT ![w] = [@ EXCEPT !.at = "idle"]]
  /\ proc' = [proc EXCEPT ![w] = NoGroup]
  /\ job' = Reported(w, worker[w].outcome) /\ UNCHANGED faults
CompleteJob(w) ==
  /\ worker[w].at = "reporting"
  /\ worker' = [worker EXCEPT ![w] = Idle]
  /\ proc' = [proc EXCEPT ![w] = NoGroup]
  /\ job' = Reported(w, worker[w].outcome)
  /\ UNCHANGED faults
\* The call fails before it reached the store, or after: the answer is lost.
CompleteLost(w) ==
  /\ worker[w].at = "reporting" /\ faults < MaxFaults
  /\ faults' = faults + 1
  /\ worker' = [worker EXCEPT ![w] = Idle]
  /\ proc' = [proc EXCEPT ![w] = NoGroup]
  /\ job' \in {job, Reported(w, worker[w].outcome)}

\* The worker process dies.
WorkerDies(w) ==
  /\ worker[w].at # "down" /\ faults < MaxFaults
  /\ faults' = faults + 1
  /\ worker' = [worker EXCEPT ![w] = Down]
  /\ proc' = [proc EXCEPT ![w] = NoGroup]
  /\ UNCHANGED job

WorkNext ==
  \/ \E w \in WorkerId, j \in JobId :
       WorkerClaims(w, j) \/ ClaimFailsPreparation(w, j) \/ ClaimLost(w, j)
  \/ \E j \in JobId : LeaseLapses(j) \/ HeartbeatsLate(j) \/ CancelJob(j) \/ CancelRun(j)
  \/ \E w \in WorkerId :
       \/ StartWorker(w) \/ HeartbeatJob(w) \/ StartFails(w) \/ StartAction(w)
       \/ MainExits(w) \/ ChildExits(w) \/ Deadline(w)
       \/ RunReturns(w) \/ CompleteJob(w) \/ CompleteLost(w) \/ WorkerDies(w)

WorkSpec == WorkInit /\ [][WorkNext]_workVars

\* The loop goes on, calls get through in the end and timers fire; a worker that
\* died is started again (docker-compose.yml).  Nothing is assumed about how long
\* an action runs.
Fairness ==
  /\ \A w \in WorkerId :
       /\ WF_workVars(\E j \in JobId : WorkerClaims(w, j))
       /\ WF_workVars(StartWorker(w)) /\ WF_workVars(HeartbeatJob(w))
       /\ WF_workVars(StartAction(w) \/ StartFails(w))
       /\ WF_workVars(Deadline(w)) /\ WF_workVars(RunReturns(w)) /\ WF_workVars(CompleteJob(w))
  /\ \A j \in JobId : WF_workVars(LeaseLapses(j))

FairSpec == WorkSpec /\ Fairness

----------------------------------------------------------------------------
\* OutcomeEarned: a job succeeds, or waits for a person, only on the report of an
\* attempt whose main process ended by itself with code zero, which nobody had
\* told to stop, and which for a command had not met its deadline either; and a
\* person is asked only by the output (the classification of ProcessOne, on top
\* of what the executors return and of what the store refuses).
OutcomeEarned == \A j \in JobId :
  job[j].state \in {"succeeded", "waiting_human"} =>
    /\ job[j].by = "zero" /\ job[j].told # "cancel"
    /\ Adapter[j] = "command" => job[j].told = "none"
    /\ job[j].state = "waiting_human" <=> job[j].output = "human_task"

\* StopsWhenTold: an action of an entrypoint does not go on for ever once its job
\* was canceled, its lease went to another attempt, or its timeout passed, even
\* when it left a process behind that holds its output.
Told(w, j) == /\ worker[w].at = "running" /\ worker[w].job = j
              /\ Adapter[j] = "entrypoint"
              /\ j \in Timed \/ job[j].cancel \/ ~StillOwned(w)
StopsWhenTold == \A w \in WorkerId, j \in JobId :
  Told(w, j) ~> ~(worker[w].at = "running" /\ worker[w].job = j)

\* EveryJobSettles: if no action runs for ever, every job is settled in spite of
\* lost answers, late heartbeats and workers that die; except a canceled one whose
\* lease lapsed, which waits for a claim to take it back.
EveryJobSettles ==
  (\A w \in WorkerId : []<>(worker[w].at # "running"))
    => \A j \in JobId : <>(\/ job[j].state \in Settled
                           \/ job[j].cancel /\ job[j].lease = "lapsed")
=============================================================================
