--------------------------- MODULE PgQueueProofs ---------------------------
(***************************************************************************)
(* Proofs about PgQueue: the transactions of the queue over PostgreSQL.    *)
(***************************************************************************)
EXTENDS PgQueue, FiniteSetTheorems, TLAPS

JobLock(j)  == [kind |-> "job", id |-> j]
RunLock(r)  == [kind |-> "run", id |-> r]
TaskLock(r) == [kind |-> "task", id |-> r]

AllRows  == [JobId -> JobRow]
Statement == {"first", "jobs", "task", "run", "lapsed", "count", "limit", "grant"}

\* The jobs that exist are those of a run; finitely many run at a time.
HaveRuns(rowOf) == \A j \in JobId : rowOf[j].state # "absent" <=> rowOf[j].run \in RunId
RunningJobs(rowOf)  == {j \in JobId : rowOf[j].state = "running"}
RunningIn(rowOf, a) == {j \in JobId : rowOf[j].state = "running" /\ AppOf[rowOf[j].run] = a}
Unlimited(a) == \E r \in RunId : AppOf[r] = a /\ Limit[r] = 0
AppIsKept(rowOf, a) ==
  RunningIn(rowOf, a) # {} =>
    \E r \in RunId : AppOf[r] = a /\ (Limit[r] = 0 \/ Cardinality(RunningIn(rowOf, a)) <= Limit[r])

\* The jobs a transaction x has picked; the locks t holds.
Mine(x) == {j \in JobId : j \in x.jobs \/ j \in x.back \/ j \in x.pool \/ j = x.job}
HeldBy(lockOf, t) == {y \in Lock : lockOf[y] = t}

LapsedRow(row) == row.state = "running" /\ row.lease = "lapsed"
CountLocksOf(row) == IF Limit[row.run] = 0 THEN {} ELSE {AppLock(AppOf[row.run])}
OthersRunning(x, rowOf, a) ==
  {j \in JobId : /\ rowOf[j].state = "running" /\ AppOf[rowOf[j].run] = a
                 /\ j \notin x.jobs \union x.back}
Room(x, rowOf, r) ==
  Limit[r] > 0 => ~(Cardinality(OthersRunning(x, rowOf, AppOf[r])) >= Limit[r])

\* What a claim knows of the rows it has locked.
ClaimKnows(x, rowOf, held) ==
  /\ x.at \in {"lapsed", "jobs", "count", "limit", "grant"}
  /\ \A j \in x.jobs : LapsedRow(rowOf[j]) /\ rowOf[j].canceled
  /\ \A j \in x.back : LapsedRow(rowOf[j]) /\ ~rowOf[j].canceled
  /\ \A j \in x.pool : rowOf[j].state = "queued" \/ j \in x.back
  /\ x.at \in {"limit", "grant"} => x.job \in x.pool
  /\ x.at = "limit" => CountLocksOf(rowOf[x.job]) \subseteq held \union x.want
  /\ x.at = "grant" =>
       /\ CountLocksOf(rowOf[x.job]) \subseteq held
       /\ Room(x, rowOf, rowOf[x.job].run) \/ Unlimited(AppOf[rowOf[x.job].run])

TxnOK(t, x, rowOf, lockOf) ==
  /\ x.op = "none" => HeldBy(lockOf, t) = {}
  /\ \A j \in Mine(x) : lockOf[JobLock(j)] = t /\ rowOf[j].state # "absent"
  /\ x.op \in {"cancelRun", "resume"} => x.run \in RunId
  /\ x.op \in {"complete", "cancelJob"} => x.job \in JobId
  /\ x.op = "complete" => x.outcome \in Outcome
  /\ x.op = "claim" => x.worker \in WorkerId
  /\ x.op = "claim" => ClaimKnows(x, rowOf, HeldBy(lockOf, t))

LocksInv ==
  /\ TypeOK
  /\ HaveRuns(job)
  /\ IsFiniteSet(RunningJobs(job))
  /\ \A t \in TxnId : TxnOK(t, txn[t], job, holder)

-----------------------------------------------------------------------------
(* Locks.                                                                  *)

LEMMA LockNames ==
  /\ \A j \in JobId : JobLock(j) \in Lock
  /\ \A r \in RunId : RunLock(r) \in Lock /\ TaskLock(r) \in Lock
  /\ \A a \in App : AppLock(a) \in Lock
  /\ \A i, j : JobLock(i) = JobLock(j) => i = j
  /\ \A i, j : RunLock(i) = RunLock(j) => i = j
  /\ \A i, j : TaskLock(i) = TaskLock(j) => i = j
  /\ \A i, j : AppLock(i) = AppLock(j) => i = j
  /\ \A i, j : JobLock(i) # RunLock(j) /\ JobLock(i) # TaskLock(j) /\ JobLock(i) # AppLock(j)
  /\ \A i, j : RunLock(i) # TaskLock(j) /\ RunLock(i) # AppLock(j) /\ TaskLock(i) # AppLock(j)
<1>1. /\ \A j \in JobId : JobLock(j) \in Lock
      /\ \A r \in RunId : RunLock(r) \in Lock /\ TaskLock(r) \in Lock
      /\ \A a \in App : AppLock(a) \in Lock
  BY DEF Lock, JobLock, RunLock, TaskLock, AppLock
<1>2. \A i, j : [kind |-> "job", id |-> i].id = i /\ [kind |-> "job", id |-> i].kind = "job"
  OBVIOUS
<1>3. /\ \A i : JobLock(i).kind = "job" /\ JobLock(i).id = i
      /\ \A i : RunLock(i).kind = "run" /\ RunLock(i).id = i
      /\ \A i : TaskLock(i).kind = "task" /\ TaskLock(i).id = i
      /\ \A i : AppLock(i).kind = "app" /\ AppLock(i).id = i
  BY DEF JobLock, RunLock, TaskLock, AppLock
<1> QED
  BY <1>1, <1>3

LEMMA LockSets ==
  /\ \A J : JobLocks(J) = {JobLock(j) : j \in J}
  /\ \A R : RunLocks(R) = {RunLock(r) : r \in R}
  /\ \A R : TaskLocks(R) = {TaskLock(r) : r \in R}
  /\ \A J \in SUBSET JobId : JobLocks(J) \in SUBSET Lock
  /\ \A R \in SUBSET RunId : RunLocks(R) \in SUBSET Lock /\ TaskLocks(R) \in SUBSET Lock
<1>1. /\ \A J : JobLocks(J) = {JobLock(j) : j \in J}
      /\ \A R : RunLocks(R) = {RunLock(r) : r \in R}
      /\ \A R : TaskLocks(R) = {TaskLock(r) : r \in R}
  BY DEF JobLocks, RunLocks, TaskLocks, JobLock, RunLock, TaskLock
<1> QED
  BY <1>1, LockNames

LEMMA NoTxnTyped ==
  /\ NoTxn \in Txn
  /\ NoTxn.op = "none" /\ NoTxn.jobs = {} /\ NoTxn.back = {} /\ NoTxn.pool = {}
  /\ NoTxn.job = NoJob /\ NoTxn.found = {} /\ NoTxn.want = {}
BY DEF NoTxn, Txn

MovedTo(x, m, at, want) == x = [m EXCEPT !.at = at, !.want = want]

LEMMA MovedFields ==
  ASSUME NEW m \in Txn, NEW at \in Statement, NEW want \in SUBSET Lock, NEW x,
         MovedTo(x, m, at, want)
  PROVE  /\ x \in Txn
         /\ x.op = m.op /\ x.at = at /\ x.want = want
         /\ x.run = m.run /\ x.job = m.job /\ x.worker = m.worker /\ x.outcome = m.outcome
         /\ x.found = m.found /\ x.jobs = m.jobs /\ x.back = m.back /\ x.pool = m.pool
BY DEF MovedTo, Txn, Statement

\* What the steps of t leave alone: the transactions of others and their locks.
OnlyMoves(t) ==
  \A u \in TxnId \ {t} : txn'[u] = txn[u] /\ HeldBy(holder', u) = HeldBy(holder, u)

LEMMA BeginMoves ==
  ASSUME TypeOK, NEW t \in TxnId, NEW m \in Txn, NEW taken \in SUBSET Lock,
         NEW at \in Statement, NEW locks \in SUBSET Lock,
         HeldBy(holder, t) = {}, Begin(t, m, taken, at, locks)
  PROVE  /\ TypeOK' /\ UNCHANGED rows
         /\ OnlyMoves(t)
         /\ MovedTo(txn'[t], m, at, locks \ taken)
         /\ HeldBy(holder', t) = taken
         /\ txn[t].op = "none"
<1>1. PICK x : MovedTo(x, m, at, locks \ taken)
  BY DEF MovedTo
<1>2. x \in Txn
  BY <1>1, MovedFields
<1>3. txn' = [txn EXCEPT ![t] = x] /\ UNCHANGED rows /\ Free(taken) /\ txn[t].op = "none"
  BY <1>1 DEF Begin, MovedTo, Busy
<1>4. txn' \in [TxnId -> Txn] /\ txn'[t] = x /\ \A u \in TxnId \ {t} : txn'[u] = txn[u]
  BY <1>2, <1>3 DEF TypeOK
<1>5. holder' \in [Lock -> TxnId \union {Nobody}]
      /\ \A y \in Lock : holder'[y] = IF y \in taken THEN t ELSE holder[y]
  BY DEF Begin, TypeOK
<1>6. \A y \in taken : holder[y] = Nobody
  BY <1>3 DEF Free
<1>7. TypeOK'
  BY <1>3, <1>4, <1>5 DEF TypeOK, rows
<1>8. OnlyMoves(t)
  BY <1>4, <1>5, <1>6, ConstantAssumption DEF OnlyMoves, HeldBy
<1>9. HeldBy(holder', t) = taken
  BY <1>5 DEF HeldBy
<1> QED
  BY <1>1, <1>3, <1>4, <1>7, <1>8, <1>9

LEMMA GoOnMoves ==
  ASSUME TypeOK, NEW t \in TxnId, NEW m \in Txn, NEW at \in Statement,
         NEW locks \in SUBSET Lock, Free(txn[t].want),
         \A j \in m.pool : holder[JobLock(j)] = Nobody \/ j \in LockedJobs(t),
         GoOn(t, m, at, locks)
  PROVE  /\ TypeOK' /\ UNCHANGED rows
         /\ OnlyMoves(t)
         /\ MovedTo(txn'[t], m, at, locks \ Locked(t))
         /\ HeldBy(holder', t) = Locked(t) \union JobLocks(m.pool)
<1>1. PICK x : MovedTo(x, m, at, locks \ Locked(t))
  BY DEF MovedTo
<1>2. x \in Txn
  BY <1>1, MovedFields
<1>3. txn' = [txn EXCEPT ![t] = x] /\ UNCHANGED rows
  BY <1>1 DEF GoOn, MovedTo
<1>4. txn' \in [TxnId -> Txn] /\ txn'[t] = x /\ \A u \in TxnId \ {t} : txn'[u] = txn[u]
  BY <1>2, <1>3 DEF TypeOK
<1> DEFINE L == Locked(t) \union JobLocks(m.pool)
<1>a. m.pool \subseteq JobId
  BY DEF Txn
<1>b. L \subseteq Lock
  BY <1>a, LockSets DEF Locked, TypeOK, Txn
<1>5. holder' \in [Lock -> TxnId \union {Nobody}]
      /\ \A y \in Lock : holder'[y] = IF y \in L THEN t ELSE holder[y]
  BY DEF GoOn, TypeOK
<1>6. \A y \in L : holder[y] \in {Nobody, t}
  <2>1. \A y \in Locked(t) : holder[y] \in {Nobody, t}
    BY DEF Locked, Free
  <2>2. ASSUME NEW j \in m.pool PROVE holder[JobLock(j)] \in {Nobody, t}
    BY <2>1 DEF LockedJobs, JobLock
  <2> QED
    BY <2>1, <2>2, LockSets
<1>7. TypeOK'
  BY <1>3, <1>4, <1>5 DEF TypeOK, rows
<1>8. \A y \in Lock : holder[y] = t => y \in L
  BY DEF Locked
<1> HIDE DEF L
<1>9. OnlyMoves(t)
  BY <1>4, <1>5, <1>6, ConstantAssumption DEF OnlyMoves, HeldBy
<1>10. HeldBy(holder', t) = L
  BY <1>5, <1>8, <1>b DEF HeldBy
<1> QED
  BY <1>1, <1>3, <1>4, <1>7, <1>9, <1>10 DEF L

LEMMA EndMoves ==
  ASSUME TypeOK, NEW t \in TxnId, End(t)
  PROVE  /\ txn' \in [TxnId -> Txn] /\ holder' \in [Lock -> TxnId \union {Nobody}]
         /\ OnlyMoves(t)
         /\ txn'[t] = NoTxn
         /\ HeldBy(holder', t) = {}
<1>1. txn' \in [TxnId -> Txn] /\ txn'[t] = NoTxn /\ \A u \in TxnId \ {t} : txn'[u] = txn[u]
  BY NoTxnTyped DEF End, TypeOK
<1>2. holder' \in [Lock -> TxnId \union {Nobody}]
      /\ \A y \in Lock : holder'[y] = IF holder[y] = t THEN Nobody ELSE holder[y]
  BY DEF End, TypeOK
<1> QED
  BY <1>1, <1>2, ConstantAssumption DEF OnlyMoves, HeldBy

-----------------------------------------------------------------------------
(* How the rows move.                                                      *)

\* A row some transaction has locked changes only in that its lease lapses.
Later(old, new) ==
  new = old \/ (old.state = "running" /\ old.lease = "live"
                /\ new = [old EXCEPT !.lease = "lapsed"])

\* No job starts to run but those of J.
NoneStarts(J) ==
  \A j \in JobId \ J : job'[j].state = "running" =>
                       job[j].state = "running" /\ job'[j].run = job[j].run

\* A job that exists changes only if it is one of J.
OnlyChanges(J) ==
  \A j \in JobId \ J : job[j].state # "absent" => Later(job[j], job'[j])

LEMMA LaterFields ==
  ASSUME NEW old \in JobRow, NEW new, Later(old, new)
  PROVE  /\ new \in JobRow
         /\ new.state = old.state /\ new.run = old.run /\ new.canceled = old.canceled
         /\ new.attempt = old.attempt /\ new.owner = old.owner
         /\ LapsedRow(old) => new = old
BY DEF Later, JobRow, LapsedRow

LEMMA RunningFinite ==
  ASSUME IsFiniteSet(RunningJobs(job)), NEW J, IsFiniteSet(J), NoneStarts(J)
  PROVE  IsFiniteSet(RunningJobs(job'))
<1>1. RunningJobs(job') \subseteq RunningJobs(job) \union J
  BY DEF RunningJobs, NoneStarts
<1>2. IsFiniteSet(RunningJobs(job) \union J)
  BY FS_Union
<1> QED
  BY <1>1, <1>2, FS_Subset

\* A claim's view of an app does not get fuller while no job of the app starts.
LEMMA RoomKept ==
  ASSUME NEW x \in Txn, NEW rowOf, NEW newRowOf, NEW r \in RunId,
         IsFiniteSet(RunningJobs(rowOf)), Limit[r] \in Nat,
         RunningIn(newRowOf, AppOf[r]) \subseteq RunningIn(rowOf, AppOf[r]),
         Room(x, rowOf, r)
  PROVE  Room(x, newRowOf, r)
<1> DEFINE A == OthersRunning(x, rowOf, AppOf[r])
           B == OthersRunning(x, newRowOf, AppOf[r])
<1>1. A \subseteq RunningJobs(rowOf) /\ B \subseteq A
  BY DEF OthersRunning, RunningJobs, RunningIn
<1>2. IsFiniteSet(A) /\ IsFiniteSet(B) /\ Cardinality(B) <= Cardinality(A)
  BY <1>1, FS_Subset
<1>3. Cardinality(A) \in Nat /\ Cardinality(B) \in Nat
  BY <1>2, FS_CardinalityType
<1>4. Limit[r] > 0 => ~(Cardinality(A) >= Limit[r])
  BY DEF Room
<1> HIDE DEF A, B
<1>5. Limit[r] > 0 => ~(Cardinality(B) >= Limit[r])
  BY <1>2, <1>3, <1>4
<1> QED
  BY <1>5 DEF Room, B

\* An app whose lock u holds, or that has a run without limit, is safe from others.
AppsSafe(u) ==
  \A a \in App : AppLock(a) \in HeldBy(holder, u) =>
     Unlimited(a) \/ RunningIn(job', a) \subseteq RunningIn(job, a)

LEMMA ClaimKept ==
  ASSUME TypeOK, HaveRuns(job), IsFiniteSet(RunningJobs(job)),
         NEW u \in TxnId, NEW x \in Txn,
         ClaimKnows(x, job, HeldBy(holder, u)), AppsSafe(u),
         \A j \in Mine(x) : job[j].state # "absent" => Later(job[j], job'[j])
  PROVE  ClaimKnows(x, job', HeldBy(holder, u))
<1>1. \A j \in JobId : job[j] \in JobRow
  BY DEF TypeOK
<1>2. x.jobs \subseteq JobId /\ x.back \subseteq JobId /\ x.pool \subseteq JobId
  BY DEF Txn
<1>3. \A j \in x.jobs : job[j].state = "running" /\ job'[j] = job[j]
  BY <1>1, <1>2, LaterFields DEF ClaimKnows, LapsedRow, Mine
<1>4. \A j \in x.back : job[j].state = "running" /\ job'[j] = job[j]
  BY <1>1, <1>2, LaterFields DEF ClaimKnows, LapsedRow, Mine
<1>5. \A j \in x.pool : job[j].state # "absent" /\ job'[j].state = job[j].state
                                                 /\ job'[j].run = job[j].run
  BY <1>1, <1>2, <1>4, LaterFields DEF ClaimKnows, Mine
<1>6. x.at \in {"limit", "grant"} =>
        x.job \in JobId /\ job'[x.job].run = job[x.job].run /\ job[x.job].run \in RunId
  BY <1>2, <1>5 DEF ClaimKnows, HaveRuns
<1>7. x.at \in {"limit", "grant"} => CountLocksOf(job'[x.job]) = CountLocksOf(job[x.job])
  BY <1>6 DEF CountLocksOf
<1>8. ASSUME x.at = "grant"
      PROVE  Room(x, job', job[x.job].run) \/ Unlimited(AppOf[job[x.job].run])
  <2> DEFINE r == job[x.job].run
  <2>1. r \in RunId /\ Limit[r] \in Nat /\ AppOf[r] \in App
    BY <1>6, <1>8, ConstantAssumption
  <2>2. CASE Unlimited(AppOf[r])
    BY <2>2
  <2>3. CASE Limit[r] = 0
    BY <2>1, <2>3 DEF Unlimited
  <2>4. CASE Limit[r] # 0 /\ ~Unlimited(AppOf[r])
    <3>1. AppLock(AppOf[r]) \in HeldBy(holder, u)
      BY <1>8, <2>4 DEF ClaimKnows, CountLocksOf
    <3>2. RunningIn(job', AppOf[r]) \subseteq RunningIn(job, AppOf[r])
      BY <2>1, <2>4, <3>1 DEF AppsSafe
    <3>3. Room(x, job, r)
      BY <1>8, <2>4 DEF ClaimKnows
    <3> QED
      BY <2>1, <3>2, <3>3, RoomKept
  <2> QED
    BY <2>2, <2>3, <2>4
<1>9. /\ x.at \in {"lapsed", "jobs", "count", "limit", "grant"}
      /\ x.at \in {"limit", "grant"} => x.job \in x.pool
      /\ x.at = "limit" => CountLocksOf(job[x.job]) \subseteq HeldBy(holder, u) \union x.want
      /\ x.at = "grant" => CountLocksOf(job[x.job]) \subseteq HeldBy(holder, u)
  BY DEF ClaimKnows
<1>10. \A j \in x.jobs : LapsedRow(job'[j]) /\ job'[j].canceled
  BY <1>3 DEF ClaimKnows
<1>11. \A j \in x.back : LapsedRow(job'[j]) /\ ~job'[j].canceled
  BY <1>4 DEF ClaimKnows
<1>12. \A j \in x.pool : job'[j].state = "queued" \/ j \in x.back
  BY <1>5 DEF ClaimKnows
<1> QED
  BY <1>6, <1>7, <1>8, <1>9, <1>10, <1>11, <1>12 DEF ClaimKnows

\* A step of others that leaves u, its locks and its rows alone keeps TxnOK.
LEMMA OthersKept ==
  ASSUME TypeOK, HaveRuns(job), IsFiniteSet(RunningJobs(job)), NEW u \in TxnId,
         TxnOK(u, txn[u], job, holder),
         txn'[u] = txn[u], HeldBy(holder', u) = HeldBy(holder, u),
         \A j \in Mine(txn[u]) : job[j].state # "absent" => Later(job[j], job'[j]),
         AppsSafe(u)
  PROVE  TxnOK(u, txn'[u], job', holder')
<1>1. txn[u] \in Txn
  BY DEF TypeOK
<1> PICK x \in Txn : x = txn[u]
  BY <1>1
<1>2. \A j \in Mine(x) : holder'[JobLock(j)] = u /\ job'[j].state # "absent"
  <2> TAKE j \in Mine(x)
  <2>1. holder'[JobLock(j)] = u
    BY LockNames DEF TxnOK, HeldBy, Mine
  <2>2. job[j] \in JobRow /\ Later(job[j], job'[j]) /\ job[j].state # "absent"
    BY DEF TxnOK, TypeOK, Mine
  <2> QED
    BY <2>1, <2>2, LaterFields
<1>3. x.op = "claim" => ClaimKnows(x, job', HeldBy(holder, u))
  BY ClaimKept DEF TxnOK
<1>4. /\ x.op = "none" => HeldBy(holder, u) = {}
      /\ x.op \in {"cancelRun", "resume"} => x.run \in RunId
      /\ x.op \in {"complete", "cancelJob"} => x.job \in JobId
      /\ x.op = "complete" => x.outcome \in Outcome
      /\ x.op = "claim" => x.worker \in WorkerId
  BY DEF TxnOK
<1> QED
  BY <1>2, <1>3, <1>4 DEF TxnOK

LEMMA NoneStartsIsSafe ==
  ASSUME NoneStarts({}), NEW u \in TxnId
  PROVE  AppsSafe(u)
BY DEF NoneStarts, AppsSafe, RunningIn

LEMMA FewerKept ==
  ASSUME IsFiniteSet(RunningJobs(job)), NEW a \in App, AppIsKept(job, a),
         RunningIn(job', a) \subseteq RunningIn(job, a)
  PROVE  AppIsKept(job', a)
<1> DEFINE A == RunningIn(job, a)
           B == RunningIn(job', a)
<1>1. A \subseteq RunningJobs(job) /\ B \subseteq A
  BY DEF RunningIn, RunningJobs
<1>2. IsFiniteSet(A) /\ IsFiniteSet(B) /\ Cardinality(B) <= Cardinality(A)
  BY <1>1, FS_Subset
<1>3. Cardinality(A) \in Nat /\ Cardinality(B) \in Nat
  BY <1>2, FS_CardinalityType
<1>4. A # {} => \E r \in RunId : AppOf[r] = a /\ (Limit[r] = 0 \/ Cardinality(A) <= Limit[r])
  BY DEF AppIsKept
<1> HIDE DEF A, B
<1>5. ASSUME B # {}
      PROVE  \E r \in RunId : AppOf[r] = a /\ (Limit[r] = 0 \/ Cardinality(B) <= Limit[r])
  <2>1. PICK r \in RunId : AppOf[r] = a /\ (Limit[r] = 0 \/ Cardinality(A) <= Limit[r])
    BY <1>1, <1>4, <1>5
  <2>2. Limit[r] \in Nat
    BY ConstantAssumption
  <2> QED
    BY <1>2, <1>3, <2>1, <2>2
<1> QED
  BY <1>5 DEF AppIsKept, B

LEMMA AppsKeptQuietly ==
  ASSUME NoneStarts({}), IsFiniteSet(RunningJobs(job)), NEW a \in App, AppIsKept(job, a)
  PROVE  AppIsKept(job', a)
<1>1. RunningIn(job', a) \subseteq RunningIn(job, a)
  BY DEF NoneStarts, RunningIn
<1> QED
  BY <1>1, FewerKept

\* What a step leaves alone of u: its transaction, its locks and the rows it picked.
Spared(u) ==
  /\ txn'[u] = txn[u] /\ HeldBy(holder', u) = HeldBy(holder, u)
  /\ \A j \in Mine(txn[u]) : Later(job[j], job'[j])

\* A step keeps the invariant and the limits, and spares all but T.
Kept(T) ==
  /\ LocksInv'
  /\ (\A a \in App : AppIsKept(job, a)) => \A a \in App : AppIsKept(job', a)
  /\ \A u \in TxnId \ T : Spared(u)

\* What is left to show of a step in which no job starts: of t's own transaction,
\* and that t has picked the rows it writes.
LEMMA QuietStep ==
  ASSUME LocksInv, TypeOK', NEW t \in TxnId, OnlyMoves(t),
         HaveRuns(job'), NoneStarts({}), OnlyChanges(Mine(txn[t])),
         TxnOK(t, txn'[t], job', holder')
  PROVE  Kept({t})
<1>1. IsFiniteSet(RunningJobs(job'))
  BY RunningFinite, FS_EmptySet DEF LocksInv
<1>2. ASSUME NEW u \in TxnId, u # t PROVE TxnOK(u, txn'[u], job', holder') /\ Spared(u)
  <2>1. txn'[u] = txn[u] /\ HeldBy(holder', u) = HeldBy(holder, u)
    BY <1>2 DEF OnlyMoves
  <2>2. TxnOK(u, txn[u], job, holder) /\ TxnOK(t, txn[t], job, holder)
    BY DEF LocksInv
  <2>3. \A j \in Mine(txn[u]) : j \in JobId /\ j \notin Mine(txn[t])
    BY <1>2, <2>2 DEF TxnOK, Mine
  <2>4. \A j \in Mine(txn[u]) : job[j].state # "absent" => Later(job[j], job'[j])
    BY <2>3 DEF OnlyChanges
  <2>5. TxnOK(u, txn'[u], job', holder')
    BY <2>1, <2>2, <2>4, NoneStartsIsSafe, OthersKept DEF LocksInv
  <2> QED
    BY <2>1, <2>2, <2>4, <2>5 DEF Spared, TxnOK
<1>3. LocksInv'
  BY <1>1, <1>2 DEF LocksInv
<1> QED
  BY <1>2, <1>3, AppsKeptQuietly DEF LocksInv, Kept

\* The same of a step of no transaction: it writes rows J that nobody has locked.
LEMMA QuietStepOfNone ==
  ASSUME LocksInv, TypeOK', UNCHANGED <<holder, txn>>,
         HaveRuns(job'), NoneStarts({}),
         NEW J \in SUBSET JobId, OnlyChanges(J), \A j \in J : holder[JobLock(j)] = Nobody
  PROVE  Kept({})
<1>1. IsFiniteSet(RunningJobs(job'))
  BY RunningFinite, FS_EmptySet DEF LocksInv
<1>2. ASSUME NEW u \in TxnId PROVE TxnOK(u, txn'[u], job', holder') /\ Spared(u)
  <2>1. TxnOK(u, txn[u], job, holder)
    BY DEF LocksInv
  <2>2. \A j \in Mine(txn[u]) : j \in JobId /\ j \notin J
    BY <2>1, ConstantAssumption DEF TxnOK, Mine
  <2>3. \A j \in Mine(txn[u]) : job[j].state # "absent" => Later(job[j], job'[j])
    BY <2>2 DEF OnlyChanges
  <2>4. TxnOK(u, txn'[u], job', holder')
    BY <2>1, <2>3, NoneStartsIsSafe, OthersKept DEF LocksInv
  <2> QED
    BY <2>1, <2>3, <2>4 DEF Spared, TxnOK
<1>3. LocksInv'
  BY <1>1, <1>2 DEF LocksInv
<1> QED
  BY <1>2, <1>3, AppsKeptQuietly DEF LocksInv, Kept

-----------------------------------------------------------------------------
(* Every step keeps LocksInv: steps that are not part of a transaction.    *)

LEMMA InsertsRow ==
  ASSUME TypeOK, HaveRuns(job), NEW r \in RunId, NEW j \in JobId, FreshJob(j),
         job' = [job EXCEPT ![j] = NewJob(r)]
  PROVE  /\ job' \in AllRows /\ HaveRuns(job') /\ NoneStarts({}) /\ OnlyChanges({})
<1>1. NewJob(r) \in JobRow /\ NewJob(r).state = "queued" /\ NewJob(r).run = r
  BY ConstantAssumption DEF NewJob, NoJobRow, JobRow
<1>2. job' \in AllRows /\ job'[j] = NewJob(r) /\ \A i \in JobId \ {j} : job'[i] = job[i]
  BY <1>1 DEF TypeOK, AllRows
<1>3. job[j].state = "absent"
  BY DEF FreshJob
<1> QED
  BY <1>1, <1>2, <1>3 DEF HaveRuns, NoneStarts, OnlyChanges, Later

\* A row rewritten in place: the same job of the same run, not made to run.
LEMMA RewritesRow ==
  ASSUME TypeOK, HaveRuns(job), NEW j \in JobId, NEW row \in JobRow,
         row.run = job[j].run, job[j].state # "absent", row.state # "absent",
         row.state = "running" => job[j].state = "running",
         job' = [job EXCEPT ![j] = row]
  PROVE  /\ job' \in AllRows /\ HaveRuns(job') /\ NoneStarts({}) /\ OnlyChanges({j})
         /\ Later(job[j], row) => OnlyChanges({})
<1>1. job' \in AllRows /\ job'[j] = row /\ \A i \in JobId \ {j} : job'[i] = job[i]
  BY DEF TypeOK, AllRows
<1> QED
  BY <1>1 DEF HaveRuns, NoneStarts, OnlyChanges, Later

LEMMA UnchangedRows ==
  ASSUME HaveRuns(job), UNCHANGED job
  PROVE  HaveRuns(job') /\ NoneStarts({}) /\ OnlyChanges({})
BY DEF NoneStarts, OnlyChanges, Later

LEMMA IssuedTyped ==
  ASSUME TypeOK, NEW l \in issued
  PROVE  l.job \in JobId /\ l.owner \in WorkerId /\ l.attempt \in Nat
BY DEF TypeOK, Lease

LEMMA LeaseRow ==
  ASSUME NEW row \in JobRow, NEW lease \in {"none", "live", "lapsed"},
         NEW new, new = [row EXCEPT !.lease = lease]
  PROVE  /\ new \in JobRow /\ new.state = row.state /\ new.run = row.run
         /\ new.lease = lease /\ new.canceled = row.canceled
         /\ new.attempt = row.attempt /\ new.owner = row.owner
BY DEF JobRow

LEMMA CreateStep ==
  ASSUME LocksInv, NEW r \in RunId, NEW j \in JobId, CreateRunAndEnqueue(r, j)
  PROVE  Kept({})
<1>1. TypeOK /\ HaveRuns(job)
  BY DEF LocksInv
<1>2. FreshJob(j) /\ job' = [job EXCEPT ![j] = NewJob(r)]
      /\ run' = [run EXCEPT ![r] = "QUEUED"]
      /\ UNCHANGED <<holder, txn, task, issued>> /\ idle' = idle \ {}
  BY DEF CreateRunAndEnqueue, AtOnce
<1>3. job' \in AllRows /\ HaveRuns(job') /\ NoneStarts({}) /\ OnlyChanges({})
  BY <1>1, <1>2, InsertsRow
<1>4. run' \in [RunId -> RunState] /\ idle' \subseteq RunId
  BY <1>1, <1>2 DEF TypeOK, RunState, Working
<1>5. TypeOK'
  BY <1>1, <1>2, <1>3, <1>4 DEF TypeOK, AllRows
<1> QED
  BY <1>2, <1>3, <1>5, QuietStepOfNone

LEMMA RetryStep ==
  ASSUME LocksInv, NEW r \in RunId, RetryRun(r)
  PROVE  Kept({})
<1>1. TypeOK /\ HaveRuns(job)
  BY DEF LocksInv
<1>2. PICK j \in JobId : FreshJob(j) /\ job' = [job EXCEPT ![j] = NewJob(r)]
  BY DEF RetryRun, Inserts
<1>3. run' = [run EXCEPT ![r] = "QUEUED"]
      /\ UNCHANGED <<holder, txn, task, issued>> /\ idle' = idle \ {r}
  BY DEF RetryRun, AtOnce
<1>4. job' \in AllRows /\ HaveRuns(job') /\ NoneStarts({}) /\ OnlyChanges({})
  BY <1>1, <1>2, InsertsRow
<1>5. run' \in [RunId -> RunState] /\ idle' \subseteq RunId
  BY <1>1, <1>3 DEF TypeOK, RunState, Working
<1>6. TypeOK'
  BY <1>1, <1>3, <1>4, <1>5 DEF TypeOK, AllRows
<1> QED
  BY <1>3, <1>4, <1>6, QuietStepOfNone

LEMMA RetagStep ==
  ASSUME LocksInv, RequeueQueuedJobsForApp
  PROVE  Kept({})
<1>1. TypeOK /\ HaveRuns(job)
  BY DEF LocksInv
<1>2. UNCHANGED <<run, job, task, issued, holder, txn>> /\ idle' \subseteq idle
  BY DEF RequeueQueuedJobsForApp, AtOnce
<1>3. TypeOK'
  BY <1>1, <1>2 DEF TypeOK
<1> QED
  BY <1>1, <1>2, <1>3, UnchangedRows, QuietStepOfNone

LEMMA GrowsOldStep ==
  ASSUME LocksInv, NEW r \in RunId, GrowsOld(r)
  PROVE  Kept({})
<1>1. TypeOK /\ HaveRuns(job)
  BY DEF LocksInv
<1>2. UNCHANGED <<run, job, task, issued, holder, txn>> /\ idle' = idle \union {r}
  BY DEF GrowsOld
<1>3. TypeOK'
  BY <1>1, <1>2 DEF TypeOK
<1> QED
  BY <1>1, <1>2, <1>3, UnchangedRows, QuietStepOfNone

LEMMA LapseStep ==
  ASSUME LocksInv, NEW j \in JobId, Lapse(j)
  PROVE  Kept({})
<1>1. TypeOK /\ HaveRuns(job) /\ job[j] \in JobRow
  BY DEF LocksInv, TypeOK
<1>2. /\ job[j].state = "running" /\ job[j].lease = "live"
      /\ job' = [job EXCEPT ![j].lease = "lapsed"]
      /\ UNCHANGED <<run, task, idle, holder, txn, issued>>
  BY DEF Lapse
<1>3. PICK row : row = [job[j] EXCEPT !.lease = "lapsed"]
  OBVIOUS
<1>4. row \in JobRow /\ row.run = job[j].run /\ row.state = "running" /\ Later(job[j], row)
  BY <1>1, <1>2, <1>3, LeaseRow DEF Later
<1>5. job' = [job EXCEPT ![j] = row]
  BY <1>2, <1>3
<1>6. job' \in AllRows /\ HaveRuns(job') /\ NoneStarts({}) /\ OnlyChanges({})
  BY <1>1, <1>2, <1>4, <1>5, RewritesRow
<1>7. TypeOK'
  BY <1>1, <1>2, <1>6 DEF TypeOK, AllRows
<1> QED
  BY <1>2, <1>6, <1>7, QuietStepOfNone

LEMMA HeartbeatStep ==
  ASSUME LocksInv, NEW l \in issued, HeartbeatJob(l)
  PROVE  Kept({})
<1>1. TypeOK /\ HaveRuns(job) /\ l.job \in JobId
  BY IssuedTyped DEF LocksInv
<1> PICK j \in JobId : j = l.job
  BY <1>1
<1>2. /\ job[j].state = "running" /\ Free(JobLocks({j}))
      /\ job' = [job EXCEPT ![j].lease = "live"]
      /\ UNCHANGED <<run, task, holder, txn, issued>> /\ idle' \subseteq idle
  BY DEF HeartbeatJob, Owned, AtOnce
<1>3. PICK row : row = [job[j] EXCEPT !.lease = "live"]
  OBVIOUS
<1>4. job[j] \in JobRow
  BY <1>1 DEF TypeOK
<1>5. row \in JobRow /\ row.run = job[j].run /\ row.state = "running"
  BY <1>2, <1>3, <1>4, LeaseRow
<1>6. job' = [job EXCEPT ![j] = row]
  BY <1>2, <1>3
<1>7. job' \in AllRows /\ HaveRuns(job') /\ NoneStarts({}) /\ OnlyChanges({j})
  BY <1>1, <1>2, <1>5, <1>6, RewritesRow
<1>8. TypeOK'
  BY <1>1, <1>2, <1>7 DEF TypeOK, AllRows
<1>9. \A i \in {j} : holder[JobLock(i)] = Nobody
  BY <1>2, LockSets DEF Free
<1> QED
  BY <1>2, <1>7, <1>8, <1>9, QuietStepOfNone

-----------------------------------------------------------------------------
(* ... a transaction begins, goes on and ends.                             *)

\* A statement changes no row.  What it leaves to show is what t knows.
LEMMA StatementStep ==
  ASSUME LocksInv, TypeOK', UNCHANGED rows, NEW t \in TxnId, OnlyMoves(t),
         TxnOK(t, txn'[t], job, holder')
  PROVE  Kept({t})
<1>1. job' = job /\ HaveRuns(job)
  BY DEF rows, LocksInv
<1>2. HaveRuns(job') /\ NoneStarts({}) /\ OnlyChanges(Mine(txn[t]))
  BY <1>1, UnchangedRows DEF OnlyChanges, NoneStarts
<1>3. TxnOK(t, txn'[t], job', holder')
  BY <1>1
<1> QED
  BY <1>2, <1>3, QuietStep

LEMMA IdleOK ==
  ASSUME NEW t \in TxnId, HeldBy(holder', t) = {}, NEW rowOf
  PROVE  TxnOK(t, NoTxn, rowOf, holder')
<1>1. Mine(NoTxn) = {}
  BY NoTxnTyped, ConstantAssumption DEF Mine
<1> QED
  BY <1>1, NoTxnTyped DEF TxnOK

LEMMA RollbackStep ==
  ASSUME LocksInv, NEW t \in TxnId, Rollback(t)
  PROVE  Kept({t})
<1>1. TypeOK /\ End(t) /\ UNCHANGED rows
  BY DEF LocksInv, Rollback
<1>2. /\ txn' \in [TxnId -> Txn] /\ holder' \in [Lock -> TxnId \union {Nobody}]
      /\ OnlyMoves(t) /\ txn'[t] = NoTxn /\ HeldBy(holder', t) = {}
  BY <1>1, EndMoves
<1>3. TypeOK'
  BY <1>1, <1>2 DEF TypeOK, rows
<1> QED
  BY <1>1, <1>2, <1>3, IdleOK, StatementStep

\* A commit in which no job starts.
LEMMA CommitStep ==
  ASSUME LocksInv, NEW t \in TxnId, NEW R, Commit(t, R),
         run' \in [RunId -> RunState], job' \in AllRows,
         task' \in [RunId -> {"none", "pending", "done"}], issued' \subseteq Lease,
         HaveRuns(job'), NoneStarts({}), OnlyChanges(Mine(txn[t]))
  PROVE  Kept({t})
<1>1. TypeOK /\ End(t) /\ idle' = idle \ R
  BY DEF LocksInv, Commit
<1>2. /\ txn' \in [TxnId -> Txn] /\ holder' \in [Lock -> TxnId \union {Nobody}]
      /\ OnlyMoves(t) /\ txn'[t] = NoTxn /\ HeldBy(holder', t) = {}
  BY <1>1, EndMoves
<1>3. TypeOK'
  BY <1>1, <1>2 DEF TypeOK, AllRows
<1>4. TxnOK(t, txn'[t], job', holder')
  BY <1>2, IdleOK
<1> QED
  BY <1>2, <1>3, <1>4, QuietStep

LEMMA BeginStep ==
  ASSUME LocksInv, NEW t \in TxnId, NEW m \in Txn, NEW taken \in SUBSET Lock,
         NEW at \in Statement, NEW locks \in SUBSET Lock,
         Begin(t, m, taken, at, locks), m.op # "none",
         \A j \in Mine(m) : JobLock(j) \in taken /\ job[j].state # "absent",
         m.op \in {"cancelRun", "resume"} => m.run \in RunId,
         m.op \in {"complete", "cancelJob"} => m.job \in JobId,
         m.op = "complete" => m.outcome \in Outcome,
         m.op = "claim" =>
           /\ m.worker \in WorkerId /\ at = "lapsed" /\ m.back = {} /\ m.pool = {}
           /\ \A j \in m.jobs : LapsedRow(job[j]) /\ job[j].canceled
  PROVE  Kept({t})
<1>1. TypeOK /\ TxnOK(t, txn[t], job, holder) /\ txn[t].op = "none"
  BY DEF LocksInv, Begin, Busy
<1>2. HeldBy(holder, t) = {}
  BY <1>1 DEF TxnOK
<1>3. /\ TypeOK' /\ UNCHANGED rows
      /\ OnlyMoves(t)
      /\ MovedTo(txn'[t], m, at, locks \ taken)
      /\ HeldBy(holder', t) = taken
  BY <1>1, <1>2, BeginMoves
<1> PICK x : x = txn'[t]
  OBVIOUS
<1>4. /\ x.op = m.op /\ x.at = at /\ x.job = m.job /\ x.run = m.run
      /\ x.outcome = m.outcome /\ x.worker = m.worker
      /\ x.jobs = m.jobs /\ x.back = m.back /\ x.pool = m.pool
  BY <1>3, MovedFields
<1>5. \A j \in Mine(x) : holder'[JobLock(j)] = t /\ job[j].state # "absent"
  BY <1>3, <1>4 DEF Mine, HeldBy
<1>6. x.op = "claim" => ClaimKnows(x, job, HeldBy(holder', t))
  BY <1>4 DEF ClaimKnows
<1>7. TxnOK(t, txn'[t], job, holder')
  BY <1>4, <1>5, <1>6 DEF TxnOK
<1> QED
  BY <1>3, <1>7, StatementStep

LEMMA GoOnStep ==
  ASSUME LocksInv, NEW t \in TxnId, NEW m \in Txn, NEW at \in Statement,
         NEW locks \in SUBSET Lock, Free(txn[t].want), m.op # "none",
         \A j \in m.pool : holder[JobLock(j)] = Nobody \/ j \in LockedJobs(t),
         \A j \in Mine(m) : /\ j \in Mine(txn[t]) \/ j \in LockedJobs(t) \/ j \in m.pool
                           /\ job[j].state # "absent",
         m.op = txn[t].op, m.run = txn[t].run, m.worker = txn[t].worker,
         m.op \in {"complete", "cancelJob"} => m.job \in JobId,
         m.op = "complete" => m.outcome \in Outcome,
         GoOn(t, m, at, locks),
         \A x, held : /\ x.op = m.op /\ x.at = at /\ x.want = locks \ Locked(t) /\ x.job = m.job
                      /\ x.jobs = m.jobs /\ x.back = m.back /\ x.pool = m.pool
                      /\ Locked(t) \subseteq held /\ x.op = "claim"
                      => ClaimKnows(x, job, held)
  PROVE  Kept({t})
<1>1. TypeOK /\ TxnOK(t, txn[t], job, holder)
  BY DEF LocksInv
<1>2. /\ TypeOK' /\ UNCHANGED rows
      /\ OnlyMoves(t)
      /\ MovedTo(txn'[t], m, at, locks \ Locked(t))
      /\ HeldBy(holder', t) = Locked(t) \union JobLocks(m.pool)
  BY <1>1, GoOnMoves
<1> PICK x : x = txn'[t]
  OBVIOUS
<1>a. Locked(t) \in SUBSET Lock
  BY <1>1 DEF Locked, TypeOK, Txn
<1>3. /\ x.op = m.op /\ x.at = at /\ x.job = m.job /\ x.want = locks \ Locked(t)
      /\ x.run = m.run /\ x.outcome = m.outcome /\ x.worker = m.worker
      /\ x.jobs = m.jobs /\ x.back = m.back /\ x.pool = m.pool
  BY <1>2, <1>a, MovedFields
<1>4. ASSUME NEW j \in Mine(m) PROVE JobLock(j) \in HeldBy(holder', t)
  <2>1. CASE j \in Mine(txn[t])
    BY <1>1, <1>2, <2>1, LockNames DEF TxnOK, Mine, Locked
  <2>2. CASE j \in LockedJobs(t)
    BY <1>2, <2>2 DEF LockedJobs, JobLock
  <2>3. CASE j \in m.pool
    BY <1>2, <2>3, LockSets
  <2> QED
    BY <2>1, <2>2, <2>3
<1>5. \A j \in Mine(x) : holder'[JobLock(j)] = t /\ job[j].state # "absent"
  BY <1>3, <1>4 DEF Mine, HeldBy
<1>6. x.op = "claim" => ClaimKnows(x, job, HeldBy(holder', t))
  BY <1>2, <1>3
<1>8. /\ x.op \in {"cancelRun", "resume"} => x.run \in RunId
      /\ x.op = "claim" => x.worker \in WorkerId
  BY <1>1, <1>3 DEF TxnOK
<1>9. TxnOK(t, txn'[t], job, holder')
  BY <1>3, <1>5, <1>6, <1>8 DEF TxnOK
<1> QED
  BY <1>2, <1>9, StatementStep

-----------------------------------------------------------------------------
(* ... the statements of the operations.                                   *)

NewTxn(m, op) ==
  m \in Txn /\ m.op = op /\ m.back = {} /\ m.pool = {}

ClaimTxn(w, J)    == [NoTxn EXCEPT !.op = "claim", !.worker = w, !.jobs = J]
CompleteTxn(j, o) == [NoTxn EXCEPT !.op = "complete", !.job = j, !.outcome = o]
CancelJobTxn(j)   == [NoTxn EXCEPT !.op = "cancelJob", !.job = j]
RunTxn(op, r)     == [NoTxn EXCEPT !.op = op, !.run = r]
SweepTxn(op, R)   == [NoTxn EXCEPT !.op = op, !.found = R]

LEMMA NewTxns ==
  /\ \A w \in WorkerId, J \in SUBSET JobId :
       /\ NewTxn(ClaimTxn(w, J), "claim")
       /\ ClaimTxn(w, J).jobs = J /\ ClaimTxn(w, J).job = NoJob
       /\ ClaimTxn(w, J).worker = w
  /\ \A j \in JobId, o \in Outcome :
       /\ NewTxn(CompleteTxn(j, o), "complete") /\ CompleteTxn(j, o).jobs = {}
       /\ CompleteTxn(j, o).job = j /\ CompleteTxn(j, o).outcome = o
  /\ \A j \in JobId :
       /\ NewTxn(CancelJobTxn(j), "cancelJob")
       /\ CancelJobTxn(j).jobs = {} /\ CancelJobTxn(j).job = j
  /\ \A r \in RunId, op \in {"cancelRun", "resume"} :
       /\ NewTxn(RunTxn(op, r), op)
       /\ RunTxn(op, r).jobs = {} /\ RunTxn(op, r).job = NoJob /\ RunTxn(op, r).run = r
  /\ \A R \in SUBSET RunId, op \in Sweep :
       /\ NewTxn(SweepTxn(op, R), op)
       /\ SweepTxn(op, R).jobs = {} /\ SweepTxn(op, R).job = NoJob /\ SweepTxn(op, R).found = R
<1>1. ASSUME NEW w \in WorkerId, NEW J \in SUBSET JobId
      PROVE  /\ NewTxn(ClaimTxn(w, J), "claim")
             /\ ClaimTxn(w, J).jobs = J /\ ClaimTxn(w, J).job = NoJob
             /\ ClaimTxn(w, J).worker = w
  BY DEF NewTxn, ClaimTxn, NoTxn, Txn
<1>2. ASSUME NEW j \in JobId, NEW o \in Outcome
      PROVE  /\ NewTxn(CompleteTxn(j, o), "complete") /\ CompleteTxn(j, o).jobs = {}
             /\ CompleteTxn(j, o).job = j /\ CompleteTxn(j, o).outcome = o
  BY DEF NewTxn, CompleteTxn, NoTxn, Txn
<1>3. ASSUME NEW j \in JobId
      PROVE  /\ NewTxn(CancelJobTxn(j), "cancelJob")
             /\ CancelJobTxn(j).jobs = {} /\ CancelJobTxn(j).job = j
  BY DEF NewTxn, CancelJobTxn, NoTxn, Txn
<1>4. ASSUME NEW r \in RunId, NEW op \in {"cancelRun", "resume"}
      PROVE  /\ NewTxn(RunTxn(op, r), op)
             /\ RunTxn(op, r).jobs = {} /\ RunTxn(op, r).job = NoJob /\ RunTxn(op, r).run = r
  BY DEF NewTxn, RunTxn, NoTxn, Txn
<1>5. ASSUME NEW R \in SUBSET RunId, NEW op \in Sweep
      PROVE  /\ NewTxn(SweepTxn(op, R), op)
             /\ SweepTxn(op, R).jobs = {} /\ SweepTxn(op, R).job = NoJob
             /\ SweepTxn(op, R).found = R
  BY DEF NewTxn, SweepTxn, NoTxn, Txn, Sweep
<1> QED
  BY <1>1, <1>2, <1>3, <1>4, <1>5

LEMMA ClaimLostStep ==
  ASSUME LocksInv, NEW t \in TxnId, NEW w \in WorkerId, ClaimLost(t, w)
  PROVE  Kept({t})
<1> PICK lost \in SUBSET JobId : lost = {j \in JobId : Lapsed(j) /\ job[j].canceled}
  OBVIOUS
<1> PICK R : R = {job[j].run : j \in lost}
  OBVIOUS
<1> PICK m : m = ClaimTxn(w, lost)
  OBVIOUS
<1>1. Begin(t, m, JobLocks(lost), "lapsed", RunLocks(R))
  BY DEF ClaimLost, ClaimTxn
<1>2. NewTxn(m, "claim") /\ m.jobs = lost /\ m.job = NoJob /\ m.worker = w
  BY NewTxns
<1>3. R \subseteq RunId
  BY DEF LocksInv, HaveRuns, Lapsed
<1>4. \A j \in lost : LapsedRow(job[j]) /\ job[j].canceled /\ j \in JobId
  BY DEF Lapsed, LapsedRow
<1>6. \A j \in Mine(m) : JobLock(j) \in JobLocks(lost) /\ job[j].state # "absent"
  BY <1>2, <1>4, ConstantAssumption, LockSets DEF Mine, NewTxn, LapsedRow
<1>7. m \in Txn /\ m.op = "claim" /\ m.back = {} /\ m.pool = {}
  BY <1>2 DEF NewTxn
<1>8. JobLocks(lost) \in SUBSET Lock /\ RunLocks(R) \in SUBSET Lock /\ "lapsed" \in Statement
  BY <1>3, LockSets DEF Statement
<1> QED
  BY <1>1, <1>2, <1>4, <1>6, <1>7, <1>8, BeginStep

\* The other operations begin with a transaction of one job, or of none.
LEMMA PlainBegin ==
  ASSUME LocksInv, NEW t \in TxnId, NEW m, NewTxn(m, m.op), m.op \notin {"none", "claim"},
         NEW taken \in SUBSET Lock, NEW at \in Statement, NEW locks \in SUBSET Lock,
         m.jobs = {}, m.job \in JobId => JobLock(m.job) \in taken /\ job[m.job].state # "absent",
         m.op \in {"cancelRun", "resume"} => m.run \in RunId,
         m.op \in {"complete", "cancelJob"} => m.job \in JobId,
         m.op = "complete" => m.outcome \in Outcome,
         Begin(t, m, taken, at, locks)
  PROVE  Kept({t})
<1>1. \A j \in Mine(m) : j = m.job /\ JobLock(j) \in taken /\ job[j].state # "absent"
  BY DEF Mine, NewTxn
<1>2. m \in Txn /\ m.op # "none" /\ m.op # "claim"
  BY DEF NewTxn
<1> QED
  BY <1>1, <1>2, BeginStep

LEMMA OtherBegins ==
  ASSUME LocksInv, NEW t \in TxnId,
         \/ \E l \in issued, o \in Outcome : CompleteLeased(t, l, o)
         \/ \E j \in JobId : CancelJobLocked(t, j)
         \/ \E r \in RunId : CancelRunJobs(t, r)
         \/ \E r \in RunId : ResumeTask(t, r)
         \/ ExpireFound(t)
         \/ PruneFound(t)
  PROVE  Kept({t})
<1>0. /\ TypeOK /\ HaveRuns(job)
      /\ "first" \in Statement /\ "jobs" \in Statement /\ "run" \in Statement
  BY DEF LocksInv, Statement
<1>1. CASE \E l \in issued, o \in Outcome : CompleteLeased(t, l, o)
  <2>1. PICK l \in issued, o \in Outcome : CompleteLeased(t, l, o)
    BY <1>1
  <2> PICK j \in JobId : j = l.job
    BY <1>0, IssuedTyped
  <2>m. PICK m : m = CompleteTxn(j, o)
    OBVIOUS
  <2>l. PICK taken, locks : taken = JobLocks({j}) /\ locks = RunLocks({job[j].run})
    OBVIOUS
  <2>2. Begin(t, m, taken, "run", locks) /\ job[j].state = "running"
    BY <2>m, <2>l, <2>1 DEF CompleteLeased, ValidLease, Owned, CompleteTxn
  <2>3. NewTxn(m, "complete") /\ m.op = "complete" /\ m.jobs = {} /\ m.job = j
        /\ m.outcome \in Outcome
    BY <2>m, NewTxns DEF NewTxn
  <2>4. job[j].run \in RunId
    BY <1>0, <2>2 DEF HaveRuns
  <2>5. taken \in SUBSET Lock /\ locks \in SUBSET Lock /\ JobLock(j) \in taken
    BY <2>l, <2>4, LockSets
  <2> QED
    BY <1>0, <2>2, <2>3, <2>5, PlainBegin
<1>2. CASE \E j \in JobId : CancelJobLocked(t, j)
  <2>1. PICK j \in JobId : CancelJobLocked(t, j)
    BY <1>2
  <2>m. PICK m : m = CancelJobTxn(j)
    OBVIOUS
  <2>l. PICK taken, locks : taken = JobLocks({j}) /\ locks = RunLocks({job[j].run})
    OBVIOUS
  <2>2. Begin(t, m, taken, "run", locks) /\ job[j].state # "absent"
    BY <2>m, <2>l, <2>1 DEF CancelJobLocked, CancelJobTxn
  <2>3. NewTxn(m, "cancelJob") /\ m.op = "cancelJob" /\ m.jobs = {} /\ m.job = j
    BY <2>m, NewTxns DEF NewTxn
  <2>4. job[j].run \in RunId
    BY <1>0, <2>2 DEF HaveRuns
  <2>5. taken \in SUBSET Lock /\ locks \in SUBSET Lock /\ JobLock(j) \in taken
    BY <2>l, <2>4, LockSets
  <2> QED
    BY <1>0, <2>2, <2>3, <2>5, PlainBegin
<1>3. CASE \E r \in RunId : CancelRunJobs(t, r)
  <2>1. PICK r \in RunId : CancelRunJobs(t, r)
    BY <1>3
  <2>m. PICK m : m = RunTxn("cancelRun", r)
    OBVIOUS
  <2>j. PICK J : J = {j \in JobsOf(r) : Active(j)}
    OBVIOUS
  <2>l. PICK taken, locks : taken = RunLocks({r}) /\ locks = JobLocks(J)
    OBVIOUS
  <2>2. Begin(t, m, taken, "jobs", locks)
    BY <2>m, <2>l, <2>j, <2>1 DEF CancelRunJobs, RunTxn
  <2>3. NewTxn(m, "cancelRun") /\ m.op = "cancelRun" /\ m.jobs = {} /\ m.job = NoJob /\ m.run = r
    BY <2>m, NewTxns DEF NewTxn
  <2>4. J \in SUBSET JobId
    BY <2>j DEF JobsOf
  <2>5. taken \in SUBSET Lock /\ locks \in SUBSET Lock
    BY <2>l, <2>4, LockSets
  <2>6. m.job \notin JobId
    BY <2>3, ConstantAssumption
  <2> QED
    BY <1>0, <2>2, <2>3, <2>5, <2>6, PlainBegin
<1>4. CASE \E r \in RunId : ResumeTask(t, r)
  <2>1. PICK r \in RunId : ResumeTask(t, r)
    BY <1>4
  <2>m. PICK m : m = RunTxn("resume", r)
    OBVIOUS
  <2>l. PICK taken, locks : taken = TaskLocks({r}) /\ locks = RunLocks({r})
    OBVIOUS
  <2>2. Begin(t, m, taken, "run", locks)
    BY <2>m, <2>l, <2>1 DEF ResumeTask, RunTxn
  <2>3. NewTxn(m, "resume") /\ m.op = "resume" /\ m.jobs = {} /\ m.job = NoJob /\ m.run = r
    BY <2>m, NewTxns DEF NewTxn
  <2>5. taken \in SUBSET Lock /\ locks \in SUBSET Lock
    BY <2>l, LockSets
  <2>6. m.job \notin JobId
    BY <2>3, ConstantAssumption
  <2> QED
    BY <1>0, <2>2, <2>3, <2>5, <2>6, PlainBegin
<1>5. CASE ExpireFound(t)
  <2>r. PICK R \in SUBSET RunId : R = {r \in RunId : Stuck(r)}
    OBVIOUS
  <2>m. PICK m : m = SweepTxn("expire", R)
    OBVIOUS
  <2>2. Begin(t, m, {}, "first", {})
    BY <2>m, <2>r, <1>5 DEF ExpireFound, SweepTxn
  <2>3. NewTxn(m, "expire") /\ m.op = "expire" /\ m.jobs = {} /\ m.job = NoJob
    BY <2>m, NewTxns DEF NewTxn, Sweep
  <2>6. m.job \notin JobId
    BY <2>3, ConstantAssumption
  <2> QED
    BY <1>0, <2>2, <2>3, <2>6, PlainBegin
<1>6. CASE PruneFound(t)
  <2>r. PICK R \in SUBSET RunId : R = {r \in RunId : Prunable(r)}
    OBVIOUS
  <2>m. PICK m : m = SweepTxn("prune", R)
    OBVIOUS
  <2>2. Begin(t, m, {}, "first", {})
    BY <2>m, <2>r, <1>6 DEF PruneFound, SweepTxn
  <2>3. NewTxn(m, "prune") /\ m.op = "prune" /\ m.jobs = {} /\ m.job = NoJob
    BY <2>m, NewTxns DEF NewTxn, Sweep
  <2>6. m.job \notin JobId
    BY <2>3, ConstantAssumption
  <2> QED
    BY <1>0, <2>2, <2>3, <2>6, PlainBegin
<1> QED
  BY <1>1, <1>2, <1>3, <1>4, <1>5, <1>6

LEMMA TxnTyped ==
  ASSUME TypeOK, NEW t \in TxnId
  PROVE  /\ txn[t] \in Txn /\ txn[t].at \in Statement /\ txn[t].want \subseteq Lock
         /\ txn[t].jobs \subseteq JobId /\ txn[t].back \subseteq JobId
         /\ txn[t].pool \subseteq JobId /\ txn[t].found \subseteq RunId
BY DEF TypeOK, Txn, Statement

\* The statements that pick nothing new, of transactions other than claims.
PickedTxn(x, J) == [x EXCEPT !.jobs = J]

LEMMA Picked ==
  ASSUME NEW x \in Txn, NEW J \in SUBSET JobId
  PROVE  LET m == PickedTxn(x, J)
         IN /\ m \in Txn /\ m.jobs = J /\ m.op = x.op /\ m.at = x.at /\ m.want = x.want
            /\ m.run = x.run /\ m.job = x.job /\ m.worker = x.worker
            /\ m.outcome = x.outcome
            /\ m.found = x.found /\ m.back = x.back /\ m.pool = x.pool
BY DEF PickedTxn, Txn

LEMMA PlainGoOn ==
  ASSUME LocksInv, NEW t \in TxnId, NEW at \in Statement,
         NEW locks \in SUBSET Lock, txn[t].op \notin {"none", "claim"}, Free(txn[t].want),
         \/ GoOn(t, txn[t], at, locks)
         \/ \E J \in SUBSET LockedJobs(t) : /\ \A j \in J : job[j].state # "absent"
                                            /\ GoOn(t, PickedTxn(txn[t], J), at, locks)
  PROVE  Kept({t})
<1>1. TypeOK /\ TxnOK(t, txn[t], job, holder)
  BY DEF LocksInv
<1>2. /\ txn[t] \in Txn /\ txn[t].pool \subseteq JobId
      /\ LockedJobs(t) \subseteq JobId
  BY <1>1, TxnTyped DEF LockedJobs
<1>3. \A j \in txn[t].pool : j \in LockedJobs(t)
  BY <1>1, <1>2, LockNames DEF TxnOK, Mine, LockedJobs, Locked, JobLock
<1>a. /\ \A j \in Mine(txn[t]) : job[j].state # "absent"
      /\ txn[t].op \in {"complete", "cancelJob"} => txn[t].job \in JobId
      /\ txn[t].op = "complete" => txn[t].outcome \in Outcome
  BY <1>1 DEF TxnOK
<1>4. CASE GoOn(t, txn[t], at, locks)
  BY <1>2, <1>3, <1>4, <1>a, GoOnStep
<1>5. ASSUME NEW J \in SUBSET LockedJobs(t), \A j \in J : job[j].state # "absent",
             GoOn(t, PickedTxn(txn[t], J), at, locks)
      PROVE  Kept({t})
  <2> PICK m : m = PickedTxn(txn[t], J)
    OBVIOUS
  <2>1. /\ m \in Txn /\ m.jobs = J /\ m.op = txn[t].op /\ m.job = txn[t].job
        /\ m.run = txn[t].run /\ m.outcome = txn[t].outcome /\ m.worker = txn[t].worker
        /\ m.back = txn[t].back /\ m.pool = txn[t].pool
    BY <1>2, Picked
  <2>2. \A j \in Mine(m) : /\ j \in Mine(txn[t]) \/ j \in LockedJobs(t) \/ j \in m.pool
                          /\ job[j].state # "absent"
    BY <1>5, <1>a, <2>1 DEF Mine
  <2>3. /\ GoOn(t, m, at, locks) /\ m.op # "none" /\ m.op # "claim"
        /\ m.op \in {"complete", "cancelJob"} => m.job \in JobId
        /\ m.op = "complete" => m.outcome \in Outcome
    BY <1>5, <1>a, <2>1
  <2>4. \A j \in m.pool : holder[JobLock(j)] = Nobody \/ j \in LockedJobs(t)
    BY <1>3, <2>1
  <2> QED
    BY <2>1, <2>2, <2>3, <2>4, GoOnStep
<1> QED
  BY <1>4, <1>5

PlainStatement(t) ==
  \/ CancelRunTask(t)
  \/ ExpireSelect(t) \/ ExpireJobs(t)
  \/ PruneSelect(t) \/ PruneJobs(t) \/ PruneTasks(t)

LEMMA RunsKnown ==
  ASSUME TypeOK, NEW R \in SUBSET RunId
  PROVE  /\ \A P \in SUBSET R : RunLocks(P) \in SUBSET Lock /\ TaskLocks(P) \in SUBSET Lock
         /\ \A P \in SUBSET JobId : JobLocks(P) \in SUBSET Lock
BY LockSets

LEMMA PlainStatementStep ==
  ASSUME LocksInv, NEW t \in TxnId, PlainStatement(t)
  PROVE  Kept({t})
<1>0. /\ TypeOK /\ txn[t].found \subseteq RunId /\ txn[t] \in Txn
      /\ "jobs" \in Statement /\ "run" \in Statement /\ "task" \in Statement
  BY TxnTyped DEF LocksInv, Statement
<1> SUFFICES \E at \in Statement, locks \in SUBSET Lock :
               /\ txn[t].op \notin {"none", "claim"} /\ Free(txn[t].want)
               /\ \/ GoOn(t, txn[t], at, locks)
                  \/ \E J \in SUBSET LockedJobs(t) :
                       /\ \A j \in J : job[j].state # "absent"
                       /\ GoOn(t, PickedTxn(txn[t], J), at, locks)
  BY PlainGoOn
<1>1. CASE CancelRunTask(t)
  <2> PICK locks : locks = IF task[txn[t].run] = "pending" THEN TaskLocks({txn[t].run}) ELSE {}
    OBVIOUS
  <2>1. txn[t].run \in RunId
    BY <1>1 DEF LocksInv, TxnOK, CancelRunTask, Executes
  <2>2. locks \in SUBSET Lock
    BY <2>1, LockSets
  <2> PICK J : J = {j \in LockedJobs(t) : Active(j)}
    OBVIOUS
  <2>3. J \in SUBSET LockedJobs(t) /\ \A j \in J : job[j].state # "absent"
    BY DEF Active
  <2>4. GoOn(t, PickedTxn(txn[t], J), "task", locks)
        /\ txn[t].op = "cancelRun" /\ Free(txn[t].want)
    BY <1>1 DEF CancelRunTask, Executes, PickedTxn
  <2> QED
    BY <1>0, <2>2, <2>3, <2>4
<1>2. CASE ExpireSelect(t)
  BY <1>0, <1>2, LockSets DEF ExpireSelect, Executes
<1>3. CASE ExpireJobs(t)
  <2> PICK J : J = {j \in LockedJobs(t) : Active(j)}
    OBVIOUS
  <2>1. J \in SUBSET LockedJobs(t) /\ \A j \in J : job[j].state # "absent"
    BY DEF Active
  <2> QED
    BY <1>0, <1>3, <2>1, LockSets DEF ExpireJobs, Executes, PickedTxn
<1>4. CASE PruneSelect(t)
  BY <1>0, <1>4, LockSets DEF PruneSelect, Executes
<1>5. CASE PruneJobs(t)
  <2> PICK J : J = {j \in LockedJobs(t) : job[j].run \in txn[t].found}
    OBVIOUS
  <2>1. J \in SUBSET LockedJobs(t) /\ \A j \in J : job[j].state # "absent"
    BY <1>0 DEF LocksInv, HaveRuns, LockedJobs
  <2> QED
    BY <1>0, <1>5, <2>1, LockSets DEF PruneJobs, Executes, PickedTxn
<1>6. CASE PruneTasks(t)
  BY <1>0, <1>6, LockSets DEF PruneTasks, Executes
<1> QED
  BY <1>1, <1>2, <1>3, <1>4, <1>5, <1>6 DEF PlainStatement

-----------------------------------------------------------------------------
(* ... the statements of a claim.                                          *)

Found(x, J, P) == [x EXCEPT !.back = J, !.pool = P]
Tries(x, j)    == [x EXCEPT !.job = j]
Leaves(x, P)   == [x EXCEPT !.pool = P]

SameClaim(m, x) ==
  /\ m \in Txn /\ m.op = x.op /\ m.at = x.at /\ m.want = x.want /\ m.run = x.run
  /\ m.worker = x.worker /\ m.outcome = x.outcome /\ m.found = x.found /\ m.jobs = x.jobs

LEMMA FoundTxn ==
  ASSUME NEW x \in Txn, NEW J \in SUBSET JobId, NEW P \in SUBSET JobId
  PROVE  /\ SameClaim(Found(x, J, P), x)
         /\ Found(x, J, P).job = x.job /\ Found(x, J, P).back = J /\ Found(x, J, P).pool = P
BY DEF SameClaim, Found, Txn

LEMMA TriesTxn ==
  ASSUME NEW x \in Txn, NEW j \in JobId
  PROVE  /\ SameClaim(Tries(x, j), x)
         /\ Tries(x, j).job = j /\ Tries(x, j).back = x.back /\ Tries(x, j).pool = x.pool
BY DEF SameClaim, Tries, Txn

LEMMA LeavesTxn ==
  ASSUME NEW x \in Txn, NEW P \in SUBSET JobId
  PROVE  /\ SameClaim(Leaves(x, P), x)
         /\ Leaves(x, P).job = x.job /\ Leaves(x, P).back = x.back /\ Leaves(x, P).pool = P
BY DEF SameClaim, Leaves, Txn

\* What holds of t's claim at each of its statements.
LEMMA ClaimFacts ==
  ASSUME LocksInv, NEW t \in TxnId, txn[t].op = "claim"
  PROVE  /\ TypeOK /\ HaveRuns(job) /\ txn[t] \in Txn
         /\ ClaimKnows(txn[t], job, HeldBy(holder, t))
         /\ \A j \in Mine(txn[t]) : /\ j \in JobId /\ j \in LockedJobs(t)
                                    /\ holder[JobLock(j)] = t
                                    /\ job[j].state # "absent"
         /\ HeldBy(holder, t) \subseteq Locked(t)
<1>1. TypeOK /\ HaveRuns(job) /\ txn[t] \in Txn /\ TxnOK(t, txn[t], job, holder)
  BY TxnTyped DEF LocksInv
<1>2. \A j \in Mine(txn[t]) : /\ j \in JobId /\ holder[JobLock(j)] = t
                             /\ job[j].state # "absent"
  BY <1>1 DEF TxnOK, Mine
<1>3. HeldBy(holder, t) \subseteq Locked(t)
  BY DEF HeldBy, Locked
<1>4. \A j \in Mine(txn[t]) : j \in LockedJobs(t)
  BY <1>2, LockNames DEF Locked, LockedJobs, JobLock
<1>5. ClaimKnows(txn[t], job, HeldBy(holder, t))
  BY <1>1 DEF TxnOK
<1> QED
  BY <1>1, <1>2, <1>3, <1>4, <1>5

LEMMA ClaimLapsedStep ==
  ASSUME LocksInv, NEW t \in TxnId, ClaimLapsed(t)
  PROVE  Kept({t})
<1> DEFINE m == txn[t]
<1>1. PICK locks : locks = JobLocks({j \in JobId : Lapsed(j) /\ ~job[j].canceled})
  OBVIOUS
<1>2. GoOn(t, m, "jobs", locks) /\ m.op = "claim" /\ Free(txn[t].want)
  BY <1>1 DEF ClaimLapsed, Executes
<1>3. /\ m \in Txn /\ ClaimKnows(m, job, HeldBy(holder, t))
      /\ \A j \in Mine(m) : j \in JobId /\ j \in LockedJobs(t) /\ job[j].state # "absent"
  BY <1>2, ClaimFacts
<1>4. \A j \in m.pool : j \in LockedJobs(t)
  BY <1>3 DEF Mine, Txn
<1>5. locks \in SUBSET Lock /\ "jobs" \in Statement
  BY <1>1, LockSets DEF Statement
<1> HIDE DEF m
<1>6. ASSUME NEW x, NEW held,
             x.at = "jobs" /\ x.jobs = m.jobs /\ x.back = m.back /\ x.pool = m.pool
      PROVE  ClaimKnows(x, job, held)
  BY <1>3, <1>6 DEF ClaimKnows
<1>7. /\ Free(txn[t].want) /\ m.op = txn[t].op /\ m.run = txn[t].run /\ m.op = "claim"
      /\ m.worker = txn[t].worker
  BY <1>2 DEF m
<1> QED
  BY <1>2, <1>3, <1>4, <1>5, <1>6, <1>7, GoOnStep

LEMMA ClaimPickStep ==
  ASSUME LocksInv, NEW t \in TxnId, ClaimPick(t)
  PROVE  Kept({t})
<1>1. PICK back : back = {j \in LockedJobs(t) : Lapsed(j) /\ ~job[j].canceled}
  OBVIOUS
<1>2. PICK pool : pool = Pick(t, back)
  OBVIOUS
<1>3. PICK m : m = Found(txn[t], back, pool)
  OBVIOUS
<1>4. /\ txn[t].op = "claim" /\ Free(txn[t].want)
      /\ Rollback(t) \/ GoOn(t, m, "count", {})
  BY <1>1, <1>2, <1>3 DEF ClaimPick, Executes, Found
<1>5. /\ txn[t] \in Txn /\ ClaimKnows(txn[t], job, HeldBy(holder, t))
      /\ \A j \in Mine(txn[t]) : /\ j \in JobId /\ j \in LockedJobs(t)
                                 /\ job[j].state # "absent"
  BY <1>4, ClaimFacts
<1>6. back \in SUBSET JobId /\ pool \in SUBSET JobId
  BY <1>1, <1>2 DEF LockedJobs, Pick
<1>7. /\ m \in Txn /\ m.op = "claim" /\ m.run = txn[t].run /\ m.jobs = txn[t].jobs
      /\ m.worker = txn[t].worker
      /\ m.job = txn[t].job /\ m.back = back /\ m.pool = pool
  BY <1>3, <1>4, <1>5, <1>6, FoundTxn DEF SameClaim
<1>8. \A j \in back : j \in LockedJobs(t) /\ LapsedRow(job[j]) /\ ~job[j].canceled
                     /\ job[j].state # "absent"
  BY <1>1 DEF Lapsed, LapsedRow
<1>9. \A j \in pool : /\ holder[JobLock(j)] = Nobody \/ j \in LockedJobs(t)
                      /\ job[j].state = "queued" \/ j \in back
                      /\ job[j].state # "absent"
  BY <1>2, <1>8 DEF Pick, JobLock
<1>10. \A j \in Mine(m) : /\ j \in Mine(txn[t]) \/ j \in LockedJobs(t) \/ j \in m.pool
                         /\ job[j].state # "absent"
  BY <1>5, <1>7, <1>8, <1>9 DEF Mine
<1>11. \A j \in txn[t].jobs : LapsedRow(job[j]) /\ job[j].canceled
  BY <1>5 DEF ClaimKnows
<1>12. ASSUME NEW x, NEW held,
              x.at = "count" /\ x.jobs = m.jobs /\ x.back = m.back /\ x.pool = m.pool
       PROVE  ClaimKnows(x, job, held)
  BY <1>7, <1>8, <1>9, <1>11, <1>12 DEF ClaimKnows
<1>13. CASE GoOn(t, m, "count", {})
  <2>1. "count" \in Statement /\ {} \in SUBSET Lock
    BY DEF Statement
  <2> QED
    BY <1>4, <1>7, <1>9, <1>10, <1>12, <1>13, <2>1, GoOnStep
<1> QED
  BY <1>4, <1>13, RollbackStep

LEMMA ClaimCountStep ==
  ASSUME LocksInv, NEW t \in TxnId, ClaimCount(t)
  PROVE  Kept({t})
<1>1. txn[t].op = "claim" /\ Free(txn[t].want)
  BY DEF ClaimCount, Executes
<1>2. PICK j \in txn[t].pool : GoOn(t, Tries(txn[t], j), "limit", CountLocks(j))
  BY DEF ClaimCount, Tries
<1>3. PICK m : m = Tries(txn[t], j)
  OBVIOUS
<1>4. PICK locks : locks = CountLocks(j)
  OBVIOUS
<1>5. /\ txn[t] \in Txn /\ ClaimKnows(txn[t], job, HeldBy(holder, t)) /\ HaveRuns(job)
      /\ \A i \in Mine(txn[t]) : /\ i \in JobId /\ i \in LockedJobs(t)
                                 /\ job[i].state # "absent"
  BY <1>1, ClaimFacts
<1>6. j \in JobId /\ job[j].state # "absent" /\ j \in LockedJobs(t)
      /\ \A i \in txn[t].pool : i \in LockedJobs(t)
  BY <1>5 DEF Mine, Txn
<1>7. /\ m \in Txn /\ m.op = "claim" /\ m.run = txn[t].run /\ m.jobs = txn[t].jobs
      /\ m.worker = txn[t].worker
      /\ m.job = j /\ m.back = txn[t].back /\ m.pool = txn[t].pool
  BY <1>1, <1>3, <1>5, <1>6, TriesTxn DEF SameClaim
<1>8. locks = CountLocksOf(job[j]) /\ locks \in SUBSET Lock /\ "limit" \in Statement
  <2>1. job[j].run \in RunId
    BY <1>5, <1>6 DEF HaveRuns
  <2>2. AppLock(AppOf[job[j].run]) \in Lock
    BY <2>1, ConstantAssumption, LockNames
  <2> QED
    BY <1>4, <2>2 DEF CountLocks, CountLocksOf, Statement
<1>9. \A i \in Mine(m) : /\ i \in Mine(txn[t]) \/ i \in LockedJobs(t) \/ i \in m.pool
                        /\ job[i].state # "absent"
  BY <1>5, <1>6, <1>7 DEF Mine
<1>10. ASSUME NEW x, NEW held,
              x.at = "limit" /\ x.want = locks \ Locked(t) /\ x.job = m.job,
              x.jobs = m.jobs /\ x.back = m.back /\ x.pool = m.pool,
              Locked(t) \subseteq held
       PROVE  ClaimKnows(x, job, held)
  <2>1. CountLocksOf(job[x.job]) \subseteq held \union x.want
    BY <1>7, <1>8, <1>10
  <2>2. x.job \in x.pool
    BY <1>2, <1>7, <1>10
  <2> QED
    BY <1>5, <1>7, <1>10, <2>1, <2>2 DEF ClaimKnows
<1>11. GoOn(t, m, "limit", locks)
  BY <1>2, <1>3, <1>4
<1> QED
  BY <1>1, <1>6, <1>7, <1>8, <1>9, <1>10, <1>11, GoOnStep

LEMMA RoomIsRoom ==
  ASSUME NEW t \in TxnId, NEW r
  PROVE  LimitReached(t, r) <=> ~Room(txn[t], job, r)
<1>1. RunningFor(t, AppOf[r]) = OthersRunning(txn[t], job, AppOf[r])
  BY DEF RunningFor, OthersRunning
<1> QED
  BY <1>1 DEF LimitReached, Room

LEMMA ClaimLimitStep ==
  ASSUME LocksInv, NEW t \in TxnId, ClaimLimit(t)
  PROVE  Kept({t})
<1>1. txn[t].op = "claim" /\ Free(txn[t].want) /\ txn[t].at = "limit"
  BY DEF ClaimLimit, Executes
<1>2. PICK j : j = txn[t].job
  OBVIOUS
<1>3. PICK m : m = Leaves(txn[t], txn[t].pool \ {j})
  OBVIOUS
<1>4. \/ ~LimitReached(t, job[j].run) /\ GoOn(t, txn[t], "grant", RunLocks({job[j].run}))
      \/ Rollback(t)
      \/ GoOn(t, m, "count", {})
  BY <1>2, <1>3 DEF ClaimLimit, Leaves
<1>5. /\ txn[t] \in Txn /\ ClaimKnows(txn[t], job, HeldBy(holder, t)) /\ HaveRuns(job)
      /\ HeldBy(holder, t) \subseteq Locked(t)
      /\ \A i \in Mine(txn[t]) : /\ i \in JobId /\ i \in LockedJobs(t)
                                 /\ job[i].state # "absent"
  BY <1>1, ClaimFacts
<1>6. j \in txn[t].pool /\ \A i \in txn[t].pool : i \in Mine(txn[t]) /\ i \in LockedJobs(t)
  BY <1>1, <1>2, <1>5 DEF ClaimKnows, Mine, Txn
<1>7. CASE ~LimitReached(t, job[j].run) /\ GoOn(t, txn[t], "grant", RunLocks({job[j].run}))
  <2>1. j \in JobId /\ job[j].run \in RunId
    BY <1>5, <1>6 DEF HaveRuns
  <2>2. PICK locks : locks = RunLocks({job[j].run})
    OBVIOUS
  <2>3. locks \in SUBSET Lock /\ "grant" \in Statement /\ GoOn(t, txn[t], "grant", locks)
    BY <1>7, <2>1, <2>2, LockSets DEF Statement
  <2>4. Room(txn[t], job, job[j].run)
    BY <1>7, RoomIsRoom
  <2>5. CountLocksOf(job[j]) \subseteq Locked(t)
    BY <1>1, <1>2, <1>5 DEF ClaimKnows, Locked
  <2>6. ASSUME NEW x, NEW held, x.at = "grant" /\ x.job = txn[t].job,
               x.jobs = txn[t].jobs /\ x.back = txn[t].back /\ x.pool = txn[t].pool,
               Locked(t) \subseteq held
        PROVE  ClaimKnows(x, job, held)
    <3>1. Room(x, job, job[j].run)
      BY <2>4, <2>6 DEF Room, OthersRunning
    <3>2. CountLocksOf(job[x.job]) \subseteq held /\ x.job \in x.pool
      BY <1>2, <1>6, <2>5, <2>6
    <3> QED
      BY <1>2, <1>5, <2>6, <3>1, <3>2 DEF ClaimKnows
  <2>7. /\ \A i \in Mine(txn[t]) : /\ i \in Mine(txn[t]) \/ i \in LockedJobs(t) \/ i \in txn[t].pool
                                   /\ job[i].state # "absent"
        /\ txn[t].op # "none" /\ txn[t].op \notin {"complete", "cancelJob"}
    BY <1>1, <1>5
  <2> QED
    BY <1>1, <1>5, <1>6, <2>3, <2>6, <2>7, GoOnStep
<1>8. CASE GoOn(t, m, "count", {})
  <2>1. txn[t].pool \ {j} \in SUBSET JobId /\ txn[t].pool \in SUBSET JobId /\ j \in JobId
    BY <1>5, <1>6 DEF Txn
  <2>2. /\ m \in Txn /\ m.op = "claim" /\ m.run = txn[t].run /\ m.jobs = txn[t].jobs
        /\ m.worker = txn[t].worker
        /\ m.job = txn[t].job /\ m.back = txn[t].back /\ m.pool = txn[t].pool \ {j}
    BY <1>1, <1>3, <1>5, <2>1, LeavesTxn DEF SameClaim
  <2>3. "count" \in Statement /\ {} \in SUBSET Lock
    BY DEF Statement
  <2>4. \A i \in Mine(m) : /\ i \in Mine(txn[t]) \/ i \in LockedJobs(t) \/ i \in m.pool
                          /\ job[i].state # "absent"
    BY <1>5, <2>2 DEF Mine
  <2>5. ASSUME NEW x, NEW held,
               x.at = "count" /\ x.jobs = m.jobs /\ x.back = m.back /\ x.pool = m.pool
        PROVE  ClaimKnows(x, job, held)
    BY <1>5, <2>2, <2>5 DEF ClaimKnows
  <2>6. \A i \in m.pool : i \in LockedJobs(t)
    BY <1>6, <2>2
  <2> QED
    BY <1>1, <1>8, <2>2, <2>3, <2>4, <2>5, <2>6, GoOnStep
<1> QED
  BY <1>4, <1>7, <1>8, RollbackStep

-----------------------------------------------------------------------------
(* ... the statements that commit.                                         *)

LEMMA CanceledRow ==
  ASSUME TypeOK, NEW j \in JobId
  PROVE  /\ CanceledJob(j) \in JobRow
         /\ CanceledJob(j).state = "failed" /\ CanceledJob(j).run = job[j].run
         /\ CanceledJob(j).lease = "none" /\ CanceledJob(j).attempt = job[j].attempt
         /\ CanceledJob(j).owner = job[j].owner
BY DEF TypeOK, CanceledJob, JobRow

LEMMA CompletedRow ==
  ASSUME TypeOK, NEW j \in JobId, NEW state \in {"succeeded", "failed"}
  PROVE  /\ CompletedJob(j, state) \in JobRow
         /\ CompletedJob(j, state).state = state /\ CompletedJob(j, state).run = job[j].run
         /\ CompletedJob(j, state).attempt = job[j].attempt
BY DEF TypeOK, CompletedJob, JobRow

\* Rows of J rewritten, none of them made to run; or deleted.
LEMMA RewritesRows ==
  ASSUME TypeOK, HaveRuns(job), NEW J, job' \in AllRows,
         \A j \in JobId \ J : job'[j] = job[j],
         \A j \in JobId : j \in J =>
           \/ /\ job[j].state # "absent" /\ job'[j].state \notin {"absent", "running"}
              /\ job'[j].run = job[j].run
           \/ job'[j].state = "absent" /\ job'[j].run = NoRun
  PROVE  HaveRuns(job') /\ NoneStarts({}) /\ OnlyChanges(J)
BY ConstantAssumption DEF HaveRuns, NoneStarts, OnlyChanges, Later

LEMMA CommitFacts ==
  ASSUME LocksInv, NEW t \in TxnId
  PROVE  /\ TypeOK /\ HaveRuns(job)
         /\ \A j \in JobId : j \in Mine(txn[t]) => job[j].state # "absent"
         /\ txn[t].jobs \subseteq Mine(txn[t])
         /\ txn[t].op \in {"complete", "cancelJob"} =>
              txn[t].job \in JobId /\ txn[t].job \in Mine(txn[t])
         /\ txn[t].op = "complete" => txn[t].outcome \in Outcome
         /\ txn[t].op \in {"cancelRun", "resume"} => txn[t].run \in RunId
<1>1. TypeOK /\ HaveRuns(job) /\ TxnOK(t, txn[t], job, holder) /\ txn[t].jobs \subseteq JobId
  BY TxnTyped DEF LocksInv
<1> QED
  BY <1>1 DEF TxnOK, Mine

OneRow(j, row) == job' = [job EXCEPT ![j] = row]

LEMMA OneRowRewritten ==
  ASSUME TypeOK, HaveRuns(job), NEW j \in JobId, NEW row \in JobRow, OneRow(j, row),
         NEW J, j \in J, job[j].state # "absent", row.state \notin {"absent", "running"},
         row.run = job[j].run
  PROVE  job' \in AllRows /\ HaveRuns(job') /\ NoneStarts({}) /\ OnlyChanges(J)
<1>1. job' \in AllRows /\ job'[j] = row /\ \A i \in JobId \ {j} : job'[i] = job[i]
  BY DEF TypeOK, AllRows, OneRow
<1>2. /\ \A i \in JobId \ J : job'[i] = job[i]
      /\ \A i \in JobId \ {j} : job[i] = job'[i]
  BY <1>1
<1> QED
  BY <1>1, <1>2 DEF HaveRuns, NoneStarts, OnlyChanges, Later

LEMMA CompleteStep ==
  ASSUME LocksInv, NEW t \in TxnId, CompleteRun(t)
  PROVE  Kept({t})
<1>1. PICK j, o, r : j = txn[t].job /\ o = txn[t].outcome /\ r = job[j].run
  OBVIOUS
<1>2. txn[t].op = "complete" /\ Commit(t, {r}) /\ issued' = issued
  BY <1>1 DEF CompleteRun, Executes
<1>3. /\ TypeOK /\ HaveRuns(job) /\ j \in JobId /\ j \in Mine(txn[t])
      /\ o \in Outcome /\ job[j].state # "absent"
  BY <1>1, <1>2, CommitFacts
<1>4. \/ OneRow(j, CanceledJob(j)) /\ run' = [run EXCEPT ![r] = "CANCELED"] /\ task' = task
      \/ /\ OneRow(j, CompletedJob(j, IF o = "FAILED" THEN "failed" ELSE "succeeded"))
         /\ run' = [run EXCEPT ![r] = o]
         /\ task' = [task EXCEPT ![r] = IF o = "WAITING_HUMAN" THEN "pending" ELSE @]
  BY <1>1 DEF CompleteRun, OneRow
<1>5. PICK row \in JobRow : /\ OneRow(j, row) /\ row.state \notin {"absent", "running"}
                            /\ row.run = job[j].run
  BY <1>3, <1>4, CanceledRow, CompletedRow
<1>6. job' \in AllRows /\ HaveRuns(job') /\ NoneStarts({}) /\ OnlyChanges(Mine(txn[t]))
  BY <1>3, <1>5, OneRowRewritten
<1>7. run' \in [RunId -> RunState] /\ task' \in [RunId -> {"none", "pending", "done"}]
  BY <1>3, <1>4 DEF TypeOK, RunState, Terminal, Outcome
<1>8. issued' \subseteq Lease
  BY <1>2, <1>3 DEF TypeOK
<1> QED
  BY <1>2, <1>6, <1>7, <1>8, CommitStep

LEMMA CancelJobStep ==
  ASSUME LocksInv, NEW t \in TxnId, CancelJob(t)
  PROVE  Kept({t})
<1>1. PICK j, r : j = txn[t].job /\ r = job[j].run
  OBVIOUS
<1>2. txn[t].op = "cancelJob" /\ UNCHANGED <<task, issued>>
  BY <1>1 DEF CancelJob, Executes
<1>3. /\ TypeOK /\ HaveRuns(job) /\ j \in JobId /\ j \in Mine(txn[t])
      /\ job[j].state # "absent"
  BY <1>1, <1>2, CommitFacts
<1>4. task' \in [RunId -> {"none", "pending", "done"}] /\ issued' \subseteq Lease
  BY <1>2, <1>3 DEF TypeOK
<1>5. CASE UNCHANGED <<run, job>> /\ Commit(t, {})
  <2>1. HaveRuns(job') /\ NoneStarts({}) /\ OnlyChanges(Mine(txn[t]))
    BY <1>3, <1>5, UnchangedRows DEF OnlyChanges, NoneStarts
  <2> QED
    BY <1>3, <1>4, <1>5, <2>1, CommitStep DEF TypeOK, AllRows
<1>6. CASE Commit(t, {r}) /\ job[j].state = "running"
           /\ job' = [job EXCEPT ![j].canceled = TRUE] /\ run' = run
  <2>1. job[j] \in JobRow
    BY <1>3 DEF TypeOK
  <2>2. [job[j] EXCEPT !.canceled = TRUE] \in JobRow
        /\ [job[j] EXCEPT !.canceled = TRUE].run = job[j].run
        /\ [job[j] EXCEPT !.canceled = TRUE].state = job[j].state
    BY <2>1 DEF JobRow
  <2>3. PICK row \in JobRow : /\ job' = [job EXCEPT ![j] = row]
                              /\ row.run = job[j].run /\ row.state = "running"
                              /\ row.state # "absent" /\ job[j].state = "running"
    BY <1>6, <2>2
  <2>4. job' \in AllRows /\ HaveRuns(job') /\ NoneStarts({}) /\ OnlyChanges({j})
    BY <1>3, <2>3, RewritesRow
  <2>5. OnlyChanges(Mine(txn[t])) /\ run' \in [RunId -> RunState]
    BY <1>3, <1>6, <2>4 DEF OnlyChanges, TypeOK
  <2> QED
    BY <1>4, <1>6, <2>4, <2>5, CommitStep
<1>7. CASE Commit(t, {r}) /\ OneRow(j, CanceledJob(j)) /\ run' = [run EXCEPT ![r] = "CANCELED"]
  <2>1. job' \in AllRows /\ HaveRuns(job') /\ NoneStarts({}) /\ OnlyChanges(Mine(txn[t]))
    BY <1>3, <1>7, CanceledRow, OneRowRewritten
  <2>2. run' \in [RunId -> RunState]
    BY <1>3, <1>7 DEF TypeOK, RunState, Terminal
  <2> QED
    BY <1>4, <1>7, <2>1, <2>2, CommitStep
<1> QED
  BY <1>1, <1>5, <1>6, <1>7 DEF CancelJob, OneRow

LEMMA CancelRunRows ==
  ASSUME TypeOK, NEW t \in TxnId, CancelRun(t), NEW j \in JobId
  PROVE  /\ job'[j] \in JobRow
         /\ j \notin txn[t].jobs => job'[j] = job[j]
         /\ j \in txn[t].jobs => /\ job'[j].state = "failed" /\ job'[j].run = job[j].run
                                /\ job'[j].attempt = job[j].attempt
<1>1. job' = [i \in JobId |-> IF i \in txn[t].jobs
                THEN [CompletedJob(i, "failed") EXCEPT !.owner = NoWorker] ELSE job[i]]
  BY DEF CancelRun
<1>2. ASSUME NEW row \in JobRow, NEW new, new = [row EXCEPT !.owner = NoWorker]
      PROVE  /\ new \in JobRow /\ new.state = row.state /\ new.run = row.run
             /\ new.attempt = row.attempt
  BY <1>2 DEF JobRow
<1>3. CASE j \in txn[t].jobs
  <2>1. job'[j] = [CompletedJob(j, "failed") EXCEPT !.owner = NoWorker]
    BY <1>1, <1>3
  <2> QED
    BY <1>2, <1>3, <2>1, CompletedRow
<1>4. CASE j \notin txn[t].jobs
  BY <1>1, <1>4 DEF TypeOK
<1> QED
  BY <1>3, <1>4

LEMMA CancelRunStep ==
  ASSUME LocksInv, NEW t \in TxnId, CancelRun(t)
  PROVE  Kept({t})
<1>1. /\ TypeOK /\ HaveRuns(job) /\ txn[t].jobs \subseteq Mine(txn[t])
      /\ \A j \in JobId : j \in Mine(txn[t]) => job[j].state # "absent"
  BY CommitFacts
<1>2. PICK J : J = txn[t].jobs
  OBVIOUS
<1>3. /\ job' = [j \in JobId |-> IF j \in J
                    THEN [CompletedJob(j, "failed") EXCEPT !.owner = NoWorker] ELSE job[j]]
      /\ Commit(t, {txn[t].run}) /\ issued' = issued
      /\ run' = [run EXCEPT ![txn[t].run] = "CANCELED"]
      /\ task' = [task EXCEPT ![txn[t].run] = IF @ = "pending" THEN "done" ELSE @]
  BY <1>2 DEF CancelRun
<1>5. \A j \in JobId : /\ job'[j] \in JobRow
                       /\ j \notin J => job'[j] = job[j]
                       /\ j \in J => job'[j].state = "failed" /\ job'[j].run = job[j].run
  BY <1>1, <1>2, CancelRunRows
<1>6. job' \in AllRows
  BY <1>3, <1>5 DEF AllRows
<1>7. \A j \in JobId : j \in J => job[j].state # "absent"
  BY <1>1, <1>2
<1>8. HaveRuns(job') /\ NoneStarts({}) /\ OnlyChanges(J)
  BY <1>1, <1>5, <1>6, <1>7, RewritesRows
<1>9. OnlyChanges(Mine(txn[t]))
  BY <1>1, <1>2, <1>8 DEF OnlyChanges
<1>10. /\ run' \in [RunId -> RunState] /\ task' \in [RunId -> {"none", "pending", "done"}]
       /\ issued' \subseteq Lease
  BY <1>1, <1>3 DEF TypeOK, RunState, Terminal
<1> QED
  BY <1>3, <1>6, <1>8, <1>9, <1>10, CommitStep

LEMMA ResumeStep ==
  ASSUME LocksInv, NEW t \in TxnId, ResumeHumanTask(t)
  PROVE  Kept({t})
<1>1. TypeOK /\ HaveRuns(job) /\ txn[t].op = "resume" /\ txn[t].run \in RunId
  BY CommitFacts DEF ResumeHumanTask, Executes
<1>2. PICK r \in RunId : r = txn[t].run
  BY <1>1
<1>3. CASE /\ Inserts(r) /\ Commit(t, {r}) /\ issued' = issued
           /\ run' = [run EXCEPT ![r] = "RESUMING"] /\ task' = [task EXCEPT ![r] = "done"]
  <2>1. HaveRuns(job') /\ job' \in AllRows /\ NoneStarts({}) /\ OnlyChanges({})
    BY <1>1, <1>3, InsertsRow DEF Inserts
  <2>2. OnlyChanges(Mine(txn[t]))
    BY <2>1 DEF OnlyChanges
  <2>3. /\ run' \in [RunId -> RunState] /\ task' \in [RunId -> {"none", "pending", "done"}]
        /\ issued' \subseteq Lease
    BY <1>1, <1>3 DEF TypeOK, RunState, Working
  <2> QED
    BY <1>3, <2>1, <2>2, <2>3, CommitStep
<1> QED
  BY <1>2, <1>3, RollbackStep DEF ResumeHumanTask

LEMMA ExpireRows ==
  ASSUME TypeOK, NEW t \in TxnId, ExpireStuckJobs(t), NEW j \in JobId
  PROVE  /\ job'[j] \in JobRow
         /\ j \notin txn[t].jobs => job'[j] = job[j]
         /\ j \in txn[t].jobs => /\ job'[j].state = "failed" /\ job'[j].run = job[j].run
                                /\ job'[j].attempt = job[j].attempt
<1>1. /\ job' = [i \in JobId |-> IF i \in txn[t].jobs
                                 THEN [job[i] EXCEPT !.state = "failed"] ELSE job[i]]
      /\ job[j] \in JobRow
  BY DEF ExpireStuckJobs, TypeOK
<1>2. ASSUME NEW row \in JobRow, NEW new, new = [row EXCEPT !.state = "failed"]
      PROVE  /\ new \in JobRow /\ new.state = "failed" /\ new.run = row.run
             /\ new.attempt = row.attempt
  BY <1>2 DEF JobRow
<1>3. CASE j \in txn[t].jobs
  <2>1. job'[j] = [job[j] EXCEPT !.state = "failed"]
    BY <1>1, <1>3
  <2> QED
    BY <1>1, <1>2, <1>3, <2>1
<1>4. CASE j \notin txn[t].jobs
  BY <1>1, <1>4
<1> QED
  BY <1>3, <1>4

LEMMA ExpireStep ==
  ASSUME LocksInv, NEW t \in TxnId, ExpireStuckJobs(t)
  PROVE  Kept({t})
<1>1. /\ TypeOK /\ HaveRuns(job) /\ txn[t].jobs \subseteq Mine(txn[t])
      /\ \A j \in JobId : j \in Mine(txn[t]) => job[j].state # "absent"
  BY CommitFacts
<1>2. PICK J : J = txn[t].jobs
  OBVIOUS
<1>3. /\ job' = [j \in JobId |-> IF j \in J THEN [job[j] EXCEPT !.state = "failed"] ELSE job[j]]
      /\ Commit(t, txn[t].found) /\ UNCHANGED <<task, issued>>
      /\ run' = [r \in RunId |-> IF r \in txn[t].found /\ run[r] # "ABSENT"
                                  THEN "EXPIRED" ELSE run[r]]
  BY <1>2 DEF ExpireStuckJobs
<1>5. \A j \in JobId : /\ job'[j] \in JobRow
                       /\ j \notin J => job'[j] = job[j]
                       /\ j \in J => job'[j].state = "failed" /\ job'[j].run = job[j].run
  BY <1>1, <1>2, ExpireRows
<1>6. job' \in AllRows
  BY <1>3, <1>5 DEF AllRows
<1>7. \A j \in JobId : j \in J => job[j].state # "absent"
  BY <1>1, <1>2
<1>8. HaveRuns(job') /\ NoneStarts({}) /\ OnlyChanges(J)
  BY <1>1, <1>5, <1>6, <1>7, RewritesRows
<1>9. OnlyChanges(Mine(txn[t]))
  BY <1>1, <1>2, <1>8 DEF OnlyChanges
<1>10. /\ run' \in [RunId -> RunState] /\ task' \in [RunId -> {"none", "pending", "done"}]
       /\ issued' \subseteq Lease
  BY <1>1, <1>3 DEF TypeOK, RunState, Terminal
<1> QED
  BY <1>3, <1>6, <1>8, <1>9, <1>10, CommitStep

LEMMA PruneStep ==
  ASSUME LocksInv, NEW t \in TxnId, PruneSettledJobs(t)
  PROVE  Kept({t})
<1>1. /\ TypeOK /\ HaveRuns(job) /\ txn[t].jobs \subseteq Mine(txn[t])
  BY CommitFacts
<1>2. PICK J : J = txn[t].jobs
  OBVIOUS
<1>3. CASE /\ job' = [j \in JobId |-> IF j \in J THEN NoJobRow ELSE job[j]]
           /\ task' = [r \in RunId |-> IF r \in txn[t].found THEN "none" ELSE task[r]]
           /\ run' = [r \in RunId |-> IF r \in txn[t].found THEN "ABSENT" ELSE run[r]]
           /\ Commit(t, txn[t].found) /\ issued' = issued
  <2>1. NoJobRow \in JobRow /\ NoJobRow.state = "absent" /\ NoJobRow.run = NoRun
    BY DEF NoJobRow, JobRow
  <2>2. \A j \in JobId : /\ job'[j] \in JobRow
                         /\ j \notin J => job'[j] = job[j]
                         /\ j \in J => job'[j].state = "absent" /\ job'[j].run = NoRun
    BY <1>1, <1>3, <2>1 DEF TypeOK
  <2>3. job' \in AllRows
    BY <1>3, <2>2 DEF AllRows
  <2>4. HaveRuns(job') /\ NoneStarts({}) /\ OnlyChanges(J)
    BY <1>1, <2>2, <2>3, RewritesRows
  <2>5. OnlyChanges(Mine(txn[t]))
    BY <1>1, <1>2, <2>4 DEF OnlyChanges
  <2>6. /\ run' \in [RunId -> RunState] /\ task' \in [RunId -> {"none", "pending", "done"}]
        /\ issued' \subseteq Lease
    BY <1>1, <1>3 DEF TypeOK, RunState
  <2> QED
    BY <1>3, <2>3, <2>4, <2>5, <2>6, CommitStep
<1> QED
  BY <1>2, <1>3, RollbackStep DEF PruneSettledJobs

\* The one step in which a job starts.
GrantRow(j, w) ==
  [job[j] EXCEPT !.state = "running", !.attempt = @ + 1, !.owner = w, !.lease = "live"]
BackRow(j) == [job[j] EXCEPT !.state = "queued", !.owner = NoWorker, !.lease = "none"]

LEMMA GrantRows ==
  ASSUME TypeOK, NEW j \in JobId, NEW w \in WorkerId
  PROVE  /\ GrantRow(j, w) \in JobRow /\ GrantRow(j, w).state = "running"
         /\ GrantRow(j, w).run = job[j].run /\ GrantRow(j, w).owner = w
         /\ GrantRow(j, w).attempt = job[j].attempt + 1 /\ GrantRow(j, w).lease = "live"
         /\ BackRow(j) \in JobRow /\ BackRow(j).state = "queued"
         /\ BackRow(j).run = job[j].run /\ BackRow(j).attempt = job[j].attempt
<1> PICK row \in JobRow : row = job[j]
  BY DEF TypeOK
<1>1. /\ GrantRow(j, w) \in JobRow /\ GrantRow(j, w).state = "running"
      /\ GrantRow(j, w).run = job[j].run /\ GrantRow(j, w).owner = w
      /\ GrantRow(j, w).attempt = job[j].attempt + 1 /\ GrantRow(j, w).lease = "live"
  <2>1. PICK n : n = row.attempt + 1
    OBVIOUS
  <2>2. n \in Nat
    BY <2>1 DEF JobRow
  <2>3. GrantRow(j, w) = [row EXCEPT !.state = "running", !.attempt = n, !.owner = w,
                                     !.lease = "live"]
    BY <2>1 DEF GrantRow
  <2>4. PICK g : g = [row EXCEPT !.state = "running", !.attempt = n, !.owner = w,
                                 !.lease = "live"]
    OBVIOUS
  <2>5. g \in JobRow
    BY <2>2, <2>4 DEF JobRow
  <2>6. g.state = "running" /\ g.attempt = n
    BY <2>4 DEF JobRow
  <2>7. g.owner = w /\ g.lease = "live" /\ g.run = row.run
    BY <2>4 DEF JobRow
  <2>8. g = GrantRow(j, w)
    BY <2>3, <2>4
  <2> QED
    BY <2>1, <2>5, <2>6, <2>7, <2>8
<1>2. /\ BackRow(j) \in JobRow /\ BackRow(j).state = "queued"
      /\ BackRow(j).run = job[j].run /\ BackRow(j).attempt = job[j].attempt
  BY DEF BackRow, JobRow
<1> QED
  BY <1>1, <1>2

\* What a claim that commits does to the rows.
LEMMA GrantedRows ==
  ASSUME LocksInv, NEW t \in TxnId, ClaimGrant(t), NEW c, c = txn[t]
  PROVE  /\ c.job \in JobId /\ c.worker \in WorkerId /\ c.job \notin c.jobs
         /\ job[c.job].state \in {"queued", "running"}
         /\ job' \in AllRows /\ job'[c.job] = GrantRow(c.job, c.worker)
         /\ \A j \in JobId \ {c.job} :
              /\ j \in c.jobs => job'[j] = CanceledJob(j) /\ LapsedRow(job[j]) /\ job[j].canceled
              /\ j \in c.back => job'[j] = BackRow(j) /\ LapsedRow(job[j]) /\ ~job[j].canceled
              /\ j \notin c.jobs \union c.back => job'[j] = job[j]
<1>1. c.op = "claim" /\ c.at = "grant"
  BY DEF ClaimGrant, Executes
<1>2. /\ TypeOK /\ HaveRuns(job) /\ c \in Txn /\ ClaimKnows(c, job, HeldBy(holder, t))
      /\ \A j \in Mine(c) : j \in JobId /\ job[j].state # "absent"
  BY <1>1, ClaimFacts
<1>3. c.worker \in WorkerId
  BY <1>1 DEF LocksInv, TxnOK
<1>4. /\ c.job \in c.pool /\ c.job \in JobId
      /\ job[c.job].state = "queued" \/ c.job \in c.back
      /\ \A j \in c.jobs : LapsedRow(job[j]) /\ job[j].canceled
      /\ \A j \in c.back : LapsedRow(job[j]) /\ ~job[j].canceled
  BY <1>1, <1>2 DEF ClaimKnows, Txn
<1>5. c.job \notin c.jobs /\ job[c.job].state \in {"queued", "running"}
  BY <1>4 DEF LapsedRow
<1>6. job' = [j \in JobId |->
                IF j = c.job THEN GrantRow(c.job, c.worker)
                ELSE IF j \in c.jobs THEN CanceledJob(j)
                ELSE IF j \in c.back THEN BackRow(j) ELSE job[j]]
  BY DEF ClaimGrant, GrantRow, BackRow
<1>7. \A j \in c.back : j \notin c.jobs
  BY <1>4
<1>8. \A j \in JobId : job[j] \in JobRow
  BY <1>2 DEF TypeOK
<1>9. \A j \in JobId : CanceledJob(j) \in JobRow /\ BackRow(j) \in JobRow
                       /\ GrantRow(j, c.worker) \in JobRow
  BY <1>2, <1>3, CanceledRow, GrantRows
<1>10. job' \in AllRows
  BY <1>4, <1>6, <1>8, <1>9 DEF AllRows
<1> QED
  BY <1>3, <1>4, <1>5, <1>6, <1>7, <1>10

LEMMA GrantStep ==
  ASSUME LocksInv, NEW t \in TxnId, ClaimGrant(t)
  PROVE  Kept({t})
<1>1. PICK c : c = txn[t]
  OBVIOUS
<1>2. PICK i : i = c.job
  OBVIOUS
<1>3. /\ TypeOK /\ HaveRuns(job) /\ IsFiniteSet(RunningJobs(job))
      /\ c \in Txn /\ ClaimKnows(c, job, HeldBy(holder, t))
      /\ c.op = "claim" /\ c.at = "grant"
      /\ \A j \in Mine(c) : /\ j \in JobId /\ holder[JobLock(j)] = t
                            /\ job[j].state # "absent"
  BY <1>1, ClaimFacts DEF ClaimGrant, Executes, LocksInv
<1>4. /\ i \in JobId /\ c.worker \in WorkerId /\ i \notin c.jobs
      /\ job[i].state \in {"queued", "running"}
      /\ job' \in AllRows /\ job'[i] = GrantRow(i, c.worker)
      /\ \A j \in JobId \ {i} :
           /\ j \in c.jobs => job'[j] = CanceledJob(j) /\ LapsedRow(job[j]) /\ job[j].canceled
           /\ j \in c.back => job'[j] = BackRow(j) /\ LapsedRow(job[j]) /\ ~job[j].canceled
           /\ j \notin c.jobs \union c.back => job'[j] = job[j]
  BY <1>1, <1>2, GrantedRows
<1>5. job'[i].state = "running" /\ job'[i].run = job[i].run
  BY <1>3, <1>4, GrantRows
<1>6. ASSUME NEW j \in JobId, j # i
      PROVE  /\ job'[j].run = job[j].run
             /\ job'[j].state = "absent" <=> job[j].state = "absent"
             /\ job'[j].state = "running" =>
                  job[j].state = "running" /\ j \notin c.jobs \union c.back
             /\ j \notin c.jobs \union c.back => job'[j] = job[j]
  <2>1. CASE j \in c.jobs
    BY <1>3, <1>4, <1>6, <2>1, CanceledRow DEF LapsedRow
  <2>2. CASE j \in c.back
    BY <1>3, <1>4, <1>6, <2>2, GrantRows DEF LapsedRow
  <2>3. CASE j \notin c.jobs \union c.back
    BY <1>4, <1>6, <2>3
  <2> QED
    BY <2>1, <2>2, <2>3
<1>7. HaveRuns(job')
  BY <1>3, <1>4, <1>5, <1>6 DEF HaveRuns
<1>8. NoneStarts({i})
  BY <1>6 DEF NoneStarts
<1>9. OnlyChanges(Mine(c))
  <2>1. ASSUME NEW j \in JobId, j \notin Mine(c) PROVE job'[j] = job[j]
    BY <1>2, <1>6, <2>1 DEF Mine
  <2> QED
    BY <2>1 DEF OnlyChanges, Later
<1>10. IsFiniteSet(RunningJobs(job'))
  BY <1>3, <1>8, RunningFinite, FS_Singleton
<1>11. PICK r, a : r = job[i].run /\ a = AppOf[r]
  OBVIOUS
<1>12. r \in RunId /\ a \in App /\ Limit[r] \in Nat
  BY <1>3, <1>4, <1>11, ConstantAssumption DEF HaveRuns
<1>13. \A b \in App : b # a => RunningIn(job', b) \subseteq RunningIn(job, b)
  BY <1>5, <1>6, <1>11 DEF RunningIn
<1>14. RunningIn(job', a) \subseteq OthersRunning(c, job, a) \union {i}
  BY <1>6 DEF RunningIn, OthersRunning
<1>15. /\ Limit[r] # 0 => AppLock(a) \in HeldBy(holder, t)
       /\ Room(c, job, r) \/ Unlimited(a)
  BY <1>2, <1>3, <1>11 DEF ClaimKnows, CountLocksOf
<1>16. ASSUME NEW u \in TxnId, u # t PROVE AppsSafe(u)
  <2>1. CASE Limit[r] = 0
    <3>1. Unlimited(a)
      BY <1>11, <1>12, <2>1 DEF Unlimited
    <3> QED
      BY <1>13, <3>1 DEF AppsSafe
  <2>2. CASE Limit[r] # 0
    <3>1. AppLock(a) \notin HeldBy(holder, u)
      BY <1>15, <1>16, <2>2 DEF HeldBy
    <3> QED
      BY <1>13, <3>1 DEF AppsSafe
  <2> QED
    BY <2>1, <2>2
<1>17. PICK R : Commit(t, R)
  BY DEF ClaimGrant
<1>18. /\ txn' \in [TxnId -> Txn] /\ holder' \in [Lock -> TxnId \union {Nobody}]
       /\ OnlyMoves(t) /\ txn'[t] = NoTxn /\ HeldBy(holder', t) = {} /\ idle' \subseteq RunId
  BY <1>3, <1>17, EndMoves DEF Commit, TypeOK
<1>19. /\ run' \in [RunId -> RunState] /\ issued' \subseteq Lease /\ task' = task
  <2>1. PICK lost : run' = [q \in RunId |->
                     IF q \in lost THEN "CANCELED"
                     ELSE IF q = job[txn[t].job].run /\ run[q] \in {"QUEUED", "RESUMING"}
                     THEN "RUNNING" ELSE run[q]]
    BY DEF ClaimGrant
  <2>2. run' \in [RunId -> RunState]
    BY <1>3, <2>1 DEF TypeOK, RunState, Terminal, Working
  <2>3. issued' = issued \union {[job |-> i, owner |-> c.worker, attempt |-> job[i].attempt + 1]}
    BY <1>1, <1>2 DEF ClaimGrant
  <2>4. job[i].attempt + 1 \in Nat /\ issued \subseteq Lease
    BY <1>3, <1>4 DEF TypeOK, JobRow
  <2>5. [job |-> i, owner |-> c.worker, attempt |-> job[i].attempt + 1] \in Lease
    BY <1>4, <2>4 DEF Lease
  <2> QED
    BY <2>2, <2>3, <2>4, <2>5 DEF ClaimGrant
<1>20. TypeOK'
  BY <1>3, <1>4, <1>18, <1>19 DEF TypeOK, AllRows
<1>21. ASSUME NEW u \in TxnId
       PROVE  TxnOK(u, txn'[u], job', holder') /\ (u # t => Spared(u))
  <2>1. CASE u = t
    BY <1>18, <2>1, IdleOK
  <2>2. CASE u # t
    <3>1. txn'[u] = txn[u] /\ HeldBy(holder', u) = HeldBy(holder, u)
      BY <1>18, <2>2 DEF OnlyMoves
    <3>2. TxnOK(u, txn[u], job, holder)
      BY DEF LocksInv
    <3>3. \A j \in Mine(txn[u]) : j \in JobId /\ j \notin Mine(c)
      BY <1>3, <2>2, <3>2 DEF TxnOK, Mine
    <3>4. \A j \in Mine(txn[u]) : job[j].state # "absent" => Later(job[j], job'[j])
      BY <1>9, <3>3 DEF OnlyChanges
    <3>5. TxnOK(u, txn'[u], job', holder')
      BY <1>3, <1>16, <2>2, <3>1, <3>2, <3>4, OthersKept
    <3> QED
      BY <3>1, <3>2, <3>4, <3>5 DEF Spared, TxnOK
  <2> QED
    BY <2>1, <2>2
<1>22. LocksInv'
  BY <1>7, <1>10, <1>20, <1>21 DEF LocksInv
<1>23. AppIsKept(job', a)
  <2>1. CASE Unlimited(a)
    BY <2>1 DEF AppIsKept, Unlimited
  <2>2. CASE Limit[r] = 0
    BY <1>11, <1>12, <2>2 DEF AppIsKept
  <2>3. CASE Limit[r] # 0 /\ Room(c, job, r)
    <3> DEFINE A == OthersRunning(c, job, a)
               B == RunningIn(job', a)
    <3>1. A \subseteq RunningJobs(job)
      BY DEF OthersRunning, RunningJobs
    <3>2. IsFiniteSet(A) /\ Cardinality(A) \in Nat
      BY <1>3, <3>1, FS_Subset, FS_CardinalityType
    <3>3. Cardinality(A) < Limit[r]
      BY <1>11, <1>12, <2>3, <3>2 DEF Room
    <3> HIDE DEF A, B
    <3>4. IsFiniteSet(A \union {i}) /\ Cardinality(A \union {i}) <= Cardinality(A) + 1
          /\ Cardinality(A \union {i}) \in Nat
      BY <3>2, FS_AddElement, FS_CardinalityType
    <3>5. B \subseteq A \union {i}
      BY <1>14 DEF A, B
    <3>6. IsFiniteSet(B) /\ Cardinality(B) <= Cardinality(A \union {i}) /\ Cardinality(B) \in Nat
      BY <3>4, <3>5, FS_Subset, FS_CardinalityType
    <3>7. Cardinality(B) <= Limit[r]
      BY <1>12, <3>2, <3>3, <3>4, <3>6
    <3> QED
      BY <1>11, <1>12, <3>7 DEF AppIsKept, B
  <2> QED
    BY <1>15, <2>1, <2>2, <2>3
<1>24. (\A b \in App : AppIsKept(job, b)) => \A b \in App : AppIsKept(job', b)
  BY <1>3, <1>13, <1>23, FewerKept
<1> QED
  BY <1>21, <1>22, <1>24 DEF Kept

-----------------------------------------------------------------------------
LEMMA InitKeeps == Init => LocksInv /\ \A a \in App : AppIsKept(job, a)
<1> SUFFICES ASSUME Init PROVE LocksInv /\ \A a \in App : AppIsKept(job, a)
  OBVIOUS
<1>1. NoJobRow \in JobRow /\ NoJobRow.state = "absent" /\ NoJobRow.run = NoRun
  BY DEF NoJobRow, JobRow
<1>2. TypeOK
  BY <1>1, NoTxnTyped, ConstantAssumption DEF Init, TypeOK, RunState
<1>3. HaveRuns(job) /\ RunningJobs(job) = {}
  BY <1>1, ConstantAssumption DEF Init, HaveRuns, RunningJobs
<1>4. \A a \in App : RunningIn(job, a) = {}
  BY <1>1 DEF Init, RunningIn
<1>5. ASSUME NEW t \in TxnId PROVE TxnOK(t, txn[t], job, holder)
  <2>1. Mine(NoTxn) = {}
    BY NoTxnTyped, ConstantAssumption DEF Mine
  <2>2. HeldBy(holder, t) = {}
    BY ConstantAssumption DEF Init, HeldBy
  <2>3. txn[t] = NoTxn
    BY DEF Init
  <2> QED
    BY <2>1, <2>2, <2>3, NoTxnTyped DEF TxnOK
<1> QED
  BY <1>2, <1>3, <1>4, <1>5, FS_EmptySet DEF LocksInv, AppIsKept

LEMMA TxnKeeps ==
  ASSUME LocksInv, NEW t \in TxnId, Start(t) \/ Proceed(t) \/ Disconnect(t) \/ Victim(t)
  PROVE  Kept({t})
<1>1. CASE Start(t)
  <2>1. CASE \E w \in WorkerId : ClaimLost(t, w)
    BY <2>1, ClaimLostStep
  <2> QED
    BY <1>1, <2>1, OtherBegins DEF Start
<1>2. CASE Claim(t)
  BY <1>2, ClaimLapsedStep, ClaimPickStep, ClaimCountStep, ClaimLimitStep, GrantStep DEF Claim
<1>3. CASE PlainStatement(t)
  BY <1>3, PlainStatementStep
<1>4. CASE Proceed(t) /\ ~Claim(t) /\ ~PlainStatement(t)
  BY <1>4, CompleteStep, CancelJobStep, CancelRunStep, ResumeStep, ExpireStep, PruneStep
    DEF Proceed, PlainStatement
<1>5. CASE Disconnect(t) \/ Victim(t)
  BY <1>5, RollbackStep DEF Disconnect, Victim
<1> QED
  BY <1>1, <1>2, <1>3, <1>4, <1>5

LEMMA StutterKeeps ==
  ASSUME LocksInv, UNCHANGED vars
  PROVE  Kept({})
<1>1. TypeOK' /\ UNCHANGED <<holder, txn, job>> /\ HaveRuns(job)
  BY DEF vars, TypeOK, LocksInv
<1> QED
  BY <1>1, UnchangedRows, QuietStepOfNone

\* A step is part of one transaction, or of none.
LEMMA KeptByOne ==
  ASSUME LocksInv, [Next]_vars
  PROVE  \/ Kept({})
         \/ \E t \in TxnId : /\ Start(t) \/ Proceed(t) \/ Disconnect(t) \/ Victim(t)
                            /\ Kept({t})
<1>1. CASE UNCHANGED vars
  BY <1>1, StutterKeeps
<1>2. CASE \E r \in RunId, j \in JobId : CreateRunAndEnqueue(r, j)
  BY <1>2, CreateStep
<1>3. CASE \E l \in issued : HeartbeatJob(l)
  BY <1>3, HeartbeatStep
<1>4. CASE \E r \in RunId : RetryRun(r)
  BY <1>4, RetryStep
<1>5. CASE RequeueQueuedJobsForApp
  BY <1>5, RetagStep
<1>6. CASE \E t \in TxnId : Start(t) \/ Proceed(t) \/ Disconnect(t) \/ Victim(t)
  BY <1>6, TxnKeeps
<1>7. CASE \E j \in JobId : Lapse(j)
  BY <1>7, LapseStep
<1>8. CASE \E r \in RunId : GrowsOld(r)
  BY <1>8, GrowsOldStep
<1> QED
  BY <1>1, <1>2, <1>3, <1>4, <1>5, <1>6, <1>7, <1>8 DEF Next

LEMMA NextKeeps == LocksInv /\ [Next]_vars => Kept(TxnId)
<1> SUFFICES ASSUME LocksInv, [Next]_vars PROVE Kept({}) \/ \E t \in TxnId : Kept({t})
  BY DEF Kept
<1> QED
  BY KeptByOne

\* LocksInv holds of every reachable state: a transaction has the rows it
\* picked locked, and what a claim found out about them stays true.
THEOREM LocksInvCorrect == Spec => []LocksInv
<1>1. Init => LocksInv
  BY InitKeeps
<1>2. LocksInv /\ [Next]_vars => LocksInv'
  BY NextKeeps DEF Kept
<1> QED
  BY <1>1, <1>2, PTL DEF Spec

\* TypeOK.
THEOREM TransactionsOfQueueTyped == Spec => []TypeOK
<1>1. LocksInv => TypeOK
  BY DEF LocksInv
<1> QED
  BY <1>1, LocksInvCorrect, PTL

\* ConcurrencyRespected, whatever sweeps and cancels run beside the claims: the
\* advisory lock of an app is held from the count of its running jobs to the
\* commit that adds one.
THEOREM LimitsAreKept == Spec => []ConcurrencyRespected
<1>1. Init => LocksInv /\ \A a \in App : AppIsKept(job, a)
  BY InitKeeps
<1>2. (LocksInv /\ \A a \in App : AppIsKept(job, a)) /\ [Next]_vars
        => (LocksInv /\ \A a \in App : AppIsKept(job, a))'
  BY NextKeeps DEF Kept
<1>3. (\A a \in App : AppIsKept(job, a)) => ConcurrencyRespected
  BY DEF ConcurrencyRespected, AppIsKept, RunningIn
<1> QED
  BY <1>1, <1>2, <1>3, PTL DEF Spec
-----------------------------------------------------------------------------
(* The life cycle of a run, when a retention sweep is alone.               *)

ActiveRow(row) == row.state \in {"queued", "running"}
ActiveOf(rowOf, R) == {j \in JobId : ActiveRow(rowOf[j]) /\ rowOf[j].run \in R}
OnlyJobsOf(locks, rowOf, R) == \A j \in JobId : JobLock(j) \in locks => rowOf[j].run \in R

\* A run has at most one job that is queued or running, and then it is at work;
\* no lease is ahead of its job.
RowsFit(runOf, rowOf, leases) ==
  /\ \A j \in JobId : rowOf[j].state # "absent" => runOf[rowOf[j].run] # "ABSENT"
  /\ \A j \in JobId : ActiveRow(rowOf[j]) => runOf[rowOf[j].run] \in Working
  /\ \A i, j \in JobId :
       ActiveRow(rowOf[i]) /\ ActiveRow(rowOf[j]) /\ rowOf[i].run = rowOf[j].run => i = j
  /\ \A j \in JobId : rowOf[j].state = "running" => runOf[rowOf[j].run] = "RUNNING"
  /\ \A l \in leases : rowOf[l.job].state = "absent" \/ l.attempt <= rowOf[l.job].attempt

\* CancelRun holds the lock of its run: no job of it can start meanwhile.
CancelRunKnows(x, held, runOf, rowOf) ==
  /\ RunLock(x.run) \in held /\ runOf[x.run] \in Working \union {"WAITING_HUMAN"}
  /\ OnlyJobsOf(held \union x.want, rowOf, {x.run})
  /\ x.at \in {"jobs", "task"}
  /\ x.at = "jobs" => \A j \in ActiveOf(rowOf, {x.run}) : JobLock(j) \in held \union x.want
  /\ x.at = "task" => x.jobs = ActiveOf(rowOf, {x.run})

\* The sweeps have no such lock and rely on being alone.
ExpireKnows(x, held, runOf, rowOf) ==
  /\ \A r \in x.found : runOf[r] \in Working
  /\ OnlyJobsOf(held \union x.want, rowOf, x.found)
  /\ x.at \in {"first", "jobs", "run"}
  /\ x.at = "jobs" => \A j \in ActiveOf(rowOf, x.found) : JobLock(j) \in held \union x.want
  /\ x.at = "run" => x.jobs = ActiveOf(rowOf, x.found)
PruneKnows(x, runOf, rowOf) ==
  /\ \A r \in x.found : runOf[r] \in Terminal
  /\ \A j \in x.jobs : rowOf[j].run \in x.found

\* What a transaction knows of the runs, and which of their locks it has or waits for.
OpKnows(x, held, runOf, rowOf) ==
  /\ x.op = "claim" =>
       /\ \A j \in x.jobs : RunLock(rowOf[j].run) \in held \union x.want
       /\ x.at = "grant" => RunLock(rowOf[x.job].run) \in held \union x.want
  /\ x.op \in {"complete", "cancelJob"} => RunLock(rowOf[x.job].run) \in held \union x.want
  /\ x.op = "complete" => rowOf[x.job].state = "running"
  /\ x.op = "resume" => RunLock(x.run) \in held \union x.want
  /\ x.op = "cancelRun" => CancelRunKnows(x, held, runOf, rowOf)
  /\ x.op = "expire" => ExpireKnows(x, held, runOf, rowOf)
  /\ x.op = "prune" => PruneKnows(x, runOf, rowOf)

SweepsApart == \A t, u \in TxnId : txn[t].op \in Sweep /\ u # t => txn[u].op = "none"

LifeInv ==
  /\ LocksInv
  /\ RowsFit(run, job, issued)
  /\ \A t \in TxnId : OpKnows(txn[t], HeldBy(holder, t), run, job)
  /\ SweepsApart

-----------------------------------------------------------------------------
(* What others know stays true.                                            *)

SameRow(j) ==
  /\ job'[j].state = job[j].state /\ job'[j].run = job[j].run
  /\ job'[j].attempt = job[j].attempt /\ job'[j].owner = job[j].owner

\* A step moves no runs but those of S, and gives no other run an active job.
TouchesOnly(S) ==
  /\ \A r \in RunId \ S : run'[r] = run[r]
  /\ \A j \in JobId : ActiveRow(job'[j]) /\ job'[j].run \notin S =>
                        ActiveRow(job[j]) /\ job'[j].run = job[j].run
  /\ \A j \in JobId : job[j].state # "absent" => job'[j].run = job[j].run

LEMMA OthersKnow ==
  ASSUME LocksInv, NEW u \in TxnId, Spared(u), NEW S, TouchesOnly(S),
         \A r \in S : RunLock(r) \notin HeldBy(holder, u),
         txn[u].op \notin Sweep,
         OpKnows(txn[u], HeldBy(holder, u), run, job)
  PROVE  OpKnows(txn'[u], HeldBy(holder', u), run', job')
<1>1. PICK x \in Txn : x = txn[u]
  BY TxnTyped DEF LocksInv
<1>2. PICK held : held = HeldBy(holder, u)
  OBVIOUS
<1>3. txn'[u] = x /\ HeldBy(holder', u) = held /\ OpKnows(x, held, run, job)
      /\ x.op \notin {"expire", "prune"}
  BY <1>1, <1>2 DEF Spared, Sweep
<1>4. TxnOK(u, x, job, holder) /\ HaveRuns(job) /\ \A j \in JobId : job[j] \in JobRow
  BY <1>1 DEF LocksInv, TypeOK
<1>5. \A j \in Mine(x) : job'[j].run = job[j].run /\ job'[j].state = job[j].state
  BY <1>1, <1>4, LaterFields DEF Spared, Mine
<1>6. x.jobs \subseteq Mine(x) /\ x.pool \subseteq Mine(x) /\ (x.job \in JobId => x.job \in Mine(x))
  BY <1>1 DEF Mine, Txn
<1>7. CASE x.op = "claim"
  <2>1. x.at = "grant" => x.job \in Mine(x)
    BY <1>4, <1>6, <1>7 DEF TxnOK, ClaimKnows
  <2> QED
    BY <1>3, <1>5, <1>6, <1>7, <2>1 DEF OpKnows
<1>8. CASE x.op \in {"complete", "cancelJob"}
  <2>1. x.job \in Mine(x)
    BY <1>4, <1>6, <1>8 DEF TxnOK
  <2> QED
    BY <1>3, <1>5, <1>8, <2>1 DEF OpKnows
<1>9. CASE x.op = "cancelRun"
  <2>1. PICK r \in RunId : r = x.run
    BY <1>4, <1>9 DEF TxnOK
  <2>2. CancelRunKnows(x, held, run, job)
    BY <1>3, <1>9 DEF OpKnows
  <2>3. r \notin S /\ run'[r] = run[r]
    BY <1>2, <2>1, <2>2 DEF CancelRunKnows, TouchesOnly
  <2>4. \A j \in JobId : job[j].run = r => job'[j].run = r
    BY <1>4 DEF HaveRuns, TouchesOnly
  <2>5. ActiveOf(job', {r}) \subseteq ActiveOf(job, {r})
    BY <2>3 DEF ActiveOf, TouchesOnly
  <2>6. x.at = "task" => ActiveOf(job', {r}) = x.jobs
    <3>1. ASSUME x.at = "task", NEW j \in x.jobs PROVE j \in ActiveOf(job', {r})
      BY <1>5, <1>6, <2>1, <2>2, <3>1 DEF CancelRunKnows, ActiveOf, ActiveRow
    <3> QED
      BY <2>1, <2>2, <2>5, <3>1 DEF CancelRunKnows
  <2>7. CancelRunKnows(x, held, run', job')
    BY <2>1, <2>2, <2>3, <2>4, <2>5, <2>6 DEF CancelRunKnows, OnlyJobsOf
  <2> QED
    BY <1>3, <1>9, <2>7 DEF OpKnows
<1>10. CASE x.op \notin {"claim", "complete", "cancelJob", "cancelRun"}
  BY <1>3, <1>10 DEF OpKnows
<1> QED
  BY <1>7, <1>8, <1>9, <1>10

LEMMA SameKnows ==
  ASSUME TypeOK, NEW x \in Txn, NEW held, UNCHANGED run, \A j \in JobId : SameRow(j),
         x.op \in {"complete", "cancelJob"} => x.job \in JobId,
         x.op = "claim" /\ x.at = "grant" => x.job \in JobId,
         OpKnows(x, held, run, job)
  PROVE  OpKnows(x, held, run', job')
<1>1. x.jobs \subseteq JobId
  BY DEF Txn
<1>2. \A R : ActiveOf(job', R) = ActiveOf(job, R)
  BY DEF ActiveOf, ActiveRow, SameRow
<1>3. \A L, R : OnlyJobsOf(L, job, R) => OnlyJobsOf(L, job', R)
  BY DEF OnlyJobsOf, SameRow
<1>4. CASE x.op \in {"claim", "complete", "cancelJob"}
  BY <1>1, <1>4 DEF OpKnows, SameRow
<1>5. CASE x.op = "cancelRun"
  BY <1>2, <1>3, <1>5 DEF OpKnows, CancelRunKnows
<1>6. CASE x.op = "expire"
  BY <1>2, <1>3, <1>6 DEF OpKnows, ExpireKnows
<1>7. CASE x.op = "prune"
  BY <1>1, <1>7 DEF OpKnows, PruneKnows, SameRow
<1>8. CASE x.op \notin {"claim", "complete", "cancelJob", "cancelRun", "expire", "prune"}
  BY <1>8 DEF OpKnows
<1> QED
  BY <1>4, <1>5, <1>6, <1>7, <1>8

LEMMA NoneKnows ==
  ASSUME NEW x, x.op = "none", NEW held, NEW runOf, NEW rowOf
  PROVE  OpKnows(x, held, runOf, rowOf)
BY DEF OpKnows

\* A transaction other than a sweep commits: it has locked the runs S it touches.
LEMMA TxnEnds ==
  ASSUME LifeInv, NEW t \in TxnId, Kept({t}), txn[t].op \notin Sweep \union {"none"},
         txn'[t].op = "none", RowsFit(run', job', issued'), NEW S, TouchesOnly(S),
         \A r \in S : RunLock(r) \in Locked(t), Free(txn[t].want)
  PROVE  LifeInv'
<1>1. ASSUME NEW u \in TxnId, u # t
      PROVE  OpKnows(txn'[u], HeldBy(holder', u), run', job') /\ txn'[u] = txn[u]
             /\ txn'[u].op \notin Sweep
  <2>1. Spared(u) /\ txn[u].op \notin Sweep
    BY <1>1 DEF Kept, LifeInv, SweepsApart
  <2>2. \A r \in S : RunLock(r) \notin HeldBy(holder, u)
    BY <1>1, ConstantAssumption DEF Locked, Free, HeldBy
  <2>3. LocksInv /\ OpKnows(txn[u], HeldBy(holder, u), run, job)
    BY DEF LifeInv
  <2> QED
    BY <2>1, <2>2, <2>3, OthersKnow DEF Spared
<1>2. OpKnows(txn'[t], HeldBy(holder', t), run', job')
  BY NoneKnows
<1>3. SweepsApart'
  BY <1>1 DEF SweepsApart, Sweep
<1> QED
  BY <1>1, <1>2, <1>3 DEF LifeInv, Kept

LEMMA SweepEnds ==
  ASSUME LifeInv, NEW t \in TxnId, Kept({t}), txn[t].op \in Sweep,
         txn'[t].op = "none", RowsFit(run', job', issued')
  PROVE  LifeInv'
<1>1. \A u \in TxnId : txn'[u].op = "none"
  BY DEF LifeInv, SweepsApart, Kept, Spared
<1>2. \A u \in TxnId : OpKnows(txn'[u], HeldBy(holder', u), run', job')
  BY <1>1, NoneKnows
<1>3. SweepsApart'
  BY <1>1 DEF SweepsApart
<1> QED
  BY <1>2, <1>3 DEF LifeInv, Kept

\* A step of no transaction, beside no sweep: nobody has locked the runs it touches.
LEMMA AtOnceLives ==
  ASSUME LifeInv, Kept({}), \A u \in TxnId : txn[u].op \notin Sweep,
         RowsFit(run', job', issued'), NEW S, TouchesOnly(S),
         \A r \in S : holder[RunLock(r)] = Nobody
  PROVE  LifeInv'
<1>1. ASSUME NEW u \in TxnId
      PROVE  OpKnows(txn'[u], HeldBy(holder', u), run', job') /\ txn'[u] = txn[u]
  <2>1. Spared(u) /\ LocksInv /\ OpKnows(txn[u], HeldBy(holder, u), run, job)
    BY DEF Kept, LifeInv
  <2>2. \A r \in S : RunLock(r) \notin HeldBy(holder, u)
    BY ConstantAssumption DEF HeldBy
  <2> QED
    BY <2>1, <2>2, OthersKnow DEF Spared
<1>2. SweepsApart'
  BY <1>1 DEF SweepsApart
<1> QED
  BY <1>1, <1>2 DEF LifeInv, Kept

\* A step of no transaction that changes no more than leases and flags.
LEMMA SameLives ==
  ASSUME LifeInv, Kept({}), UNCHANGED run, \A j \in JobId : SameRow(j),
         RowsFit(run', job', issued')
  PROVE  LifeInv'
<1>1. ASSUME NEW u \in TxnId
      PROVE  OpKnows(txn'[u], HeldBy(holder', u), run', job') /\ txn'[u] = txn[u]
  <2>1. PICK x \in Txn : x = txn[u]
    BY TxnTyped DEF LifeInv, LocksInv
  <2>2. /\ Spared(u) /\ TypeOK /\ OpKnows(x, HeldBy(holder, u), run, job)
        /\ TxnOK(u, x, job, holder)
    BY <2>1 DEF Kept, LifeInv, LocksInv
  <2>3. /\ x.op \in {"complete", "cancelJob"} => x.job \in JobId
        /\ x.op = "claim" /\ x.at = "grant" => x.job \in JobId
    BY <2>1, <2>2 DEF TxnOK, ClaimKnows, Txn
  <2> QED
    BY <2>1, <2>2, <2>3, SameKnows DEF Spared
<1>2. SweepsApart'
  BY <1>1 DEF SweepsApart, LifeInv
<1> QED
  BY <1>1, <1>2 DEF LifeInv, Kept

\* A statement: the rows stay, t goes on with its operation or begins one.
LEMMA StatementLives ==
  ASSUME LifeInv, NEW t \in TxnId, Kept({t}), UNCHANGED rows,
         OpKnows(txn'[t], HeldBy(holder', t), run, job),
         \/ txn'[t].op \in {"none", txn[t].op}
         \/ \A u \in TxnId \ {t} : txn[u].op # "none" =>
                                     txn'[t].op \notin Sweep /\ txn[u].op \notin Sweep
  PROVE  LifeInv'
<1>1. job' = job /\ run' = run /\ issued' = issued
  BY DEF rows
<1>2. ASSUME NEW u \in TxnId, u # t
      PROVE  OpKnows(txn'[u], HeldBy(holder', u), run', job') /\ txn'[u] = txn[u]
  BY <1>1, <1>2 DEF Kept, Spared, LifeInv
<1>3. OpKnows(txn'[t], HeldBy(holder', t), run', job')
  BY <1>1
<1>4. SweepsApart'
  BY <1>2 DEF SweepsApart, LifeInv, Sweep
<1>5. RowsFit(run', job', issued') /\ LocksInv'
  BY <1>1 DEF LifeInv, Kept
<1> QED
  BY <1>2, <1>3, <1>4, <1>5 DEF LifeInv

-----------------------------------------------------------------------------
(* How runs and their leases move.                                         *)

Token(rowOf, j) == [job |-> j, owner |-> rowOf[j].owner, attempt |-> rowOf[j].attempt]
RunsNow(rowOf, i, r) == rowOf[i].state = "running" /\ rowOf[i].run = r
Held(rowOf, r) == {Token(rowOf, j) : j \in {i \in JobId : RunsNow(rowOf, i, r)}}

LEMMA NoTokens ==
  ASSUME NEW rowOf, NEW r, \A i \in JobId : ~RunsNow(rowOf, i, r)
  PROVE  Held(rowOf, r) = {}
BY DEF Held

LEMMA HeldTokens ==
  ASSUME NEW rowOf, NEW r, NEW i \in JobId, RunsNow(rowOf, i, r)
  PROVE  Held(rowOf, r) # {}
BY DEF Held

LEMMA SameTokens ==
  ASSUME NEW old, NEW new, NEW r,
         \A i \in JobId : RunsNow(new, i, r) <=> RunsNow(old, i, r),
         \A i \in JobId : RunsNow(old, i, r) => new[i].owner = old[i].owner
                                                /\ new[i].attempt = old[i].attempt
  PROVE  Held(new, r) = Held(old, r)
<1> PICK A : A = {i \in JobId : RunsNow(old, i, r)}
  OBVIOUS
<1>1. {i \in JobId : RunsNow(new, i, r)} = A
  OBVIOUS
<1>2. \A i \in A : Token(new, i) = Token(old, i)
  BY DEF Token
<1> QED
  BY <1>1, <1>2 DEF Held

StaysPut(r) == run'[r] = run[r] /\ Held(job', r) = Held(job, r)
Moved(r, from, to) == run[r] \in from /\ run'[r] = to /\ Held(job', r) = {}
Walks(r) ==
  \/ StaysPut(r)
  \/ Moved(r, {"ABSENT"}, "QUEUED")
  \/ Held(job, r) # {} /\ Moved(r, {"RUNNING"}, "RUNNING")
  \/ Held(job, r) # {} /\ \E o \in Outcome : Moved(r, {"RUNNING"}, o)
  \/ Moved(r, {"WAITING_HUMAN"}, "RESUMING")
  \/ Moved(r, Working \union {"WAITING_HUMAN"}, "CANCELED")
  \/ Moved(r, Working, "EXPIRED")
  \/ Moved(r, {"FAILED", "CANCELED", "EXPIRED"}, "QUEUED")
  \/ Moved(r, Terminal, "ABSENT")

\* A step keeps LifeInv and moves every run along the life cycle.
Lives == LifeInv' /\ issued' = issued /\ \A r \in RunId : Walks(r)

\* Rows that change no more than leases and flags.
LEMMA SameRows ==
  ASSUME LocksInv, RowsFit(run, job, issued), UNCHANGED <<run, issued>>,
         \A j \in JobId : SameRow(j)
  PROVE  /\ RowsFit(run', job', issued') /\ TouchesOnly({})
         /\ \A r \in RunId : StaysPut(r)
<1>1. \A l \in issued : l.job \in JobId
  BY IssuedTyped DEF LocksInv
<1>2. RowsFit(run', job', issued')
  BY <1>1 DEF RowsFit, SameRow, ActiveRow
<1>3. TouchesOnly({})
  BY DEF TouchesOnly, SameRow, ActiveRow
<1>4. ASSUME NEW r \in RunId PROVE StaysPut(r)
  <2>1. Held(job', r) = Held(job, r)
    BY SameTokens DEF SameRow, RunsNow
  <2> QED
    BY <2>1 DEF StaysPut
<1> QED
  BY <1>2, <1>3, <1>4

\* The active jobs of the runs S settle; nothing else becomes of other jobs.
Settles(S) ==
  /\ \A j \in JobId : ActiveRow(job[j]) /\ job[j].run \in S =>
                        /\ job'[j].state \in {"succeeded", "failed"}
                        /\ job'[j].run = job[j].run /\ job'[j].attempt = job[j].attempt
  /\ \A j \in JobId : (ActiveRow(job[j]) /\ job[j].run \in S) \/ SameRow(j)
  /\ \A r \in RunId \ S : run'[r] = run[r]
  /\ \A r \in S : run'[r] # "ABSENT"

LEMMA SettleRows ==
  ASSUME LocksInv, RowsFit(run, job, issued), issued' = issued, NEW S, Settles(S)
  PROVE  /\ RowsFit(run', job', issued') /\ TouchesOnly(S)
         /\ \A r \in RunId \ S : StaysPut(r)
         /\ \A r \in S : Held(job', r) = {}
<1>1. /\ \A l \in issued : l.job \in JobId
      /\ HaveRuns(job)
  BY IssuedTyped DEF LocksInv
<1>2. \A j \in JobId : \/ /\ ActiveRow(job[j]) /\ job[j].run \in S
                          /\ job'[j].state \in {"succeeded", "failed"}
                          /\ job'[j].run = job[j].run /\ job'[j].attempt = job[j].attempt
                       \/ SameRow(j) /\ ~(ActiveRow(job[j]) /\ job[j].run \in S)
  BY DEF Settles
<1>3. \A j \in JobId : /\ job'[j].run = job[j].run /\ job'[j].attempt = job[j].attempt
                       /\ job'[j].state = "absent" <=> job[j].state = "absent"
                       /\ ActiveRow(job'[j]) =>
                            SameRow(j) /\ ActiveRow(job[j]) /\ job[j].run \notin S
  BY <1>2 DEF SameRow, ActiveRow
<1>4. \A j \in JobId : ActiveRow(job[j]) => job[j].run \in RunId
  BY <1>1 DEF HaveRuns, ActiveRow
<1>5. RowsFit(run', job', issued')
  <2>1. \A j \in JobId : job'[j].state # "absent" => run'[job'[j].run] # "ABSENT"
    BY <1>1, <1>3 DEF RowsFit, Settles, HaveRuns
  <2>2. \A j \in JobId : ActiveRow(job'[j]) => run'[job'[j].run] = run[job[j].run]
    BY <1>3, <1>4 DEF Settles
  <2>3. \A j \in JobId : /\ ActiveRow(job'[j]) => run'[job'[j].run] \in Working
                         /\ job'[j].state = "running" => run'[job'[j].run] = "RUNNING"
    BY <1>3, <2>2 DEF RowsFit, ActiveRow, SameRow
  <2>4. \A i, j \in JobId :
          ActiveRow(job'[i]) /\ ActiveRow(job'[j]) /\ job'[i].run = job'[j].run => i = j
    BY <1>3 DEF RowsFit
  <2>5. \A l \in issued' : job'[l.job].state = "absent" \/ l.attempt <= job'[l.job].attempt
    BY <1>1, <1>3 DEF RowsFit
  <2> QED
    BY <2>1, <2>3, <2>4, <2>5 DEF RowsFit
<1>6. TouchesOnly(S)
  BY <1>3 DEF TouchesOnly, Settles
<1>7. ASSUME NEW r \in RunId \ S PROVE StaysPut(r)
  <2>1. \A i \in JobId : RunsNow(job', i, r) <=> RunsNow(job, i, r)
    BY <1>2 DEF RunsNow, SameRow, ActiveRow
  <2>2. \A i \in JobId : RunsNow(job, i, r) => job'[i].owner = job[i].owner
                                               /\ job'[i].attempt = job[i].attempt
    BY <1>2 DEF RunsNow, SameRow
  <2>3. Held(job', r) = Held(job, r)
    BY <2>1, <2>2, SameTokens
  <2> QED
    BY <2>3 DEF StaysPut, Settles
<1>8. ASSUME NEW r \in S PROVE Held(job', r) = {}
  <2>1. \A i \in JobId : ~RunsNow(job', i, r)
    BY <1>3 DEF RunsNow, ActiveRow
  <2> QED
    BY <2>1, NoTokens
<1> QED
  BY <1>5, <1>6, <1>7, <1>8

\* A run that is not at work gets a fresh job.
LEMMA InsertRows ==
  ASSUME LocksInv, RowsFit(run, job, issued), issued' = issued,
         NEW r \in RunId, run[r] \notin Working, NEW to \in {"QUEUED", "RESUMING"},
         Inserts(r), run' = [run EXCEPT ![r] = to]
  PROVE  /\ RowsFit(run', job', issued') /\ TouchesOnly({r})
         /\ \A s \in RunId \ {r} : StaysPut(s)
         /\ run'[r] = to /\ Held(job', r) = {}
<1>1. PICK j \in JobId : FreshJob(j) /\ job' = [job EXCEPT ![j] = NewJob(r)]
  BY DEF Inserts
<1>2. TypeOK /\ HaveRuns(job) /\ \A l \in issued : l.job \in JobId
  BY IssuedTyped DEF LocksInv
<1>3. NewJob(r).state = "queued" /\ NewJob(r).run = r
  BY DEF NewJob, NoJobRow
<1>4. job'[j].state = "queued" /\ job'[j].run = r /\ \A i \in JobId \ {j} : job'[i] = job[i]
  BY <1>1, <1>2, <1>3 DEF TypeOK
<1>5. job[j].state = "absent" /\ \A l \in issued : l.job # j
  BY <1>1 DEF FreshJob
<1>6. run'[r] = to /\ (\A s \in RunId \ {r} : run'[s] = run[s]) /\ run[r] \in RunState
  BY <1>2 DEF TypeOK
<1>7. \A i \in JobId : ActiveRow(job[i]) => job[i].run \in RunId \ {r}
  BY <1>2 DEF HaveRuns, RowsFit, ActiveRow
<1>8. RowsFit(run', job', issued')
  <2>1. \A i \in JobId : job'[i].state # "absent" => run'[job'[i].run] # "ABSENT"
    BY <1>2, <1>4, <1>6 DEF RowsFit, HaveRuns
  <2>2. \A i \in JobId : ActiveRow(job'[i]) => run'[job'[i].run] \in Working
    BY <1>4, <1>6, <1>7 DEF RowsFit, Working
  <2>3. \A i \in JobId : job'[i].state = "running" => run'[job'[i].run] = "RUNNING"
    BY <1>4, <1>6, <1>7 DEF RowsFit, ActiveRow
  <2>4. \A i, k \in JobId :
          ActiveRow(job'[i]) /\ ActiveRow(job'[k]) /\ job'[i].run = job'[k].run => i = k
    BY <1>4, <1>7 DEF RowsFit
  <2>5. \A l \in issued' : job'[l.job].state = "absent" \/ l.attempt <= job'[l.job].attempt
    BY <1>2, <1>4, <1>5 DEF RowsFit
  <2> QED
    BY <2>1, <2>2, <2>3, <2>4, <2>5 DEF RowsFit
<1>9. TouchesOnly({r})
  BY <1>4, <1>5, <1>6 DEF TouchesOnly
<1>10. \A s, i : i \in JobId => (RunsNow(job', i, s) <=> RunsNow(job, i, s))
  BY <1>4, <1>5 DEF RunsNow
<1>11. \A s : Held(job', s) = Held(job, s)
  <2>1. ASSUME NEW s PROVE Held(job', s) = Held(job, s)
    <3>1. \A i \in JobId : RunsNow(job, i, s) => job'[i] = job[i]
      BY <1>4, <1>5 DEF RunsNow
    <3> QED
      BY <1>10, <3>1, SameTokens
  <2> QED
    BY <2>1
<1>12. Held(job', r) = {}
  <2>1. \A i \in JobId : ~RunsNow(job, i, r)
    BY <1>7 DEF RunsNow, ActiveRow
  <2> QED
    BY <1>11, <2>1, NoTokens
<1> QED
  BY <1>6, <1>8, <1>9, <1>11, <1>12 DEF StaysPut

\* Settled runs S go, with every job of theirs.
LEMMA PruneRows ==
  ASSUME LocksInv, RowsFit(run, job, issued), issued' = issued, NEW S, NEW J,
         \A r \in S : run[r] \in Terminal,
         \A j \in JobId : job[j].run \in S <=> j \in J,
         job' = [j \in JobId |-> IF j \in J THEN NoJobRow ELSE job[j]],
         run' = [r \in RunId |-> IF r \in S THEN "ABSENT" ELSE run[r]]
  PROVE  /\ RowsFit(run', job', issued')
         /\ \A r \in RunId \ S : StaysPut(r)
         /\ \A r \in S : Held(job', r) = {}
<1>1. TypeOK /\ HaveRuns(job) /\ \A l \in issued : l.job \in JobId
  BY IssuedTyped DEF LocksInv
<1>2. \A j \in JobId : /\ j \in J => job'[j].state = "absent"
                       /\ j \notin J => job'[j] = job[j] /\ job[j].run \notin S
  BY DEF NoJobRow
<1>3. \A r \in RunId : r \notin S => run'[r] = run[r]
  OBVIOUS
<1>4. \A j \in JobId : job'[j].state # "absent" =>
        /\ job'[j] = job[j] /\ job[j].run \in RunId /\ run'[job[j].run] = run[job[j].run]
  BY <1>1, <1>2, <1>3 DEF HaveRuns
<1>5. RowsFit(run', job', issued')
  BY <1>1, <1>4 DEF RowsFit, ActiveRow
<1>6. \A j \in JobId : job[j].state = "running" => j \notin J
  BY DEF RowsFit, Terminal
<1>7. ASSUME NEW r \in RunId \ S PROVE StaysPut(r)
  <2>1. \A i \in JobId : RunsNow(job', i, r) <=> RunsNow(job, i, r)
    BY <1>2, <1>6 DEF RunsNow
  <2>2. \A i \in JobId : RunsNow(job, i, r) => job'[i] = job[i]
    BY <1>2, <1>6 DEF RunsNow
  <2> QED
    BY <1>3, <2>1, <2>2, SameTokens DEF StaysPut
<1>8. ASSUME NEW r \in S PROVE Held(job', r) = {}
  <2>1. \A i \in JobId : ~RunsNow(job', i, r)
    BY <1>2 DEF RunsNow
  <2> QED
    BY <2>1, NoTokens
<1> QED
  BY <1>5, <1>7, <1>8

-----------------------------------------------------------------------------
(* Every step keeps LifeInv and is a step of the life cycle: steps that are  *)
(* not part of a transaction.                                              *)

LEMMA NoSweepBeside ==
  ASSUME SweepsAlone, NEW op, Undisturbed(op), NEW u \in TxnId
  PROVE  /\ txn[u].op # "none" => op \notin Sweep /\ txn[u].op \notin Sweep
         /\ txn[u].op \notin Sweep
BY DEF Undisturbed, Busy, Sweep

LEMMA NobodyLocks ==
  ASSUME NEW r, Free(RunLocks({r}))
  PROVE  \A s \in {r} : holder[RunLock(s)] = Nobody
BY LockSets DEF Free

LEMMA CreateLives ==
  ASSUME SweepsAlone, LifeInv, NEW r \in RunId, NEW j \in JobId, CreateRunAndEnqueue(r, j)
  PROVE  Lives
<1>1. LocksInv /\ RowsFit(run, job, issued) /\ Kept({})
  BY CreateStep DEF LifeInv
<1>2. /\ run[r] = "ABSENT" /\ issued' = issued /\ run' = [run EXCEPT ![r] = "QUEUED"]
      /\ Inserts(r) /\ Free(RunLocks({r})) /\ Undisturbed("create")
  BY DEF CreateRunAndEnqueue, AtOnce, Inserts
<1>3. /\ RowsFit(run', job', issued') /\ TouchesOnly({r})
      /\ \A s \in RunId \ {r} : StaysPut(s)
      /\ run'[r] = "QUEUED" /\ Held(job', r) = {}
  BY <1>1, <1>2, InsertRows DEF Working
<1>4. LifeInv'
  BY <1>1, <1>2, <1>3, NoSweepBeside, NobodyLocks, AtOnceLives
<1>5. \A s \in RunId : Walks(s)
  BY <1>2, <1>3 DEF Walks, Moved
<1> QED
  BY <1>2, <1>4, <1>5 DEF Lives

LEMMA RetryLives ==
  ASSUME SweepsAlone, LifeInv, NEW r \in RunId, RetryRun(r)
  PROVE  Lives
<1>1. LocksInv /\ RowsFit(run, job, issued) /\ Kept({})
  BY RetryStep DEF LifeInv
<1>2. /\ run[r] \in {"FAILED", "CANCELED", "EXPIRED"} /\ issued' = issued
      /\ run' = [run EXCEPT ![r] = "QUEUED"]
      /\ Inserts(r) /\ Free(RunLocks({r})) /\ Undisturbed("retry")
  BY DEF RetryRun, AtOnce
<1>3. /\ RowsFit(run', job', issued') /\ TouchesOnly({r})
      /\ \A s \in RunId \ {r} : StaysPut(s)
      /\ run'[r] = "QUEUED" /\ Held(job', r) = {}
  BY <1>1, <1>2, InsertRows DEF Working
<1>4. LifeInv'
  BY <1>1, <1>2, <1>3, NoSweepBeside, NobodyLocks, AtOnceLives
<1>5. \A s \in RunId : Walks(s)
  BY <1>2, <1>3 DEF Walks, Moved
<1> QED
  BY <1>2, <1>4, <1>5 DEF Lives

\* A row rewritten in its lease or its flag only.
LEMMA SameRowAt ==
  ASSUME TypeOK, NEW j \in JobId, NEW row, job' = [job EXCEPT ![j] = row],
         row.state = job[j].state, row.run = job[j].run,
         row.attempt = job[j].attempt, row.owner = job[j].owner
  PROVE  \A i \in JobId : SameRow(i)
<1>1. job'[j] = row /\ \A i \in JobId \ {j} : job'[i] = job[i]
  BY DEF TypeOK
<1> QED
  BY <1>1 DEF SameRow

LEMMA SameStepLives ==
  ASSUME LifeInv, Kept({}), UNCHANGED <<run, issued>>, \A j \in JobId : SameRow(j)
  PROVE  Lives
<1>1. RowsFit(run', job', issued') /\ \A r \in RunId : StaysPut(r)
  BY SameRows DEF LifeInv
<1> QED
  BY <1>1, SameLives DEF Lives, Walks

LEMMA QuietLives ==
  ASSUME LifeInv,
         \/ \E l \in issued : HeartbeatJob(l)
         \/ RequeueQueuedJobsForApp
         \/ \E j \in JobId : Lapse(j)
         \/ \E r \in RunId : GrowsOld(r)
         \/ UNCHANGED vars
  PROVE  Lives
<1>1. LocksInv /\ TypeOK /\ \A j \in JobId : job[j] \in JobRow
  BY DEF LifeInv, LocksInv, TypeOK
<1>2. ASSUME UNCHANGED job PROVE \A j \in JobId : SameRow(j)
  BY <1>2 DEF SameRow
<1>3. ASSUME NEW j \in JobId, NEW lease \in {"none", "live", "lapsed"},
             job' = [job EXCEPT ![j].lease = lease]
      PROVE  \A i \in JobId : SameRow(i)
  <2> PICK row : row = [job[j] EXCEPT !.lease = lease]
    OBVIOUS
  <2>1. /\ row.state = job[j].state /\ row.run = job[j].run
        /\ row.attempt = job[j].attempt /\ row.owner = job[j].owner
    BY <1>1, LeaseRow
  <2>2. job' = [job EXCEPT ![j] = row]
    BY <1>3
  <2> QED
    BY <1>1, <2>1, <2>2, SameRowAt
<1>4. CASE \E l \in issued : HeartbeatJob(l)
  <2>1. PICK l \in issued : HeartbeatJob(l)
    BY <1>4
  <2>2. PICK j \in JobId : j = l.job
    BY <1>1, IssuedTyped
  <2>3. job' = [job EXCEPT ![j].lease = "live"] /\ UNCHANGED <<run, issued>>
    BY <2>1, <2>2 DEF HeartbeatJob
  <2> QED
    BY <1>1, <1>3, <2>1, <2>3, HeartbeatStep, SameStepLives
<1>5. CASE RequeueQueuedJobsForApp
  <2>1. UNCHANGED <<run, job, issued>>
    BY <1>5 DEF RequeueQueuedJobsForApp
  <2> QED
    BY <1>1, <1>2, <1>5, <2>1, RetagStep, SameStepLives
<1>6. CASE \E j \in JobId : Lapse(j)
  <2>1. PICK j \in JobId : Lapse(j)
    BY <1>6
  <2>2. job' = [job EXCEPT ![j].lease = "lapsed"] /\ UNCHANGED <<run, issued>>
    BY <2>1 DEF Lapse
  <2> QED
    BY <1>1, <1>3, <2>1, <2>2, LapseStep, SameStepLives
<1>7. CASE \E r \in RunId : GrowsOld(r)
  <2>1. UNCHANGED <<run, job, issued>>
    BY <1>7 DEF GrowsOld
  <2> QED
    BY <1>1, <1>2, <1>7, <2>1, GrowsOldStep, SameStepLives
<1>8. CASE UNCHANGED vars
  <2>1. UNCHANGED <<run, job, issued>>
    BY <1>8 DEF vars
  <2> QED
    BY <1>1, <1>2, <1>8, <2>1, StutterKeeps, SameStepLives
<1> QED
  BY <1>4, <1>5, <1>6, <1>7, <1>8

-----------------------------------------------------------------------------
(* ... a transaction begins or goes on.                                    *)

LEMMA StatementIsStep ==
  ASSUME LifeInv, LifeInv', UNCHANGED rows
  PROVE  Lives
BY DEF rows, Lives, Walks, StaysPut

LEMMA MovedIs ==
  ASSUME NEW m \in Txn, NEW at, NEW want, NEW x, MovedTo(x, m, at, want)
  PROVE  /\ x.op = m.op /\ x.at = at /\ x.want = want
         /\ x.run = m.run /\ x.job = m.job /\ x.found = m.found
         /\ x.jobs = m.jobs /\ x.pool = m.pool
BY DEF MovedTo, Txn

LEMMA BegunKnows ==
  ASSUME SweepsAlone, LifeInv, NEW t \in TxnId, Kept({t}), NEW m \in Txn, NEW taken, NEW at,
         NEW locks, Begin(t, m, taken, at, locks),
         \A x, held : /\ x.op = m.op /\ x.at = at /\ x.run = m.run /\ x.job = m.job
                      /\ x.found = m.found /\ x.jobs = m.jobs
                      /\ \A y \in Lock : y \in taken => y \in held
                      /\ \A y \in Lock : y \in locks => y \in held \union x.want
                      /\ held \union x.want \subseteq taken \union locks
                      => OpKnows(x, held, run, job)
  PROVE  Lives
<1>1. TypeOK /\ UNCHANGED rows /\ txn[t].op = "none" /\ HeldBy(holder, t) = {}
  BY DEF LifeInv, LocksInv, TxnOK, Begin, Busy
<1>2. PICK x : x = txn'[t]
  OBVIOUS
<1>3. MovedTo(x, m, at, locks \ taken)
  BY <1>1, <1>2 DEF Begin, MovedTo, TypeOK
<1>4. /\ x.op = m.op /\ x.at = at /\ x.run = m.run /\ x.job = m.job
      /\ x.found = m.found /\ x.jobs = m.jobs /\ x.want = locks \ taken
  BY <1>3, MovedIs
<1>5. PICK held : held = HeldBy(holder', t)
  OBVIOUS
<1>6. \A y \in Lock : y \in held <=> y \in taken
  BY <1>1, <1>5 DEF Begin, HeldBy
<1>7. held \subseteq Lock
  BY <1>5 DEF HeldBy
<1>8. OpKnows(x, held, run, job)
  BY <1>4, <1>6, <1>7
<1>9. \A u \in TxnId \ {t} : txn[u].op # "none" =>
                               txn'[t].op \notin Sweep /\ txn[u].op \notin Sweep
  BY <1>2, <1>4, NoSweepBeside DEF Begin
<1>10. LifeInv'
  BY <1>1, <1>2, <1>5, <1>8, <1>9, StatementLives
<1> QED
  BY <1>1, <1>10, StatementIsStep

LEMMA WentOnKnows ==
  ASSUME LifeInv, NEW t \in TxnId, Kept({t}), NEW m \in Txn, m.op = txn[t].op, NEW at,
         NEW locks, GoOn(t, m, at, locks),
         \A x, held : /\ x.op = m.op /\ x.at = at /\ x.run = m.run /\ x.job = m.job
                      /\ x.found = m.found /\ x.jobs = m.jobs
                      /\ Locked(t) \subseteq held /\ locks \subseteq held \union x.want
                      /\ held \union x.want \subseteq Locked(t) \union locks \union JobLocks(m.pool)
                      => OpKnows(x, held, run, job)
  PROVE  Lives
<1>1. TypeOK /\ UNCHANGED rows
  BY DEF LifeInv, LocksInv, GoOn
<1>2. PICK x : x = txn'[t]
  OBVIOUS
<1>3. MovedTo(x, m, at, locks \ Locked(t))
  BY <1>1, <1>2 DEF GoOn, MovedTo, TypeOK
<1>4. /\ x.op = m.op /\ x.at = at /\ x.run = m.run /\ x.job = m.job
      /\ x.found = m.found /\ x.jobs = m.jobs /\ x.want = locks \ Locked(t)
  BY <1>3, MovedIs
<1>5. PICK held : held = HeldBy(holder', t)
  OBVIOUS
<1>6. PICK L : L = Locked(t)
  OBVIOUS
<1>7. L \subseteq Lock /\ \A y \in Lock : holder[y] = t => y \in L
  BY <1>1, <1>6, TxnTyped DEF Locked
<1>8. \A y \in Lock : y \in held <=> y \in L \union JobLocks(m.pool)
  BY <1>5, <1>6, <1>7 DEF GoOn, HeldBy
<1>9. held \subseteq Lock
  BY <1>5 DEF HeldBy
<1>10. OpKnows(x, held, run, job)
  BY <1>4, <1>6, <1>7, <1>8, <1>9
<1>11. LifeInv'
  BY <1>1, <1>2, <1>4, <1>5, <1>10, StatementLives
<1> QED
  BY <1>1, <1>11, StatementIsStep

LEMMA BeginLives ==
  ASSUME SweepsAlone, LifeInv, NEW t \in TxnId, Start(t)
  PROVE  Lives
<1>1. LocksInv /\ TypeOK /\ HaveRuns(job) /\ Kept({t})
  BY TxnKeeps DEF LifeInv, LocksInv
<1>2. ASSUME NEW w \in WorkerId, ClaimLost(t, w) PROVE Lives
  <2>l. PICK lost \in SUBSET JobId : lost = {j \in JobId : Lapsed(j) /\ job[j].canceled}
    OBVIOUS
  <2>r. PICK R : R = {job[j].run : j \in lost}
    OBVIOUS
  <2>m. PICK m : m = ClaimTxn(w, lost)
    OBVIOUS
  <2>k. PICK taken, locks : taken = JobLocks(lost) /\ locks = RunLocks(R)
    OBVIOUS
  <2>1. Begin(t, m, taken, "lapsed", locks)
    BY <1>2, <2>l, <2>r, <2>m, <2>k DEF ClaimLost, ClaimTxn
  <2>2. m \in Txn /\ m.op = "claim" /\ m.jobs = lost
    BY <2>m, NewTxns DEF NewTxn
  <2>3. \A j \in lost : RunLock(job[j].run) \in Lock /\ RunLock(job[j].run) \in locks
    BY <1>1, <2>l, <2>r, <2>k, LockNames, LockSets DEF HaveRuns, Lapsed
  <2>4. ASSUME NEW x, NEW held, x.op = m.op, x.at = "lapsed", x.jobs = m.jobs,
               \A y \in Lock : y \in locks => y \in held \union x.want
        PROVE  OpKnows(x, held, run, job)
    BY <2>2, <2>3, <2>4 DEF OpKnows
  <2> QED
    BY <1>1, <2>1, <2>2, <2>4, BegunKnows
<1>3. ASSUME NEW l \in issued, NEW o \in Outcome, CompleteLeased(t, l, o) PROVE Lives
  <2>j. PICK j \in JobId : j = l.job
    BY <1>1, IssuedTyped
  <2>m. PICK m : m = CompleteTxn(j, o)
    OBVIOUS
  <2>k. PICK taken, locks : taken = JobLocks({j}) /\ locks = RunLocks({job[j].run})
    OBVIOUS
  <2>1. Begin(t, m, taken, "run", locks) /\ job[j].state = "running"
    BY <1>3, <2>j, <2>m, <2>k DEF CompleteLeased, ValidLease, Owned, CompleteTxn
  <2>2. m \in Txn /\ m.op = "complete" /\ m.job = j
    BY <2>m, NewTxns DEF NewTxn
  <2>3. RunLock(job[j].run) \in Lock /\ RunLock(job[j].run) \in locks
    BY <1>1, <2>1, <2>k, LockNames, LockSets DEF HaveRuns
  <2>4. ASSUME NEW x, NEW held, x.op = m.op, x.job = m.job,
               \A y \in Lock : y \in locks => y \in held \union x.want
        PROVE  OpKnows(x, held, run, job)
    BY <2>1, <2>2, <2>3, <2>4 DEF OpKnows
  <2> QED
    BY <1>1, <2>1, <2>2, <2>4, BegunKnows
<1>4. ASSUME NEW j \in JobId, CancelJobLocked(t, j) PROVE Lives
  <2>m. PICK m : m = CancelJobTxn(j)
    OBVIOUS
  <2>k. PICK taken, locks : taken = JobLocks({j}) /\ locks = RunLocks({job[j].run})
    OBVIOUS
  <2>1. Begin(t, m, taken, "run", locks) /\ job[j].state # "absent"
    BY <1>4, <2>m, <2>k DEF CancelJobLocked, CancelJobTxn
  <2>2. m \in Txn /\ m.op = "cancelJob" /\ m.job = j
    BY <2>m, NewTxns DEF NewTxn
  <2>3. RunLock(job[j].run) \in Lock /\ RunLock(job[j].run) \in locks
    BY <1>1, <2>1, <2>k, LockNames, LockSets DEF HaveRuns
  <2>4. ASSUME NEW x, NEW held, x.op = m.op, x.job = m.job,
               \A y \in Lock : y \in locks => y \in held \union x.want
        PROVE  OpKnows(x, held, run, job)
    BY <2>2, <2>3, <2>4 DEF OpKnows
  <2> QED
    BY <1>1, <2>1, <2>2, <2>4, BegunKnows
<1>5. ASSUME NEW r \in RunId, CancelRunJobs(t, r) PROVE Lives
  <2>m. PICK m : m = RunTxn("cancelRun", r)
    OBVIOUS
  <2>j. PICK J : J = {j \in JobsOf(r) : Active(j)}
    OBVIOUS
  <2>k. PICK taken, locks : taken = RunLocks({r}) /\ locks = JobLocks(J)
    OBVIOUS
  <2>1. Begin(t, m, taken, "jobs", locks) /\ run[r] \notin Terminal \union {"ABSENT"}
    BY <1>5, <2>m, <2>j, <2>k DEF CancelRunJobs, RunTxn
  <2>2. m \in Txn /\ m.op = "cancelRun" /\ m.run = r
    BY <2>m, NewTxns DEF NewTxn
  <2>3. run[r] \in Working \union {"WAITING_HUMAN"}
    BY <1>1, <2>1 DEF TypeOK, RunState
  <2>4. /\ RunLock(r) \in Lock /\ RunLock(r) \in taken
        /\ \A j \in JobId : JobLock(j) \in taken \union locks => job[j].run = r
        /\ \A j \in ActiveOf(job, {r}) : JobLock(j) \in Lock /\ JobLock(j) \in locks
    <3>1. J = ActiveOf(job, {r})
      BY <2>j DEF JobsOf, Active, ActiveOf, ActiveRow
    <3> QED
      BY <2>k, <3>1, LockNames, LockSets DEF ActiveOf
  <2>5. ASSUME NEW x, NEW held, x.op = m.op, x.at = "jobs", x.run = m.run,
               \A y \in Lock : y \in taken => y \in held,
               \A y \in Lock : y \in locks => y \in held \union x.want,
               held \union x.want \subseteq taken \union locks
        PROVE  OpKnows(x, held, run, job)
    <3>1. CancelRunKnows(x, held, run, job)
      BY <2>2, <2>3, <2>4, <2>5 DEF CancelRunKnows, OnlyJobsOf
    <3> QED
      BY <2>2, <2>5, <3>1 DEF OpKnows
  <2> QED
    BY <1>1, <2>1, <2>2, <2>5, BegunKnows
<1>6. ASSUME NEW r \in RunId, ResumeTask(t, r) PROVE Lives
  <2>m. PICK m : m = RunTxn("resume", r)
    OBVIOUS
  <2>k. PICK taken, locks : taken = TaskLocks({r}) /\ locks = RunLocks({r})
    OBVIOUS
  <2>1. Begin(t, m, taken, "run", locks)
    BY <1>6, <2>m, <2>k DEF ResumeTask, RunTxn
  <2>2. m \in Txn /\ m.op = "resume" /\ m.run = r
    BY <2>m, NewTxns DEF NewTxn
  <2>3. RunLock(r) \in Lock /\ RunLock(r) \in locks
    BY <2>k, LockNames, LockSets
  <2>4. ASSUME NEW x, NEW held, x.op = m.op, x.run = m.run,
               \A y \in Lock : y \in locks => y \in held \union x.want
        PROVE  OpKnows(x, held, run, job)
    BY <2>2, <2>3, <2>4 DEF OpKnows
  <2> QED
    BY <1>1, <2>1, <2>2, <2>4, BegunKnows
<1>7. CASE ExpireFound(t)
  <2>r. PICK R \in SUBSET RunId : R = {r \in RunId : Stuck(r)}
    OBVIOUS
  <2>m. PICK m : m = SweepTxn("expire", R)
    OBVIOUS
  <2>1. Begin(t, m, {}, "first", {})
    BY <2>m, <2>r, <1>7 DEF ExpireFound, SweepTxn
  <2>2. m \in Txn /\ m.op = "expire" /\ m.found = R
    BY <2>m, NewTxns DEF NewTxn, Sweep
  <2>3. ASSUME NEW x, NEW held, x.op = m.op, x.at = "first", x.found = m.found,
               held \union x.want \subseteq {} \union {}
        PROVE  OpKnows(x, held, run, job)
    <3>1. ExpireKnows(x, held, run, job)
      BY <2>2, <2>3, <2>r DEF ExpireKnows, OnlyJobsOf, Stuck
    <3> QED
      BY <2>2, <2>3, <3>1 DEF OpKnows
  <2> QED
    BY <1>1, <2>1, <2>2, <2>3, BegunKnows
<1>8. CASE PruneFound(t)
  <2>r. PICK R \in SUBSET RunId : R = {r \in RunId : Prunable(r)}
    OBVIOUS
  <2>m. PICK m : m = SweepTxn("prune", R)
    OBVIOUS
  <2>1. Begin(t, m, {}, "first", {})
    BY <2>m, <2>r, <1>8 DEF PruneFound, SweepTxn
  <2>2. m \in Txn /\ m.op = "prune" /\ m.found = R /\ m.jobs = {}
    BY <2>m, NewTxns DEF NewTxn, Sweep
  <2>3. ASSUME NEW x, NEW held, x.op = m.op, x.found = m.found, x.jobs = m.jobs
        PROVE  OpKnows(x, held, run, job)
    <3>1. PruneKnows(x, run, job)
      BY <2>2, <2>3, <2>r DEF PruneKnows, Prunable
    <3> QED
      BY <2>2, <2>3, <3>1 DEF OpKnows
  <2> QED
    BY <1>1, <2>1, <2>2, <2>3, BegunKnows
<1> QED
  BY <1>2, <1>3, <1>4, <1>5, <1>6, <1>7, <1>8 DEF Start

\* What t knows at one of its statements, of the locks it has and waits for.
LEMMA KnowsNow ==
  ASSUME LifeInv, NEW t \in TxnId
  PROVE  /\ OpKnows(txn[t], HeldBy(holder, t), run, job)
         /\ HeldBy(holder, t) \union txn[t].want = Locked(t)
         /\ HeldBy(holder, t) \subseteq Locked(t)
         /\ txn[t] \in Txn /\ JobLocks(txn[t].pool) \subseteq Locked(t)
<1>1. TxnOK(t, txn[t], job, holder) /\ txn[t] \in Txn /\ txn[t].pool \subseteq JobId
  BY TxnTyped DEF LifeInv, LocksInv
<1>2. \A j \in txn[t].pool : JobLock(j) \in HeldBy(holder, t)
  BY <1>1, LockNames DEF TxnOK, Mine, HeldBy
<1>3. HeldBy(holder, t) \union txn[t].want = Locked(t)
  BY DEF HeldBy, Locked
<1> QED
  BY <1>1, <1>2, <1>3, LockSets DEF LifeInv

LEMMA ClaimGoesOnLives ==
  ASSUME LifeInv, NEW t \in TxnId,
         ClaimLapsed(t) \/ ClaimPick(t) \/ ClaimCount(t) \/ ClaimLimit(t)
  PROVE  Lives \/ Rollback(t)
<1>1. /\ LocksInv /\ TypeOK /\ Kept({t}) /\ txn[t].op = "claim" /\ txn[t] \in Txn
      /\ OpKnows(txn[t], HeldBy(holder, t), run, job)
      /\ HeldBy(holder, t) \union txn[t].want = Locked(t)
  BY KnowsNow, ClaimLapsedStep, ClaimPickStep, ClaimCountStep, ClaimLimitStep
    DEF LifeInv, LocksInv, ClaimLapsed, ClaimPick, ClaimCount, ClaimLimit, Executes
<1>2. \A j \in txn[t].jobs : RunLock(job[j].run) \in Locked(t)
  BY <1>1 DEF OpKnows
<1>3. ASSUME NEW m \in Txn, m.op = "claim", m.jobs = txn[t].jobs, NEW at, at # "grant",
             NEW locks, GoOn(t, m, at, locks)
      PROVE  Lives
  <2>1. ASSUME NEW x, NEW held, x.op = m.op, x.at = at, x.jobs = m.jobs,
               Locked(t) \subseteq held
        PROVE  OpKnows(x, held, run, job)
    BY <1>2, <1>3, <2>1 DEF OpKnows
  <2> QED
    BY <1>1, <1>3, <2>1, WentOnKnows
<1>4. CASE ClaimLapsed(t)
  BY <1>1, <1>3, <1>4 DEF ClaimLapsed
<1>5. CASE ClaimPick(t)
  <2>1. PICK back \in SUBSET JobId, pool \in SUBSET JobId :
          Rollback(t) \/ GoOn(t, Found(txn[t], back, pool), "count", {})
    <3>1. PICK back : back = {j \in LockedJobs(t) : Lapsed(j) /\ ~job[j].canceled}
      OBVIOUS
    <3>2. PICK pool : pool = Pick(t, back)
      OBVIOUS
    <3>3. back \in SUBSET JobId /\ pool \in SUBSET JobId
      BY <3>1, <3>2 DEF LockedJobs, Pick
    <3>4. Rollback(t) \/ GoOn(t, Found(txn[t], back, pool), "count", {})
      BY <1>5, <3>1, <3>2 DEF ClaimPick, Found
    <3> QED
      BY <3>3, <3>4
  <2>2. PICK m : m = Found(txn[t], back, pool)
    OBVIOUS
  <2>3. m \in Txn /\ m.op = "claim" /\ m.jobs = txn[t].jobs
    BY <1>1, <2>2, FoundTxn DEF SameClaim
  <2> QED
    BY <1>3, <2>1, <2>2, <2>3
<1>6. CASE ClaimCount(t)
  <2>1. PICK j \in txn[t].pool : GoOn(t, Tries(txn[t], j), "limit", CountLocks(j))
    BY <1>6 DEF ClaimCount, Tries
  <2>2. PICK m : m = Tries(txn[t], j)
    OBVIOUS
  <2>3. m \in Txn /\ m.op = "claim" /\ m.jobs = txn[t].jobs
    <3>1. j \in JobId
      BY <1>1, TxnTyped
    <3> QED
      BY <1>1, <2>2, <3>1, TriesTxn DEF SameClaim
  <2> QED
    BY <1>3, <2>1, <2>2, <2>3
<1>7. CASE ClaimLimit(t)
  <2>1. PICK P \in SUBSET JobId : P = txn[t].pool \ {txn[t].job}
    BY <1>1, TxnTyped
  <2>2. PICK m : m = Leaves(txn[t], P)
    OBVIOUS
  <2>3. m \in Txn /\ m.op = "claim" /\ m.jobs = txn[t].jobs
    BY <1>1, <2>2, LeavesTxn DEF SameClaim
  <2>4. PICK locks : locks = RunLocks({job[txn[t].job].run})
    OBVIOUS
  <2>5. \/ GoOn(t, txn[t], "grant", locks)
        \/ Rollback(t)
        \/ GoOn(t, m, "count", {})
    BY <1>7, <2>1, <2>2, <2>4 DEF ClaimLimit, Leaves
  <2>6. CASE GoOn(t, txn[t], "grant", locks)
    <3>1. RunLock(job[txn[t].job].run) \in locks
      BY <2>4, LockSets
    <3>2. ASSUME NEW x, NEW held, x.op = txn[t].op, x.jobs = txn[t].jobs, x.job = txn[t].job,
                 Locked(t) \subseteq held, locks \subseteq held \union x.want
          PROVE  OpKnows(x, held, run, job)
      BY <1>1, <1>2, <3>1, <3>2 DEF OpKnows
    <3> QED
      BY <1>1, <2>6, <3>2, WentOnKnows
  <2> QED
    BY <1>3, <2>3, <2>5, <2>6
<1> QED
  BY <1>4, <1>5, <1>6, <1>7
LEMMA LockedJobsOf ==
  ASSUME NEW t \in TxnId
  PROVE  LockedJobs(t) = {j \in JobId : JobLock(j) \in Locked(t)}
BY DEF LockedJobs, JobLock

LEMMA StatementGoesOnLives ==
  ASSUME LifeInv, NEW t \in TxnId, PlainStatement(t)
  PROVE  Lives
<1>1. /\ LocksInv /\ TypeOK /\ Kept({t}) /\ txn[t] \in Txn
      /\ OpKnows(txn[t], HeldBy(holder, t), run, job)
      /\ HeldBy(holder, t) \union txn[t].want = Locked(t)
      /\ HeldBy(holder, t) \subseteq Locked(t)
      /\ JobLocks(txn[t].pool) \subseteq Locked(t)
  BY KnowsNow, PlainStatementStep DEF LifeInv, LocksInv
<1>2. PICK L : L = Locked(t)
  OBVIOUS
<1>3. CASE CancelRunTask(t)
  <2>r. PICK r : r = txn[t].run
    OBVIOUS
  <2>j. PICK J \in SUBSET JobId : J = {j \in LockedJobs(t) : Active(j)}
    BY LockedJobsOf
  <2>m. PICK m : m = PickedTxn(txn[t], J)
    OBVIOUS
  <2>k. PICK locks : locks = IF task[r] = "pending" THEN TaskLocks({r}) ELSE {}
    OBVIOUS
  <2>1. GoOn(t, m, "task", locks) /\ txn[t].op = "cancelRun" /\ txn[t].at = "jobs"
    BY <1>3, <2>r, <2>j, <2>m, <2>k DEF CancelRunTask, Executes, PickedTxn
  <2>2. /\ m \in Txn /\ m.jobs = J /\ m.op = "cancelRun" /\ m.run = r
        /\ m.pool = txn[t].pool
    BY <1>1, <2>1, <2>m, <2>r, Picked
  <2>3. CancelRunKnows(txn[t], HeldBy(holder, t), run, job)
    BY <1>1, <2>1 DEF OpKnows
  <2>4. /\ RunLock(r) \in L /\ run[r] \in Working \union {"WAITING_HUMAN"}
        /\ OnlyJobsOf(L, job, {r})
        /\ \A j \in ActiveOf(job, {r}) : JobLock(j) \in L
    BY <1>1, <1>2, <2>1, <2>3, <2>r DEF CancelRunKnows
  <2>5. J = ActiveOf(job, {r})
    BY <1>2, <2>j, <2>4, LockedJobsOf DEF OnlyJobsOf, ActiveOf, ActiveRow, Active
  <2>6. \A j : JobLock(j) \notin locks
    BY <2>k, LockSets, LockNames
  <2>7. ASSUME NEW x, NEW held, x.op = m.op, x.at = "task", x.run = m.run, x.jobs = m.jobs,
               Locked(t) \subseteq held,
               held \union x.want \subseteq Locked(t) \union locks \union JobLocks(m.pool)
        PROVE  OpKnows(x, held, run, job)
    <3>1. held \union x.want \subseteq L \union locks
      BY <1>1, <1>2, <2>2, <2>7
    <3>2. OnlyJobsOf(held \union x.want, job, {r})
      BY <2>4, <2>6, <3>1 DEF OnlyJobsOf
    <3>3. CancelRunKnows(x, held, run, job)
      BY <1>2, <2>2, <2>4, <2>5, <2>7, <3>2 DEF CancelRunKnows
    <3> QED
      BY <2>2, <2>7, <3>3 DEF OpKnows
  <2> QED
    BY <1>1, <2>1, <2>2, <2>7, WentOnKnows
<1>4. CASE ExpireSelect(t)
  <2>m. PICK m : m = txn[t]
    OBVIOUS
  <2>k. PICK locks : locks = JobLocks({j \in JobId : job[j].run \in m.found /\ Active(j)})
    OBVIOUS
  <2>1. GoOn(t, m, "jobs", locks) /\ m.op = "expire"
    BY <1>4, <2>m, <2>k DEF ExpireSelect, Executes
  <2>2. /\ \A r \in m.found : run[r] \in Working
        /\ OnlyJobsOf(L, job, m.found)
    BY <1>1, <1>2, <2>1, <2>m DEF OpKnows, ExpireKnows
  <2>3. /\ \A j \in JobId : JobLock(j) \in locks => job[j].run \in m.found
        /\ \A j \in ActiveOf(job, m.found) : JobLock(j) \in locks
    <3>1. {j \in JobId : job[j].run \in m.found /\ Active(j)} = ActiveOf(job, m.found)
      BY DEF Active, ActiveOf, ActiveRow
    <3> QED
      BY <2>k, <3>1, LockSets, LockNames DEF ActiveOf
  <2>4. ASSUME NEW x, NEW held, x.op = m.op, x.at = "jobs", x.found = m.found,
               locks \subseteq held \union x.want,
               held \union x.want \subseteq Locked(t) \union locks \union JobLocks(m.pool)
        PROVE  OpKnows(x, held, run, job)
    <3>1. held \union x.want \subseteq L \union locks
      BY <1>1, <1>2, <2>m, <2>4
    <3>2. OnlyJobsOf(held \union x.want, job, m.found)
      BY <2>2, <2>3, <3>1 DEF OnlyJobsOf
    <3>3. ExpireKnows(x, held, run, job)
      BY <2>2, <2>3, <2>4, <3>2 DEF ExpireKnows
    <3> QED
      BY <2>1, <2>4, <3>3 DEF OpKnows
  <2> QED
    BY <1>1, <2>1, <2>m, <2>4, WentOnKnows
<1>5. CASE ExpireJobs(t)
  <2>j. PICK J \in SUBSET JobId : J = {j \in LockedJobs(t) : Active(j)}
    BY LockedJobsOf
  <2>m. PICK m : m = PickedTxn(txn[t], J)
    OBVIOUS
  <2>k. PICK locks : locks = RunLocks({r \in txn[t].found : run[r] # "ABSENT"})
    OBVIOUS
  <2>1. GoOn(t, m, "run", locks) /\ txn[t].op = "expire" /\ txn[t].at = "jobs"
    BY <1>5, <2>j, <2>m, <2>k DEF ExpireJobs, Executes, PickedTxn
  <2>2. /\ m \in Txn /\ m.jobs = J /\ m.op = "expire" /\ m.found = txn[t].found
        /\ m.pool = txn[t].pool
    BY <1>1, <2>1, <2>m, Picked
  <2>3. /\ \A r \in m.found : run[r] \in Working
        /\ OnlyJobsOf(L, job, m.found)
        /\ \A j \in ActiveOf(job, m.found) : JobLock(j) \in L
    BY <1>1, <1>2, <2>1, <2>2 DEF OpKnows, ExpireKnows
  <2>4. J = ActiveOf(job, m.found)
    BY <1>2, <2>j, <2>3, LockedJobsOf DEF OnlyJobsOf, ActiveOf, ActiveRow, Active
  <2>5. \A j : JobLock(j) \notin locks
    BY <2>k, LockSets, LockNames
  <2>6. ASSUME NEW x, NEW held, x.op = m.op, x.at = "run", x.found = m.found, x.jobs = m.jobs,
               held \union x.want \subseteq Locked(t) \union locks \union JobLocks(m.pool)
        PROVE  OpKnows(x, held, run, job)
    <3>1. held \union x.want \subseteq L \union locks
      BY <1>1, <1>2, <2>2, <2>6
    <3>2. OnlyJobsOf(held \union x.want, job, m.found)
      BY <2>3, <2>5, <3>1 DEF OnlyJobsOf
    <3>3. ExpireKnows(x, held, run, job)
      BY <2>2, <2>3, <2>4, <2>6, <3>2 DEF ExpireKnows
    <3> QED
      BY <2>2, <2>6, <3>3 DEF OpKnows
  <2> QED
    BY <1>1, <2>1, <2>2, <2>6, WentOnKnows
<1>6. ASSUME NEW m \in Txn, m.op = "prune", txn[t].op = "prune", m.found = txn[t].found,
             \A j \in m.jobs : job[j].run \in m.found, NEW at, NEW locks, GoOn(t, m, at, locks)
      PROVE  Lives
  <2>1. \A r \in m.found : run[r] \in Terminal
    BY <1>1, <1>6 DEF OpKnows, PruneKnows
  <2>2. ASSUME NEW x, NEW held, x.op = m.op, x.found = m.found, x.jobs = m.jobs
        PROVE  OpKnows(x, held, run, job)
    <3>1. PruneKnows(x, run, job)
      BY <1>6, <2>1, <2>2 DEF PruneKnows
    <3> QED
      BY <1>6, <2>2, <3>1 DEF OpKnows
  <2> QED
    BY <1>1, <1>6, <2>2, WentOnKnows
<1>7. CASE PruneSelect(t) \/ PruneTasks(t)
  <2>1. txn[t].op = "prune"
    BY <1>7 DEF PruneSelect, PruneTasks, Executes
  <2>2. \A j \in txn[t].jobs : job[j].run \in txn[t].found
    BY <1>1, <2>1 DEF OpKnows, PruneKnows
  <2>3. \E at, locks : GoOn(t, txn[t], at, locks)
    BY <1>7 DEF PruneSelect, PruneTasks
  <2> QED
    BY <1>1, <1>6, <2>1, <2>2, <2>3
<1>8. CASE PruneJobs(t)
  <2>j. PICK J \in SUBSET JobId : J = {j \in LockedJobs(t) : job[j].run \in txn[t].found}
    BY LockedJobsOf
  <2>m. PICK m : m = PickedTxn(txn[t], J)
    OBVIOUS
  <2>1. txn[t].op = "prune" /\ \E at, locks : GoOn(t, m, at, locks)
    BY <1>8, <2>j, <2>m DEF PruneJobs, Executes, PickedTxn
  <2>2. m \in Txn /\ m.jobs = J /\ m.op = "prune" /\ m.found = txn[t].found
    BY <1>1, <2>1, <2>m, Picked
  <2>3. \A j \in m.jobs : job[j].run \in m.found
    BY <2>j, <2>2
  <2> QED
    BY <1>6, <2>1, <2>2, <2>3
<1> QED
  BY <1>3, <1>4, <1>5, <1>7, <1>8 DEF PlainStatement

LEMMA RollbackLives ==
  ASSUME LifeInv, NEW t \in TxnId, Rollback(t)
  PROVE  Lives
<1>1. Kept({t}) /\ UNCHANGED rows /\ TypeOK /\ End(t)
  BY RollbackStep DEF LifeInv, LocksInv, Rollback
<1>2. txn'[t] = NoTxn
  BY <1>1, EndMoves
<1>3. OpKnows(txn'[t], HeldBy(holder', t), run, job) /\ txn'[t].op \in {"none", txn[t].op}
  BY <1>2, NoTxnTyped, NoneKnows
<1>4. LifeInv'
  BY <1>1, <1>3, StatementLives
<1> QED
  BY <1>1, <1>4, StatementIsStep
-----------------------------------------------------------------------------
(* ... a transaction commits.                                              *)

LEMMA CommitEnds ==
  ASSUME LifeInv, NEW t \in TxnId, NEW R, Commit(t, R)
  PROVE  txn'[t].op = "none"
BY EndMoves, NoTxnTyped DEF LifeInv, LocksInv, Commit

\* One active job of run r settles and its run with it.
LEMMA OneSettles ==
  ASSUME LifeInv, NEW j \in JobId, ActiveRow(job[j]), NEW r, r = job[j].run,
         NEW row \in JobRow, OneRow(j, row), row.state \in {"succeeded", "failed"},
         row.run = r, row.attempt = job[j].attempt,
         NEW to, to # "ABSENT", run' = [run EXCEPT ![r] = to]
  PROVE  Settles({r}) /\ r \in RunId /\ run'[r] = to
<1>1. TypeOK /\ RowsFit(run, job, issued) /\ r \in RunId
  BY DEF LifeInv, LocksInv, HaveRuns, ActiveRow
<1>2. job'[j] = row /\ \A i \in JobId \ {j} : job'[i] = job[i]
  BY <1>1 DEF OneRow, TypeOK
<1>3. \A i \in JobId : ActiveRow(job[i]) /\ job[i].run = r => i = j
  BY <1>1 DEF RowsFit
<1>4. run'[r] = to /\ \A s \in RunId \ {r} : run'[s] = run[s]
  BY <1>1 DEF TypeOK
<1> QED
  BY <1>1, <1>2, <1>3, <1>4 DEF Settles, SameRow

LEMMA CompleteLives ==
  ASSUME LifeInv, NEW t \in TxnId, CompleteRun(t)
  PROVE  Lives
<1>1. PICK j, o, r : j = txn[t].job /\ o = txn[t].outcome /\ r = job[j].run
  OBVIOUS
<1>2. /\ txn[t].op = "complete" /\ Free(txn[t].want) /\ Commit(t, {r}) /\ issued' = issued
      /\ Kept({t}) /\ txn'[t].op = "none"
  BY <1>1, CommitEnds, CompleteStep DEF CompleteRun, Executes, LifeInv
<1>3. LocksInv /\ TypeOK /\ RowsFit(run, job, issued) /\ j \in JobId /\ o \in Outcome
  BY <1>1, <1>2, CommitFacts DEF LifeInv
<1>4. job[j].state = "running" /\ RunLock(r) \in Locked(t)
  BY <1>1, <1>2, KnowsNow DEF OpKnows
<1>5. \/ OneRow(j, CanceledJob(j)) /\ run' = [run EXCEPT ![r] = "CANCELED"]
      \/ /\ OneRow(j, CompletedJob(j, IF o = "FAILED" THEN "failed" ELSE "succeeded"))
         /\ run' = [run EXCEPT ![r] = o]
  BY <1>1 DEF CompleteRun, OneRow
<1>6. PICK row \in JobRow : /\ OneRow(j, row) /\ row.state \in {"succeeded", "failed"}
                            /\ row.run = r /\ row.attempt = job[j].attempt
  BY <1>1, <1>3, <1>5, CanceledRow, CompletedRow
<1>7. PICK to \in Outcome \union {"CANCELED"} : run' = [run EXCEPT ![r] = to]
  BY <1>3, <1>5
<1>8. Settles({r}) /\ r \in RunId /\ run'[r] = to
  BY <1>1, <1>3, <1>4, <1>6, <1>7, OneSettles DEF ActiveRow, Outcome
<1>9. /\ RowsFit(run', job', issued') /\ TouchesOnly({r})
      /\ \A s \in RunId \ {r} : StaysPut(s)
      /\ Held(job', r) = {}
  BY <1>2, <1>3, <1>8, SettleRows
<1>10. LifeInv'
  BY <1>2, <1>4, <1>9, TxnEnds DEF Sweep
<1>11. Walks(r)
  <2>1. run[r] = "RUNNING" /\ Held(job, r) # {}
    BY <1>1, <1>3, <1>4, HeldTokens DEF RowsFit, RunsNow
  <2> QED
    BY <1>8, <1>9, <2>1 DEF Walks, Moved, Working
<1>12. \A s \in RunId : Walks(s)
  BY <1>9, <1>11 DEF Walks
<1> QED
  BY <1>2, <1>10, <1>12 DEF Lives

LEMMA CancelJobLives ==
  ASSUME LifeInv, NEW t \in TxnId, CancelJob(t)
  PROVE  Lives
<1>1. PICK j, r : j = txn[t].job /\ r = job[j].run
  OBVIOUS
<1>2. PICK R : /\ txn[t].op = "cancelJob" /\ Free(txn[t].want) /\ Commit(t, R)
               /\ issued' = issued /\ Kept({t})
  BY CancelJobStep DEF CancelJob, Executes, LifeInv
<1>3. /\ LocksInv /\ TypeOK /\ RowsFit(run, job, issued) /\ j \in JobId
      /\ job[j] \in JobRow /\ txn'[t].op = "none"
  BY <1>1, <1>2, CommitFacts, CommitEnds DEF LifeInv, TypeOK
<1>4. RunLock(r) \in Locked(t)
  BY <1>1, <1>2, KnowsNow DEF OpKnows
<1>5. CASE UNCHANGED run /\ \A i \in JobId : SameRow(i)
  <2>1. /\ RowsFit(run', job', issued') /\ TouchesOnly({})
        /\ \A s \in RunId : StaysPut(s)
    BY <1>2, <1>3, <1>5, SameRows
  <2>2. LifeInv'
    BY <1>2, <1>3, <2>1, TxnEnds DEF Sweep
  <2> QED
    BY <1>2, <2>1, <2>2 DEF Lives, Walks
<1>6. CASE ActiveRow(job[j]) /\ OneRow(j, CanceledJob(j)) /\ run' = [run EXCEPT ![r] = "CANCELED"]
  <2>1. Settles({r}) /\ r \in RunId /\ run'[r] = "CANCELED"
    <3>1. PICK row \in JobRow : /\ OneRow(j, row) /\ row.state \in {"succeeded", "failed"}
                                /\ row.run = r /\ row.attempt = job[j].attempt
      BY <1>1, <1>3, <1>6, CanceledRow
    <3> QED
      BY <1>1, <1>3, <1>6, <3>1, OneSettles
  <2>2. /\ RowsFit(run', job', issued') /\ TouchesOnly({r})
        /\ \A s \in RunId \ {r} : StaysPut(s)
        /\ Held(job', r) = {}
    BY <1>2, <1>3, <2>1, SettleRows
  <2>3. LifeInv'
    BY <1>2, <1>3, <1>4, <2>2, TxnEnds DEF Sweep
  <2>4. Walks(r)
    <3>1. run[r] \in Working
      BY <1>1, <1>3, <1>6 DEF RowsFit
    <3> QED
      BY <2>1, <2>2, <3>1 DEF Walks, Moved
  <2>5. \A s \in RunId : Walks(s)
    BY <2>2, <2>4 DEF Walks
  <2> QED
    BY <1>2, <2>3, <2>5 DEF Lives
<1>7. \/ UNCHANGED <<run, job>>
      \/ job' = [job EXCEPT ![j].canceled = TRUE] /\ UNCHANGED run
      \/ ActiveRow(job[j]) /\ OneRow(j, CanceledJob(j)) /\ run' = [run EXCEPT ![r] = "CANCELED"]
  BY <1>1 DEF CancelJob, OneRow, Active, ActiveRow
<1>8. CASE job' = [job EXCEPT ![j].canceled = TRUE] /\ UNCHANGED run
  <2>1. PICK row : row = [job[j] EXCEPT !.canceled = TRUE]
    OBVIOUS
  <2>2. /\ row.state = job[j].state /\ row.run = job[j].run
        /\ row.attempt = job[j].attempt /\ row.owner = job[j].owner
    BY <1>3, <2>1 DEF JobRow
  <2>3. job' = [job EXCEPT ![j] = row]
    BY <1>8, <2>1
  <2>4. \A i \in JobId : SameRow(i)
    BY <1>3, <2>2, <2>3, SameRowAt
  <2> QED
    BY <1>5, <1>8, <2>4
<1>9. CASE UNCHANGED <<run, job>>
  BY <1>5, <1>9 DEF SameRow
<1> QED
  BY <1>6, <1>7, <1>8, <1>9

LEMMA CancelRunLives ==
  ASSUME LifeInv, NEW t \in TxnId, CancelRun(t)
  PROVE  Lives
<1>1. PICK r, J : r = txn[t].run /\ J = txn[t].jobs
  OBVIOUS
<1>2. /\ txn[t].op = "cancelRun" /\ txn[t].at = "task" /\ Free(txn[t].want)
      /\ Commit(t, {r}) /\ issued' = issued /\ Kept({t}) /\ txn'[t].op = "none"
      /\ run' = [run EXCEPT ![r] = "CANCELED"]
  BY <1>1, CommitEnds, CancelRunStep DEF CancelRun, Executes, LifeInv
<1>3. LocksInv /\ TypeOK /\ RowsFit(run, job, issued) /\ r \in RunId
  BY <1>1, <1>2, CommitFacts DEF LifeInv
<1>4. CancelRunKnows(txn[t], HeldBy(holder, t), run, job)
  BY <1>2, KnowsNow DEF OpKnows
<1>5. /\ RunLock(r) \in Locked(t) /\ run[r] \in Working \union {"WAITING_HUMAN"}
      /\ J = ActiveOf(job, {r})
  BY <1>1, <1>2, <1>4, KnowsNow DEF CancelRunKnows
<1>6. \A j \in JobId : IF j \in J
        THEN /\ job'[j].state = "failed" /\ job'[j].run = job[j].run
             /\ job'[j].attempt = job[j].attempt
        ELSE job'[j] = job[j]
  BY <1>1, <1>3, CancelRunRows
<1>7. run'[r] = "CANCELED" /\ \A s \in RunId \ {r} : run'[s] = run[s]
  BY <1>2, <1>3 DEF TypeOK
<1>8. Settles({r})
  BY <1>5, <1>6, <1>7 DEF Settles, ActiveOf, SameRow
<1>9. /\ RowsFit(run', job', issued') /\ TouchesOnly({r})
      /\ \A s \in RunId \ {r} : StaysPut(s)
      /\ Held(job', r) = {}
  BY <1>2, <1>3, <1>8, SettleRows
<1>10. LifeInv'
  BY <1>2, <1>5, <1>9, TxnEnds DEF Sweep
<1>11. \A s \in RunId : Walks(s)
  BY <1>5, <1>7, <1>9 DEF Walks, Moved
<1> QED
  BY <1>2, <1>10, <1>11 DEF Lives

LEMMA ResumeLives ==
  ASSUME LifeInv, NEW t \in TxnId, ResumeHumanTask(t)
  PROVE  Lives
<1>1. PICK r : r = txn[t].run
  OBVIOUS
<1>2. txn[t].op = "resume" /\ Free(txn[t].want) /\ Kept({t})
  BY <1>1, ResumeStep DEF ResumeHumanTask, Executes, LifeInv
<1>3. LocksInv /\ RowsFit(run, job, issued) /\ r \in RunId /\ RunLock(r) \in Locked(t)
  BY <1>1, <1>2, CommitFacts, KnowsNow DEF LifeInv, OpKnows
<1>4. CASE /\ run[r] = "WAITING_HUMAN" /\ Inserts(r) /\ Commit(t, {r}) /\ issued' = issued
           /\ run' = [run EXCEPT ![r] = "RESUMING"]
  <2>1. /\ RowsFit(run', job', issued') /\ TouchesOnly({r})
        /\ \A s \in RunId \ {r} : StaysPut(s)
        /\ run'[r] = "RESUMING" /\ Held(job', r) = {}
    BY <1>3, <1>4, InsertRows DEF Working
  <2>2. LifeInv'
    BY <1>2, <1>3, <1>4, <2>1, TxnEnds, CommitEnds DEF Sweep
  <2>3. \A s \in RunId : Walks(s)
    BY <1>4, <2>1 DEF Walks, Moved
  <2> QED
    BY <1>4, <2>2, <2>3 DEF Lives
<1> QED
  BY <1>1, <1>4, RollbackLives DEF ResumeHumanTask

LEMMA ExpireLives ==
  ASSUME LifeInv, NEW t \in TxnId, ExpireStuckJobs(t)
  PROVE  Lives
<1>1. PICK S, J : S = txn[t].found /\ J = txn[t].jobs
  OBVIOUS
<1>2. /\ txn[t].op = "expire" /\ txn[t].at = "run"
      /\ Commit(t, S) /\ issued' = issued /\ Kept({t}) /\ txn'[t].op = "none"
      /\ run' = [r \in RunId |-> IF r \in S /\ run[r] # "ABSENT" THEN "EXPIRED" ELSE run[r]]
  BY <1>1, CommitEnds, ExpireStep DEF ExpireStuckJobs, Executes, LifeInv
<1>3. LocksInv /\ TypeOK /\ RowsFit(run, job, issued) /\ S \subseteq RunId
  BY <1>1, TxnTyped DEF LifeInv, LocksInv
<1>4. (\A r \in S : run[r] \in Working) /\ J = ActiveOf(job, S)
  BY <1>1, <1>2, KnowsNow DEF OpKnows, ExpireKnows
<1>5. \A j \in JobId : IF j \in J
        THEN /\ job'[j].state = "failed" /\ job'[j].run = job[j].run
             /\ job'[j].attempt = job[j].attempt
        ELSE job'[j] = job[j]
  BY <1>1, <1>3, ExpireRows
<1>6. \A r \in RunId : run'[r] = IF r \in S THEN "EXPIRED" ELSE run[r]
  BY <1>2, <1>4 DEF Working
<1>7. Settles(S)
  BY <1>3, <1>4, <1>5, <1>6 DEF Settles, ActiveOf, SameRow
<1>8. /\ RowsFit(run', job', issued')
      /\ \A s \in RunId \ S : StaysPut(s)
      /\ \A s \in S : Held(job', s) = {}
  BY <1>2, <1>3, <1>7, SettleRows
<1>9. LifeInv'
  BY <1>2, <1>8, SweepEnds DEF Sweep
<1>10. \A s \in RunId : Walks(s)
  BY <1>4, <1>6, <1>8 DEF Walks, Moved
<1> QED
  BY <1>2, <1>9, <1>10 DEF Lives

LEMMA PruneLives ==
  ASSUME LifeInv, NEW t \in TxnId, PruneSettledJobs(t)
  PROVE  Lives
<1>1. PICK S, J : S = txn[t].found /\ J = txn[t].jobs
  OBVIOUS
<1>2. txn[t].op = "prune" /\ Kept({t})
  BY PruneStep DEF PruneSettledJobs, Executes, LifeInv
<1>3. LocksInv /\ HaveRuns(job) /\ RowsFit(run, job, issued) /\ S \subseteq RunId
  BY <1>1, TxnTyped DEF LifeInv, LocksInv
<1>4. (\A r \in S : run[r] \in Terminal) /\ \A j \in J : job[j].run \in S
  BY <1>1, <1>2, KnowsNow DEF OpKnows, PruneKnows
<1>5. CASE /\ \A r \in S : JobsOf(r) \ J = {}
           /\ job' = [j \in JobId |-> IF j \in J THEN NoJobRow ELSE job[j]]
           /\ run' = [r \in RunId |-> IF r \in S THEN "ABSENT" ELSE run[r]]
           /\ Commit(t, S) /\ issued' = issued
  <2>1. \A j \in JobId : job[j].run \in S <=> j \in J
    BY <1>4, <1>5 DEF JobsOf
  <2>2. /\ RowsFit(run', job', issued')
        /\ \A r \in RunId \ S : StaysPut(r)
        /\ \A r \in S : Held(job', r) = {}
    BY <1>3, <1>4, <1>5, <2>1, PruneRows
  <2>3. LifeInv'
    BY <1>2, <1>5, <2>2, SweepEnds, CommitEnds DEF Sweep
  <2>4. \A r \in S : Moved(r, Terminal, "ABSENT")
    BY <1>3, <1>4, <1>5, <2>2 DEF Moved
  <2>5. \A r \in RunId : Walks(r)
    BY <2>2, <2>4 DEF Walks
  <2> QED
    BY <1>5, <2>3, <2>5 DEF Lives
<1> QED
  BY <1>1, <1>5, RollbackLives DEF PruneSettledJobs
\* Job i starts for worker w; of the other jobs, J are canceled with their runs R
\* and B are queued again.
Starts(i, w, J, B, R) ==
  /\ i \in JobId /\ w \in WorkerId /\ ActiveRow(job[i]) /\ job[i].run \notin R
  /\ job'[i].state = "running" /\ job'[i].run = job[i].run /\ job'[i].owner = w
  /\ job'[i].attempt = job[i].attempt + 1
  /\ \A j \in JobId \ {i} :
       /\ job'[j].run = job[j].run /\ job'[j].attempt = job[j].attempt
       /\ j \in J => job[j].state = "running" /\ job'[j].state = "failed"
       /\ j \in B => job[j].state = "running" /\ job'[j].state = "queued" /\ j \notin J
       /\ j \notin J \union B => job'[j] = job[j]
  /\ R \subseteq RunId
  /\ \A r \in R : \E j \in J : j \in JobId \ {i} /\ job[j].run = r
  /\ \A j \in JobId : ActiveRow(job[j]) => (job[j].run \in R <=> j \in J)
  /\ \A r \in RunId : run'[r] = IF r \in R THEN "CANCELED"
                                ELSE IF r = job[i].run THEN "RUNNING" ELSE run[r]
  /\ issued' = issued \union {[job |-> i, owner |-> w, attempt |-> job[i].attempt + 1]}

LEMMA GrantStarts ==
  ASSUME LifeInv, NEW t \in TxnId, ClaimGrant(t), NEW c, c = txn[t]
  PROVE  Starts(c.job, c.worker, c.jobs, c.back, {job[j].run : j \in c.jobs})
<1>1. PICK i, w, J, B : i = c.job /\ w = c.worker /\ J = c.jobs /\ B = c.back
  OBVIOUS
<1>2. /\ LocksInv /\ TypeOK /\ HaveRuns(job) /\ RowsFit(run, job, issued)
      /\ J \subseteq JobId /\ B \subseteq JobId
  BY <1>1, TxnTyped DEF LifeInv, LocksInv
<1>3. /\ i \in JobId /\ w \in WorkerId /\ i \notin J
      /\ ActiveRow(job[i]) /\ job'[i] = GrantRow(i, w)
      /\ \A j \in JobId \ {i} :
           /\ j \in J => job'[j] = CanceledJob(j) /\ LapsedRow(job[j]) /\ job[j].canceled
           /\ j \in B => job'[j] = BackRow(j) /\ LapsedRow(job[j]) /\ ~job[j].canceled
           /\ j \notin J \union B => job'[j] = job[j]
  BY <1>1, <1>2, GrantedRows DEF ActiveRow
<1>4. PICK R : R = {job[j].run : j \in J}
  OBVIOUS
<1>5. \A j \in J : j \in JobId \ {i} /\ job[j].state = "running"
  BY <1>2, <1>3 DEF LapsedRow
<1>6. R \subseteq RunId
  BY <1>2, <1>4, <1>5 DEF HaveRuns
<1>7. \A j \in JobId : ActiveRow(job[j]) => (job[j].run \in R <=> j \in J)
  BY <1>2, <1>4, <1>5 DEF RowsFit, ActiveRow
<1>8. job[i].run \notin R
  BY <1>3, <1>7
<1>9. /\ job'[i].state = "running" /\ job'[i].run = job[i].run /\ job'[i].owner = w
      /\ job'[i].attempt = job[i].attempt + 1
  BY <1>2, <1>3, GrantRows
<1>10. ASSUME NEW j \in JobId \ {i}
       PROVE  /\ job'[j].run = job[j].run /\ job'[j].attempt = job[j].attempt
              /\ j \in J => job[j].state = "running" /\ job'[j].state = "failed"
              /\ j \in B => job[j].state = "running" /\ job'[j].state = "queued" /\ j \notin J
              /\ j \notin J \union B => job'[j] = job[j]
  <2>1. CASE j \in J
    BY <1>2, <1>3, <2>1, CanceledRow DEF LapsedRow
  <2>2. CASE j \in B /\ j \notin J
    BY <1>2, <1>3, <2>2, GrantRows DEF LapsedRow
  <2> QED
    BY <1>3, <2>1, <2>2
<1>11. run' = [r \in RunId |->
                 IF r \in R THEN "CANCELED"
                 ELSE IF r = job[i].run /\ run[r] \in {"QUEUED", "RESUMING"}
                 THEN "RUNNING" ELSE run[r]]
  BY <1>1, <1>4 DEF ClaimGrant
<1>12. run[job[i].run] \in {"QUEUED", "RUNNING", "RESUMING"}
  BY <1>2, <1>3 DEF RowsFit, Working
<1>13. \A r \in RunId : run'[r] = IF r \in R THEN "CANCELED"
                                  ELSE IF r = job[i].run THEN "RUNNING" ELSE run[r]
  BY <1>11, <1>12
<1>14. issued' = issued \union {[job |-> i, owner |-> w, attempt |-> job[i].attempt + 1]}
  BY <1>1 DEF ClaimGrant
<1>15. \A r \in R : \E j \in J : j \in JobId \ {i} /\ job[j].run = r
  BY <1>4, <1>5
<1>16. Starts(i, w, J, B, R)
  BY <1>3, <1>6, <1>7, <1>8, <1>9, <1>10, <1>13, <1>14, <1>15 DEF Starts
<1> QED
  BY <1>1, <1>4, <1>16

LEMMA StartedRows ==
  ASSUME LocksInv, RowsFit(run, job, issued), NEW i, NEW w, NEW J, NEW B, NEW R,
         Starts(i, w, J, B, R)
  PROVE  RowsFit(run', job', issued') /\ TouchesOnly(R \union {job[i].run})
<1>1. /\ TypeOK /\ HaveRuns(job) /\ \A l \in issued : l.job \in JobId /\ l.attempt \in Nat
      /\ i \in JobId
  BY IssuedTyped DEF LocksInv, TypeOK, Lease, Starts
<1>2. \A j \in JobId : job[j].attempt \in Nat
  BY <1>1 DEF TypeOK, JobRow
<1>3. PICK r \in RunId : r = job[i].run
  BY <1>1 DEF Starts, HaveRuns, ActiveRow
<1>4. \A j \in JobId : /\ job'[j].run = job[j].run
                       /\ job'[j].state = "absent" <=> job[j].state = "absent"
                       /\ ActiveRow(job'[j]) => ActiveRow(job[j]) /\ j \notin J
                       /\ job'[j].state = "running" => j = i \/ job[j].state = "running"
                       /\ job[j].attempt <= job'[j].attempt
  <2>1. ActiveRow(job[i]) /\ i \notin J
    BY DEF Starts
  <2>2. ASSUME NEW j \in JobId \ {i}
        PROVE  /\ job'[j].run = job[j].run
               /\ job'[j].state = "absent" <=> job[j].state = "absent"
               /\ ActiveRow(job'[j]) => ActiveRow(job[j]) /\ j \notin J
               /\ job'[j].state = "running" => job[j].state = "running"
               /\ job[j].attempt <= job'[j].attempt
    BY <1>2 DEF Starts, ActiveRow
  <2>3. job'[i].run = job[i].run /\ job'[i].state = "running"
        /\ job[i].attempt <= job'[i].attempt
    BY <1>1, <1>2 DEF Starts
  <2> QED
    BY <2>1, <2>2, <2>3 DEF ActiveRow
<1>5. \A j \in JobId : ActiveRow(job'[j]) =>
        /\ job[j].run \in RunId \ R
        /\ run'[job'[j].run] = IF j = i THEN "RUNNING" ELSE run[job[j].run]
  <2>1. ASSUME NEW j \in JobId, ActiveRow(job'[j]) PROVE job[j].run \in RunId \ R
    BY <1>1, <1>4, <2>1 DEF Starts, HaveRuns, ActiveRow
  <2>2. ASSUME NEW j \in JobId, ActiveRow(job'[j]), j # i PROVE job[j].run # r
    BY <1>1, <1>3, <1>4, <2>2 DEF RowsFit, Starts
  <2> QED
    BY <1>3, <1>4, <2>1, <2>2 DEF Starts
<1>6. RowsFit(run', job', issued')
  <2>1. \A j \in JobId : job'[j].state # "absent" => run'[job'[j].run] # "ABSENT"
    BY <1>1, <1>4 DEF RowsFit, HaveRuns, Starts
  <2>2. \A j \in JobId : ActiveRow(job'[j]) => run'[job'[j].run] \in Working
    BY <1>4, <1>5 DEF RowsFit, Working
  <2>3. \A j \in JobId : job'[j].state = "running" => run'[job'[j].run] = "RUNNING"
    BY <1>4, <1>5 DEF RowsFit, ActiveRow
  <2>4. \A j, k \in JobId :
          ActiveRow(job'[j]) /\ ActiveRow(job'[k]) /\ job'[j].run = job'[k].run => j = k
    BY <1>4 DEF RowsFit
  <2>5. \A l \in issued : job'[l.job].state = "absent" \/ l.attempt <= job'[l.job].attempt
    <3>1. ASSUME NEW l \in issued, job[l.job].state # "absent"
          PROVE  l.attempt <= job'[l.job].attempt
      <4>1. /\ l.job \in JobId /\ l.attempt <= job[l.job].attempt /\ l.attempt \in Nat
            /\ job[l.job].attempt \in Nat /\ job[l.job].attempt <= job'[l.job].attempt
        BY <1>1, <1>2, <1>4, <3>1 DEF RowsFit
      <4>2. job'[l.job].attempt \in Nat
        BY <1>1, <1>2, <4>1 DEF Starts
      <4> QED
        BY <4>1, <4>2
    <3> QED
      BY <1>1, <1>4, <3>1
  <2>6. \A l \in issued' : job'[l.job].state = "absent" \/ l.attempt <= job'[l.job].attempt
    <3>1. PICK token : token = [job |-> i, owner |-> w, attempt |-> job[i].attempt + 1]
      OBVIOUS
    <3>2. token.job = i /\ token.attempt = job[i].attempt + 1
      BY <3>1
    <3>3. issued' = issued \union {token} /\ job'[i].attempt = job[i].attempt + 1
      BY <3>1 DEF Starts
    <3>4. job[i].attempt + 1 <= job[i].attempt + 1
      BY <1>1, <1>2
    <3> QED
      BY <2>5, <3>2, <3>3, <3>4
  <2> QED
    BY <2>1, <2>2, <2>3, <2>4, <2>6 DEF RowsFit
<1>7. TouchesOnly(R \union {r})
  BY <1>3, <1>4 DEF TouchesOnly, Starts
<1> QED
  BY <1>3, <1>6, <1>7
\* Beside the run that starts, runs R are canceled, those of B lose their lease.
LEMMA StartedWalks ==
  ASSUME LocksInv, RowsFit(run, job, issued), NEW i, NEW w, NEW J, NEW B, NEW R,
         Starts(i, w, J, B, R), NEW s \in RunId \ {job[i].run}
  PROVE  Walks(s)
<1>1. i \in JobId /\ R \subseteq RunId /\ job'[i].run = job[i].run
  BY DEF Starts
<1>2. \A j \in JobId : RunsNow(job', j, s) => RunsNow(job, j, s) /\ j # i /\ job'[j] = job[j]
                                             /\ j \notin J \union B
  BY <1>1 DEF Starts, RunsNow
<1>3. CASE s \in R
  <2>1. run[s] \in Working
    BY <1>3 DEF Starts, RowsFit, ActiveRow
  <2>2. \A j \in JobId : ~RunsNow(job', j, s)
    BY <1>2, <1>3 DEF Starts, RunsNow, ActiveRow
  <2>3. Held(job', s) = {} /\ run'[s] = "CANCELED"
    BY <1>3, <2>2, NoTokens DEF Starts
  <2> QED
    BY <2>1, <2>3 DEF Walks, Moved
<1>4. CASE s \notin R /\ \E k \in JobId \ {i} : k \in B /\ job[k].run = s
  <2>1. PICK k \in JobId \ {i} : k \in B /\ job[k].run = s
    BY <1>4
  <2>2. RunsNow(job, k, s)
    BY <2>1 DEF Starts, RunsNow
  <2>3. Held(job, s) # {} /\ run[s] = "RUNNING" /\ run'[s] = run[s]
    BY <1>4, <2>1, <2>2, HeldTokens DEF RowsFit, RunsNow, Starts
  <2>4. \A j \in JobId : ~RunsNow(job', j, s)
    BY <1>2, <2>1, <2>2 DEF RowsFit, RunsNow, ActiveRow
  <2>5. Held(job', s) = {}
    BY <2>4, NoTokens
  <2> QED
    BY <2>3, <2>5 DEF Walks, Moved
<1>5. CASE s \notin R /\ \A k \in JobId \ {i} : k \in B => job[k].run # s
  <2>1. run'[s] = run[s]
    BY <1>5 DEF Starts
  <2>2. \A j \in JobId : RunsNow(job, j, s) => j # i /\ j \notin J \union B
    BY <1>5 DEF Starts, RunsNow, ActiveRow
  <2>3. \A j \in JobId : RunsNow(job, j, s) => job'[j] = job[j]
    BY <2>2 DEF Starts
  <2>4. \A j \in JobId : RunsNow(job', j, s) <=> RunsNow(job, j, s)
    BY <1>2, <2>3 DEF RunsNow
  <2>5. Held(job', s) = Held(job, s)
    BY <2>3, <2>4, SameTokens
  <2> QED
    BY <2>1, <2>5 DEF Walks, StaysPut
<1> QED
  BY <1>3, <1>4, <1>5

LEMMA StartedToken ==
  ASSUME LocksInv, RowsFit(run, job, issued), NEW i, NEW w, NEW J, NEW B, NEW R,
         Starts(i, w, J, B, R),
         NEW token, token = [job |-> i, owner |-> w, attempt |-> job[i].attempt + 1]
  PROVE  /\ token \notin issued /\ issued' = issued \union {token}
         /\ Held(job', job[i].run) = {token}
<1>1. i \in JobId /\ job[i].attempt \in Nat /\ job[i].state # "absent"
  BY DEF LocksInv, TypeOK, JobRow, Starts, ActiveRow
<1>2. token.job = i /\ token.attempt = job[i].attempt + 1
  OBVIOUS
<1>3. \A l \in issued : l.job = i => l.attempt <= job[i].attempt
  BY <1>1 DEF RowsFit
<1>4. token \notin issued
  <2>1. ~(job[i].attempt + 1 <= job[i].attempt)
    BY <1>1
  <2> QED
    BY <1>2, <1>3, <2>1
<1>5. \A j \in JobId : RunsNow(job', j, job[i].run) <=> j = i
  <2>1. RunsNow(job', i, job[i].run)
    BY DEF Starts, RunsNow
  <2>2. ASSUME NEW j \in JobId \ {i}, RunsNow(job', j, job[i].run) PROVE FALSE
    <3>1. job[j].state = "running" /\ job[j].run = job[i].run /\ ActiveRow(job[i])
      BY <2>2 DEF Starts, RunsNow
    <3> QED
      BY <1>1, <2>2, <3>1 DEF RowsFit, ActiveRow
  <2> QED
    BY <1>1, <2>1, <2>2
<1>6. {j \in JobId : RunsNow(job', j, job[i].run)} = {i}
  BY <1>1, <1>5
<1>7. Token(job', i) = token
  BY DEF Token, Starts
<1>8. Held(job', job[i].run) = {token}
  BY <1>6, <1>7 DEF Held
<1> QED
  BY <1>4, <1>8 DEF Starts

\* A claim commits: run r is granted a lease nobody had before.
Granted(r, token) ==
  /\ token \notin issued /\ issued' = issued \union {token}
  /\ run[r] \in Working /\ run'[r] = "RUNNING" /\ Held(job', r) = {token}
  /\ \A s \in RunId \ {r} : Walks(s)

LEMMA GrantLives ==
  ASSUME LifeInv, NEW t \in TxnId, ClaimGrant(t)
  PROVE  LifeInv' /\ \E r \in RunId : \E token : Granted(r, token)
<1>1. PICK c : c = txn[t]
  OBVIOUS
<1>2. PICK i, w, J, B : i = c.job /\ w = c.worker /\ J = c.jobs /\ B = c.back
  OBVIOUS
<1>3. PICK R : R = {job[j].run : j \in J}
  OBVIOUS
<1>4. Starts(i, w, J, B, R)
  BY <1>1, <1>2, <1>3, GrantStarts
<1>5. LocksInv /\ RowsFit(run, job, issued) /\ HaveRuns(job) /\ Kept({t})
  BY GrantStep DEF LifeInv, LocksInv
<1>6. PICK r \in RunId : r = job[i].run
  BY <1>4, <1>5 DEF Starts, HaveRuns, ActiveRow
<1>7. RowsFit(run', job', issued') /\ TouchesOnly(R \union {r})
  BY <1>4, <1>5, <1>6, StartedRows
<1>8. /\ c.op = "claim" /\ c.at = "grant" /\ Free(txn[t].want) /\ txn'[t].op = "none"
  BY <1>1, CommitEnds DEF ClaimGrant, Executes
<1>9. \A s \in R \union {r} : RunLock(s) \in Locked(t)
  BY <1>1, <1>2, <1>3, <1>6, <1>8, KnowsNow DEF OpKnows
<1>10. LifeInv'
  BY <1>1, <1>5, <1>7, <1>8, <1>9, TxnEnds DEF Sweep
<1>11. PICK token : token = [job |-> i, owner |-> w, attempt |-> job[i].attempt + 1]
  OBVIOUS
<1>12. token \notin issued /\ issued' = issued \union {token} /\ Held(job', r) = {token}
  BY <1>4, <1>5, <1>6, <1>11, StartedToken
<1>13. run[r] \in Working /\ run'[r] = "RUNNING"
  BY <1>4, <1>5, <1>6 DEF Starts, RowsFit
<1>14. \A s \in RunId \ {r} : Walks(s)
  BY <1>4, <1>5, <1>6, StartedWalks
<1> QED
  BY <1>10, <1>12, <1>13, <1>14 DEF Granted
-----------------------------------------------------------------------------
(* The life cycle is implemented.                                          *)

LEMMA InitLives == Init => LifeInv
<1> SUFFICES ASSUME Init PROVE LifeInv
  OBVIOUS
<1>1. LocksInv
  BY InitKeeps
<1>2. \A j \in JobId : job[j].state = "absent"
  BY DEF Init, NoJobRow
<1>3. \A t \in TxnId : txn[t].op = "none"
  BY NoTxnTyped DEF Init
<1>4. issued = {}
  BY DEF Init
<1>5. RowsFit(run, job, issued)
  BY <1>2, <1>4 DEF RowsFit, ActiveRow
<1>6. \A t \in TxnId : OpKnows(txn[t], HeldBy(holder, t), run, job)
  BY <1>3, NoneKnows
<1>7. SweepsApart
  BY <1>3 DEF SweepsApart
<1> QED
  BY <1>1, <1>5, <1>6, <1>7 DEF LifeInv

LEMMA TxnLives ==
  ASSUME SweepsAlone, LifeInv, NEW t \in TxnId,
         Start(t) \/ Proceed(t) \/ Disconnect(t) \/ Victim(t)
  PROVE  Lives \/ (LifeInv' /\ \E r \in RunId : \E token : Granted(r, token))
<1>1. CASE Start(t)
  BY <1>1, BeginLives
<1>2. CASE Disconnect(t) \/ Victim(t) \/ Rollback(t)
  BY <1>2, RollbackLives DEF Disconnect, Victim
<1>3. CASE Claim(t)
  BY <1>2, <1>3, ClaimGoesOnLives, GrantLives DEF Claim
<1>4. CASE PlainStatement(t)
  BY <1>4, StatementGoesOnLives
<1>5. CASE Proceed(t) /\ ~Claim(t) /\ ~PlainStatement(t)
  BY <1>5, CompleteLives, CancelJobLives, CancelRunLives, ResumeLives, ExpireLives, PruneLives
    DEF Proceed, PlainStatement
<1> QED
  BY <1>1, <1>2, <1>3, <1>4, <1>5

LEMMA NextLives ==
  ASSUME SweepsAlone, LifeInv, [Next]_vars
  PROVE  Lives \/ (LifeInv' /\ \E r \in RunId : \E token : Granted(r, token))
<1>1. CASE \E r \in RunId, j \in JobId : CreateRunAndEnqueue(r, j)
  BY <1>1, CreateLives
<1>2. CASE \E r \in RunId : RetryRun(r)
  BY <1>2, RetryLives
<1>3. CASE \/ \E l \in issued : HeartbeatJob(l)
           \/ RequeueQueuedJobsForApp
           \/ \E j \in JobId : Lapse(j)
           \/ \E r \in RunId : GrowsOld(r)
           \/ UNCHANGED vars
  BY <1>3, QuietLives
<1>4. CASE \E t \in TxnId : Start(t) \/ Proceed(t) \/ Disconnect(t) \/ Victim(t)
  BY <1>4, TxnLives
<1> QED
  BY <1>1, <1>2, <1>3, <1>4 DEF Next

LEMMA HeldIs ==
  ASSUME NEW r \in RunId
  PROVE  heldOf[r] = Held(job, r) /\ heldOf'[r] = Held(job', r)
BY DEF heldOf, Held, Token, RunsNow, JobsOf

LEMMA WalkIsStep ==
  ASSUME NEW r \in RunId, Walks(r)
  PROVE  Lifecycle!Step(r)
BY HeldIs DEF Walks, StaysPut, Moved, phaseOf, Terminal, Working, Outcome,
   Lifecycle!Step, Lifecycle!Same, Lifecycle!Admit, Lifecycle!Revoke, Lifecycle!Report,
   Lifecycle!Resume, Lifecycle!Cancel, Lifecycle!Expire, Lifecycle!Retry, Lifecycle!Forget,
   Lifecycle!Moves, Lifecycle!Outcome, Lifecycle!Pending, Lifecycle!Retryable

LEMMA GrantIsNext ==
  ASSUME NEW r \in RunId, NEW token, Granted(r, token)
  PROVE  Lifecycle!LifecycleNext
<1>1. Lifecycle!Grant(r, token)
  BY HeldIs DEF Granted, phaseOf, Working, Lifecycle!Grant, Lifecycle!Pending
<1>2. \A s \in RunId \ {r} : Lifecycle!Step(s)
  BY WalkIsStep DEF Granted
<1>3. token \in issued' \ issued /\ issued' = issued \union {token}
  BY DEF Granted
<1> QED
  BY <1>1, <1>2, <1>3 DEF Lifecycle!LifecycleNext

LEMMA NextImplementsLifecycle ==
  ASSUME SweepsAlone, LifeInv, [Next]_vars
  PROVE  LifeInv' /\ [Lifecycle!LifecycleNext]_(Lifecycle!lifecycleVars)
<1>1. CASE Lives
  BY <1>1, WalkIsStep DEF Lives, Lifecycle!LifecycleNext
<1> QED
  BY <1>1, NextLives, GrantIsNext

LEMMA InitImplementsLifecycle == Init => Lifecycle!LifecycleInit
<1> SUFFICES ASSUME Init PROVE Lifecycle!LifecycleInit
  OBVIOUS
<1>1. \A r \in RunId, j \in JobId : ~(j \in JobsOf(r) /\ job[j].state = "running")
  BY DEF Init, NoJobRow
<1>2. ASSUME NEW r \in RunId PROVE Held(job, r) = {}
  <2>1. \A j \in JobId : ~RunsNow(job, j, r)
    BY <1>1 DEF RunsNow, JobsOf
  <2> QED
    BY <2>1, NoTokens
<1>3. heldOf = [r \in RunId |-> heldOf[r]]
  BY DEF heldOf
<1>4. heldOf = [r \in RunId |-> {}]
  BY <1>2, <1>3, HeldIs
<1> QED
  BY <1>4 DEF Init, phaseOf, Lifecycle!LifecycleInit

\* LifeInv holds of every reachable state, if retention sweeps are alone: a run
\* has at most one job queued or running, and a transaction that is to move a
\* run holds or waits for its lock, and knows which of its jobs are active.
THEOREM LifeInvCorrect ==
  ASSUME SweepsAlone
  PROVE  Spec => []LifeInv
<1>1. Init => LifeInv
  BY InitLives
<1>2. LifeInv /\ [Next]_vars => LifeInv'
  BY NextImplementsLifecycle
<1> QED
  BY <1>1, <1>2, PTL DEF Spec

\* ImplementsLifecycle, if retention sweeps are alone: whatever claims, reports,
\* cancels, resumes and retries overlap, wait for each other or are rolled back,
\* every step moves the runs as RunLifecycle allows.  (Among other transactions a
\* sweep expires a run that was canceled after the sweep had found it.)
THEOREM TransactionsImplementLifecycle ==
  ASSUME SweepsAlone
  PROVE  Spec => ImplementsLifecycle
<1>1. Init => Lifecycle!LifecycleInit
  BY InitImplementsLifecycle
<1>2. LifeInv /\ [Next]_vars => [Lifecycle!LifecycleNext]_(Lifecycle!lifecycleVars)
  BY NextImplementsLifecycle
<1> QED
  BY <1>1, <1>2, LifeInvCorrect, PTL DEF Spec, ImplementsLifecycle, Lifecycle!LifecycleSpec
-----------------------------------------------------------------------------
(* Who waits for whom.                                                     *)

RunLocksOf(locks, rowOf, J) == \A y \in locks : \E j \in J : y = RunLock(rowOf[j].run)
JobLocksIn(locks, J) == \A j \in JobId : JobLock(j) \in locks => j \in J

\* A claim that waits for a job has the runs of its lost jobs locked.
ClaimWaits(x, held, rowOf) ==
  /\ \A r \in RunId : RunLock(r) \in held => \E j \in x.jobs : rowOf[j].run = r
  /\ x.at = "lapsed" =>
       /\ RunLocksOf(x.want, rowOf, x.jobs)
       /\ JobLocksIn(held, x.jobs)
       /\ \A r \in RunId : RunLock(r) \notin held
  /\ x.at = "jobs" =>
       /\ \A y \in x.want : \E j \in JobId : y = JobLock(j) /\ rowOf[j].state # "absent"
       /\ JobLocksIn(held, x.jobs)
  /\ x.at = "count" => x.want = {}
  /\ x.at = "limit" => \A r \in RunId : RunLock(r) \notin x.want
  /\ x.at = "grant" => RunLocksOf(x.want, rowOf, {x.job})

\* What a transaction has locked and what it still waits for.
Waits(x, held, rowOf) ==
  /\ x.want \intersect held = {}
  /\ x.op = "none" => x.want = {}
  /\ x.op = "claim" => ClaimWaits(x, held, rowOf)
  /\ x.op \in {"complete", "cancelJob"} =>
       RunLocksOf(x.want, rowOf, {x.job}) /\ \A y \in held : y = JobLock(x.job)
  /\ x.op = "resume" => /\ \A y \in x.want : y = RunLock(x.run)
                        /\ \A y \in held : y = TaskLock(x.run)

\* Claim x waits for a job of a run whose lost job claim y has locked: y began
\* after x had selected the jobs it waits for.
Follows(x, y, rowOf) ==
  /\ x.op = "claim" /\ x.at = "jobs" /\ y.op = "claim"
  /\ \E k \in JobId, j \in y.jobs : JobLock(k) \in x.want /\ rowOf[k].run = rowOf[j].run
NoCircle ==
  \A C \in SUBSET TxnId : C # {} => \E t \in C : \A u \in C : ~Follows(txn[t], txn[u], job)

WaitInv ==
  /\ LifeInv
  /\ \A t \in TxnId : Waits(txn[t], HeldBy(holder, t), job)
  /\ NoCircle

-----------------------------------------------------------------------------
(* The jobs of a run stay its jobs.                                        *)

KeepsRows ==
  \A j \in JobId : job[j].state # "absent" =>
                     job'[j].state # "absent" /\ job'[j].run = job[j].run

LEMMA InsertsKeeps ==
  ASSUME TypeOK, NEW r, Inserts(r)
  PROVE  KeepsRows
<1>1. PICK j \in JobId : job[j].state = "absent" /\ job' = [job EXCEPT ![j] = NewJob(r)]
  BY DEF Inserts, FreshJob
<1>2. \A i \in JobId \ {j} : job'[i] = job[i]
  BY <1>1 DEF TypeOK
<1> QED
  BY <1>1, <1>2 DEF KeepsRows

LEMMA OneRowKeeps ==
  ASSUME TypeOK, NEW j \in JobId, NEW row, OneRow(j, row),
         row.state # "absent", row.run = job[j].run
  PROVE  KeepsRows
<1>1. job'[j] = row /\ \A i \in JobId \ {j} : job'[i] = job[i]
  BY DEF OneRow, TypeOK
<1> QED
  BY <1>1 DEF KeepsRows

LEMMA LeaseKeeps ==
  ASSUME TypeOK, NEW j \in JobId, NEW lease \in {"none", "live", "lapsed"},
         job[j].state # "absent", job' = [job EXCEPT ![j].lease = lease]
  PROVE  KeepsRows
<1>1. PICK row : row = [job[j] EXCEPT !.lease = lease]
  OBVIOUS
<1>2. row.state = job[j].state /\ row.run = job[j].run
  BY <1>1, LeaseRow
<1>3. OneRow(j, row)
  BY <1>1 DEF OneRow
<1> QED
  BY <1>2, <1>3, OneRowKeeps

LEMMA CompleteKeeps ==
  ASSUME LocksInv, NEW t \in TxnId, CompleteRun(t)
  PROVE  KeepsRows
<1>1. PICK j, o : j = txn[t].job /\ o = txn[t].outcome
  OBVIOUS
<1>2. TypeOK /\ j \in JobId
  BY <1>1, CommitFacts DEF CompleteRun, Executes
<1>3. \/ OneRow(j, CanceledJob(j))
      \/ OneRow(j, CompletedJob(j, IF o = "FAILED" THEN "failed" ELSE "succeeded"))
  BY <1>1 DEF CompleteRun, OneRow
<1>4. PICK row : OneRow(j, row) /\ row.state # "absent" /\ row.run = job[j].run
  BY <1>2, <1>3, CanceledRow, CompletedRow
<1> QED
  BY <1>2, <1>4, OneRowKeeps

LEMMA CancelJobKeeps ==
  ASSUME LocksInv, NEW t \in TxnId, CancelJob(t)
  PROVE  KeepsRows
<1>1. PICK j : j = txn[t].job
  OBVIOUS
<1>2. TypeOK /\ j \in JobId /\ job[j] \in JobRow /\ job[j].state # "absent"
  BY <1>1, CommitFacts DEF CancelJob, Executes, TypeOK
<1>3. \/ UNCHANGED job
      \/ job' = [job EXCEPT ![j].canceled = TRUE]
      \/ OneRow(j, CanceledJob(j))
  BY <1>1 DEF CancelJob, OneRow
<1>4. CASE job' = [job EXCEPT ![j].canceled = TRUE]
  <2>1. PICK row : row = [job[j] EXCEPT !.canceled = TRUE]
    OBVIOUS
  <2>2. row.state = job[j].state /\ row.run = job[j].run
    BY <1>2, <2>1 DEF JobRow
  <2>3. OneRow(j, row)
    BY <1>4, <2>1 DEF OneRow
  <2> QED
    BY <1>2, <2>2, <2>3, OneRowKeeps
<1>5. CASE OneRow(j, CanceledJob(j))
  <2>1. PICK row : OneRow(j, row) /\ row.state # "absent" /\ row.run = job[j].run
    BY <1>2, <1>5, CanceledRow
  <2> QED
    BY <1>2, <2>1, OneRowKeeps
<1> QED
  BY <1>3, <1>4, <1>5 DEF KeepsRows

LEMMA GrantKeeps ==
  ASSUME LifeInv, NEW t \in TxnId, ClaimGrant(t)
  PROVE  KeepsRows
<1>1. PICK i, w, J, B, R : Starts(i, w, J, B, R)
  BY GrantStarts
<1>2. i \in JobId
  BY <1>1 DEF Starts
<1>3. job'[i].state # "absent" /\ job'[i].run = job[i].run
  BY <1>1 DEF Starts
<1>4. ASSUME NEW j \in JobId \ {i}, job[j].state # "absent"
      PROVE  job'[j].state # "absent" /\ job'[j].run = job[j].run
  BY <1>1, <1>4 DEF Starts
<1> QED
  BY <1>2, <1>3, <1>4 DEF KeepsRows

LEMMA RowsStay ==
  ASSUME LifeInv, [Next]_vars
  PROVE  KeepsRows \/ \E t \in TxnId : PruneSettledJobs(t)
<1>1. LocksInv /\ TypeOK
  BY DEF LifeInv, LocksInv
<1>2. ASSUME UNCHANGED job PROVE KeepsRows
  BY <1>2 DEF KeepsRows
<1>3. CASE \E r \in RunId, j \in JobId : CreateRunAndEnqueue(r, j)
  BY <1>1, <1>3, InsertsKeeps DEF CreateRunAndEnqueue, Inserts
<1>4. CASE \E r \in RunId : RetryRun(r)
  BY <1>1, <1>4, InsertsKeeps DEF RetryRun
<1>5. CASE \E l \in issued : HeartbeatJob(l)
  <2>1. PICK l \in issued : HeartbeatJob(l)
    BY <1>5
  <2>2. PICK j \in JobId : j = l.job
    BY <1>1, IssuedTyped
  <2>3. job' = [job EXCEPT ![j].lease = "live"] /\ job[j].state # "absent"
    BY <2>1, <2>2 DEF HeartbeatJob, Owned
  <2> QED
    BY <1>1, <2>3, LeaseKeeps
<1>6. CASE \E j \in JobId : Lapse(j)
  BY <1>1, <1>6, LeaseKeeps DEF Lapse
<1>7. ASSUME NEW t \in TxnId, Start(t) \/ Proceed(t) \/ Disconnect(t) \/ Victim(t)
      PROVE  KeepsRows \/ PruneSettledJobs(t)
  <2>1. CASE CompleteRun(t) \/ CancelJob(t) \/ ClaimGrant(t)
    BY <1>1, <2>1, CompleteKeeps, CancelJobKeeps, GrantKeeps
  <2>2. CASE CancelRun(t) \/ ExpireStuckJobs(t)
    <3>1. \A j \in JobId : /\ j \notin txn[t].jobs => job'[j] = job[j]
                           /\ j \in txn[t].jobs => job'[j].state = "failed" /\ job'[j].run = job[j].run
      BY <1>1, <2>2, CancelRunRows, ExpireRows
    <3> QED
      BY <3>1 DEF KeepsRows
  <2>3. CASE ResumeHumanTask(t)
    <3>1. UNCHANGED rows \/ Inserts(txn[t].run)
      BY <2>3 DEF ResumeHumanTask, Rollback
    <3> QED
      BY <1>1, <1>2, <3>1, InsertsKeeps DEF rows
  <2>4. CASE Start(t)
    <3>1. \E m, taken, at, locks : Begin(t, m, taken, at, locks)
      <4>1. ASSUME NEW w \in WorkerId, ClaimLost(t, w)
            PROVE  \E m, taken, at, locks : Begin(t, m, taken, at, locks)
        BY <4>1 DEF ClaimLost
      <4>2. ASSUME NEW l, NEW o, CompleteLeased(t, l, o)
            PROVE  \E m, taken, at, locks : Begin(t, m, taken, at, locks)
        BY <4>2 DEF CompleteLeased
      <4>3. ASSUME NEW x, CancelJobLocked(t, x) \/ CancelRunJobs(t, x) \/ ResumeTask(t, x)
            PROVE  \E m, taken, at, locks : Begin(t, m, taken, at, locks)
        BY <4>3 DEF CancelJobLocked, CancelRunJobs, ResumeTask
      <4>4. CASE ExpireFound(t) \/ PruneFound(t)
        BY <4>4 DEF ExpireFound, PruneFound
      <4> QED
        BY <2>4, <4>1, <4>2, <4>3, <4>4 DEF Start
    <3> QED
      BY <1>2, <3>1 DEF Begin, rows
  <2>5. CASE PlainStatement(t) \/ Disconnect(t) \/ Victim(t)
    <3>1. UNCHANGED rows \/ \E m, at, locks : GoOn(t, m, at, locks)
      BY <2>5 DEF PlainStatement, Disconnect, Victim, Rollback,
         CancelRunTask, ExpireSelect, ExpireJobs, PruneSelect, PruneJobs, PruneTasks
    <3> QED
      BY <1>2, <3>1 DEF GoOn, rows
  <2>6. CASE ClaimLapsed(t) \/ ClaimPick(t) \/ ClaimCount(t) \/ ClaimLimit(t)
    BY <1>2, <2>6 DEF ClaimLapsed, ClaimPick, ClaimCount, ClaimLimit, Rollback, GoOn, rows
  <2> QED
    BY <1>7, <2>1, <2>2, <2>3, <2>4, <2>5, <2>6 DEF Proceed, Claim, PlainStatement
<1>8. CASE RequeueQueuedJobsForApp \/ \E r \in RunId : GrowsOld(r)
  BY <1>2, <1>8 DEF RequeueQueuedJobsForApp, GrowsOld
<1> QED
  BY <1>2, <1>3, <1>4, <1>5, <1>6, <1>7, <1>8 DEF Next, vars
-----------------------------------------------------------------------------
(* What a transaction waits for, after each of its statements.             *)

LEMMA OthersWait ==
  ASSUME LocksInv, NEW u \in TxnId, Spared(u), KeepsRows,
         Waits(txn[u], HeldBy(holder, u), job)
  PROVE  Waits(txn'[u], HeldBy(holder', u), job')
<1>1. PICK x \in Txn : x = txn[u]
  BY TxnTyped DEF LocksInv
<1>2. PICK held : held = HeldBy(holder, u)
  OBVIOUS
<1>3. txn'[u] = x /\ HeldBy(holder', u) = held /\ Waits(x, held, job) /\ TxnOK(u, x, job, holder)
  BY <1>1, <1>2 DEF Spared, LocksInv
<1>4. \A j \in Mine(x) : job'[j].run = job[j].run
  BY <1>3 DEF KeepsRows, TxnOK, Mine
<1>5. x.jobs \subseteq Mine(x) /\ (x.job \in JobId => x.job \in Mine(x)) /\ x.pool \subseteq JobId
  BY <1>1 DEF Mine, Txn
<1>6. CASE x.op = "claim"
  <2>1. x.at = "grant" => x.job \in Mine(x)
    BY <1>3, <1>5, <1>6 DEF TxnOK, ClaimKnows
  <2>2. ClaimWaits(x, held, job)
    BY <1>3, <1>6 DEF Waits
  <2>3. \A y \in x.want : x.at = "lapsed" => \E j \in x.jobs : y = RunLock(job'[j].run)
    BY <1>4, <1>5, <2>2 DEF ClaimWaits, RunLocksOf
  <2>4. x.at = "grant" => \A y \in x.want : y = RunLock(job'[x.job].run)
    BY <1>4, <2>1, <2>2 DEF ClaimWaits, RunLocksOf
  <2>5. \A y \in x.want : x.at = "jobs" =>
          \E j \in JobId : y = JobLock(j) /\ job'[j].state # "absent"
    BY <2>2 DEF ClaimWaits, KeepsRows
  <2>6. \A r \in RunId : RunLock(r) \in held => \E j \in x.jobs : job'[j].run = r
    BY <1>4, <1>5, <2>2 DEF ClaimWaits
  <2>7. ClaimWaits(x, held, job')
    BY <2>2, <2>3, <2>4, <2>5, <2>6 DEF ClaimWaits, RunLocksOf
  <2> QED
    BY <1>3, <1>6, <2>7 DEF Waits
<1>7. CASE x.op \in {"complete", "cancelJob"}
  <2>1. job'[x.job].run = job[x.job].run
    BY <1>3, <1>4, <1>5, <1>7 DEF TxnOK
  <2> QED
    BY <1>3, <1>7, <2>1 DEF Waits, RunLocksOf
<1>8. CASE x.op \notin {"claim", "complete", "cancelJob"}
  BY <1>3, <1>8 DEF Waits
<1> QED
  BY <1>6, <1>7, <1>8

LEMMA IdleWaits ==
  ASSUME NEW rowOf
  PROVE  Waits(NoTxn, {}, rowOf)
BY NoTxnTyped DEF Waits

\* t waits for nobody it follows.
WaitsWell(t) ==
  /\ Waits(txn'[t], HeldBy(holder', t), job')
  /\ \A u \in TxnId : ~Follows(txn'[t], txn'[u], job')

LEMMA EndsWell ==
  ASSUME LocksInv, NEW t \in TxnId, End(t)
  PROVE  WaitsWell(t)
<1>1. txn'[t] = NoTxn /\ HeldBy(holder', t) = {}
  BY EndMoves DEF LocksInv
<1> QED
  BY <1>1, IdleWaits, NoTxnTyped DEF WaitsWell, Follows

LEMMA BegunWell ==
  ASSUME LocksInv, NEW t \in TxnId, NEW m \in Txn, NEW taken \in SUBSET Lock,
         NEW at \in Statement \ {"jobs"}, NEW locks \in SUBSET Lock,
         Begin(t, m, taken, at, locks),
         \A x : /\ x.op = m.op /\ x.at = at /\ x.run = m.run /\ x.job = m.job
                /\ x.jobs = m.jobs /\ x.want = locks \ taken
                => Waits(x, taken, job)
  PROVE  WaitsWell(t)
<1>1. /\ UNCHANGED rows /\ MovedTo(txn'[t], m, at, locks \ taken)
      /\ HeldBy(holder', t) = taken
  <2>1. TypeOK /\ HeldBy(holder, t) = {}
    BY DEF LocksInv, TxnOK, Begin, Busy
  <2> QED
    BY <2>1, BeginMoves
<1>2. PICK x : x = txn'[t]
  OBVIOUS
<1>3. /\ x.op = m.op /\ x.at = at /\ x.run = m.run /\ x.job = m.job
      /\ x.jobs = m.jobs /\ x.want = locks \ taken
  BY <1>1, <1>2, MovedFields
<1>4. Waits(x, taken, job) /\ job' = job
  BY <1>1, <1>3 DEF rows
<1> QED
  BY <1>1, <1>2, <1>3, <1>4 DEF WaitsWell, Follows

\* Of a transaction that is no claim only its own locks matter.
LEMMA OtherBegunWell ==
  ASSUME LocksInv, NEW t \in TxnId, NEW m \in Txn, NEW taken \in SUBSET Lock,
         NEW at \in Statement, NEW locks \in SUBSET Lock, Begin(t, m, taken, at, locks),
         m.op \in {"cancelRun", "expire", "prune"}
  PROVE  WaitsWell(t)
<1>1. /\ UNCHANGED rows /\ MovedTo(txn'[t], m, at, locks \ taken)
      /\ HeldBy(holder', t) = taken
  <2>1. TypeOK /\ HeldBy(holder, t) = {}
    BY DEF LocksInv, TxnOK, Begin, Busy
  <2> QED
    BY <2>1, BeginMoves
<1>2. txn'[t].op = m.op /\ txn'[t].want = locks \ taken
  BY <1>1, MovedFields
<1> QED
  BY <1>1, <1>2 DEF WaitsWell, Waits, Follows

LEMMA StartsWell ==
  ASSUME LocksInv, NEW t \in TxnId, Start(t)
  PROVE  WaitsWell(t)
<1>1. /\ TypeOK /\ HaveRuns(job)
      /\ "lapsed" \in Statement \ {"jobs"} /\ "run" \in Statement \ {"jobs"}
      /\ "first" \in Statement /\ "jobs" \in Statement
  BY DEF LocksInv, Statement
<1>2. ASSUME NEW w \in WorkerId, ClaimLost(t, w) PROVE WaitsWell(t)
  <2>l. PICK lost \in SUBSET JobId : lost = {j \in JobId : Lapsed(j) /\ job[j].canceled}
    OBVIOUS
  <2>r. PICK R : R = {job[j].run : j \in lost}
    OBVIOUS
  <2>m. PICK m : m = ClaimTxn(w, lost)
    OBVIOUS
  <2>k. PICK taken, locks : taken = JobLocks(lost) /\ locks = RunLocks(R)
    OBVIOUS
  <2>1. Begin(t, m, taken, "lapsed", locks)
    BY <1>2, <2>l, <2>r, <2>m, <2>k DEF ClaimLost, ClaimTxn
  <2>2. m \in Txn /\ m.op = "claim" /\ m.jobs = lost
    BY <2>m, NewTxns DEF NewTxn
  <2>3. R \subseteq RunId
    BY <1>1, <2>l, <2>r DEF HaveRuns, Lapsed
  <2>4. taken \in SUBSET Lock /\ locks \in SUBSET Lock
    BY <2>3, <2>k, LockSets
  <2>5. RunLocksOf(locks, job, lost) /\ JobLocksIn(taken, lost)
        /\ \A r : RunLock(r) \notin taken
    BY <2>k, <2>r, LockSets, LockNames DEF RunLocksOf, JobLocksIn
  <2>6. ASSUME NEW x, x.op = m.op, x.at = "lapsed", x.jobs = m.jobs, x.want = locks \ taken
        PROVE  Waits(x, taken, job)
    <3>1. RunLocksOf(x.want, job, x.jobs)
      BY <2>2, <2>5, <2>6 DEF RunLocksOf
    <3>2. ClaimWaits(x, taken, job)
      BY <2>2, <2>5, <2>6, <3>1 DEF ClaimWaits
    <3> QED
      BY <2>2, <2>6, <3>2 DEF Waits
  <2> QED
    BY <1>1, <2>1, <2>2, <2>4, <2>6, BegunWell
<1>3. ASSUME NEW m \in Txn, m.op \in {"complete", "cancelJob"}, NEW j \in JobId, m.job = j,
             job[j].state # "absent",
             Begin(t, m, JobLocks({j}), "run", RunLocks({job[j].run}))
      PROVE  WaitsWell(t)
  <2>k. PICK taken, locks : taken = JobLocks({j}) /\ locks = RunLocks({job[j].run})
    OBVIOUS
  <2>1. Begin(t, m, taken, "run", locks)
    BY <1>3, <2>k
  <2>2. job[j].run \in RunId
    BY <1>1, <1>3 DEF HaveRuns
  <2>3. /\ taken \in SUBSET Lock /\ locks \in SUBSET Lock
        /\ \A y \in taken : y = JobLock(j)
        /\ \A y \in locks : y = RunLock(job[j].run)
    BY <2>2, <2>k, LockSets
  <2>4. ASSUME NEW x, x.op = m.op, x.job = m.job, x.want = locks \ taken
        PROVE  Waits(x, taken, job)
    BY <1>3, <2>3, <2>4 DEF Waits, RunLocksOf
  <2> QED
    BY <1>1, <2>1, <2>3, <2>4, BegunWell
<1>4. ASSUME NEW l \in issued, NEW o \in Outcome, CompleteLeased(t, l, o) PROVE WaitsWell(t)
  <2>1. PICK j \in JobId : j = l.job
    BY <1>1, IssuedTyped
  <2>m. PICK m : m = CompleteTxn(j, o)
    OBVIOUS
  <2>2. m \in Txn /\ m.op = "complete" /\ m.job = j
    BY <2>m, NewTxns DEF NewTxn
  <2>3. Begin(t, m, JobLocks({j}), "run", RunLocks({job[j].run})) /\ job[j].state # "absent"
    BY <1>4, <2>1, <2>m DEF CompleteLeased, ValidLease, Owned, CompleteTxn
  <2> QED
    BY <1>3, <2>2, <2>3
<1>5. ASSUME NEW j \in JobId, CancelJobLocked(t, j) PROVE WaitsWell(t)
  <2>m. PICK m : m = CancelJobTxn(j)
    OBVIOUS
  <2>1. m \in Txn /\ m.op = "cancelJob" /\ m.job = j
    BY <2>m, NewTxns DEF NewTxn
  <2>2. Begin(t, m, JobLocks({j}), "run", RunLocks({job[j].run})) /\ job[j].state # "absent"
    BY <1>5, <2>m DEF CancelJobLocked, CancelJobTxn
  <2> QED
    BY <1>3, <2>1, <2>2
<1>6. ASSUME NEW r \in RunId, CancelRunJobs(t, r) PROVE WaitsWell(t)
  <2>m. PICK m : m = RunTxn("cancelRun", r)
    OBVIOUS
  <2>j. PICK J \in SUBSET JobId : J = {j \in JobsOf(r) : Active(j)}
    BY DEF JobsOf
  <2>k. PICK taken, locks : taken = RunLocks({r}) /\ locks = JobLocks(J)
    OBVIOUS
  <2>1. Begin(t, m, taken, "jobs", locks)
    BY <1>6, <2>m, <2>j, <2>k DEF CancelRunJobs, RunTxn
  <2>2. m \in Txn /\ m.op = "cancelRun"
    BY <2>m, NewTxns DEF NewTxn
  <2>3. taken \in SUBSET Lock /\ locks \in SUBSET Lock
    BY <2>k, LockSets
  <2> QED
    BY <1>1, <2>1, <2>2, <2>3, OtherBegunWell
<1>7. ASSUME NEW r \in RunId, ResumeTask(t, r) PROVE WaitsWell(t)
  <2>m. PICK m : m = RunTxn("resume", r)
    OBVIOUS
  <2>k. PICK taken, locks : taken = TaskLocks({r}) /\ locks = RunLocks({r})
    OBVIOUS
  <2>1. Begin(t, m, taken, "run", locks)
    BY <1>7, <2>m, <2>k DEF ResumeTask, RunTxn
  <2>2. m \in Txn /\ m.op = "resume" /\ m.run = r
    BY <2>m, NewTxns DEF NewTxn
  <2>3. /\ taken \in SUBSET Lock /\ locks \in SUBSET Lock
        /\ \A y \in taken : y = TaskLock(r)
        /\ \A y \in locks : y = RunLock(r)
    BY <2>k, LockSets
  <2>4. ASSUME NEW x, x.op = m.op, x.run = m.run, x.want = locks \ taken
        PROVE  Waits(x, taken, job)
    BY <2>2, <2>3, <2>4 DEF Waits
  <2> QED
    BY <1>1, <2>1, <2>2, <2>3, <2>4, BegunWell
<1>8. CASE ExpireFound(t) \/ PruneFound(t)
  <2>1. PICK op \in Sweep, R \in SUBSET RunId : Begin(t, SweepTxn(op, R), {}, "first", {})
    <3>1. {r \in RunId : Stuck(r)} \in SUBSET RunId /\ {r \in RunId : Prunable(r)} \in SUBSET RunId
      OBVIOUS
    <3>2. "expire" \in Sweep /\ "prune" \in Sweep
      BY DEF Sweep
    <3> QED
      BY <1>8, <3>1, <3>2 DEF ExpireFound, PruneFound, SweepTxn
  <2>m. PICK m : m = SweepTxn(op, R)
    OBVIOUS
  <2>2. m \in Txn /\ m.op \in {"expire", "prune"}
    BY <2>m, NewTxns DEF NewTxn, Sweep
  <2> QED
    BY <1>1, <2>1, <2>m, <2>2, OtherBegunWell
<1> QED
  BY <1>2, <1>4, <1>5, <1>6, <1>7, <1>8 DEF Start
LEMMA WentOn ==
  ASSUME LocksInv, NEW t \in TxnId, NEW m \in Txn, NEW at \in Statement,
         NEW locks \in SUBSET Lock, Free(txn[t].want),
         \A j \in m.pool : holder[JobLock(j)] = Nobody \/ j \in LockedJobs(t),
         GoOn(t, m, at, locks), NEW x, x = txn'[t]
  PROVE  /\ job' = job /\ OnlyMoves(t)
         /\ x.op = m.op /\ x.at = at /\ x.run = m.run /\ x.job = m.job
         /\ x.jobs = m.jobs /\ x.want = locks \ Locked(t)
         /\ HeldBy(holder', t) = Locked(t) \union JobLocks(m.pool)
<1>1. /\ UNCHANGED rows /\ MovedTo(x, m, at, locks \ Locked(t)) /\ OnlyMoves(t)
      /\ HeldBy(holder', t) = Locked(t) \union JobLocks(m.pool)
  BY GoOnMoves DEF LocksInv
<1> QED
  BY <1>1, MovedFields DEF rows

LEMMA PlainWell ==
  ASSUME LifeInv, NEW t \in TxnId, PlainStatement(t)
  PROVE  WaitsWell(t)
<1>1. /\ LocksInv /\ TypeOK /\ txn[t].found \subseteq RunId /\ txn[t] \in Txn
      /\ "jobs" \in Statement /\ "run" \in Statement /\ "task" \in Statement
      /\ JobLocks(txn[t].pool) \subseteq Locked(t) /\ txn[t].pool \subseteq JobId
  BY TxnTyped, KnowsNow DEF LifeInv, LocksInv, Statement
<1>2. \A j \in txn[t].pool : j \in LockedJobs(t)
  BY <1>1, LockSets, LockedJobsOf
<1>3. ASSUME txn[t].op \in {"cancelRun", "expire", "prune"}, Free(txn[t].want),
             NEW at \in Statement, NEW locks \in SUBSET Lock, NEW m \in Txn,
             m.op = txn[t].op, m.pool = txn[t].pool, GoOn(t, m, at, locks)
      PROVE  WaitsWell(t)
  <2>1. PICK x : x = txn'[t]
    OBVIOUS
  <2>2. /\ x.op = m.op /\ x.want = locks \ Locked(t)
        /\ HeldBy(holder', t) = Locked(t) \union JobLocks(m.pool)
    BY <1>1, <1>2, <1>3, <2>1, WentOn
  <2>3. x.want \intersect HeldBy(holder', t) = {}
    BY <1>1, <1>3, <2>2
  <2>4. Waits(x, HeldBy(holder', t), job')
    BY <1>3, <2>2, <2>3 DEF Waits
  <2> QED
    BY <1>3, <2>1, <2>2, <2>4 DEF WaitsWell, Follows
<1>4. \A J \in SUBSET JobId :
        LET m == PickedTxn(txn[t], J) IN m \in Txn /\ m.op = txn[t].op /\ m.pool = txn[t].pool
  BY <1>1, Picked
<1>5. LockedJobs(t) \subseteq JobId
  BY DEF LockedJobs
<1>6. CASE CancelRunTask(t)
  <2>1. PICK J \in SUBSET JobId : J = {j \in LockedJobs(t) : Active(j)}
    BY <1>5
  <2>2. PICK locks : locks = IF task[txn[t].run] = "pending" THEN TaskLocks({txn[t].run}) ELSE {}
    OBVIOUS
  <2>3. GoOn(t, PickedTxn(txn[t], J), "task", locks)
        /\ txn[t].op = "cancelRun" /\ Free(txn[t].want)
    BY <1>6, <2>1, <2>2 DEF CancelRunTask, Executes, PickedTxn
  <2>4. txn[t].run \in RunId
    BY <1>1, <2>3, CommitFacts
  <2>5. locks \in SUBSET Lock
    BY <2>2, <2>4, LockSets
  <2> QED
    BY <1>1, <1>3, <1>4, <2>3, <2>5
<1>7. CASE ExpireJobs(t)
  <2>1. PICK J \in SUBSET JobId : J = {j \in LockedJobs(t) : Active(j)}
    BY <1>5
  <2>2. PICK locks : locks = RunLocks({r \in txn[t].found : run[r] # "ABSENT"})
    OBVIOUS
  <2>3. GoOn(t, PickedTxn(txn[t], J), "run", locks)
        /\ txn[t].op = "expire" /\ Free(txn[t].want)
    BY <1>7, <2>1, <2>2 DEF ExpireJobs, Executes, PickedTxn
  <2>4. locks \in SUBSET Lock
    BY <1>1, <2>2, LockSets
  <2> QED
    BY <1>1, <1>3, <1>4, <2>3, <2>4
<1>8. CASE PruneJobs(t)
  <2>1. PICK J \in SUBSET JobId : J = {j \in LockedJobs(t) : job[j].run \in txn[t].found}
    BY <1>5
  <2>2. PICK locks : locks = TaskLocks({r \in txn[t].found : task[r] # "none"})
    OBVIOUS
  <2>3. GoOn(t, PickedTxn(txn[t], J), "task", locks)
        /\ txn[t].op = "prune" /\ Free(txn[t].want)
    BY <1>8, <2>1, <2>2 DEF PruneJobs, Executes, PickedTxn
  <2>4. locks \in SUBSET Lock
    BY <1>1, <2>2, LockSets
  <2> QED
    BY <1>1, <1>3, <1>4, <2>3, <2>4
<1>9. CASE ExpireSelect(t) \/ PruneSelect(t) \/ PruneTasks(t)
  <2>1. PICK at \in Statement, locks \in SUBSET Lock : GoOn(t, txn[t], at, locks)
    BY <1>1, <1>9, LockSets DEF ExpireSelect, PruneSelect, PruneTasks
  <2>2. txn[t].op \in {"expire", "prune"} /\ Free(txn[t].want)
    BY <1>9 DEF ExpireSelect, PruneSelect, PruneTasks, Executes
  <2> QED
    BY <1>1, <1>3, <2>1, <2>2
<1> QED
  BY <1>6, <1>7, <1>8, <1>9 DEF PlainStatement

\* The runs a claim has locked, once it has what it waits for.
LEMMA ClaimedRuns ==
  ASSUME LifeInv, NEW t \in TxnId, Waits(txn[t], HeldBy(holder, t), job),
         txn[t].op = "claim", txn[t].at # "grant", NEW r \in RunId, RunLock(r) \in Locked(t)
  PROVE  \E j \in txn[t].jobs : job[j].run = r
<1>1. PICK x, held : x = txn[t] /\ held = HeldBy(holder, t)
  OBVIOUS
<1>2. /\ ClaimWaits(x, held, job) /\ RunLock(r) \in held \union x.want
      /\ x.at \in {"lapsed", "jobs", "count", "limit", "grant"} /\ x.at # "grant"
  BY <1>1, KnowsNow, ClaimFacts DEF Waits, LifeInv, ClaimKnows
<1>3. CASE RunLock(r) \in held
  BY <1>1, <1>2, <1>3 DEF ClaimWaits
<1>4. CASE RunLock(r) \in x.want
  <2>1. x.at \notin {"jobs", "count", "limit"}
    BY <1>2, <1>4, LockNames DEF ClaimWaits
  <2>2. PICK j \in x.jobs : RunLock(r) = RunLock(job[j].run)
    BY <1>2, <1>4, <2>1 DEF ClaimWaits, RunLocksOf
  <2> QED
    BY <1>1, <2>2, LockNames
<1> QED
  BY <1>2, <1>3, <1>4

LEMMA ClaimLapsedWell ==
  ASSUME LifeInv, NEW t \in TxnId, Waits(txn[t], HeldBy(holder, t), job), ClaimLapsed(t)
  PROVE  WaitsWell(t)
<1>1. PICK x, m, L : x = txn'[t] /\ m = txn[t] /\ L = Locked(t)
  OBVIOUS
<1>2. PICK J \in SUBSET JobId : J = {j \in JobId : Lapsed(j) /\ ~job[j].canceled}
  OBVIOUS
<1>3. PICK locks : locks = JobLocks(J)
  OBVIOUS
<1>4. GoOn(t, m, "jobs", locks) /\ m.op = "claim" /\ m.at = "lapsed" /\ Free(txn[t].want)
  BY <1>1, <1>2, <1>3 DEF ClaimLapsed, Executes
<1>5. /\ LocksInv /\ m \in Txn /\ locks \in SUBSET Lock /\ "jobs" \in Statement
      /\ HeldBy(holder, t) \union m.want = L
      /\ JobLocks(m.pool) \subseteq L /\ m.pool \subseteq JobId
  BY <1>1, <1>3, LockSets, KnowsNow, TxnTyped DEF LifeInv, LocksInv, Statement
<1>6. \A j \in m.pool : j \in LockedJobs(t)
  BY <1>1, <1>5, LockSets, LockedJobsOf
<1>7. /\ job' = job /\ OnlyMoves(t)
      /\ x.op = "claim" /\ x.at = "jobs" /\ x.jobs = m.jobs /\ x.want = locks \ L
      /\ HeldBy(holder', t) = L
  <2>1. /\ job' = job /\ OnlyMoves(t)
        /\ x.op = m.op /\ x.at = "jobs" /\ x.jobs = m.jobs /\ x.want = locks \ Locked(t)
        /\ HeldBy(holder', t) = Locked(t) \union JobLocks(m.pool)
    BY <1>1, <1>4, <1>5, <1>6, WentOn
  <2> QED
    BY <1>1, <1>4, <1>5, <2>1
<1>8. JobLocksIn(L, m.jobs)
  <2>1. ClaimWaits(m, HeldBy(holder, t), job)
    BY <1>1, <1>4 DEF Waits
  <2>2. JobLocksIn(HeldBy(holder, t), m.jobs) /\ RunLocksOf(m.want, job, m.jobs)
    BY <1>4, <2>1 DEF ClaimWaits
  <2> QED
    BY <1>5, <2>2, LockNames DEF JobLocksIn, RunLocksOf
<1>9. \A y \in x.want : \E j \in JobId : y = JobLock(j) /\ job[j].state # "absent"
  BY <1>2, <1>3, <1>7, LockSets DEF Lapsed
<1>10. \A r \in RunId : RunLock(r) \in L => \E j \in x.jobs : job[j].run = r
  BY <1>1, <1>4, <1>7, ClaimedRuns
<1>11. ClaimWaits(x, L, job)
  BY <1>7, <1>8, <1>9, <1>10 DEF ClaimWaits
<1>12. Waits(x, HeldBy(holder', t), job')
  BY <1>7, <1>11 DEF Waits
<1>13. ASSUME NEW u \in TxnId, Follows(x, txn'[u], job') PROVE FALSE
  <2>1. PICK k \in JobId, j \in txn'[u].jobs :
          txn'[u].op = "claim" /\ JobLock(k) \in x.want /\ job[k].run = job[j].run
    BY <1>7, <1>13 DEF Follows
  <2>2. k \in J
    BY <1>3, <1>7, <2>1, LockSets, LockNames
  <2>3. txn[u].op = "claim" /\ j \in txn[u].jobs
    BY <1>1, <1>4, <1>7, <2>1 DEF OnlyMoves
  <2>4. LapsedRow(job[j]) /\ job[j].canceled /\ j \in JobId
    BY <1>5, <2>3, ClaimFacts DEF ClaimKnows, Mine, Txn
  <2>5. k # j /\ ActiveRow(job[k]) /\ ActiveRow(job[j])
    BY <1>2, <2>2, <2>4 DEF Lapsed, LapsedRow, ActiveRow
  <2> QED
    BY <2>1, <2>4, <2>5 DEF LifeInv, RowsFit
<1> QED
  BY <1>1, <1>12, <1>13 DEF WaitsWell
LEMMA ClaimTriesWell ==
  ASSUME LifeInv, NEW t \in TxnId, Waits(txn[t], HeldBy(holder, t), job),
         ClaimPick(t) \/ ClaimCount(t) \/ ClaimLimit(t)
  PROVE  WaitsWell(t)
<1>1. PICK x, c, L : x = txn'[t] /\ c = txn[t] /\ L = Locked(t)
  OBVIOUS
<1>2. c.op = "claim" /\ c.at \in {"jobs", "count", "limit"} /\ Free(txn[t].want)
  BY <1>1 DEF ClaimPick, ClaimCount, ClaimLimit, Executes
<1>3. /\ LocksInv /\ HaveRuns(job) /\ c \in Txn /\ JobLocks(c.pool) \subseteq L
      /\ c.pool \subseteq JobId /\ c.jobs \subseteq JobId
      /\ "count" \in Statement /\ "limit" \in Statement /\ "grant" \in Statement
  BY <1>1, KnowsNow, TxnTyped DEF LifeInv, LocksInv, Statement
<1>4. \A j \in c.pool : j \in LockedJobs(t)
  BY <1>1, <1>3, LockSets, LockedJobsOf
<1>5. \A r \in RunId : RunLock(r) \in L => \E j \in c.jobs : job[j].run = r
  BY <1>1, <1>2, ClaimedRuns
<1>6. ASSUME NEW m, SameClaim(m, c),
             \A j \in m.pool : j \in JobId /\ (holder[JobLock(j)] = Nobody \/ j \in LockedJobs(t)),
             NEW at \in {"count", "limit", "grant"}, NEW locks \in SUBSET Lock,
             \A j \in m.pool : JobLock(j) \notin locks,
             at = "count" => locks = {},
             at = "limit" => \A r : RunLock(r) \notin locks,
             at = "grant" => RunLocksOf(locks, job, {m.job}),
             GoOn(t, m, at, locks)
      PROVE  WaitsWell(t)
  <2>1. m \in Txn /\ m.op = "claim" /\ m.jobs = c.jobs /\ at \in Statement
    BY <1>2, <1>3, <1>6 DEF SameClaim
  <2>2. /\ job' = job
        /\ x.op = m.op /\ x.at = at /\ x.jobs = m.jobs /\ x.job = m.job /\ x.want = locks \ L
        /\ HeldBy(holder', t) = L \union JobLocks(m.pool)
    BY <1>1, <1>2, <1>3, <1>6, <2>1, WentOn
  <2>3. PICK held : held = L \union JobLocks(m.pool)
    OBVIOUS
  <2>4. x.want \intersect held = {}
    BY <1>6, <2>2, <2>3, LockSets
  <2>5. \A r \in RunId : RunLock(r) \in held => RunLock(r) \in L
    BY <2>3, LockSets, LockNames
  <2>6. RunLocksOf(locks, job, {m.job}) => RunLocksOf(x.want, job, {x.job})
    BY <2>2 DEF RunLocksOf
  <2>7. ClaimWaits(x, held, job)
    BY <1>5, <1>6, <2>1, <2>2, <2>5, <2>6 DEF ClaimWaits
  <2>8. Waits(x, held, job)
    BY <2>1, <2>2, <2>4, <2>7 DEF Waits
  <2> QED
    BY <1>1, <1>6, <2>2, <2>3, <2>8 DEF WaitsWell, Follows
<1>c. ASSUME NEW m, SameClaim(m, c), GoOn(t, m, "count", {}),
             \A j \in m.pool : j \in JobId /\ (holder[JobLock(j)] = Nobody \/ j \in LockedJobs(t))
      PROVE  WaitsWell(t)
  <2>1. PICK locks \in SUBSET Lock : locks = {}
    OBVIOUS
  <2>2. PICK at \in {"count", "limit", "grant"} : at = "count"
    OBVIOUS
  <2>3. GoOn(t, m, at, locks)
    BY <1>c, <2>1, <2>2
  <2>4. \A y : y \notin locks
    BY <2>1
  <2> QED
    BY <1>6, <1>c, <2>1, <2>2, <2>3, <2>4
<1>7. CASE ClaimPick(t)
  <2>1. PICK back : back = {j \in LockedJobs(t) : Lapsed(j) /\ ~job[j].canceled}
    OBVIOUS
  <2>2. PICK pool : pool = Pick(t, back)
    OBVIOUS
  <2>3. PICK m : m = Found(c, back, pool)
    OBVIOUS
  <2>4. Rollback(t) \/ GoOn(t, m, "count", {})
    BY <1>1, <1>7, <2>1, <2>2, <2>3 DEF ClaimPick, Found
  <2>5. back \in SUBSET JobId /\ pool \in SUBSET JobId
    BY <2>1, <2>2 DEF LockedJobs, Pick
  <2>6. SameClaim(m, c) /\ m.pool = pool
    BY <1>3, <2>3, <2>5, FoundTxn
  <2>7. \A j \in m.pool : j \in JobId /\ (holder[JobLock(j)] = Nobody \/ j \in LockedJobs(t))
    BY <2>2, <2>6 DEF Pick, JobLock
  <2>8. CASE GoOn(t, m, "count", {})
    BY <1>c, <2>6, <2>7, <2>8
  <2> QED
    BY <1>3, <2>4, <2>8, EndsWell DEF Rollback
<1>8. CASE ClaimCount(t)
  <2>1. PICK j \in c.pool : GoOn(t, Tries(c, j), "limit", CountLocks(j))
    BY <1>1, <1>8 DEF ClaimCount, Tries
  <2>2. PICK m : m = Tries(c, j)
    OBVIOUS
  <2>3. PICK locks : locks = CountLocks(j)
    OBVIOUS
  <2>4. j \in JobId /\ SameClaim(m, c) /\ m.pool = c.pool
    BY <1>3, <2>1, <2>2, TriesTxn
  <2>5. job[j].state # "absent"
    BY <1>1, <1>2, <1>3, <2>1, ClaimFacts DEF Mine
  <2>6. PICK a \in App : a = AppOf[job[j].run]
    BY <1>3, <2>4, <2>5, ConstantAssumption DEF HaveRuns
  <2>7. locks \subseteq {AppLock(a)}
    BY <2>3, <2>6 DEF CountLocks
  <2>8. /\ locks \in SUBSET Lock /\ \A r : RunLock(r) \notin locks
        /\ \A i \in m.pool : JobLock(i) \notin locks
    BY <2>7, LockNames
  <2>9. GoOn(t, m, "limit", locks)
    BY <2>1, <2>2, <2>3
  <2>10. \A i \in m.pool : i \in JobId /\ i \in LockedJobs(t)
    BY <1>3, <1>4, <2>4
  <2> QED
    BY <1>6, <2>4, <2>8, <2>9, <2>10
<1>9. CASE ClaimLimit(t)
  <2>1. PICK j, P : j = c.job /\ P = c.pool \ {j}
    OBVIOUS
  <2>2. PICK m : m = Leaves(c, P)
    OBVIOUS
  <2>3. \/ GoOn(t, c, "grant", RunLocks({job[j].run}))
        \/ Rollback(t)
        \/ GoOn(t, m, "count", {})
    BY <1>1, <1>9, <2>1, <2>2 DEF ClaimLimit, Leaves
  <2>4. CASE GoOn(t, c, "grant", RunLocks({job[j].run}))
    <3>1. PICK locks : locks = RunLocks({job[j].run})
      OBVIOUS
    <3>2. c.at = "limit"
      BY <1>1, <1>9 DEF ClaimLimit, Executes
    <3>3. j \in c.pool
      BY <1>1, <1>2, <1>3, <2>1, <3>2, ClaimFacts DEF ClaimKnows
    <3>4. job[j].run \in RunId
      BY <1>1, <1>2, <1>3, <3>3, ClaimFacts DEF Mine, HaveRuns
    <3>5. /\ locks \in SUBSET Lock /\ RunLocksOf(locks, job, {c.job})
          /\ \A i \in c.pool : JobLock(i) \notin locks
      BY <2>1, <3>1, <3>4, LockSets, LockNames DEF RunLocksOf
    <3>6. SameClaim(c, c)
      BY <1>3 DEF SameClaim
    <3> QED
      BY <1>3, <1>4, <1>6, <2>4, <3>1, <3>5, <3>6
  <2>5. CASE GoOn(t, m, "count", {})
    <3>1. P \in SUBSET JobId
      BY <1>3, <2>1
    <3>2. SameClaim(m, c) /\ m.pool = P
      BY <1>3, <2>2, <3>1, LeavesTxn
    <3>3. \A i \in m.pool : i \in JobId /\ i \in LockedJobs(t)
      BY <1>3, <1>4, <2>1, <3>2
    <3> QED
      BY <1>c, <2>5, <3>2, <3>3
  <2> QED
    BY <1>3, <2>3, <2>4, <2>5, EndsWell DEF Rollback
<1> QED
  BY <1>7, <1>8, <1>9

LEMMA TxnWell ==
  ASSUME LifeInv, NEW t \in TxnId, Waits(txn[t], HeldBy(holder, t), job),
         Start(t) \/ Proceed(t) \/ Disconnect(t) \/ Victim(t)
  PROVE  WaitsWell(t)
<1>1. LocksInv
  BY DEF LifeInv
<1>2. CASE Start(t)
  BY <1>1, <1>2, StartsWell
<1>3. CASE ClaimLapsed(t) \/ ClaimPick(t) \/ ClaimCount(t) \/ ClaimLimit(t)
  BY <1>3, ClaimLapsedWell, ClaimTriesWell
<1>4. CASE PlainStatement(t)
  BY <1>4, PlainWell
<1>5. CASE Disconnect(t) \/ Victim(t) \/ ClaimGrant(t) \/ CompleteRun(t) \/ CancelRun(t)
           \/ ExpireStuckJobs(t)
  <2>1. End(t)
    BY <1>5 DEF Disconnect, Victim, ClaimGrant, CompleteRun, CancelRun, ExpireStuckJobs,
       Rollback, Commit
  <2> QED
    BY <1>1, <2>1, EndsWell
<1>6. CASE CancelJob(t) \/ ResumeHumanTask(t) \/ PruneSettledJobs(t)
  <2>1. End(t)
    BY <1>6 DEF CancelJob, ResumeHumanTask, PruneSettledJobs, Rollback, Commit
  <2> QED
    BY <1>1, <2>1, EndsWell
<1> QED
  BY <1>2, <1>3, <1>4, <1>5, <1>6 DEF Proceed, Claim, PlainStatement
-----------------------------------------------------------------------------
(* Claims never wait in a circle.                                          *)

LEMMA FollowsStays ==
  ASSUME LocksInv, KeepsRows, NEW u \in TxnId, NEW v \in TxnId,
         Waits(txn[u], HeldBy(holder, u), job), txn'[u] = txn[u], txn'[v] = txn[v],
         Follows(txn'[u], txn'[v], job')
  PROVE  Follows(txn[u], txn[v], job)
<1>1. PICK x, y : x = txn[u] /\ y = txn[v]
  OBVIOUS
<1>2. PICK k \in JobId, j \in y.jobs :
        /\ x.op = "claim" /\ x.at = "jobs" /\ y.op = "claim"
        /\ JobLock(k) \in x.want /\ job'[k].run = job'[j].run
  BY <1>1 DEF Follows
<1>3. job[k].state # "absent"
  <2>1. \E i \in JobId : JobLock(k) = JobLock(i) /\ job[i].state # "absent"
    BY <1>1, <1>2 DEF Waits, ClaimWaits
  <2> QED
    BY <2>1, LockNames
<1>4. j \in JobId /\ job[j].state # "absent"
  BY <1>1, <1>2, CommitFacts DEF Mine
<1>5. job[k].run = job[j].run
  BY <1>2, <1>3, <1>4 DEF KeepsRows
<1> QED
  BY <1>1, <1>2, <1>5 DEF Follows

LEMMA CircleStays ==
  ASSUME LocksInv, NoCircle, KeepsRows,
         \A u \in TxnId : \/ \A v \in TxnId : ~Follows(txn'[u], txn'[v], job')
                          \/ txn'[u] = txn[u] /\ Waits(txn[u], HeldBy(holder, u), job)
  PROVE  NoCircle'
<1> SUFFICES ASSUME NEW C \in SUBSET TxnId, C # {},
                    \A u \in C : \E v \in C : Follows(txn'[u], txn'[v], job')
             PROVE  FALSE
  BY DEF NoCircle
<1>1. \A u \in C : txn'[u] = txn[u] /\ Waits(txn[u], HeldBy(holder, u), job)
  OBVIOUS
<1>2. \A u \in C : \E v \in C : Follows(txn[u], txn[v], job)
  BY <1>1, FollowsStays
<1> QED
  BY <1>2 DEF NoCircle

LEMMA InitWaits == Init => WaitInv
<1> SUFFICES ASSUME Init PROVE WaitInv
  OBVIOUS
<1>1. \A t \in TxnId : txn[t] = NoTxn /\ HeldBy(holder, t) = {}
  BY ConstantAssumption DEF Init, HeldBy
<1>2. \A t \in TxnId : Waits(txn[t], HeldBy(holder, t), job)
  BY <1>1, IdleWaits
<1>3. NoCircle
  BY <1>1, NoTxnTyped DEF NoCircle, Follows
<1> QED
  BY <1>2, <1>3, InitLives DEF WaitInv

LEMMA NextWaits ==
  ASSUME SweepsAlone, WaitInv, [Next]_vars
  PROVE  WaitInv'
<1>1. /\ LifeInv /\ LifeInv' /\ LocksInv /\ NoCircle
      /\ \A u \in TxnId : Waits(txn[u], HeldBy(holder, u), job)
  BY NextImplementsLifecycle DEF WaitInv, LifeInv
<1>2. CASE KeepsRows
  <2>1. PICK T \in SUBSET TxnId : Kept(T) /\ \A t \in T : WaitsWell(t)
    <3>1. CASE Kept({})
      BY <3>1
    <3>2. ASSUME NEW t \in TxnId, Start(t) \/ Proceed(t) \/ Disconnect(t) \/ Victim(t), Kept({t})
          PROVE  Kept({t}) /\ WaitsWell(t)
      BY <1>1, <3>2, TxnWell
    <3> QED
      BY <1>1, <3>1, <3>2, KeptByOne
  <2>2. \A u \in TxnId \ T : Waits(txn'[u], HeldBy(holder', u), job') /\ txn'[u] = txn[u]
    BY <1>1, <1>2, <2>1, OthersWait DEF Kept, Spared
  <2>3. NoCircle'
    BY <1>1, <1>2, <2>1, <2>2, CircleStays DEF WaitsWell
  <2> QED
    BY <1>1, <2>1, <2>2, <2>3 DEF WaitInv, WaitsWell
<1>3. CASE \E t \in TxnId : PruneSettledJobs(t)
  <2>1. PICK t \in TxnId : PruneSettledJobs(t)
    BY <1>3
  <2>2. /\ WaitsWell(t) /\ Kept({t}) /\ txn[t].op \in Sweep
    BY <1>1, <2>1, TxnWell, TxnKeeps DEF Proceed, PruneSettledJobs, Executes, Sweep
  <2>3. ASSUME NEW u \in TxnId \ {t}
        PROVE  /\ Waits(txn'[u], HeldBy(holder', u), job')
               /\ txn'[u].op = "none"
    <3>1. txn[u].op = "none" /\ txn'[u] = txn[u] /\ HeldBy(holder', u) = HeldBy(holder, u)
      BY <1>1, <2>2 DEF LifeInv, SweepsApart, Kept, Spared
    <3>2. txn[u].want = {}
      BY <1>1, <3>1 DEF Waits
    <3> QED
      BY <3>1, <3>2 DEF Waits
  <2>4. \A u, v \in TxnId : ~Follows(txn'[u], txn'[v], job')
    BY <2>2, <2>3 DEF WaitsWell, Follows
  <2>5. NoCircle'
    BY <2>4 DEF NoCircle
  <2> QED
    BY <1>1, <2>2, <2>3, <2>5 DEF WaitInv, WaitsWell
<1> QED
  BY <1>1, <1>2, <1>3, RowsStay

-----------------------------------------------------------------------------
(* What is left when nobody waits in a circle of claims.                   *)

\* Only claims (and CancelRun and the sweeps) have runs locked while they wait.
LEMMA HoldsRun ==
  ASSUME WaitInv, NEW w \in TxnId, NEW r \in RunId, holder[RunLock(r)] = w,
         txn[w].op \notin {"cancelRun", "expire", "prune"}
  PROVE  /\ txn[w].op = "claim"
         /\ \E j \in txn[w].jobs : /\ j \in JobId /\ job[j].run = r /\ ActiveRow(job[j])
                                   /\ holder[JobLock(j)] = w
<1>1. PICK x, held : x = txn[w] /\ held = HeldBy(holder, w)
  OBVIOUS
<1>2. /\ LocksInv /\ x \in Txn /\ Waits(x, held, job) /\ TxnOK(w, x, job, holder)
      /\ RunLock(r) \in held
  BY <1>1, KnowsNow, LockNames DEF WaitInv, LifeInv, LocksInv, HeldBy
<1>3. x.op = "claim"
  <2>1. x.op # "none"
    BY <1>1, <1>2 DEF TxnOK
  <2>2. x.op \notin {"complete", "cancelJob", "resume"}
    BY <1>2, LockNames DEF Waits
  <2> QED
    BY <1>1, <1>2, <2>1, <2>2 DEF Txn, Sweep
<1>4. PICK j \in x.jobs : job[j].run = r
  BY <1>2, <1>3 DEF Waits, ClaimWaits
<1>5. j \in JobId /\ holder[JobLock(j)] = w /\ LapsedRow(job[j])
  BY <1>1, <1>2, <1>3, <1>4, ClaimFacts DEF ClaimKnows, Mine, Txn
<1> QED
  BY <1>1, <1>3, <1>4, <1>5 DEF LapsedRow, ActiveRow

\* Whoever has the active job of a run locked does not wait for such a claim.
LEMMA NoWaitWithJob ==
  ASSUME WaitInv, NEW u \in TxnId, NEW w \in TxnId, NEW j \in JobId,
         ActiveRow(job[j]), holder[JobLock(j)] = u,
         RunLock(job[j].run) \in txn[u].want, holder[RunLock(job[j].run)] = w,
         txn[w].op \notin {"cancelRun", "expire", "prune"}
  PROVE  FALSE
<1>1. PICK r \in RunId : r = job[j].run
  BY DEF WaitInv, LifeInv, LocksInv, HaveRuns, ActiveRow
<1>2. PICK i \in JobId : job[i].run = r /\ ActiveRow(job[i]) /\ holder[JobLock(i)] = w
  BY <1>1, HoldsRun
<1>3. i = j
  BY <1>1, <1>2 DEF WaitInv, LifeInv, RowsFit
<1>4. RunLock(r) \in HeldBy(holder, u)
  BY <1>1, <1>2, <1>3, LockNames DEF HeldBy
<1> QED
  BY <1>1, <1>4 DEF WaitInv, Waits

\* The transactions of C wait for each other in circles; none is a CancelRun or a
\* claim that counts.
Circle(C) ==
  /\ C \in SUBSET TxnId
  /\ \A u \in C : (\E v \in C : WaitsFor(u, v)) /\ (\E v \in C : WaitsFor(v, u))
  /\ \A u \in C : txn[u].op # "cancelRun" /\ txn[u].at # "limit"

LEMMA CircleOps ==
  ASSUME WaitInv, NEW C, Circle(C), NEW u \in C
  PROVE  txn[u].op \in {"claim", "cancelJob", "resume"}
<1>1. PICK x : x = txn[u]
  OBVIOUS
<1>2. PICK v \in C, y \in x.want : holder[y] = v
  BY <1>1 DEF Circle, WaitsFor
<1>3. /\ u \in TxnId /\ v \in TxnId /\ x \in Txn /\ y \in Lock /\ LocksInv
      /\ Waits(x, HeldBy(holder, u), job)
  BY <1>1, <1>2, KnowsNow DEF Circle, WaitInv, LifeInv, Txn
<1>4. x.op # "none"
  BY <1>2, <1>3 DEF Waits
<1>5. x.op \notin Sweep
  <2> SUFFICES ASSUME x.op \in Sweep PROVE FALSE
    OBVIOUS
  <2>1. v # u
    BY <1>2, <1>3 DEF Waits, HeldBy
  <2>2. txn[v].op = "none"
    BY <1>1, <1>3, <2>1 DEF WaitInv, LifeInv, SweepsApart
  <2>3. HeldBy(holder, v) = {}
    BY <1>3, <2>2 DEF LocksInv, TxnOK
  <2> QED
    BY <1>2, <1>3, <2>3 DEF HeldBy
<1>6. ASSUME x.op = "complete" PROVE FALSE
  <2>1. PICK j \in JobId : j = x.job /\ job[j].state = "running" /\ holder[JobLock(j)] = u
    BY <1>1, <1>3, <1>6, CommitFacts, KnowsNow DEF WaitInv, OpKnows, LocksInv, TxnOK
  <2>2. y = RunLock(job[j].run)
    BY <1>2, <1>3, <1>6, <2>1 DEF Waits, RunLocksOf
  <2>3. txn[v].op \notin {"cancelRun", "expire", "prune"}
    <3>1. txn[v].op # "cancelRun"
      BY DEF Circle
    <3>2. txn[v].op \notin Sweep
      BY <1>1, <1>3, <1>6 DEF WaitInv, LifeInv, SweepsApart, Sweep
    <3> QED
      BY <3>1, <3>2 DEF Sweep
  <2> QED
    BY <1>1, <1>2, <1>3, <2>1, <2>2, <2>3, NoWaitWithJob DEF ActiveRow
<1> QED
  BY <1>1, <1>3, <1>4, <1>5, <1>6 DEF Txn, Sweep, Circle
\* What one of C waits for is locked by another of them.
LEMMA CircleWaits ==
  ASSUME WaitInv, NEW C, Circle(C), NEW u \in C
  PROVE  /\ LocksInv /\ u \in TxnId /\ txn[u] \in Txn
         /\ Waits(txn[u], HeldBy(holder, u), job) /\ TxnOK(u, txn[u], job, holder)
         /\ txn[u].at # "limit" /\ txn[u].op \in {"claim", "cancelJob", "resume"}
         /\ \E v \in C, y \in txn[u].want :
              /\ y \in Lock /\ holder[y] = v /\ v \in TxnId
              /\ txn[v].op \notin {"cancelRun", "expire", "prune"}
<1>1. u \in TxnId /\ txn[u] \in Txn /\ LocksInv
  BY KnowsNow DEF Circle, WaitInv, LifeInv
<1>2. Waits(txn[u], HeldBy(holder, u), job) /\ TxnOK(u, txn[u], job, holder)
  BY <1>1 DEF WaitInv, LocksInv
<1>3. PICK v \in C, y \in txn[u].want : holder[y] = v
  BY DEF Circle, WaitsFor
<1>4. v \in TxnId /\ y \in Lock
  BY <1>1, <1>3 DEF Circle, Txn
<1>5. txn[v].op \notin {"cancelRun", "expire", "prune"}
  BY CircleOps
<1>6. txn[u].at # "limit" /\ txn[u].op \in {"claim", "cancelJob", "resume"}
  BY CircleOps DEF Circle
<1> QED
  BY <1>1, <1>2, <1>3, <1>4, <1>5, <1>6

\* A claim in such a circle waits for jobs: the runs it waits for otherwise are
\* those of active jobs it has locked.
LEMMA CircleClaims ==
  ASSUME WaitInv, NEW C, Circle(C), NEW u \in C, txn[u].op = "claim"
  PROVE  txn[u].at = "jobs"
<1>1. PICK x, held : x = txn[u] /\ held = HeldBy(holder, u)
  OBVIOUS
<1>2. /\ LocksInv /\ u \in TxnId /\ x \in Txn /\ x.op = "claim" /\ x.at # "limit"
      /\ ClaimWaits(x, held, job)
  BY <1>1, CircleWaits DEF Waits
<1>3. PICK v \in C, y \in x.want :
        /\ holder[y] = v /\ v \in TxnId
        /\ txn[v].op \notin {"cancelRun", "expire", "prune"}
  BY <1>1, CircleWaits
<1>4. ClaimKnows(x, job, held) /\ \A j \in Mine(x) : j \in JobId /\ holder[JobLock(j)] = u
  BY <1>1, <1>2, ClaimFacts
<1>5. ASSUME x.at = "lapsed" PROVE FALSE
  <2>1. PICK j \in x.jobs : y = RunLock(job[j].run)
    BY <1>2, <1>3, <1>5 DEF ClaimWaits, RunLocksOf
  <2>2. j \in JobId /\ holder[JobLock(j)] = u /\ ActiveRow(job[j])
    BY <1>2, <1>4, <2>1 DEF Mine, Txn, ClaimKnows, LapsedRow, ActiveRow
  <2> QED
    BY <1>1, <1>2, <1>3, <2>1, <2>2, NoWaitWithJob
<1>6. ASSUME x.at = "grant" PROVE FALSE
  <2>1. y = RunLock(job[x.job].run)
    BY <1>2, <1>3, <1>6 DEF ClaimWaits, RunLocksOf
  <2>2. x.job \in x.pool /\ x.pool \subseteq JobId /\ x.back \subseteq JobId
    BY <1>2, <1>4, <1>6 DEF ClaimKnows, Txn
  <2>3. x.job \in Mine(x)
    BY <2>2 DEF Mine
  <2>4. ActiveRow(job[x.job])
    BY <1>4, <2>2 DEF ClaimKnows, LapsedRow, ActiveRow
  <2> QED
    BY <1>1, <1>2, <1>3, <1>4, <2>1, <2>3, <2>4, NoWaitWithJob
<1>7. x.at # "count"
  BY <1>2, <1>3 DEF ClaimWaits
<1> QED
  BY <1>1, <1>2, <1>4, <1>5, <1>6, <1>7 DEF ClaimKnows

\* The others wait for a run, and for a claim that has a lost job of it.
LEMMA CircleOthers ==
  ASSUME WaitInv, NEW C, Circle(C), NEW u \in C, txn[u].op # "claim"
  PROVE  \E w \in C : /\ txn[w].op = "claim"
                      /\ txn[u].op = "cancelJob" =>
                           \E j \in txn[w].jobs : job[j].run = job[txn[u].job].run
<1>1. PICK x, held : x = txn[u] /\ held = HeldBy(holder, u)
  OBVIOUS
<1>2. /\ LocksInv /\ u \in TxnId /\ x \in Txn /\ x.op \in {"cancelJob", "resume"}
      /\ Waits(x, held, job) /\ TxnOK(u, x, job, holder)
  BY <1>1, CircleWaits
<1>3. PICK v \in C, y \in x.want :
        /\ holder[y] = v /\ v \in TxnId
        /\ txn[v].op \notin {"cancelRun", "expire", "prune"}
  BY <1>1, CircleWaits
<1>4. CASE x.op = "cancelJob"
  <2>1. y = RunLock(job[x.job].run) /\ x.job \in JobId
    BY <1>2, <1>3, <1>4 DEF Waits, RunLocksOf, TxnOK
  <2>2. job[x.job].run \in RunId
    <3>1. x.job \in Mine(x)
      BY <2>1 DEF Mine
    <3> QED
      BY <1>2, <2>1, <3>1 DEF TxnOK, LocksInv, HaveRuns
  <2>3. txn[v].op = "claim" /\ \E j \in txn[v].jobs : job[j].run = job[x.job].run
    BY <1>3, <2>1, <2>2, HoldsRun
  <2> QED
    BY <1>1, <1>3, <2>3
<1>5. CASE x.op = "resume"
  <2>1. y = RunLock(x.run) /\ x.run \in RunId
    BY <1>2, <1>3, <1>5 DEF Waits, TxnOK
  <2>2. txn[v].op = "claim"
    BY <1>3, <2>1, HoldsRun
  <2> QED
    BY <1>1, <1>3, <1>5, <2>2
<1> QED
  BY <1>2, <1>4, <1>5
\* So a claim in such a circle follows another one in it.
LEMMA CircleFollows ==
  ASSUME WaitInv, NEW C, Circle(C), NEW t \in C, txn[t].op = "claim"
  PROVE  \E w \in C : txn[w].op = "claim" /\ Follows(txn[t], txn[w], job)
<1>1. PICK x : x = txn[t]
  OBVIOUS
<1>2. x.op = "claim" /\ x.at = "jobs" /\ x.want \subseteq Lock
  BY <1>1, CircleClaims, CircleWaits DEF Txn
<1>3. PICK v \in C, y \in x.want : holder[y] = v /\ v \in TxnId /\ y \in Lock
  BY <1>1, CircleWaits
<1>a. Waits(x, HeldBy(holder, t), job)
  BY <1>1, CircleWaits
<1>4. PICK k \in JobId : y = JobLock(k)
  BY <1>2, <1>3, <1>a DEF Waits, ClaimWaits
<1>5. PICK z, held : z = txn[v] /\ held = HeldBy(holder, v)
  OBVIOUS
<1>6. /\ Waits(z, held, job) /\ z.op \in {"claim", "cancelJob", "resume"}
      /\ JobLock(k) \in held
  BY <1>3, <1>4, <1>5, CircleWaits DEF HeldBy
<1>7. CASE z.op = "claim"
  <2>1. z.at = "jobs"
    BY <1>5, <1>7, CircleClaims
  <2>2. k \in z.jobs
    BY <1>6, <1>7, <2>1 DEF Waits, ClaimWaits, JobLocksIn
  <2>3. Follows(x, z, job)
    BY <1>2, <1>3, <1>4, <1>7, <2>2 DEF Follows
  <2> QED
    BY <1>1, <1>3, <1>5, <1>7, <2>3
<1>8. CASE z.op = "cancelJob"
  <2>1. k = z.job
    BY <1>6, <1>8, LockNames DEF Waits
  <2>2. PICK w \in C : /\ txn[w].op = "claim"
                       /\ \E j \in txn[w].jobs : job[j].run = job[z.job].run
    BY <1>5, <1>8, CircleOthers
  <2>3. Follows(x, txn[w], job)
    BY <1>2, <1>3, <1>4, <2>1, <2>2 DEF Follows
  <2> QED
    BY <1>1, <2>2, <2>3
<1>9. z.op # "resume"
  BY <1>6, LockNames DEF Waits
<1> QED
  BY <1>6, <1>7, <1>8, <1>9

LEMMA NobodyCircles ==
  ASSUME WaitInv, NEW C, Circle(C)
  PROVE  C = {}
<1> SUFFICES ASSUME NEW u \in C PROVE FALSE
  OBVIOUS
<1>1. PICK K : K = {t \in C : txn[t].op = "claim"}
  OBVIOUS
<1>2. K \in SUBSET TxnId
  BY <1>1 DEF Circle
<1>3. K # {}
  BY <1>1, CircleOthers
<1>4. PICK t \in K : \A w \in K : ~Follows(txn[t], txn[w], job)
  BY <1>2, <1>3 DEF WaitInv, NoCircle
<1> QED
  BY <1>1, <1>4, CircleFollows

LEMMA CirclesNeedCancelRun ==
  ASSUME WaitInv
  PROVE  DeadlocksNeedCancelRun
<1> SUFFICES ASSUME NEW t \in TxnId, Deadlocked(t),
                    \A u \in TxnId : ~(Deadlocked(u) /\ (txn[u].op = "cancelRun"
                                                          \/ txn[u].at = "limit"))
             PROVE  FALSE
  BY DEF DeadlocksNeedCancelRun
<1>1. PICK C \in SUBSET TxnId :
        /\ t \in C
        /\ \A u \in C : (\E v \in C : WaitsFor(u, v)) /\ (\E v \in C : WaitsFor(v, u))
  BY DEF Deadlocked
<1>2. \A u \in C : u \in TxnId /\ Deadlocked(u)
  BY <1>1 DEF Deadlocked
<1>3. Circle(C)
  BY <1>1, <1>2 DEF Circle
<1> QED
  BY <1>1, <1>3, NobodyCircles

\* DeadlocksAreAroundCancelRun (property DeadlocksNeedCancelRun): while retention
\* sweeps are alone, transactions of PostgresStore wait for each other in a circle
\* only around a CancelRun, or around the advisory locks a claim takes of several
\* apps.  All others lock a job before its run: of two claims that wait so, one
\* began after the other had selected the jobs it waits for.
THEOREM DeadlocksAreAroundCancelRun ==
  ASSUME SweepsAlone
  PROVE  Spec => []DeadlocksNeedCancelRun
<1>1. WaitInv /\ [Next]_vars => WaitInv'
  BY NextWaits
<1>2. WaitInv => DeadlocksNeedCancelRun
  BY CirclesNeedCancelRun
<1> QED
  BY <1>1, <1>2, InitWaits, PTL DEF Spec
=============================================================================
