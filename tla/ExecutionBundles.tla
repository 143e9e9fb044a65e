-------------------------- MODULE ExecutionBundles --------------------------
(***************************************************************************)
(* The way of a revision from its synchronization to its execution, over   *)
(* the four places that hold files: the source store (internal/bundle),    *)
(* the servers' preparation caches (internal/runtime/prepare.go), the      *)
(* artifact store (internal/executionbundle) and the workers' bundle       *)
(* caches (internal/runtime/execution_bundle.go, internal/remoteworker).   *)
(*                                                                         *)
(* A directory is filled and emptied file by file, so whoever stops leaves *)
(* a part of it; what a place takes for complete is told by a marker file. *)
(* A bundle's digest stands for the whole tree: here it is the tree.       *)
(***************************************************************************)
EXTENDS Naturals, FiniteSets

CONSTANTS
  Server, Worker, Commit,
  NoTree,        \* no directory
  CacheOf,       \* the bundle cache that a worker uses
  MaxRuntime     \* bound of the model: the versions of the runtime

Runtime == 1..MaxRuntime   \* fingerprints of a runtime, in the order of its upgrades
None    == 0               \* no .ready file

\* The files of a directory: some of them, the source as it was synchronized, or all
\* that the runtime "by" prepared, and the fingerprint in the .ready file among them.
Tree   == [commit: Commit, files: {"some", "source", "all"}, by: Runtime \union {None},
           ready: Runtime \union {None}]
Digest == Tree

ASSUME ConstantAssumption ==
  /\ MaxRuntime \in Nat \ {0}
  /\ NoTree \notin Tree
  /\ DOMAIN CacheOf = Worker
  /\ Server \cap Worker = {}

Cache == {CacheOf[w] : w \in Worker}

VARIABLES
  snapshot,    \* the source store: the files of a commit, and whether they are marked
  prepared,    \* the directory of a commit in a server's cache
  preparing,   \* where a server's preparation of a commit is
  operation,   \* the source operation of a commit: who has it, and where it is
  artifacts,   \* the digests in the artifact store
  cached,      \* the directory of a digest in a bundle cache, and its marker
  opening,     \* where a worker's opening of a digest is
  job,         \* the digest that a worker's job is pinned to, and where the job is
  runtime        \* the fingerprint of the runtime of a server or a worker

serverVars == <<snapshot, prepared, preparing, operation, artifacts>>
workerVars == <<cached, opening, job>>
vars == <<serverVars, workerVars, runtime>>

NoOperation == [at |-> "none"]
Operation == {NoOperation} \union
  [at: {"clear", "copy", "mark", "prepare", "publish"}, by: Server,
   digest: Digest \union {NoTree}]
NoJob == [at |-> "idle", digest |-> NoTree]

\* Among the types: what a .ready file vouches for was prepared by that runtime, unless
\* a part of it was removed since.
TypeOK ==
  /\ snapshot \in [Commit -> [files: {"none", "some", "all"}, marked: BOOLEAN]]
  /\ prepared \in [Server -> [Commit -> Tree \union {NoTree}]]
  /\ preparing \in [Server -> [Commit -> {"idle", "check", "remove", "copy", "build", "mark"}]]
  /\ operation \in [Commit -> Operation]
  /\ artifacts \subseteq Digest
  /\ cached \in [Cache -> [Digest -> [tree: Tree \union {NoTree}, marked: BOOLEAN]]]
  /\ opening \in [Worker -> [Digest -> {"idle", "check", "hit", "fetch", "remove", "place",
                                        "validate", "discard", "mark"}]]
  /\ job \in [Worker -> [at: {"waiting", "running"}, digest: Digest] \union {NoJob}]
  /\ runtime \in [Server \union Worker -> Runtime]
  /\ \A s \in Server, c \in Commit : LET t == prepared[s][c] IN
       (t # NoTree /\ t.ready # None) => t.files = "some" \/ t.by = t.ready

NewTree(c) == [commit |-> c, files |-> "some", by |-> None, ready |-> None]
Empty == [tree |-> NoTree, marked |-> FALSE]

Init ==
  /\ snapshot = [c \in Commit |-> [files |-> "none", marked |-> FALSE]]
  /\ prepared = [s \in Server |-> [c \in Commit |-> NoTree]]
  /\ preparing = [s \in Server |-> [c \in Commit |-> "idle"]]
  /\ operation = [c \in Commit |-> NoOperation]
  /\ artifacts = {}
  /\ cached = [k \in Cache |-> [d \in Digest |-> Empty]]
  /\ opening = [w \in Worker |-> [d \in Digest |-> "idle"]]
  /\ job = [w \in Worker |-> NoJob]
  /\ runtime = [p \in Server \union Worker |-> 1]

\* What the removal of a directory has left of it when it is looked at in between.
Parts(t) == IF t = NoTree THEN {NoTree}
            ELSE {[t EXCEPT !.files = "some", !.by = None, !.ready = r] : r \in {t.ready, None}}

----------------------------------------------------------------------------
(* The source operations of a commit: sync, and deploy.  One at a time has  *)
(* the commit's source (ReleasePipeline says how); it may be given up at    *)
(* any point, for an error or for a lease that was lost.                    *)

Has(s, c, at) == operation[c].at = at /\ operation[c].by = s
Continue(s, c, at) == operation' = [operation EXCEPT ![c].at = at]
Begin(s, c, at) == /\ operation[c] = NoOperation
                   /\ operation' = [operation EXCEPT ![c] =
                        [at |-> at, by |-> s, digest |-> NoTree]]
End(c) == operation' = [operation EXCEPT ![c] = NoOperation]

BeginSync(s, c) ==
  /\ Begin(s, c, "clear")
  /\ ~snapshot[c].marked
  /\ UNCHANGED <<snapshot, prepared, preparing, artifacts, workerVars, runtime>>

ClearSnapshot(s, c) ==
  /\ Has(s, c, "clear")
  /\ snapshot' = [snapshot EXCEPT ![c].files = "some"]
  /\ Continue(s, c, "copy")
  /\ UNCHANGED <<prepared, preparing, artifacts, workerVars, runtime>>

CopySnapshotMarksFault(s, c) ==
  /\ Has(s, c, "copy")
  /\ \/ snapshot' = [snapshot EXCEPT ![c].marked = TRUE] /\ Continue(s, c, "mark")
     \/ snapshot' = [snapshot EXCEPT ![c].files = "none"] /\ End(c)
  /\ UNCHANGED <<prepared, preparing, artifacts, workerVars, runtime>>
CopySnapshot(s, c) ==
  /\ Has(s, c, "copy")
  /\ \/ snapshot' = [snapshot EXCEPT ![c].files = "all"] /\ Continue(s, c, "mark")
     \/ snapshot' = [snapshot EXCEPT ![c].files = "none"] /\ End(c)
  /\ UNCHANGED <<prepared, preparing, artifacts, workerVars, runtime>>

MarkSnapshot(s, c) ==
  /\ Has(s, c, "mark")
  /\ snapshot' = [snapshot EXCEPT ![c].marked = TRUE]
  /\ End(c)
  /\ UNCHANGED <<prepared, preparing, artifacts, workerVars, runtime>>

\* A deploy waits for the preparation that is under way, or begins one.
BeginDeploy(s, c) ==
  /\ Begin(s, c, "prepare")
  /\ preparing' = [preparing EXCEPT ![s][c] = IF @ = "idle" THEN "check" ELSE @]
  /\ UNCHANGED <<snapshot, prepared, artifacts, workerVars, runtime>>

\* The entrypoint is tried, and the tree is hashed.  A part of a tree may pass.
HashPrepared(s, c) ==
  /\ Has(s, c, "publish") /\ operation[c].digest = NoTree
  /\ prepared[s][c] # NoTree
  /\ operation' = [operation EXCEPT ![c].digest = prepared[s][c]]
  /\ UNCHANGED <<snapshot, prepared, preparing, artifacts, workerVars, runtime>>

\* A copy that hashes to the same is renamed into the store, or one is there already.
Publish(s, c) ==
  /\ Has(s, c, "publish") /\ operation[c].digest # NoTree
  /\ prepared[s][c] = operation[c].digest \/ operation[c].digest \in artifacts
  /\ artifacts' = artifacts \union {operation[c].digest}
  /\ End(c)
  /\ UNCHANGED <<snapshot, prepared, preparing, workerVars, runtime>>

GiveUp(c) ==
  /\ operation[c] # NoOperation
  /\ End(c)
  /\ UNCHANGED <<snapshot, prepared, preparing, artifacts, workerVars, runtime>>

----------------------------------------------------------------------------
(* The preparation of a commit by a server: one at a time, and it goes on   *)
(* when the deploy that began it was given up.                              *)

Step(s, c, from, to) == preparing[s][c] = from /\ preparing' = [preparing EXCEPT ![s][c] = to]
Holds(s, c, t) == prepared' = [prepared EXCEPT ![s][c] = t]

\* It ends well for whoever waits for it, or not.
Prepared(s, c, ok) == operation' = [operation EXCEPT ![c] =
  IF ~Has(s, c, "prepare") THEN @ ELSE IF ok THEN [@ EXCEPT !.at = "publish"] ELSE NoOperation]

Ready(s, c) == prepared[s][c] # NoTree /\ prepared[s][c].ready = runtime[s]

CheckPrepared(s, c) ==
  /\ \/ Ready(s, c) /\ Step(s, c, "check", "idle") /\ Prepared(s, c, TRUE)
     \/ ~Ready(s, c) /\ snapshot[c].marked /\ Step(s, c, "check", "remove") /\ UNCHANGED operation
     \/ ~Ready(s, c) /\ ~snapshot[c].marked /\ Step(s, c, "check", "idle") /\ Prepared(s, c, FALSE)
  /\ UNCHANGED <<snapshot, prepared, artifacts, workerVars, runtime>>

RemovePrepared(s, c) ==
  /\ \/ Step(s, c, "remove", "remove") /\ \E t \in Parts(prepared[s][c]) : Holds(s, c, t)
     \/ Step(s, c, "remove", "copy") /\ Holds(s, c, NewTree(c))
  /\ UNCHANGED <<snapshot, operation, artifacts, workerVars, runtime>>

CopySourceUncheckedFault(s, c) ==
  /\ Step(s, c, "copy", "build")
  /\ \E f \in {"some", "source"} : Holds(s, c, [prepared[s][c] EXCEPT !.files = f])
  /\ UNCHANGED <<snapshot, operation, artifacts, workerVars, runtime>>
CopySource(s, c) ==
  /\ Step(s, c, "copy", "build")
  /\ Holds(s, c, [prepared[s][c] EXCEPT !.files =
                    IF snapshot[c].files = "all" THEN "source" ELSE "some"])
  /\ UNCHANGED <<snapshot, operation, artifacts, workerVars, runtime>>

\* Installing dependencies, injecting the SDK, compiling.
PrepareSource(s, c) ==
  /\ Step(s, c, "build", "mark")
  /\ Holds(s, c, IF prepared[s][c].files = "some" THEN prepared[s][c]
                 ELSE [prepared[s][c] EXCEPT !.files = "all", !.by = runtime[s]])
  /\ UNCHANGED <<snapshot, operation, artifacts, workerVars, runtime>>

MarkPrepared(s, c) ==
  /\ Step(s, c, "mark", "idle") /\ Prepared(s, c, TRUE)
  /\ Holds(s, c, [prepared[s][c] EXCEPT !.ready = runtime[s]])
  /\ UNCHANGED <<snapshot, artifacts, workerVars, runtime>>

\* Any step may fail, and a preparation has a time limit of its own.
FailPreparation(s, c) ==
  /\ preparing[s][c] # "idle"
  /\ Step(s, c, preparing[s][c], "idle") /\ Prepared(s, c, FALSE)
  /\ UNCHANGED <<snapshot, prepared, artifacts, workerVars, runtime>>

----------------------------------------------------------------------------
(* The opening of a bundle by a worker: one at a time of a digest, and it   *)
(* goes on when the job that waits for it is canceled.                      *)

Entry(w, d) == cached[CacheOf[w]][d]
Put(w, d, entry) == cached' = [cached EXCEPT ![CacheOf[w]][d] = entry]
Move(w, d, from, to) == opening[w][d] = from /\ opening' = [opening EXCEPT ![w][d] = to]

\* The opening ends, and the job that waits runs in the directory or fails.
Opened(w, d, ok) == job' = [job EXCEPT ![w] =
  IF @ # [at |-> "waiting", digest |-> d] THEN @ ELSE IF ok THEN [@ EXCEPT !.at = "running"] ELSE NoJob]

StartJob(w, d) ==
  /\ job[w] = NoJob /\ d \in artifacts
  /\ job' = [job EXCEPT ![w] = [at |-> "waiting", digest |-> d]]
  /\ opening' = [opening EXCEPT ![w][d] = IF @ = "idle" THEN "check" ELSE @]
  /\ UNCHANGED <<serverVars, cached, runtime>>

\* A job ends, or is canceled while it waits.
EndJob(w) ==
  /\ job[w] # NoJob /\ job' = [job EXCEPT ![w] = NoJob]
  /\ UNCHANGED <<serverVars, cached, opening, runtime>>

CheckMarker(w, d) ==
  /\ Move(w, d, "check", IF Entry(w, d).marked THEN "hit" ELSE "fetch")
  /\ UNCHANGED <<serverVars, cached, job, runtime>>

CompatibleFault(w, d) == Entry(w, d).tree # NoTree
Compatible(w, d) == Entry(w, d).tree # NoTree /\ Entry(w, d).tree.ready = runtime[w]

UseHit(w, d) ==
  /\ Move(w, d, "hit", "idle") /\ Opened(w, d, Compatible(w, d))
  /\ UNCHANGED <<serverVars, cached, runtime>>

\* The bundle is copied into a directory beside its place, from the artifact store or,
\* by a remote worker, from a server that has the store, and hashed there.
Served(d) == d \in artifacts
Receive(w, d) == Move(w, d, "fetch", "remove")
FetchTo(w, d) ==
  /\ Served(d) /\ Receive(w, d)
  /\ UNCHANGED <<serverVars, cached, job, runtime>>

\* What is in its place is removed, because the fetched bundle goes there or because
\* the runtime did not accept it.
Remove(w, d) ==
  /\ \/ Move(w, d, "remove", "place") /\ Put(w, d, Empty) /\ UNCHANGED job
     \/ Move(w, d, "discard", "idle") /\ Put(w, d, Empty) /\ Opened(w, d, FALSE)
     \/ /\ opening[w][d] \in {"remove", "discard"}
        /\ \E t \in Parts(Entry(w, d).tree), b \in {Entry(w, d).marked, FALSE} :
             Put(w, d, [tree |-> t, marked |-> b])
        /\ UNCHANGED <<opening, job>>
  /\ UNCHANGED <<serverVars, runtime>>

\* The rename fails if somebody put a directory there in between.
Place(w, d) ==
  /\ \/ /\ Entry(w, d).tree = NoTree /\ Move(w, d, "place", "validate")
        /\ Put(w, d, [tree |-> d, marked |-> FALSE]) /\ UNCHANGED job
     \/ /\ Entry(w, d).tree # NoTree /\ Move(w, d, "place", "idle")
        /\ Opened(w, d, FALSE) /\ UNCHANGED cached
  /\ UNCHANGED <<serverVars, runtime>>

Validate(w, d) ==
  /\ Move(w, d, "validate", IF Compatible(w, d) THEN "mark" ELSE "discard")
  /\ UNCHANGED <<serverVars, cached, job, runtime>>

Mark(w, d) ==
  /\ Move(w, d, "mark", "idle")
  /\ Opened(w, d, Entry(w, d).tree # NoTree)
  /\ IF Entry(w, d).tree = NoTree THEN UNCHANGED cached
     ELSE Put(w, d, [Entry(w, d) EXCEPT !.marked = TRUE])
  /\ UNCHANGED <<serverVars, runtime>>

FailOpening(w, d) ==
  /\ opening[w][d] \notin {"idle", "discard"}
  /\ Move(w, d, opening[w][d], "idle") /\ Opened(w, d, FALSE)
  /\ UNCHANGED <<serverVars, cached, runtime>>

----------------------------------------------------------------------------
(* Processes stop, and start again with the same runtime or a later one.    *)

Restarted(p) == \E f \in runtime[p]..MaxRuntime : runtime' = [runtime EXCEPT ![p] = f]

RestartServer(s) ==
  /\ Restarted(s)
  /\ preparing' = [preparing EXCEPT ![s] = [c \in Commit |-> "idle"]]
  /\ operation' = [c \in Commit |->
       IF operation[c] # NoOperation /\ operation[c].by = s THEN NoOperation ELSE operation[c]]
  /\ UNCHANGED <<snapshot, prepared, artifacts, workerVars>>

RestartWorker(w) ==
  /\ Restarted(w)
  /\ opening' = [opening EXCEPT ![w] = [d \in Digest |-> "idle"]]
  /\ job' = [job EXCEPT ![w] = NoJob]
  /\ UNCHANGED <<serverVars, cached>>

ServerNext(s, c) ==
  \/ BeginSync(s, c) \/ ClearSnapshot(s, c) \/ CopySnapshot(s, c) \/ MarkSnapshot(s, c)
  \/ BeginDeploy(s, c) \/ HashPrepared(s, c) \/ Publish(s, c)
  \/ CheckPrepared(s, c) \/ RemovePrepared(s, c) \/ CopySource(s, c)
  \/ PrepareSource(s, c) \/ MarkPrepared(s, c) \/ FailPreparation(s, c)

WorkerNext(w, d) ==
  \/ StartJob(w, d) \/ CheckMarker(w, d) \/ UseHit(w, d)
  \/ FetchTo(w, d) \/ Remove(w, d) \/ Place(w, d)
  \/ Validate(w, d) \/ Mark(w, d) \/ FailOpening(w, d)

Next ==
  \/ \E s \in Server : RestartServer(s) \/ \E c \in Commit : ServerNext(s, c)
  \/ \E c \in Commit : GiveUp(c)
  \/ \E w \in Worker : RestartWorker(w) \/ EndJob(w) \/ \E d \in artifacts : WorkerNext(w, d)

Spec == Init /\ [][Next]_vars

----------------------------------------------------------------------------
\* SnapshotWhole: a revision that the source store calls complete is complete, wherever
\* a sync stopped or failed (Materialize and its marker).
SnapshotWhole == \A c \in Commit : snapshot[c].marked => snapshot[c].files = "all"

\* PublishedComplete: what is published is complete and was prepared by the runtime that
\* its fingerprint names, wherever a preparation stopped, also one whose deploy was given
\* up, and whatever an earlier runtime had left (ensureSource, Publish).
PublishedComplete == \A d \in artifacts : d.files = "all" /\ d.by = d.ready

\* RunsPinned: a job that runs does so in a directory that holds exactly the bundle it
\* is pinned to, prepared for the runtime of its worker (openExecutionBundle).
RunsPinned == \A w \in Worker : job[w].at = "running" =>
  /\ Entry(w, job[w].digest).tree = job[w].digest
  /\ job[w].digest.ready = runtime[w]
=============================================================================
