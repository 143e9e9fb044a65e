------------------------------ MODULE Routing ------------------------------
(***************************************************************************)
(* Where the jobs of an app go: the active release of the catalog with the *)
(* tag overrides of the operator (canonical_apps.go over local_catalog.go  *)
(* and postgres_catalog.go), the tag admission pins onto a job, the        *)
(* requeue that moves queued jobs to another tag, the registry of workers, *)
(* and the list of tags that shows an operator whether anybody serves them.*)
(*                                                                         *)
(* An override is a read of the whole deployment under a row lock and a    *)
(* write of it (the local store does both at once: one behaviour of this   *)
(* module; the audit record that follows, which nothing here reads back,   *)
(* is left out).  A requeue reads the catalog and moves the jobs in two    *)
(* calls; the move itself locks what it moves and is one step.  Of the     *)
(* queue, which has modules of its own, a job keeps what its tag depends   *)
(* on.                                                                     *)
(***************************************************************************)
EXTENDS Integers, FiniteSets

CONSTANTS
  Job, Action, ActionOf,        \* the jobs of one app
  Tag, NoTag, DefaultRouteTag,
  Release, AppTag, ActionTag,   \* what each release says of its routing
  Legacy,                       \* the catalog.json a server finds when it starts
  App,                          \* the target of an override that is no action
  Worker, WorkerTags,
  Patcher, Requeuer,
  WorkerLiveTTL, WorkerRegistryExpiry,
  MaxChanges,                   \* bound of the model: publications, rollbacks and overrides
  MaxBusy,                      \* bound of the model: requests in progress at a time
  Asked                         \* bound of the model: the overrides operators ask for

Override == Tag \union {NoTag}
Row == [release: Release, app: Override, action: [Action -> Override]]
HistoryId == 0..MaxChanges
NoId == -1

ASSUME RoutingAssumption ==
  /\ ActionOf \in [Job -> Action] /\ NoTag \notin Tag /\ DefaultRouteTag \in Tag
  /\ AppTag \in [Release -> Override]
  /\ \A r \in Release : \E offered \in SUBSET Action : ActionTag[r] \in [offered -> Override]
  /\ App \notin Action
  /\ WorkerTags \in [Worker -> SUBSET Tag]
  /\ WorkerLiveTTL \in Nat /\ WorkerRegistryExpiry \in Nat /\ WorkerLiveTTL < WorkerRegistryExpiry
  /\ MaxChanges \in Nat /\ MaxBusy \in Nat /\ Asked \subseteq Override
  /\ Legacy.row \in Row /\ DOMAIN Legacy.history \subseteq {0} /\ Legacy.id \in {NoId, 0}

\* The store that wrote the file activated a release together with its id.
ASSUME LegacyAssumption ==
  /\ \A id \in DOMAIN Legacy.history : Legacy.history[id] \in Release
  /\ Legacy.id # NoId => Legacy.id \in DOMAIN Legacy.history /\ Legacy.history[Legacy.id] = Legacy.row.release

VARIABLES
  active,    \* the deployment of the active release, <<>> or <<row>>
  activeId,  \* its history id
  history,   \* the releases recorded, by id
  changes,   \* how many changes the catalog has seen
  patch,     \* the overrides in progress
  requeue,   \* the requeues in progress
  job,       \* the jobs of the app
  worker,    \* the worker processes
  silence,   \* of each registered worker, the time since its last heartbeat
  view,      \* the list of tags in progress
  meant,     \* the row the operator's changes add up to
  watch      \* what has been true since that list began

catalog == <<active, activeId, history, changes, meant>>
operators == <<patch, requeue>>
registry == <<worker, silence>>
routingVars == <<catalog, operators, job, registry, view, watch>>

(* Routing *)

\* The first of these that is given.
GivenOr(tag, otherwise) == IF tag # NoTag THEN tag ELSE otherwise
EffectiveRouteTag(appTag, appOverride, actionTag, actionOverride) ==
  GivenOr(actionOverride, GivenOr(actionTag, GivenOr(appOverride, GivenOr(appTag, DefaultRouteTag))))

Actions(row) == DOMAIN ActionTag[row.release]

EffectiveRouteTagForAction(row, a) ==
  EffectiveRouteTag(AppTag[row.release], row.app, ActionTag[row.release][a], row.action[a])

Routes(row) == [a \in Actions(row) |-> EffectiveRouteTagForAction(row, a)]

\* A manifest carries no override, so neither does a publication.
Published(r) == [release |-> r, app |-> NoTag, action |-> [a \in Action |-> NoTag]]

Overridden(row, target, tag) ==
  IF target = App THEN [row EXCEPT !.app = tag] ELSE [row EXCEPT !.action[target] = tag]

(* The catalog *)

Deployed == active # <<>>
Deployment == active[1]

RowLocked == \E p \in Patcher : patch[p].pc = "locked"

\* What a file without the id of its active release means by it.
Backfilled(file) ==
  LET match == {i \in DOMAIN file.history : file.history[i] = file.row.release} IN
  IF file.id # NoId \/ match = {} THEN file.id ELSE CHOOSE i \in match : \A k \in match : k <= i

\* What the store has stays.
Merged(mine, imported) == [id \in DOMAIN mine \union DOMAIN imported |->
  IF id \in DOMAIN mine THEN mine[id] ELSE imported[id]]

\* A server starts, now or again, beside others.
ImportCatalog ==
  /\ history' = Merged(history, Legacy.history)
  /\ IF Deployed THEN UNCHANGED <<active, activeId, meant>>
     ELSE /\ active' = <<Legacy.row>>
          /\ activeId' = Backfilled(Legacy)
          /\ meant' = <<Legacy.row>>
  /\ UNCHANGED <<changes, operators, job, registry, view>>

Activate(id, r) ==
  /\ active' = <<Published(r)>>
  /\ activeId' = id
  /\ meant' = <<Published(r)>>
  /\ changes' = changes + 1
  /\ UNCHANGED <<operators, job, registry, view>>

PublishRelease(r) ==
  /\ changes < MaxChanges /\ ~RowLocked
  /\ history' = Merged([id \in {changes + 1} |-> r], history)
  /\ Activate(changes + 1, r)

RollbackRelease(id) ==
  /\ changes < MaxChanges /\ ~RowLocked /\ Deployed
  /\ id # activeId
  /\ Activate(id, history[id])
  /\ UNCHANGED history

(* Overrides: PatchApp and PatchAction *)

InProgress == Cardinality({p \in Patcher : patch[p].pc # "idle"}) + Cardinality({q \in Requeuer : requeue[q].pc # "idle"})
        + (IF view.pc = "idle" THEN 0 ELSE 1)
Arrives == InProgress < MaxBusy

NoPatch == [pc |-> "idle", target |-> App, tag |-> NoTag, row |-> <<>>]

\* Fault: the deployment is read without FOR UPDATE.
CanLockFault == TRUE

CanLock == ~RowLocked

PatchBegin(p, target, tag) ==
  /\ patch[p].pc = "idle" /\ Arrives /\ changes < MaxChanges
  /\ Deployed /\ CanLock
  /\ target \in Action => target \in Actions(Deployment)
  /\ patch' = [patch EXCEPT ![p] = [NoPatch EXCEPT !.pc = "locked", !.target = target, !.tag = tag, !.row = active]]
  /\ UNCHANGED <<catalog, requeue, job, registry, view>>

PatchCommit(p) ==
  /\ patch[p].pc = "locked"
  /\ active' = <<Overridden(patch[p].row[1], patch[p].target, patch[p].tag)>>
  /\ meant' = <<Overridden(meant[1], patch[p].target, patch[p].tag)>>
  /\ changes' = changes + 1
  /\ patch' = [patch EXCEPT ![p] = NoPatch]
  /\ UNCHANGED <<activeId, history, requeue, job, registry, view>>

\* The server dies, or the transaction fails.
PatchFails(p) ==
  /\ patch[p].pc # "idle"
  /\ patch' = [patch EXCEPT ![p] = NoPatch]
  /\ UNCHANGED <<catalog, requeue, job, registry, view>>

(* Requeue *)

NoRequeue == [pc |-> "idle", row |-> <<>>, only |-> {}]

RequeueRead(q, only) ==
  /\ requeue[q].pc = "idle" /\ Arrives /\ Deployed
  /\ requeue' = [requeue EXCEPT ![q] = [pc |-> "read", row |-> active, only |-> only]]
  /\ UNCHANGED <<catalog, patch, job, registry, view>>

\* Fault: the tag of the app, whatever its action says.
MovedFault(j, row, only) ==
  IF job[j].state = "queued" /\ ActionOf[j] \in only \intersect Actions(row)
  THEN EffectiveRouteTag(AppTag[row.release], row.app, NoTag, NoTag) ELSE job[j].tag

\* The tag a queued job goes to.
Moved(j, row, only) ==
  IF job[j].state = "queued" /\ ActionOf[j] \in only \intersect Actions(row)
  THEN EffectiveRouteTagForAction(row, ActionOf[j]) ELSE job[j].tag

RequeueMove(q) ==
  /\ requeue[q].pc = "read"
  /\ job' = [j \in Job |-> [job[j] EXCEPT !.tag = Moved(j, requeue[q].row[1], requeue[q].only)]]
  /\ requeue' = [requeue EXCEPT ![q] = NoRequeue]
  /\ UNCHANGED <<catalog, patch, registry, view>>

RequeueFails(q) ==
  /\ requeue[q].pc # "idle"
  /\ requeue' = [requeue EXCEPT ![q] = NoRequeue]
  /\ UNCHANGED <<catalog, patch, job, registry, view>>

(* Jobs *)

NoJob == [state |-> "none", pinned |-> NoTag, tag |-> NoTag]

\* Admission reads the deployment the run is pinned to ...
Admit(j) ==
  /\ job[j].state = "none"
  /\ Deployed /\ ActionOf[j] \in Actions(Deployment)
  /\ job' = [job EXCEPT ![j] = [NoJob EXCEPT !.state = "admitted",
                                 !.pinned = EffectiveRouteTagForAction(Deployment, ActionOf[j])]]
  /\ UNCHANGED <<catalog, operators, registry, view>>

\* ... and enqueues its job later; a retry and a resumed run enqueue another one.
Enqueue(j) ==
  /\ job[j].state \in {"admitted", "ended"}
  /\ job' = [job EXCEPT ![j].state = "queued", ![j].tag = job[j].pinned]
  /\ UNCHANGED <<catalog, operators, registry, view>>

ServesTag(w, tag) == WorkerTags[w] = {} \/ tag \in WorkerTags[w]

ClaimJob(j, w) ==
  /\ job[j].state = "queued" /\ worker[w] # "down" /\ ServesTag(w, job[j].tag)
  /\ job' = [job EXCEPT ![j].state = "running"]
  /\ UNCHANGED <<catalog, operators, registry, view>>

\* Its lease runs out.
GiveBack(j) ==
  /\ job[j].state = "running"
  /\ job' = [job EXCEPT ![j].state = "queued"]
  /\ UNCHANGED <<catalog, operators, registry, view>>

CompleteJob(j) ==
  /\ job[j].state = "running"
  /\ job' = [job EXCEPT ![j].state = "ended", ![j].tag = NoTag]
  /\ UNCHANGED <<catalog, operators, registry, view>>

(* Workers *)

others == <<catalog, operators, job, view>>

Beats(w) == [v \in DOMAIN silence \union {w} |-> IF v = w THEN 0 ELSE silence[v]]
Without(gone) == [w \in DOMAIN silence \ gone |-> silence[w]]

\* RegisterWorker, when a worker starts and when a heartbeat found no record.
RegisterWorker(w) ==
  /\ worker[w] \in {"down", "lost"}
  /\ worker' = [worker EXCEPT ![w] = "up"]
  /\ silence' = Beats(w)
  /\ UNCHANGED others

StartWorker(w) == worker[w] = "down" /\ RegisterWorker(w)
Reregister(w) == worker[w] = "lost" /\ RegisterWorker(w)

HeartbeatWorker(w) ==
  /\ worker[w] = "up"
  /\ IF w \in DOMAIN silence THEN silence' = Beats(w) /\ UNCHANGED worker
     ELSE worker' = [worker EXCEPT ![w] = "lost"] /\ UNCHANGED silence
  /\ UNCHANGED others

DeregisterWorker(w) ==
  /\ worker[w] # "down"
  /\ worker' = [worker EXCEPT ![w] = "down"]
  /\ silence' = Without({w})
  /\ UNCHANGED others

WorkerDies(w) ==
  /\ worker[w] # "down"
  /\ worker' = [worker EXCEPT ![w] = "down"]
  /\ UNCHANGED <<silence, others>>

Tick ==
  /\ \E w \in DOMAIN silence : silence[w] <= WorkerRegistryExpiry
  /\ silence' = [w \in DOMAIN silence |->
                  IF silence[w] <= WorkerRegistryExpiry THEN silence[w] + 1 ELSE silence[w]]
  /\ UNCHANGED <<worker, others>>

Live(w) == w \in DOMAIN silence /\ silence[w] <= WorkerLiveTTL

Expired == {w \in DOMAIN silence : silence[w] > WorkerRegistryExpiry}

(* The list of tags *)

NoView == [pc |-> "idle", tags |-> {}, jobs |-> {}, live |-> {}]

ViewCatalog ==
  /\ view.pc = "idle" /\ Arrives
  /\ view' = [NoView EXCEPT !.pc = "catalog",
                            !.tags = IF Deployed THEN {Routes(Deployment)[a] : a \in Actions(Deployment)} ELSE {}]
  /\ UNCHANGED <<catalog, operators, job, registry>>

InStore(j) == job[j].state \notin {"none", "admitted"}

ViewJobs ==
  /\ view.pc = "catalog"
  /\ view' = [view EXCEPT !.pc = "jobs", !.jobs = {j \in Job : InStore(j)}]
  /\ UNCHANGED <<catalog, operators, job, registry>>

\* Fault: the tag of the deployment the job's run is pinned to.
ViewJobFault(j) ==
  /\ view.pc = "jobs" /\ j \in view.jobs
  /\ view' = [view EXCEPT !.jobs = @ \ {j},
                          !.tags = IF job[j].state = "queued" THEN @ \union {job[j].pinned} ELSE @]
  /\ UNCHANGED <<catalog, operators, job, registry>>

\* Postgres reads the jobs one by one.
ViewJob(j) ==
  /\ view.pc = "jobs" /\ j \in view.jobs
  /\ view' = [view EXCEPT !.jobs = @ \ {j},
                          !.tags = IF job[j].state = "queued" THEN @ \union {job[j].tag} ELSE @]
  /\ UNCHANGED <<catalog, operators, job, registry>>

Served(tag) == \E w \in Worker : Live(w) /\ ServesTag(w, tag)

\* ListWorkers drops the records that have been silent for too long.
ViewWorkers ==
  /\ view.pc = "jobs" /\ view.jobs = {}
  /\ silence' = Without(Expired)
  /\ view' = [view EXCEPT !.pc = "answer", !.live = {t \in view.tags : Served(t)}]
  /\ UNCHANGED <<catalog, operators, job, worker>>

ViewEnds ==
  /\ view.pc # "idle"
  /\ view' = NoView
  /\ UNCHANGED <<catalog, operators, job, registry>>

(* The specification *)

Facts == [waiting |-> {<<j, job[j].tag>> : j \in {k \in Job : job[k].state = "queued"}},
          routed |-> IF Deployed THEN {Routes(Deployment)[a] : a \in Actions(Deployment)} ELSE {},
          served |-> {t \in Tag : Served(t)},
          unserved |-> {t \in Tag : ~Served(t)}]
NoFacts == [waiting |-> {}, routed |-> {}, served |-> {}, unserved |-> {}]

Watched ==
  watch' = IF view'.pc = "idle" THEN NoFacts
           ELSE IF view.pc = "idle" THEN Facts'
           ELSE [f \in DOMAIN watch |-> watch[f] \intersect Facts'[f]]

RoutingInit ==
  /\ active = <<>> /\ activeId = NoId /\ history = <<>> /\ changes = 0 /\ meant = <<>>
  /\ patch = [p \in Patcher |-> NoPatch]
  /\ requeue = [q \in Requeuer |-> NoRequeue]
  /\ job = [j \in Job |-> NoJob]
  /\ worker = [w \in Worker |-> "down"]
  /\ silence = <<>>
  /\ view = NoView
  /\ watch = NoFacts

Operate ==
  \/ ImportCatalog
  \/ \E r \in Release : PublishRelease(r)
  \/ \E id \in DOMAIN history : RollbackRelease(id)
  \/ \E p \in Patcher :
       \/ \E target \in Action \union {App}, tag \in Asked : PatchBegin(p, target, tag)
       \/ PatchCommit(p) \/ PatchFails(p)
  \/ \E q \in Requeuer :
       \/ \E only \in {Action} \union {{a} : a \in Action} : RequeueRead(q, only)
       \/ RequeueMove(q) \/ RequeueFails(q)

Work ==
  \/ \E j \in Job : Admit(j) \/ Enqueue(j) \/ GiveBack(j) \/ CompleteJob(j)
  \/ \E j \in Job, w \in Worker : ClaimJob(j, w)
  \/ \E w \in Worker : StartWorker(w) \/ Reregister(w) \/ HeartbeatWorker(w)
                       \/ DeregisterWorker(w) \/ WorkerDies(w)
  \/ Tick

View == ViewCatalog \/ ViewJobs \/ (\E j \in Job : ViewJob(j)) \/ ViewWorkers \/ ViewEnds

RoutingNext == (Operate \/ Work \/ View) /\ Watched

RoutingSpec == RoutingInit /\ [][RoutingNext]_routingVars
-----------------------------------------------------------------------------
(* Properties *)

\* The types of the state; only requests in progress remember a deployment.
RoutingTypeOK ==
  /\ active \in {<<>>} \union {<<row>> : row \in Row} /\ meant \in {<<>>} \union {<<row>> : row \in Row}
  /\ activeId \in HistoryId \union {NoId}
  /\ DOMAIN history \subseteq HistoryId /\ \A id \in DOMAIN history : history[id] \in Release
  /\ changes \in 0..MaxChanges
  /\ \A p \in Patcher : patch[p].pc \in {"idle", "locked"} /\ (patch[p].row = <<>> <=> patch[p].pc = "idle")
  /\ \A q \in Requeuer : requeue[q].pc \in {"idle", "read"} /\ (requeue[q].row = <<>> <=> requeue[q].pc = "idle")
  /\ job \in [Job -> [state: {"none", "admitted", "queued", "running", "ended"}, pinned: Override, tag: Override]]
  /\ \A j \in Job : job[j].state \in {"queued", "running"} => job[j].tag \in Tag
  /\ worker \in [Worker -> {"down", "up", "lost"}]
  /\ DOMAIN silence \subseteq Worker
  /\ \A w \in DOMAIN silence : silence[w] \in 0..(WorkerRegistryExpiry + 1)

\* The active release is what the operators' changes add up to: two overrides
\* at once both hold, an override never brings back the release it had read
\* before another was published, a server that starts on an old catalog.json
\* undoes nothing, and the active id names the release that is active.
NothingUndone ==
  /\ active = meant
  /\ Deployed /\ activeId # NoId => activeId \in DOMAIN history /\ history[activeId] = Deployment.release

\* A requeue that read the deployment which is still active when it moves the
\* jobs leaves none of those it was asked for queued under another tag,
\* wherever they stand: admitted before a change, given back, or retried with
\* the deployment of long ago.  (One that read an older deployment moves them
\* back: the operator has to ask again.)
RequeueCatchesUp ==
  [][\A q \in Requeuer : RequeueMove(q) /\ requeue[q].row = active =>
       \A j \in Job : job'[j].state = "queued" /\ ActionOf[j] \in requeue[q].only \intersect Actions(Deployment)
                        => job'[j].tag = Routes(Deployment)[ActionOf[j]]]_routingVars

\* The list of tags hides no queue: it shows the tag of every job that waited
\* under it, and of every action that routed to it, from its first read to its
\* answer, and says that somebody serves it if and only if somebody did, or
\* nobody did, for as long.
TagsAnswered ==
  view.pc = "answer" =>
    /\ \A waits \in watch.waiting : waits[2] \in view.tags
    /\ watch.routed \subseteq view.tags
    /\ view.tags \intersect watch.served \subseteq view.live
    /\ view.tags \intersect watch.unserved \intersect view.live = {}

=============================================================================
