--------------------------- MODULE ReleasePipeline ---------------------------
(***************************************************************************)
(* Releases of apps from Git sources: the sync, deploy and rollback        *)
(* handlers of internal/server and the release catalog of internal/state   *)
(* they share.  A handler runs in steps, one for each call that reads or   *)
(* changes shared state; handlers of several servers interleave.           *)
(*                                                                         *)
(* Distributed is the Postgres store, where an operation on a source holds *)
(* the server's mutex and a lease in the database that a goroutine renews; *)
(* otherwise the store is the local file and the mutex is all there is.    *)
(* What is left out: the registry of sources, bundles and their contents   *)
(* (building one may fail), audits, messages and imported catalogs.        *)
(***************************************************************************)
EXTENDS Integers, Sequences, SequencesExt, FiniteSets

CONSTANTS
  Source, Commit, App, OperationId, ServerId, NoSource, NoCommit,
  Nobody,       \* the holder of no lease
  Lost,         \* the holder id of an operation that is gone
  AppOf,        \* the app key in the manifest of a source's commit
  ServerOf,     \* the server that runs an operation
  Distributed,  \* TRUE for the Postgres store, FALSE for the local one
  LeaseTTL,     \* sourceOperationLeaseTTL
  RenewEvery,   \* the period of the renewing goroutine
  MaxEvents,    \* bound: publications and rollbacks of one behaviour
  MaxStalls,    \* bound: renewals that hang or fail
  MaxCrashes    \* bound: crashes of servers and releases of a lease that fail

\* How far an operation is: of a sync, of a deploy, of a rollback.
Syncing   == {"sync", "resolved", "saved"}
Deploying == {"deploy", "chosen", "built"}
OnSource  == Syncing \union Deploying

Operation == [phase : OnSource \union {"idle", "rollback"}, source : Source \union {NoSource},
              commit : Commit \union {NoCommit}, release : Nat,
              live : BOOLEAN,      \* its context is not canceled
              stalled : BOOLEAN]   \* its renewing goroutine is behind

Release == [source : Source, app : App, commit : Commit]
Event   == [release : Nat \ {0}, previous : Nat]
Lease   == [holder : OperationId \union {Nobody, Lost}, left : 0..LeaseTTL]

ASSUME ReleaseAssumption ==
  /\ AppOf \in [Source -> [Commit -> App]] /\ ServerOf \in [OperationId -> ServerId]
  /\ Distributed \in BOOLEAN /\ NoCommit \notin Commit /\ NoSource \notin Source
  /\ Nobody \notin OperationId /\ Lost \notin OperationId /\ Nobody # Lost
  /\ LeaseTTL \in Nat /\ RenewEvery \in Nat \ {0} /\ RenewEvery < LeaseTTL
  /\ MaxEvents \in Nat /\ MaxStalls \in Nat /\ MaxCrashes \in Nat

VARIABLES
  head,        \* the commit at the head of each source's branch, external
  candidates,  \* Snapshot.Candidates of each source, by their SyncedAt
  lease,       \* control_source_operation_lease
  history,     \* Snapshot.History; a release is known by its place
  active,      \* Snapshot.ActiveHistoryIDs, 0 is none
  marker,      \* Snapshot.SourceMarkers
  events,      \* the releases the control-plane events name, in order
  operation,   \* the handlers under way
  synced,      \* the commit the last sync of each source resolved and saved
  stalls, crashes

catalog == <<candidates, history, active, marker, events>>
vars == <<head, lease, operation, synced, stalls, crashes, catalog>>

FreeLease == [holder |-> Nobody, left |-> 0]
Idle == [phase |-> "idle", source |-> NoSource, commit |-> NoCommit, release |-> 0,
         live |-> TRUE, stalled |-> FALSE]

Init ==
  /\ head \in [Source -> Commit]
  /\ candidates = [s \in Source |-> <<>>]
  /\ lease = [s \in Source |-> FreeLease]
  /\ history = <<>> /\ events = <<>>
  /\ active = [a \in App |-> 0]
  /\ marker = [s \in Source |-> NoCommit]
  /\ operation = [o \in OperationId |-> Idle]
  /\ synced = [s \in Source |-> NoCommit]
  /\ stalls = 0 /\ crashes = 0

-----------------------------------------------------------------------------
(* The source operation: a mutex of the server and, when distributed, a lease. *)

Working(o) == operation[o].phase \in OnSource
WorkingOn(o, s) == Working(o) /\ operation[o].source = s

MutexHeld(v, s) == \E o \in OperationId : WorkingOn(o, s) /\ ServerOf[o] = v

\* Fault: the conflict clause has no WHERE.
AcquireLeaseFault(o, s) ==
  lease' = IF Distributed THEN [lease EXCEPT ![s] = [holder |-> o, left |-> LeaseTTL]] ELSE lease

AcquireLease(o, s) ==
  IF Distributed
  THEN /\ lease[s].left = 0
       /\ lease' = [lease EXCEPT ![s] = [holder |-> o, left |-> LeaseTTL]]
  ELSE UNCHANGED lease

Acquire(o, s, phase) ==
  /\ operation[o].phase = "idle"
  /\ ~MutexHeld(ServerOf[o], s)
  /\ AcquireLease(o, s)
  /\ operation' = [operation EXCEPT ![o].phase = phase, ![o].source = s]

\* Fault: the holder is not compared.
RenewLeaseFault(s, o) == lease[s].left > 0

RenewLease(s, o) == lease[s].holder = o /\ lease[s].left > 0

\* A tick of the renewing goroutine: no rows renewed cancels the context.
Renew(o) ==
  /\ Distributed /\ Working(o) /\ operation[o].live
  /\ lease[operation[o].source] # [holder |-> o, left |-> LeaseTTL]
  /\ LET s == operation[o].source
         renewed == RenewLease(s, o)
     IN /\ lease' = IF renewed THEN [lease EXCEPT ![s].left = LeaseTTL] ELSE lease
        /\ operation' = [operation EXCEPT ![o].live = renewed, ![o].stalled = FALSE]
  /\ UNCHANGED <<head, catalog, synced, stalls, crashes>>

\* A renewal that answers with an error cancels the context too.
RenewError(o) ==
  /\ Distributed /\ Working(o) /\ operation[o].live /\ stalls < MaxStalls
  /\ operation' = [operation EXCEPT ![o].live = FALSE]
  /\ stalls' = stalls + 1
  /\ UNCHANGED <<head, lease, catalog, synced, crashes>>

\* The goroutine's query hangs, which no timeout ends, or its ticker is late.
Stall(o) ==
  /\ Distributed /\ Working(o) /\ operation[o].live /\ ~operation[o].stalled
  /\ stalls < MaxStalls
  /\ operation' = [operation EXCEPT ![o].stalled = TRUE]
  /\ stalls' = stalls + 1
  /\ UNCHANGED <<head, lease, catalog, synced, crashes>>

\* The leases once the operations that hold them are gone.
Abandoned(gone) ==
  [s \in Source |-> IF lease[s].holder \in gone THEN [holder |-> Lost, left |-> lease[s].left]
                                                ELSE lease[s]]

\* The deferred release: the row goes if it is still this operation's, its error is ignored.
ReleaseLease(o) ==
  LET s == operation[o].source
      mine == Distributed /\ lease[s].holder = o
  IN \/ /\ lease' = IF mine THEN [lease EXCEPT ![s] = FreeLease] ELSE lease
        /\ UNCHANGED crashes
     \/ /\ mine /\ crashes < MaxCrashes
        /\ lease' = Abandoned({o})
        /\ crashes' = crashes + 1

End(o) ==
  /\ ReleaseLease(o)
  /\ operation' = [operation EXCEPT ![o] = Idle]

\* Any call on the way may fail, and under a canceled context it does.
Abort(o) ==
  /\ Working(o)
  /\ End(o)
  /\ UNCHANGED <<head, catalog, synced, stalls>>

Proceeds(o, phase) == operation[o].phase = phase /\ operation[o].live
-----------------------------------------------------------------------------
(* Sync: resolve the branch head, materialize it, save the candidate. *)

BeginSync(o, s) ==
  /\ Acquire(o, s, "sync")
  /\ UNCHANGED <<head, catalog, synced, stalls, crashes>>

Sync(o) ==
  /\ Proceeds(o, "sync")
  /\ operation' = [operation EXCEPT ![o].phase = "resolved",
                                    ![o].commit = head[operation[o].source]]
  /\ UNCHANGED <<head, lease, catalog, synced, stalls, crashes>>

\* A commit that was saved before keeps its record and its old SyncedAt.
Saved(saved, c) == IF c \in Range(saved) THEN saved ELSE Append(saved, c)

SaveReleaseCandidate(o) ==
  /\ Proceeds(o, "resolved")
  /\ LET s == operation[o].source
     IN candidates' = [candidates EXCEPT ![s] = Saved(@, operation[o].commit)]
  /\ synced' = [synced EXCEPT ![operation[o].source] = operation[o].commit]
  /\ operation' = [operation EXCEPT ![o].phase = "saved"]
  /\ UNCHANGED <<head, lease, history, active, marker, events, stalls, crashes>>

\* The registry of sources is marked, which is not part of this module.
MarkSynced(o) ==
  /\ Proceeds(o, "saved")
  /\ End(o)
  /\ UNCHANGED <<head, catalog, synced, stalls>>
-----------------------------------------------------------------------------
(* Deploy: take the latest candidate, build its bundle, publish it. *)

\* Operations that may still publish or roll back, for the bound.
Pending == {o \in OperationId : operation[o].phase \in Deploying \union {"rollback"}}
RoomForEvent == Len(events) + Cardinality(Pending) < MaxEvents

BeginDeploy(o, s) ==
  /\ RoomForEvent
  /\ Acquire(o, s, "deploy")
  /\ UNCHANGED <<head, catalog, synced, stalls, crashes>>

Latest(s) == Last(candidates[s])

GetLatestReleaseCandidate(o) ==
  /\ Proceeds(o, "deploy")
  /\ candidates[operation[o].source] # <<>>
  /\ operation' = [operation EXCEPT ![o].phase = "chosen",
                                    ![o].commit = Latest(operation[o].source)]
  /\ UNCHANGED <<head, lease, catalog, synced, stalls, crashes>>

BuildExecutionBundle(o) ==
  /\ Proceeds(o, "chosen")
  /\ operation' = [operation EXCEPT ![o].phase = "built"]
  /\ UNCHANGED <<head, lease, catalog, synced, stalls, crashes>>

\* Places in the history of an app; the last of them is latestReleaseHistory.
ReleasesOf(a) == {r \in DOMAIN history : history[r].app = a}
LatestRelease(a) == IF ReleasesOf(a) = {} THEN 0
                    ELSE CHOOSE r \in ReleasesOf(a) : \A q \in ReleasesOf(a) : q <= r

\* Fault: what was released last, as the local store has it.
PreviousReleaseFault(a) == LatestRelease(a)

\* The release an event calls the previous one: Postgres reads what is active.
PreviousRelease(a) == IF Distributed THEN active[a] ELSE LatestRelease(a)

\* Fault: the marker takes the latest candidate and not what is activated.
ActivatedFault(release, r, previous) ==
  /\ active' = [active EXCEPT ![release.app] = r]
  /\ marker' = [marker EXCEPT ![release.source] = Latest(release.source)]
  /\ events' = Append(events, [release |-> r, previous |-> previous])

Activated(release, r, previous) ==
  /\ active' = [active EXCEPT ![release.app] = r]
  /\ marker' = [marker EXCEPT ![release.source] = release.commit]
  /\ events' = Append(events, [release |-> r, previous |-> previous])

NewRelease == Len(history) + 1

PublishRelease(o) ==
  /\ Proceeds(o, "built")
  /\ LET s == operation[o].source
         published == [source |-> s, app |-> AppOf[s][operation[o].commit],
                       commit |-> operation[o].commit]
     IN /\ history' = Append(history, published)
        /\ Activated(published, NewRelease, PreviousRelease(published.app))
  /\ End(o)
  /\ UNCHANGED <<head, candidates, synced, stalls>>
-----------------------------------------------------------------------------
(* Rollback: no source operation, only the transaction of the store. *)

FindRelease(o, r) ==
  /\ operation[o].phase = "idle" /\ RoomForEvent
  /\ r \in DOMAIN history /\ active[history[r].app] # r
  /\ operation' = [operation EXCEPT ![o].phase = "rollback", ![o].release = r]
  /\ UNCHANGED <<head, lease, catalog, synced, stalls, crashes>>

RollbackRelease(o) ==
  /\ operation[o].phase = "rollback"
  /\ LET r == operation[o].release
         target == history[r]
     IN IF active[target.app] = r
        THEN UNCHANGED <<active, marker, events>>
        ELSE Activated(target, r, active[target.app])
  /\ operation' = [operation EXCEPT ![o] = Idle]
  /\ UNCHANGED <<head, lease, candidates, history, synced, stalls, crashes>>

\* Its bundle is not valid, or the caller left.
AbortRollback(o) ==
  /\ operation[o].phase = "rollback"
  /\ operation' = [operation EXCEPT ![o] = Idle]
  /\ UNCHANGED <<head, lease, catalog, synced, stalls, crashes>>
-----------------------------------------------------------------------------
(* The world: pushes, forced ones too, crashes of a server, and time. *)

Push(s, c) ==
  /\ c # head[s]
  /\ head' = [head EXCEPT ![s] = c]
  /\ UNCHANGED <<lease, catalog, operation, synced, stalls, crashes>>

On(v) == {o \in OperationId : ServerOf[o] = v /\ operation[o].phase # "idle"}

Crash(v) ==
  /\ On(v) # {} /\ crashes < MaxCrashes
  /\ operation' = [o \in OperationId |-> IF o \in On(v) THEN Idle ELSE operation[o]]
  /\ lease' = Abandoned(On(v))
  /\ crashes' = crashes + 1
  /\ UNCHANGED <<head, catalog, synced, stalls>>

\* An operation whose lease its goroutine renews in time.
Punctual(o) == Working(o) /\ operation[o].live /\ ~operation[o].stalled

\* Fault: the last tick of a lease never comes.
AgedFault(l) == [holder |-> l.holder, left |-> IF l.left > 1 THEN l.left - 1 ELSE l.left]

Aged(l) == [holder |-> l.holder, left |-> IF l.left > 0 THEN l.left - 1 ELSE 0]

Tick ==
  /\ Distributed
  /\ \E s \in Source : lease[s].left > 0
  /\ \A o \in OperationId :
       Punctual(o) => lease[operation[o].source].left > LeaseTTL - RenewEvery
  /\ lease' = [s \in Source |-> Aged(lease[s])]
  /\ UNCHANGED <<head, catalog, operation, synced, stalls, crashes>>

Handle(o) == \/ Sync(o) \/ SaveReleaseCandidate(o) \/ MarkSynced(o)
             \/ GetLatestReleaseCandidate(o) \/ BuildExecutionBundle(o) \/ PublishRelease(o)
             \/ RollbackRelease(o) \/ AbortRollback(o) \/ Abort(o)

Next ==
  \/ \E o \in OperationId :
       \/ \E s \in Source : BeginSync(o, s) \/ BeginDeploy(o, s)
       \/ \E r \in DOMAIN history : FindRelease(o, r)
       \/ Handle(o) \/ Renew(o) \/ RenewError(o) \/ Stall(o)
  \/ \E s \in Source, c \in Commit : Push(s, c)
  \/ \E v \in ServerId : Crash(v)
  \/ Tick

Spec == Init /\ [][Next]_vars

\* A handler runs to its end, the goroutine renews and time passes.
FairSpec ==
  /\ Spec /\ WF_vars(Tick)
  /\ \A o \in OperationId : WF_vars(Handle(o)) /\ WF_vars(Renew(o))
-----------------------------------------------------------------------------
(* Properties. *)

\* The operations, the leases and the catalog hold what their code types allow, and
\* every pointer into the history points at a release of the right app.
TypeOK ==
  /\ head \in [Source -> Commit]
  /\ candidates \in [Source -> Seq(Commit)]
  /\ lease \in [Source -> Lease]
  /\ history \in Seq(Release) /\ events \in Seq(Event)
  /\ active \in [App -> Nat] /\ marker \in [Source -> Commit \union {NoCommit}]
  /\ operation \in [OperationId -> Operation]
  /\ synced \in [Source -> Commit \union {NoCommit}]
  /\ stalls \in 0..MaxStalls /\ crashes \in 0..MaxCrashes
  /\ \A a \in App : active[a] # 0 => active[a] \in ReleasesOf(a)

\* Two operations whose leases are renewed in time are never at work on one source,
\* whatever stalls, crashes and lapses happened before: acquireGitSourceOperation.
OnePunctualOperation ==
  \A o, p \in OperationId :
    o # p /\ Punctual(o) /\ Punctual(p) => operation[o].source # operation[p].source

AppOfEvent(n) == history[events[n].release].app
SourceOfEvent(n) == history[events[n].release].source

\* The events of an app tell its story: each calls previous the release the one before
\* it activated, through publications of several sources and rollbacks that interleave.
EventsChain ==
  \A n \in DOMAIN events :
    LET before == {i \in 1..(n - 1) : AppOfEvent(i) = AppOfEvent(n)}
    IN /\ before = {} => events[n].previous = 0
       /\ \A i \in before : (\A k \in before : k <= i) => events[n].previous = events[i].release

\* What is active and what a source's marker says is what the last event of the app, or
\* of the source, announced: a rollback moves both back with the release it restores.
CatalogFollowsEvents ==
  \A n \in DOMAIN events :
    LET later == (n + 1)..Len(events)
        release == events[n].release
    IN /\ (\A k \in later : AppOfEvent(k) # AppOfEvent(n)) => active[AppOfEvent(n)] = release
       /\ (\A k \in later : SourceOfEvent(k) # SourceOfEvent(n))
            => marker[SourceOfEvent(n)] = history[release].commit

Publishes == Len(history') > Len(history)

\* As long as no renewal has stalled, a deploy publishes the candidate that is the latest
\* one at the moment of its publication, though it chose it before a build of minutes.
PublishesLatest ==
  [][Publishes /\ stalls = 0 => Last(history').commit = Latest(Last(history').source)]_vars

\* Whatever crashes, a source can be worked on again and again: no lease stays for ever.
SourceFreed == \A s \in Source : []<>(lease[s].left = 0)

-----------------------------------------------------------------------------
(* Statements of the documents that the pipeline does not keep: README.md. *)

\* docs/concepts/release-lifecycle.md:68: a publication takes the commit synchronized last.
PublishesLastSynced == [][Publishes => Last(history').commit = synced[Last(history').source]]_vars

\* docs/concepts/release-lifecycle.md:69: an operation publishes while it holds the lease.
PublishesUnderLease ==
  [][Publishes => \E o \in OperationId :
       /\ lease[Last(history').source].holder = o /\ lease[Last(history').source].left > 0
       /\ Proceeds(o, "built") /\ operation'[o].phase = "idle"]_vars
=============================================================================
