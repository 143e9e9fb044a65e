------------------------ MODULE ReleasePipelineProofs ------------------------
(* What holds of releases for every number of sources, commits, operations  *)
(* and servers: types, the source operation, and the story events tell.      *)
EXTENDS ReleasePipeline, WellFoundedInduction, TLAPS

\* What an operation holds in each phase is there when a later step uses it.
OperationsReady ==
  \A o \in OperationId :
    /\ Working(o) => operation[o].source \in Source
    /\ operation[o].phase \in {"resolved", "saved", "chosen", "built"} => operation[o].commit \in Commit
    /\ operation[o].phase = "rollback" => operation[o].release \in DOMAIN history

EventsNameReleases == \A n \in DOMAIN events : events[n].release \in DOMAIN history

TypeInv == TypeOK /\ OperationsReady /\ EventsNameReleases

\* The state a release operation finds at its start has the types the code gives it.
LEMMA InitTyped == Init => TypeInv
  BY ReleaseAssumption DEF Init, TypeInv, TypeOK, OperationsReady, EventsNameReleases, Idle,
     FreeLease, Lease, Operation, OnSource, Syncing, Deploying, Working

LEMMA IdleTyped == Idle \in Operation
  BY DEF Idle, Operation

\* Ending an operation, with or without its lease given back, keeps the types.
LEMMA EndTyped ==
  ASSUME TypeInv, NEW o \in OperationId, Working(o), End(o)
  PROVE  /\ lease' \in [Source -> Lease] /\ crashes' \in 0..MaxCrashes
         /\ operation' \in [OperationId -> Operation]
         /\ \A p \in OperationId : operation'[p] = IF p = o THEN Idle ELSE operation[p]
<1>1. /\ operation' \in [OperationId -> Operation]
      /\ \A p \in OperationId : operation'[p] = IF p = o THEN Idle ELSE operation[p]
  BY IdleTyped DEF TypeInv, TypeOK, End
<1>2. /\ FreeLease \in Lease
      /\ \A s \in Source : [holder |-> Lost, left |-> lease[s].left] \in Lease
  BY ReleaseAssumption DEF FreeLease, Lease, TypeInv, TypeOK
<1>3. lease' \in [Source -> Lease]
  BY ZenonT(60), <1>2 DEF End, ReleaseLease, Abandoned, TypeInv, TypeOK
<1>4. crashes' \in 0..MaxCrashes
  BY ReleaseAssumption DEF End, ReleaseLease, TypeInv, TypeOK
<1> QED BY <1>1, <1>3, <1>4

\* What the catalog and the world keep when a step only moves operations and leases.
KeepsCatalog == UNCHANGED <<catalog, synced>>

\* A step that only moves operations and leases keeps the types if those it moves have them.
LEMMA OperationStepTyped ==
  ASSUME TypeInv, KeepsCatalog,
         head' \in [Source -> Commit], lease' \in [Source -> Lease],
         operation' \in [OperationId -> Operation], OperationsReady',
         stalls' \in 0..MaxStalls, crashes' \in 0..MaxCrashes
  PROVE  TypeInv'
  BY DEF TypeInv, TypeOK, EventsNameReleases, KeepsCatalog, catalog, ReleasesOf

\* Acquiring a source keeps the types.
LEMMA AcquireTyped ==
  ASSUME TypeInv, NEW o \in OperationId, NEW s \in Source, NEW phase \in {"sync", "deploy"},
         Acquire(o, s, phase), UNCHANGED history
  PROVE  /\ lease' \in [Source -> Lease] /\ operation' \in [OperationId -> Operation]
         /\ OperationsReady'
<1>1. [holder |-> o, left |-> LeaseTTL] \in Lease
  BY ReleaseAssumption DEF Lease
<1>2. lease' \in [Source -> Lease]
  BY <1>1 DEF Acquire, AcquireLease, TypeInv, TypeOK
<1>3. operation' \in [OperationId -> Operation]
  <2>1. ASSUME NEW x \in Operation
        PROVE  [x EXCEPT !.phase = phase, !.source = s] \in Operation
    BY DEF Operation, OnSource, Syncing, Deploying
  <2>2. operation[o] \in Operation
    BY DEF TypeInv, TypeOK
  <2>3. operation' = [operation EXCEPT ![o] = [operation[o] EXCEPT !.phase = phase, !.source = s]]
    BY DEF Acquire, TypeInv, TypeOK
  <2> QED BY <2>1, <2>2, <2>3 DEF TypeInv, TypeOK
<1>4. \A p \in OperationId : p # o => operation'[p] = operation[p]
  BY DEF Acquire, TypeInv, TypeOK
<1>5. operation'[o].phase = phase /\ operation'[o].source = s
  BY DEF Acquire, TypeInv, TypeOK, Operation
<1> QED BY <1>2, <1>3, <1>4, <1>5 DEF OperationsReady, TypeInv, Working

\* A step of one handler that goes on keeps the types.
LEMMA AdvanceTyped ==
  ASSUME TypeInv, NEW o \in OperationId,
         Sync(o) \/ GetLatestReleaseCandidate(o) \/ BuildExecutionBundle(o)
           \/ Renew(o) \/ RenewError(o) \/ Stall(o) \/ (\E r \in DOMAIN history : FindRelease(o, r))
  PROVE  TypeInv'
<1>1. \A p \in OperationId : p # o => operation'[p] = operation[p]
  BY DEF TypeInv, TypeOK, Sync, GetLatestReleaseCandidate, BuildExecutionBundle, Renew, RenewError,
         Stall, FindRelease
<1>2. KeepsCatalog
  BY DEF KeepsCatalog, Sync, GetLatestReleaseCandidate, BuildExecutionBundle, Renew, RenewError,
         Stall, FindRelease
<1>3. head' \in [Source -> Commit] /\ stalls' \in 0..MaxStalls /\ crashes' \in 0..MaxCrashes
  BY ReleaseAssumption DEF TypeInv, TypeOK, Sync, GetLatestReleaseCandidate, BuildExecutionBundle,
     Renew, RenewError, Stall, FindRelease
<1>4. CASE Sync(o)
  <2>1. operation[o].source \in Source /\ head[operation[o].source] \in Commit
    BY <1>4 DEF Sync, Proceeds, TypeInv, TypeOK, OperationsReady, Working, OnSource, Syncing
  <2>2. operation' \in [OperationId -> Operation] /\ operation'[o].commit \in Commit
        /\ operation'[o].source \in Source /\ operation'[o].phase = "resolved"
    BY ZenonT(60), <1>4, <2>1 DEF Sync, TypeInv, TypeOK, Operation, OnSource, Syncing
  <2> QED BY <1>1, <1>2, <1>3, <1>4, <2>2, OperationStepTyped
          DEF Sync, TypeInv, TypeOK, OperationsReady, Working, KeepsCatalog, catalog
<1>5. CASE GetLatestReleaseCandidate(o)
  <2>1. operation[o].source \in Source /\ Latest(operation[o].source) \in Commit
    BY <1>5 DEF GetLatestReleaseCandidate, Proceeds, TypeInv, TypeOK, OperationsReady, Working,
                OnSource, Deploying, Latest, Last
  <2>2. operation' \in [OperationId -> Operation] /\ operation'[o].commit \in Commit
        /\ operation'[o].source \in Source /\ operation'[o].phase = "chosen"
    BY ZenonT(60), <1>5, <2>1 DEF GetLatestReleaseCandidate, TypeInv, TypeOK, Operation, OnSource, Deploying
  <2> QED BY <1>1, <1>2, <1>3, <1>5, <2>2, OperationStepTyped
          DEF GetLatestReleaseCandidate, TypeInv, TypeOK, OperationsReady, Working, KeepsCatalog, catalog
<1>6. CASE BuildExecutionBundle(o)
  <2>1. operation[o].source \in Source /\ operation[o].commit \in Commit
    BY <1>6 DEF BuildExecutionBundle, Proceeds, TypeInv, TypeOK, OperationsReady, Working,
                OnSource, Deploying
  <2>2. operation' \in [OperationId -> Operation] /\ operation'[o].commit \in Commit
        /\ operation'[o].source \in Source /\ operation'[o].phase = "built"
    BY ZenonT(60), <1>6, <2>1 DEF BuildExecutionBundle, TypeInv, TypeOK, Operation, OnSource, Deploying
  <2> QED BY <1>1, <1>2, <1>3, <1>6, <2>2, OperationStepTyped
          DEF BuildExecutionBundle, TypeInv, TypeOK, OperationsReady, Working, KeepsCatalog, catalog
<1>7. CASE Renew(o) \/ RenewError(o) \/ Stall(o)
  <2>1. /\ operation' \in [OperationId -> Operation]
        /\ operation'[o].phase = operation[o].phase /\ operation'[o].source = operation[o].source
        /\ operation'[o].commit = operation[o].commit /\ operation'[o].release = operation[o].release
    <3> DEFINE Same(x, y) == /\ y \in Operation /\ y.phase = x.phase /\ y.source = x.source
                             /\ y.commit = x.commit /\ y.release = x.release
    <3>1. ASSUME NEW x \in Operation, NEW l \in BOOLEAN, NEW w \in BOOLEAN
          PROVE  /\ Same(x, [x EXCEPT !.live = l, !.stalled = w])
                 /\ Same(x, [x EXCEPT !.live = l]) /\ Same(x, [x EXCEPT !.stalled = w])
      BY DEF Operation
    <3>2. operation[o] \in Operation
      BY DEF TypeInv, TypeOK
    <3>3. ASSUME NEW y, Same(operation[o], y), operation' = [operation EXCEPT ![o] = y]
          PROVE  operation' \in [OperationId -> Operation] /\ Same(operation[o], operation'[o])
      BY <3>3 DEF TypeInv, TypeOK
    <3>4. CASE Renew(o)
      <4> DEFINE renewed == RenewLease(operation[o].source, o)
      <4>1. renewed \in BOOLEAN
        BY DEF RenewLease
      <4>2. operation' = [operation EXCEPT ![o] = [operation[o] EXCEPT !.live = renewed,
                                                                     !.stalled = FALSE]]
        BY <3>4 DEF Renew, TypeInv, TypeOK
      <4>3. Same(operation[o], [operation[o] EXCEPT !.live = renewed, !.stalled = FALSE])
        BY <3>1, <3>2, <4>1
      <4> HIDE DEF renewed, Same
      <4>4. Same(operation[o], operation'[o]) /\ operation' \in [OperationId -> Operation]
        BY <3>3, <4>2, <4>3
      <4> QED BY <4>4 DEF Same
    <3>5. CASE RenewError(o)
      <4>1. operation' = [operation EXCEPT ![o] = [operation[o] EXCEPT !.live = FALSE]]
        BY <3>5 DEF RenewError, TypeInv, TypeOK
      <4>2. Same(operation[o], [operation[o] EXCEPT !.live = FALSE])
        BY <3>1, <3>2
      <4> QED BY <3>3, <4>1, <4>2
    <3>6. CASE Stall(o)
      <4>1. operation' = [operation EXCEPT ![o] = [operation[o] EXCEPT !.stalled = TRUE]]
        BY <3>6 DEF Stall, TypeInv, TypeOK
      <4>2. Same(operation[o], [operation[o] EXCEPT !.stalled = TRUE])
        BY <3>1, <3>2
      <4> QED BY <3>3, <4>1, <4>2
    <3> QED BY <1>7, <3>4, <3>5, <3>6
  <2>2. lease' \in [Source -> Lease]
    <3>1. ASSUME NEW l \in Lease PROVE [l EXCEPT !.left = LeaseTTL] \in Lease
      BY ReleaseAssumption DEF Lease
    <3>2. \A s \in Source : lease[s] \in Lease
      BY DEF TypeInv, TypeOK
    <3>3. CASE Renew(o)
      <4>1. lease' = lease \/ lease' = [lease EXCEPT ![operation[o].source] =
                                         [lease[operation[o].source] EXCEPT !.left = LeaseTTL]]
        BY <3>3 DEF Renew
      <4>2. operation[o].source \in Source
        BY <3>3 DEF Renew, TypeInv, OperationsReady
      <4> QED BY ZenonT(60), <3>1, <3>2, <4>1, <4>2 DEF TypeInv, TypeOK
    <3> QED BY <1>7, <3>3 DEF RenewError, Stall, TypeInv, TypeOK
  <2>3. OperationsReady'
    BY <1>1, <1>2, <2>1 DEF OperationsReady, Working, TypeInv, TypeOK, KeepsCatalog, catalog
  <2> QED BY <1>2, <1>3, <2>1, <2>2, <2>3, OperationStepTyped
<1>8. CASE \E r \in DOMAIN history : FindRelease(o, r)
  <2>1. PICK r \in DOMAIN history : FindRelease(o, r)
    BY <1>8
  <2>2. operation' \in [OperationId -> Operation] /\ operation'[o].phase = "rollback"
        /\ operation'[o].release = r
    <3>1. r \in Nat
      BY DEF TypeInv, TypeOK
    <3>2. ASSUME NEW x \in Operation
          PROVE  [x EXCEPT !.phase = "rollback", !.release = r] \in Operation
      BY <3>1 DEF Operation
    <3>3. operation' = [operation EXCEPT ![o] = [operation[o] EXCEPT !.phase = "rollback",
                                                                   !.release = r]]
      BY <2>1 DEF FindRelease, TypeInv, TypeOK
    <3>4. operation' \in [OperationId -> Operation]
      BY <3>2, <3>3 DEF TypeInv, TypeOK
    <3>5. DOMAIN operation[o] = {"phase", "source", "commit", "release", "live", "stalled"}
      BY DEF TypeInv, TypeOK, Operation
    <3> QED BY <3>3, <3>4, <3>5 DEF TypeInv, TypeOK
  <2> QED BY <1>1, <1>2, <1>3, <2>1, <2>2, OperationStepTyped
          DEF FindRelease, TypeInv, TypeOK, OperationsReady, Working, OnSource, Syncing, Deploying,
              KeepsCatalog, catalog
<1> QED BY <1>4, <1>5, <1>6, <1>7, <1>8

\* Activating a release that is in the history keeps the catalog's types.
LEMMA ActivatedTyped ==
  ASSUME TypeInv, NEW release, NEW r, NEW previous \in Nat, Activated(release, r, previous),
         history' \in Seq(Release), Len(history) <= Len(history'),
         \A i \in DOMAIN history : history'[i] = history[i],
         r \in DOMAIN history', release = history'[r]
  PROVE  /\ active' \in [App -> Nat] /\ marker' \in [Source -> Commit \union {NoCommit}]
         /\ events' \in Seq(Event) /\ EventsNameReleases'
         /\ \A a \in App : active'[a] # 0 => active'[a] \in ReleasesOf(a)'
<1>1. r \in Nat \ {0} /\ release \in Release
  OBVIOUS
<1>2. [release |-> r, previous |-> previous] \in Event
  BY <1>1 DEF Event
<1>3. release.app \in App /\ release.source \in Source /\ release.commit \in Commit
  BY <1>1 DEF Release
<1>4. active' \in [App -> Nat] /\ marker' \in [Source -> Commit \union {NoCommit}]
  BY <1>1, <1>3 DEF Activated, TypeInv, TypeOK
<1>5. events' \in Seq(Event)
  BY <1>2 DEF Activated, TypeInv, TypeOK
<1>6. EventsNameReleases'
  <2>1. \A n \in DOMAIN events : events'[n] = events[n] /\ events[n].release \in DOMAIN history'
    BY DEF Activated, TypeInv, TypeOK, EventsNameReleases
  <2>2. DOMAIN events' = DOMAIN events \union {Len(events) + 1}
        /\ events'[Len(events) + 1] = [release |-> r, previous |-> previous]
    BY DEF Activated, TypeInv, TypeOK
  <2> QED BY <2>1, <2>2 DEF EventsNameReleases
<1>7. ASSUME NEW a \in App, active'[a] # 0 PROVE active'[a] \in ReleasesOf(a)'
  <2>1. CASE a = release.app
    BY <2>1, <1>3 DEF Activated, TypeInv, TypeOK, ReleasesOf
  <2>2. CASE a # release.app
    <3>1. active'[a] = active[a] /\ active[a] \in DOMAIN history /\ history[active[a]].app = a
      BY <1>7, <2>2 DEF Activated, TypeInv, TypeOK, ReleasesOf
    <3> QED BY <3>1 DEF ReleasesOf, TypeInv, TypeOK
  <2> QED BY <2>1, <2>2
<1> QED BY <1>4, <1>5, <1>6, <1>7

\* The release LatestRelease picks, if there is one, is the app's.
LEMMA LatestReleaseTyped ==
  ASSUME TypeOK, NEW a \in App
  PROVE  LatestRelease(a) \in Nat
<1>1. CASE ReleasesOf(a) = {}
  BY <1>1 DEF LatestRelease
<1>2. CASE ReleasesOf(a) # {}
  <2>1. ReleasesOf(a) \subseteq 0..Len(history) /\ Len(history) \in Nat
    BY DEF ReleasesOf, TypeOK
  <2> DEFINE distances == {d \in Nat : Len(history) - d \in ReleasesOf(a)}
  <2>2. PICK d \in distances : \A e \in distances : <<e, d>> \notin OpToRel(<, Nat)
    <3>1. distances \subseteq Nat /\ distances # {}
      <4>1. PICK q \in ReleasesOf(a) : TRUE
        BY <1>2
      <4>2. Len(history) - q \in Nat /\ Len(history) - (Len(history) - q) = q
        BY <2>1
      <4> QED BY <4>2
    <3> QED BY <3>1, NatLessThanWellFounded, WFMin
  <2>3. \A e \in distances : ~(e < d)
    BY <2>2 DEF OpToRel
  <2>4. Len(history) - d \in ReleasesOf(a)
        /\ \A q \in ReleasesOf(a) : q <= Len(history) - d
    <3>1. ASSUME NEW q \in ReleasesOf(a) PROVE q <= Len(history) - d
      <4>1. Len(history) - q \in distances
        BY <2>1
      <4> QED BY <2>1, <2>3, <4>1
    <3> QED BY <3>1
  <2> QED BY <1>2, <2>1, <2>4 DEF LatestRelease
<1> QED BY <1>1, <1>2

\* A publication keeps the types.
LEMMA PublishTyped ==
  ASSUME TypeInv, NEW o \in OperationId, PublishRelease(o)
  PROVE  TypeInv'
<1> DEFINE s == operation[o].source
           published == [source |-> s, app |-> AppOf[s][operation[o].commit],
                         commit |-> operation[o].commit]
<1>1. s \in Source /\ operation[o].commit \in Commit /\ Working(o)
  BY DEF PublishRelease, Proceeds, TypeInv, OperationsReady, Working, OnSource, Deploying
<1>2. published.app \in App /\ published \in Release
  BY <1>1, ReleaseAssumption DEF Release
<1>3. /\ history' = Append(history, published) /\ End(o)
      /\ Activated(published, Len(history) + 1, PreviousRelease(published.app))
      /\ head' = head /\ candidates' = candidates /\ synced' = synced /\ stalls' = stalls
  BY DEF PublishRelease, NewRelease
<1> HIDE DEF published, s
<1>4. PreviousRelease(published.app) \in Nat
  BY <1>2, LatestReleaseTyped DEF PreviousRelease, TypeInv, TypeOK
<1>5. /\ history' \in Seq(Release) /\ Len(history) + 1 \in DOMAIN history'
      /\ history'[Len(history) + 1] = published /\ Len(history) <= Len(history')
      /\ \A i \in DOMAIN history : history'[i] = history[i]
      /\ DOMAIN history \subseteq DOMAIN history'
  BY <1>2, <1>3 DEF TypeInv, TypeOK
<1>6. /\ active' \in [App -> Nat] /\ marker' \in [Source -> Commit \union {NoCommit}]
      /\ events' \in Seq(Event) /\ EventsNameReleases'
      /\ \A a \in App : active'[a] # 0 => active'[a] \in ReleasesOf(a)'
  BY <1>3, <1>4, <1>5, ActivatedTyped
<1>7. /\ lease' \in [Source -> Lease] /\ crashes' \in 0..MaxCrashes
      /\ operation' \in [OperationId -> Operation]
      /\ \A p \in OperationId : operation'[p] = IF p = o THEN Idle ELSE operation[p]
  BY <1>1, <1>3, EndTyped
<1>8. OperationsReady'
  BY <1>5, <1>7 DEF OperationsReady, TypeInv, Working, Idle, OnSource, Syncing, Deploying
<1> QED BY <1>3, <1>5, <1>6, <1>7, <1>8 DEF TypeInv, TypeOK

\* A rollback keeps the types, whether it finds its release active already or not.
LEMMA RollbackTyped ==
  ASSUME TypeInv, NEW o \in OperationId, RollbackRelease(o)
  PROVE  TypeInv'
<1> DEFINE r == operation[o].release
<1>1. r \in DOMAIN history /\ history[r] \in Release /\ active[history[r].app] \in Nat
  <2>1. r \in DOMAIN history
    BY DEF RollbackRelease, TypeInv, OperationsReady
  <2>2. history[r] \in Release
    BY <2>1 DEF TypeInv, TypeOK
  <2> QED BY <2>1, <2>2 DEF TypeInv, TypeOK, Release
<1>2. /\ operation' = [operation EXCEPT ![o] = Idle]
      /\ history' = history /\ UNCHANGED <<head, lease, candidates, synced, stalls, crashes>>
      /\ \/ UNCHANGED <<active, marker, events>>
         \/ Activated(history[r], r, active[history[r].app])
  BY DEF RollbackRelease
<1> HIDE DEF r
<1>3. operation' \in [OperationId -> Operation] /\ OperationsReady'
  BY <1>2, IdleTyped DEF TypeInv, TypeOK, OperationsReady, Working, Idle, OnSource, Syncing, Deploying
<1>4. CASE UNCHANGED <<active, marker, events>>
  BY <1>2, <1>3, <1>4 DEF TypeInv, TypeOK, EventsNameReleases, ReleasesOf
<1>5. CASE Activated(history[r], r, active[history[r].app])
  <2>1. /\ history' \in Seq(Release) /\ Len(history) <= Len(history')
        /\ \A i \in DOMAIN history : history'[i] = history[i]
        /\ r \in DOMAIN history' /\ history[r] = history'[r]
    BY <1>1, <1>2 DEF TypeInv, TypeOK
  <2>2. /\ active' \in [App -> Nat] /\ marker' \in [Source -> Commit \union {NoCommit}]
        /\ events' \in Seq(Event) /\ EventsNameReleases'
        /\ \A a \in App : active'[a] # 0 => active'[a] \in ReleasesOf(a)'
    BY <1>1, <1>5, <2>1, ActivatedTyped
  <2> QED BY <1>2, <1>3, <2>1, <2>2 DEF TypeInv, TypeOK
<1> QED BY <1>2, <1>4, <1>5

\* Saving a candidate keeps the types.
LEMMA SaveTyped ==
  ASSUME TypeInv, NEW o \in OperationId, SaveReleaseCandidate(o)
  PROVE  TypeInv'
<1> DEFINE s == operation[o].source
           c == operation[o].commit
<1>1. s \in Source /\ c \in Commit
  BY DEF SaveReleaseCandidate, Proceeds, TypeInv, OperationsReady, Working, OnSource, Syncing
<1>2. Saved(candidates[s], c) \in Seq(Commit)
  BY <1>1 DEF Saved, TypeInv, TypeOK
<1>3. candidates' \in [Source -> Seq(Commit)] /\ synced' \in [Source -> Commit \union {NoCommit}]
  BY <1>1, <1>2 DEF SaveReleaseCandidate, TypeInv, TypeOK
<1>4. /\ operation' \in [OperationId -> Operation]
      /\ operation'[o].source = s /\ operation'[o].commit = c /\ operation'[o].phase = "saved"
      /\ \A p \in OperationId : p # o => operation'[p] = operation[p]
  <2>1. ASSUME NEW x \in Operation
        PROVE  /\ [x EXCEPT !.phase = "saved"] \in Operation
               /\ [x EXCEPT !.phase = "saved"].source = x.source
               /\ [x EXCEPT !.phase = "saved"].commit = x.commit
               /\ [x EXCEPT !.phase = "saved"].phase = "saved"
    BY DEF Operation, OnSource, Syncing
  <2>2. operation[o] \in Operation
        /\ operation' = [operation EXCEPT ![o] = [operation[o] EXCEPT !.phase = "saved"]]
    BY DEF SaveReleaseCandidate, TypeInv, TypeOK
  <2> QED BY <2>1, <2>2 DEF TypeInv, TypeOK
<1>5. OperationsReady'
  BY <1>1, <1>4 DEF SaveReleaseCandidate, OperationsReady, TypeInv, Working
<1> QED BY <1>3, <1>4, <1>5
        DEF SaveReleaseCandidate, TypeInv, TypeOK, EventsNameReleases, ReleasesOf

\* Ends, crashes, pushes and ticks keep the types.
LEMMA WorldTyped ==
  ASSUME TypeInv,
         \/ \E o \in OperationId : MarkSynced(o) \/ Abort(o) \/ AbortRollback(o)
         \/ \E s \in Source, c \in Commit : Push(s, c)
         \/ \E v \in ServerId : Crash(v)
         \/ Tick
  PROVE  TypeInv'
<1>1. ASSUME NEW o \in OperationId, MarkSynced(o) \/ Abort(o) PROVE TypeInv'
  <2>1. End(o) /\ Working(o) /\ KeepsCatalog /\ head' = head /\ stalls' = stalls
    BY <1>1 DEF MarkSynced, Abort, Proceeds, Working, OnSource, Syncing, KeepsCatalog
  <2>2. /\ lease' \in [Source -> Lease] /\ crashes' \in 0..MaxCrashes
        /\ operation' \in [OperationId -> Operation]
        /\ \A p \in OperationId : operation'[p] = IF p = o THEN Idle ELSE operation[p]
    BY <2>1, EndTyped
  <2>3. OperationsReady'
    BY <2>1, <2>2 DEF OperationsReady, TypeInv, Working, Idle, OnSource, Syncing, Deploying,
                      KeepsCatalog, catalog
  <2> QED BY <2>1, <2>2, <2>3, OperationStepTyped DEF TypeInv, TypeOK
<1>2. ASSUME NEW o \in OperationId, AbortRollback(o) PROVE TypeInv'
  <2>1. KeepsCatalog /\ UNCHANGED <<head, lease, stalls, crashes>>
        /\ operation' = [operation EXCEPT ![o] = Idle]
    BY <1>2 DEF AbortRollback, KeepsCatalog
  <2>2. operation' \in [OperationId -> Operation] /\ OperationsReady'
    BY <2>1, IdleTyped DEF TypeInv, TypeOK, OperationsReady, Working, Idle, OnSource, Syncing,
                           Deploying, KeepsCatalog, catalog
  <2> QED BY <2>1, <2>2, OperationStepTyped DEF TypeInv, TypeOK
<1>3. ASSUME NEW s \in Source, NEW c \in Commit, Push(s, c) PROVE TypeInv'
  BY <1>3, OperationStepTyped
     DEF Push, TypeInv, TypeOK, KeepsCatalog, catalog, OperationsReady, Working
<1>4. \A s \in Source : /\ [holder |-> Lost, left |-> lease[s].left] \in Lease
                        /\ Aged(lease[s]) \in Lease
  BY ReleaseAssumption DEF Lease, Aged, TypeInv, TypeOK
<1>5. ASSUME NEW v \in ServerId, Crash(v) PROVE TypeInv'
  <2>1. lease' \in [Source -> Lease] /\ crashes' \in 0..MaxCrashes
    BY <1>4, <1>5, ReleaseAssumption DEF Crash, Abandoned, TypeInv, TypeOK
  <2>2. operation' \in [OperationId -> Operation] /\ OperationsReady'
    BY <1>5, IdleTyped DEF Crash, TypeInv, TypeOK, OperationsReady, Working, Idle, OnSource,
                           Syncing, Deploying, catalog
  <2> QED BY <1>5, <2>1, <2>2, OperationStepTyped DEF Crash, TypeInv, TypeOK, KeepsCatalog
<1>6. CASE Tick
  <2>1. lease' \in [Source -> Lease]
    BY <1>4, <1>6 DEF Tick
  <2> QED BY <1>6, <2>1, OperationStepTyped
          DEF Tick, TypeInv, TypeOK, KeepsCatalog, catalog, OperationsReady, Working
<1> QED BY <1>1, <1>2, <1>3, <1>5, <1>6

\* Every step keeps the types, with what operations hold in each phase.
LEMMA TypeStep ==
  ASSUME TypeInv, [Next]_vars
  PROVE  TypeInv'
<1>1. ASSUME NEW o \in OperationId, NEW s \in Source, BeginSync(o, s) \/ BeginDeploy(o, s)
      PROVE  TypeInv'
  <2>1. PICK phase \in {"sync", "deploy"} : Acquire(o, s, phase)
    BY <1>1 DEF BeginSync, BeginDeploy
  <2>2. KeepsCatalog /\ UNCHANGED <<head, stalls, crashes>>
    BY <1>1 DEF BeginSync, BeginDeploy, KeepsCatalog
  <2> QED BY <2>1, <2>2, AcquireTyped, OperationStepTyped
          DEF TypeInv, TypeOK, KeepsCatalog, catalog
<1>2. CASE UNCHANGED vars
  BY <1>2 DEF vars, catalog, TypeInv, TypeOK, OperationsReady, EventsNameReleases, Working, ReleasesOf
<1> QED BY <1>1, <1>2, AdvanceTyped, PublishTyped, RollbackTyped, SaveTyped, WorldTyped
        DEF Next, Handle

\* The release pipeline keeps its types, and every pointer into the history of releases
\* points at a release of the right app: the catalog of internal/state.
THEOREM ReleaseTypesCorrect == Spec => []TypeOK
<1>1. TypeInv => TypeOK
  BY DEF TypeInv
<1> QED BY <1>1, InitTyped, TypeStep, PTL DEF Spec
-----------------------------------------------------------------------------
(* The source operation. *)

\* The mutex: operations of one server are never at work on one source.
OneOperationPerServer ==
  \A o, p \in OperationId :
    o # p /\ Working(o) /\ Working(p) /\ ServerOf[o] = ServerOf[p]
      => operation[o].source # operation[p].source

\* The lease: an operation that renews in time holds the lease of its source, unexpired.
Holds(o) == lease[operation[o].source].holder = o /\ lease[operation[o].source].left > 0
PunctualHolds == Distributed => \A o \in OperationId : Punctual(o) => Holds(o)

OperationInv == TypeInv /\ OneOperationPerServer /\ PunctualHolds

LEMMA InitOperation == Init => OperationInv
  BY InitTyped DEF Init, OperationInv, OneOperationPerServer, PunctualHolds, Punctual, Working,
                   Idle, OnSource, Syncing, Deploying

\* A step that begins no work and takes no lease from a punctual holder keeps both.
LEMMA OperationKept ==
  ASSUME OperationInv, TypeInv',
         \A p \in OperationId : /\ Working(p)' => Working(p) /\ operation'[p].source = operation[p].source
                                /\ Punctual(p)' => Punctual(p),
         Distributed => \A p \in OperationId :
           Punctual(p)' /\ Punctual(p) /\ Holds(p) /\ operation'[p].source = operation[p].source => Holds(p)'
  PROVE  OperationInv'
<1>1. \A p \in OperationId : Punctual(p)' => Working(p)'
  BY DEF Punctual
<1>2. PunctualHolds'
  <2>1. ASSUME Distributed, NEW p \in OperationId, Punctual(p)' PROVE Holds(p)'
    <3>1. Punctual(p) /\ operation'[p].source = operation[p].source
      BY <1>1, <2>1 DEF Punctual, Working
    <3>2. Holds(p)
      BY <2>1, <3>1 DEF OperationInv, PunctualHolds
    <3> QED BY <2>1, <3>1, <3>2 DEF Punctual, Working, Holds
  <2> QED BY <2>1 DEF PunctualHolds
<1>3. OneOperationPerServer'
  <2>1. ASSUME NEW o \in OperationId, NEW p \in OperationId, o # p, Working(o)', Working(p)',
               ServerOf[o] = ServerOf[p]
        PROVE  operation'[o].source # operation'[p].source
    <3>1. /\ Working(o) /\ operation'[o].source = operation[o].source
          /\ Working(p) /\ operation'[p].source = operation[p].source
      BY <2>1 DEF Working
    <3> QED BY <2>1, <3>1 DEF OperationInv, OneOperationPerServer
  <2> QED BY <2>1 DEF OneOperationPerServer
<1> QED BY <1>2, <1>3 DEF OperationInv

\* Acquiring a source takes it from nobody who is punctual.
LEMMA AcquireSafe ==
  ASSUME OperationInv, TypeInv', NEW o \in OperationId, NEW s \in Source,
         NEW phase \in {"sync", "deploy"}, Acquire(o, s, phase)
  PROVE  OperationInv'
<1>1. /\ \A p \in OperationId : p # o => operation'[p] = operation[p]
      /\ operation'[o].phase = phase /\ operation'[o].source = s
  BY DEF Acquire, OperationInv, TypeInv, TypeOK, Operation
<1>2. OneOperationPerServer'
  <2>1. \A p \in OperationId : p # o => (Working(p)' <=> Working(p))
    BY <1>1 DEF Working
  <2>2. \A p \in OperationId : Working(p) /\ operation[p].source = s => ServerOf[p] # ServerOf[o]
    BY DEF Acquire, MutexHeld, WorkingOn
  <2> QED BY <1>1, <2>1, <2>2 DEF OperationInv, OneOperationPerServer
<1>3. ASSUME Distributed, NEW p \in OperationId, Punctual(p)' PROVE Holds(p)'
  <2>1. /\ lease[s].left = 0 /\ lease'[s] = [holder |-> o, left |-> LeaseTTL]
        /\ \A q \in Source : q # s => lease'[q] = lease[q]
    BY <1>3 DEF Acquire, AcquireLease, OperationInv, TypeInv, TypeOK
  <2>2. CASE p = o
    BY <1>1, <2>1, <2>2, ReleaseAssumption DEF Holds
  <2>3. CASE p # o
    <3>1. Punctual(p) /\ Holds(p) /\ operation[p].source \in Source
      BY <1>1, <1>3, <2>3 DEF OperationInv, PunctualHolds, Punctual, Working, TypeInv, OperationsReady
    <3> QED BY <1>1, <2>1, <2>3, <3>1 DEF Holds
  <2> QED BY <2>2, <2>3
<1> QED BY <1>2, <1>3 DEF OperationInv, PunctualHolds

\* Ending an operation gives back no lease but its own.
LEMMA EndSafe ==
  ASSUME OperationInv, TypeInv', NEW o \in OperationId, Working(o), End(o)
  PROVE  OperationInv'
<1>1. \A p \in OperationId : operation'[p] = IF p = o THEN Idle ELSE operation[p]
  BY EndTyped DEF OperationInv
<1>2. \A p \in OperationId :
        /\ Working(p)' => Working(p) /\ operation'[p].source = operation[p].source
        /\ Punctual(p)' => Punctual(p) /\ p # o
  BY <1>1 DEF Working, Punctual, Idle, OnSource, Syncing, Deploying
<1>3. ASSUME NEW p \in OperationId, Punctual(p)', Punctual(p), Holds(p),
             operation'[p].source = operation[p].source
      PROVE  Holds(p)'
  <2>1. operation[p].source \in Source /\ p # o
    BY <1>2, <1>3 DEF Punctual, OperationInv, TypeInv, OperationsReady
  <2>2. lease'[operation[p].source] = lease[operation[p].source]
    BY <1>3, <2>1 DEF Holds, End, ReleaseLease, Abandoned, OperationInv, TypeInv, TypeOK
  <2> QED BY <1>3, <2>2 DEF Holds
<1> QED BY <1>2, <1>3, OperationKept

\* A renewal that succeeds is the holder's, so it makes nobody else punctual.
LEMMA RenewSafe ==
  ASSUME OperationInv, TypeInv', NEW o \in OperationId, Renew(o)
  PROVE  OperationInv'
<1> DEFINE s == operation[o].source
           renewed == RenewLease(s, o)
<1>1. s \in Source /\ Working(o) /\ renewed \in BOOLEAN
  BY DEF Renew, RenewLease, OperationInv, TypeInv, OperationsReady
<1>2. /\ \A p \in OperationId : p # o => operation'[p] = operation[p]
      /\ operation'[o] = [operation[o] EXCEPT !.live = renewed, !.stalled = FALSE]
      /\ lease' = IF renewed THEN [lease EXCEPT ![s].left = LeaseTTL] ELSE lease
  BY DEF Renew, OperationInv, TypeInv, TypeOK
<1>3. /\ operation'[o].source = s /\ operation'[o].phase = operation[o].phase
      /\ operation'[o].live = renewed
  <2>1. operation[o] \in Operation
    BY DEF OperationInv, TypeInv, TypeOK
  <2> HIDE DEF renewed
  <2> QED BY <1>2, <2>1 DEF Operation
<1>4. OneOperationPerServer'
  <2>1. \A p \in OperationId : operation'[p].source = operation[p].source
                               /\ operation'[p].phase = operation[p].phase
    BY <1>2, <1>3
  <2> QED BY <2>1 DEF OperationInv, OneOperationPerServer, Working
<1>5. ASSUME Distributed, NEW p \in OperationId, Punctual(p)' PROVE Holds(p)'
  <2>1. lease[s] \in Lease
    BY <1>1 DEF OperationInv, TypeInv, TypeOK
  <2>2. CASE p = o
    <3>1. renewed /\ lease'[s] = [lease[s] EXCEPT !.left = LeaseTTL]
      BY <1>1, <1>2, <1>3, <1>5, <2>2 DEF Punctual, OperationInv, TypeInv, TypeOK
    <3>2. lease'[s].holder = o /\ lease'[s].left = LeaseTTL
      BY <2>1, <3>1 DEF RenewLease, Lease
    <3> QED BY <1>3, <2>2, <3>2, ReleaseAssumption DEF Holds
  <2>3. CASE p # o
    <3>1. Punctual(p) /\ Holds(p) /\ operation[p].source \in Source
      BY <1>2, <1>5, <2>3 DEF OperationInv, PunctualHolds, Punctual, Working, TypeInv, OperationsReady
    <3>2. CASE renewed
      <4>1. lease[s].holder = o
        BY <3>2 DEF RenewLease
      <4>2. operation[p].source # s
        BY <2>3, <3>1, <4>1 DEF Holds
      <4>3. lease'[operation[p].source] = lease[operation[p].source]
        BY <1>2, <3>1, <3>2, <4>2 DEF OperationInv, TypeInv, TypeOK
      <4> QED BY <1>2, <2>3, <3>1, <4>3 DEF Holds
    <3>3. CASE ~renewed
      BY <1>2, <2>3, <3>1, <3>3 DEF Holds
    <3> QED BY <3>2, <3>3
  <2> QED BY <2>2, <2>3
<1> QED BY <1>4, <1>5 DEF OperationInv, PunctualHolds

\* Time takes no lease from a punctual holder: the tick waits for its renewal.
LEMMA TickSafe ==
  ASSUME OperationInv, TypeInv', Tick
  PROVE  OperationInv'
<1>1. operation' = operation
  BY DEF Tick
<1>2. ASSUME NEW p \in OperationId, Punctual(p), Holds(p), operation'[p].source = operation[p].source
      PROVE  Holds(p)'
  <2>1. operation[p].source \in Source
    BY <1>2 DEF Punctual, OperationInv, TypeInv, OperationsReady
  <2>2. /\ lease[operation[p].source].left > LeaseTTL - RenewEvery
        /\ lease[operation[p].source].left \in Nat
        /\ lease'[operation[p].source] = Aged(lease[operation[p].source])
    BY <1>2, <2>1 DEF Tick, OperationInv, TypeInv, TypeOK, Lease
  <2> QED BY <1>1, <1>2, <2>2, ReleaseAssumption DEF Holds, Aged
<1> QED BY <1>1, <1>2, OperationKept DEF Punctual, Working

\* Steps that leave the leases alone, and crashes.
LEMMA CalmSafe ==
  ASSUME OperationInv, TypeInv',
         \/ \E o \in OperationId :
              \/ Sync(o) \/ SaveReleaseCandidate(o) \/ GetLatestReleaseCandidate(o)
              \/ BuildExecutionBundle(o) \/ RollbackRelease(o) \/ AbortRollback(o)
              \/ RenewError(o) \/ Stall(o) \/ (\E r \in DOMAIN history : FindRelease(o, r))
         \/ \E s \in Source, c \in Commit : Push(s, c)
         \/ \E v \in ServerId : Crash(v)
  PROVE  OperationInv'
<1>1. ASSUME NEW o \in OperationId,
             \/ Sync(o) \/ SaveReleaseCandidate(o) \/ GetLatestReleaseCandidate(o)
             \/ BuildExecutionBundle(o) \/ RenewError(o) \/ Stall(o)
      PROVE  OperationInv'
  <2>1. lease' = lease /\ Working(o) /\ \A p \in OperationId : p # o => operation'[p] = operation[p]
    BY <1>1 DEF Sync, SaveReleaseCandidate, GetLatestReleaseCandidate, BuildExecutionBundle, RenewError,
                Stall, Proceeds, Working, OnSource, Syncing, Deploying, OperationInv, TypeInv, TypeOK
  <2>2. operation'[o].source = operation[o].source /\ (Punctual(o)' => Punctual(o))
    <3>1. operation[o] \in Operation
      BY DEF OperationInv, TypeInv, TypeOK
    <3> QED BY SMTT(30), <1>1, <2>1, <3>1
            DEF Sync, SaveReleaseCandidate, GetLatestReleaseCandidate, BuildExecutionBundle, RenewError,
                Stall, Punctual, OperationInv, TypeInv, TypeOK, Operation
  <2> QED BY <2>1, <2>2, OperationKept DEF Working, Punctual, Holds
<1>2. ASSUME NEW o \in OperationId,
             RollbackRelease(o) \/ AbortRollback(o) \/ (\E r \in DOMAIN history : FindRelease(o, r))
      PROVE  OperationInv'
  <2>1. lease' = lease /\ ~Working(o)' /\ \A p \in OperationId : p # o => operation'[p] = operation[p]
    BY <1>2 DEF RollbackRelease, AbortRollback, FindRelease, Working, OnSource, Syncing, Deploying, Idle,
                OperationInv, TypeInv, TypeOK, Operation
  <2> QED BY <2>1, OperationKept DEF Working, Punctual, Holds
<1>3. ASSUME NEW s \in Source, NEW c \in Commit, Push(s, c) PROVE OperationInv'
  BY <1>3, OperationKept DEF Push, Working, Punctual, Holds
<1>4. ASSUME NEW v \in ServerId, Crash(v) PROVE OperationInv'
  <2>1. \A p \in OperationId : operation'[p] = IF p \in On(v) THEN Idle ELSE operation[p]
    BY <1>4 DEF Crash
  <2>2. \A p \in OperationId : Working(p)' => p \notin On(v) /\ operation'[p] = operation[p]
    BY <2>1 DEF Working, Idle, OnSource, Syncing, Deploying
  <2>3. ASSUME NEW p \in OperationId, Punctual(p)', Punctual(p), Holds(p) PROVE Holds(p)'
    <3>1. operation[p].source \in Source /\ p \notin On(v) /\ operation'[p] = operation[p]
      BY <2>2, <2>3 DEF Punctual, Working, OperationInv, TypeInv, OperationsReady
    <3>2. lease'[operation[p].source] = lease[operation[p].source]
      BY <1>4, <2>3, <3>1 DEF Crash, Abandoned, Holds
    <3> QED BY <2>3, <3>1, <3>2 DEF Holds
  <2> QED BY <2>2, <2>3, OperationKept DEF Working, Punctual
<1> QED BY <1>1, <1>2, <1>3, <1>4

LEMMA OperationStep ==
  ASSUME OperationInv, [Next]_vars
  PROVE  OperationInv'
<1>1. TypeInv'
  BY TypeStep DEF OperationInv
<1>2. ASSUME NEW o \in OperationId, NEW s \in Source, BeginSync(o, s) \/ BeginDeploy(o, s)
      PROVE  OperationInv'
  <2>1. PICK phase \in {"sync", "deploy"} : Acquire(o, s, phase)
    BY <1>2 DEF BeginSync, BeginDeploy
  <2> QED BY <1>1, <2>1, AcquireSafe
<1>3. ASSUME NEW o \in OperationId, MarkSynced(o) \/ PublishRelease(o) \/ Abort(o)
      PROVE  OperationInv'
  <2>1. End(o) /\ Working(o)
    BY <1>3 DEF MarkSynced, PublishRelease, Abort, Proceeds, Working, OnSource, Syncing, Deploying
  <2> QED BY <1>1, <2>1, EndSafe
<1>4. CASE UNCHANGED vars
  BY <1>1, <1>4, OperationKept DEF vars, Working, Punctual, Holds
<1> QED BY <1>1, <1>2, <1>3, <1>4, RenewSafe, TickSafe, CalmSafe DEF Next, Handle

\* With the lease of the database, or with the mutex when one server runs every operation,
\* two operations that renew in time never work on one source: acquireGitSourceOperation.
THEOREM OneOperationPerSource ==
  ASSUME Distributed \/ \A o, p \in OperationId : ServerOf[o] = ServerOf[p]
  PROVE  Spec => []OnePunctualOperation
<1>1. OperationInv => OnePunctualOperation
  BY DEF OperationInv, OnePunctualOperation, OneOperationPerServer, PunctualHolds, Holds, Punctual
<1>2. Init => OperationInv
  BY InitOperation
<1>3. OperationInv /\ [Next]_vars => OperationInv'
  BY OperationStep
<1> QED BY <1>1, <1>2, <1>3, PTL DEF Spec
-----------------------------------------------------------------------------
(* The story the events tell. *)

ActiveWasAnnounced == \A a \in App : active[a] # 0 => \E n \in DOMAIN events : AppOfEvent(n) = a

StoryInv == /\ TypeInv /\ CatalogFollowsEvents /\ ActiveWasAnnounced
            /\ (Distributed => EventsChain)

LEMMA InitStory == Init => StoryInv
  BY InitTyped DEF Init, StoryInv, CatalogFollowsEvents, ActiveWasAnnounced, EventsChain

\* Activating a release that is in the history continues the story.
LEMMA ActivatedStory ==
  ASSUME StoryInv, TypeInv', NEW release, NEW r, NEW previous, Activated(release, r, previous),
         Distributed => previous = active[release.app],
         \A i \in DOMAIN history : history'[i] = history[i],
         r \in DOMAIN history', release = history'[r]
  PROVE  StoryInv'
<1> DEFINE m == Len(events) + 1
<1>1. /\ m \in Nat \ {0} /\ DOMAIN events = 1..(m - 1) /\ DOMAIN events' = 1..m /\ Len(events') = m
      /\ events'[m].release = r /\ events'[m].previous = previous
      /\ \A n \in 1..(m - 1) : events'[n] = events[n]
  BY DEF StoryInv, TypeInv, TypeOK, Activated
<1>2. release.app \in App /\ release.source \in Source
  <2>1. release \in Release
    BY DEF TypeInv, TypeOK
  <2> QED BY <2>1 DEF Release
<1>3. /\ \A a \in App : active'[a] = IF a = release.app THEN r ELSE active[a]
      /\ \A s \in Source : marker'[s] = IF s = release.source THEN release.commit ELSE marker[s]
  BY <1>2 DEF Activated, StoryInv, TypeInv, TypeOK
<1> HIDE DEF m
<1>4. \A n \in 1..(m - 1) : history'[events'[n].release] = history[events[n].release]
  BY <1>1 DEF StoryInv, TypeInv, EventsNameReleases
<1>5. \A n \in 1..(m - 1) : /\ history[events[n].release].app \in App
                           /\ history[events[n].release].source \in Source
  <2>1. ASSUME NEW n \in 1..(m - 1) PROVE history[events[n].release] \in Release
    <3>1. events[n].release \in DOMAIN history
      BY <1>1 DEF StoryInv, TypeInv, EventsNameReleases
    <3> QED BY <3>1 DEF StoryInv, TypeInv, TypeOK
  <2> QED BY <2>1 DEF Release
<1>6. CatalogFollowsEvents'
  <2>1. ASSUME NEW n \in 1..m
        PROVE  /\ (\A k \in (n + 1)..m : history'[events'[k].release].app # history'[events'[n].release].app)
                    => active'[history'[events'[n].release].app] = events'[n].release
               /\ (\A k \in (n + 1)..m :
                      history'[events'[k].release].source # history'[events'[n].release].source)
                    => marker'[history'[events'[n].release].source] = history'[events'[n].release].commit
    <3>1. CASE n = m
      BY <1>1, <1>2, <1>3, <3>1
    <3>2. CASE n # m
      <4>1. n \in 1..(m - 1) /\ m \in (n + 1)..m
        BY <1>1, <3>2
      <4>2. history'[events'[n].release] = history[events[n].release] /\ events'[n] = events[n]
        BY <1>1, <1>4, <4>1
      <4>3. /\ (\A k \in (n + 1)..(m - 1) : history[events[k].release].app # history[events[n].release].app)
                 => active[history[events[n].release].app] = events[n].release
            /\ (\A k \in (n + 1)..(m - 1) :
                   history[events[k].release].source # history[events[n].release].source)
                 => marker[history[events[n].release].source] = history[events[n].release].commit
        <5>1. Len(events) = m - 1
          BY DEF m, StoryInv, TypeInv, TypeOK
        <5> QED BY <1>1, <4>1, <5>1 DEF StoryInv, CatalogFollowsEvents, AppOfEvent, SourceOfEvent
      <4>4. \A k \in (n + 1)..(m - 1) : k \in (n + 1)..m /\ history'[events'[k].release] = history[events[k].release]
        BY <1>1, <1>4, <4>1
      <4> QED BY <1>1, <1>3, <1>5, <4>1, <4>2, <4>3, <4>4
    <3> QED BY <3>1, <3>2
  <2> QED BY <1>1, <2>1 DEF CatalogFollowsEvents, AppOfEvent, SourceOfEvent
<1>7. ActiveWasAnnounced'
  <2>1. ASSUME NEW a \in App, active'[a] # 0
        PROVE  \E n \in 1..m : history'[events'[n].release].app = a
    <3>1. CASE a = release.app
      BY <1>1, <3>1
    <3>2. CASE a # release.app
      <4>1. PICK n \in 1..(m - 1) : history[events[n].release].app = a
        BY <1>1, <1>3, <2>1, <3>2 DEF StoryInv, ActiveWasAnnounced, AppOfEvent
      <4> QED BY <1>1, <1>4, <4>1
    <3> QED BY <3>1, <3>2
  <2> QED BY <1>1, <2>1 DEF ActiveWasAnnounced, AppOfEvent
<1>8. ASSUME Distributed PROVE EventsChain'
  <2> DEFINE Before(n) == {i \in 1..(n - 1) : history'[events'[i].release].app = history'[events'[n].release].app}
  <2>1. ASSUME NEW n \in 1..m
        PROVE  /\ Before(n) = {} => events'[n].previous = 0
               /\ \A i \in Before(n) : (\A k \in Before(n) : k <= i) => events'[n].previous = events'[i].release
    <3>1. CASE n = m
      <4>1. events'[m].previous = active[release.app] /\ history'[events'[m].release].app = release.app
        BY <1>1, <1>8
      <4>2. Before(m) = {i \in 1..(m - 1) : history[events[i].release].app = release.app}
        BY <1>1, <1>4, <4>1
      <4>3. Before(m) = {} => active[release.app] = 0
        BY <1>1, <1>2, <4>2 DEF StoryInv, ActiveWasAnnounced, AppOfEvent
      <4>4. ASSUME NEW i \in Before(m), \A k \in Before(m) : k <= i
            PROVE  active[release.app] = events'[i].release
        <5>1. i \in 1..(m - 1) /\ history[events[i].release].app = release.app
          BY <4>2
        <5>2. \A k \in (i + 1)..(m - 1) : history[events[k].release].app # release.app
          BY <1>1, <4>2, <4>4, <5>1
        <5>3. Len(events) = m - 1
          BY DEF m, StoryInv, TypeInv, TypeOK
        <5>4. active[release.app] = events[i].release
          BY <1>1, <5>1, <5>2, <5>3 DEF StoryInv, CatalogFollowsEvents, AppOfEvent
        <5> QED BY <1>1, <5>1, <5>4
      <4> QED BY <3>1, <4>1, <4>3, <4>4
    <3>2. CASE n # m
      <4>1. n \in 1..(m - 1) /\ \A i \in 1..(n - 1) : i \in 1..(m - 1)
        BY <1>1, <3>2
      <4>2. Before(n) = {i \in 1..(n - 1) : history[events[i].release].app = history[events[n].release].app}
        BY <1>4, <4>1
      <4>3. /\ events'[n] = events[n] /\ \A i \in Before(n) : events'[i] = events[i]
        BY <1>1, <4>1
      <4> DEFINE Old == {i \in 1..(n - 1) : history[events[i].release].app = history[events[n].release].app}
      <4>4. /\ Old = {} => events[n].previous = 0
            /\ \A i \in Old : (\A k \in Old : k <= i) => events[n].previous = events[i].release
        BY <1>1, <1>8, <4>1 DEF StoryInv, EventsChain, AppOfEvent
      <4>5. Before(n) = Old
        BY <4>2
      <4> HIDE DEF Old, Before
      <4> QED BY <4>3, <4>4, <4>5
    <3> QED BY <3>1, <3>2
  <2> QED BY <1>1, <2>1 DEF EventsChain, AppOfEvent
<1> QED BY <1>6, <1>7, <1>8 DEF StoryInv

\* Every other step leaves history, pointers and events as they are.
LEMMA StoryKept ==
  ASSUME StoryInv, TypeInv', UNCHANGED <<history, active, marker, events>>
  PROVE  StoryInv'
  BY DEF StoryInv, CatalogFollowsEvents, ActiveWasAnnounced, EventsChain, AppOfEvent, SourceOfEvent

LEMMA StoryStep ==
  ASSUME StoryInv, [Next]_vars
  PROVE  StoryInv'
<1>1. TypeInv'
  BY TypeStep DEF StoryInv
<1>2. ASSUME NEW o \in OperationId, PublishRelease(o) PROVE StoryInv'
  <2> DEFINE s == operation[o].source
             published == [source |-> s, app |-> AppOf[s][operation[o].commit],
                           commit |-> operation[o].commit]
  <2>1. history' = Append(history, published)
        /\ Activated(published, Len(history) + 1, PreviousRelease(published.app))
    BY <1>2 DEF PublishRelease, NewRelease
  <2> HIDE DEF published
  <2>2. /\ \A i \in DOMAIN history : history'[i] = history[i]
        /\ Len(history) + 1 \in DOMAIN history' /\ published = history'[Len(history) + 1]
    BY <2>1 DEF StoryInv, TypeInv, TypeOK
  <2>3. Distributed => PreviousRelease(published.app) = active[published.app]
    BY DEF PreviousRelease
  <2> QED BY <1>1, <2>1, <2>2, <2>3, ActivatedStory
<1>3. ASSUME NEW o \in OperationId, RollbackRelease(o) PROVE StoryInv'
  <2> DEFINE r == operation[o].release
  <2>1. r \in DOMAIN history /\ history' = history
    BY <1>3 DEF RollbackRelease, StoryInv, TypeInv, OperationsReady
  <2>2. \/ UNCHANGED <<active, marker, events>>
        \/ Activated(history[r], r, active[history[r].app])
    BY <1>3 DEF RollbackRelease
  <2> HIDE DEF r
  <2> QED BY <1>1, <2>1, <2>2, ActivatedStory, StoryKept
<1>4. CASE UNCHANGED <<history, active, marker, events>>
  BY <1>1, <1>4, StoryKept
<1>5. UNCHANGED <<history, active, marker, events>>
        \/ \E o \in OperationId : PublishRelease(o) \/ RollbackRelease(o)
  BY ZenonT(60) DEF Next, Handle, vars, catalog, BeginSync, BeginDeploy, FindRelease, Sync, SaveReleaseCandidate,
         MarkSynced, GetLatestReleaseCandidate, BuildExecutionBundle, AbortRollback, Abort, Renew,
         RenewError, Stall, Push, Crash, Tick
<1> QED BY <1>2, <1>3, <1>4, <1>5

\* What is active and what the source markers say is what the events announced last.
THEOREM CatalogAlwaysFollowsEvents == Spec => []CatalogFollowsEvents
<1>1. StoryInv => CatalogFollowsEvents
  BY DEF StoryInv
<1> QED BY <1>1, InitStory, StoryStep, PTL DEF Spec

\* In the Postgres store the events of an app are a chain, whatever publications of
\* several sources and rollbacks interleave: PublishRelease and RollbackRelease.
THEOREM EventsAlwaysChain ==
  ASSUME Distributed
  PROVE  Spec => []EventsChain
<1>1. StoryInv => EventsChain
  BY DEF StoryInv
<1>2. Init => StoryInv
  BY InitStory
<1>3. StoryInv /\ [Next]_vars => StoryInv'
  BY StoryStep
<1> QED BY <1>1, <1>2, <1>3, PTL DEF Spec
-----------------------------------------------------------------------------
(* What a deploy publishes. *)

Chosen(o) == operation[o].live /\ operation[o].phase \in {"chosen", "built"}
ChosenLatest == \A o \in OperationId : Chosen(o) => operation[o].commit = Latest(operation[o].source)
NoneStalled  == \A o \in OperationId : ~operation[o].stalled

\* While no renewal stalled, what a live deploy chose still is its source's latest candidate.
ChosenInv == OperationInv /\ (stalls = 0 => NoneStalled /\ ChosenLatest)

Exclusive == Distributed \/ \A o, p \in OperationId : ServerOf[o] = ServerOf[p]

LEMMA ExclusiveSources ==
  ASSUME Exclusive, OperationInv
  PROVE  OnePunctualOperation
  BY DEF Exclusive, OperationInv, OnePunctualOperation, OneOperationPerServer, PunctualHolds, Holds,
         Punctual

LEMMA InitChosen == Init => ChosenInv
  BY InitOperation DEF Init, ChosenInv, NoneStalled, ChosenLatest, Chosen, Idle

\* A step that chooses nothing and saves no candidate.
LEMMA ChosenKept ==
  ASSUME ChosenInv, OperationInv', candidates' = candidates, stalls' = 0 => stalls = 0,
         stalls' = 0 => \A p \in OperationId : operation'[p].stalled => operation[p].stalled,
         \A p \in OperationId : Chosen(p)' =>
           /\ Chosen(p)
           /\ operation'[p].source = operation[p].source /\ operation'[p].commit = operation[p].commit
  PROVE  ChosenInv'
  BY DEF ChosenInv, NoneStalled, ChosenLatest, Latest

LEMMA SaveChosen ==
  ASSUME Exclusive, ChosenInv, OperationInv', NEW o \in OperationId, SaveReleaseCandidate(o)
  PROVE  ChosenInv'
<1>1. TypeInv /\ OnePunctualOperation
  BY ExclusiveSources DEF ChosenInv, OperationInv
<1>2. /\ operation'[o].phase = "saved" /\ operation'[o].stalled = operation[o].stalled
      /\ \A p \in OperationId : p # o => operation'[p] = operation[p]
  BY <1>1 DEF SaveReleaseCandidate, TypeInv, TypeOK, Operation
<1>3. stalls' = stalls /\ \A s \in Source : s # operation[o].source => candidates'[s] = candidates[s]
  BY <1>1 DEF SaveReleaseCandidate, TypeInv, TypeOK
<1>4. ASSUME stalls = 0, NEW p \in OperationId, Chosen(p)'
      PROVE  (operation[p].commit = Latest(operation[p].source))'
  <2>1. p # o /\ operation'[p] = operation[p] /\ Chosen(p)
    BY <1>2, <1>4 DEF Chosen
  <2>2. Punctual(p) /\ Punctual(o) /\ operation[p].source \in Source
    BY <1>1, <1>4, <2>1 DEF Punctual, Working, Chosen, OnSource, Deploying, Syncing, ChosenInv,
       NoneStalled, SaveReleaseCandidate, Proceeds, TypeInv, OperationsReady
  <2>3. operation[p].source # operation[o].source
    BY <1>1, <2>1, <2>2 DEF OnePunctualOperation
  <2> QED
    BY <1>3, <1>4, <2>1, <2>2, <2>3 DEF ChosenInv, ChosenLatest, Latest
<1>5. stalls = 0 => NoneStalled'
  BY <1>2 DEF ChosenInv, NoneStalled
<1>6. stalls = 0 => ChosenLatest'
  BY <1>4 DEF ChosenLatest
<1> QED
  BY <1>3, <1>5, <1>6 DEF ChosenInv

LEMMA DeployChosen ==
  ASSUME ChosenInv, OperationInv', NEW o \in OperationId,
         GetLatestReleaseCandidate(o) \/ BuildExecutionBundle(o)
  PROVE  ChosenInv'
<1>1. operation[o] \in Operation /\ operation \in [OperationId -> Operation]
  BY DEF ChosenInv, OperationInv, TypeInv, TypeOK
<1>2. CASE GetLatestReleaseCandidate(o)
  <2>1. /\ operation'[o].source = operation[o].source /\ operation'[o].stalled = operation[o].stalled
        /\ operation'[o].commit = Latest(operation[o].source)
        /\ \A p \in OperationId : p # o => operation'[p] = operation[p]
    BY <1>1, <1>2 DEF GetLatestReleaseCandidate, Operation
  <2>2. stalls' = stalls /\ candidates' = candidates
    BY <1>2 DEF GetLatestReleaseCandidate, catalog
  <2> QED
    BY <2>1, <2>2 DEF ChosenInv, NoneStalled, ChosenLatest, Chosen, Latest
<1>3. CASE BuildExecutionBundle(o)
  <2>1. /\ operation'[o].source = operation[o].source /\ operation'[o].stalled = operation[o].stalled
        /\ operation'[o].commit = operation[o].commit
        /\ \A p \in OperationId : p # o => operation'[p] = operation[p]
        /\ Chosen(o)
    BY <1>1, <1>3 DEF BuildExecutionBundle, Operation, Chosen, Proceeds
  <2>2. stalls' = stalls /\ candidates' = candidates
    BY <1>3 DEF BuildExecutionBundle, catalog
  <2> QED
    BY <2>1, <2>2, ChosenKept DEF Chosen
<1> QED
  BY <1>2, <1>3

\* A step that begins, advances or ends the operation o otherwise.
LEMMA OneChosen ==
  ASSUME ChosenInv, OperationInv', NEW o \in OperationId, NEW x,
         operation' = [operation EXCEPT ![o] = x], candidates' = candidates,
         stalls' = 0 => stalls = 0 /\ (x.stalled => operation[o].stalled),
         x.phase \notin {"chosen", "built"} \/
           /\ x.live => operation[o].live
           /\ x.phase = operation[o].phase
           /\ x.source = operation[o].source /\ x.commit = operation[o].commit
  PROVE  ChosenInv'
<1>1. operation'[o] = x /\ \A p \in OperationId : p # o => operation'[p] = operation[p]
  BY DEF ChosenInv, OperationInv, TypeInv, TypeOK
<1> QED
  BY <1>1, ChosenKept DEF Chosen

LEMMA HandlerChosen ==
  ASSUME ChosenInv, OperationInv', NEW o \in OperationId,
         \/ \E s \in Source : BeginSync(o, s) \/ BeginDeploy(o, s)
         \/ Sync(o) \/ MarkSynced(o) \/ PublishRelease(o) \/ Abort(o)
         \/ RollbackRelease(o) \/ AbortRollback(o) \/ (\E r \in DOMAIN history : FindRelease(o, r))
         \/ Renew(o) \/ RenewError(o) \/ Stall(o)
  PROVE  ChosenInv'
<1>1. operation[o] \in Operation /\ stalls \in Nat
  BY ReleaseAssumption DEF ChosenInv, OperationInv, TypeInv, TypeOK
<1>2. candidates' = candidates
  BY DEF BeginSync, BeginDeploy, Sync, MarkSynced, PublishRelease, Abort, RollbackRelease, AbortRollback,
         FindRelease, Renew, RenewError, Stall, catalog
<1>3. Idle.phase = "idle" /\ ~Idle.stalled
  BY DEF Idle
<1>4. CASE \/ MarkSynced(o) \/ PublishRelease(o) \/ Abort(o) \/ RollbackRelease(o) \/ AbortRollback(o)
  <2>1. operation' = [operation EXCEPT ![o] = Idle] /\ stalls' = stalls
    BY <1>4 DEF MarkSynced, PublishRelease, Abort, RollbackRelease, AbortRollback, End
  <2> QED
    BY <1>2, <1>3, <2>1, OneChosen
<1>5. CASE \E s \in Source : BeginSync(o, s) \/ BeginDeploy(o, s)
  <2>1. PICK s \in Source, phase \in {"sync", "deploy"} :
          operation' = [operation EXCEPT ![o] = [operation[o] EXCEPT !.phase = phase, !.source = s]]
    BY <1>5 DEF BeginSync, BeginDeploy, Acquire
  <2>2. stalls' = stalls
    BY <1>5 DEF BeginSync, BeginDeploy
  <2>3. PICK x : x = [operation[o] EXCEPT !.phase = phase, !.source = s]
    OBVIOUS
  <2>4. x.phase = phase /\ x.stalled = operation[o].stalled
    BY <1>1, <2>3 DEF Operation
  <2> QED
    BY <1>2, <2>1, <2>2, <2>3, <2>4, OneChosen
<1>6. CASE Sync(o)
  <2>1. PICK x : x = [operation[o] EXCEPT !.phase = "resolved", !.commit = head[operation[o].source]]
    OBVIOUS
  <2>2. x.phase = "resolved" /\ x.stalled = operation[o].stalled
    BY <1>1, <2>1 DEF Operation
  <2>3. operation' = [operation EXCEPT ![o] = x] /\ stalls' = stalls
    BY <1>6, <2>1 DEF Sync
  <2> QED
    BY <1>2, <2>2, <2>3, OneChosen
<1>7. CASE \E r \in DOMAIN history : FindRelease(o, r)
  <2>1. PICK r \in DOMAIN history :
          operation' = [operation EXCEPT ![o] = [operation[o] EXCEPT !.phase = "rollback", !.release = r]]
    BY <1>7 DEF FindRelease
  <2>2. PICK x : x = [operation[o] EXCEPT !.phase = "rollback", !.release = r]
    OBVIOUS
  <2>3. x.phase = "rollback" /\ x.stalled = operation[o].stalled
    BY <1>1, <2>2 DEF Operation
  <2>4. stalls' = stalls
    BY <1>7 DEF FindRelease
  <2> QED
    BY <1>2, <2>1, <2>2, <2>3, <2>4, OneChosen
<1>8. CASE Renew(o)
  <2>1. PICK renewed \in BOOLEAN :
          operation' = [operation EXCEPT ![o] = [operation[o] EXCEPT !.live = renewed, !.stalled = FALSE]]
    BY <1>8 DEF Renew, RenewLease
  <2>2. PICK x : x = [operation[o] EXCEPT !.live = renewed, !.stalled = FALSE]
    OBVIOUS
  <2>3. /\ ~x.stalled /\ x.phase = operation[o].phase
        /\ x.source = operation[o].source /\ x.commit = operation[o].commit
    BY <1>1, <2>2 DEF Operation
  <2>4. stalls' = stalls /\ operation[o].live
    BY <1>8 DEF Renew
  <2> QED
    BY <1>2, <2>1, <2>2, <2>3, <2>4, OneChosen
<1>9. CASE RenewError(o) \/ Stall(o)
  <2>1. stalls' # 0 /\ stalls' = stalls + 1
    BY <1>1, <1>9 DEF RenewError, Stall
  <2> QED
    BY <2>1 DEF ChosenInv
<1> QED
  BY <1>4, <1>5, <1>6, <1>7, <1>8, <1>9

LEMMA WorldChosen ==
  ASSUME ChosenInv, OperationInv',
         \/ \E s \in Source, c \in Commit : Push(s, c)
         \/ \E v \in ServerId : Crash(v)
         \/ Tick \/ UNCHANGED vars
  PROVE  ChosenInv'
<1>1. candidates' = candidates /\ stalls' = stalls
  BY DEF Push, Crash, Tick, vars, catalog
<1>2. \A p \in OperationId : operation'[p] = operation[p] \/ operation'[p] = Idle
  BY DEF Push, Crash, Tick, vars
<1>3. Idle.phase = "idle" /\ ~Idle.stalled
  BY DEF Idle
<1> QED
  BY <1>1, <1>2, <1>3, ChosenKept DEF Chosen

LEMMA ChosenStep ==
  ASSUME Exclusive, ChosenInv, [Next]_vars
  PROVE  ChosenInv'
<1>1. OperationInv'
  BY OperationStep DEF ChosenInv
<1> QED
  BY <1>1, SaveChosen, DeployChosen, HandlerChosen, WorldChosen DEF Next, Handle

\* Only a publication makes the history longer, and it publishes what was chosen.
LEMMA PublicationIsLatest ==
  ASSUME ChosenInv, [Next]_vars, Publishes, stalls = 0
  PROVE  Last(history').commit = Latest(Last(history').source)
<1>1. TypeInv /\ history \in Seq(Release)
  BY DEF ChosenInv, OperationInv, TypeInv, TypeOK
<1>2. history' = history \/ \E o \in OperationId : PublishRelease(o)
  BY ZenonT(60) DEF Next, Handle, vars, catalog, BeginSync, BeginDeploy, FindRelease, Sync,
         SaveReleaseCandidate, MarkSynced, GetLatestReleaseCandidate, BuildExecutionBundle,
         RollbackRelease, AbortRollback, Abort, Renew, RenewError, Stall, Push, Crash, Tick
<1>3. PICK o \in OperationId : PublishRelease(o)
  BY <1>1, <1>2 DEF Publishes
<1>4. PICK published :
        /\ published.source = operation[o].source /\ published.commit = operation[o].commit
        /\ history' = Append(history, published)
  BY <1>3 DEF PublishRelease
<1>5. Last(history') = published
  BY <1>1, <1>4 DEF Last
<1>6. Chosen(o)
  BY <1>3 DEF PublishRelease, Proceeds, Chosen
<1> QED
  BY <1>4, <1>5, <1>6 DEF ChosenInv, ChosenLatest

\* PublishesLatest, where source operations exclude each other (as in
\* OneOperationPerSource): while no renewal has stalled, a deploy publishes the candidate
\* that is its source's latest when it publishes, though it chose it before a long build.
THEOREM DeploysPublishLatest ==
  ASSUME Distributed \/ \A o, p \in OperationId : ServerOf[o] = ServerOf[p]
  PROVE  Spec => PublishesLatest
<1>1. ChosenInv /\ [Next]_vars => ChosenInv'
  BY ChosenStep DEF Exclusive
<1>2. ChosenInv /\ [Next]_vars =>
        [Publishes /\ stalls = 0 => Last(history').commit = Latest(Last(history').source)]_vars
  BY PublicationIsLatest
<1> QED
  BY <1>1, <1>2, InitChosen, PTL DEF Spec, PublishesLatest
=============================================================================
