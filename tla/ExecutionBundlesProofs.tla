------------------------ MODULE ExecutionBundlesProofs ------------------------
(***************************************************************************)
(* What ExecutionBundles promises, for any number of servers, workers,     *)
(* commits and runtimes.  The servers' side and the workers' side have an  *)
(* inductive invariant each; a worker takes nothing from the servers but   *)
(* the artifacts, so the second rests on the first only for their types.   *)
(***************************************************************************)
EXTENDS ExecutionBundles, TLAPS

\* A tree that a runtime prepared whole.
Whole(t) == t.files = "all" /\ t.by = t.ready

ServerTypes ==
  /\ snapshot \in [Commit -> [files: {"none", "some", "all"}, marked: BOOLEAN]]
  /\ prepared \in [Server -> [Commit -> Tree \union {NoTree}]]
  /\ preparing \in [Server -> [Commit -> {"idle", "check", "remove", "copy", "build", "mark"}]]
  /\ operation \in [Commit -> Operation]
  /\ artifacts \subseteq Digest
  /\ runtime \in [Server \union Worker -> Runtime]

\* What a sync has marked, or is about to mark, is all there; it only works on what is
\* not marked.
SyncInv(c) ==
  /\ snapshot[c].marked => snapshot[c].files = "all"
  /\ operation[c].at \in {"clear", "copy", "mark"} => ~snapshot[c].marked
  /\ operation[c].at = "mark" => snapshot[c].files = "all"

\* A fingerprint vouches for a whole tree, or for the rest of a tree that an earlier
\* runtime prepared and that a later one began to remove.
Vouched(t, f) ==
  t.ready # None => /\ t.ready <= f
                    /\ Whole(t) \/ (t.files = "some" /\ t.ready < f)

PreparationInv(s, c) ==
  LET t == prepared[s][c]
      at == preparing[s][c]
  IN /\ t # NoTree => Vouched(t, runtime[s])
     /\ at \in {"remove", "copy", "build", "mark"} => snapshot[c].marked
     /\ at = "remove" => t = NoTree \/ t.ready # runtime[s]
     /\ at = "copy" => t = NewTree(c)
     /\ at = "build" => t # NoTree /\ t.files = "source" /\ t.ready = None
     /\ at = "mark" => t # NoTree /\ t.files = "all" /\ t.by = runtime[s]

\* What a deploy publishes: while it hashes and copies the tree, nobody prepares it anew.
DeployInv(c) ==
  /\ operation[c].at \in {"prepare", "publish"} /\ operation[c].digest # NoTree
       => Whole(operation[c].digest)
  /\ operation[c].at = "publish" => LET s == operation[c].by IN
       /\ preparing[s][c] = "idle"
       /\ prepared[s][c] # NoTree /\ prepared[s][c].ready = runtime[s]

ServerInv ==
  /\ ServerTypes
  /\ \A c \in Commit : SyncInv(c) /\ DeployInv(c)
  /\ \A s \in Server, c \in Commit : PreparationInv(s, c)
  /\ PublishedComplete

WorkerTypes ==
  /\ cached \in [Cache -> [Digest -> [tree: Tree \union {NoTree}, marked: BOOLEAN]]]
  /\ opening \in [Worker -> [Digest -> {"idle", "check", "hit", "fetch", "remove", "place",
                                        "validate", "discard", "mark"}]]
  /\ job \in [Worker -> [at: {"waiting", "running"}, digest: Digest] \union {NoJob}]
  /\ runtime \in [Server \union Worker -> Runtime]

OpeningInv(w, d) ==
  LET e == cached[CacheOf[w]][d]
      at == opening[w][d]
  IN /\ e.marked => e.tree = d
     /\ at = "hit" => e.marked
     /\ at \in {"fetch", "remove", "place", "validate", "discard", "mark"} => ~e.marked
     /\ at \in {"validate", "mark"} => e.tree = d
     /\ at = "mark" => d.ready = runtime[w]

RunningInv(w) ==
  job[w].at = "running" =>
    LET d == job[w].digest IN
      /\ opening[w][d] = "idle"
      /\ cached[CacheOf[w]][d].tree = d
      /\ d.ready = runtime[w]

WorkerInv ==
  /\ WorkerTypes
  /\ \A w \in Worker : RunningInv(w) /\ \A d \in Digest : OpeningInv(w, d)

-----------------------------------------------------------------------------
(* Trees and operations.                                                    *)

LEMMA RuntimeNat ==
  /\ \A f \in Runtime : f \in Nat /\ f # None
  /\ \A f \in Runtime \union {None} : f \in Nat
BY ConstantAssumption DEF Runtime, None

LEMMA TreeTypes ==
  /\ NoTree \notin Tree
  /\ \A c \in Commit : NewTree(c) \in Tree
  /\ \A t \in Tree, f \in {"some", "source", "all"} : [t EXCEPT !.files = f] \in Tree
  /\ \A t \in Tree, r \in Runtime : [t EXCEPT !.ready = r] \in Tree
  /\ \A t \in Tree, r \in Runtime : [t EXCEPT !.files = "all", !.by = r] \in Tree
  /\ \A t \in Tree \union {NoTree} : Parts(t) \subseteq Tree \union {NoTree}
<1>1. NoTree \notin Tree
  BY ConstantAssumption
<1>2. \A t \in Tree \union {NoTree} : Parts(t) \subseteq Tree \union {NoTree}
  BY <1>1 DEF Parts, Tree, None
<1> QED
  BY <1>1, <1>2 DEF Tree, NewTree, None

LEMMA OperationTypes ==
  /\ NoOperation \in Operation /\ NoOperation.at = "none"
  /\ \A o \in Operation : o # NoOperation =>
       /\ o.by \in Server /\ o.digest \in Digest \union {NoTree}
       /\ \A at \in {"clear", "copy", "mark", "prepare", "publish"} :
            [o EXCEPT !.at = at] \in Operation
       /\ \A d \in Digest : [o EXCEPT !.digest = d] \in Operation
  /\ \A at \in {"clear", "copy", "mark", "prepare", "publish"}, s \in Server :
       [at |-> at, by |-> s, digest |-> NoTree] \in Operation
BY DEF NoOperation, Operation

\* What the removal of a directory leaves is vouched for by an earlier runtime only.
LEMMA PartsVouched ==
  ASSUME NEW t \in Tree \union {NoTree}, NEW f \in Runtime,
         t # NoTree => Vouched(t, f) /\ t.ready # f,
         NEW p \in Parts(t), p # NoTree
  PROVE  Vouched(p, f) /\ p.ready # f
<1>1. t \in Tree /\ t # NoTree
  BY DEF Parts
<1>2. PICK r \in {t.ready, None} :
        p = [t EXCEPT !.files = "some", !.by = None, !.ready = r]
  BY <1>1 DEF Parts
<1>3. p.files = "some" /\ p.ready = r
  BY <1>1, <1>2 DEF Tree
<1>4. t.ready \in Nat /\ f \in Nat /\ f # None
  <2>1. t.ready \in Runtime \union {None}
    BY <1>1 DEF Tree
  <2> QED
    BY <2>1, RuntimeNat
<1>5. t.ready # None => t.ready < f
  BY <1>1, <1>4 DEF Vouched
<1> QED
  BY <1>2, <1>3, <1>4, <1>5 DEF Vouched, None

-----------------------------------------------------------------------------
(* The servers' side.                                                       *)

LEMMA ServerInitially == Init => ServerInv
<1> SUFFICES ASSUME Init PROVE ServerInv
  OBVIOUS
<1>1. ServerTypes
  <2>1. 1 \in Runtime
    BY ConstantAssumption DEF Runtime
  <2> QED
    BY <2>1, OperationTypes DEF Init, ServerTypes
<1>2. \A c \in Commit : SyncInv(c) /\ DeployInv(c)
  BY OperationTypes DEF Init, SyncInv, DeployInv
<1>3. \A s \in Server, c \in Commit : PreparationInv(s, c)
  BY DEF Init, PreparationInv
<1> QED
  BY <1>1, <1>2, <1>3 DEF ServerInv, PublishedComplete, Init

\* A sync touches the snapshot and the operation of its commit.
LEMMA SyncStep ==
  ASSUME ServerInv, NEW s \in Server, NEW c \in Commit,
         BeginSync(s, c) \/ ClearSnapshot(s, c) \/ CopySnapshot(s, c) \/ MarkSnapshot(s, c)
  PROVE  ServerInv'
<1> USE DEF ServerInv
<1>1. UNCHANGED <<prepared, preparing, artifacts, runtime>>
  BY DEF BeginSync, ClearSnapshot, CopySnapshot, MarkSnapshot
<1>2. /\ operation[c] \in Operation /\ operation'[c] \in Operation
      /\ operation'[c].at \in {"none", "clear", "copy", "mark"}
      /\ operation' = [operation EXCEPT ![c] = operation'[c]]
  <2>1. operation[c] \in Operation
    BY DEF ServerTypes
  <2>2. CASE BeginSync(s, c)
    BY <2>1, <2>2, OperationTypes DEF ServerTypes, BeginSync, Begin
  <2>3. ASSUME NEW at \in {"copy", "mark"}, operation[c].at # "none", Continue(s, c, at)
        PROVE  /\ operation'[c] \in Operation /\ operation'[c].at = at
               /\ operation' = [operation EXCEPT ![c] = operation'[c]]
    <3>1. operation[c] # NoOperation /\ [operation[c] EXCEPT !.at = at] \in Operation
      BY <2>1, <2>3, OperationTypes
    <3> QED
      BY <2>1, <2>3, <3>1 DEF ServerTypes, Continue, Operation, NoOperation
  <2>4. ASSUME End(c)
        PROVE  /\ operation'[c] \in Operation /\ operation'[c].at = "none"
               /\ operation' = [operation EXCEPT ![c] = operation'[c]]
    BY <2>4, OperationTypes DEF ServerTypes, End
  <2> QED
    BY <2>1, <2>2, <2>3, <2>4 DEF ClearSnapshot, CopySnapshot, MarkSnapshot, Has
<1>3. /\ snapshot'[c] \in [files: {"none", "some", "all"}, marked: BOOLEAN]
      /\ snapshot' = [snapshot EXCEPT ![c] = snapshot'[c]]
  BY DEF ServerTypes, BeginSync, ClearSnapshot, CopySnapshot, MarkSnapshot
<1>4. ServerTypes'
  BY <1>1, <1>2, <1>3 DEF ServerTypes
<1>5. snapshot[c].marked => snapshot'[c].marked
  BY DEF ServerTypes, BeginSync, ClearSnapshot, CopySnapshot, MarkSnapshot
<1>6. SyncInv(c)'
  <2> USE <1>2, <1>3 DEF ServerTypes, SyncInv
  <2>1. CASE BeginSync(s, c)
    BY <2>1 DEF BeginSync, Begin
  <2>2. CASE ClearSnapshot(s, c)
    BY <2>2 DEF ClearSnapshot, Has, Continue
  <2>3. CASE CopySnapshot(s, c)
    <3>1. ~snapshot[c].marked /\ ~snapshot'[c].marked
      BY <2>3 DEF CopySnapshot, Has
    <3>2. CASE snapshot' = [snapshot EXCEPT ![c].files = "all"]
      BY <3>1, <3>2
    <3>3. CASE End(c)
      BY <3>1, <3>3, OperationTypes DEF End
    <3> QED
      BY <2>3, <3>2, <3>3 DEF CopySnapshot
  <2>4. CASE MarkSnapshot(s, c)
    BY <2>4, OperationTypes DEF MarkSnapshot, Has, End
  <2> QED
    BY <2>1, <2>2, <2>3, <2>4
<1>7. \A d \in Commit : SyncInv(d)'
  BY <1>2, <1>3, <1>6 DEF ServerTypes, SyncInv
<1>8. \A d \in Commit : DeployInv(d)'
  BY <1>1, <1>2 DEF ServerTypes, DeployInv
<1>9. \A z \in Server, d \in Commit : PreparationInv(z, d)'
  <2> SUFFICES ASSUME NEW z \in Server, NEW d \in Commit
               PROVE  PreparationInv(z, d)'
    OBVIOUS
  <2>1. snapshot[d].marked => snapshot'[d].marked
    BY <1>3, <1>5 DEF ServerTypes
  <2>2. PreparationInv(z, d)
    OBVIOUS
  <2>3. prepared' = prepared /\ preparing' = preparing /\ runtime' = runtime
    BY <1>1
  <2> QED
    BY <2>1, <2>2, <2>3 DEF PreparationInv
<1> QED
  BY <1>1, <1>4, <1>7, <1>8, <1>9 DEF PublishedComplete

\* The other steps of a server work on one commit: on its directory in that server's
\* cache, on the commit's operation, and on the artifact store.
LEMMA CellStep ==
  ASSUME ServerInv, NEW s \in Server, NEW c \in Commit,
         snapshot' = snapshot, runtime' = runtime,
         NEW t \in Tree \union {NoTree}, prepared' = [prepared EXCEPT ![s][c] = t],
         NEW p \in {"idle", "check", "remove", "copy", "build", "mark"},
         preparing' = [preparing EXCEPT ![s][c] = p],
         operation' = [operation EXCEPT ![c] = operation'[c]],
         operation'[c] \in Operation,
         operation'[c] = operation[c] \/ operation'[c].at \in {"none", "prepare", "publish"},
         \A d \in artifacts' : d \in artifacts \/ (d \in Digest /\ Whole(d)),
         PreparationInv(s, c)', DeployInv(c)'
  PROVE  ServerInv'
<1>1. ServerTypes'
  <2>1. prepared' \in [Server -> [Commit -> Tree \union {NoTree}]]
    BY DEF ServerInv, ServerTypes
  <2>2. preparing' \in
          [Server -> [Commit -> {"idle", "check", "remove", "copy", "build", "mark"}]]
    BY DEF ServerInv, ServerTypes
  <2>3. operation' \in [Commit -> Operation]
    BY DEF ServerInv, ServerTypes
  <2> QED
    BY <2>1, <2>2, <2>3 DEF ServerInv, ServerTypes
<1>2. ASSUME NEW d \in Commit PROVE SyncInv(d)'
  <2>1. operation'[d] = operation[d] \/ operation'[d].at \in {"none", "prepare", "publish"}
    BY DEF ServerInv, ServerTypes
  <2>2. SyncInv(d)
    BY DEF ServerInv
  <2> QED
    BY <2>1, <2>2 DEF SyncInv
<1>3. ASSUME NEW d \in Commit, d # c PROVE DeployInv(d)'
  <2>1. operation'[d] = operation[d] /\ DeployInv(d)
    BY <1>3 DEF ServerInv, ServerTypes
  <2>2. ASSUME NEW z \in Server
        PROVE  preparing'[z][d] = preparing[z][d] /\ prepared'[z][d] = prepared[z][d]
    BY <1>3 DEF ServerInv, ServerTypes
  <2>3. operation[d].at = "publish" => operation[d].by \in Server
    BY OperationTypes DEF ServerInv, ServerTypes
  <2> QED
    BY <2>1, <2>2, <2>3 DEF DeployInv
<1>4. ASSUME NEW z \in Server, NEW d \in Commit PROVE PreparationInv(z, d)'
  <2>1. CASE z = s /\ d = c
    BY <2>1
  <2>2. CASE ~(z = s /\ d = c)
    <3>1. preparing'[z][d] = preparing[z][d] /\ prepared'[z][d] = prepared[z][d]
      BY <2>2 DEF ServerInv, ServerTypes
    <3>2. PreparationInv(z, d)
      BY DEF ServerInv
    <3> QED
      BY <3>1, <3>2 DEF PreparationInv
  <2> QED
    BY <2>1, <2>2
<1>5. PublishedComplete'
  BY DEF ServerInv, PublishedComplete, Whole
<1> QED
  BY <1>1, <1>2, <1>3, <1>4, <1>5 DEF ServerInv

\* What the types say of the operation that a step leaves.
LEMMA OperationSteps ==
  ASSUME ServerInv, NEW s \in Server, NEW c \in Commit
  PROVE  /\ operation[c] \in Operation
         /\ End(c) => operation'[c] = NoOperation
                      /\ operation' = [operation EXCEPT ![c] = operation'[c]]
         /\ \A ok \in BOOLEAN : Prepared(s, c, ok) =>
              /\ operation' = [operation EXCEPT ![c] = operation'[c]]
              /\ operation'[c] \in Operation
              /\ \/ operation'[c] = operation[c] /\ ~Has(s, c, "prepare")
                 \/ ok /\ operation[c] # NoOperation /\ Has(s, c, "prepare")
                       /\ operation'[c] = [operation[c] EXCEPT !.at = "publish"]
                 \/ ~ok /\ operation'[c] = NoOperation
<1>1. operation \in [Commit -> Operation]
  BY DEF ServerInv, ServerTypes
<1>2. End(c) => operation'[c] = NoOperation
                /\ operation' = [operation EXCEPT ![c] = operation'[c]]
  BY <1>1 DEF End
<1>3. ASSUME NEW ok \in BOOLEAN, Prepared(s, c, ok)
      PROVE  /\ operation' = [operation EXCEPT ![c] = operation'[c]]
             /\ operation'[c] \in Operation
             /\ \/ operation'[c] = operation[c] /\ ~Has(s, c, "prepare")
                \/ ok /\ operation[c] # NoOperation /\ Has(s, c, "prepare")
                      /\ operation'[c] = [operation[c] EXCEPT !.at = "publish"]
                \/ ~ok /\ operation'[c] = NoOperation
  <2>1. Has(s, c, "prepare") => operation[c] # NoOperation
    BY OperationTypes DEF Has
  <2>2. Has(s, c, "prepare") => [operation[c] EXCEPT !.at = "publish"] \in Operation
    BY <1>1, <2>1, OperationTypes
  <2> QED
    BY <1>1, <1>3, <2>1, <2>2, OperationTypes DEF Prepared
<1> QED
  BY <1>1, <1>2, <1>3

LEMMA CellUnchanged ==
  ASSUME ServerInv, NEW s \in Server, NEW c \in Commit
  PROVE  /\ prepared[s][c] \in Tree \union {NoTree}
         /\ preparing[s][c] \in {"idle", "check", "remove", "copy", "build", "mark"}
         /\ prepared = [prepared EXCEPT ![s][c] = prepared[s][c]]
         /\ preparing = [preparing EXCEPT ![s][c] = preparing[s][c]]
         /\ runtime[s] \in Runtime
         /\ snapshot[c] \in [files: {"none", "some", "all"}, marked: BOOLEAN]
         /\ SyncInv(c) /\ DeployInv(c) /\ PreparationInv(s, c)
BY DEF ServerInv, ServerTypes

LEMMA BeginDeployStep ==
  ASSUME ServerInv, NEW s \in Server, NEW c \in Commit, BeginDeploy(s, c)
  PROVE  ServerInv'
<1> DEFINE p == IF preparing[s][c] = "idle" THEN "check" ELSE preparing[s][c]
<1>1. /\ snapshot' = snapshot /\ runtime' = runtime /\ artifacts' = artifacts
      /\ prepared' = prepared
  BY DEF BeginDeploy
<1>2. p \in {"idle", "check", "remove", "copy", "build", "mark"}
  BY CellUnchanged
<1>3. preparing' = [preparing EXCEPT ![s][c] = p] /\ preparing'[s][c] = p
  BY DEF BeginDeploy, ServerInv, ServerTypes
<1>4. /\ operation' = [operation EXCEPT ![c] = operation'[c]]
      /\ operation'[c] = [at |-> "prepare", by |-> s, digest |-> NoTree]
      /\ operation'[c] \in Operation
  BY OperationTypes DEF BeginDeploy, Begin, ServerInv, ServerTypes
<1>5. PreparationInv(s, c)'
  BY <1>1, <1>3, CellUnchanged DEF PreparationInv
<1>6. DeployInv(c)'
  BY <1>4 DEF DeployInv
<1>7. /\ prepared[s][c] \in Tree \union {NoTree}
      /\ prepared' = [prepared EXCEPT ![s][c] = prepared[s][c]]
  BY <1>1, CellUnchanged
<1>8. \A d \in artifacts' : d \in artifacts \/ (d \in Digest /\ Whole(d))
  BY <1>1
<1>9. operation'[c] = operation[c] \/ operation'[c].at \in {"none", "prepare", "publish"}
  BY <1>4
<1> HIDE DEF p
<1> QED
  BY <1>1, <1>2, <1>3, <1>4, <1>5, <1>6, <1>7, <1>8, <1>9, CellStep

LEMMA HashStep ==
  ASSUME ServerInv, NEW s \in Server, NEW c \in Commit, HashPrepared(s, c)
  PROVE  ServerInv'
<1> DEFINE t == prepared[s][c]
<1>1. /\ snapshot' = snapshot /\ runtime' = runtime /\ artifacts' = artifacts
      /\ prepared' = prepared /\ preparing' = preparing
  BY DEF HashPrepared
<1>2. operation[c] \in Operation /\ operation[c] # NoOperation
  BY OperationTypes DEF HashPrepared, Has, ServerInv, ServerTypes
<1>3. t \in Digest /\ t # NoTree
  BY CellUnchanged DEF HashPrepared, Digest
<1>4. /\ operation' = [operation EXCEPT ![c] = operation'[c]]
      /\ operation'[c] = [operation[c] EXCEPT !.digest = t]
      /\ operation'[c] \in Operation
  BY <1>2, <1>3, OperationTypes DEF HashPrepared, ServerInv, ServerTypes
<1>5. /\ operation'[c].at = "publish" /\ operation'[c].by = operation[c].by
      /\ operation'[c].digest = t
  BY <1>2, <1>4 DEF Operation, NoOperation, HashPrepared, Has
<1>6. Whole(t)
  <2>1. t.ready = runtime[s] /\ Vouched(t, runtime[s])
    BY <1>3, CellUnchanged DEF HashPrepared, Has, DeployInv, PreparationInv
  <2> QED
    BY <2>1, CellUnchanged, RuntimeNat DEF Vouched
<1>7. PreparationInv(s, c)'
  BY <1>1, CellUnchanged DEF PreparationInv
<1>8. DeployInv(c)'
  BY <1>1, <1>5, <1>6, CellUnchanged DEF DeployInv, HashPrepared, Has
<1>9. /\ prepared[s][c] \in Tree \union {NoTree}
      /\ preparing[s][c] \in {"idle", "check", "remove", "copy", "build", "mark"}
      /\ prepared' = [prepared EXCEPT ![s][c] = prepared[s][c]]
      /\ preparing' = [preparing EXCEPT ![s][c] = preparing[s][c]]
  BY <1>1, CellUnchanged
<1> HIDE DEF t
<1> QED
  BY <1>1, <1>4, <1>5, <1>7, <1>8, <1>9, CellStep

LEMMA PublishStep ==
  ASSUME ServerInv, NEW s \in Server, NEW c \in Commit, Publish(s, c)
  PROVE  ServerInv'
<1>1. /\ snapshot' = snapshot /\ runtime' = runtime
      /\ prepared' = prepared /\ preparing' = preparing
  BY DEF Publish
<1>2. /\ operation' = [operation EXCEPT ![c] = operation'[c]]
      /\ operation'[c] = NoOperation
  BY OperationSteps DEF Publish
<1>3. \A d \in artifacts' : d \in artifacts \/ (d \in Digest /\ Whole(d))
  <2>1. operation[c] \in Operation /\ operation[c] # NoOperation
    BY OperationTypes DEF Publish, Has, ServerInv, ServerTypes
  <2>2. operation[c].digest \in Digest
    BY <2>1, OperationTypes DEF Publish
  <2>3. Whole(operation[c].digest)
    BY CellUnchanged DEF DeployInv, Publish, Has
  <2> QED
    BY <2>2, <2>3 DEF Publish
<1>4. PreparationInv(s, c)'
  BY <1>1, CellUnchanged DEF PreparationInv
<1>5. DeployInv(c)'
  BY <1>2, OperationTypes DEF DeployInv
<1>9. /\ prepared[s][c] \in Tree \union {NoTree}
      /\ preparing[s][c] \in {"idle", "check", "remove", "copy", "build", "mark"}
      /\ prepared' = [prepared EXCEPT ![s][c] = prepared[s][c]]
      /\ preparing' = [preparing EXCEPT ![s][c] = preparing[s][c]]
  BY <1>1, CellUnchanged
<1> QED
  BY <1>1, <1>2, <1>3, <1>4, <1>5, OperationTypes, <1>9, CellStep

LEMMA GiveUpStep ==
  ASSUME ServerInv, NEW c \in Commit, GiveUp(c)
  PROVE  ServerInv'
<1>1. PICK s \in Server : operation[c].by = s
  BY OperationTypes DEF GiveUp, ServerInv, ServerTypes
<1>2. /\ snapshot' = snapshot /\ runtime' = runtime /\ artifacts' = artifacts
      /\ prepared' = prepared /\ preparing' = preparing
  BY DEF GiveUp
<1>3. /\ operation' = [operation EXCEPT ![c] = operation'[c]]
      /\ operation'[c] = NoOperation
  BY OperationSteps DEF GiveUp
<1>4. PreparationInv(s, c)'
  BY <1>2, CellUnchanged DEF PreparationInv
<1>5. DeployInv(c)'
  BY <1>3, OperationTypes DEF DeployInv
<1>9. /\ prepared[s][c] \in Tree \union {NoTree}
      /\ preparing[s][c] \in {"idle", "check", "remove", "copy", "build", "mark"}
      /\ prepared' = [prepared EXCEPT ![s][c] = prepared[s][c]]
      /\ preparing' = [preparing EXCEPT ![s][c] = preparing[s][c]]
  BY <1>1, <1>2, CellUnchanged
<1> QED
  BY <1>2, <1>3, <1>4, <1>5, OperationTypes, <1>9, CellStep

\* A step of a preparation that leaves tree t in its directory and goes on at p.  The
\* operation of the commit is left alone or ends, unless the preparation ends well.
PreparesTo(s, c, t, p) ==
  /\ snapshot' = snapshot /\ runtime' = runtime /\ artifacts' = artifacts
  /\ t \in Tree \union {NoTree} /\ prepared' = [prepared EXCEPT ![s][c] = t]
  /\ p \in {"idle", "check", "remove", "copy", "build", "mark"}
  /\ preparing[s][c] # "idle" /\ preparing' = [preparing EXCEPT ![s][c] = p]
  /\ \/ operation' = operation
     \/ Prepared(s, c, FALSE)
     \/ Prepared(s, c, TRUE) /\ p = "idle" /\ t # NoTree /\ t.ready = runtime[s]
  /\ t # NoTree => Vouched(t, runtime[s])
  /\ p \in {"remove", "copy", "build", "mark"} => snapshot[c].marked
  /\ p = "remove" => t = NoTree \/ t.ready # runtime[s]
  /\ p = "copy" => t = NewTree(c)
  /\ p = "build" => t # NoTree /\ t.files = "source" /\ t.ready = None
  /\ p = "mark" => t # NoTree /\ t.files = "all" /\ t.by = runtime[s]

LEMMA PreparationStep ==
  ASSUME ServerInv, NEW s \in Server, NEW c \in Commit, NEW t, NEW p,
         PreparesTo(s, c, t, p)
  PROVE  ServerInv'
<1> USE DEF PreparesTo
<1>1. prepared'[s][c] = t /\ preparing'[s][c] = p
  BY DEF ServerInv, ServerTypes
<1>2. PreparationInv(s, c)'
  BY <1>1 DEF PreparationInv
<1>3. /\ operation' = [operation EXCEPT ![c] = operation'[c]]
      /\ operation'[c] \in Operation
  BY OperationSteps DEF ServerInv, ServerTypes
<1>4. operation'[c] = operation[c] \/ operation'[c].at \in {"none", "publish"}
  <2>1. ASSUME operation[c] \in Operation, operation[c] # NoOperation
        PROVE  [operation[c] EXCEPT !.at = "publish"].at = "publish"
    BY <2>1 DEF Operation
  <2> QED
    BY <2>1, OperationSteps, OperationTypes
<1>5. DeployInv(c)'
  <2>1. DeployInv(c) /\ operation[c] \in Operation
    BY CellUnchanged, OperationSteps
  <2>2. CASE operation'[c] = operation[c]
    <3>1. ASSUME operation[c].at = "publish"
          PROVE  LET z == operation[c].by
                 IN  preparing'[z][c] = preparing[z][c] /\ prepared'[z][c] = prepared[z][c]
      <4>1. operation[c].by \in Server /\ operation[c].by # s
        BY <2>1, <3>1, OperationTypes DEF DeployInv
      <4> QED
        BY <4>1 DEF ServerInv, ServerTypes
    <3> QED
      BY <2>1, <2>2, <3>1 DEF DeployInv
  <2>3. CASE operation'[c] = NoOperation
    BY <2>3, OperationTypes DEF DeployInv
  <2>4. CASE /\ Prepared(s, c, TRUE) /\ p = "idle" /\ t # NoTree /\ t.ready = runtime[s]
             /\ operation[c] # NoOperation /\ Has(s, c, "prepare")
             /\ operation'[c] = [operation[c] EXCEPT !.at = "publish"]
    <3>1. /\ operation'[c].by = s /\ operation'[c].digest = operation[c].digest
      BY <2>1, <2>4 DEF Operation, Has
    <3> QED
      BY <1>1, <2>1, <2>4, <3>1 DEF DeployInv, Has
  <2> QED
    BY <2>2, <2>3, <2>4, OperationSteps
<1>6. \A d \in artifacts' : d \in artifacts \/ (d \in Digest /\ Whole(d))
  OBVIOUS
<1>7. operation'[c] = operation[c] \/ operation'[c].at \in {"none", "prepare", "publish"}
  BY <1>4
<1> QED
  BY <1>2, <1>3, <1>5, <1>6, <1>7, CellStep

LEMMA CheckPreparedStep ==
  ASSUME ServerInv, NEW s \in Server, NEW c \in Commit, CheckPrepared(s, c)
  PROVE  ServerInv'
<1> DEFINE t == prepared[s][c]
<1>1. /\ snapshot' = snapshot /\ runtime' = runtime /\ artifacts' = artifacts
      /\ prepared' = prepared /\ preparing[s][c] = "check"
  BY DEF CheckPrepared, Step
<1>2. /\ t \in Tree \union {NoTree} /\ prepared = [prepared EXCEPT ![s][c] = t]
      /\ t # NoTree => Vouched(t, runtime[s])
  BY CellUnchanged DEF PreparationInv
<1>3. CASE Ready(s, c) /\ Step(s, c, "check", "idle") /\ Prepared(s, c, TRUE)
  <2>1. t # NoTree /\ t.ready = runtime[s]
    BY <1>3 DEF Ready
  <2>2. preparing' = [preparing EXCEPT ![s][c] = "idle"]
    BY <1>3 DEF Step
  <2> HIDE DEF t
  <2>z. PreparesTo(s, c, t, "idle")
    BY <1>1, <1>2, <1>3, <2>1, <2>2 DEF PreparesTo
  <2> QED
    BY <2>z, PreparationStep
<1>4. CASE ~Ready(s, c) /\ snapshot[c].marked /\ Step(s, c, "check", "remove")
           /\ UNCHANGED operation
  <2>1. t = NoTree \/ t.ready # runtime[s]
    BY <1>4 DEF Ready
  <2>2. preparing' = [preparing EXCEPT ![s][c] = "remove"]
    BY <1>4 DEF Step
  <2> HIDE DEF t
  <2>z. PreparesTo(s, c, t, "remove")
    BY <1>1, <1>2, <1>4, <2>1, <2>2 DEF PreparesTo
  <2> QED
    BY <2>z, PreparationStep
<1>5. CASE Step(s, c, "check", "idle") /\ Prepared(s, c, FALSE)
  <2>1. preparing' = [preparing EXCEPT ![s][c] = "idle"]
    BY <1>5 DEF Step
  <2> HIDE DEF t
  <2>z. PreparesTo(s, c, t, "idle")
    BY <1>1, <1>2, <1>5, <2>1 DEF PreparesTo
  <2> QED
    BY <2>z, PreparationStep
<1> QED
  BY <1>3, <1>4, <1>5 DEF CheckPrepared

LEMMA RemovePreparedStep ==
  ASSUME ServerInv, NEW s \in Server, NEW c \in Commit, RemovePrepared(s, c)
  PROVE  ServerInv'
<1>1. /\ snapshot' = snapshot /\ runtime' = runtime /\ artifacts' = artifacts
      /\ operation' = operation /\ preparing[s][c] = "remove"
  BY DEF RemovePrepared, Step
<1>2. /\ snapshot[c].marked
      /\ prepared[s][c] \in Tree \union {NoTree}
      /\ prepared[s][c] # NoTree =>
           Vouched(prepared[s][c], runtime[s]) /\ prepared[s][c].ready # runtime[s]
  BY <1>1, CellUnchanged DEF PreparationInv
<1>3. ASSUME NEW t \in Parts(prepared[s][c]), Holds(s, c, t), Step(s, c, "remove", "remove")
      PROVE  ServerInv'
  <2>1. t \in Tree \union {NoTree}
    BY <1>2, TreeTypes
  <2>2. t # NoTree => Vouched(t, runtime[s]) /\ t.ready # runtime[s]
    BY <1>2, CellUnchanged, PartsVouched
  <2>3. /\ prepared' = [prepared EXCEPT ![s][c] = t]
        /\ preparing' = [preparing EXCEPT ![s][c] = "remove"]
    BY <1>3 DEF Holds, Step
  <2>z. PreparesTo(s, c, t, "remove")
    BY <1>1, <1>2, <2>1, <2>2, <2>3 DEF PreparesTo
  <2> QED
    BY <2>z, PreparationStep
<1>4. CASE Step(s, c, "remove", "copy") /\ Holds(s, c, NewTree(c))
  <2>1. NewTree(c) \in Tree \union {NoTree} /\ Vouched(NewTree(c), runtime[s])
    BY TreeTypes DEF NewTree, Vouched
  <2>2. /\ prepared' = [prepared EXCEPT ![s][c] = NewTree(c)]
        /\ preparing' = [preparing EXCEPT ![s][c] = "copy"]
    BY <1>4 DEF Holds, Step
  <2>z. PreparesTo(s, c, NewTree(c), "copy")
    BY <1>1, <1>2, <2>1, <2>2 DEF PreparesTo
  <2> QED
    BY <2>z, PreparationStep
<1> QED
  BY <1>3, <1>4 DEF RemovePrepared

\* The source is whole because it is marked: nobody synchronizes it while it is copied.
LEMMA CopySourceStep ==
  ASSUME ServerInv, NEW s \in Server, NEW c \in Commit, CopySource(s, c)
  PROVE  ServerInv'
<1> DEFINE t == [prepared[s][c] EXCEPT !.files = "source"]
<1>1. /\ snapshot' = snapshot /\ runtime' = runtime /\ artifacts' = artifacts
      /\ operation' = operation /\ preparing[s][c] = "copy"
      /\ preparing' = [preparing EXCEPT ![s][c] = "build"]
  BY DEF CopySource, Step
<1>2. snapshot[c].marked /\ prepared[s][c] = NewTree(c)
  BY <1>1, CellUnchanged DEF PreparationInv
<1>3. prepared' = [prepared EXCEPT ![s][c] = t]
  BY <1>2, CellUnchanged DEF CopySource, Holds, SyncInv
<1>4. t \in Tree /\ t # NoTree
  BY <1>2, TreeTypes
<1>5. t.files = "source" /\ t.ready = None
  BY <1>2 DEF NewTree
<1>6. Vouched(t, runtime[s])
  BY <1>5 DEF Vouched
<1> HIDE DEF t
<1>z. PreparesTo(s, c, t, "build")
  BY <1>1, <1>2, <1>3, <1>4, <1>5, <1>6 DEF PreparesTo
<1> QED
  BY <1>z, PreparationStep

LEMMA PrepareSourceStep ==
  ASSUME ServerInv, NEW s \in Server, NEW c \in Commit, PrepareSource(s, c)
  PROVE  ServerInv'
<1> DEFINE t == [prepared[s][c] EXCEPT !.files = "all", !.by = runtime[s]]
<1>1. /\ snapshot' = snapshot /\ runtime' = runtime /\ artifacts' = artifacts
      /\ operation' = operation /\ preparing[s][c] = "build"
      /\ preparing' = [preparing EXCEPT ![s][c] = "mark"]
  BY DEF PrepareSource, Step
<1>2. /\ snapshot[c].marked /\ prepared[s][c] # NoTree
      /\ prepared[s][c].files = "source" /\ prepared[s][c].ready = None
  BY <1>1, CellUnchanged DEF PreparationInv
<1>3. prepared' = [prepared EXCEPT ![s][c] = t]
  BY <1>2 DEF PrepareSource, Holds
<1>4. t \in Tree /\ t # NoTree
  <2>1. prepared[s][c] \in Tree /\ runtime[s] \in Runtime
    BY <1>2, CellUnchanged
  <2>2. t \in Tree
    BY <2>1, TreeTypes
  <2> HIDE DEF t
  <2> QED
    BY <2>2, TreeTypes
<1>5. t.files = "all" /\ t.by = runtime[s] /\ t.ready = None
  BY <1>2, CellUnchanged DEF Tree
<1>6. Vouched(t, runtime[s])
  BY <1>5 DEF Vouched
<1> HIDE DEF t
<1>z. PreparesTo(s, c, t, "mark")
  BY <1>1, <1>2, <1>3, <1>4, <1>5, <1>6 DEF PreparesTo
<1> QED
  BY <1>z, PreparationStep

LEMMA MarkPreparedStep ==
  ASSUME ServerInv, NEW s \in Server, NEW c \in Commit, MarkPrepared(s, c)
  PROVE  ServerInv'
<1> DEFINE t == [prepared[s][c] EXCEPT !.ready = runtime[s]]
<1>1. /\ snapshot' = snapshot /\ runtime' = runtime /\ artifacts' = artifacts
      /\ Prepared(s, c, TRUE) /\ preparing[s][c] = "mark"
      /\ preparing' = [preparing EXCEPT ![s][c] = "idle"]
      /\ prepared' = [prepared EXCEPT ![s][c] = t]
  BY DEF MarkPrepared, Step, Holds
<1>2. /\ prepared[s][c] # NoTree /\ prepared[s][c].files = "all"
      /\ prepared[s][c].by = runtime[s]
  BY <1>1, CellUnchanged DEF PreparationInv
<1>3. t \in Tree /\ t # NoTree
  <2>1. prepared[s][c] \in Tree /\ runtime[s] \in Runtime
    BY <1>2, CellUnchanged
  <2>2. t \in Tree
    BY <2>1, TreeTypes
  <2> HIDE DEF t
  <2> QED
    BY <2>2, TreeTypes
<1>4. t.files = "all" /\ t.by = runtime[s] /\ t.ready = runtime[s]
  BY <1>2, CellUnchanged DEF Tree
<1>5. Vouched(t, runtime[s])
  BY <1>4, CellUnchanged, RuntimeNat DEF Vouched, Whole
<1> HIDE DEF t
<1>z. PreparesTo(s, c, t, "idle")
  BY <1>1, <1>3, <1>4, <1>5 DEF PreparesTo
<1> QED
  BY <1>z, PreparationStep

LEMMA FailPreparationStep ==
  ASSUME ServerInv, NEW s \in Server, NEW c \in Commit, FailPreparation(s, c)
  PROVE  ServerInv'
<1> DEFINE t == prepared[s][c]
<1>1. /\ snapshot' = snapshot /\ runtime' = runtime /\ artifacts' = artifacts
      /\ Prepared(s, c, FALSE) /\ preparing[s][c] # "idle"
      /\ preparing' = [preparing EXCEPT ![s][c] = "idle"]
  BY DEF FailPreparation, Step
<1>2. /\ t \in Tree \union {NoTree} /\ prepared' = [prepared EXCEPT ![s][c] = t]
      /\ t # NoTree => Vouched(t, runtime[s])
  BY CellUnchanged DEF FailPreparation, PreparationInv
<1> HIDE DEF t
<1>z. PreparesTo(s, c, t, "idle")
  BY <1>1, <1>2 DEF PreparesTo
<1> QED
  BY <1>z, PreparationStep

\* A server that starts again has what it had in its cache, and nothing else under way.
LEMMA RestartServerStep ==
  ASSUME ServerInv, NEW s \in Server, RestartServer(s)
  PROVE  ServerInv'
<1>1. snapshot' = snapshot /\ prepared' = prepared /\ artifacts' = artifacts
  BY DEF RestartServer
<1>2. PICK f \in runtime[s]..MaxRuntime : runtime' = [runtime EXCEPT ![s] = f]
  BY DEF RestartServer, Restarted
<1>3. runtime[s] \in Nat /\ f \in Runtime /\ f >= runtime[s]
  BY ConstantAssumption DEF ServerInv, ServerTypes, Runtime
<1>4. /\ \A z \in Server : z # s => runtime'[z] = runtime[z] /\ preparing'[z] = preparing[z]
      /\ runtime'[s] = f /\ \A c \in Commit : preparing'[s][c] = "idle"
  BY <1>2 DEF ServerInv, ServerTypes, RestartServer
<1>5. \A c \in Commit : \/ operation'[c] = NoOperation
                        \/ operation'[c] = operation[c] /\ operation[c].by # s
                        \/ operation'[c] = operation[c] /\ operation[c] = NoOperation
  BY DEF RestartServer
<1>6. ServerTypes'
  <2>1. operation' \in [Commit -> Operation]
    BY OperationTypes DEF ServerInv, ServerTypes, RestartServer
  <2>2. preparing' \in
          [Server -> [Commit -> {"idle", "check", "remove", "copy", "build", "mark"}]]
    BY DEF ServerInv, ServerTypes, RestartServer
  <2>3. runtime' \in [Server \union Worker -> Runtime]
    BY <1>2, <1>3 DEF ServerInv, ServerTypes
  <2> QED
    BY <1>1, <2>1, <2>2, <2>3 DEF ServerInv, ServerTypes
<1>7. ASSUME NEW c \in Commit PROVE SyncInv(c)' /\ DeployInv(c)'
  <2>1. SyncInv(c) /\ DeployInv(c)
    BY DEF ServerInv
  <2>2. CASE operation'[c] = NoOperation
    BY <1>1, <2>1, <2>2, OperationTypes DEF SyncInv, DeployInv
  <2>3. CASE operation'[c] = operation[c] /\ operation[c] # NoOperation
    <3>1. operation[c].by \in Server /\ operation[c].by # s
      BY <1>5, <2>3, OperationTypes DEF ServerInv, ServerTypes
    <3> QED
      BY <1>1, <1>4, <2>1, <2>3, <3>1 DEF SyncInv, DeployInv
  <2> QED
    BY <1>5, <2>2, <2>3
<1>8. ASSUME NEW z \in Server, NEW c \in Commit PROVE PreparationInv(z, c)'
  <2>1. PreparationInv(z, c)
    BY DEF ServerInv
  <2>2. CASE z # s
    BY <1>1, <1>4, <2>1, <2>2 DEF PreparationInv
  <2>3. CASE z = s
    <3>1. ASSUME prepared[s][c] # NoTree, Vouched(prepared[s][c], runtime[s])
          PROVE  Vouched(prepared[s][c], f)
      <4>1. prepared[s][c].ready \in Nat
        BY <3>1, RuntimeNat DEF ServerInv, ServerTypes, Tree
      <4> QED
        BY <1>3, <3>1, <4>1, RuntimeNat DEF Vouched
    <3> QED
      BY <1>1, <1>4, <2>1, <2>3, <3>1 DEF PreparationInv
  <2> QED
    BY <2>2, <2>3
<1> QED
  BY <1>1, <1>6, <1>7, <1>8 DEF ServerInv, PublishedComplete

\* What a worker does changes nothing of a server, not even when it starts again.
LEMMA WorkersLeaveServers ==
  ASSUME ServerInv, serverVars' = serverVars,
         runtime' = runtime \/ \E w \in Worker : Restarted(w)
  PROVE  ServerInv'
<1>1. /\ runtime' \in [Server \union Worker -> Runtime]
      /\ \A s \in Server : runtime'[s] = runtime[s]
  <2>1. CASE runtime' = runtime
    BY <2>1 DEF ServerInv, ServerTypes
  <2>2. ASSUME NEW w \in Worker, NEW f \in runtime[w]..MaxRuntime,
               runtime' = [runtime EXCEPT ![w] = f]
        PROVE  /\ runtime' \in [Server \union Worker -> Runtime]
               /\ \A s \in Server : runtime'[s] = runtime[s]
    <3>1. f \in Runtime
      BY ConstantAssumption DEF ServerInv, ServerTypes, Runtime
    <3>2. \A s \in Server : s # w
      BY ConstantAssumption
    <3> QED
      BY <2>2, <3>1, <3>2 DEF ServerInv, ServerTypes
  <2> QED
    BY <2>1, <2>2 DEF Restarted
<1>2. /\ snapshot' = snapshot /\ prepared' = prepared /\ preparing' = preparing
      /\ operation' = operation /\ artifacts' = artifacts
  BY DEF serverVars
<1>3. ASSUME NEW c \in Commit PROVE SyncInv(c)' /\ DeployInv(c)'
  <2>1. operation[c].at = "publish" => operation[c].by \in Server
    BY OperationTypes DEF ServerInv, ServerTypes
  <2> QED
    BY <1>1, <1>2, <2>1 DEF ServerInv, SyncInv, DeployInv
<1>4. ASSUME NEW s \in Server, NEW c \in Commit PROVE PreparationInv(s, c)'
  BY <1>1, <1>2 DEF ServerInv, PreparationInv
<1> QED
  BY <1>1, <1>2, <1>3, <1>4 DEF ServerInv, ServerTypes, PublishedComplete

LEMMA ServerStep ==
  ASSUME ServerInv, [Next]_vars
  PROVE  ServerInv'
<1>1. CASE UNCHANGED vars
  BY <1>1, WorkersLeaveServers DEF vars
<1>2. ASSUME NEW s \in Server, NEW c \in Commit, ServerNext(s, c) PROVE ServerInv'
  BY <1>2, SyncStep, BeginDeployStep, HashStep, PublishStep, CheckPreparedStep,
     RemovePreparedStep, CopySourceStep, PrepareSourceStep, MarkPreparedStep,
     FailPreparationStep DEF ServerNext
<1>3. ASSUME NEW w \in Worker, RestartWorker(w) \/ EndJob(w) PROVE ServerInv'
  BY <1>3, WorkersLeaveServers DEF RestartWorker, EndJob
<1>4. ASSUME NEW w \in Worker, NEW d \in artifacts, WorkerNext(w, d) PROVE ServerInv'
  <2>1. serverVars' = serverVars /\ runtime' = runtime
    BY <1>4 DEF WorkerNext, StartJob, CheckMarker, UseHit, FetchTo, Remove, Place, Validate,
                Mark, FailOpening
  <2> QED
    BY <2>1, WorkersLeaveServers
<1> QED
  BY <1>1, <1>2, <1>3, <1>4, RestartServerStep, GiveUpStep DEF Next

\* The inductive invariant of the servers' side.
THEOREM ServersHold == Spec => []ServerInv
<1>1. Init => ServerInv
  BY ServerInitially
<1>2. ServerInv /\ [Next]_vars => ServerInv'
  BY ServerStep
<1> QED
  BY <1>1, <1>2, PTL DEF Spec

\* A revision that the source store calls complete is complete (Materialize).
THEOREM SnapshotsWhole == Spec => []SnapshotWhole
<1>1. ServerInv => SnapshotWhole
  BY DEF ServerInv, SyncInv, SnapshotWhole
<1> QED
  BY <1>1, ServersHold, PTL

\* What is published is complete and prepared by the runtime it names (Publish).
THEOREM PublicationsComplete == Spec => []PublishedComplete
<1>1. ServerInv => PublishedComplete
  BY DEF ServerInv
<1> QED
  BY <1>1, ServersHold, PTL

-----------------------------------------------------------------------------
(* The workers' side.                                                       *)

\* No two workers use one bundle cache.
OwnCaches == \A v, w \in Worker : CacheOf[v] = CacheOf[w] => v = w

States == {"idle", "check", "hit", "fetch", "remove", "place", "validate", "discard", "mark"}
Entries == [tree: Tree \union {NoTree}, marked: BOOLEAN]

LEMMA WorkerCell ==
  ASSUME WorkerInv, NEW w \in Worker, NEW d \in Digest
  PROVE  /\ Entry(w, d) \in Entries /\ opening[w][d] \in States
         /\ cached = [cached EXCEPT ![CacheOf[w]][d] = Entry(w, d)]
         /\ opening = [opening EXCEPT ![w][d] = opening[w][d]]
         /\ d # NoTree
         /\ OpeningInv(w, d) /\ RunningInv(w)
<1>1. CacheOf[w] \in Cache
  BY DEF Cache
<1>2. d # NoTree
  BY TreeTypes DEF Digest
<1> QED
  BY <1>1, <1>2 DEF WorkerInv, WorkerTypes, Entry, Entries, States

\* A job is idle without a digest, or it has one.
LEMMA JobTypes ==
  /\ NoJob.at = "idle" /\ NoJob.digest = NoTree
  /\ \A j \in [at: {"waiting", "running"}, digest: Digest] \union {NoJob} :
       j.at = "running" => j.digest \in Digest
BY DEF NoJob

LEMMA WorkersInitially == Init => WorkerInv
<1> SUFFICES ASSUME Init PROVE WorkerInv
  OBVIOUS
<1>1. WorkerTypes
  <2>1. 1 \in Runtime
    BY ConstantAssumption DEF Runtime
  <2> QED
    BY <2>1 DEF Init, WorkerTypes, Empty
<1>2. \A w \in Worker : RunningInv(w)
  BY JobTypes DEF Init, RunningInv
<1>3. \A w \in Worker, d \in Digest : OpeningInv(w, d)
  <2>1. \A w \in Worker : CacheOf[w] \in Cache
    BY DEF Cache
  <2> QED
    BY <2>1 DEF Init, OpeningInv, Empty
<1> QED
  BY <1>1, <1>2, <1>3 DEF WorkerInv

\* What Opened does to the worker's job.
LEMMA OpenedJob ==
  ASSUME WorkerTypes, NEW w \in Worker, NEW d \in Digest, NEW ok \in BOOLEAN,
         Opened(w, d, ok)
  PROVE  /\ job' \in [Worker -> [at: {"waiting", "running"}, digest: Digest] \union {NoJob}]
         /\ \A v \in Worker : v # w => job'[v] = job[v]
         /\ \/ job'[w] = job[w]
            \/ job'[w] = NoJob
            \/ ok /\ job'[w].digest = d
BY DEF WorkerTypes, Opened

\* A step of the opening of a digest by a worker that has a cache of its own: it leaves
\* entry e in the cache and goes on at the state "at".
OpensTo(w, d, e, at) ==
  /\ runtime' = runtime /\ opening[w][d] # "idle"
  /\ e \in Entries /\ cached' = [cached EXCEPT ![CacheOf[w]][d] = e]
  /\ at \in States /\ opening' = [opening EXCEPT ![w][d] = at]
  /\ \/ job' = job
     \/ Opened(w, d, FALSE)
     \/ Opened(w, d, TRUE) /\ at = "idle" /\ e.tree = d /\ d.ready = runtime[w]
  /\ e.marked => e.tree = d
  /\ at = "hit" => e.marked
  /\ at \in {"fetch", "remove", "place", "validate", "discard", "mark"} => ~e.marked
  /\ at \in {"validate", "mark"} => e.tree = d
  /\ at = "mark" => d.ready = runtime[w]

LEMMA OpeningStep ==
  ASSUME WorkerInv, OwnCaches, NEW w \in Worker, NEW d \in Digest, NEW e, NEW at,
         OpensTo(w, d, e, at)
  PROVE  WorkerInv'
<1> USE DEF OpensTo
<1>1. \A v \in Worker : CacheOf[v] \in Cache
  BY DEF Cache
<1>2. cached'[CacheOf[w]][d] = e /\ opening'[w][d] = at
  BY <1>1 DEF WorkerInv, WorkerTypes, States
<1>3. ASSUME NEW v \in Worker, NEW b \in Digest, ~(v = w /\ b = d)
      PROVE  /\ cached'[CacheOf[v]][b] = cached[CacheOf[v]][b]
             /\ opening'[v][b] = opening[v][b]
  <2>1. ~(CacheOf[v] = CacheOf[w] /\ b = d)
    BY <1>3 DEF OwnCaches
  <2> QED
    BY <1>1, <1>3, <2>1 DEF WorkerInv, WorkerTypes
<1>4. /\ job' \in [Worker -> [at: {"waiting", "running"}, digest: Digest] \union {NoJob}]
      /\ \A v \in Worker : v # w => job'[v] = job[v]
      /\ \/ job'[w] = job[w]
         \/ job'[w] = NoJob
         \/ job'[w].digest = d /\ at = "idle" /\ e.tree = d /\ d.ready = runtime[w]
  BY OpenedJob DEF WorkerInv, WorkerTypes
<1>5. WorkerTypes'
  <2>1. cached' \in [Cache -> [Digest -> [tree: Tree \union {NoTree}, marked: BOOLEAN]]]
    BY DEF WorkerInv, WorkerTypes, Entries
  <2>2. opening' \in [Worker -> [Digest -> States]]
    BY DEF WorkerInv, WorkerTypes, States
  <2> QED
    BY <1>4, <2>1, <2>2 DEF WorkerInv, WorkerTypes, States
<1>6. ASSUME NEW v \in Worker, NEW b \in Digest PROVE OpeningInv(v, b)'
  <2>1. CASE v = w /\ b = d
    BY <1>2, <2>1 DEF OpeningInv
  <2>2. CASE ~(v = w /\ b = d)
    <3>1. OpeningInv(v, b)
      BY DEF WorkerInv
    <3> QED
      BY <1>3, <2>2, <3>1 DEF OpeningInv
  <2> QED
    BY <2>1, <2>2
<1>7. ASSUME NEW v \in Worker, job'[v].at = "running" PROVE RunningInv(v)'
  <2>1. job'[v].digest \in Digest
    BY <1>4, <1>7, JobTypes
  <2>2. CASE job'[v] = job[v]
    <3>1. RunningInv(v) /\ job[v].at = "running"
      BY <1>7, <2>2 DEF WorkerInv
    <3>2. ~(v = w /\ job[v].digest = d)
      BY <3>1 DEF RunningInv
    <3> QED
      BY <1>3, <2>1, <2>2, <3>1, <3>2 DEF RunningInv
  <2>3. CASE v = w /\ job'[w].digest = d /\ at = "idle" /\ e.tree = d /\ d.ready = runtime[w]
    BY <1>2, <2>3 DEF RunningInv
  <2> QED
    BY <1>4, <1>7, <2>2, <2>3, JobTypes
<1> QED
  BY <1>5, <1>6, <1>7 DEF WorkerInv, RunningInv

LEMMA LookStep ==
  ASSUME WorkerInv, OwnCaches, NEW w \in Worker, NEW d \in Digest,
         CheckMarker(w, d) \/ UseHit(w, d) \/ FetchTo(w, d) \/ Validate(w, d)
  PROVE  WorkerInv'
<1> DEFINE e == Entry(w, d)
<1>1. runtime' = runtime /\ cached' = cached
  BY DEF CheckMarker, UseHit, FetchTo, Validate
<1>2. /\ e \in Entries /\ cached' = [cached EXCEPT ![CacheOf[w]][d] = e]
      /\ d # NoTree /\ OpeningInv(w, d)
  BY <1>1, WorkerCell
<1>3. /\ e.marked => e.tree = d
      /\ opening[w][d] = "hit" => e.marked
      /\ opening[w][d] \in {"fetch", "remove", "place", "validate", "discard", "mark"}
           => ~e.marked
      /\ opening[w][d] \in {"validate", "mark"} => e.tree = d
  BY <1>2 DEF OpeningInv, Entry
<1>4. CASE CheckMarker(w, d)
  <2> DEFINE at == IF e.marked THEN "hit" ELSE "fetch"
  <2>1. at \in States /\ (at = "hit" => e.marked) /\ (at # "hit" => at = "fetch" /\ ~e.marked)
    BY DEF States
  <2>2. /\ job' = job /\ opening[w][d] # "idle"
        /\ opening' = [opening EXCEPT ![w][d] = at]
    BY <1>4 DEF CheckMarker, Move
  <2> HIDE DEF e, at
  <2>z. OpensTo(w, d, e, at)
    BY <1>1, <1>2, <1>3, <2>1, <2>2 DEF OpensTo
  <2> QED
    BY <2>z, OpeningStep
<1>5. CASE UseHit(w, d)
  <2>1. /\ opening[w][d] = "hit" /\ opening' = [opening EXCEPT ![w][d] = "idle"]
        /\ Opened(w, d, FALSE) \/ (Opened(w, d, TRUE) /\ Compatible(w, d))
    <3>1. Opened(w, d, Compatible(w, d)) /\ Compatible(w, d) \in BOOLEAN
      BY <1>5 DEF UseHit, Compatible
    <3>2. CASE Compatible(w, d)
      BY <1>5, <3>1, <3>2 DEF UseHit, Move, Opened
    <3>3. CASE ~Compatible(w, d)
      BY <1>5, <3>1, <3>3 DEF UseHit, Move, Opened
    <3> QED
      BY <3>2, <3>3
  <2>2. Compatible(w, d) => e.tree = d /\ d.ready = runtime[w]
    BY <1>3, <2>1 DEF Compatible
  <2>3. "idle" \in States
    BY DEF States
  <2> HIDE DEF e
  <2>z. OpensTo(w, d, e, "idle")
    BY <1>1, <1>2, <1>3, <2>1, <2>2, <2>3 DEF OpensTo
  <2> QED
    BY <2>z, OpeningStep
<1>6. CASE FetchTo(w, d)
  <2>1. /\ job' = job /\ opening[w][d] = "fetch" /\ "remove" \in States
        /\ opening' = [opening EXCEPT ![w][d] = "remove"]
    BY <1>6 DEF FetchTo, Receive, Move, States
  <2> HIDE DEF e
  <2>z. OpensTo(w, d, e, "remove")
    BY <1>1, <1>2, <1>3, <2>1 DEF OpensTo
  <2> QED
    BY <2>z, OpeningStep
<1>7. CASE Validate(w, d)
  <2> DEFINE at == IF Compatible(w, d) THEN "mark" ELSE "discard"
  <2>1. /\ job' = job /\ opening[w][d] = "validate" /\ at \in States
        /\ opening' = [opening EXCEPT ![w][d] = at]
    BY <1>7 DEF Validate, Move, States
  <2>2. at = "mark" => d.ready = runtime[w]
    BY <1>3, <2>1 DEF Compatible
  <2>3. at \in {"mark", "discard"}
    OBVIOUS
  <2> HIDE DEF e, at
  <2>z. OpensTo(w, d, e, at)
    BY <1>1, <1>2, <1>3, <2>1, <2>2, <2>3 DEF OpensTo
  <2> QED
    BY <2>z, OpeningStep
<1> QED
  BY <1>4, <1>5, <1>6, <1>7

\* A directory is only removed where it is not marked.
LEMMA RemoveStep ==
  ASSUME WorkerInv, OwnCaches, NEW w \in Worker, NEW d \in Digest, Remove(w, d)
  PROVE  WorkerInv'
<1>1. runtime' = runtime /\ opening[w][d] \in {"remove", "discard"}
  BY DEF Remove, Move
<1>2. /\ Entry(w, d) \in Entries /\ ~Entry(w, d).marked
      /\ opening = [opening EXCEPT ![w][d] = opening[w][d]] /\ opening[w][d] \in States
  BY <1>1, WorkerCell DEF OpeningInv, Entry
<1>3. Empty \in Entries /\ ~Empty.marked /\ {"place", "idle"} \subseteq States
  BY DEF Empty, Entries, States
<1>4. CASE Move(w, d, "remove", "place") /\ Put(w, d, Empty) /\ UNCHANGED job
  <2>1. /\ cached' = [cached EXCEPT ![CacheOf[w]][d] = Empty]
        /\ opening' = [opening EXCEPT ![w][d] = "place"] /\ job' = job
    BY <1>4 DEF Move, Put
  <2>z. OpensTo(w, d, Empty, "place")
    BY <1>1, <1>3, <2>1 DEF OpensTo
  <2> QED
    BY <2>z, OpeningStep
<1>5. CASE Move(w, d, "discard", "idle") /\ Put(w, d, Empty) /\ Opened(w, d, FALSE)
  <2>1. /\ cached' = [cached EXCEPT ![CacheOf[w]][d] = Empty]
        /\ opening' = [opening EXCEPT ![w][d] = "idle"]
    BY <1>5 DEF Move, Put
  <2>z. OpensTo(w, d, Empty, "idle")
    BY <1>1, <1>3, <1>5, <2>1 DEF OpensTo
  <2> QED
    BY <2>z, OpeningStep
<1>6. ASSUME NEW t \in Parts(Entry(w, d).tree), NEW b \in {Entry(w, d).marked, FALSE},
             Put(w, d, [tree |-> t, marked |-> b]), opening' = opening, job' = job
      PROVE  WorkerInv'
  <2> DEFINE e == [tree |-> t, marked |-> b]
  <2>1. t \in Tree \union {NoTree}
    BY <1>2, TreeTypes DEF Entries
  <2>2. e \in Entries /\ ~e.marked
    BY <1>2, <2>1 DEF Entries
  <2>3. /\ cached' = [cached EXCEPT ![CacheOf[w]][d] = e]
    BY <1>6 DEF Put
  <2>4. PICK at \in {"remove", "discard"} : opening[w][d] = at
    BY <1>1
  <2>5. at \in States /\ opening' = [opening EXCEPT ![w][d] = at] /\ job' = job
    BY <1>2, <1>6, <2>4
  <2>6. at \notin {"idle", "hit", "validate", "mark"} /\ runtime' = runtime
    BY <1>1
  <2> HIDE DEF e
  <2>z. OpensTo(w, d, e, at)
    BY <2>2, <2>3, <2>4, <2>5, <2>6 DEF OpensTo
  <2> QED
    BY <2>z, OpeningStep
<1> QED
  BY <1>4, <1>5, <1>6 DEF Remove

LEMMA PlaceStep ==
  ASSUME WorkerInv, OwnCaches, NEW w \in Worker, NEW d \in Digest, Place(w, d)
  PROVE  WorkerInv'
<1>1. runtime' = runtime /\ opening[w][d] = "place" /\ "validate" \in States
      /\ "idle" \in States
  BY DEF Place, Move, States
<1>2. /\ Entry(w, d) \in Entries /\ ~Entry(w, d).marked
      /\ cached = [cached EXCEPT ![CacheOf[w]][d] = Entry(w, d)]
  BY <1>1, WorkerCell DEF OpeningInv, Entry
<1>3. CASE /\ Move(w, d, "place", "validate") /\ UNCHANGED job
           /\ Put(w, d, [tree |-> d, marked |-> FALSE])
  <2> DEFINE e == [tree |-> d, marked |-> FALSE]
  <2>1. e \in Entries /\ e.tree = d /\ ~e.marked
    BY DEF Entries, Digest
  <2>2. /\ cached' = [cached EXCEPT ![CacheOf[w]][d] = e] /\ job' = job
        /\ opening' = [opening EXCEPT ![w][d] = "validate"]
    BY <1>3 DEF Move, Put
  <2> HIDE DEF e
  <2> DEFINE at == "validate"
  <2>3. /\ opening' = [opening EXCEPT ![w][d] = at] /\ at \in States
        /\ at \notin {"idle", "hit", "mark"} /\ opening[w][d] # "idle"
    BY <1>1, <2>2
  <2> HIDE DEF at
  <2>z. OpensTo(w, d, e, at)
    BY <1>1, <2>1, <2>2, <2>3 DEF OpensTo
  <2> QED
    BY <2>z, OpeningStep
<1>4. CASE Move(w, d, "place", "idle") /\ Opened(w, d, FALSE) /\ UNCHANGED cached
  <2>1. /\ cached' = [cached EXCEPT ![CacheOf[w]][d] = Entry(w, d)]
        /\ opening' = [opening EXCEPT ![w][d] = "idle"]
    BY <1>2, <1>4 DEF Move
  <2>z. OpensTo(w, d, Entry(w, d), "idle")
    BY <1>1, <1>2, <1>4, <2>1 DEF OpensTo
  <2> QED
    BY <2>z, OpeningStep
<1> QED
  BY <1>3, <1>4 DEF Place

LEMMA MarkStep ==
  ASSUME WorkerInv, OwnCaches, NEW w \in Worker, NEW d \in Digest, Mark(w, d)
  PROVE  WorkerInv'
<1> DEFINE e == [Entry(w, d) EXCEPT !.marked = TRUE]
<1>1. /\ runtime' = runtime /\ opening[w][d] = "mark" /\ "idle" \in States
      /\ opening' = [opening EXCEPT ![w][d] = "idle"]
  BY DEF Mark, Move, States
<1>2. /\ Entry(w, d) \in Entries /\ Entry(w, d).tree = d /\ d # NoTree
      /\ d.ready = runtime[w]
  BY <1>1, WorkerCell DEF OpeningInv, Entry
<1>3. e \in Entries /\ e.tree = d
  BY <1>2 DEF Entries
<1>4. cached' = [cached EXCEPT ![CacheOf[w]][d] = e]
  BY <1>2 DEF Mark, Put
<1>5. Opened(w, d, TRUE)
  BY <1>2 DEF Mark, Opened
<1> HIDE DEF e
<1>z. OpensTo(w, d, e, "idle")
  BY <1>1, <1>2, <1>3, <1>4, <1>5 DEF OpensTo
<1> QED
  BY <1>z, OpeningStep

LEMMA FailOpeningStep ==
  ASSUME WorkerInv, OwnCaches, NEW w \in Worker, NEW d \in Digest, FailOpening(w, d)
  PROVE  WorkerInv'
<1>1. /\ runtime' = runtime /\ opening[w][d] # "idle" /\ "idle" \in States
      /\ opening' = [opening EXCEPT ![w][d] = "idle"] /\ Opened(w, d, FALSE)
  BY DEF FailOpening, Move, States
<1>2. /\ Entry(w, d) \in Entries
      /\ cached' = [cached EXCEPT ![CacheOf[w]][d] = Entry(w, d)]
      /\ Entry(w, d).marked => Entry(w, d).tree = d
  BY WorkerCell DEF FailOpening, OpeningInv, Entry
<1>z. OpensTo(w, d, Entry(w, d), "idle")
  BY <1>1, <1>2 DEF OpensTo
<1> QED
  BY <1>z, OpeningStep

LEMMA StartJobStep ==
  ASSUME WorkerInv, NEW w \in Worker, NEW d \in Digest, StartJob(w, d)
  PROVE  WorkerInv'
<1> DEFINE at == IF opening[w][d] = "idle" THEN "check" ELSE opening[w][d]
<1>1. runtime' = runtime /\ cached' = cached
  BY DEF StartJob
<1>2. at \in States /\ opening' = [opening EXCEPT ![w][d] = at]
  BY WorkerCell DEF StartJob, States
<1>3. /\ \A v \in Worker, b \in Digest : ~(v = w /\ b = d) => opening'[v][b] = opening[v][b]
      /\ opening'[w][d] = at /\ opening' \in [Worker -> [Digest -> States]]
  BY <1>2 DEF WorkerInv, WorkerTypes, States
<1>4. /\ job' \in [Worker -> [at: {"waiting", "running"}, digest: Digest] \union {NoJob}]
      /\ \A v \in Worker : v # w => job'[v] = job[v]
      /\ job'[w].at = "waiting"
  BY DEF StartJob, WorkerInv, WorkerTypes
<1>5. WorkerTypes'
  BY <1>1, <1>3, <1>4 DEF WorkerInv, WorkerTypes, States
<1>6. ASSUME NEW v \in Worker, NEW b \in Digest PROVE OpeningInv(v, b)'
  <2>1. OpeningInv(v, b)
    BY DEF WorkerInv
  <2>2. CASE opening'[v][b] = opening[v][b]
    BY <1>1, <2>1, <2>2 DEF OpeningInv
  <2>3. CASE opening'[v][b] = "check"
    BY <1>1, <2>1, <2>3 DEF OpeningInv
  <2> QED
    BY <1>3, <2>2, <2>3
<1>7. ASSUME NEW v \in Worker, job'[v].at = "running" PROVE RunningInv(v)'
  <2>1. v # w /\ job'[v] = job[v] /\ RunningInv(v)
    BY <1>4, <1>7 DEF WorkerInv
  <2>2. job[v].digest \in Digest
    BY <1>7, <2>1, JobTypes DEF WorkerInv, WorkerTypes
  <2> QED
    BY <1>1, <1>3, <1>7, <2>1, <2>2 DEF RunningInv
<1> QED
  BY <1>5, <1>6, <1>7 DEF WorkerInv, RunningInv

\* A job that ends, and what a server does, takes nothing from those that run.
LEMMA OthersLeaveWorkers ==
  ASSUME WorkerInv, cached' = cached, opening' = opening,
         \A w \in Worker : runtime'[w] = runtime[w],
         runtime' \in [Server \union Worker -> Runtime],
         \/ job' = job
         \/ \E w \in Worker : job' = [job EXCEPT ![w] = NoJob]
  PROVE  WorkerInv'
<1>1. /\ job' \in [Worker -> [at: {"waiting", "running"}, digest: Digest] \union {NoJob}]
      /\ \A v \in Worker : job'[v] = job[v] \/ job'[v] = NoJob
  BY DEF WorkerInv, WorkerTypes
<1>2. WorkerTypes'
  BY <1>1 DEF WorkerInv, WorkerTypes
<1>3. ASSUME NEW v \in Worker, NEW b \in Digest PROVE OpeningInv(v, b)'
  BY DEF WorkerInv, OpeningInv
<1>4. ASSUME NEW v \in Worker PROVE RunningInv(v)'
  BY <1>1, JobTypes DEF WorkerInv, RunningInv
<1> QED
  BY <1>2, <1>3, <1>4 DEF WorkerInv

LEMMA RestartTypes ==
  ASSUME runtime \in [Server \union Worker -> Runtime],
         NEW p \in Server \union Worker, Restarted(p)
  PROVE  /\ runtime' \in [Server \union Worker -> Runtime]
         /\ \A q \in Server \union Worker : q # p => runtime'[q] = runtime[q]
BY ConstantAssumption DEF Restarted, Runtime

LEMMA RestartWorkerStep ==
  ASSUME WorkerInv, NEW w \in Worker, RestartWorker(w)
  PROVE  WorkerInv'
<1>1. /\ cached' = cached /\ runtime' \in [Server \union Worker -> Runtime]
      /\ \A v \in Worker : v # w => runtime'[v] = runtime[v]
  BY RestartTypes DEF RestartWorker, WorkerInv, WorkerTypes
<1>2. /\ \A v \in Worker : v # w => opening'[v] = opening[v] /\ job'[v] = job[v]
      /\ \A d \in Digest : opening'[w][d] = "idle"
      /\ job'[w] = NoJob
  BY DEF RestartWorker, WorkerInv, WorkerTypes
<1>3. WorkerTypes'
  <2>1. opening' \in [Worker -> [Digest -> States]]
    BY DEF RestartWorker, WorkerInv, WorkerTypes, States
  <2>2. job' \in [Worker -> [at: {"waiting", "running"}, digest: Digest] \union {NoJob}]
    BY DEF RestartWorker, WorkerInv, WorkerTypes
  <2> QED
    BY <1>1, <2>1, <2>2 DEF WorkerInv, WorkerTypes, States
<1>4. ASSUME NEW v \in Worker, NEW b \in Digest PROVE OpeningInv(v, b)'
  <2>1. OpeningInv(v, b)
    BY DEF WorkerInv
  <2>2. CASE v = w
    BY <1>1, <1>2, <2>1, <2>2 DEF OpeningInv
  <2>3. CASE v # w
    BY <1>1, <1>2, <2>1, <2>3 DEF OpeningInv
  <2> QED
    BY <2>2, <2>3
<1>5. ASSUME NEW v \in Worker PROVE RunningInv(v)'
  <2>1. CASE v = w
    BY <1>2, <2>1, JobTypes DEF RunningInv
  <2>2. CASE v # w
    BY <1>1, <1>2, <2>2 DEF WorkerInv, RunningInv
  <2> QED
    BY <2>1, <2>2
<1> QED
  BY <1>3, <1>4, <1>5 DEF WorkerInv

LEMMA WorkerStep ==
  ASSUME OwnCaches, ServerInv, WorkerInv, [Next]_vars
  PROVE  WorkerInv'
<1>1. runtime \in [Server \union Worker -> Runtime]
  BY DEF WorkerInv, WorkerTypes
<1>2. CASE UNCHANGED vars
  BY <1>1, <1>2, OthersLeaveWorkers DEF vars, workerVars
<1>3. ASSUME NEW s \in Server, RestartServer(s) PROVE WorkerInv'
  <2>1. cached' = cached /\ opening' = opening /\ job' = job
    BY <1>3 DEF RestartServer, workerVars
  <2>2. \A w \in Worker : runtime'[w] = runtime[w]
    <3>1. \A w \in Worker : w # s
      BY ConstantAssumption
    <3> QED
      BY <1>1, <1>3, <3>1, RestartTypes DEF RestartServer
  <2>3. runtime' \in [Server \union Worker -> Runtime]
    BY <1>1, <1>3, RestartTypes DEF RestartServer
  <2> QED
    BY <2>1, <2>2, <2>3, OthersLeaveWorkers
<1>4. ASSUME NEW s \in Server, NEW c \in Commit, ServerNext(s, c) \/ GiveUp(c)
      PROVE  WorkerInv'
  <2>1. workerVars' = workerVars /\ runtime' = runtime
    BY <1>4 DEF ServerNext, BeginSync, ClearSnapshot, CopySnapshot, MarkSnapshot, BeginDeploy,
                HashPrepared, Publish, CheckPrepared, RemovePrepared, CopySource,
                PrepareSource, MarkPrepared, FailPreparation, GiveUp
  <2> QED
    BY <1>1, <2>1, OthersLeaveWorkers DEF workerVars
<1>5. ASSUME NEW c \in Commit, GiveUp(c) PROVE WorkerInv'
  BY <1>1, <1>5, OthersLeaveWorkers DEF GiveUp, workerVars
<1>6. ASSUME NEW w \in Worker, EndJob(w) PROVE WorkerInv'
  BY <1>1, <1>6, OthersLeaveWorkers DEF EndJob
<1>7. ASSUME NEW w \in Worker, NEW d \in artifacts, WorkerNext(w, d) PROVE WorkerInv'
  <2>1. d \in Digest
    BY DEF ServerInv, ServerTypes
  <2> QED
    BY <1>7, <2>1, StartJobStep, LookStep, RemoveStep, PlaceStep, MarkStep, FailOpeningStep
       DEF WorkerNext
<1> QED
  BY <1>2, <1>3, <1>4, <1>5, <1>6, <1>7, RestartWorkerStep DEF Next

\* A job that runs does so in a directory that holds exactly the bundle that it is pinned
\* to, prepared for its worker's runtime, where no two workers use one cache
\* (openExecutionBundle).
THEOREM RunsStayPinned == ASSUME OwnCaches PROVE Spec => []RunsPinned
<1>1. Init => WorkerInv
  BY WorkersInitially
<1>2. ServerInv /\ WorkerInv /\ [Next]_vars => WorkerInv'
  BY WorkerStep
<1>3. WorkerInv => RunsPinned
  BY DEF WorkerInv, RunningInv, RunsPinned, Entry
<1> QED
  BY <1>1, <1>2, <1>3, ServersHold, PTL DEF Spec

\* What is stored is well formed, and a .ready file vouches for what that runtime prepared,
\* or for a part.
THEOREM BundleTypesCorrect == ASSUME OwnCaches PROVE Spec => []TypeOK
<1>1. Init => WorkerInv
  BY WorkersInitially
<1>2. ServerInv /\ WorkerInv /\ [Next]_vars => WorkerInv'
  BY WorkerStep
<1>3. ASSUME ServerInv, WorkerInv PROVE TypeOK
  <2>1. ASSUME NEW s \in Server, NEW c \in Commit
        PROVE  LET t == prepared[s][c]
               IN (t # NoTree /\ t.ready # None) => t.files = "some" \/ t.by = t.ready
    BY <1>3 DEF ServerInv, PreparationInv, Vouched, Whole
  <2> QED
    BY <1>3, <2>1 DEF TypeOK, ServerInv, ServerTypes, WorkerInv, WorkerTypes
<1> QED
  BY <1>1, <1>2, <1>3, ServersHold, PTL DEF Spec
=============================================================================
