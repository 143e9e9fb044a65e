--------------------------- MODULE SourceRegistry ---------------------------
(***************************************************************************)
(* The registry of git sources: one JSON file (internal/gitsource) that    *)
(* the handlers of a server read, change and write back without a lock,    *)
(* each operation through the same temporary file, and the requests that   *)
(* use it (internal/server/canonical_git_sources.go, release_pipeline.go). *)
(*                                                                         *)
(* One workspace.  A repository and a path in it are a location; a branch  *)
(* of a location has one commit, its head, which stands for the candidate  *)
(* release and the mark of a sync of it.                                   *)
(***************************************************************************)
EXTENDS Naturals, FiniteSets, Sequences, SequencesExt

CONSTANTS
  Handler, Name, Location, Branch,
  NoCommit, NoSource,
  Registration,   \* the sources that requests register: name, location, branch
  Change,         \* the changes that requests make: a source's fields to new values
  Registered,     \* what the file holds at first
  MaxId,          \* bound of the model: ids given
  MaxRequests     \* bound of the model: requests handled

Id     == 1..MaxId
Commit == [at: Location, branch: Branch]
Mark   == Commit \union {NoCommit}
Source == [name: Name, at: Location, branch: Branch, mark: Mark]
Sources == [Id -> Source \union {NoSource}]
Ask     == [name: Name \union {"none"}, at: Location \union {"none"},
            branch: Branch \union {"none"}]

ASSUME ConstantAssumption ==
  /\ MaxId \in Nat \ {0} /\ MaxRequests \in Nat
  /\ NoCommit \notin Commit /\ NoSource \notin Source
  /\ Registered \in Sources
  /\ \A i \in Id : Registered[i] # NoSource =>
       /\ Registered[i].mark = NoCommit
       /\ \A j \in Id \ {i} : Registered[j] # NoSource => Registered[j].name # Registered[i].name
  /\ Registration \subseteq [name: Name, at: Location, branch: Branch]
  /\ Change \subseteq Ask

\* What a file holds; only a whole one can be read back.
Content == [state: {"absent", "empty", "garbled", "whole"}, sources: Sources]

VARIABLES
  file, tmp,     \* the registry's file and its temporary file
  op,            \* what each handler does, and where it is
  candidates,    \* the candidates kept for an id, in the order they were saved
  release,       \* the last publication: the source it was for, and the commit
  archived,      \* whether the workspace is archived
  book,          \* what the registry would hold if its operations were atomic
  overlapped,    \* whether two operations on the file ever overlapped
  requests

vars == <<file, tmp, op, candidates, release, archived, book, overlapped, requests>>

NoRegistration == [name |-> "none", at |-> "none", branch |-> "none"]
Operation(kind, at, i, asks) ==
  [kind |-> kind, at |-> at, id |-> i, asks |-> asks,
   seen |-> NoSource, next |-> [j \in Id |-> NoSource], fd |-> "none"]
NoOp == Operation("none", "idle", 0, NoRegistration)
Op == [kind: {"none", "register", "patch", "delete", "sync", "deploy"},
       at: {"idle", "begun", "locked", "checked", "loaded", "opened", "written"},
       id: Id \union {0}, asks: Ask,
       seen: Source \union {NoSource}, next: Sources, fd: {"none", "tmp", "file", "gone"}]

NoRelease == [source |-> NoSource, code |-> NoCommit]
Whole(sources) == [state |-> "whole", sources |-> sources]
Not(state)     == [state |-> state, sources |-> [i \in Id |-> NoSource]]

TypeOK ==
  /\ file \in Content /\ tmp \in Content
  /\ op \in [Handler -> Op]
  /\ candidates \in [Id -> Seq(Commit)]
  /\ release \in [source: Source \union {NoSource}, code: Mark]
  /\ archived \in BOOLEAN /\ overlapped \in BOOLEAN
  /\ book \in Sources
  /\ requests \in 0..MaxRequests

Init ==
  /\ file = Whole(Registered) /\ tmp = Not("absent")
  /\ op = [h \in Handler |-> NoOp]
  /\ candidates = [i \in Id |-> <<>>]
  /\ release = NoRelease
  /\ archived = FALSE /\ overlapped = FALSE
  /\ book = Registered
  /\ requests = 0

----------------------------------------------------------------------------
(* The operations of the registry on what was read.                         *)

Used(sources) == {i \in Id : sources[i] # NoSource}
HasSourceName(sources, name, except) ==
  \E i \in Used(sources) \ {except} : sources[i].name = name
NextSourceID(sources) == Max(Used(sources) \union {0}) + 1

Refused(sources) == [ok |-> FALSE, sources |-> sources]
Changed(sources, i, source) == [ok |-> TRUE, sources |-> [sources EXCEPT ![i] = source]]

\* A deleted source leaves its id to the next one if it was the highest.
Create(sources, asks) ==
  LET i == NextSourceID(sources) IN
  IF HasSourceName(sources, asks.name, 0) \/ i > MaxId THEN Refused(sources)
  ELSE Changed(sources, i, [name |-> asks.name, at |-> asks.at, branch |-> asks.branch,
                            mark |-> NoCommit])

\* A field that is "none" in the change stays.
Patched(source, change) ==
  LET To(field) == IF change[field] = "none" THEN source[field] ELSE change[field]
      moved == To("at") # source.at \/ To("branch") # source.branch
  IN [name |-> To("name"), at |-> To("at"), branch |-> To("branch"),
      mark |-> IF moved THEN NoCommit ELSE source.mark]

Patch(sources, i, change) ==
  IF i \notin Used(sources) \/ HasSourceName(sources, Patched(sources[i], change).name, i)
  THEN Refused(sources) ELSE Changed(sources, i, Patched(sources[i], change))

MarkSynced(sources, i, head) ==
  IF i \notin Used(sources) THEN Refused(sources)
  ELSE Changed(sources, i, [sources[i] EXCEPT !.mark = head])

Delete(sources, i) ==
  IF i \notin Used(sources) THEN Refused(sources) ELSE Changed(sources, i, NoSource)

HeadCommit(source) == [at |-> source.at, branch |-> source.branch]

Apply(o, sources) ==
  CASE o.kind = "register" -> Create(sources, o.asks)
    [] o.kind = "patch"    -> Patch(sources, o.id, o.asks)
    [] o.kind = "delete"   -> Delete(sources, o.id)
    [] o.kind = "sync"     -> MarkSynced(sources, o.id, HeadCommit(o.seen))

----------------------------------------------------------------------------
(* The file.                                                                *)

Busy(h) == op[h].at \in {"loaded", "opened", "written"}
Return(h) == op' = [op EXCEPT ![h] = NoOp]
GoTo(h, at) == op' = [op EXCEPT ![h].at = at]

\* An operation reads the whole file and makes the next one of it, or refuses.
Load(h) ==
  /\ op[h].at = "checked"
  /\ IF file.state = "whole" /\ Apply(op[h], file.sources).ok
     THEN op' = [op EXCEPT ![h] = [@ EXCEPT !.at = "loaded",
                                            !.next = Apply(op[h], file.sources).sources]]
     ELSE Return(h)
  /\ overlapped' = (overlapped \/ \E g \in Handler \ {h} : Busy(g))
  /\ UNCHANGED <<file, tmp, candidates, release, archived, book, requests>>

\* os.WriteFile empties the temporary file, or makes it, and then writes.
OpenInPlaceFault(h) ==
  /\ op[h].at = "loaded"
  /\ file' = Not("empty") /\ tmp' = Whole(op[h].next)
  /\ op' = [op EXCEPT ![h] = [@ EXCEPT !.at = "opened", !.fd = "tmp"]]
  /\ UNCHANGED <<candidates, release, archived, book, overlapped, requests>>
Open(h) ==
  /\ op[h].at = "loaded"
  /\ tmp' = Not("empty")
  /\ op' = [op EXCEPT ![h] = [@ EXCEPT !.at = "opened", !.fd = "tmp"]]
  /\ UNCHANGED <<file, candidates, release, archived, book, overlapped, requests>>

\* Bytes written over longer ones leave the end of those.
Over(old, new) == IF old.state = "empty" \/ old = new THEN {new} ELSE {new, Not("garbled")}
Write(h) ==
  /\ op[h].at = "opened"
  /\ LET new == Whole(op[h].next) IN
     \/ op[h].fd = "tmp"  /\ tmp' \in Over(tmp, new) /\ UNCHANGED file
     \/ op[h].fd = "file" /\ file' \in Over(file, new) /\ UNCHANGED tmp
     \/ op[h].fd = "gone" /\ UNCHANGED <<file, tmp>>
  /\ op' = [op EXCEPT ![h] = [@ EXCEPT !.at = "written", !.fd = "none"]]
  /\ UNCHANGED <<candidates, release, archived, book, overlapped, requests>>

\* Who still has the temporary file open now writes the registry's file.
Follow(fd) == CASE fd = "tmp" -> "file" [] fd = "file" -> "gone" [] OTHER -> fd
Rename(h) ==
  /\ op[h].at = "written"
  /\ IF tmp.state = "absent" THEN Return(h) /\ UNCHANGED <<file, tmp, book>>
     ELSE /\ file' = tmp /\ tmp' = Not("absent")
          /\ book' = Apply(op[h], book).sources
          /\ op' = [g \in Handler |-> IF g = h THEN NoOp
                                      ELSE [op[g] EXCEPT !.fd = Follow(@)]]
  /\ UNCHANGED <<candidates, release, archived, overlapped, requests>>

\* The server stops, perhaps in the middle of a write.
Crash ==
  /\ \E h \in Handler : op[h] # NoOp
  /\ LET Torn(fd) == \E h \in Handler : op[h].at = "opened" /\ op[h].fd = fd IN
     \/ UNCHANGED <<file, tmp>>
     \/ Torn("tmp")  /\ tmp' = Not("garbled")  /\ UNCHANGED file
     \/ Torn("file") /\ file' = Not("garbled") /\ UNCHANGED tmp
  /\ op' = [h \in Handler |-> NoOp]
  /\ UNCHANGED <<candidates, release, archived, book, overlapped, requests>>

----------------------------------------------------------------------------
(* The requests.                                                            *)

\* The status of the workspace is looked at once, before a request is handled.
Begin(h, o) ==
  /\ op[h].at = "idle" /\ requests < MaxRequests
  /\ ~archived
  /\ op' = [op EXCEPT ![h] = o]
  /\ requests' = requests + 1
  /\ UNCHANGED <<file, tmp, candidates, release, archived, book, overlapped>>

RegisterRequest(h, r)  == Begin(h, Operation("register", "begun", 0, r))
PatchRequest(h, i, c)  == Begin(h, Operation("patch", "begun", i, c))
DeleteRequest(h, i)    == Begin(h, Operation("delete", "checked", i, NoRegistration))
SyncRequest(h, i)      == Begin(h, Operation("sync", "begun", i, NoRegistration))
DeployRequest(h, i)    == Begin(h, Operation("deploy", "begun", i, NoRegistration))

Readable(i) == file.state = "whole" /\ i \in Used(file.sources)

\* Register and patch look at the repository before they go on, and a patch at the
\* source: where it is stays once it was synchronized.
CheckRegister(h) ==
  /\ op[h].kind = "register" /\ op[h].at = "begun"
  /\ GoTo(h, "checked") \/ Return(h)
  /\ UNCHANGED <<file, tmp, candidates, release, archived, book, overlapped, requests>>

Locked(source, change) == source.mark # NoCommit /\ Patched(source, change).at # source.at
CheckPatch(h) ==
  /\ op[h].kind = "patch" /\ op[h].at = "begun"
  /\ \/ /\ Readable(op[h].id) /\ ~Locked(file.sources[op[h].id], op[h].asks)
        /\ GoTo(h, "checked")
     \/ Return(h)
  /\ UNCHANGED <<file, tmp, candidates, release, archived, book, overlapped, requests>>

\* The operations on the code of one source exclude each other.
Held(i) == \E g \in Handler : /\ op[g].kind \in {"sync", "deploy"} /\ op[g].id = i
                             /\ op[g].at \notin {"idle", "begun"}
BeginOperation(h) ==
  /\ op[h].kind \in {"sync", "deploy"} /\ op[h].at = "begun"
  /\ IF Readable(op[h].id) /\ ~Held(op[h].id)
     THEN op' = [op EXCEPT ![h].at = "locked", ![h].seen = file.sources[op[h].id]]
     ELSE Return(h)
  /\ UNCHANGED <<file, tmp, candidates, release, archived, book, overlapped, requests>>

\* Fetching and validating may fail; a candidate that is there stays where it is.
SyncUnsavedFault(h) ==
  /\ op[h].kind = "sync" /\ op[h].at = "locked"
  /\ GoTo(h, "checked") \/ Return(h)
  /\ UNCHANGED <<file, tmp, candidates, release, archived, book, overlapped, requests>>
Sync(h) ==
  /\ op[h].kind = "sync" /\ op[h].at = "locked"
  /\ LET i == op[h].id head == HeadCommit(op[h].seen) IN
     \/ Return(h) /\ UNCHANGED candidates
     \/ /\ GoTo(h, "checked")
        /\ candidates' = IF head \in ToSet(candidates[i]) THEN candidates
                         ELSE [candidates EXCEPT ![i] = Append(@, head)]
  /\ UNCHANGED <<file, tmp, release, archived, book, overlapped, requests>>

Deploy(h) ==
  /\ op[h].kind = "deploy" /\ op[h].at = "locked"
  /\ LET i == op[h].id IN
     \/ UNCHANGED release
     \/ /\ candidates[i] # <<>>
        /\ release' = [source |-> op[h].seen, code |-> Last(candidates[i])]
  /\ Return(h)
  /\ UNCHANGED <<file, tmp, candidates, archived, book, overlapped, requests>>

ArchiveWorkspace ==
  /\ ~archived /\ archived' = TRUE
  /\ UNCHANGED <<file, tmp, op, candidates, release, book, overlapped, requests>>

Step(h) ==
  \/ CheckRegister(h) \/ CheckPatch(h)
  \/ BeginOperation(h) \/ Sync(h) \/ Deploy(h)
  \/ Load(h) \/ Open(h) \/ Write(h) \/ Rename(h)

Request(h) ==
  \/ \E r \in Registration : RegisterRequest(h, r)
  \/ \E i \in Id : \/ \E c \in Change : PatchRequest(h, i, c)
                  \/ DeleteRequest(h, i) \/ SyncRequest(h, i) \/ DeployRequest(h, i)

Next ==
  \/ \E h \in Handler : Request(h) \/ Step(h)
  \/ Crash \/ ArchiveWorkspace

Spec == Init /\ [][Next]_vars

----------------------------------------------------------------------------
\* CrashSafe: as long as no two operations overlapped, the file is whole and holds
\* what the operations that finished make of it one after the other, wherever the
\* server stopped in between (the temporary file and the rename).
CrashSafe == ~overlapped => file = Whole(book)

\* MarksEarned: a name never denotes two sources, however the reading, checking and
\* writing of the handlers interleave (hasSourceName; provisioning goes by names), and
\* a source is marked as synchronized at a commit only if that commit is a candidate
\* of its id, also when marks are lost, ids are given again or the server stops (the
\* order in syncGitSourceRevision).
MarksEarned == file.state = "whole" =>
  \A i \in Used(file.sources) :
     /\ file.sources[i].mark # NoCommit => file.sources[i].mark \in ToSet(candidates[i])
     /\ \A j \in Used(file.sources) \ {i} : file.sources[i].name # file.sources[j].name

----------------------------------------------------------------------------
(* Statements of the documents that the registry does not keep: README.md.  *)

\* PublishesOwnRepository: what is published for a source comes from the repository
\* the source is registered with (docs/concepts/release-lifecycle.md).
PublishesOwnRepository ==
  release # NoRelease => release.code.at = release.source.at

\* ArchivedUntouched: no request changes the sources of an archived workspace
\* (docs/concepts/workspaces.md).
ArchivedUntouched == [][archived => file' = file]_vars
=============================================================================
