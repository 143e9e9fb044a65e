------------------------------- MODULE FileLock -------------------------------
(***************************************************************************)
(* LocalStore.update (internal/state/local_store.go) on the file system:   *)
(* the lock file beside the snapshot, the temporary file and the renames.  *)
(* RunQueue and the other models of the local store take an update as one  *)
(* step; this is what that rests on.                                       *)
(*                                                                         *)
(* Callers are goroutines of one process, which may crash and start again: *)
(* files stay.  A snapshot is abstracted to the number of updates of each  *)
(* caller that it contains; a file that does not exist to zero updates.    *)
(***************************************************************************)
EXTENDS Naturals

CONSTANTS
  Caller,
  NoLock, Torn,
  MaxUpdates, MaxCrashes   \* bounds of the model

\* What the theorems assume of the constants.
LockAssumption ==
  /\ MaxUpdates \in Nat /\ MaxCrashes \in Nat
  /\ NoLock \notin [by: Caller, stale: BOOLEAN]
  /\ Torn \notin [Caller -> Nat]

VARIABLES
  lock,      \* the lock file: its maker, and whether it is older than two minutes
  file,      \* the snapshot
  tmp,       \* the temporary file
  pc,        \* where a caller is
  seen,      \* the snapshot that a caller loaded
  done,      \* the updates of a caller that returned without an error
  crashes,
  slow,      \* somebody held the lock until it was stale: for the properties
  stolen     \* a lock was removed while its maker held it: for the properties

lockVars == <<lock, file, tmp, pc, seen, done, crashes, slow, stolen>>

Snapshot == [Caller -> Nat]
HoldingStates == {"load", "truncate", "fill", "rename", "return", "fail"}
Holding(c) == pc[c] \in HoldingStates

LockTypeOK ==
  /\ lock \in [by: Caller, stale: BOOLEAN] \union {NoLock}
  /\ file \in Snapshot \union {Torn}
  /\ tmp \in Snapshot \union {Torn}
  /\ pc \in [Caller -> {"idle", "create", "stat", "remove"} \union HoldingStates]
  /\ seen \in [Caller -> Snapshot]
  /\ done \in [Caller -> Nat]
  /\ crashes \in Nat
  /\ slow \in BOOLEAN
  /\ stolen \in BOOLEAN

NoUpdates == [c \in Caller |-> 0]

LockInit ==
  /\ lock = NoLock
  /\ file = NoUpdates
  /\ tmp = Torn
  /\ pc = [c \in Caller |-> "idle"]
  /\ seen = [c \in Caller |-> NoUpdates]
  /\ done = [c \in Caller |-> 0]
  /\ crashes = 0
  /\ slow = FALSE
  /\ stolen = FALSE

Goto(c, from, to) == pc[c] = from /\ pc' = [pc EXCEPT ![c] = to]

----------------------------------------------------------------------------
(* Taking the lock.                                                         *)

Begin(c) ==
  /\ Goto(c, "idle", "create")
  /\ UNCHANGED <<lock, file, tmp, seen, done, crashes, slow, stolen>>

\* A file that is there is not opened (O_EXCL).
Create(c) ==
  /\ \/ lock = NoLock /\ Goto(c, "create", "load") /\ lock' = [by |-> c, stale |-> FALSE]
     \/ lock # NoLock /\ Goto(c, "create", "stat") /\ UNCHANGED lock
  /\ UNCHANGED <<file, tmp, seen, done, crashes, slow, stolen>>

staleLock == lock # NoLock /\ lock.stale

Stat(c) ==
  /\ Goto(c, "stat", IF staleLock THEN "remove" ELSE "create")
  /\ UNCHANGED <<lock, file, tmp, seen, done, crashes, slow, stolen>>

\* Whatever lock is there when the file is removed, not the one that was looked at.
RemoveLock(c) ==
  /\ lock' = NoLock
  /\ stolen' = (stolen \/ (lock # NoLock /\ lock.by # c /\ Holding(lock.by)))

RemoveStale(c) ==
  /\ Goto(c, "remove", "create")
  /\ RemoveLock(c)
  /\ UNCHANGED <<file, tmp, seen, done, crashes, slow>>

\* The deadline has passed, or the context was canceled.
GiveUp(c) ==
  /\ (~staleLock /\ Goto(c, "stat", "idle")) \/ Goto(c, "create", "idle")
  /\ UNCHANGED <<lock, file, tmp, seen, done, crashes, slow, stolen>>

----------------------------------------------------------------------------
(* Under the lock, or what a caller takes for it.                           *)

Load(c) ==
  /\ Goto(c, "load", "truncate")
  /\ file # Torn
  /\ seen' = [seen EXCEPT ![c] = file]
  /\ UNCHANGED <<lock, file, tmp, done, crashes, slow, stolen>>

\* os.WriteFile empties the temporary file and fills it.
Truncate(c) ==
  /\ Goto(c, "truncate", "fill")
  /\ seen[c][c] < MaxUpdates /\ done[c] < MaxUpdates
  /\ tmp' = Torn
  /\ UNCHANGED <<lock, file, seen, done, crashes, slow, stolen>>

Updated(c) == [seen[c] EXCEPT ![c] = @ + 1]

\* Two callers that write at once may leave a mixture.
Fill(c) ==
  /\ Goto(c, "fill", "rename")
  /\ tmp' \in {Updated(c)} \union (IF stolen THEN {Torn} ELSE {})
  /\ UNCHANGED <<lock, file, seen, done, crashes, slow, stolen>>

Rename(c) ==
  /\ Goto(c, "rename", "return")
  /\ file' = tmp
  /\ UNCHANGED <<lock, tmp, seen, done, crashes, slow, stolen>>

\* A file cannot be read or written, or the update itself returns an error.
Fail(c) ==
  /\ \E at \in {"load", "truncate", "fill", "rename"} : Goto(c, at, "fail")
  /\ UNCHANGED <<lock, file, tmp, seen, done, crashes, slow, stolen>>

\* The deferred removal of the lock file.
Return(c) ==
  /\ \/ Goto(c, "return", "idle") /\ done' = [done EXCEPT ![c] = @ + 1]
     \/ Goto(c, "fail", "idle") /\ UNCHANGED done
  /\ RemoveLock(c)
  /\ UNCHANGED <<file, tmp, seen, crashes, slow>>

----------------------------------------------------------------------------
\* Two minutes pass.
Age ==
  /\ lock # NoLock /\ ~lock.stale
  /\ lock' = [lock EXCEPT !.stale = TRUE]
  /\ slow' = (slow \/ Holding(lock.by))
  /\ UNCHANGED <<file, tmp, pc, seen, done, crashes, stolen>>

Crash ==
  /\ crashes < MaxCrashes
  /\ crashes' = crashes + 1
  /\ pc' = [c \in Caller |-> "idle"]
  /\ UNCHANGED <<lock, file, tmp, seen, done, slow, stolen>>

Step(c) ==
  \/ Begin(c) \/ Create(c) \/ Stat(c) \/ RemoveStale(c)
  \/ Load(c) \/ Truncate(c) \/ Fill(c) \/ Rename(c) \/ Fail(c) \/ Return(c)

LockNext == Age \/ Crash \/ \E c \in Caller : Step(c) \/ GiveUp(c)

\* Callers take their next step and come again, as workers that poll do; not every call
\* is canceled before it tries.  Time passes.
Fairness == WF_lockVars(Age) /\ \A c \in Caller : WF_lockVars(Step(c)) /\ SF_lockVars(Create(c))

LockSpec == LockInit /\ [][LockNext]_lockVars /\ Fairness

----------------------------------------------------------------------------
\* UpdatesAtomic: while no lock is taken from who holds it, every change of the snapshot
\* is one update on top of what was there, wherever a caller failed or crashed before:
\* what RunQueue takes as one step is one (update, write).
Added(c) == file # Torn /\ file' = [file EXCEPT ![c] = @ + 1]
UpdatesAtomic == [][~stolen' => file' = file \/ \E c \in Caller : Added(c)]_lockVars

\* UpdatesKept: and what returned without an error is in the snapshot.
UpdatesKept == ~stolen => file # Torn /\ \A c \in Caller : file[c] >= done[c]

\* LeftLockGoes: a lock that a crash left behind does not stop the store for good
\* (staleLock).
LeftLock == lock # NoLock /\ ~Holding(lock.by)
LeftLockGoes == LeftLock ~> ~LeftLock

\* LocksExclusive: two updates are under way at once only if somebody held the lock
\* until it was stale.
LocksExclusive == ~slow => \A c, d \in Caller : Holding(c) /\ Holding(d) => c = d
=============================================================================
