------------------------- MODULE ProvisioningProofs -------------------------
(***************************************************************************)
(* What operators and control planes change: the registry of sources and   *)
(* provisioning, for every number of handlers, sources and documents, and  *)
(* at the end the routes of an app, for every number of operators, jobs    *)
(* and workers.                                                            *)
(*                                                                         *)
(* Whatever the handlers interleave, each content of the registry that     *)
(* exists anywhere, in the file, in the temporary file or in the hands of  *)
(* a handler, is a good one; the marks rest on that.  While no operations  *)
(* overlapped, one handler at most has the files, and what it will write   *)
(* is what its operation makes of the registry.                            *)
(***************************************************************************)
EXTENDS Provisioning, Routing, WellFoundedInduction, TLAPS

Shaped(x) == x = [name |-> x.name, at |-> x.at, branch |-> x.branch, mark |-> x.mark]

\* A good content: a name denotes one source, and marks are earned.
Good(sources, saved) ==
  /\ sources = [i \in Id |-> sources[i]]
  /\ \A i \in Used(sources) :
       /\ Shaped(sources[i])
       /\ sources[i].mark # NoCommit => sources[i].mark \in ToSet(saved[i])
       /\ \A j \in Used(sources) \ {i} : sources[i].name # sources[j].name

OpShaped(o) == o = [kind |-> o.kind, at |-> o.at, id |-> o.id, asks |-> o.asks,
                    seen |-> o.seen, next |-> o.next, fd |-> o.fd]

Writes == {"register", "patch", "delete", "sync"}

\* A synchronization that is to be marked has saved its candidate.
OpSound(o, saved) ==
  /\ OpShaped(o)
  /\ o.kind = "sync" => o.id \in Id
  /\ o.at = "checked" => o.kind \in Writes
  /\ o.at = "checked" /\ o.kind = "sync" => HeadCommit(o.seen) \in ToSet(saved[o.id])
  /\ Good(o.next, saved)

SavedShaped(saved) ==
  /\ saved = [i \in Id |-> saved[i]]
  /\ \A i \in Id : saved[i] \in Seq(ToSet(saved[i]))

MarksInv ==
  /\ SavedShaped(candidates)
  /\ op = [h \in Handler |-> op[h]]
  /\ \A h \in Handler : OpSound(op[h], candidates)
  /\ Good(file.sources, candidates)
  /\ Good(tmp.sources, candidates)

----------------------------------------------------------------------------
(* The operations of the registry.                                          *)

\* A good content stays good when one source is changed for one whose name nobody
\* else has and whose mark is earned, or taken out.
LEMMA ChangeGood ==
  ASSUME NEW sources, NEW saved, Good(sources, saved), NEW i, NEW x,
         \/ x = NoSource
         \/ /\ Shaped(x)
            /\ x.mark # NoCommit => x.mark \in ToSet(saved[i])
            /\ \A j \in Used(sources) \ {i} : x.name # sources[j].name
  PROVE  Good([sources EXCEPT ![i] = x], saved)
<1>1. DEFINE new == [sources EXCEPT ![i] = x]
<1>2. \A j \in Id : new[j] = IF j = i THEN x ELSE sources[j]
      BY DEF Good
<1>3. new = [j \in Id |-> new[j]]
      BY DEF Good
<1>4. \A j \in Used(new) : j \in Id /\ (j # i => j \in Used(sources)) /\ (j = i => x # NoSource)
      BY <1>2 DEF Used
<1>. HIDE DEF new
<1>5. ASSUME NEW j \in Used(new)
      PROVE  /\ Shaped(new[j])
             /\ new[j].mark # NoCommit => new[j].mark \in ToSet(saved[j])
             /\ \A k \in Used(new) \ {j} : new[j].name # new[k].name
  <2>1. Shaped(new[j]) /\ (new[j].mark # NoCommit => new[j].mark \in ToSet(saved[j]))
        BY <1>2, <1>4 DEF Good
  <2>2. ASSUME NEW k \in Used(new) \ {j} PROVE new[j].name # new[k].name
    <3>1. CASE j = i
          BY <1>2, <1>4, <3>1
    <3>2. CASE k = i
          BY <1>2, <1>4, <3>2
    <3>3. CASE j # i /\ k # i
          BY <1>2, <1>4, <3>3 DEF Good
    <3>. QED  BY <3>1, <3>2, <3>3
  <2>. QED  BY <2>1, <2>2
<1>. QED  BY <1>3, <1>5 DEF Good, new

LEMMA PatchedShaped ==
  ASSUME NEW source, NEW change
  PROVE  /\ Shaped(Patched(source, change))
         /\ Patched(source, change).mark \in {NoCommit, source.mark}
BY DEF Patched, Shaped

\* What an operation that is not refused makes of a good content is good: names stay
\* unique through registration and change, and a mark is one that was saved.
LEMMA ApplyGood ==
  ASSUME NEW sources, NEW saved, Good(sources, saved),
         NEW o, o.kind \in Writes,
         o.kind = "sync" => HeadCommit(o.seen) \in ToSet(saved[o.id]),
         Apply(o, sources).ok
  PROVE  Good(Apply(o, sources).sources, saved)
<1>1. CASE o.kind = "register"
  <2>1. DEFINE i == NextSourceID(sources)
               x == [name |-> o.asks.name, at |-> o.asks.at, branch |-> o.asks.branch,
                     mark |-> NoCommit]
  <2>2. Apply(o, sources) = Create(sources, o.asks)
        BY <1>1 DEF Apply
  <2>3. /\ ~HasSourceName(sources, o.asks.name, 0)
        /\ Apply(o, sources).sources = [sources EXCEPT ![i] = x]
        BY <2>2 DEF Create, Refused, Changed
  <2>4. \A j \in Used(sources) \ {i} : x.name # sources[j].name
    <3>1. \A j \in Used(sources) : j # 0
          BY ConstantAssumption DEF Used, Id
    <3>. QED  BY <2>3, <3>1 DEF HasSourceName
  <2>5. Shaped(x) /\ (x.mark # NoCommit => x.mark \in ToSet(saved[i]))
        BY DEF Shaped
  <2>. HIDE DEF x, i
  <2>. QED  BY <2>3, <2>4, <2>5, ChangeGood
<1>2. CASE o.kind = "patch"
  <2>1. DEFINE i == o.id
               x == Patched(sources[i], o.asks)
  <2>2. Apply(o, sources) = Patch(sources, o.id, o.asks)
        BY <1>2 DEF Apply
  <2>3. /\ i \in Used(sources) /\ ~HasSourceName(sources, x.name, i)
        /\ Apply(o, sources).sources = [sources EXCEPT ![i] = x]
        BY <2>2 DEF Patch, Refused, Changed
  <2>4. \A j \in Used(sources) \ {i} : x.name # sources[j].name
        BY <2>3 DEF HasSourceName
  <2>5. Shaped(x) /\ (x.mark # NoCommit => x.mark \in ToSet(saved[i]))
        BY <2>3, PatchedShaped DEF Good
  <2>. HIDE DEF x, i
  <2>. QED  BY <2>3, <2>4, <2>5, ChangeGood
<1>3. CASE o.kind = "delete"
  <2>1. Apply(o, sources) = Delete(sources, o.id)
        BY <1>3 DEF Apply
  <2>2. Apply(o, sources).sources = [sources EXCEPT ![o.id] = NoSource]
        BY <2>1 DEF Delete, Refused, Changed
  <2>. QED  BY <2>2, ChangeGood
<1>4. CASE o.kind = "sync"
  <2>1. DEFINE i == o.id
               head == HeadCommit(o.seen)
               x == [sources[i] EXCEPT !.mark = head]
  <2>2. Apply(o, sources) = MarkSynced(sources, i, head)
        BY <1>4 DEF Apply
  <2>3. /\ i \in Used(sources)
        /\ Apply(o, sources).sources = [sources EXCEPT ![i] = x]
        BY <2>2 DEF MarkSynced, Refused, Changed
  <2>4. Shaped(sources[i])
        BY <2>3 DEF Good
  <2>5. Shaped(x) /\ x.mark = head /\ x.name = sources[i].name
        BY <2>4 DEF Shaped
  <2>6. \A j \in Used(sources) \ {i} : x.name # sources[j].name
        BY <2>3, <2>5 DEF Good
  <2>7. head \in ToSet(saved[i])
        BY <1>4
  <2>. HIDE DEF x, head, i
  <2>. QED  BY <2>3, <2>5, <2>6, <2>7, ChangeGood
<1>. QED  BY <1>1, <1>2, <1>3, <1>4 DEF Writes

\* Candidates are only added, and what was earned stays earned.
Grows(saved, more) ==
  /\ SavedShaped(more)
  /\ \A i \in Id : ToSet(saved[i]) \subseteq ToSet(more[i])

LEMMA GoodStays ==
  ASSUME NEW saved, NEW more, Grows(saved, more), NEW sources, Good(sources, saved)
  PROVE  Good(sources, more)
BY DEF Grows, Good, Used

LEMMA SoundStays ==
  ASSUME NEW saved, NEW more, Grows(saved, more), NEW o, OpSound(o, saved)
  PROVE  OpSound(o, more)
BY GoodStays DEF OpSound, Grows

LEMMA EmptyGood ==
  ASSUME NEW saved
  PROVE  /\ Good([i \in Id |-> NoSource], saved)
         /\ OpSound(NoOp, saved)
<1>1. Good([i \in Id |-> NoSource], saved)
      BY DEF Good, Used
<1>. QED  BY <1>1 DEF OpSound, NoOp, Operation, OpShaped

----------------------------------------------------------------------------
(* Names and marks.                                                         *)

\* A step keeps the invariant if it saves candidates only, and leaves good contents.
LEMMA MarksStay ==
  ASSUME MarksInv, UNCHANGED <<candidates, op, file, tmp>>
  PROVE  MarksInv'
BY DEF MarksInv

\* One handler goes on, and the files stay.
HandlerBecomes(h, x) == /\ op' = [op EXCEPT ![h] = x]
                        /\ OpSound(x, candidates)
                        /\ UNCHANGED <<candidates, file, tmp>>

LEMMA HandlerStep ==
  ASSUME MarksInv, NEW h \in Handler, NEW x, HandlerBecomes(h, x)
  PROVE  MarksInv'
<1>1. op' = [g \in Handler |-> op'[g]] /\ \A g \in Handler : OpSound(op'[g], candidates)
      BY DEF MarksInv, HandlerBecomes
<1>. QED  BY <1>1 DEF MarksInv, HandlerBecomes

LEMMA SoundHere ==
  ASSUME MarksInv, NEW h \in Handler
  PROVE  OpSound(op[h], candidates) /\ OpShaped(op[h])
BY DEF MarksInv, OpSound

\* An operation that has just begun.
LEMMA OperationSound ==
  ASSUME NEW saved, NEW kind, NEW at, NEW i, NEW asks,
         kind = "sync" => i \in Id /\ at # "checked",
         at = "checked" => kind \in Writes
  PROVE  OpSound(Operation(kind, at, i, asks), saved)
BY EmptyGood DEF OpSound, OpShaped, Operation

LEMMA BeginKeepsMarks ==
  ASSUME MarksInv, NEW h \in Handler, Request(h)
  PROVE  MarksInv'
<1>1. PICK o : Begin(h, o) /\ OpSound(o, candidates)
  <2>1. CASE \E r \in Registration : RegisterRequest(h, r)
        BY <2>1, OperationSound DEF RegisterRequest
  <2>2. CASE \E i \in Id : \E c \in Change : PatchRequest(h, i, c)
        BY <2>2, OperationSound DEF PatchRequest
  <2>3. CASE \E i \in Id : DeleteRequest(h, i)
        BY <2>3, OperationSound DEF DeleteRequest, Writes
  <2>4. CASE \E i \in Id : SyncRequest(h, i)
        BY <2>4, OperationSound DEF SyncRequest
  <2>5. CASE \E i \in Id : DeployRequest(h, i)
        BY <2>5, OperationSound DEF DeployRequest
  <2>. QED  BY <2>1, <2>2, <2>3, <2>4, <2>5 DEF Request
<1>2. HandlerBecomes(h, o)
      BY <1>1 DEF Begin, HandlerBecomes
<1>. QED  BY <1>2, HandlerStep

LEMMA ReturnKeepsMarks ==
  ASSUME MarksInv, NEW h \in Handler, Return(h), UNCHANGED <<candidates, file, tmp>>
  PROVE  MarksInv'
BY EmptyGood, HandlerStep DEF Return, HandlerBecomes

LEMMA CheckKeepsMarks ==
  ASSUME MarksInv, NEW h \in Handler, CheckRegister(h) \/ CheckPatch(h) \/ BeginOperation(h)
  PROVE  MarksInv'
<1>1. PICK o : o = op[h] /\ OpSound(o, candidates)
      BY SoundHere
<1>2. UNCHANGED <<candidates, file, tmp>>
      BY DEF CheckRegister, CheckPatch, BeginOperation
<1>3. CASE Return(h)
      BY <1>2, <1>3, ReturnKeepsMarks
<1>4. CASE GoTo(h, "checked") /\ o.kind \in {"register", "patch"}
  <2>1. PICK x : x = [o EXCEPT !.at = "checked"]
        OBVIOUS
  <2>2. OpSound(x, candidates)
    <3>1. /\ OpShaped(x) /\ x.kind = o.kind /\ x.id = o.id /\ x.next = o.next /\ x.at = "checked"
          BY <1>1, <2>1 DEF OpSound, OpShaped
    <3>. QED  BY <1>1, <1>4, <3>1 DEF OpSound, Writes
  <2>3. op' = [op EXCEPT ![h] = x]
        BY <1>1, <1>4, <2>1 DEF GoTo, MarksInv
  <2>. QED  BY <1>2, <2>2, <2>3, HandlerStep DEF HandlerBecomes
<1>5. CASE op' = [op EXCEPT ![h].at = "locked", ![h].seen = file.sources[op[h].id]]
  <2>1. PICK x : x = [o EXCEPT !.at = "locked", !.seen = file.sources[o.id]]
        OBVIOUS
  <2>2. OpSound(x, candidates)
    <3>1. /\ OpShaped(x) /\ x.kind = o.kind /\ x.id = o.id /\ x.next = o.next /\ x.at = "locked"
          BY <1>1, <2>1 DEF OpSound, OpShaped
    <3>. QED  BY <1>1, <3>1 DEF OpSound
  <2>3. op' = [op EXCEPT ![h] = x]
        BY <1>1, <1>5, <2>1 DEF MarksInv
  <2>. QED  BY <1>2, <2>2, <2>3, HandlerStep DEF HandlerBecomes
<1>. QED  BY <1>1, <1>3, <1>4, <1>5 DEF CheckRegister, CheckPatch, BeginOperation

\* The candidate is saved before the mark is made.
LEMMA SyncKeepsMarks ==
  ASSUME MarksInv, NEW h \in Handler, Sync(h)
  PROVE  MarksInv'
<1>1. PICK o : o = op[h] /\ OpSound(o, candidates)
      BY SoundHere
<1>2. UNCHANGED <<file, tmp>> /\ o.kind = "sync" /\ o.id \in Id
      BY <1>1 DEF Sync, OpSound
<1>3. CASE Return(h) /\ UNCHANGED candidates
      BY <1>2, <1>3, ReturnKeepsMarks
<1>4. CASE /\ GoTo(h, "checked")
           /\ candidates' = IF HeadCommit(o.seen) \in ToSet(candidates[o.id]) THEN candidates
                            ELSE [candidates EXCEPT ![o.id] = Append(@, HeadCommit(o.seen))]
  <2>0. PICK i \in Id : i = o.id
        BY <1>2
  <2>1. PICK head, old : head = HeadCommit(o.seen) /\ i = o.id /\ old = candidates[i]
        BY <2>0
  <2>2. Grows(candidates, candidates') /\ head \in ToSet(candidates'[i])
    <3>1. CASE head \in ToSet(old)
          BY <1>4, <2>1, <3>1 DEF Grows, MarksInv
    <3>2. CASE head \notin ToSet(old)
      <4>1. old \in Seq(ToSet(old))
            BY <2>1 DEF MarksInv, SavedShaped
      <4>2. /\ Append(old, head) \in Seq(ToSet(Append(old, head)))
            /\ ToSet(old) \subseteq ToSet(Append(old, head))
            /\ head \in ToSet(Append(old, head))
        <5>1. PICK T : T = ToSet(old) /\ old \in Seq(T)
              BY <4>1
        <5>2. PICK n \in Nat : n = Len(old) /\ DOMAIN old = 1..n /\ \A k \in 1..n : old[k] \in T
              BY <5>1
        <5>3. PICK new : new = Append(old, head)
              OBVIOUS
        <5>4. /\ new \in Seq(T \union {head}) /\ DOMAIN new = 1..(n + 1) /\ Len(new) = n + 1
              /\ new[n + 1] = head /\ \A k \in 1..n : new[k] = old[k]
              BY <5>1, <5>2, <5>3
        <5>5. ToSet(new) = T \union {head}
          <6>1. ToSet(new) = {new[k] : k \in 1..(n + 1)} /\ T = {old[k] : k \in 1..n}
                BY <5>1, <5>2, <5>4 DEF ToSet
          <6>2. \A k \in 1..(n + 1) : k \in 1..n \/ k = n + 1
                BY <5>2
          <6>3. \A k \in 1..n : k \in 1..(n + 1)
                BY <5>2
          <6>4. n + 1 \in 1..(n + 1)
                BY <5>2
          <6>. QED  BY <5>4, <6>1, <6>2, <6>3, <6>4
        <5>. QED  BY <5>1, <5>3, <5>4, <5>5
      <4>3. candidates' = [candidates EXCEPT ![i] = Append(old, head)]
            BY <1>4, <2>1, <3>2
      <4>. QED  BY <2>1, <4>2, <4>3 DEF Grows, SavedShaped, MarksInv
    <3>. QED  BY <3>1, <3>2
  <2>3. PICK x : x = [o EXCEPT !.at = "checked"]
        OBVIOUS
  <2>4. op' = [op EXCEPT ![h] = x]
        BY <1>1, <1>4, <2>3 DEF GoTo, MarksInv
  <2>5. OpSound(o, candidates')
        BY <1>1, <2>2, SoundStays
  <2>6. OpSound(x, candidates')
    <3>1. /\ OpShaped(x) /\ x.kind = "sync" /\ x.id = i /\ x.seen = o.seen
          /\ x.next = o.next /\ x.at = "checked"
          BY <1>1, <1>2, <2>1, <2>3 DEF OpSound, OpShaped
    <3>. QED  BY <2>1, <2>2, <2>5, <3>1 DEF OpSound, Writes
  <2>7. \A g \in Handler : OpSound(op'[g], candidates')
        BY <2>2, <2>4, <2>6, SoundStays DEF MarksInv
  <2>8. Good(file'.sources, candidates') /\ Good(tmp'.sources, candidates')
        BY <1>2, <2>2, GoodStays DEF MarksInv
  <2>. QED  BY <2>2, <2>4, <2>7, <2>8 DEF MarksInv, Grows
<1>. QED  BY <1>1, <1>3, <1>4 DEF Sync

LEMMA DeployKeepsMarks ==
  ASSUME MarksInv, NEW h \in Handler, Deploy(h)
  PROVE  MarksInv'
BY ReturnKeepsMarks DEF Deploy

LEMMA LoadKeepsMarks ==
  ASSUME MarksInv, NEW h \in Handler, Load(h)
  PROVE  MarksInv'
<1>1. PICK o : o = op[h] /\ OpSound(o, candidates)
      BY SoundHere
<1>2. UNCHANGED <<candidates, file, tmp>> /\ o.at = "checked"
      BY <1>1 DEF Load
<1>3. CASE Return(h)
      BY <1>2, <1>3, ReturnKeepsMarks
<1>4. CASE ~Return(h)
  <2>1. PICK next : next = Apply(o, file.sources).sources
        OBVIOUS
  <2>2. PICK x : x = [o EXCEPT !.at = "loaded", !.next = next]
        OBVIOUS
  <2>3. Apply(o, file.sources).ok /\ op' = [op EXCEPT ![h] = x]
        BY <1>1, <1>4, <2>1, <2>2 DEF Load, MarksInv
  <2>4. Good(next, candidates)
        BY <1>1, <1>2, <2>1, <2>3, ApplyGood DEF MarksInv, OpSound
  <2>5. /\ OpShaped(x) /\ x.kind = o.kind /\ x.id = o.id /\ x.next = next /\ x.at = "loaded"
        BY <1>1, <2>2 DEF OpSound, OpShaped
  <2>6. OpSound(x, candidates)
        BY <1>1, <2>4, <2>5 DEF OpSound
  <2>. QED  BY <1>2, <2>3, <2>6, HandlerStep DEF HandlerBecomes
<1>. QED  BY <1>3, <1>4

\* A content a handler writes is its own, or cannot be read.
LEMMA NotGood == ASSUME NEW saved, NEW state PROVE Good(Not(state).sources, saved)
BY EmptyGood DEF Not

LEMMA WritesKeepMarks ==
  ASSUME MarksInv, NEW h \in Handler, Open(h) \/ Write(h)
  PROVE  MarksInv'
<1>1. PICK o : o = op[h] /\ OpSound(o, candidates)
      BY SoundHere
<1>2. UNCHANGED candidates
      BY DEF Open, Write
<1>3. CASE Open(h)
  <2>1. PICK x : x = [o EXCEPT !.at = "opened", !.fd = "tmp"]
        OBVIOUS
  <2>2. op' = [op EXCEPT ![h] = x]
        BY <1>1, <1>3, <2>1 DEF Open, MarksInv
  <2>3. /\ OpShaped(x) /\ x.kind = o.kind /\ x.id = o.id /\ x.next = o.next /\ x.at = "opened"
        BY <1>1, <2>1 DEF OpSound, OpShaped
  <2>4. OpSound(x, candidates)
        BY <1>1, <2>3 DEF OpSound
  <2>5. \A g \in Handler : OpSound(op'[g], candidates')
        BY <1>2, <2>2, <2>4 DEF MarksInv
  <2>6. tmp' = Not("empty") /\ file' = file
        BY <1>3 DEF Open
  <2>. QED  BY <1>2, <2>2, <2>5, <2>6, NotGood DEF MarksInv
<1>4. CASE Write(h)
  <2>1. PICK x : x = [o EXCEPT !.at = "written", !.fd = "none"]
        OBVIOUS
  <2>2. op' = [op EXCEPT ![h] = x]
        BY <1>1, <1>4, <2>1 DEF Write, MarksInv
  <2>3. /\ OpShaped(x) /\ x.kind = o.kind /\ x.id = o.id /\ x.next = o.next /\ x.at = "written"
        BY <1>1, <2>1 DEF OpSound, OpShaped
  <2>4. OpSound(x, candidates)
        BY <1>1, <2>3 DEF OpSound
  <2>5. \A g \in Handler : OpSound(op'[g], candidates')
        BY <1>2, <2>2, <2>4 DEF MarksInv
  <2>6. /\ Good(Whole(o.next).sources, candidates)
        /\ Good(Not("garbled").sources, candidates)
        BY <1>1, NotGood DEF OpSound, Whole
  <2>7. /\ tmp' \in {tmp, Whole(o.next), Not("garbled")}
        /\ file' \in {file, Whole(o.next), Not("garbled")}
        BY <1>1, <1>4 DEF Write, Over
  <2>8. Good(file'.sources, candidates') /\ Good(tmp'.sources, candidates')
        BY <1>2, <2>6, <2>7 DEF MarksInv
  <2>. QED  BY <1>2, <2>2, <2>5, <2>8 DEF MarksInv
<1>. QED  BY <1>3, <1>4

LEMMA RenameKeepsMarks ==
  ASSUME MarksInv, NEW h \in Handler, Rename(h)
  PROVE  MarksInv'
<1>1. CASE Return(h) /\ UNCHANGED <<file, tmp>>
      BY <1>1, ReturnKeepsMarks DEF Rename
<1>2. CASE ~(Return(h) /\ UNCHANGED <<file, tmp>>)
  <2>1. /\ file' = tmp /\ tmp' = Not("absent") /\ UNCHANGED candidates
        /\ op' = [g \in Handler |-> IF g = h THEN NoOp ELSE [op[g] EXCEPT !.fd = Follow(@)]]
        BY <1>2 DEF Rename
  <2>2. ASSUME NEW g \in Handler PROVE OpSound(op'[g], candidates)
    <3>1. PICK o : o = op[g] /\ OpSound(o, candidates)
          BY SoundHere
    <3>2. PICK fd : fd = Follow(o.fd)
          OBVIOUS
    <3>3. PICK x : x = [o EXCEPT !.fd = fd]
          OBVIOUS
    <3>4. /\ OpShaped(x) /\ x.kind = o.kind /\ x.id = o.id /\ x.next = o.next /\ x.at = o.at
          /\ x.seen = o.seen
          BY <3>1, <3>3 DEF OpSound, OpShaped
    <3>5. OpSound(x, candidates)
          BY <3>1, <3>4 DEF OpSound
    <3>6. op'[g] = NoOp \/ op'[g] = x
          BY <2>1, <3>1, <3>2, <3>3
    <3>. QED  BY <3>5, <3>6, EmptyGood
  <2>. QED  BY <2>1, <2>2, NotGood DEF MarksInv
<1>. QED  BY <1>1, <1>2

LEMMA CrashKeepsMarks ==
  ASSUME MarksInv, Crash
  PROVE  MarksInv'
<1>1. /\ file' \in {file, Not("garbled")} /\ tmp' \in {tmp, Not("garbled")}
      /\ UNCHANGED candidates /\ op' = [h \in Handler |-> NoOp]
      BY DEF Crash
<1>2. Good(file'.sources, candidates) /\ Good(tmp'.sources, candidates)
      BY <1>1, NotGood DEF MarksInv
<1>. QED  BY <1>1, <1>2, EmptyGood DEF MarksInv

LEMMA StepKeepsMarks ==
  ASSUME MarksInv, NEW h \in Handler, Step(h)
  PROVE  MarksInv'
BY CheckKeepsMarks, SyncKeepsMarks, DeployKeepsMarks, LoadKeepsMarks, WritesKeepMarks,
   RenameKeepsMarks DEF Step

LEMMA FindSourceKeepsMarks ==
  ASSUME MarksInv, NEW p \in Applier, FindSource(p)
  PROVE  MarksInv'
<1>1. p \in Handler /\ UNCHANGED <<candidates, file, tmp>>
      BY ProvisioningAssumption DEF FindSource
<1>2. CASE UNCHANGED op
      BY <1>1, <1>2, MarksStay
<1>3. CASE op' = [op EXCEPT ![p] = SourceRequest(DocOf(p))]
  <2>1. OpSound(SourceRequest(DocOf(p)), candidates)
        BY OperationSound DEF SourceRequest, Writes
  <2>. QED  BY <1>1, <1>3, <2>1, HandlerStep DEF HandlerBecomes
<1>. QED  BY <1>2, <1>3 DEF FindSource

\* The steps of provisioning that go past the registry leave it alone.
LEMMA DocumentsLeaveSources ==
  ASSUME NEW p \in Applier,
         \/ BeginApply(p)
         \/ StoreValue(p) \/ KeepCredential(p) \/ FindVariable(p) \/ KeepVariable(p)
         \/ FindClient(p) \/ CreateClient(p) \/ StoreSettings(p)
  PROVE  UNCHANGED vars
BY DEF BeginApply, StoreValue, KeepCredential, FindVariable, KeepVariable, FindClient,
       CreateClient, StoreSettings

LEMMA MarksInvStep == MarksInv /\ [ProvisionNext]_provisionVars => MarksInv'
<1>. SUFFICES ASSUME MarksInv, [ProvisionNext]_provisionVars PROVE MarksInv'
     OBVIOUS
<1>1. CASE UNCHANGED <<candidates, op, file, tmp>>
      BY <1>1, MarksStay
<1>2. CASE \E p \in Applier : FindSource(p)
      BY <1>2, FindSourceKeepsMarks
<1>3. CASE \E p \in Applier : ApplySource(p)
      BY <1>3, StepKeepsMarks, ProvisioningAssumption DEF ApplySource, Step
<1>4. CASE \E h \in Handler : RequestStep(h)
      BY <1>4, StepKeepsMarks, BeginKeepsMarks DEF RequestStep
<1>5. CASE Crash
      BY <1>5, CrashKeepsMarks
<1>. QED  BY <1>1, <1>2, <1>3, <1>4, <1>5, DocumentsLeaveSources
          DEF ProvisionNext, provisionVars, vars, SetVariable, ServerCrash, ArchiveWorkspace

LEMMA MarksInitially == ProvisionInit => MarksInv
<1>. SUFFICES ASSUME ProvisionInit PROVE MarksInv
     OBVIOUS
<1>1. Good(Registered, candidates)
  <2>1. \A i \in Id : Registered[i] # NoSource => Shaped(Registered[i])
        BY ConstantAssumption DEF Sources, Source, Shaped
  <2>2. Registered = [i \in Id |-> Registered[i]]
        BY ConstantAssumption DEF Sources
  <2>. QED  BY <2>1, <2>2, ConstantAssumption DEF Good, Used
<1>2. SavedShaped(candidates)
      BY DEF ProvisionInit, Init, SavedShaped
<1>3. Good(file.sources, candidates) /\ Good(tmp.sources, candidates)
      BY <1>1, NotGood DEF ProvisionInit, Init, Whole
<1>. QED  BY <1>2, <1>3, EmptyGood DEF MarksInv, ProvisionInit, Init

\* MarksAlwaysEarned: however operations on the registry interleave, whatever the server
\* loses when it stops and whichever ids are given again, a name denotes one source and
\* a mark a candidate that was saved.
THEOREM MarksAlwaysEarned == ProvisionSpec => []MarksEarned
<1>1. MarksInv => MarksEarned
      BY DEF MarksInv, Good, MarksEarned
<1>. QED  BY <1>1, MarksInitially, MarksInvStep, PTL DEF ProvisionSpec

----------------------------------------------------------------------------
(* The file.                                                                *)

\* The one handler that has the files, and what it will make of the registry.
HasFiles(h) ==
  /\ op[h].next = Apply(op[h], book).sources
  /\ op[h].at = "opened"  => tmp = Not("empty")
  /\ op[h].at = "written" => tmp = Whole(op[h].next)

OneAtATime ==
  /\ file = Whole(book)
  /\ \A g, h \in Handler : Busy(g) /\ Busy(h) => g = h
  /\ \A h \in Handler : op[h].fd = IF op[h].at = "opened" THEN "tmp" ELSE "none"
  /\ \A h \in Handler : Busy(h) => HasFiles(h)

\* An applier is at the registry only for a document that declares a source.
ApplyShaped(a) == a = [at |-> a.at, n |-> a.n, found |-> a.found, alone |-> a.alone]
ApplyInv ==
  /\ apply = [p \in Applier |-> apply[p]]
  /\ \A p \in Applier :
       /\ ApplyShaped(apply[p])
       /\ op[p] = NoOp \/ (apply[p].at = "found" /\ DocOf(p).kind = "AppSource")

FilesInv == MarksInv /\ ApplyInv /\ (~overlapped => OneAtATime)

\* While applications do not overlap, the one under way knows which clients are missing.
Missing(p) == apply[p].at = "found" /\ DocOf(p).kind = "Client" =>
                \A c \in Client : c = DocOf(p).name => clients[c] = 0
ClientsInv ==
  /\ ApplyInv
  /\ clients \in [Client -> Nat]
  /\ ~collided =>
       /\ \A p, q \in Applier : ~Resting(p) /\ ~Resting(q) => p = q
       /\ \A c \in Client : clients[c] <= 1
       /\ \A p \in Applier : Missing(p)

LEMMA NoOpIdle == NoOp.at = "idle" /\ NoOp.fd = "none" /\ OpShaped(NoOp)
BY DEF NoOp, Operation, OpShaped

\* A handler at rest stays so when another goes on.
LEMMA OthersRest ==
  ASSUME MarksInv, NEW h \in Handler, Request(h) \/ Step(h),
         NEW g \in Handler, g # h, op[g] = NoOp
  PROVE  op'[g] = NoOp
<1>1. ASSUME NEW x, op' = [op EXCEPT ![h] = x] PROVE op'[g] = NoOp
      BY <1>1 DEF MarksInv
<1>2. CASE Rename(h)
  <2>1. [NoOp EXCEPT !.fd = Follow(@)] = NoOp
    <3>1. Follow(NoOp.fd) = "none"
          BY NoOpIdle DEF Follow
    <3>2. PICK x : x = [NoOp EXCEPT !.fd = "none"]
          OBVIOUS
    <3>3. x = NoOp
          BY <3>2, NoOpIdle DEF OpShaped
    <3>. QED  BY <3>1, <3>2, <3>3
  <2>2. CASE Return(h)
        BY <1>1, <2>2 DEF Return
  <2>. QED  BY <1>2, <2>1, <2>2 DEF Rename
<1>3. CASE Request(h)
      BY <1>1, <1>3 DEF Request, RegisterRequest, PatchRequest, DeleteRequest, SyncRequest,
         DeployRequest, Begin
<1>4. CASE CheckRegister(h) \/ CheckPatch(h) \/ Sync(h) \/ Deploy(h)
  <2>1. GoTo(h, "checked") \/ Return(h)
        BY <1>4 DEF CheckRegister, CheckPatch, Sync, Deploy
  <2>. QED  BY <2>1 DEF GoTo, Return, MarksInv
<1>5. CASE BeginOperation(h)
      BY <1>5 DEF BeginOperation, Return, MarksInv
<1>6. CASE Load(h) \/ Open(h) \/ Write(h)
      BY <1>6 DEF Load, Open, Write, Return, MarksInv
<1>. QED  BY <1>2, <1>3, <1>4, <1>5, <1>6 DEF Step

----------------------------------------------------------------------------
(* Where appliers are.                                                      *)

Moves(p, x) == ApplyShaped(x) /\ apply' = [apply EXCEPT ![p] = x]

LEMMA Advances ==
  ASSUME ApplyInv, NEW p \in Applier, Advance(p)
  PROVE  \E x : Moves(p, x) /\ x.at \in {"done", "next"}
<1>1. PICK a : a = apply[p] /\ ApplyShaped(a)
      BY DEF ApplyInv
<1>2. CASE apply[p].n = Len(Order)
  <2>1. PICK x : x = [NotApplying EXCEPT !.at = "done"]
        OBVIOUS
  <2>2. ApplyShaped(x) /\ x.at = "done"
        BY <2>1 DEF ApplyShaped, NotApplying
  <2>. QED  BY <1>2, <2>1, <2>2 DEF Advance, Moves
<1>3. CASE apply[p].n # Len(Order)
  <2>1. PICK x : x = [a EXCEPT !.at = "next", !.n = a.n + 1, !.found = NoVariable]
        OBVIOUS
  <2>2. ApplyShaped(x) /\ x.at = "next"
        BY <1>1, <2>1 DEF ApplyShaped
  <2>3. apply' = [apply EXCEPT ![p] = x]
    <3>1. apply' = [apply EXCEPT ![p].at = "next", ![p].n = a.n + 1, ![p].found = NoVariable]
          BY <1>1, <1>3 DEF Advance, ApplyInv, ApplyShaped
    <3>. QED  BY <1>1, <2>1, <3>1 DEF ApplyInv
  <2>. QED  BY <2>2, <2>3 DEF Moves
<1>. QED  BY <1>2, <1>3

LEMMA Fails ==
  ASSUME NEW p \in Applier, Fail(p)
  PROVE  \E x : Moves(p, x) /\ x.at = "idle"
<1>1. ApplyShaped(NotApplying) /\ NotApplying.at = "idle"
      BY DEF NotApplying, ApplyShaped
<1>. QED  BY <1>1 DEF Fail, Moves

LEMMA Finds ==
  ASSUME ApplyInv, NEW p \in Applier, NEW v, Found(p, v)
  PROVE  \E x : Moves(p, x) /\ x.at = "found" /\ x.n = apply[p].n
<1>1. PICK a : a = apply[p] /\ ApplyShaped(a)
      BY DEF ApplyInv
<1>2. PICK x : x = [a EXCEPT !.at = "found", !.found = v]
      OBVIOUS
<1>3. ApplyShaped(x) /\ x.at = "found" /\ x.n = a.n
      BY <1>1, <1>2 DEF ApplyShaped
<1>4. apply' = [apply EXCEPT ![p] = x]
      BY <1>1, <1>2 DEF Found, ApplyInv
<1>. QED  BY <1>1, <1>3, <1>4 DEF Moves

\* An applier goes on, and the registry is not its business.
LEMMA MovesBesides ==
  ASSUME ApplyInv, NEW p \in Applier, NEW x, Moves(p, x), UNCHANGED op,
         op[p] = NoOp \/ (x.at = "found" /\ Order[x.n].kind = "AppSource")
  PROVE  ApplyInv'
<1>1. apply' = [q \in Applier |-> IF q = p THEN x ELSE apply[q]]
      BY DEF Moves, ApplyInv
<1>. QED  BY <1>1 DEF Moves, ApplyInv, DocOf

LEMMA DisturbedStays ==
  ASSUME ApplyInv
  PROVE  /\ Disturbed = [q \in Applier |-> Disturbed[q]]
         /\ \A q \in Applier : /\ ApplyShaped(Disturbed[q])
                              /\ Disturbed[q].at = apply[q].at /\ Disturbed[q].n = apply[q].n
                              /\ Disturbed[q].found = apply[q].found /\ ~Disturbed[q].alone
<1>1. ASSUME NEW q \in Applier
      PROVE  /\ ApplyShaped(Disturbed[q])
             /\ Disturbed[q].at = apply[q].at /\ Disturbed[q].n = apply[q].n
             /\ Disturbed[q].found = apply[q].found /\ ~Disturbed[q].alone
  <2>1. PICK a : a = apply[q] /\ ApplyShaped(a)
        BY DEF ApplyInv
  <2>2. PICK x : x = [a EXCEPT !.alone = FALSE]
        OBVIOUS
  <2>3. ApplyShaped(x) /\ x.at = a.at /\ x.n = a.n /\ x.found = a.found /\ ~x.alone
        BY <2>1, <2>2 DEF ApplyShaped
  <2>. QED  BY <2>1, <2>2, <2>3 DEF Disturbed
<1>. QED  BY <1>1 DEF Disturbed

\* An applier goes to the next document, or goes on with the same one.
GoesTo(p, x) == Moves(p, x) /\ (x.at = "found" => x.n = apply[p].n)

\* What a document's step does to its applier.
LEMMA DocumentMoves ==
  ASSUME ApplyInv, NEW p \in Applier,
         \/ StoreValue(p) \/ KeepCredential(p) \/ FindVariable(p) \/ KeepVariable(p)
         \/ FindClient(p) \/ CreateClient(p) \/ StoreSettings(p)
  PROVE  /\ op[p] = NoOp /\ UNCHANGED <<op, collided>> /\ apply[p].at \in {"next", "found"}
         /\ \E x : GoesTo(p, x)
<1>1. UNCHANGED op
      BY DocumentsLeaveSources DEF vars
<1>2. UNCHANGED collided
      BY DEF StoreValue, KeepCredential, FindVariable, KeepVariable, FindClient, CreateClient,
         StoreSettings
<1>3. \/ apply[p].at = "next"
      \/ apply[p].at = "found" /\ DocOf(p).kind \in {"Variable", "Client"}
      BY DEF StoreValue, KeepCredential, FindVariable, KeepVariable, FindClient, CreateClient,
         StoreSettings, Current
<1>4. Advance(p) \/ Fail(p) \/ \E v : Found(p, v)
      BY DEF StoreValue, KeepCredential, FindVariable, KeepVariable, FindClient, CreateClient,
         StoreSettings
<1>5. op[p] = NoOp
      BY <1>3 DEF ApplyInv
<1>6. \E x : GoesTo(p, x)
  <2>1. CASE Advance(p)
    <3>1. PICK x : Moves(p, x) /\ x.at \in {"done", "next"}
          BY <2>1, Advances
    <3>. QED  BY <3>1 DEF GoesTo
  <2>2. CASE Fail(p)
    <3>1. PICK x : Moves(p, x) /\ x.at = "idle"
          BY <2>2, Fails
    <3>. QED  BY <3>1 DEF GoesTo
  <2>3. CASE \E v : Found(p, v)
    <3>1. PICK x : Moves(p, x) /\ x.at = "found" /\ x.n = apply[p].n
          BY <2>3, Finds
    <3>. QED  BY <3>1 DEF GoesTo
  <2>. QED  BY <1>4, <2>1, <2>2, <2>3
<1>. QED  BY <1>1, <1>2, <1>3, <1>5, <1>6

\* Where the appliers are after a step that disturbs them.
LEMMA DisturbedMoves ==
  ASSUME MarksInv, ApplyInv, apply' = Disturbed,
         \A q \in Applier : op[q] = NoOp => op'[q] = NoOp
  PROVE  ApplyInv'
<1>1. \A q \in Applier : apply'[q].at = apply[q].at /\ DocOf(q)' = DocOf(q)
      BY DisturbedStays DEF DocOf
<1>. QED  BY <1>1, DisturbedStays DEF ApplyInv

LEMMA BeginApplyMoves ==
  ASSUME ApplyInv, NEW p \in Applier, BeginApply(p)
  PROVE  /\ ApplyInv'
         /\ apply'[p].at = "next"
         /\ \A q \in Applier \ {p} : apply'[q].at = apply[q].at /\ DocOf(q)' = DocOf(q)
         /\ UNCHANGED op
<1>1. PICK b : b = (/\ \A q \in Applier : Resting(q) /\ \A h \in Handler : op[h] = NoOp)
      OBVIOUS
<1>2. PICK x : x = [NotApplying EXCEPT !.at = "next", !.n = 1, !.alone = b]
      OBVIOUS
<1>3. ApplyShaped(x) /\ x.at = "next"
      BY <1>2 DEF ApplyShaped, NotApplying
<1>4. apply' = [Disturbed EXCEPT ![p] = x] /\ UNCHANGED op
      BY <1>1, <1>2 DEF BeginApply, vars
<1>5. /\ apply'[p] = x
      /\ \A q \in Applier \ {p} : apply'[q] = Disturbed[q]
      /\ apply' = [q \in Applier |-> apply'[q]]
      BY <1>4, DisturbedStays
<1>6. \A q \in Applier \ {p} : apply'[q].at = apply[q].at /\ DocOf(q)' = DocOf(q)
      BY <1>5, DisturbedStays DEF DocOf
<1>7. op[p] = NoOp
      BY DEF BeginApply, Resting, ApplyInv
<1>8. \A q \in Applier : ApplyShaped(apply'[q])
      BY <1>3, <1>5, DisturbedStays
<1>. QED  BY <1>3, <1>4, <1>5, <1>6, <1>7, <1>8 DEF ApplyInv

LEMMA FindSourceMoves ==
  ASSUME MarksInv, ApplyInv, NEW p \in Applier, FindSource(p)
  PROVE  /\ ApplyInv' /\ op[p] = NoOp /\ DocOf(p).kind = "AppSource" /\ ~Resting(p)
         /\ \E x : Moves(p, x) /\ (x.at = "found" => x.n = apply[p].n)
<1>1. op[p] = NoOp /\ DocOf(p).kind = "AppSource" /\ apply[p].at = "next" /\ ~Resting(p)
      BY DEF FindSource, Current, DocOf, ApplyInv, Resting
<1>2. CASE Fail(p) /\ UNCHANGED op
  <2>1. PICK x : Moves(p, x) /\ x.at = "idle"
        BY <1>2, Fails
  <2>2. ApplyInv'
        BY <1>1, <1>2, <2>1, MovesBesides
  <2>. QED  BY <1>1, <2>1, <2>2
<1>3. CASE op' = [op EXCEPT ![p] = SourceRequest(DocOf(p))] /\ Found(p, NoVariable)
  <2>1. PICK x : Moves(p, x) /\ x.at = "found" /\ x.n = apply[p].n
        BY <1>3, Finds
  <2>2. apply' = [q \in Applier |-> IF q = p THEN x ELSE apply[q]]
        BY <2>1 DEF Moves, ApplyInv
  <2>3. \A q \in Applier \ {p} : op'[q] = op[q] /\ apply'[q] = apply[q]
        BY <1>3, <2>2, ProvisioningAssumption DEF MarksInv
  <2>4. apply'[p].at = "found" /\ DocOf(p)'.kind = "AppSource"
        BY <1>1, <2>1, <2>2 DEF DocOf
  <2>5. ApplyInv'
        BY <2>1, <2>2, <2>3, <2>4 DEF ApplyInv, DocOf, Moves
  <2>. QED  BY <1>1, <2>1, <2>5
<1>. QED  BY <1>2, <1>3 DEF FindSource

LEMMA ApplySourceMoves ==
  ASSUME MarksInv, ApplyInv, NEW p \in Applier, ApplySource(p)
  PROVE  /\ DocOf(p).kind = "AppSource" /\ apply[p].at = "found"
         /\ UNCHANGED apply \/ \E x : Moves(p, x) /\ x.at \in {"idle", "done", "next"} /\ op'[p] = NoOp
<1>1. DocOf(p).kind = "AppSource" /\ apply[p].at = "found"
      BY DEF ApplySource
<1>2. CASE op'[p] # NoOp
      BY <1>1, <1>2 DEF ApplySource
<1>3. CASE op'[p] = NoOp
      BY <1>1, <1>3, Advances, Fails DEF ApplySource
<1>. QED  BY <1>2, <1>3

LEMMA ApplySourceKeepsPlaces ==
  ASSUME MarksInv, ApplyInv, NEW p \in Applier, ApplySource(p)
  PROVE  ApplyInv'
<1>1. p \in Handler /\ Step(p)
      BY ProvisioningAssumption DEF ApplySource, Step
<1>2. ASSUME NEW q \in Applier, q # p
      PROVE  op'[q] = NoOp \/ (apply[q].at = "found" /\ DocOf(q).kind = "AppSource")
      BY <1>1, <1>2, OthersRest, ProvisioningAssumption DEF ApplyInv
<1>3. CASE UNCHANGED apply
      BY <1>2, <1>3, ApplySourceMoves DEF ApplyInv, DocOf
<1>4. CASE ~UNCHANGED apply
  <2>1. PICK x : Moves(p, x) /\ op'[p] = NoOp
        BY <1>4, ApplySourceMoves
  <2>2. apply' = [q \in Applier |-> IF q = p THEN x ELSE apply[q]]
        BY <2>1 DEF Moves, ApplyInv
  <2>. QED  BY <1>2, <2>1, <2>2 DEF ApplyInv, DocOf, Moves
<1>. QED  BY <1>3, <1>4

LEMMA RequestStepKeepsPlaces ==
  ASSUME MarksInv, ApplyInv, NEW h \in Handler \ Applier, RequestStep(h)
  PROVE  ApplyInv'
<1>1. ASSUME NEW q \in Applier
      PROVE  op'[q] = NoOp \/ (apply[q].at = "found" /\ DocOf(q).kind = "AppSource")
      BY <1>1, OthersRest, ProvisioningAssumption DEF ApplyInv, RequestStep
<1>2. \A q \in Applier : apply'[q].at = apply[q].at /\ DocOf(q)' = DocOf(q)
      BY DisturbedStays DEF DocOf, RequestStep
<1>. QED  BY <1>1, <1>2, DisturbedStays DEF ApplyInv, RequestStep

LEMMA ApplyInvStep ==
  ASSUME MarksInv, ApplyInv, [ProvisionNext]_provisionVars
  PROVE  ApplyInv'
<1>1. CASE UNCHANGED <<apply, op>>
      BY <1>1 DEF ApplyInv, DocOf
<1>2. CASE \E p \in Applier : BeginApply(p)
      BY <1>2, BeginApplyMoves
<1>3. CASE \E p \in Applier :
             \/ StoreValue(p) \/ KeepCredential(p) \/ FindVariable(p) \/ KeepVariable(p)
             \/ FindClient(p) \/ CreateClient(p) \/ StoreSettings(p)
  <2>1. PICK p \in Applier :
             \/ StoreValue(p) \/ KeepCredential(p) \/ FindVariable(p) \/ KeepVariable(p)
             \/ FindClient(p) \/ CreateClient(p) \/ StoreSettings(p)
        BY <1>3
  <2>2. op[p] = NoOp /\ UNCHANGED op
        BY <2>1, DocumentMoves
  <2>3. PICK x : GoesTo(p, x)
        BY <2>1, DocumentMoves
  <2>. QED  BY <2>2, <2>3, MovesBesides DEF GoesTo
<1>4. CASE \E p \in Applier : FindSource(p)
      BY <1>4, FindSourceMoves
<1>5. CASE \E p \in Applier : ApplySource(p)
      BY <1>5, ApplySourceKeepsPlaces
<1>6. CASE \E h \in Handler \ Applier : RequestStep(h)
      BY <1>6, RequestStepKeepsPlaces
<1>7. CASE \E x, new : SetVariable(x, new)
      BY <1>7, DisturbedMoves DEF SetVariable
<1>8. CASE ServerCrash
  <2>1. apply' = [p \in Applier |-> NotApplying] /\ \A p \in Applier : op'[p] = NoOp
        BY <1>8, ProvisioningAssumption DEF ServerCrash, Crash, vars
  <2>2. ApplyShaped(NotApplying)
        BY DEF ApplyShaped, NotApplying
  <2>. QED  BY <2>1, <2>2 DEF ApplyInv
<1>. QED  BY <1>1, <1>2, <1>3, <1>4, <1>5, <1>6, <1>7, <1>8
          DEF ProvisionNext, provisionVars, vars, ArchiveWorkspace

LEMMA ApplyInitially == ProvisionInit => ApplyInv
<1>. SUFFICES ASSUME ProvisionInit PROVE ApplyInv
     OBVIOUS
<1>1. ApplyShaped(NotApplying)
      BY DEF ApplyShaped, NotApplying
<1>2. apply = [p \in Applier |-> NotApplying] /\ \A p \in Applier : op[p] = NoOp
      BY ProvisioningAssumption DEF ProvisionInit, Init
<1>. QED  BY <1>1, <1>2 DEF ApplyInv

----------------------------------------------------------------------------
(* Clients.                                                                 *)

\* The clients while applications do not overlap.
OnlyOne ==
  /\ \A p, q \in Applier : ~Resting(p) /\ ~Resting(q) => p = q
  /\ \A c \in Client : clients[c] <= 1
  /\ \A p \in Applier : Missing(p)

\* Nobody is further than before, and the clients stay.
LEMMA ClientsStay ==
  ASSUME OnlyOne, UNCHANGED clients,
         \A p \in Applier : \/ apply'[p].at \in {"idle", "done"}
                            \/ apply'[p].at = apply[p].at /\ DocOf(p)' = DocOf(p)
  PROVE  OnlyOne'
BY DEF OnlyOne, Resting, Missing

\* The one application under way goes on.
LEMMA OneGoesOn ==
  ASSUME ApplyInv, OnlyOne, NEW p \in Applier, ~Resting(p), NEW x, Moves(p, x),
         x.at = "found" /\ Order[x.n].kind = "Client" =>
           \A c \in Client : c = Order[x.n].name => clients'[c] = 0,
         \A c \in Client : clients'[c] <= 1
  PROVE  OnlyOne'
<1>1. apply' = [q \in Applier |-> IF q = p THEN x ELSE apply[q]]
      BY DEF Moves, ApplyInv
<1>2. \A q \in Applier : q # p => Resting(q) /\ apply'[q] = apply[q]
      BY <1>1 DEF OnlyOne
<1>3. \A q \in Applier : q # p => Resting(q)'
      BY <1>2 DEF Resting
<1>4. \A q \in Applier : Missing(q)'
  <2>1. ASSUME NEW q \in Applier, q # p PROVE Missing(q)'
        BY <1>3, <2>1 DEF Missing, Resting
  <2>2. Missing(p)'
        BY <1>1 DEF Missing, DocOf
  <2>. QED  BY <2>1, <2>2
<1>. QED  BY <1>3, <1>4 DEF OnlyOne

LEMMA CreateClientCounts ==
  ASSUME clients \in [Client -> Nat], NEW p, CreateClient(p)
  PROVE  /\ clients' \in [Client -> Nat]
         /\ \A c \in Client : clients'[c] = IF c = DocOf(p).name THEN clients[c] + 1 ELSE clients[c]
<1>1. PICK name : name = DocOf(p).name
      OBVIOUS
<1>2. clients' = [clients EXCEPT ![name] = @ + 1]
      BY <1>1 DEF CreateClient
<1>3. clients' = [c \in Client |-> IF c = name THEN clients[c] + 1 ELSE clients[c]]
      BY <1>2
<1>4. \A c \in Client : (IF c = name THEN clients[c] + 1 ELSE clients[c]) \in Nat
      OBVIOUS
<1>. QED  BY <1>1, <1>3, <1>4

LEMMA CreateClientOnce ==
  ASSUME ApplyInv, clients \in [Client -> Nat], OnlyOne, NEW p \in Applier, CreateClient(p)
  PROVE  OnlyOne'
<1>1. PICK x : Moves(p, x) /\ x.at \in {"done", "next"}
      BY Advances DEF CreateClient
<1>2. Missing(p) /\ ~Resting(p)
      BY DEF OnlyOne, CreateClient, Resting
<1>3. \A c \in Client : clients'[c] = IF c = DocOf(p).name THEN clients[c] + 1 ELSE clients[c]
      BY CreateClientCounts
<1>4. \A c \in Client : clients'[c] <= 1
      BY <1>2, <1>3 DEF Missing, CreateClient, OnlyOne
<1>. QED  BY <1>1, <1>2, <1>4, OneGoesOn

LEMMA ClientsInvStep ==
  ASSUME MarksInv, ClientsInv, [ProvisionNext]_provisionVars
  PROVE  ClientsInv'
<1>1. ApplyInv /\ ApplyInv' /\ clients \in [Client -> Nat]
      BY ApplyInvStep DEF ClientsInv
<1>2. ~collided => OnlyOne
      BY DEF ClientsInv, OnlyOne
<1>3. SUFFICES clients' \in [Client -> Nat] /\ (~collided' => OnlyOne')
      BY <1>1 DEF ClientsInv, OnlyOne
<1>4. CASE \E p \in Applier : CreateClient(p)
  <2>1. PICK p \in Applier : CreateClient(p)
        BY <1>4
  <2>2. clients' \in [Client -> Nat] /\ collided' = collided
        BY <1>1, <2>1, CreateClientCounts DEF CreateClient
  <2>. QED  BY <1>1, <1>2, <2>1, <2>2, CreateClientOnce
<1>5. CASE UNCHANGED <<apply, clients, collided>>
  <2>1. \A p \in Applier : apply'[p].at = apply[p].at /\ DocOf(p)' = DocOf(p)
        BY <1>5 DEF DocOf
  <2>. QED  BY <1>1, <1>2, <1>5, <2>1, ClientsStay
<1>6. CASE \E p \in Applier : BeginApply(p)
  <2>1. PICK p \in Applier : BeginApply(p)
        BY <1>6
  <2>2. UNCHANGED clients /\ collided' = (collided \/ \E q \in Applier : ~Resting(q))
        BY <2>1 DEF BeginApply, stores
  <2>3. /\ apply'[p].at = "next"
        /\ \A q \in Applier \ {p} : apply'[q].at = apply[q].at /\ DocOf(q)' = DocOf(q)
        BY <1>1, <2>1, BeginApplyMoves
  <2>4. ASSUME ~collided' PROVE OnlyOne'
    <3>1. OnlyOne /\ \A q \in Applier : Resting(q)
          BY <1>2, <2>2, <2>4
    <3>2. \A q \in Applier \ {p} : Resting(q)'
          BY <2>3, <3>1 DEF Resting
    <3>3. \A q \in Applier : Missing(q)'
          BY <2>3, <3>2 DEF Missing, Resting
    <3>. QED  BY <2>2, <3>1, <3>2, <3>3 DEF OnlyOne
  <2>. QED  BY <1>1, <2>2, <2>4
<1>7. CASE \E p \in Applier : StoreValue(p) \/ KeepCredential(p) \/ FindVariable(p)
                            \/ KeepVariable(p) \/ FindClient(p) \/ StoreSettings(p)
  <2>1. PICK p \in Applier : StoreValue(p) \/ KeepCredential(p) \/ FindVariable(p)
                            \/ KeepVariable(p) \/ FindClient(p) \/ StoreSettings(p)
        BY <1>7
  <2>2. UNCHANGED <<clients, collided>> /\ apply[p].at \in {"next", "found"}
        BY <2>1 DEF StoreValue, KeepCredential, FindVariable, KeepVariable, FindClient,
           StoreSettings, stores, Current
  <2>3. PICK x : GoesTo(p, x)
        BY <1>1, <2>1, DocumentMoves
  <2>4. x.at = "found" /\ DocOf(p).kind = "Client" => ~(clients[DocOf(p).name] > 0)
    <3>1. ASSUME x.at = "found", DocOf(p).kind = "Client" PROVE ~(clients[DocOf(p).name] > 0)
      <4>1. FindClient(p)
            BY <2>1, <3>1 DEF StoreValue, KeepCredential, FindVariable, KeepVariable,
               StoreSettings, Current, DocOf
      <4>2. apply'[p].at = "found"
            BY <1>1, <2>3, <3>1 DEF GoesTo, Moves, ApplyInv
      <4>3. ~Advance(p)
        <5>1. ASSUME Advance(p) PROVE FALSE
          <6>1. PICK y : Moves(p, y) /\ y.at \in {"done", "next"}
                BY <1>1, <5>1, Advances
          <6>. QED  BY <1>1, <4>2, <6>1 DEF Moves, ApplyInv
        <5>. QED  BY <5>1
      <4>. QED  BY <4>1, <4>3 DEF FindClient
    <3>. QED  BY <3>1
  <2>5. x.at = "found" /\ Order[x.n].kind = "Client" =>
          \A c \in Client : c = Order[x.n].name => clients'[c] = 0
        BY <1>1, <2>2, <2>3, <2>4 DEF DocOf, GoesTo
  <2>6. ~collided => OnlyOne'
    <3>1. ~Resting(p) /\ Moves(p, x)
          BY <2>2, <2>3 DEF Resting, GoesTo
    <3>. QED  BY <1>1, <1>2, <2>2, <2>5, <3>1, OneGoesOn DEF OnlyOne
  <2>. QED  BY <1>1, <2>2, <2>6
<1>8. CASE \E p \in Applier : FindSource(p)
  <2>1. PICK p \in Applier : FindSource(p)
        BY <1>8
  <2>2. UNCHANGED <<clients, collided>>
        BY <2>1 DEF FindSource, stores
  <2>3. DocOf(p).kind = "AppSource" /\ ~Resting(p)
        BY <1>1, <2>1, FindSourceMoves
  <2>4. PICK x : Moves(p, x) /\ (x.at = "found" => x.n = apply[p].n)
        BY <1>1, <2>1, FindSourceMoves
  <2>5. ~(x.at = "found" /\ Order[x.n].kind = "Client")
        BY <2>3, <2>4 DEF DocOf
  <2>. QED  BY <1>1, <1>2, <2>2, <2>3, <2>4, <2>5, OneGoesOn DEF OnlyOne
<1>9. CASE \E p \in Applier : ApplySource(p)
  <2>1. PICK p \in Applier : ApplySource(p)
        BY <1>9
  <2>2. UNCHANGED <<clients, collided>>
        BY <2>1 DEF ApplySource, stores
  <2>3. CASE UNCHANGED apply
        BY <1>1, <1>2, <2>2, <2>3, ClientsStay DEF DocOf
  <2>4. CASE ~UNCHANGED apply
    <3>1. PICK x : Moves(p, x) /\ x.at \in {"idle", "done", "next"}
          BY <1>1, <2>1, <2>4, ApplySourceMoves
    <3>2. ~Resting(p)
          BY <2>1 DEF ApplySource, Resting
    <3>. QED  BY <1>1, <1>2, <2>2, <3>1, <3>2, OneGoesOn DEF OnlyOne
  <2>. QED  BY <2>3, <2>4
<1>10. CASE \E h \in Handler : RequestStep(h)
  <2>1. UNCHANGED <<clients, collided>> /\ apply' = Disturbed
        BY <1>10 DEF RequestStep, stores
  <2>. QED  BY <1>1, <1>2, <2>1, ClientsStay, DisturbedStays DEF DocOf
<1>11. CASE \E x, new : SetVariable(x, new)
  <2>1. UNCHANGED <<clients, collided>> /\ apply' = Disturbed
        BY <1>11 DEF SetVariable
  <2>. QED  BY <1>1, <1>2, <2>1, ClientsStay, DisturbedStays DEF DocOf
<1>12. CASE ServerCrash
  <2>1. UNCHANGED <<clients, collided>> /\ \A p \in Applier : apply'[p].at = "idle"
        BY <1>12 DEF ServerCrash, stores, NotApplying
  <2>. QED  BY <1>1, <1>2, <2>1, ClientsStay
<1>. QED  BY <1>4, <1>5, <1>6, <1>7, <1>8, <1>9, <1>10, <1>11, <1>12
          DEF ProvisionNext, provisionVars, stores

\* ClientsAlwaysOnce: documents can be applied again and again, and be cut short
\* anywhere, without a client being registered twice, as long as no two applications
\* overlap.
THEOREM ClientsAlwaysOnce == ProvisionSpec => []ClientsOnce
<1>1. ProvisionInit => ClientsInv
  <2>. SUFFICES ASSUME ProvisionInit PROVE ClientsInv
       OBVIOUS
  <2>1. clients \in [Client -> Nat] /\ \A c \in Client : clients[c] = 0
        BY DEF ProvisionInit
  <2>2. \A p \in Applier : apply[p].at = "idle"
        BY DEF ProvisionInit, NotApplying
  <2>. QED  BY <2>1, <2>2, ApplyInitially DEF ClientsInv, Resting, Missing
<1>2. MarksInv /\ ClientsInv /\ [ProvisionNext]_provisionVars => ClientsInv'
      BY ClientsInvStep
<1>3. ClientsInv => ClientsOnce
      BY DEF ClientsInv, ClientsOnce
<1>. QED  BY <1>1, <1>2, <1>3, MarksInitially, MarksInvStep, PTL DEF ProvisionSpec

----------------------------------------------------------------------------
(* One operation on the file at a time.                                     *)

\* What an operation makes depends on what was asked, not on how far it is.
LEMMA ApplySame ==
  ASSUME NEW o, NEW x, NEW sources,
         x.kind = o.kind, x.id = o.id, x.asks = o.asks, x.seen = o.seen
  PROVE  Apply(x, sources) = Apply(o, sources)
BY DEF Apply

LEMMA NothingAsideFromTheFiles ==
  ASSUME OneAtATime, UNCHANGED <<op, file, tmp, book>>
  PROVE  OneAtATime'
BY DEF OneAtATime, HasFiles, Busy

\* A handler that does not have the files goes on without them.
LEMMA GoesOnWithout ==
  ASSUME MarksInv, OneAtATime, NEW h \in Handler, NEW x,
         x.at \notin {"loaded", "opened", "written"}, x.fd = "none",
         op' = [op EXCEPT ![h] = x], UNCHANGED <<file, tmp, book>>
  PROVE  OneAtATime'
<1>1. op' = [g \in Handler |-> IF g = h THEN x ELSE op[g]]
      BY DEF MarksInv
<1>2. \A g \in Handler : Busy(g)' => g # h /\ Busy(g)
      BY <1>1 DEF Busy
<1>. QED  BY <1>1, <1>2 DEF OneAtATime, HasFiles

LEMMA ReturnsWithout ==
  ASSUME MarksInv, OneAtATime, NEW h \in Handler, Return(h), UNCHANGED <<file, tmp, book>>
  PROVE  OneAtATime'
BY GoesOnWithout, NoOpIdle DEF Return

LEMMA ChecksWithout ==
  ASSUME MarksInv, OneAtATime, NEW h \in Handler,
         Request(h) \/ CheckRegister(h) \/ CheckPatch(h) \/ BeginOperation(h) \/ Sync(h) \/ Deploy(h)
  PROVE  OneAtATime'
<1>1. UNCHANGED <<file, tmp, book>>
      BY DEF Request, RegisterRequest, PatchRequest, DeleteRequest, SyncRequest, DeployRequest,
         Begin, CheckRegister, CheckPatch, BeginOperation, Sync, Deploy
<1>2. PICK o : o = op[h] /\ OpShaped(o)
      BY SoundHere
<1>3. o.at # "opened" => o.fd = "none"
      BY <1>2 DEF OneAtATime
<1>4. CASE Return(h)
      BY <1>1, <1>4, ReturnsWithout
<1>5. CASE Request(h)
  <2>1. PICK kind, at, i, asks : at \in {"begun", "checked"} /\ Begin(h, Operation(kind, at, i, asks))
        BY <1>5 DEF Request, RegisterRequest, PatchRequest, DeleteRequest, SyncRequest, DeployRequest
  <2>2. PICK x : x = Operation(kind, at, i, asks)
        OBVIOUS
  <2>3. x.at \in {"begun", "checked"} /\ x.fd = "none"
        BY <2>1, <2>2 DEF Operation
  <2>. QED  BY <1>1, <2>1, <2>2, <2>3, GoesOnWithout DEF Begin
<1>6. CASE GoTo(h, "checked") /\ o.at \in {"begun", "locked"}
  <2>1. PICK x : x = [o EXCEPT !.at = "checked"]
        OBVIOUS
  <2>2. x.at = "checked" /\ x.fd = "none"
        BY <1>2, <1>3, <1>6, <2>1 DEF OpShaped
  <2>3. op' = [op EXCEPT ![h] = x]
        BY <1>2, <1>6, <2>1 DEF GoTo, MarksInv
  <2>. QED  BY <1>1, <2>2, <2>3, GoesOnWithout
<1>7. CASE BeginOperation(h)
  <2>1. PICK x : x = [o EXCEPT !.at = "locked", !.seen = file.sources[o.id]]
        OBVIOUS
  <2>2. x.at = "locked" /\ x.fd = "none"
        BY <1>2, <1>3, <1>7, <2>1 DEF OpShaped, BeginOperation
  <2>3. op' = [op EXCEPT ![h] = x] \/ Return(h)
        BY <1>2, <1>7, <2>1 DEF BeginOperation, MarksInv
  <2>. QED  BY <1>1, <1>4, <2>2, <2>3, GoesOnWithout
<1>. QED  BY <1>2, <1>4, <1>5, <1>6, <1>7 DEF CheckRegister, CheckPatch, Sync, Deploy

\* A handler that has the files, alone, goes on with them.
LEMMA GoesOnWith ==
  ASSUME MarksInv, OneAtATime, NEW h \in Handler, NEW o, NEW x, o = op[h],
         \A g \in Handler \ {h} : ~Busy(g),
         op' = [op EXCEPT ![h] = x], UNCHANGED <<file, book>>,
         x.kind = o.kind, x.id = o.id, x.asks = o.asks, x.seen = o.seen,
         x.fd = IF x.at = "opened" THEN "tmp" ELSE "none",
         x.next = Apply(o, book).sources,
         x.at = "opened"  => tmp' = Not("empty"),
         x.at = "written" => tmp' = Whole(x.next)
  PROVE  OneAtATime'
<1>1. op' = [g \in Handler |-> IF g = h THEN x ELSE op[g]]
      BY DEF MarksInv
<1>2. \A g \in Handler \ {h} : ~Busy(g)'
      BY <1>1 DEF Busy
<1>3. HasFiles(h)'
      BY <1>1, ApplySame DEF HasFiles
<1>4. \A g \in Handler : op'[g].fd = IF op'[g].at = "opened" THEN "tmp" ELSE "none"
      BY <1>1 DEF OneAtATime
<1>. QED  BY <1>2, <1>3, <1>4 DEF OneAtATime

LEMMA LoadAlone ==
  ASSUME MarksInv, OneAtATime, NEW h \in Handler, Load(h), ~overlapped'
  PROVE  OneAtATime'
<1>1. PICK o : o = op[h] /\ OpShaped(o) /\ o.at = "checked"
      BY SoundHere DEF Load
<1>2. UNCHANGED <<file, tmp, book>> /\ \A g \in Handler \ {h} : ~Busy(g)
      BY DEF Load
<1>3. CASE Return(h)
      BY <1>2, <1>3, ReturnsWithout
<1>4. CASE ~Return(h)
  <2>1. PICK x : x = [o EXCEPT !.at = "loaded", !.next = Apply(o, file.sources).sources]
        OBVIOUS
  <2>2. op' = [op EXCEPT ![h] = x]
        BY <1>1, <1>4, <2>1 DEF Load, MarksInv
  <2>3. file.sources = book
        BY DEF OneAtATime, Whole
  <2>4. o.fd = "none"
        BY <1>1 DEF OneAtATime
  <2>5. /\ x.at = "loaded" /\ x.kind = o.kind /\ x.id = o.id /\ x.asks = o.asks /\ x.seen = o.seen
        /\ x.fd = "none" /\ x.next = Apply(o, book).sources
        BY <1>1, <2>1, <2>3, <2>4 DEF OpShaped
  <2>. QED  BY <1>1, <1>2, <2>2, <2>5, GoesOnWith
<1>. QED  BY <1>3, <1>4

LEMMA WritesAlone ==
  ASSUME MarksInv, OneAtATime, NEW h \in Handler, Open(h) \/ Write(h)
  PROVE  OneAtATime'
<1>1. PICK o : o = op[h] /\ OpShaped(o)
      BY SoundHere
<1>2. Busy(h) /\ HasFiles(h) /\ \A g \in Handler \ {h} : ~Busy(g)
      BY DEF OneAtATime, Busy, Open, Write
<1>3. o.next = Apply(o, book).sources
      BY <1>1, <1>2 DEF HasFiles
<1>4. CASE Open(h)
  <2>1. PICK x : x = [o EXCEPT !.at = "opened", !.fd = "tmp"]
        OBVIOUS
  <2>2. op' = [op EXCEPT ![h] = x] /\ UNCHANGED <<file, book>> /\ tmp' = Not("empty")
        BY <1>1, <1>4, <2>1 DEF Open, MarksInv
  <2>3. /\ x.at = "opened" /\ x.kind = o.kind /\ x.id = o.id /\ x.asks = o.asks /\ x.seen = o.seen
        /\ x.fd = "tmp" /\ x.next = o.next
        BY <1>1, <2>1 DEF OpShaped
  <2>. QED  BY <1>1, <1>2, <1>3, <2>2, <2>3, GoesOnWith
<1>5. CASE Write(h)
  <2>1. PICK x : x = [o EXCEPT !.at = "written", !.fd = "none"]
        OBVIOUS
  <2>2. o.fd = "tmp" /\ tmp = Not("empty")
        BY <1>1, <1>2, <1>5 DEF HasFiles, OneAtATime, Write
  <2>3. tmp' = Whole(o.next) /\ file' = file
        BY <1>1, <1>5, <2>2 DEF Write, Over, Not
  <2>4. op' = [op EXCEPT ![h] = x] /\ UNCHANGED book
        BY <1>1, <1>5, <2>1 DEF Write, MarksInv
  <2>5. /\ x.at = "written" /\ x.kind = o.kind /\ x.id = o.id /\ x.asks = o.asks /\ x.seen = o.seen
        /\ x.fd = "none" /\ x.next = o.next
        BY <1>1, <2>1 DEF OpShaped
  <2>. QED  BY <1>1, <1>2, <1>3, <2>3, <2>4, <2>5, GoesOnWith
<1>. QED  BY <1>4, <1>5

LEMMA RenameAlone ==
  ASSUME MarksInv, OneAtATime, NEW h \in Handler, Rename(h)
  PROVE  OneAtATime'
<1>1. CASE Return(h) /\ UNCHANGED <<file, tmp, book>>
      BY <1>1, ReturnsWithout
<1>2. CASE ~(Return(h) /\ UNCHANGED <<file, tmp, book>>)
  <2>1. /\ file' = tmp /\ book' = Apply(op[h], book).sources
        /\ op' = [g \in Handler |-> IF g = h THEN NoOp ELSE [op[g] EXCEPT !.fd = Follow(@)]]
        BY <1>2 DEF Rename
  <2>2. Busy(h) /\ HasFiles(h) /\ op[h].at = "written" /\ \A g \in Handler \ {h} : ~Busy(g)
        BY DEF OneAtATime, Busy, Rename
  <2>3. file' = Whole(book')
        BY <2>1, <2>2 DEF HasFiles
  <2>4. ASSUME NEW g \in Handler
        PROVE  op'[g].fd = "none" /\ op'[g].at \notin {"loaded", "opened", "written"}
    <3>1. PICK o : o = op[g] /\ OpShaped(o)
          BY SoundHere
    <3>2. CASE g = h
          BY <2>1, <3>2, NoOpIdle
    <3>3. CASE g # h
      <4>1. o.fd = "none" /\ o.at \notin {"loaded", "opened", "written"}
            BY <2>2, <3>1, <3>3 DEF OneAtATime, Busy
      <4>2. Follow(o.fd) = "none"
            BY <4>1 DEF Follow
      <4>3. PICK x : x = [o EXCEPT !.fd = "none"]
            OBVIOUS
      <4>4. x.fd = "none" /\ x.at = o.at
            BY <3>1, <4>3 DEF OpShaped
      <4>5. op'[g] = x
            BY <2>1, <3>1, <3>3, <4>2, <4>3
      <4>. QED  BY <4>1, <4>4, <4>5
    <3>. QED  BY <3>2, <3>3
  <2>. QED  BY <2>3, <2>4 DEF OneAtATime, Busy
<1>. QED  BY <1>1, <1>2 DEF Rename

LEMMA CrashAlone ==
  ASSUME MarksInv, OneAtATime, Crash
  PROVE  OneAtATime'
<1>1. /\ op' = [h \in Handler |-> NoOp] /\ UNCHANGED book
      BY DEF Crash
<1>2. ~\E h \in Handler : op[h].at = "opened" /\ op[h].fd = "file"
      BY DEF OneAtATime
<1>3. UNCHANGED file
      BY <1>2 DEF Crash
<1>. QED  BY <1>1, <1>3, NoOpIdle DEF OneAtATime, Busy

LEMMA FindSourceAlone ==
  ASSUME MarksInv, ApplyInv, OneAtATime, NEW p \in Applier, FindSource(p)
  PROVE  OneAtATime'
<1>1. p \in Handler /\ UNCHANGED <<file, tmp, book>>
      BY ProvisioningAssumption DEF FindSource
<1>2. PICK x : x = SourceRequest(DocOf(p))
      OBVIOUS
<1>3. x.at = "checked" /\ x.fd = "none"
      BY <1>2 DEF SourceRequest, Operation
<1>4. op' = [op EXCEPT ![p] = x] \/ UNCHANGED op
      BY <1>2 DEF FindSource
<1>. QED  BY <1>1, <1>3, <1>4, GoesOnWithout, NothingAsideFromTheFiles

LEMMA OneAtATimeStep ==
  ASSUME MarksInv, ApplyInv, OneAtATime, [ProvisionNext]_provisionVars, ~overlapped'
  PROVE  OneAtATime'
<1>1. ASSUME NEW h \in Handler, Request(h) \/ Step(h) PROVE OneAtATime'
      BY <1>1, ChecksWithout, LoadAlone, WritesAlone, RenameAlone DEF Step
<1>2. CASE UNCHANGED <<op, file, tmp, book>>
      BY <1>2, NothingAsideFromTheFiles
<1>3. CASE \E p \in Applier : FindSource(p)
      BY <1>3, FindSourceAlone
<1>4. CASE \E p \in Applier : ApplySource(p)
      BY <1>1, <1>4, ProvisioningAssumption DEF ApplySource, Step
<1>5. CASE \E h \in Handler : RequestStep(h)
      BY <1>1, <1>5 DEF RequestStep
<1>6. CASE Crash
      BY <1>6, CrashAlone
<1>. QED  BY <1>2, <1>3, <1>4, <1>5, <1>6, DocumentsLeaveSources
          DEF ProvisionNext, provisionVars, vars, SetVariable, ServerCrash, ArchiveWorkspace

\* Operations that overlapped once did.
LEMMA OverlapsStay ==
  ASSUME [ProvisionNext]_provisionVars, overlapped
  PROVE  overlapped'
<1>1. ASSUME NEW h, Request(h) \/ Step(h) PROVE overlapped'
      BY <1>1 DEF Request, RegisterRequest, PatchRequest, DeleteRequest, SyncRequest,
         DeployRequest, Begin, Step, CheckRegister, CheckPatch, BeginOperation, Sync, Deploy, Load,
         Open, Write, Rename
<1>2. CASE UNCHANGED overlapped
      BY <1>2
<1>3. CASE \E p \in Applier : ApplySource(p)
      BY <1>1, <1>3 DEF ApplySource, Step
<1>4. CASE \E h \in Handler : RequestStep(h)
      BY <1>1, <1>4 DEF RequestStep
<1>. QED  BY <1>2, <1>3, <1>4, DocumentsLeaveSources
          DEF ProvisionNext, provisionVars, vars, SetVariable, ServerCrash, ArchiveWorkspace,
              FindSource, Crash

\* FileAlwaysWhole: wherever the server stops, the registry's file is whole and holds what
\* the operations that finished make of it one after the other, as long as no two
\* operations overlapped.
THEOREM FileAlwaysWhole == ProvisionSpec => []CrashSafe
<1>1. ProvisionInit => FilesInv
  <2>. SUFFICES ASSUME ProvisionInit PROVE FilesInv
       OBVIOUS
  <2>1. OneAtATime
        BY NoOpIdle DEF ProvisionInit, Init, OneAtATime, Busy
  <2>. QED  BY <2>1, MarksInitially, ApplyInitially DEF FilesInv
<1>2. FilesInv /\ [ProvisionNext]_provisionVars => FilesInv'
      BY MarksInvStep, ApplyInvStep, OneAtATimeStep, OverlapsStay DEF FilesInv
<1>3. FilesInv => CrashSafe
      BY DEF FilesInv, OneAtATime, CrashSafe
<1>. QED  BY <1>1, <1>2, <1>3, PTL DEF ProvisionSpec
----------------------------------------------------------------------------
(* What an application establishes.                                         *)

\* The documents before the n-th are established (S, V, C and T: the sources, the
\* variables, the clients and the settings).
Kept(n, S, V, C, T) ==
  Len(Order) \in Nat /\ n <= Len(Order) =>
    \A m \in 1..Len(Order) : m < n => DocEstablished(Order[m], S, V, C, T)

\* Storing d changes nothing that other documents declare.
WritesOnly(d, S, V, C, T, S1, V1, C1, T1) ==
  /\ \/ V1 = V
     \/ /\ d.kind \in {"GitCredential", "Variable"}
        /\ \A x \in Path : x # d.name => V1[x] = V[x]
        /\ d.value = Redacted => V1[d.name] # NoVariable
  /\ \A c \in Client : C[c] \in Nat /\ C1[c] \in Nat /\ C1[c] >= C[c]
  /\ \/ T1 = T
     \/ d.kind = "InputSettings" /\ \A c \in Client : c # d.name => T1[c] = T[c]
  /\ \/ S1 = S
     \/ /\ d.kind = "AppSource"
        /\ \A i \in Used(S) : S[i].name # d.name => i \in Used(S1) /\ S1[i] = S[i]

\* What other documents established stays so.
LEMMA OthersKept ==
  ASSUME DocumentsFit, DocumentsApart, Len(Order) \in Nat,
         NEW m \in 1..Len(Order), NEW n \in 1..Len(Order), m # n,
         NEW S, NEW V, NEW C, NEW T, NEW S1, NEW V1, NEW C1, NEW T1,
         DocEstablished(Order[m], S, V, C, T),
         WritesOnly(Order[n], S, V, C, T, S1, V1, C1, T1)
  PROVE  DocEstablished(Order[m], S1, V1, C1, T1)
<1>1. PICK d, e : d = Order[m] /\ e = Order[n]
      OBVIOUS
<1>2. /\ d.kind \in {"GitCredential", "Variable"} => d.name \in Path
      /\ d.kind = "Client" => d.name \in Client
      /\ d.kind = "InputSettings" => d.name \in Client
      BY <1>1 DEF DocumentsFit
<1>3. d.name = e.name => /\ ~(d.kind = "AppSource" /\ e.kind = "AppSource")
                         /\ ~(d.kind = "InputSettings" /\ e.kind = "InputSettings")
  <2>1. d.name = e.name /\ d.kind = e.kind => SameThing(d, e)
        BY DEF SameThing
  <2>. QED  BY <1>1, <2>1 DEF DocumentsApart
<1>4. d.name = e.name /\ {d.kind, e.kind} \subseteq {"GitCredential", "Variable"} =>
        d.value = Redacted /\ e.value = Redacted
  <2>1. d.name = e.name /\ {d.kind, e.kind} \subseteq {"GitCredential", "Variable"} =>
          SameThing(d, e)
        BY DEF SameThing
  <2>. QED  BY <1>1, <2>1 DEF DocumentsApart
<1>5. DocEstablished(d, S, V, C, T) /\ WritesOnly(e, S, V, C, T, S1, V1, C1, T1)
      BY <1>1
<1>6. ASSUME d.kind \in {"GitCredential", "Variable"}
      PROVE  V1[d.name] # NoVariable /\ (d.value # Redacted => V1[d.name] = Declared(d))
      BY <1>2, <1>4, <1>5, <1>6 DEF DocEstablished, WritesOnly
<1>7. ASSUME d.kind = "Client" PROVE C1[d.name] >= 1
      BY <1>2, <1>5, <1>7 DEF DocEstablished, WritesOnly
<1>8. ASSUME d.kind = "InputSettings" PROVE T1[d.name] = d.value
      BY <1>2, <1>3, <1>5, <1>8 DEF DocEstablished, WritesOnly
<1>9. ASSUME d.kind = "AppSource"
      PROVE  \E i \in Used(S1) : S1[i].name = d.name /\ S1[i].at = d.at /\ S1[i].branch = d.branch
      BY <1>3, <1>5, <1>9 DEF DocEstablished, WritesOnly
<1>10. DocEstablished(d, S1, V1, C1, T1)
      BY <1>6, <1>7, <1>8, <1>9 DEF DocEstablished
<1>. QED  BY <1>1, <1>10

LEMMA KeptGrows ==
  ASSUME DocumentsFit, DocumentsApart, NEW n \in Nat \ {0},
         NEW S, NEW V, NEW C, NEW T, NEW S1, NEW V1, NEW C1, NEW T1,
         Kept(n, S, V, C, T),
         n \in 1..Len(Order) => /\ WritesOnly(Order[n], S, V, C, T, S1, V1, C1, T1)
                                /\ DocEstablished(Order[n], S1, V1, C1, T1)
  PROVE  /\ Kept(n + 1, S1, V1, C1, T1)
         /\ n = Len(Order) => Established(S1, V1, C1, T1)
<1>1. ASSUME Len(Order) \in Nat, n <= Len(Order), NEW m \in 1..Len(Order), m <= n
      PROVE  DocEstablished(Order[m], S1, V1, C1, T1)
  <2>1. n \in 1..Len(Order)
        BY <1>1
  <2>2. CASE m = n
        BY <2>1, <2>2
  <2>3. CASE m # n
    <3>1. DocEstablished(Order[m], S, V, C, T)
          BY <1>1, <2>3 DEF Kept
    <3>. QED  BY <1>1, <2>1, <2>3, <3>1, OthersKept
  <2>. QED  BY <2>2, <2>3
<1>2. Kept(n + 1, S1, V1, C1, T1)
      BY <1>1 DEF Kept
<1>3. n = Len(Order) => Established(S1, V1, C1, T1)
      BY <1>1 DEF Established
<1>. QED  BY <1>2, <1>3

----------------------------------------------------------------------------
(* The request an application makes for a source.                           *)

LEMMA GreatestId ==
  ASSUME NEW I, I \subseteq 0..MaxId, 0 \in I
  PROVE  Max(I) \in I /\ \A i \in I : Max(I) >= i
<1>1. MaxId \in Nat
      BY ConstantAssumption
<1>2. DEFINE D == {x \in Nat : MaxId - x \in I}
<1>3. PICK d \in D : \A e \in D : <<e, d>> \notin OpToRel(<, Nat)
  <2>1. MaxId \in D
        BY <1>1
  <2>. QED  BY <2>1, NatLessThanWellFounded, WFMin
<1>4. \A e \in D : ~(e < d)
      BY <1>3 DEF OpToRel
<1>5. MaxId - d \in I
      OBVIOUS
<1>6. ASSUME NEW i \in I PROVE MaxId - d >= i
  <2>1. MaxId - i \in D /\ i \in Nat
        BY <1>1
  <2>. QED  BY <1>1, <1>4, <2>1
<1>. QED  BY <1>5, <1>6 DEF Max

\* Once it is applied, the source is as declared, and the sources with other names stay.
LEMMA SourceWritten ==
  ASSUME NEW sources, NEW saved, Good(sources, saved), NEW o, NEW d, NEW new,
         d.name \in Name \ {"none"}, d.at \in Location \ {"none"}, d.branch \in Branch \ {"none"},
         o.kind \in {"register", "patch"}, o.asks = DeclaredSource(d),
         o.kind = "patch" => o.id \in Used(sources) /\ sources[o.id].name = d.name,
         Apply(o, sources).ok, new = Apply(o, sources).sources
  PROVE  /\ \E i \in Used(new) : new[i].name = d.name /\ new[i].at = d.at /\ new[i].branch = d.branch
         /\ \A i \in Used(sources) : sources[i].name # d.name => i \in Used(new) /\ new[i] = sources[i]
<1>1. PICK asks : asks = o.asks
      OBVIOUS
<1>2. asks.name = d.name /\ asks.at = d.at /\ asks.branch = d.branch
      BY <1>1 DEF DeclaredSource
<1>3. \A i \in Used(sources) : i \in Id /\ Shaped(sources[i]) /\ sources[i] # NoSource
      BY DEF Good, Used
<1>4. CASE o.kind = "register"
  <2>1. PICK i : i = NextSourceID(sources)
        OBVIOUS
  <2>2. PICK x : x = [name |-> asks.name, at |-> asks.at, branch |-> asks.branch, mark |-> NoCommit]
        OBVIOUS
  <2>3. Apply(o, sources) = Create(sources, asks)
        BY <1>1, <1>4 DEF Apply
  <2>4. ~(i > MaxId) /\ new = [sources EXCEPT ![i] = x]
        BY <2>1, <2>2, <2>3 DEF Create, Refused, Changed
  <2>5. i \in Id /\ i \notin Used(sources)
    <3>1. Used(sources) \union {0} \subseteq 0..MaxId /\ MaxId \in Nat
          BY ConstantAssumption DEF Used, Id
    <3>2. PICK k : /\ k = Max(Used(sources) \union {0}) /\ k \in Used(sources) \union {0}
                   /\ \A j \in Used(sources) \union {0} : k >= j
          BY <3>1, GreatestId
    <3>3. i = k + 1
          BY <2>1, <3>2 DEF NextSourceID
    <3>4. PICK U : U = Used(sources)
          OBVIOUS
    <3>5. k \in 0..MaxId /\ \A j \in U : k >= j
          BY <3>1, <3>2, <3>4
    <3>6. i \in 1..MaxId
          BY <2>4, <3>1, <3>3, <3>5
    <3>7. i \notin U
          BY <3>1, <3>3, <3>5
    <3>. QED  BY <3>4, <3>6, <3>7 DEF Id
  <2>6. x \in Source /\ x # NoSource
        BY <1>2, <2>2, ConstantAssumption DEF Source, Mark
  <2>7. new[i] = x /\ \A j \in Id \ {i} : new[j] = sources[j]
        BY <2>4, <2>5 DEF Good
  <2>8. i \in Used(new) /\ x.name = d.name /\ x.at = d.at /\ x.branch = d.branch
        BY <1>2, <2>2, <2>5, <2>6, <2>7 DEF Used
  <2>. QED  BY <1>3, <2>5, <2>7, <2>8 DEF Used
<1>5. CASE o.kind = "patch"
  <2>1. PICK i, s : i = o.id /\ s = sources[i]
        OBVIOUS
  <2>2. i \in Used(sources) /\ i \in Id /\ Shaped(s) /\ s # NoSource /\ s.name = d.name
        BY <1>3, <1>5, <2>1
  <2>3. PICK x : x = Patched(s, asks)
        OBVIOUS
  <2>4. Apply(o, sources) = Patch(sources, i, asks)
        BY <1>1, <1>5, <2>1 DEF Apply
  <2>5. new = [sources EXCEPT ![i] = x]
        BY <2>1, <2>3, <2>4 DEF Patch, Refused, Changed
  <2>6. /\ x.name = d.name /\ x.at = d.at /\ x.branch = d.branch
        /\ x = [name |-> d.name, at |-> d.at, branch |-> d.branch, mark |-> x.mark]
        /\ d.at # s.at \/ d.branch # s.branch => x.mark = NoCommit
        /\ ~(d.at # s.at \/ d.branch # s.branch) => x.mark = s.mark
        BY <1>2, <2>3 DEF Patched
  <2>7. x # NoSource
    <3>1. CASE d.at # s.at \/ d.branch # s.branch
          BY <2>6, <3>1, ConstantAssumption DEF Source, Mark
    <3>2. CASE ~(d.at # s.at \/ d.branch # s.branch)
      <4>1. x = s
            BY <2>2, <2>6, <3>2 DEF Shaped
      <4>. QED  BY <2>2, <4>1
    <3>. QED  BY <3>1, <3>2
  <2>8. new[i] = x /\ \A j \in Id \ {i} : new[j] = sources[j]
        BY <2>2, <2>5 DEF Good
  <2>. QED  BY <1>3, <2>1, <2>2, <2>6, <2>7, <2>8 DEF Used
<1>. QED  BY <1>4, <1>5
----------------------------------------------------------------------------
(* Where an application that nothing disturbed is.                          *)

LEMMA AdvancesTo ==
  ASSUME ApplyInv, NEW p \in Applier, Advance(p)
  PROVE  \E x : /\ Moves(p, x)
                /\ \/ x.at = "done" /\ ~x.alone /\ apply[p].n = Len(Order)
                   \/ x.at = "next" /\ x.n = apply[p].n + 1 /\ x.alone = apply[p].alone
<1>1. PICK a : a = apply[p] /\ ApplyShaped(a)
      BY DEF ApplyInv
<1>2. CASE a.n = Len(Order)
  <2>1. PICK x : x = [NotApplying EXCEPT !.at = "done"]
        OBVIOUS
  <2>2. ApplyShaped(x) /\ x.at = "done" /\ ~x.alone
        BY <2>1 DEF ApplyShaped, NotApplying
  <2>. QED  BY <1>1, <1>2, <2>1, <2>2 DEF Advance, Moves
<1>3. CASE a.n # Len(Order)
  <2>1. PICK x : x = [a EXCEPT !.at = "next", !.n = a.n + 1, !.found = NoVariable]
        OBVIOUS
  <2>2. ApplyShaped(x) /\ x.at = "next" /\ x.n = a.n + 1 /\ x.alone = a.alone
        BY <1>1, <2>1 DEF ApplyShaped
  <2>3. apply' = [apply EXCEPT ![p] = x]
    <3>1. apply' = [apply EXCEPT ![p].at = "next", ![p].n = a.n + 1, ![p].found = NoVariable]
          BY <1>1, <1>3 DEF Advance, ApplyInv, ApplyShaped
    <3>. QED  BY <1>1, <2>1, <3>1 DEF ApplyInv
  <2>. QED  BY <1>1, <2>2, <2>3 DEF Moves
<1>. QED  BY <1>2, <1>3

LEMMA FailsTo ==
  ASSUME NEW p \in Applier, Fail(p)
  PROVE  \E x : Moves(p, x) /\ x.at = "idle" /\ ~x.alone
<1>1. ApplyShaped(NotApplying) /\ NotApplying.at = "idle" /\ ~NotApplying.alone
      BY DEF NotApplying, ApplyShaped
<1>. QED  BY <1>1 DEF Fail, Moves

LEMMA FindsTo ==
  ASSUME ApplyInv, NEW p \in Applier, NEW v, Found(p, v)
  PROVE  \E x : /\ Moves(p, x)
                /\ x.at = "found" /\ x.n = apply[p].n /\ x.alone = apply[p].alone /\ x.found = v
<1>1. PICK a : a = apply[p] /\ ApplyShaped(a)
      BY DEF ApplyInv
<1>2. PICK x : x = [a EXCEPT !.at = "found", !.found = v]
      OBVIOUS
<1>3. ApplyShaped(x) /\ x.at = "found" /\ x.n = a.n /\ x.alone = a.alone /\ x.found = v
      BY <1>1, <1>2 DEF ApplyShaped
<1>4. apply' = [apply EXCEPT ![p] = x]
      BY <1>1, <1>2 DEF Found, ApplyInv
<1>. QED  BY <1>1, <1>3, <1>4 DEF Moves

LEMMA MovedApply ==
  ASSUME ApplyInv, NEW p \in Applier, NEW x, Moves(p, x)
  PROVE  apply'[p] = x /\ \A q \in Applier \ {p} : apply'[q] = apply[q]
BY DEF Moves, ApplyInv

VariableShaped(v) ==
  v = [value |-> v.value, secret |-> v.secret, sealed |-> v.sealed] /\ v.secret \in BOOLEAN

\* What is stored, and what was found to be stored again.
FoundShaped(a) ==
  a.at = "found" /\ Order[a.n].kind = "Variable" /\ Order[a.n].name \in Path => VariableShaped(a.found)
StoresShaped ==
  /\ variable = [x \in Path |-> variable[x]] /\ \A x \in Path : VariableShaped(variable[x])
  /\ clients \in [Client -> Nat]
  /\ settings = [c \in Client |-> settings[c]]
  /\ \A p \in Applier : FoundShaped(apply[p])

LEMMA DeclaredShaped ==
  ASSUME NEW d
  PROVE  VariableShaped(Declared(d)) /\ Declared(d).value = d.value
BY DEF VariableShaped, Declared

\* A variable that is there and is stored again stays there.
LEMMA KeptShaped ==
  ASSUME NEW v, NEW b, VariableShaped(v), NEW x, x = [v EXCEPT !.secret = @ \/ b]
  PROVE  VariableShaped(x) /\ (v # NoVariable => x # NoVariable)
<1>1. PICK s \in BOOLEAN : s <=> (v.secret \/ b)
      OBVIOUS
<1>2. s = (v.secret \/ b)
      BY <1>1
<1>3. x = [value |-> v.value, secret |-> s, sealed |-> v.sealed]
      BY <1>2 DEF VariableShaped
<1>4. VariableShaped(x)
      BY <1>3 DEF VariableShaped
<1>5. ASSUME x = NoVariable PROVE v = NoVariable
  <2>1. v.value = NoValue /\ s = FALSE /\ v.sealed = FALSE
        BY <1>3, <1>5 DEF NoVariable
  <2>2. ~v.secret
        BY <1>1, <2>1
  <2>3. v.secret = FALSE
        BY <2>2 DEF VariableShaped
  <2>. QED  BY <2>1, <2>3 DEF VariableShaped, NoVariable
<1>. QED  BY <1>4, <1>5

LEMMA StoresInitially == ProvisionInit => StoresShaped
<1>. SUFFICES ASSUME ProvisionInit PROVE StoresShaped
     OBVIOUS
<1>1. \A x \in Path : VariableShaped(variable[x])
      BY ProvisioningAssumption DEF ProvisionInit, VariableShaped
<1>2. \A p \in Applier : FoundShaped(apply[p])
      BY DEF ProvisionInit, FoundShaped, NotApplying
<1>. QED  BY <1>1, <1>2, ProvisioningAssumption DEF StoresShaped, ProvisionInit

\* Nothing is found, or what was found before.
LEMMA StoresStay ==
  ASSUME StoresShaped, UNCHANGED stores,
         \A p \in Applier : apply'[p].at = "found" =>
           apply'[p].found = apply[p].found /\ apply'[p].n = apply[p].n /\ apply[p].at = "found"
  PROVE  StoresShaped'
BY DEF StoresShaped, FoundShaped, stores
\* The request an application made for the source d, and how far it is.
AsksFor(o, d, sources, temporary) ==
  /\ o.kind \in {"register", "patch"} /\ o.asks = DeclaredSource(d)
  /\ o.kind = "patch" => o.id \in Used(sources) /\ sources[o.id].name = d.name
  /\ o.at \in {"checked", "loaded", "opened", "written"}
  /\ o.at \in {"loaded", "opened", "written"} =>
       Apply(o, sources).ok /\ o.next = Apply(o, sources).sources
  /\ o.at = "opened"  => o.fd = "tmp" /\ temporary = Not("empty")
  /\ o.at = "written" => temporary = Whole(o.next)

FoundKnows(a, o, sources, temporary) ==
  LET d == Order[a.n] IN a.at = "found" =>
    /\ d.kind \in {"Variable", "Client", "AppSource"}
    /\ d.kind = "Variable" => d.value = Redacted /\ a.found # NoVariable
    /\ d.kind = "AppSource" => AsksFor(o, d, sources, temporary)

\* Nobody is beside it, and the documents before the one it is at are established.
AloneKnows(p) ==
  /\ apply[p].at \in {"next", "found"} /\ apply[p].n \in Nat \ {0}
  /\ \A q \in Applier \ {p} : Resting(q)
  /\ \A h \in Handler \ {p} : op[h] = NoOp
  /\ Kept(apply[p].n, file.sources, variable, clients, settings)
  /\ FoundKnows(apply[p], op[p], file.sources, tmp)

AloneInv ==
  /\ MarksInv /\ ApplyInv /\ StoresShaped
  /\ \A p \in Applier : apply[p].alone => AloneKnows(p)

\* What an application that was alone comes to.
AloneGoes(p) == apply[p].alone =>
  /\ apply'[p].alone => AloneKnows(p)'
  /\ apply'[p].at = "done" => Established(file.sources, variable, clients, settings)'

LEMMA AdvanceGoes ==
  ASSUME DocumentsFit, DocumentsApart, AloneInv, NEW p \in Applier, Advance(p),
         \A h \in Handler : op[h] = NoOp => op'[h] = NoOp, op'[p] = NoOp,
         apply[p].alone /\ apply[p].n \in 1..Len(Order) =>
           /\ WritesOnly(Order[apply[p].n], file.sources, variable, clients, settings,
                         file'.sources, variable', clients', settings')
           /\ DocEstablished(Order[apply[p].n], file'.sources, variable', clients', settings')
  PROVE  AloneGoes(p)
<1>. SUFFICES ASSUME apply[p].alone PROVE AloneGoes(p)
     BY DEF AloneGoes
<1>1. ApplyInv /\ AloneKnows(p)
      BY DEF AloneInv
<1>2. PICK x : /\ Moves(p, x)
               /\ \/ x.at = "done" /\ ~x.alone /\ apply[p].n = Len(Order)
                  \/ x.at = "next" /\ x.n = apply[p].n + 1 /\ x.alone = apply[p].alone
      BY <1>1, AdvancesTo
<1>3. apply'[p] = x /\ \A q \in Applier \ {p} : apply'[q] = apply[q]
      BY <1>1, <1>2, MovedApply
<1>4. PICK n \in Nat \ {0} : n = apply[p].n
      BY <1>1 DEF AloneKnows
<1>5. /\ Kept(n + 1, file'.sources, variable', clients', settings')
      /\ n = Len(Order) => Established(file'.sources, variable', clients', settings')
      BY <1>1, <1>4, KeptGrows DEF AloneKnows
<1>6. x.alone => AloneKnows(p)'
  <2>. SUFFICES ASSUME x.alone PROVE AloneKnows(p)'
       OBVIOUS
  <2>1. x.at = "next" /\ x.n = n + 1 /\ n + 1 \in Nat \ {0}
        BY <1>2, <1>4
  <2>2. \A q \in Applier \ {p} : Resting(q)'
        BY <1>1, <1>3 DEF AloneKnows, Resting
  <2>3. \A h \in Handler \ {p} : op'[h] = NoOp
        BY <1>1 DEF AloneKnows
  <2>4. FoundKnows(apply[p], op[p], file.sources, tmp)'
        BY <1>3, <2>1 DEF FoundKnows
  <2>. QED  BY <1>3, <1>5, <2>1, <2>2, <2>3, <2>4 DEF AloneKnows
<1>7. x.at = "done" => n = Len(Order)
      BY <1>2, <1>4
<1>. QED  BY <1>3, <1>5, <1>6, <1>7 DEF AloneGoes

LEMMA FailGoes ==
  ASSUME ApplyInv, NEW p \in Applier, Fail(p)
  PROVE  AloneGoes(p) /\ apply'[p].at # "found" /\ \A q \in Applier \ {p} : apply'[q] = apply[q]
<1>1. PICK x : Moves(p, x) /\ x.at = "idle" /\ ~x.alone
      BY FailsTo
<1>. QED  BY <1>1, MovedApply DEF AloneGoes

LEMMA FindGoes ==
  ASSUME AloneInv, NEW p \in Applier, NEW v, Found(p, v), UNCHANGED <<file, stores>>,
         \A h \in Handler \ {p} : op'[h] = op[h],
         \A a : apply[p].alone /\ a.n = apply[p].n /\ a.found = v =>
           FoundKnows(a, op'[p], file.sources, tmp')
  PROVE  AloneGoes(p)
<1>. SUFFICES ASSUME apply[p].alone PROVE AloneGoes(p)
     BY DEF AloneGoes
<1>1. ApplyInv /\ AloneKnows(p)
      BY DEF AloneInv
<1>2. PICK x : /\ Moves(p, x)
               /\ x.at = "found" /\ x.n = apply[p].n /\ x.alone = apply[p].alone /\ x.found = v
      BY <1>1, FindsTo
<1>3. apply'[p] = x /\ \A q \in Applier \ {p} : apply'[q] = apply[q]
      BY <1>1, <1>2, MovedApply
<1>4. FoundKnows(apply[p], op[p], file.sources, tmp)'
      BY <1>2, <1>3
<1>5. \A q \in Applier \ {p} : Resting(q)'
      BY <1>1, <1>3 DEF AloneKnows, Resting
<1>6. AloneKnows(p)'
      BY <1>1, <1>2, <1>3, <1>4, <1>5 DEF AloneKnows, stores
<1>. QED  BY <1>2, <1>3, <1>6 DEF AloneGoes
----------------------------------------------------------------------------
(* The documents, one by one.                                               *)

StoresTyped ==
  /\ variable' = [x \in Path |-> variable'[x]] /\ \A x \in Path : VariableShaped(variable'[x])
  /\ clients' \in [Client -> Nat]
  /\ settings' = [c \in Client |-> settings'[c]]

LEMMA StoresGoOn ==
  ASSUME StoresShaped, StoresTyped, NEW p \in Applier,
         \A q \in Applier \ {p} : apply'[q] = apply[q],
         FoundShaped(apply'[p])
  PROVE  StoresShaped'
BY DEF StoresShaped, StoresTyped, FoundShaped

LEMMA AdvanceShaped ==
  ASSUME ApplyInv, StoresShaped, StoresTyped, NEW p \in Applier, Advance(p) \/ Fail(p)
  PROVE  StoresShaped'
<1>1. PICK x : Moves(p, x) /\ x.at # "found"
      BY AdvancesTo, FailsTo
<1>. QED  BY <1>1, MovedApply, StoresGoOn DEF FoundShaped

LEMMA NothingWritten ==
  ASSUME StoresShaped, UNCHANGED <<file, stores>>, NEW d
  PROVE  /\ StoresTyped
         /\ WritesOnly(d, file.sources, variable, clients, settings,
                       file'.sources, variable', clients', settings')
BY DEF StoresShaped, StoresTyped, WritesOnly, stores

LEMMA StoreValueGoes ==
  ASSUME DocumentsFit, DocumentsApart, AloneInv, NEW p \in Applier, StoreValue(p)
  PROVE  StoresShaped' /\ AloneGoes(p)
<1>1. ApplyInv /\ StoresShaped /\ op[p] = NoOp /\ UNCHANGED <<op, file, tmp, clients, settings>>
      BY DocumentMoves DEF AloneInv, StoreValue, vars
<1>2. CASE Fail(p) /\ UNCHANGED variable
      BY <1>1, <1>2, FailGoes, AdvanceShaped, NothingWritten DEF stores
<1>3. CASE ~(Fail(p) /\ UNCHANGED variable)
  <2>1. PICK d, v : d = DocOf(p) /\ v = Declared(d)
        OBVIOUS
  <2>2. /\ Advance(p) /\ variable' = [variable EXCEPT ![d.name] = v]
        /\ d.kind \in {"GitCredential", "Variable"} /\ d.value # Redacted
        BY <1>3, <2>1 DEF StoreValue, Current, DocOf
  <2>3. VariableShaped(v) /\ v.value = d.value
        BY <2>1, DeclaredShaped
  <2>4. StoresTyped /\ \A x \in Path : variable'[x] = IF x = d.name THEN v ELSE variable[x]
        BY <1>1, <2>2, <2>3 DEF StoresTyped, StoresShaped
  <2>5. ASSUME apply[p].n \in 1..Len(Order)
        PROVE  /\ WritesOnly(d, file.sources, variable, clients, settings,
                             file'.sources, variable', clients', settings')
               /\ DocEstablished(d, file'.sources, variable', clients', settings')
    <3>1. d.name \in Path /\ d.value \in Value
          BY <2>1, <2>2, <2>5 DEF DocOf, DocumentsFit, Doc
    <3>2. v # NoVariable
          BY <2>3, <3>1, ProvisioningAssumption DEF NoVariable
    <3>3. WritesOnly(d, file.sources, variable, clients, settings,
                     file'.sources, variable', clients', settings')
          BY <1>1, <2>2, <2>4 DEF WritesOnly, StoresShaped
    <3>. QED  BY <2>1, <2>2, <2>4, <3>1, <3>2, <3>3 DEF DocEstablished
  <2>6. StoresShaped'
        BY <1>1, <2>2, <2>4, AdvanceShaped
  <2>. QED  BY <1>1, <2>1, <2>2, <2>5, <2>6, AdvanceGoes DEF DocOf
<1>. QED  BY <1>2, <1>3

LEMMA KeepCredentialGoes ==
  ASSUME DocumentsFit, DocumentsApart, AloneInv, NEW p \in Applier, KeepCredential(p)
  PROVE  StoresShaped' /\ AloneGoes(p)
<1>1. ApplyInv /\ StoresShaped /\ op[p] = NoOp /\ UNCHANGED <<op, file, tmp, stores>>
      BY DocumentMoves DEF AloneInv, KeepCredential, vars
<1>2. PICK d : d = DocOf(p) /\ d.kind = "GitCredential" /\ d.value = Redacted
      BY DEF KeepCredential, Current, DocOf
<1>3. /\ StoresTyped
      /\ WritesOnly(d, file.sources, variable, clients, settings,
                    file'.sources, variable', clients', settings')
      BY <1>1, NothingWritten
<1>4. CASE Fail(p)
      BY <1>1, <1>3, <1>4, FailGoes, AdvanceShaped
<1>5. CASE ~Fail(p)
  <2>1. Advance(p) /\ variable[d.name] # NoVariable
        BY <1>2, <1>5 DEF KeepCredential
  <2>2. DocEstablished(d, file'.sources, variable', clients', settings')
        BY <1>1, <1>2, <2>1 DEF DocEstablished, stores
  <2>3. StoresShaped'
        BY <1>1, <1>3, <2>1, AdvanceShaped
  <2>. QED  BY <1>1, <1>2, <1>3, <2>1, <2>2, <2>3, AdvanceGoes DEF DocOf
<1>. QED  BY <1>4, <1>5

LEMMA FindVariableGoes ==
  ASSUME DocumentsFit, DocumentsApart, AloneInv, NEW p \in Applier, FindVariable(p)
  PROVE  StoresShaped' /\ AloneGoes(p)
<1>1. ApplyInv /\ StoresShaped /\ op[p] = NoOp /\ UNCHANGED <<op, file, tmp, stores>>
      BY DocumentMoves DEF AloneInv, FindVariable, vars
<1>2. PICK d : d = DocOf(p) /\ d.kind = "Variable" /\ d.value = Redacted
      BY DEF FindVariable, Current, DocOf
<1>3. StoresTyped
      BY <1>1, NothingWritten
<1>4. CASE Fail(p)
      BY <1>1, <1>3, <1>4, FailGoes, AdvanceShaped
<1>5. CASE ~Fail(p)
  <2>1. PICK v : v = variable[d.name] /\ v # NoVariable /\ Found(p, v)
        BY <1>2, <1>5 DEF FindVariable
  <2>2. \A a : a.n = apply[p].n /\ a.found = v => FoundKnows(a, op'[p], file.sources, tmp')
        BY <1>2, <2>1 DEF FoundKnows, DocOf
  <2>3. AloneGoes(p)
        BY <1>1, <2>1, <2>2, FindGoes
  <2>4. PICK x : Moves(p, x) /\ x.n = apply[p].n /\ x.found = v
        BY <1>1, <2>1, FindsTo
  <2>5. FoundShaped(x)
        BY <1>1, <1>2, <2>1, <2>4 DEF FoundShaped, StoresShaped, DocOf
  <2>6. StoresShaped'
        BY <1>1, <1>3, <2>4, <2>5, MovedApply, StoresGoOn
  <2>. QED  BY <2>3, <2>6
<1>. QED  BY <1>4, <1>5

LEMMA KeepVariableGoes ==
  ASSUME DocumentsFit, DocumentsApart, AloneInv, NEW p \in Applier, KeepVariable(p)
  PROVE  StoresShaped' /\ AloneGoes(p)
<1>1. ApplyInv /\ StoresShaped /\ op[p] = NoOp /\ UNCHANGED <<op, file, tmp, clients, settings>>
      BY DocumentMoves DEF AloneInv, KeepVariable, vars
<1>2. PICK d, a : d = DocOf(p) /\ a = apply[p] /\ a.at = "found" /\ d.kind = "Variable"
      BY DEF KeepVariable
<1>3. PICK v : v = [a.found EXCEPT !.secret = @ \/ d.secret]
      OBVIOUS
<1>4. Advance(p) /\ variable' = [variable EXCEPT ![d.name] = v]
      BY <1>2, <1>3 DEF KeepVariable
<1>5. d.name \in Path => VariableShaped(v) /\ (a.found # NoVariable => v # NoVariable)
      BY <1>1, <1>2, <1>3, KeptShaped DEF StoresShaped, FoundShaped, DocOf
<1>6. StoresTyped /\ \A x \in Path : variable'[x] = IF x = d.name THEN v ELSE variable[x]
      BY <1>1, <1>4, <1>5 DEF StoresTyped, StoresShaped
<1>7. ASSUME a.n \in 1..Len(Order), a.alone
      PROVE  /\ WritesOnly(d, file.sources, variable, clients, settings,
                           file'.sources, variable', clients', settings')
             /\ DocEstablished(d, file'.sources, variable', clients', settings')
  <2>1. d.name \in Path
        BY <1>2, <1>7 DEF DocOf, DocumentsFit
  <2>2. FoundKnows(a, op[p], file.sources, tmp)
        BY <1>2, <1>7 DEF AloneInv, AloneKnows
  <2>3. d.value = Redacted /\ a.found # NoVariable
        BY <1>2, <2>2 DEF FoundKnows, DocOf
  <2>4. variable'[d.name] # NoVariable
        BY <1>5, <1>6, <2>1, <2>3
  <2>5. WritesOnly(d, file.sources, variable, clients, settings,
                   file'.sources, variable', clients', settings')
        BY <1>1, <1>2, <1>6, <2>4 DEF WritesOnly, StoresShaped
  <2>. QED  BY <1>2, <2>3, <2>4, <2>5 DEF DocEstablished
<1>8. StoresShaped'
      BY <1>1, <1>4, <1>6, AdvanceShaped
<1>. QED  BY <1>1, <1>2, <1>4, <1>7, <1>8, AdvanceGoes DEF DocOf
LEMMA FindClientGoes ==
  ASSUME DocumentsFit, DocumentsApart, AloneInv, NEW p \in Applier, FindClient(p)
  PROVE  StoresShaped' /\ AloneGoes(p)
<1>1. ApplyInv /\ StoresShaped /\ op[p] = NoOp /\ UNCHANGED <<op, file, tmp, stores>>
      BY DocumentMoves DEF AloneInv, FindClient, vars
<1>2. PICK d : d = DocOf(p) /\ d.kind = "Client"
      BY DEF FindClient, Current, DocOf
<1>3. /\ StoresTyped
      /\ WritesOnly(d, file.sources, variable, clients, settings,
                    file'.sources, variable', clients', settings')
      BY <1>1, NothingWritten
<1>4. CASE clients[d.name] > 0
  <2>1. Advance(p)
        BY <1>2, <1>4 DEF FindClient
  <2>2. apply[p].n \in 1..Len(Order) =>
          DocEstablished(d, file'.sources, variable', clients', settings')
    <3>1. apply[p].n \in 1..Len(Order) => d.name \in Client
          BY <1>2 DEF DocOf, DocumentsFit
    <3>2. d.name \in Client => clients'[d.name] >= 1
          BY <1>1, <1>4 DEF StoresShaped, stores
    <3>. QED  BY <1>2, <3>1, <3>2 DEF DocEstablished
  <2>3. StoresShaped'
        BY <1>1, <1>3, <2>1, AdvanceShaped
  <2>. QED  BY <1>1, <1>2, <1>3, <2>1, <2>2, <2>3, AdvanceGoes DEF DocOf
<1>5. CASE ~(clients[d.name] > 0)
  <2>1. Found(p, NoVariable)
        BY <1>2, <1>5 DEF FindClient
  <2>2. \A a : a.n = apply[p].n => FoundKnows(a, op'[p], file.sources, tmp')
        BY <1>2 DEF FoundKnows, DocOf
  <2>3. AloneGoes(p)
        BY <1>1, <2>1, <2>2, FindGoes
  <2>4. PICK x : Moves(p, x) /\ x.n = apply[p].n
        BY <1>1, <2>1, FindsTo
  <2>5. FoundShaped(x)
        BY <1>2, <2>4 DEF FoundShaped, DocOf
  <2>6. StoresShaped'
        BY <1>1, <1>3, <2>4, <2>5, MovedApply, StoresGoOn
  <2>. QED  BY <2>3, <2>6
<1>. QED  BY <1>4, <1>5

LEMMA CreateClientGoes ==
  ASSUME DocumentsFit, DocumentsApart, AloneInv, NEW p \in Applier, CreateClient(p)
  PROVE  StoresShaped' /\ AloneGoes(p)
<1>1. ApplyInv /\ StoresShaped /\ op[p] = NoOp /\ UNCHANGED <<op, file, tmp, variable, settings>>
      BY DocumentMoves DEF AloneInv, CreateClient, vars
<1>2. PICK d : d = DocOf(p) /\ d.kind = "Client" /\ Advance(p)
      BY DEF CreateClient
<1>3. /\ clients' \in [Client -> Nat]
      /\ \A c \in Client : clients'[c] = IF c = d.name THEN clients[c] + 1 ELSE clients[c]
      BY <1>1, <1>2, CreateClientCounts DEF StoresShaped
<1>4. StoresTyped
      BY <1>1, <1>3 DEF StoresTyped, StoresShaped
<1>5. WritesOnly(d, file.sources, variable, clients, settings,
                 file'.sources, variable', clients', settings')
  <2>1. \A c \in Client : clients[c] \in Nat /\ clients'[c] \in Nat /\ clients'[c] >= clients[c]
        BY <1>1, <1>3 DEF StoresShaped
  <2>. QED  BY <1>1, <2>1 DEF WritesOnly
<1>6. apply[p].n \in 1..Len(Order) =>
        DocEstablished(d, file'.sources, variable', clients', settings')
  <2>1. apply[p].n \in 1..Len(Order) => d.name \in Client
        BY <1>2 DEF DocOf, DocumentsFit
  <2>2. d.name \in Client => clients'[d.name] >= 1
        BY <1>1, <1>3 DEF StoresShaped
  <2>. QED  BY <1>2, <2>1, <2>2 DEF DocEstablished
<1>7. StoresShaped'
      BY <1>1, <1>2, <1>4, AdvanceShaped
<1>. QED  BY <1>1, <1>2, <1>5, <1>6, <1>7, AdvanceGoes DEF DocOf

LEMMA StoreSettingsGoes ==
  ASSUME DocumentsFit, DocumentsApart, AloneInv, NEW p \in Applier, StoreSettings(p)
  PROVE  StoresShaped' /\ AloneGoes(p)
<1>1. ApplyInv /\ StoresShaped /\ op[p] = NoOp /\ UNCHANGED <<op, file, tmp, variable, clients>>
      BY DocumentMoves DEF AloneInv, StoreSettings, vars
<1>2. CASE Fail(p) /\ UNCHANGED settings
      BY <1>1, <1>2, FailGoes, AdvanceShaped, NothingWritten DEF stores
<1>3. CASE ~(Fail(p) /\ UNCHANGED settings)
  <2>1. PICK d : d = DocOf(p) /\ d.kind = "InputSettings"
        BY DEF StoreSettings, Current, DocOf
  <2>2. Advance(p) /\ settings' = [settings EXCEPT ![d.name] = d.value]
        BY <1>3, <2>1 DEF StoreSettings
  <2>3. /\ StoresTyped
        /\ \A c \in Client : settings'[c] = IF c = d.name THEN d.value ELSE settings[c]
        BY <1>1, <2>2 DEF StoresTyped, StoresShaped
  <2>4. WritesOnly(d, file.sources, variable, clients, settings,
                   file'.sources, variable', clients', settings')
        BY <1>1, <2>1, <2>3 DEF WritesOnly, StoresShaped
  <2>5. apply[p].n \in 1..Len(Order) => d.name \in Client
        BY <2>1 DEF DocOf, DocumentsFit
  <2>6. apply[p].n \in 1..Len(Order) =>
          DocEstablished(d, file'.sources, variable', clients', settings')
        BY <2>1, <2>3, <2>5 DEF DocEstablished
  <2>7. StoresShaped'
        BY <1>1, <2>2, <2>3, AdvanceShaped
  <2>. QED  BY <1>1, <2>1, <2>2, <2>4, <2>6, <2>7, AdvanceGoes DEF DocOf
<1>. QED  BY <1>2, <1>3
LEMMA FindSourceGoes ==
  ASSUME AloneInv, NEW p \in Applier, FindSource(p)
  PROVE  StoresShaped' /\ AloneGoes(p)
<1>1. /\ MarksInv /\ ApplyInv /\ StoresShaped /\ op[p] = NoOp
      /\ UNCHANGED <<file, tmp, stores>> /\ p \in Handler
      BY FindSourceMoves, ProvisioningAssumption DEF AloneInv, FindSource
<1>2. PICK d : d = DocOf(p) /\ d.kind = "AppSource"
      BY DEF FindSource, Current, DocOf
<1>3. StoresTyped
      BY <1>1, NothingWritten
<1>4. CASE Fail(p)
      BY <1>1, <1>3, <1>4, FailGoes, AdvanceShaped
<1>5. CASE ~Fail(p)
  <2>1. op' = [op EXCEPT ![p] = SourceRequest(d)] /\ Found(p, NoVariable)
        BY <1>2, <1>5 DEF FindSource
  <2>2. op'[p] = SourceRequest(d) /\ \A h \in Handler \ {p} : op'[h] = op[h]
        BY <1>1, <2>1 DEF MarksInv
  <2>3. AsksFor(op'[p], d, file.sources, tmp')
    <3>1. CASE Named(d) = {}
          BY <2>2, <3>1 DEF SourceRequest, Operation, AsksFor
    <3>2. CASE Named(d) # {}
      <4>1. PICK i \in Named(d) : i = CHOOSE j \in Named(d) : TRUE
            BY <3>2
      <4>2. i \in Used(file.sources) /\ file.sources[i].name = d.name
            BY DEF Named
      <4>3. op'[p] = Operation("patch", "checked", i, DeclaredSource(d))
            BY <2>2, <3>2, <4>1 DEF SourceRequest
      <4>. QED  BY <4>2, <4>3 DEF Operation, AsksFor
    <3>. QED  BY <3>1, <3>2
  <2>4. \A a : a.n = apply[p].n => FoundKnows(a, op'[p], file.sources, tmp')
        BY <1>2, <2>3 DEF FoundKnows, DocOf
  <2>5. AloneGoes(p)
        BY <1>1, <2>1, <2>2, <2>4, FindGoes
  <2>6. PICK x : Moves(p, x) /\ x.n = apply[p].n
        BY <1>1, <2>1, FindsTo
  <2>7. FoundShaped(x)
        BY <1>2, <2>6 DEF FoundShaped, DocOf
  <2>8. StoresShaped'
        BY <1>1, <1>3, <2>6, <2>7, MovedApply, StoresGoOn
  <2>. QED  BY <2>5, <2>8
<1>. QED  BY <1>4, <1>5

\* As long as its request is not answered, the file is as it was found.
LEMMA RequestGoesOn ==
  ASSUME MarksInv, NEW p \in Handler, NEW d, AsksFor(op[p], d, file.sources, tmp),
         Load(p) \/ Open(p) \/ Write(p) \/ Rename(p), op'[p] # NoOp
  PROVE  UNCHANGED file /\ AsksFor(op'[p], d, file.sources, tmp')
<1>1. PICK o : o = op[p] /\ OpShaped(o) /\ AsksFor(o, d, file.sources, tmp)
      BY SoundHere
<1>2. ASSUME NEW x, x.kind = o.kind, x.id = o.id, x.asks = o.asks, x.seen = o.seen
      PROVE  Apply(x, file.sources) = Apply(o, file.sources)
      BY <1>2, ApplySame
<1>3. CASE Load(p)
  <2>1. PICK x : x = [o EXCEPT !.at = "loaded", !.next = Apply(o, file.sources).sources]
        OBVIOUS
  <2>2. ~Return(p)
        BY DEF Return, MarksInv
  <2>3. op' = [op EXCEPT ![p] = x] /\ Apply(o, file.sources).ok /\ UNCHANGED <<file, tmp>>
        BY <1>1, <1>3, <2>1, <2>2 DEF Load, MarksInv
  <2>4. /\ x.at = "loaded" /\ x.kind = o.kind /\ x.id = o.id /\ x.asks = o.asks /\ x.seen = o.seen
        /\ x.next = Apply(o, file.sources).sources
        BY <1>1, <2>1 DEF OpShaped
  <2>5. op'[p] = x
        BY <2>3 DEF MarksInv
  <2>. QED  BY <1>1, <1>2, <2>3, <2>4, <2>5 DEF AsksFor
<1>4. CASE Open(p)
  <2>1. PICK x : x = [o EXCEPT !.at = "opened", !.fd = "tmp"]
        OBVIOUS
  <2>2. op' = [op EXCEPT ![p] = x] /\ UNCHANGED file /\ tmp' = Not("empty")
        BY <1>1, <1>4, <2>1 DEF Open, MarksInv
  <2>3. /\ x.at = "opened" /\ x.kind = o.kind /\ x.id = o.id /\ x.asks = o.asks /\ x.seen = o.seen
        /\ x.next = o.next /\ x.fd = "tmp"
        BY <1>1, <2>1 DEF OpShaped
  <2>4. op'[p] = x
        BY <2>2 DEF MarksInv
  <2>5. o.at = "loaded"
        BY <1>1, <1>4 DEF Open
  <2>. QED  BY <1>1, <1>2, <2>2, <2>3, <2>4, <2>5 DEF AsksFor
<1>5. CASE Write(p)
  <2>1. PICK x : x = [o EXCEPT !.at = "written", !.fd = "none"]
        OBVIOUS
  <2>2. o.at = "opened" /\ o.fd = "tmp" /\ tmp = Not("empty")
        BY <1>1, <1>5 DEF Write, AsksFor
  <2>3. op' = [op EXCEPT ![p] = x] /\ UNCHANGED file /\ tmp' = Whole(o.next)
        BY <1>1, <1>5, <2>1, <2>2 DEF Write, Over, Not, MarksInv
  <2>4. /\ x.at = "written" /\ x.kind = o.kind /\ x.id = o.id /\ x.asks = o.asks /\ x.seen = o.seen
        /\ x.next = o.next
        BY <1>1, <2>1 DEF OpShaped
  <2>5. op'[p] = x
        BY <2>3 DEF MarksInv
  <2>. QED  BY <1>1, <1>2, <2>2, <2>3, <2>4, <2>5 DEF AsksFor
<1>6. CASE Rename(p)
  <2>1. Return(p) \/ op' = [g \in Handler |-> IF g = p THEN NoOp ELSE [op[g] EXCEPT !.fd = Follow(@)]]
        BY <1>6 DEF Rename
  <2>2. op'[p] = NoOp
        BY <2>1 DEF Return, MarksInv
  <2>. QED  BY <2>2
<1>. QED  BY <1>3, <1>4, <1>5, <1>6

LEMMA ApplySourceGoes ==
  ASSUME DocumentsFit, DocumentsApart, AloneInv, NEW p \in Applier, ApplySource(p)
  PROVE  StoresShaped' /\ AloneGoes(p)
<1>1. /\ MarksInv /\ ApplyInv /\ StoresShaped /\ UNCHANGED stores /\ p \in Handler
      /\ Load(p) \/ Open(p) \/ Write(p) \/ Rename(p)
      BY ProvisioningAssumption DEF AloneInv, ApplySource
<1>2. PICK d : d = DocOf(p) /\ d.kind = "AppSource" /\ apply[p].at = "found"
      BY DEF ApplySource
<1>3. ASSUME NEW h \in Handler \ {p}, op[h] = NoOp PROVE op'[h] = NoOp
      BY <1>1, <1>3, OthersRest DEF Step
<1>4. ASSUME apply[p].alone
      PROVE  AloneKnows(p) /\ AsksFor(op[p], d, file.sources, tmp)
  <2>1. AloneKnows(p)
        BY <1>4 DEF AloneInv
  <2>. QED  BY <1>2, <2>1 DEF AloneKnows, FoundKnows, DocOf
<1>5. CASE op'[p] # NoOp
  <2>1. UNCHANGED apply
        BY <1>5 DEF ApplySource
  <2>2. StoresShaped'
        BY <1>1, <2>1, StoresStay
  <2>3. ASSUME apply[p].alone PROVE AloneKnows(p)'
    <3>1. UNCHANGED file /\ AsksFor(op'[p], d, file.sources, tmp')
          BY <1>1, <1>4, <1>5, <2>3, RequestGoesOn
    <3>2. FoundKnows(apply[p], op[p], file.sources, tmp)'
          BY <1>2, <2>1, <3>1 DEF FoundKnows, DocOf
    <3>3. \A q \in Applier \ {p} : Resting(q)'
          BY <1>4, <2>1, <2>3 DEF AloneKnows, Resting
    <3>. QED  BY <1>1, <1>3, <1>4, <2>1, <2>3, <3>1, <3>2, <3>3 DEF AloneKnows, stores
  <2>. QED  BY <1>2, <2>1, <2>2, <2>3 DEF AloneGoes
<1>6. CASE op'[p] = NoOp
  <2>1. StoresTyped
        BY <1>1 DEF StoresShaped, StoresTyped, stores
  <2>2. CASE ~(op[p].at = "written" /\ tmp.state # "absent")
    <3>1. Fail(p)
          BY <1>6, <2>2 DEF ApplySource
    <3>. QED  BY <1>1, <2>1, <3>1, FailGoes, AdvanceShaped
  <2>3. CASE op[p].at = "written" /\ tmp.state # "absent"
    <3>1. Advance(p)
          BY <1>6, <2>3 DEF ApplySource
    <3>2. file' = tmp
          BY <1>1, <2>3 DEF Load, Open, Write, Rename
    <3>3. ASSUME apply[p].alone, apply[p].n \in 1..Len(Order)
          PROVE  /\ WritesOnly(d, file.sources, variable, clients, settings,
                               file'.sources, variable', clients', settings')
                 /\ DocEstablished(d, file'.sources, variable', clients', settings')
      <4>1. PICK o : o = op[p] /\ AsksFor(o, d, file.sources, tmp)
            BY <1>4, <3>3
      <4>2. PICK new : new = Apply(o, file.sources).sources
            OBVIOUS
      <4>3. Apply(o, file.sources).ok /\ file'.sources = new
            BY <2>3, <3>2, <4>1, <4>2 DEF AsksFor, Whole
      <4>4. /\ d.name \in Name \ {"none"} /\ d.at \in Location \ {"none"}
            /\ d.branch \in Branch \ {"none"}
            BY <1>2, <3>3 DEF DocumentsFit, DocOf, Doc
      <4>5. Good(file.sources, candidates)
            BY <1>1 DEF MarksInv
      <4>6. /\ o.kind \in {"register", "patch"} /\ o.asks = DeclaredSource(d)
            /\ o.kind = "patch" => o.id \in Used(file.sources) /\ file.sources[o.id].name = d.name
            BY <4>1 DEF AsksFor
      <4>7. /\ \E i \in Used(new) : new[i].name = d.name /\ new[i].at = d.at /\ new[i].branch = d.branch
            /\ \A i \in Used(file.sources) : file.sources[i].name # d.name =>
                 i \in Used(new) /\ new[i] = file.sources[i]
            BY <4>2, <4>3, <4>4, <4>5, <4>6, SourceWritten
      <4>8. DocEstablished(d, file'.sources, variable', clients', settings')
            BY <1>2, <4>3, <4>7 DEF DocEstablished
      <4>9. WritesOnly(d, file.sources, variable, clients, settings,
                       file'.sources, variable', clients', settings')
            BY <1>1, <1>2, <4>3, <4>7 DEF WritesOnly, StoresShaped, stores
      <4>. QED  BY <4>8, <4>9
    <3>4. StoresShaped'
          BY <1>1, <2>1, <3>1, AdvanceShaped
    <3>. QED  BY <1>2, <1>3, <1>6, <3>1, <3>3, <3>4, AdvanceGoes DEF DocOf
  <2>. QED  BY <2>2, <2>3
<1>. QED  BY <1>5, <1>6----------------------------------------------------------------------------
(* All of them.                                                             *)

Earns(p) == apply[p].alone /\ Ends(p) =>
              Established(file'.sources, variable', clients', settings')
AllGo == StoresShaped' /\ \A p \in Applier : (apply'[p].alone => AloneKnows(p)') /\ Earns(p)

\* A step of one application moves no other, and makes none alone.
LEMMA OnlyOneGoes ==
  ASSUME ApplyInv, NEW p \in Applier,
         \/ Advance(p) \/ Fail(p) \/ UNCHANGED apply
         \/ \E v : Found(p, v)
  PROVE  /\ \A q \in Applier \ {p} : apply'[q] = apply[q]
         /\ apply'[p].alone => apply[p].alone
<1>1. UNCHANGED apply \/ \E x : Moves(p, x) /\ (x.alone => apply[p].alone)
      BY AdvancesTo, FailsTo, FindsTo
<1>. QED  BY <1>1, MovedApply

LEMMA OneGoes ==
  ASSUME AloneInv, NEW p \in Applier, ~Resting(p), StoresShaped', AloneGoes(p),
         \/ Advance(p) \/ Fail(p) \/ UNCHANGED apply
         \/ \E v : Found(p, v)
  PROVE  AllGo
<1>1. /\ \A q \in Applier \ {p} : apply'[q] = apply[q]
      /\ apply'[p].alone => apply[p].alone
      BY OnlyOneGoes DEF AloneInv
<1>2. ASSUME NEW q \in Applier, q # p PROVE ~apply'[q].alone /\ ~Ends(q)
  <2>1. ~apply[q].alone
        BY <1>2 DEF AloneInv, AloneKnows
  <2>. QED  BY <1>1, <1>2, <2>1 DEF Ends
<1>3. (apply'[p].alone => AloneKnows(p)') /\ Earns(p)
      BY <1>1 DEF AloneGoes, Earns, Ends
<1>. QED  BY <1>2, <1>3 DEF AllGo, Earns

LEMMA DocumentGoes ==
  ASSUME DocumentsFit, DocumentsApart, AloneInv, NEW p \in Applier,
         \/ StoreValue(p) \/ KeepCredential(p) \/ FindVariable(p) \/ KeepVariable(p)
         \/ FindClient(p) \/ CreateClient(p)
         \/ FindSource(p) \/ ApplySource(p) \/ StoreSettings(p)
  PROVE  AllGo
<1>1. StoresShaped' /\ AloneGoes(p)
      BY StoreValueGoes, KeepCredentialGoes, FindVariableGoes, KeepVariableGoes, FindClientGoes,
         CreateClientGoes, FindSourceGoes, ApplySourceGoes, StoreSettingsGoes
<1>2. ~Resting(p)
      BY DEF Resting, StoreValue, KeepCredential, FindVariable, KeepVariable, FindClient,
         CreateClient, FindSource, ApplySource, StoreSettings, Current
<1>3. \/ Advance(p) \/ Fail(p) \/ UNCHANGED apply
      \/ \E v : Found(p, v)
      BY DEF StoreValue, KeepCredential, FindVariable, KeepVariable, FindClient, CreateClient,
         FindSource, ApplySource, StoreSettings
<1>. QED  BY <1>1, <1>2, <1>3, OneGoes

\* Nobody is alone any more.
LEMMA DisturbedGo ==
  ASSUME AloneInv, apply' = Disturbed, StoresTyped
  PROVE  AllGo
<1>1. \A q \in Applier : /\ ~apply'[q].alone /\ apply'[q].at = apply[q].at
                         /\ apply'[q].n = apply[q].n /\ apply'[q].found = apply[q].found
      BY DisturbedStays DEF AloneInv
<1>2. StoresShaped'
      BY <1>1 DEF AloneInv, StoresShaped, StoresTyped, FoundShaped
<1>. QED  BY <1>1, <1>2 DEF AllGo, Earns, Ends

LEMMA BeginApplyGoes ==
  ASSUME AloneInv, NEW p \in Applier, BeginApply(p)
  PROVE  AllGo
<1>1. PICK b : b = (/\ \A q \in Applier : Resting(q) /\ \A h \in Handler : op[h] = NoOp)
      OBVIOUS
<1>2. PICK x : x = [NotApplying EXCEPT !.at = "next", !.n = 1, !.alone = b]
      OBVIOUS
<1>3. x.at = "next" /\ x.n = 1 /\ x.alone = b
      BY <1>2 DEF NotApplying
<1>4. apply' = [Disturbed EXCEPT ![p] = x] /\ UNCHANGED <<vars, stores>>
      BY <1>1, <1>2 DEF BeginApply
<1>5. apply'[p] = x /\ \A q \in Applier \ {p} : apply'[q] = Disturbed[q]
      BY <1>4, DisturbedStays DEF AloneInv
<1>6. \A q \in Applier \ {p} : /\ ~apply'[q].alone /\ apply'[q].at = apply[q].at
                               /\ apply'[q].n = apply[q].n /\ apply'[q].found = apply[q].found
      BY <1>5, DisturbedStays DEF AloneInv
<1>7. StoresShaped'
      BY <1>3, <1>4, <1>5, <1>6, StoresStay DEF AloneInv
<1>8. ASSUME apply'[p].alone PROVE AloneKnows(p)'
  <2>1. /\ \A q \in Applier : Resting(q)
        /\ \A h \in Handler : op[h] = NoOp
        BY <1>1, <1>3, <1>5, <1>8
  <2>2. \A q \in Applier \ {p} : Resting(q)'
        BY <1>6, <2>1 DEF Resting
  <2>3. Kept(1, file'.sources, variable', clients', settings')
        BY DEF Kept
  <2>4. FoundKnows(apply[p], op[p], file.sources, tmp)'
        BY <1>3, <1>5 DEF FoundKnows
  <2>. QED  BY <1>3, <1>4, <1>5, <2>1, <2>2, <2>3, <2>4 DEF AloneKnows, vars
<1>9. \A q \in Applier : ~Ends(q)
      BY <1>3, <1>5, <1>6 DEF Ends
<1>. QED  BY <1>6, <1>7, <1>8, <1>9 DEF AllGo, Earns

LEMMA NothingGoes ==
  ASSUME AloneInv, UNCHANGED <<file, tmp, op, apply, stores>>
  PROVE  AllGo
<1>1. StoresShaped'
      BY StoresStay DEF AloneInv
<1>2. \A p \in Applier : apply[p].alone => AloneKnows(p)'
      BY DEF AloneInv, AloneKnows, Resting, stores
<1>. QED  BY <1>1, <1>2 DEF AllGo, Earns, Ends

LEMMA AllGoOn ==
  ASSUME DocumentsFit, DocumentsApart, AloneInv, [ProvisionNext]_provisionVars
  PROVE  AllGo
<1>1. CASE \E p \in Applier : BeginApply(p)
      BY <1>1, BeginApplyGoes
<1>2. CASE \E p \in Applier : \/ StoreValue(p) \/ KeepCredential(p) \/ FindVariable(p)
                              \/ KeepVariable(p) \/ FindClient(p) \/ CreateClient(p)
                              \/ FindSource(p) \/ ApplySource(p) \/ StoreSettings(p)
      BY <1>2, DocumentGoes
<1>3. CASE \E h \in Handler : RequestStep(h)
  <2>1. UNCHANGED stores /\ apply' = Disturbed
        BY <1>3 DEF RequestStep
  <2>2. StoresTyped
        BY <2>1 DEF AloneInv, StoresShaped, StoresTyped, stores
  <2>. QED  BY <2>1, <2>2, DisturbedGo
<1>4. CASE \E x \in Path, v \in Value, b \in BOOLEAN :
             SetVariable(x, [value |-> v, secret |-> b, sealed |-> b])
  <2>1. PICK x \in Path, v \in Value, b \in BOOLEAN :
             SetVariable(x, [value |-> v, secret |-> b, sealed |-> b])
        BY <1>4
  <2>2. PICK new : new = [value |-> v, secret |-> b, sealed |-> b]
        OBVIOUS
  <2>3. VariableShaped(new)
        BY <2>2 DEF VariableShaped
  <2>4. /\ variable' = [variable EXCEPT ![x] = new] /\ UNCHANGED <<clients, settings>>
        /\ apply' = Disturbed
        BY <2>1, <2>2 DEF SetVariable
  <2>5. StoresTyped
        BY <2>3, <2>4 DEF AloneInv, StoresShaped, StoresTyped
  <2>. QED  BY <2>4, <2>5, DisturbedGo
<1>5. CASE ServerCrash
  <2>1. UNCHANGED stores /\ \A p \in Applier : apply'[p].at = "idle" /\ ~apply'[p].alone
        BY <1>5 DEF ServerCrash, NotApplying
  <2>2. StoresShaped'
        BY <2>1, StoresStay DEF AloneInv
  <2>. QED  BY <2>1, <2>2 DEF AllGo, Earns, Ends
<1>6. CASE UNCHANGED <<file, tmp, op, apply, stores>>
      BY <1>6, NothingGoes
<1>. QED  BY <1>1, <1>2, <1>3, <1>4, <1>5, <1>6
          DEF ProvisionNext, provisionVars, vars, ArchiveWorkspace

\* ApplicationsEstablish: when an application of documents that nothing disturbed ends
\* well, everything the documents declare is so, whatever was stored before and whatever
\* an application that was cut short left behind, if the documents are complete and do
\* not declare one thing twice, but for clients and for redacted values.
THEOREM ApplicationsEstablish ==
  ASSUME DocumentsFit, DocumentsApart
  PROVE  ProvisionSpec => ApplyEstablishes
<1>1. ProvisionInit => AloneInv
  <2>. SUFFICES ASSUME ProvisionInit PROVE AloneInv
       OBVIOUS
  <2>1. \A p \in Applier : ~apply[p].alone
        BY DEF ProvisionInit, NotApplying
  <2>. QED  BY <2>1, MarksInitially, ApplyInitially, StoresInitially DEF AloneInv
<1>2. AloneInv /\ [ProvisionNext]_provisionVars => AloneInv'
  <2>. SUFFICES ASSUME AloneInv, [ProvisionNext]_provisionVars PROVE AloneInv'
       OBVIOUS
  <2>1. AllGo
        BY AllGoOn
  <2>2. MarksInv' /\ ApplyInv'
        BY MarksInvStep, ApplyInvStep DEF AloneInv
  <2>. QED  BY <2>1, <2>2 DEF AllGo, AloneInv
<1>3. AloneInv /\ [ProvisionNext]_provisionVars =>
        [\A p \in Applier : (apply[p].alone /\ Ends(p)) =>
           Established(file'.sources, variable', clients', settings')]_provisionVars
      BY AllGoOn DEF AllGo, Earns
<1>. QED  BY <1>1, <1>2, <1>3, PTL DEF ProvisionSpec, ApplyEstablishes

(***************************************************************************)
(* Routes.  An override that has locked the deployment holds what is still *)
(* active, so nothing is undone; and a list of tags has, at each point,    *)
(* either collected or still to read what has waited since it began.       *)
(***************************************************************************)
PatchRow == [pc: {"idle", "locked"}, target: Action \union {App}, tag: Override,
             row: {<<>>} \union {<<r>> : r \in Row}]

\* The release that is active is the one its id names, and an override in
\* progress is the only one and has read what is still active.
CatalogInv ==
  /\ active \in {<<>>} \union {<<row>> : row \in Row}
  /\ \A id \in DOMAIN history : history[id] \in Release
  /\ activeId \in HistoryId \union {NoId} /\ DOMAIN history \subseteq HistoryId
  /\ changes \in 0..MaxChanges
  /\ patch \in [Patcher -> PatchRow]
  /\ \A p \in Patcher : patch[p].pc = "idle" => patch[p].row = <<>>
  /\ meant = active
  /\ ~Deployed => activeId = NoId /\ DOMAIN history = {}
  /\ Deployed /\ activeId # NoId =>
       activeId \in DOMAIN history /\ history[activeId] = Deployment.release
  /\ \A p \in Patcher : patch[p].pc = "locked" =>
       Deployed /\ patch[p].row = active /\ changes < MaxChanges
  /\ \A p, other \in Patcher :
       patch[p].pc = "locked" /\ patch[other].pc = "locked" => p = other

LEMMA PublishedIsRow ==
  ASSUME NEW r \in Release
  PROVE  Published(r) \in Row /\ Published(r).release = r
BY DEF Published, Row, Override

LEMMA OverriddenIsRow ==
  ASSUME NEW row \in Row, NEW target \in Action \union {App}, NEW tag \in Override
  PROVE  Overridden(row, target, tag) \in Row /\ Overridden(row, target, tag).release = row.release
<1>1. CASE target = App
      BY <1>1 DEF Overridden, Row
<1>2. CASE target # App
  <2>. DEFINE actions == [row.action EXCEPT ![target] = tag]
  <2>1. actions \in [Action -> Override]
        BY <1>2 DEF Row
  <2>2. Overridden(row, target, tag) = [row EXCEPT !.action = actions]
        BY <1>2 DEF Overridden
  <2>. HIDE DEF actions
  <2>. QED  BY <2>1, <2>2 DEF Row
<1>. QED  BY <1>1, <1>2

LEMMA BackfilledNames ==
  LET id == Backfilled(Legacy) IN
  id # NoId => id \in DOMAIN Legacy.history /\ Legacy.history[id] = Legacy.row.release
<1>. DEFINE match == {i \in DOMAIN Legacy.history : Legacy.history[i] = Legacy.row.release}
<1>1. CASE Legacy.id # NoId \/ match = {}
      BY <1>1, LegacyAssumption DEF Backfilled, LegacyAssumption
<1>2. CASE ~(Legacy.id # NoId \/ match = {})
  <2>1. PICK i \in match : \A k \in match : k <= i
        BY <1>2, RoutingAssumption DEF RoutingAssumption
  <2>2. Backfilled(Legacy) \in match
        BY <1>2, <2>1 DEF Backfilled
  <2>. QED  BY <2>2
<1>. QED  BY <1>1, <1>2

LEMMA CatalogInvStarts ==
  ASSUME RoutingInit
  PROVE  CatalogInv
<1>1. NoPatch \in PatchRow
      BY DEF NoPatch, PatchRow, Override
<1>2. MaxChanges \in Nat
      BY RoutingAssumption DEF RoutingAssumption
<1>. QED  BY <1>1, <1>2 DEF RoutingInit, CatalogInv, NoPatch, Deployed

LEMMA CatalogInvKept ==
  ASSUME CatalogInv, [RoutingNext]_routingVars
  PROVE  CatalogInv'
<1>1. NoPatch \in PatchRow /\ NoPatch.pc = "idle" /\ NoPatch.row = <<>>
      BY DEF NoPatch, PatchRow, Override
<1>2. CASE UNCHANGED <<active, activeId, history, changes, meant, patch>>
      BY <1>2 DEF CatalogInv, Deployed, Deployment
<1>3. CASE ImportCatalog
  <2>0. history' = Merged(history, Legacy.history)
        BY <1>3 DEF ImportCatalog
  <2>. DEFINE recorded == history'
              imported == Legacy.history
  <2>5. /\ DOMAIN recorded = DOMAIN history \union DOMAIN imported
        /\ \A id \in DOMAIN history : recorded[id] = history[id]
        /\ \A id \in DOMAIN imported \ DOMAIN history : recorded[id] = imported[id]
        BY <2>0 DEF Merged
  <2>6. /\ \A id \in DOMAIN history : history[id] \in Release
        /\ \A id \in DOMAIN imported : imported[id] \in Release
        BY LegacyAssumption DEF CatalogInv, LegacyAssumption
  <2>1. \A id \in DOMAIN recorded : recorded[id] \in Release
        BY <2>5, <2>6
  <2>2. patch' = patch /\ changes' = changes
        BY <1>3 DEF ImportCatalog, operators
  <2>7. DOMAIN imported \subseteq {0} /\ MaxChanges \in Nat /\ DOMAIN history \subseteq HistoryId
        BY RoutingAssumption DEF RoutingAssumption, CatalogInv
  <2>8. DOMAIN imported \subseteq HistoryId /\ DOMAIN recorded \subseteq HistoryId
        BY <2>5, <2>7 DEF HistoryId
  <2>3. CASE Deployed
    <3>1. UNCHANGED <<active, activeId, meant>>
          BY <1>3, <2>3 DEF ImportCatalog
    <3>2. activeId \in DOMAIN history => activeId \in DOMAIN history' /\ history'[activeId] = history[activeId]
          BY <2>5
    <3>. QED  BY <2>1, <2>2, <2>3, <2>8, <3>1, <3>2 DEF CatalogInv, Deployed, Deployment
  <2>4. CASE ~Deployed
    <3>1. active' = <<Legacy.row>> /\ meant' = active' /\ activeId' = Backfilled(Legacy)
          BY <1>3, <2>4 DEF ImportCatalog
    <3>2. Legacy.row \in Row
          BY RoutingAssumption DEF RoutingAssumption
    <3>3. \A p \in Patcher : patch[p].pc # "locked"
          BY <2>4 DEF CatalogInv
    <3>4. activeId' # NoId => activeId' \in DOMAIN history' /\ history'[activeId'] = Legacy.row.release
          BY <2>4, <2>5, <3>1, BackfilledNames DEF CatalogInv
    <3>5. Deployed' /\ Deployment' = Legacy.row
          BY <3>1 DEF Deployed, Deployment
    <3>6. activeId' \in HistoryId \union {NoId}
          BY <2>8, <3>1, BackfilledNames
    <3>. QED  BY <2>1, <2>2, <2>8, <3>1, <3>2, <3>3, <3>4, <3>5, <3>6 DEF CatalogInv
  <2>. QED  BY <2>3, <2>4
<1>4. ASSUME NEW id, NEW r \in Release, Activate(id, r), ~RowLocked, changes < MaxChanges,
             DOMAIN history' \subseteq HistoryId,
             id \in DOMAIN history', history'[id] = r,
             \A i \in DOMAIN history' : history'[i] \in Release
      PROVE  CatalogInv'
  <2>1. /\ active' = <<Published(r)>> /\ meant' = active' /\ activeId' = id /\ patch' = patch
        BY <1>4 DEF Activate, operators
  <2>2. Published(r) \in Row /\ Published(r).release = r
        BY PublishedIsRow
  <2>3. Deployed' /\ Deployment' = Published(r)
        BY <2>1 DEF Deployed, Deployment
  <2>4. \A p \in Patcher : patch[p].pc # "locked"
        BY <1>4 DEF RowLocked
  <2>5. changes' \in 0..MaxChanges
        BY <1>4, RoutingAssumption DEF Activate, CatalogInv, RoutingAssumption
  <2>. QED  BY <1>4, <2>1, <2>2, <2>3, <2>4, <2>5 DEF CatalogInv
<1>5. CASE \E r \in Release : PublishRelease(r)
  <2>1. PICK r \in Release : PublishRelease(r)
        BY <1>5
  <2>. DEFINE new == [id \in {changes + 1} |-> r]
  <2>2. /\ history' = Merged(new, history) /\ Activate(changes + 1, r) /\ ~RowLocked
        /\ changes < MaxChanges
        BY <2>1 DEF PublishRelease
  <2>. DEFINE recorded == history'
  <2>4. DOMAIN new = {changes + 1} /\ new[changes + 1] = r
        OBVIOUS
  <2>5. \A id \in DOMAIN history : history[id] \in Release
        BY DEF CatalogInv
  <2>. HIDE DEF new
  <2>6. /\ DOMAIN recorded = DOMAIN new \union DOMAIN history
        /\ \A id \in DOMAIN new : recorded[id] = new[id]
        /\ \A id \in DOMAIN history \ DOMAIN new : recorded[id] = history[id]
        BY <2>2 DEF Merged
  <2>3. /\ changes + 1 \in DOMAIN recorded /\ recorded[changes + 1] = r
        /\ \A i \in DOMAIN recorded : recorded[i] \in Release
        BY <2>4, <2>5, <2>6
  <2>7. changes + 1 \in HistoryId /\ DOMAIN history \subseteq HistoryId
        BY <2>2, RoutingAssumption DEF CatalogInv, HistoryId, RoutingAssumption
  <2>8. DOMAIN recorded \subseteq HistoryId
        BY <2>4, <2>6, <2>7
  <2>. QED  BY <1>4, <2>2, <2>3, <2>8
<1>6. CASE \E id \in DOMAIN history : RollbackRelease(id)
      BY <1>4, <1>6 DEF RollbackRelease, CatalogInv
<1>7. CASE \E p \in Patcher, target \in Action \union {App}, tag \in Asked :
             PatchBegin(p, target, tag)
  <2>1. PICK p \in Patcher, target \in Action \union {App}, tag \in Asked :
             PatchBegin(p, target, tag)
        BY <1>7
  <2>. DEFINE x == [NoPatch EXCEPT !.pc = "locked", !.target = target, !.tag = tag,
                                   !.row = active]
  <2>2. /\ patch' = [patch EXCEPT ![p] = x] /\ Deployed /\ ~RowLocked
        /\ UNCHANGED <<active, activeId, history, changes, meant>> /\ changes < MaxChanges
        BY <2>1 DEF PatchBegin, CanLock, catalog
  <2>3. tag \in Override
        BY RoutingAssumption DEF RoutingAssumption
  <2>4. x \in PatchRow /\ x.pc = "locked" /\ x.row = active
        BY <2>3 DEF NoPatch, PatchRow, CatalogInv
  <2>. HIDE DEF x
  <2>5. \A q \in Patcher : patch[q].pc # "locked"
        BY <2>2 DEF RowLocked
  <2>. QED  BY <2>2, <2>4, <2>5 DEF CatalogInv, Deployed, Deployment
<1>8. CASE \E p \in Patcher : PatchCommit(p)
  <2>1. PICK p \in Patcher : PatchCommit(p)
        BY <1>8
  <2>. DEFINE x == patch[p]
              row == Overridden(Deployment, x.target, x.tag)
  <2>2. /\ x \in PatchRow /\ x.pc = "locked" /\ Deployed /\ x.row = active /\ meant = active
        /\ changes < MaxChanges
        BY <2>1 DEF PatchCommit, CatalogInv
  <2>3. /\ active' = <<row>> /\ meant' = <<row>> /\ patch' = [patch EXCEPT ![p] = NoPatch]
        /\ UNCHANGED <<activeId, history>> /\ changes' = changes + 1
        BY <2>1, <2>2 DEF PatchCommit, Deployment
  <2>4. Deployment \in Row
        BY <2>2 DEF CatalogInv, Deployed, Deployment
  <2>5. row \in Row /\ row.release = Deployment.release
        BY <2>2, <2>4, OverriddenIsRow DEF PatchRow
  <2>. HIDE DEF row
  <2>6. Deployed' /\ Deployment' = row
        BY <2>3 DEF Deployed, Deployment
  <2>7. \A q \in Patcher : patch'[q].pc # "locked"
        BY <1>1, <2>2, <2>3 DEF CatalogInv
  <2>8. changes' \in 0..MaxChanges
        BY <2>2, <2>3, RoutingAssumption DEF CatalogInv, RoutingAssumption
  <2>. QED  BY <1>1, <2>2, <2>3, <2>5, <2>6, <2>7, <2>8 DEF CatalogInv
<1>9. CASE \E p \in Patcher : PatchFails(p)
  <2>1. PICK p \in Patcher : patch' = [patch EXCEPT ![p] = NoPatch]
        BY <1>9 DEF PatchFails
  <2>2. UNCHANGED <<active, activeId, history, changes, meant>>
        BY <1>9 DEF PatchFails, catalog
  <2>. QED  BY <1>1, <2>1, <2>2 DEF CatalogInv, Deployed, Deployment
<1>10. CASE \E q \in Requeuer : \/ \E only \in {Action} \union {{a} : a \in Action} : RequeueRead(q, only)
                                \/ RequeueMove(q) \/ RequeueFails(q)
       BY <1>2, <1>10 DEF RequeueRead, RequeueMove, RequeueFails, catalog
<1>11. CASE Work
  <2>1. UNCHANGED <<catalog, operators>>
        BY <1>11 DEF Work, Admit, Enqueue, GiveBack, CompleteJob, ClaimJob, StartWorker, Reregister,
           RegisterWorker, HeartbeatWorker, DeregisterWorker, WorkerDies, Tick, others
  <2>. QED  BY <1>2, <2>1 DEF catalog, operators
<1>12. CASE View
  <2>1. UNCHANGED <<catalog, operators>>
        BY <1>12 DEF View, ViewCatalog, ViewJobs, ViewJob, ViewWorkers, ViewEnds
  <2>. QED  BY <1>2, <2>1 DEF catalog, operators
<1>13. CASE UNCHANGED routingVars
       BY <1>2, <1>13 DEF routingVars, catalog, operators
<1>. QED  BY <1>3, <1>5, <1>6, <1>7, <1>8, <1>9, <1>10, <1>11, <1>12, <1>13 DEF RoutingNext, Operate
\* NothingUndone: the deployment that is active is what the changes of operators
\* add up to, and the active id names its release: the row lock of an override
\* (postgresDeploymentForUpdate) keeps what it read current until it writes, for
\* every number of overrides, publications, rollbacks and servers that start.
THEOREM OverridesUndoNothing == RoutingSpec => []NothingUndone
<1>1. CatalogInv => NothingUndone
      BY DEF CatalogInv, NothingUndone
<1>. QED  BY <1>1, CatalogInvStarts, CatalogInvKept, PTL DEF RoutingSpec

LEMMA EffectiveTagGiven ==
  ASSUME NEW appTag \in Override, NEW appOverride \in Override,
         NEW actionTag \in Override, NEW actionOverride \in Override
  PROVE  EffectiveRouteTag(appTag, appOverride, actionTag, actionOverride) \in Tag
<1>1. DefaultRouteTag \in Tag
      BY RoutingAssumption DEF RoutingAssumption
<1>2. \A tag \in Override, otherwise \in Tag : GivenOr(tag, otherwise) \in Tag
      BY DEF GivenOr, Override
<1>. QED  BY <1>1, <1>2 DEF EffectiveRouteTag

LEMMA RoutesToTag ==
  ASSUME NEW row \in Row, NEW a \in Actions(row)
  PROVE  EffectiveRouteTagForAction(row, a) \in Tag
<1>1. row.release \in Release /\ row.app \in Override /\ row.action \in [Action -> Override]
      BY DEF Row
<1>2. PICK offered \in SUBSET Action : ActionTag[row.release] \in [offered -> Override]
      BY <1>1, RoutingAssumption DEF RoutingAssumption
<1>3. a \in offered /\ ActionTag[row.release][a] \in Override /\ AppTag[row.release] \in Override
      BY <1>1, <1>2, RoutingAssumption DEF Actions, RoutingAssumption
<1>. QED  BY <1>1, <1>3, EffectiveTagGiven DEF EffectiveRouteTagForAction

\* A job has the tag its action routed to when its run was admitted, or went where
\* a requeue sent it.
RoutedJob == [state: {"none", "admitted", "queued", "running", "ended"},
              pinned: Override, tag: Override]
JobTagged(x) ==
  /\ x \in RoutedJob
  /\ x.state # "none" => x.pinned \in Tag
  /\ x.state \in {"queued", "running"} => x.tag \in Tag
RequeueRow == [pc: {"idle", "read"}, row: {<<>>} \union {<<r>> : r \in Row}, only: SUBSET Action]
RequeueTyped(x) == x \in RequeueRow /\ (x.row = <<>> <=> x.pc = "idle")

JobsInv ==
  /\ job \in [Job -> RoutedJob]
  /\ \A j \in Job : JobTagged(job[j])
  /\ requeue \in [Requeuer -> RequeueRow]
  /\ \A q \in Requeuer : RequeueTyped(requeue[q])

LEMMA JobsInvStarts ==
  ASSUME RoutingInit
  PROVE  JobsInv
<1>1. NoJob \in RoutedJob /\ JobTagged(NoJob)
      BY DEF NoJob, RoutedJob, JobTagged, Override
<1>2. NoRequeue \in RequeueRow /\ RequeueTyped(NoRequeue)
      BY DEF NoRequeue, RequeueRow, RequeueTyped
<1>. QED  BY <1>1, <1>2 DEF RoutingInit, JobsInv

LEMMA JobsInvKept ==
  ASSUME JobsInv, CatalogInv, [RoutingNext]_routingVars
  PROVE  JobsInv'
<1>1. CASE UNCHANGED <<job, requeue>>
      BY <1>1 DEF JobsInv
<1>2. ASSUME NEW j \in Job, NEW x, job' = [job EXCEPT ![j] = x], JobTagged(x), UNCHANGED requeue
      PROVE  JobsInv'
      BY <1>2 DEF JobsInv, JobTagged
<1>3. ASSUME NEW q \in Requeuer, NEW x, requeue' = [requeue EXCEPT ![q] = x], RequeueTyped(x), UNCHANGED job
      PROVE  JobsInv'
      BY <1>3 DEF JobsInv, RequeueTyped
<1>4. NoTag \in Override /\ Tag \subseteq Override
      BY DEF Override
<1>5. ASSUME NEW j \in Job, Admit(j)
      PROVE  JobsInv'
  <2>. DEFINE t == EffectiveRouteTagForAction(Deployment, ActionOf[j])
              x == [NoJob EXCEPT !.state = "admitted", !.pinned = t]
  <2>1. job' = [job EXCEPT ![j] = x] /\ Deployed /\ ActionOf[j] \in Actions(Deployment)
        BY <1>5 DEF Admit
  <2>2. Deployment \in Row
        BY <2>1 DEF CatalogInv, Deployed, Deployment
  <2>3. t \in Tag
        BY <2>1, <2>2, RoutesToTag
  <2>. HIDE DEF t
  <2>4. JobTagged(x)
        BY <1>4, <2>3 DEF NoJob, JobTagged, RoutedJob
  <2>. QED  BY <1>2, <1>5, <2>1, <2>4 DEF Admit, operators
<1>6. ASSUME NEW j \in Job, Enqueue(j) \/ GiveBack(j) \/ CompleteJob(j) \/ \E w \in Worker : ClaimJob(j, w)
      PROVE  JobsInv'
  <2>1. job[j] \in RoutedJob /\ JobTagged(job[j]) /\ UNCHANGED requeue
        BY <1>6 DEF JobsInv, Enqueue, GiveBack, CompleteJob, ClaimJob, operators
  <2>2. CASE Enqueue(j)
    <3>. DEFINE x == [job[j] EXCEPT !.state = "queued", !.tag = job[j].pinned]
    <3>1. job' = [job EXCEPT ![j] = x] /\ job[j].state # "none"
          BY <2>2 DEF Enqueue
    <3>2. JobTagged(x)
          BY <1>4, <2>1, <3>1 DEF JobTagged, RoutedJob
    <3>. QED  BY <1>2, <2>1, <3>1, <3>2
  <2>3. CASE GiveBack(j)
    <3>. DEFINE x == [job[j] EXCEPT !.state = "queued"]
    <3>1. job' = [job EXCEPT ![j] = x] /\ job[j].state = "running"
          BY <2>3 DEF GiveBack
    <3>2. JobTagged(x)
          BY <2>1, <3>1 DEF JobTagged, RoutedJob
    <3>. QED  BY <1>2, <2>1, <3>1, <3>2
  <2>4. CASE CompleteJob(j)
    <3>. DEFINE x == [job[j] EXCEPT !.state = "ended", !.tag = NoTag]
    <3>1. job' = [job EXCEPT ![j] = x] /\ job[j].state = "running"
          BY <2>4 DEF CompleteJob
    <3>2. JobTagged(x)
          BY <1>4, <2>1, <3>1 DEF JobTagged, RoutedJob
    <3>. QED  BY <1>2, <2>1, <3>1, <3>2
  <2>5. CASE \E w \in Worker : ClaimJob(j, w)
    <3>. DEFINE x == [job[j] EXCEPT !.state = "running"]
    <3>1. job' = [job EXCEPT ![j] = x] /\ job[j].state = "queued"
          BY <2>5 DEF ClaimJob
    <3>2. JobTagged(x)
          BY <2>1, <3>1 DEF JobTagged, RoutedJob
    <3>. QED  BY <1>2, <2>1, <3>1, <3>2
  <2>. QED  BY <1>6, <2>2, <2>3, <2>4, <2>5
<1>7. ASSUME NEW q \in Requeuer, NEW only \in SUBSET Action, RequeueRead(q, only)
      PROVE  JobsInv'
  <2>. DEFINE x == [pc |-> "read", row |-> active, only |-> only]
  <2>1. requeue' = [requeue EXCEPT ![q] = x] /\ Deployed /\ UNCHANGED job
        BY <1>7 DEF RequeueRead
  <2>2. RequeueTyped(x)
        BY <2>1 DEF RequeueTyped, RequeueRow, CatalogInv, Deployed
  <2>. QED  BY <1>3, <2>1, <2>2
<1>8. NoRequeue \in RequeueRow /\ RequeueTyped(NoRequeue)
      BY DEF NoRequeue, RequeueRow, RequeueTyped
<1>9. ASSUME NEW q \in Requeuer, RequeueMove(q)
      PROVE  JobsInv'
  <2>. DEFINE row == requeue[q].row[1]
              only == requeue[q].only
  <2>1. /\ job' = [j \in Job |-> [job[j] EXCEPT !.tag = Moved(j, row, only)]]
        /\ requeue' = [requeue EXCEPT ![q] = NoRequeue]
        BY <1>9 DEF RequeueMove
  <2>2. row \in Row
    <3>1. requeue[q].row \in {<<r>> : r \in Row}
          BY <1>9 DEF RequeueMove, JobsInv, RequeueTyped, RequeueRow
    <3>. QED  BY <3>1
  <2>. HIDE DEF row
  <2>3. ASSUME NEW j \in Job
        PROVE  JobTagged([job[j] EXCEPT !.tag = Moved(j, row, only)])
    <3>1. job[j] \in RoutedJob /\ JobTagged(job[j])
          BY DEF JobsInv
    <3>2. Moved(j, row, only) = job[j].tag \/ Moved(j, row, only) \in Tag
          BY <2>2, RoutesToTag DEF Moved
    <3>. DEFINE t == Moved(j, row, only)
    <3>. HIDE DEF t
    <3>. QED  BY <1>4, <3>1, <3>2 DEF JobTagged, RoutedJob, t
  <2>. QED  BY <1>8, <2>1, <2>3 DEF JobsInv, JobTagged
<1>10. ASSUME NEW q \in Requeuer, RequeueFails(q)
       PROVE  JobsInv'
       BY <1>3, <1>8, <1>10 DEF RequeueFails
<1>11. CASE Operate
  <2>1. \/ UNCHANGED <<job, requeue>>
        \/ \E q \in Requeuer : \/ \E only \in {Action} \union {{a} : a \in Action} : RequeueRead(q, only)
                             \/ RequeueMove(q) \/ RequeueFails(q)
        BY <1>11 DEF Operate, ImportCatalog, PublishRelease, RollbackRelease, Activate,
           PatchBegin, PatchCommit, PatchFails, operators
  <2>2. {Action} \union {{a} : a \in Action} \subseteq SUBSET Action
        OBVIOUS
  <2>. QED  BY <1>1, <1>7, <1>9, <1>10, <2>1, <2>2
<1>12. CASE Work
  <2>1. \/ UNCHANGED <<job, requeue>>
        \/ \E j \in Job : Admit(j) \/ Enqueue(j) \/ GiveBack(j) \/ CompleteJob(j)
        \/ \E j \in Job, w \in Worker : ClaimJob(j, w)
        BY <1>12 DEF Work, StartWorker, Reregister, RegisterWorker, HeartbeatWorker,
           DeregisterWorker, WorkerDies, Tick, others, operators
  <2>. QED  BY <1>1, <1>5, <1>6, <2>1
<1>13. CASE View
       BY <1>1, <1>13 DEF View, ViewCatalog, ViewJobs, ViewJob, ViewWorkers, ViewEnds, operators
<1>14. CASE UNCHANGED routingVars
       BY <1>1, <1>14 DEF routingVars, operators
<1>. QED  BY <1>11, <1>12, <1>13, <1>14 DEF RoutingNext

\* RequeueCatchesUp: a requeue that moves the jobs of the deployment that is still
\* active (RequeueQueuedJobsForApp after handleCanonicalRequeueApp read it) leaves
\* none of them queued under another tag than the one their action routes to.
THEOREM RequeuesCatchUp == RoutingSpec => RequeueCatchesUp
<1>1. ASSUME JobsInv, NEW q \in Requeuer, RequeueMove(q), requeue[q].row = active,
             NEW j \in Job, job'[j].state = "queued",
             ActionOf[j] \in requeue[q].only \intersect Actions(Deployment)
      PROVE  job'[j].tag = Routes(Deployment)[ActionOf[j]]
  <2>. DEFINE row == requeue[q].row[1]
              t == Moved(j, row, requeue[q].only)
  <2>1. job'[j] = [job[j] EXCEPT !.tag = t]
        BY <1>1 DEF RequeueMove
  <2>2. row = Deployment /\ job[j] \in RoutedJob
        BY <1>1 DEF Deployment, JobsInv
  <2>. HIDE DEF t
  <2>3. job'[j].state = job[j].state /\ job'[j].tag = t
        BY <2>1, <2>2 DEF RoutedJob
  <2>4. t = EffectiveRouteTagForAction(Deployment, ActionOf[j])
        BY <1>1, <2>2, <2>3 DEF Moved, t
  <2>. QED  BY <1>1, <2>3, <2>4 DEF Routes
<1>2. JobsInv => [\A q \in Requeuer : RequeueMove(q) /\ requeue[q].row = active =>
                   \A j \in Job : job'[j].state = "queued" /\ ActionOf[j] \in requeue[q].only \intersect Actions(Deployment)
                     => job'[j].tag = Routes(Deployment)[ActionOf[j]]]_routingVars
      BY <1>1
<1>. QED  BY <1>2, CatalogInvStarts, CatalogInvKept, JobsInvStarts, JobsInvKept,
             PTL DEF RoutingSpec, RequeueCatchesUp
\* The registry remembers workers, for no longer than it has to.
RegistryInv ==
  /\ worker \in [Worker -> {"down", "up", "lost"}]
  /\ DOMAIN silence \subseteq Worker
  /\ \A w \in DOMAIN silence : silence[w] \in 0..(WorkerRegistryExpiry + 1)

LEMMA RegistryInvKept ==
  ASSUME RegistryInv, [RoutingNext]_routingVars
  PROVE  RegistryInv'
<1>. DEFINE old == silence
            new == silence'
<1>1. WorkerRegistryExpiry \in Nat
      BY RoutingAssumption DEF RoutingAssumption
<1>2. CASE UNCHANGED <<worker, silence>>
      BY <1>2 DEF RegistryInv
<1>3. ASSUME NEW w \in Worker, silence' = Beats(w),
             worker' = worker \/ worker' = [worker EXCEPT ![w] = "up"]
      PROVE  RegistryInv'
  <2>1. DOMAIN new = DOMAIN old \union {w}
        BY <1>3 DEF Beats
  <2>2. \A v \in DOMAIN new : new[v] = 0 \/ (v \in DOMAIN old /\ new[v] = old[v])
        BY <1>3 DEF Beats
  <2>. QED  BY <1>1, <1>3, <2>1, <2>2 DEF RegistryInv
<1>4. ASSUME NEW gone, silence' = Without(gone), worker' \in [Worker -> {"down", "up", "lost"}]
      PROVE  RegistryInv'
  <2>1. DOMAIN new \subseteq DOMAIN old /\ \A v \in DOMAIN new : new[v] = old[v]
        BY <1>4 DEF Without
  <2>. QED  BY <1>4, <2>1 DEF RegistryInv
<1>5. ASSUME NEW w \in Worker, UNCHANGED silence, NEW s \in {"down", "up", "lost"},
             worker' = [worker EXCEPT ![w] = s]
      PROVE  RegistryInv'
      BY <1>5 DEF RegistryInv
<1>6. ASSUME NEW w \in Worker, RegisterWorker(w) \/ HeartbeatWorker(w)
      PROVE  RegistryInv'
      BY <1>3, <1>5, <1>6 DEF RegisterWorker, HeartbeatWorker
<1>7. ASSUME NEW w \in Worker, DeregisterWorker(w) \/ WorkerDies(w)
      PROVE  RegistryInv'
  <2>1. worker' \in [Worker -> {"down", "up", "lost"}]
        BY <1>7 DEF DeregisterWorker, WorkerDies, RegistryInv
  <2>. QED  BY <1>4, <1>5, <1>7, <2>1 DEF DeregisterWorker, WorkerDies
<1>8. CASE Tick
  <2>1. /\ DOMAIN new = DOMAIN old /\ UNCHANGED worker
        /\ \A v \in DOMAIN new : new[v] = IF old[v] <= WorkerRegistryExpiry THEN old[v] + 1 ELSE old[v]
        BY <1>8 DEF Tick
  <2>2. DOMAIN old \subseteq Worker /\ \A v \in DOMAIN old : old[v] \in 0..(WorkerRegistryExpiry + 1)
        BY DEF RegistryInv
  <2>3. \A v \in DOMAIN new : new[v] \in 0..(WorkerRegistryExpiry + 1)
        BY <1>1, <2>1, <2>2
  <2>. QED  BY <2>1, <2>2, <2>3 DEF RegistryInv
<1>9. CASE ViewWorkers
      BY <1>4, <1>9 DEF ViewWorkers, RegistryInv
<1>10. CASE Operate
       BY <1>2, <1>10 DEF Operate, ImportCatalog, PublishRelease, RollbackRelease, Activate,
          PatchBegin, PatchCommit, PatchFails, RequeueRead, RequeueMove, RequeueFails, registry
<1>11. CASE Work
  <2>1. \/ UNCHANGED <<worker, silence>> \/ Tick
        \/ \E w \in Worker : RegisterWorker(w) \/ HeartbeatWorker(w) \/ DeregisterWorker(w) \/ WorkerDies(w)
        BY <1>11 DEF Work, Admit, Enqueue, GiveBack, CompleteJob, ClaimJob, StartWorker, Reregister, registry
  <2>. QED  BY <1>2, <1>6, <1>7, <1>8, <2>1
<1>12. CASE View
       BY <1>2, <1>9, <1>12 DEF View, ViewCatalog, ViewJobs, ViewJob, ViewEnds, registry
<1>13. CASE UNCHANGED routingVars
       BY <1>2, <1>13 DEF routingVars, registry
<1>. QED  BY <1>10, <1>11, <1>12, <1>13 DEF RoutingNext

LEMMA RegistryInvStarts ==
  ASSUME RoutingInit
  PROVE  RegistryInv
<1>1. DOMAIN silence = {}
      BY DEF RoutingInit
<1>. QED  BY <1>1 DEF RoutingInit, RegistryInv

\* Every reachable state of the catalog, its operators, the jobs and the registry is
\* typed: a job that is queued or runs has a tag, whatever the overrides.
THEOREM RoutingTyped == RoutingSpec => []RoutingTypeOK
<1>1. CatalogInv /\ JobsInv /\ RegistryInv => RoutingTypeOK
  <2>. SUFFICES ASSUME CatalogInv, JobsInv, RegistryInv PROVE RoutingTypeOK
       OBVIOUS
  <2>1. \A p \in Patcher : patch[p].pc \in {"idle", "locked"} /\ (patch[p].row = <<>> <=> patch[p].pc = "idle")
        BY DEF CatalogInv, PatchRow, Deployed
  <2>2. \A q \in Requeuer : requeue[q].pc \in {"idle", "read"} /\ (requeue[q].row = <<>> <=> requeue[q].pc = "idle")
        BY DEF JobsInv, RequeueTyped, RequeueRow
  <2>3. /\ job \in [Job -> RoutedJob]
        /\ \A j \in Job : job[j].state \in {"queued", "running"} => job[j].tag \in Tag
        BY DEF JobsInv, JobTagged
  <2>. QED  BY <2>1, <2>2, <2>3 DEF RoutingTypeOK, CatalogInv, RegistryInv, RoutedJob
<1>. QED  BY <1>1, CatalogInvStarts, CatalogInvKept, JobsInvStarts, JobsInvKept,
             RegistryInvStarts, RegistryInvKept, PTL DEF RoutingSpec

\* The list of tags, as far as it has come: it has, or is still going to read, each
\* job that has waited since it began, and everything that was watched since then
\* still holds.
ViewRow == [pc: {"idle", "catalog", "jobs", "answer"}, tags: SUBSET Tag, jobs: SUBSET Job,
            live: SUBSET Tag]
IsWatch(x) == x = [waiting |-> x.waiting, routed |-> x.routed, served |-> x.served, unserved |-> x.unserved]
Within(x, y) == /\ x.waiting \subseteq y.waiting /\ x.routed \subseteq y.routed
                /\ x.served \subseteq y.served /\ x.unserved \subseteq y.unserved

Collected ==
  /\ watch.routed \subseteq view.tags
  /\ view.pc = "jobs" => \A waits \in watch.waiting : waits[1] \in view.jobs \/ waits[2] \in view.tags
  /\ view.pc = "answer" =>
       /\ \A waits \in watch.waiting : waits[2] \in view.tags
       /\ view.tags \intersect watch.served \subseteq view.live
       /\ view.tags \intersect watch.unserved \intersect view.live = {}

ViewInv ==
  /\ view \in ViewRow
  /\ IsWatch(watch)
  /\ view.pc # "idle" => Within(watch, Facts) /\ Collected

LEMMA WatchShrinks ==
  ASSUME IsWatch(watch), Watched, view.pc # "idle", view'.pc # "idle"
  PROVE  IsWatch(watch') /\ Within(watch', watch) /\ Within(watch', Facts')
<1>. DEFINE a == watch.waiting
            b == watch.routed
            c == watch.served
            d == watch.unserved
            f == Facts'
<1>1. watch = [waiting |-> a, routed |-> b, served |-> c, unserved |-> d]
      BY DEF IsWatch
<1>2. watch' = [g \in DOMAIN watch |-> watch[g] \intersect f[g]]
      BY DEF Watched
<1>. HIDE DEF a, b, c, d, f
<1>3. watch' = [waiting |-> a \intersect f.waiting, routed |-> b \intersect f.routed,
                served |-> c \intersect f.served, unserved |-> d \intersect f.unserved]
      BY <1>1, <1>2
<1>. QED  BY <1>1, <1>3 DEF IsWatch, Within, f

LEMMA ViewKept ==
  ASSUME ViewInv, Watched, UNCHANGED view
  PROVE  ViewInv'
<1>1. CASE view.pc = "idle"
      BY <1>1 DEF ViewInv, Watched, NoFacts, IsWatch
<1>2. CASE view.pc # "idle"
  <2>1. IsWatch(watch') /\ Within(watch', watch) /\ Within(watch', Facts')
        BY <1>2, WatchShrinks DEF ViewInv
  <2>2. Collected'
        BY <1>2, <2>1 DEF ViewInv, Collected, Within
  <2>. QED  BY <1>2, <2>1, <2>2 DEF ViewInv
<1>. QED  BY <1>1, <1>2

RoutedTags == IF Deployed THEN {Routes(Deployment)[a] : a \in Actions(Deployment)} ELSE {}

LEMMA RoutedTagsTyped ==
  ASSUME CatalogInv
  PROVE  RoutedTags \in SUBSET Tag
<1>1. CASE Deployed
  <2>1. Deployment \in Row
        BY <1>1 DEF CatalogInv, Deployed, Deployment
  <2>2. \A a \in Actions(Deployment) : Routes(Deployment)[a] \in Tag
        BY <2>1, RoutesToTag DEF Routes
  <2>. QED  BY <1>1, <2>2 DEF RoutedTags
<1>2. CASE ~Deployed
      BY <1>2 DEF RoutedTags
<1>. QED  BY <1>1, <1>2

LEMMA ViewInvKept ==
  ASSUME ViewInv, CatalogInv, JobsInv, [RoutingNext]_routingVars
  PROVE  ViewInv'
<1>1. view \in ViewRow /\ IsWatch(watch)
      BY DEF ViewInv
<1>2. CASE UNCHANGED routingVars
  <2>1. UNCHANGED <<view, watch>> /\ Facts' = Facts
        BY <1>2 DEF routingVars, catalog, registry, Facts, Deployed, Deployment, Served, Live
  <2>. QED  BY <2>1 DEF ViewInv, Collected
<1>3. CASE (Operate \/ Work) /\ Watched
  <2>1. UNCHANGED view
        BY <1>3 DEF Operate, ImportCatalog, PublishRelease, RollbackRelease, Activate,
           PatchBegin, PatchCommit, PatchFails, RequeueRead, RequeueMove, RequeueFails,
           Work, Admit, Enqueue, GiveBack, CompleteJob, ClaimJob, StartWorker, Reregister,
           RegisterWorker, HeartbeatWorker, DeregisterWorker, WorkerDies, Tick, others
  <2>. QED  BY <1>3, <2>1, ViewKept
<1>4. CASE ViewCatalog /\ Watched
  <2>. DEFINE x == [NoView EXCEPT !.pc = "catalog", !.tags = RoutedTags]
  <2>1. view' = x /\ view.pc = "idle" /\ UNCHANGED catalog
        BY <1>4 DEF ViewCatalog, RoutedTags
  <2>2. RoutedTags \in SUBSET Tag
        BY RoutedTagsTyped
  <2>3. Facts'.routed = RoutedTags
        BY <2>1 DEF Facts, RoutedTags, catalog, Deployed, Deployment
  <2>. HIDE DEF RoutedTags
  <2>4. x \in ViewRow /\ x.pc = "catalog" /\ x.tags = RoutedTags
        BY <2>2 DEF NoView, ViewRow
  <2>. HIDE DEF x
  <2>5. watch' = Facts'
        BY <1>4, <2>1, <2>4 DEF Watched
  <2>6. IsWatch(Facts')
        BY DEF IsWatch, Facts
  <2>7. view' \in ViewRow /\ view'.pc = "catalog" /\ view'.tags = RoutedTags
        BY <2>1, <2>4
  <2>. QED  BY <2>3, <2>5, <2>6, <2>7 DEF ViewInv, Collected, Within
<1>5. ASSUME view.pc # "idle", view'.pc # "idle", Watched
      PROVE  /\ IsWatch(watch') /\ Within(watch', watch) /\ Within(watch', Facts')
             /\ Within(watch, Facts) /\ Collected
      BY <1>1, <1>5, WatchShrinks DEF ViewInv
<1>6. CASE ViewJobs /\ Watched
  <2>. DEFINE x == [view EXCEPT !.pc = "jobs", !.jobs = {j \in Job : InStore(j)}]
  <2>1. view' = x /\ view.pc = "catalog" /\ UNCHANGED job
        BY <1>6 DEF ViewJobs
  <2>2. x \in ViewRow /\ x.pc = "jobs" /\ x.jobs = {j \in Job : InStore(j)} /\ x.tags = view.tags
        BY <1>1 DEF ViewRow
  <2>. HIDE DEF x
  <2>3. IsWatch(watch') /\ Within(watch', watch) /\ Within(watch', Facts') /\ Collected
        BY <1>5, <1>6, <2>1, <2>2
  <2>4. \A waits \in Facts'.waiting : waits[1] \in {j \in Job : InStore(j)}
        BY <2>1 DEF Facts, InStore
  <2>. QED  BY <2>1, <2>2, <2>3, <2>4 DEF ViewInv, Collected, Within
<1>7. ASSUME NEW j \in Job, ViewJob(j), Watched
      PROVE  ViewInv'
  <2>. DEFINE tags == IF job[j].state = "queued" THEN view.tags \union {job[j].tag} ELSE view.tags
              x == [view EXCEPT !.jobs = view.jobs \ {j}, !.tags = tags]
  <2>1. view' = x /\ view.pc = "jobs" /\ j \in view.jobs /\ UNCHANGED job
        BY <1>1, <1>7 DEF ViewJob, ViewRow
  <2>2. tags \in SUBSET Tag
        BY <1>1 DEF JobsInv, JobTagged, ViewRow
  <2>3. /\ view.tags \subseteq tags
        /\ job[j].state = "queued" => job[j].tag \in tags
        OBVIOUS
  <2>. HIDE DEF tags
  <2>4. x \in ViewRow /\ x.pc = "jobs" /\ x.jobs = view.jobs \ {j} /\ x.tags = tags
        BY <1>1, <2>1, <2>2 DEF ViewRow
  <2>. HIDE DEF x
  <2>5. IsWatch(watch') /\ Within(watch', watch) /\ Within(watch', Facts') /\ Collected
        BY <1>5, <1>7, <2>1, <2>4
  <2>6. \A waits \in Facts'.waiting : waits[1] = j => waits[2] \in tags
        BY <2>1, <2>3 DEF Facts
  <2>. QED  BY <2>1, <2>3, <2>4, <2>5, <2>6 DEF ViewInv, Collected, Within
<1>8. CASE ViewWorkers /\ Watched
  <2>. DEFINE live == {t \in view.tags : Served(t)}
              x == [view EXCEPT !.pc = "answer", !.live = live]
  <2>1. view' = x /\ view.pc = "jobs" /\ view.jobs = {}
        BY <1>8 DEF ViewWorkers
  <2>2. live \subseteq view.tags
        OBVIOUS
  <2>3. /\ \A t \in view.tags : t \in Facts.served => t \in live
        /\ \A t \in live : t \notin Facts.unserved
        BY DEF Facts
  <2>. HIDE DEF live
  <2>4. x \in ViewRow /\ x.pc = "answer" /\ x.live = live /\ x.tags = view.tags
        BY <1>1, <2>2 DEF ViewRow
  <2>. HIDE DEF x
  <2>5. /\ IsWatch(watch') /\ Within(watch', watch) /\ Within(watch', Facts')
        /\ Within(watch, Facts) /\ Collected
        BY <1>5, <1>8, <2>1, <2>4
  <2>6. \A waits \in watch'.waiting : waits[2] \in view.tags
        BY <2>1, <2>5 DEF Collected, Within
  <2>7. view.tags \intersect watch'.served \subseteq live
        BY <2>3, <2>5 DEF Within
  <2>8. view.tags \intersect watch'.unserved \intersect live = {}
        BY <2>3, <2>5 DEF Within
  <2>9. watch'.routed \subseteq view.tags
        BY <2>5 DEF Collected, Within
  <2>. QED  BY <2>1, <2>4, <2>5, <2>6, <2>7, <2>8, <2>9 DEF ViewInv, Collected
<1>9. CASE ViewEnds /\ Watched
  <2>1. view' = NoView /\ NoView \in ViewRow /\ NoView.pc = "idle"
        BY <1>9 DEF ViewEnds, NoView, ViewRow
  <2>2. watch' = NoFacts /\ IsWatch(NoFacts)
        BY <1>9, <2>1 DEF Watched, NoFacts, IsWatch
  <2>. QED  BY <2>1, <2>2 DEF ViewInv
<1>. QED  BY <1>2, <1>3, <1>4, <1>6, <1>7, <1>8, <1>9 DEF RoutingNext, View

LEMMA ViewInvStarts ==
  ASSUME RoutingInit
  PROVE  ViewInv
BY DEF RoutingInit, ViewInv, NoView, ViewRow, NoFacts, IsWatch

\* TagsAnswered: the list of tags (handleCanonicalWorkerTags), which reads the
\* catalog, then the jobs one by one, then the workers, hides no queue and no route
\* that was there all the time, and is right about who serves what all the time.
THEOREM TagsAreAnswered == RoutingSpec => []TagsAnswered
<1>1. ViewInv => TagsAnswered
      BY DEF ViewInv, Collected, TagsAnswered
<1>. QED  BY <1>1, CatalogInvStarts, CatalogInvKept, JobsInvStarts, JobsInvKept,
             ViewInvStarts, ViewInvKept, PTL DEF RoutingSpec
=============================================================================
