----------------------------- MODULE Provisioning -----------------------------
(***************************************************************************)
(* Provisioning (internal/provisioning, and the import request of          *)
(* internal/server/canonical_provisioning.go): documents that declare      *)
(* credentials, variables, clients, sources and input settings are applied *)
(* one after the other, each by looking first and writing then, while      *)
(* requests change the same things and the server may stop.                *)
(*                                                                         *)
(* Sources are those of SourceRegistry, whose file the documents go        *)
(* through.  A dry run, which only reads, and the export are left out.     *)
(***************************************************************************)
EXTENDS SourceRegistry

CONSTANTS
  Applier,        \* the handlers that apply documents
  Docs,           \* the documents of a request, in the order of its files
  Client, Path, Value, NoValue,
  Redacted,       \* the value of a redacted document
  Stored,         \* the variables that are there at first
  MaxApplications \* bound of the model: requests to apply the documents

Doc == [kind: {"GitCredential", "Variable", "Client", "AppSource", "InputSettings"},
        name: Client \union Path \union Name, value: Value \union {Redacted},
        secret: BOOLEAN, at: Location \union {"none"}, branch: Branch \union {"none"}]

ASSUME ProvisioningAssumption ==
  /\ Applier \subseteq Handler /\ MaxApplications \in Nat
  /\ Docs \in Seq(Doc) /\ Docs # <<>>
  /\ NoValue \notin Value /\ Redacted \notin Value
  /\ Stored \in [Path -> [value: Value \union {NoValue}, secret: BOOLEAN, sealed: BOOLEAN]]

VARIABLES
  apply,       \* where each applier is
  variable,    \* the variables: value, whether secret, and whether encrypted
  clients,     \* how many clients are registered with a name
  settings,    \* the input settings of a client
  applications, collided   \* whether two applications ever overlapped

stores == <<variable, clients, settings>>
provisionVars == <<vars, apply, stores, applications, collided>>

Variable   == [value: Value \union {NoValue}, secret: BOOLEAN, sealed: BOOLEAN]
NoVariable == [value |-> NoValue, secret |-> FALSE, sealed |-> FALSE]
Application == [at: {"idle", "done", "next", "found"}, n: 0..Len(Docs), found: Variable,
                alone: BOOLEAN]
NotApplying == [at |-> "idle", n |-> 0, found |-> NoVariable, alone |-> FALSE]

\* Among the types: a sealed value stays marked as secret, or its ciphertext would be
\* handed out as the value.
ProvisionTypeOK ==
  /\ TypeOK
  /\ apply \in [Applier -> Application]
  /\ variable \in [Path -> Variable]
  /\ clients \in [Client -> Nat]
  /\ settings \in [Client -> Value \union {NoValue}]
  /\ applications \in 0..MaxApplications /\ collided \in BOOLEAN
  /\ \A x \in Path : variable[x].sealed => variable[x].secret

ProvisionInit ==
  /\ Init
  /\ apply = [p \in Applier |-> NotApplying]
  /\ variable = Stored
  /\ clients = [c \in Client |-> 0]
  /\ settings = [c \in Client |-> NoValue]
  /\ applications = 0 /\ collided = FALSE

\* Credentials come first, whatever the order of the files.
Order == LET First(d) == d.kind = "GitCredential" Rest(d) == ~First(d)
         IN SelectSeq(Docs, First) \o SelectSeq(Docs, Rest)

Current(p, kind) == apply[p].at = "next" /\ Order[apply[p].n].kind = kind
DocOf(p) == Order[apply[p].n]

Resting(p) == apply[p].at \in {"idle", "done"}
Advance(p) ==
  IF apply[p].n = Len(Order) THEN apply' = [apply EXCEPT ![p] = [NotApplying EXCEPT !.at = "done"]]
  ELSE apply' = [apply EXCEPT ![p].at = "next", ![p].n = @ + 1, ![p].found = NoVariable]
Found(p, x) == apply' = [apply EXCEPT ![p].at = "found", ![p].found = x]
Fail(p)     == apply' = [apply EXCEPT ![p] = NotApplying]

\* What anybody else does may come in between what an application reads and writes.
Disturbed == [q \in Applier |-> [apply[q] EXCEPT !.alone = FALSE]]

\* The request that imports documents passes the same gate as the others.
BeginApply(p) ==
  /\ Resting(p) /\ applications < MaxApplications /\ ~archived
  /\ apply' = [Disturbed EXCEPT ![p] =
       [NotApplying EXCEPT !.at = "next", !.n = 1,
          !.alone = /\ \A q \in Applier : Resting(q)
                    /\ \A h \in Handler : op[h] = NoOp]]
  /\ collided' = (collided \/ \E q \in Applier : ~Resting(q))
  /\ applications' = applications + 1
  /\ UNCHANGED <<vars, stores>>

----------------------------------------------------------------------------
(* The documents.                                                           *)

Declared(d) == LET secret == d.kind = "GitCredential" \/ d.secret
               IN [value |-> d.value, secret |-> secret, sealed |-> secret]

\* A value taken from a variable of the environment or from a file may be missing,
\* and encrypting may fail.
StoreValue(p) ==
  /\ Current(p, "GitCredential") \/ Current(p, "Variable")
  /\ DocOf(p).value # Redacted
  /\ \/ Fail(p) /\ UNCHANGED variable
     \/ Advance(p) /\ variable' = [variable EXCEPT ![DocOf(p).name] = Declared(DocOf(p))]
  /\ UNCHANGED <<vars, clients, settings, applications, collided>>

\* A redacted credential must be there and is left alone.
KeepCredential(p) ==
  /\ Current(p, "GitCredential") /\ DocOf(p).value = Redacted
  /\ IF variable[DocOf(p).name] = NoVariable THEN Fail(p) ELSE Advance(p)
  /\ UNCHANGED <<vars, stores, applications, collided>>

\* A redacted variable must be there, and what was read is written again.
FindVariable(p) ==
  /\ Current(p, "Variable") /\ DocOf(p).value = Redacted
  /\ IF variable[DocOf(p).name] = NoVariable THEN Fail(p)
     ELSE Found(p, variable[DocOf(p).name])
  /\ UNCHANGED <<vars, stores, applications, collided>>
KeepVariableFault(p) ==
  /\ apply[p].at = "found" /\ DocOf(p).kind = "Variable"
  /\ variable' = [variable EXCEPT ![DocOf(p).name] =
                    [apply[p].found EXCEPT !.secret = DocOf(p).secret]]
  /\ Advance(p)
  /\ UNCHANGED <<vars, clients, settings, applications, collided>>
KeepVariable(p) ==
  /\ apply[p].at = "found" /\ DocOf(p).kind = "Variable"
  /\ variable' = [variable EXCEPT ![DocOf(p).name] =
                    [apply[p].found EXCEPT !.secret = @ \/ DocOf(p).secret]]
  /\ Advance(p)
  /\ UNCHANGED <<vars, clients, settings, applications, collided>>

\* A client is looked for by its name, and created if there is none.
FindClientNeverFault(p) ==
  /\ Current(p, "Client")
  /\ Found(p, NoVariable)
  /\ UNCHANGED <<vars, stores, applications, collided>>
FindClient(p) ==
  /\ Current(p, "Client")
  /\ IF clients[DocOf(p).name] > 0 THEN Advance(p) ELSE Found(p, NoVariable)
  /\ UNCHANGED <<vars, stores, applications, collided>>
CreateClient(p) ==
  /\ apply[p].at = "found" /\ DocOf(p).kind = "Client"
  /\ clients' = [clients EXCEPT ![DocOf(p).name] = @ + 1]
  /\ Advance(p)
  /\ UNCHANGED <<vars, variable, settings, applications, collided>>

\* A source is looked for by its name and patched to what is declared, without the
\* check of the patch request, or created.
DeclaredSource(d) == [name |-> d.name, at |-> d.at, branch |-> d.branch]
Named(d) == {i \in Used(file.sources) : file.sources[i].name = d.name}
SourceRequestKeepsBranchFault(d) ==
  IF Named(d) = {} THEN Operation("register", "checked", 0, DeclaredSource(d))
  ELSE Operation("patch", "checked", CHOOSE i \in Named(d) : TRUE,
                 [DeclaredSource(d) EXCEPT !.branch = "none"])
SourceRequest(d) ==
  IF Named(d) = {} THEN Operation("register", "checked", 0, DeclaredSource(d))
  ELSE Operation("patch", "checked", CHOOSE i \in Named(d) : TRUE, DeclaredSource(d))
FindSource(p) ==
  /\ Current(p, "AppSource")
  /\ IF file.state # "whole" THEN Fail(p) /\ UNCHANGED op
     ELSE op' = [op EXCEPT ![p] = SourceRequest(DocOf(p))] /\ Found(p, NoVariable)
  /\ UNCHANGED <<file, tmp, candidates, release, archived, book, overlapped, requests,
                 stores, applications, collided>>

\* The steps of the registry; when they end, so does the document.
ApplySource(p) ==
  /\ apply[p].at = "found" /\ DocOf(p).kind = "AppSource"
  /\ Load(p) \/ Open(p) \/ Write(p) \/ Rename(p)
  /\ IF op'[p] # NoOp THEN UNCHANGED apply
     ELSE IF op[p].at = "written" /\ tmp.state # "absent" THEN Advance(p) ELSE Fail(p)
  /\ UNCHANGED <<stores, applications, collided>>

\* Settings need a client that is declared before them in the same documents.  What
\* is read before they are written only completes redacted ones, which are left out.
ClientKnown(p) == \E m \in 1..apply[p].n - 1 : /\ Order[m].kind = "Client"
                                               /\ Order[m].name = DocOf(p).name
StoreSettings(p) ==
  /\ Current(p, "InputSettings")
  /\ \/ Fail(p) /\ UNCHANGED settings
     \/ /\ ClientKnown(p) /\ Advance(p)
        /\ settings' = [settings EXCEPT ![DocOf(p).name] = DocOf(p).value]
  /\ UNCHANGED <<vars, variable, clients, applications, collided>>

----------------------------------------------------------------------------
(* What goes on besides.                                                    *)

SetVariable(x, new) ==
  /\ requests < MaxRequests /\ ~archived
  /\ requests' = requests + 1
  /\ variable' = [variable EXCEPT ![x] = new]
  /\ apply' = Disturbed
  /\ UNCHANGED <<file, tmp, op, candidates, release, archived, book, overlapped,
                 clients, settings, applications, collided>>

RequestStep(h) ==
  /\ Request(h) \/ Step(h)
  /\ apply' = Disturbed
  /\ UNCHANGED <<stores, applications, collided>>

ServerCrash ==
  /\ \/ Crash
     \/ /\ \A h \in Handler : op[h] = NoOp
        /\ \E p \in Applier : ~Resting(p)
        /\ UNCHANGED vars
  /\ apply' = [p \in Applier |-> NotApplying]
  /\ UNCHANGED <<stores, applications, collided>>

ProvisionNext ==
  \/ \E p \in Applier :
       \/ BeginApply(p)
       \/ StoreValue(p) \/ KeepCredential(p) \/ FindVariable(p) \/ KeepVariable(p)
       \/ FindClient(p) \/ CreateClient(p)
       \/ FindSource(p) \/ ApplySource(p) \/ StoreSettings(p)
  \/ \E h \in Handler \ Applier : RequestStep(h)
  \/ \E x \in Path, v \in Value, b \in BOOLEAN :
       SetVariable(x, [value |-> v, secret |-> b, sealed |-> b])
  \/ ServerCrash
  \/ ArchiveWorkspace /\ UNCHANGED <<apply, stores, applications, collided>>

ProvisionSpec == ProvisionInit /\ [][ProvisionNext]_provisionVars

----------------------------------------------------------------------------
\* ClientsOnce: documents can be applied again and again, and be cut short anywhere,
\* without a client being registered twice, as long as two applications do not
\* overlap (applyClient).
ClientsOnce == ~collided => \A c \in Client : clients[c] <= 1

\* Established: what the documents declare is so.
DocEstablished(d, S, V, C, T) ==
  /\ d.kind \in {"GitCredential", "Variable"} =>
       V[d.name] # NoVariable /\ (d.value # Redacted => V[d.name] = Declared(d))
  /\ d.kind = "Client" => C[d.name] >= 1
  /\ d.kind = "InputSettings" => T[d.name] = d.value
  /\ d.kind = "AppSource" =>
       \E i \in Used(S) : S[i].name = d.name /\ S[i].at = d.at /\ S[i].branch = d.branch
Established(S, V, C, T) == \A n \in 1..Len(Order) : DocEstablished(Order[n], S, V, C, T)

\* The documents are complete, and no two of them declare one thing differently.
DocumentsFit ==
  \A n \in 1..Len(Order) : LET d == Order[n] IN
    /\ d \in Doc
    /\ d.kind \in {"GitCredential", "Variable"} => d.name \in Path
    /\ d.kind \in {"Client", "InputSettings"} => d.name \in Client
    /\ d.kind = "AppSource" => d.name \in Name \ {"none"} /\ d.at # "none" /\ d.branch # "none"
SameThing(d, e) ==
  d.name = e.name /\ (d.kind = e.kind \/ {d.kind, e.kind} = {"GitCredential", "Variable"})
DocumentsApart ==
  \A m, n \in 1..Len(Order) : m # n /\ SameThing(Order[m], Order[n]) =>
    \/ Order[m].kind = "Client"
    \/ Order[m].kind \in {"GitCredential", "Variable"}
         /\ Order[m].value = Redacted /\ Order[n].value = Redacted

\* ApplyEstablishes: an application that ends well, and that nothing disturbed, has
\* established everything its documents declare, whatever was there before and
\* whatever an earlier one that was cut short left behind (Service.Apply).  A file that
\* is not whole holds no source.
Ends(p) == apply[p].at # "done" /\ apply'[p].at = "done"
ApplyEstablishes == [][\A p \in Applier : (apply[p].alone /\ Ends(p)) =>
  Established(file'.sources, variable', clients', settings')]_provisionVars
===============================================================================
