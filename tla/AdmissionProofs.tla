--------------------------- MODULE AdmissionProofs ---------------------------
(***************************************************************************)
(* Admission of runs, for every number of requests, keys, clients, values, *)
(* settings and changes of them.                                           *)
(*                                                                         *)
(* What a request carries from step to step is sound: once resolved, its   *)
(* input is what the settings it read and the request make together, and   *)
(* that is what the run stores.  The overlay is proved once, for all       *)
(* settings; the rest follows the request from reading to writing.         *)
(***************************************************************************)
EXTENDS Admission, JobExecution, TLAPS

\* Only a key that is set is locked, and one that is not set is not a setting.
WellSet(settings) ==
  /\ settings \in [Scope -> Setting]
  /\ \A s \in Scope : settings[s].value = NoValue => settings[s] = NoSetting

Unlocked(c, settings) == \A s \in Applicable(c, settings) : ~settings[s].locked

Admits(x) ==
  /\ WellSet(x.settings)
  /\ x.input = Expected(x.client, x.sent, x.settings)
  /\ x.sent # NoValue => Unlocked(x.client, x.settings)

RequestSound(x) ==
  /\ x \in RequestRow
  /\ x.at = "resolved" => Admits(x)
  /\ x.at = "answered" => x.answer = [key |-> x.key, client |-> x.client]

RunSound(r, x, a, p) ==
  /\ x \in RunRow /\ a \in Nat /\ p \in Nat
  /\ x.state = "absent" => a = p
  /\ x.state # "absent" => a = p + 1 /\ x.client = r.client /\ Admits(x)

SettingsInv ==
  /\ client \in [Client -> {"token", "no_token", "deleted"}]
  /\ WellSet(setting)
  /\ \A s \in Scope : setting[s] = NoSetting \/ s.client = NoClient
                     \/ client[s.client] # "deleted"
  /\ edits \in 0..MaxEdits

RequestsInv == /\ req \in [Request -> RequestRow]
               /\ \A q \in Request : RequestSound(req[q])

RunsInv == /\ run \in [RunId -> RunRow]
           /\ admitted \in [RunId -> Nat] /\ pruned \in [RunId -> Nat]
           /\ \A r \in RunId : RunSound(r, run[r], admitted[r], pruned[r])

AdmissionInv == SettingsInv /\ RequestsInv /\ RunsInv

----------------------------------------------------------------------------
(* The overlay.                                                             *)

LEMMA ScopeTyped ==
  ASSUME NEW c \in Caller, NEW b \in BOOLEAN
  PROVE  [action |-> b, client |-> c] \in Scope
BY DEF Scope

LEMMA NoClientIsCaller == NoClient \in Caller
BY DEF Caller

\* Two settings that apply to one caller are of different ranks.
LEMMA RanksDiffer ==
  ASSUME NEW c \in Caller, NEW settings,
         NEW s \in Applicable(c, settings), NEW t \in Applicable(c, settings),
         Rank(s) = Rank(t)
  PROVE  s = t
<1>1. s \in Scope /\ t \in Scope /\ s.client \in {NoClient, c} /\ t.client \in {NoClient, c}
      BY DEF Applicable
<1>2. s.action \in BOOLEAN /\ t.action \in BOOLEAN
      BY <1>1 DEF Scope
<1>3. s.action = t.action /\ s.client = t.client
      BY <1>1, <1>2 DEF Rank
<1>4. s = [action |-> s.action, client |-> s.client] /\ t = [action |-> t.action, client |-> t.client]
      BY <1>1 DEF Scope
<1>. QED  BY <1>3, <1>4

\* The most specific setting is the one that no other outranks.
LEMMA MostSpecific ==
  ASSUME NEW c \in Caller, NEW settings, NEW s \in Applicable(c, settings),
         \A t \in Applicable(c, settings) : Rank(t) <= Rank(s)
  PROVE  (CHOOSE u \in Applicable(c, settings) :
            \A t \in Applicable(c, settings) : Rank(t) <= Rank(u)) = s
<1> DEFINE Top(u) == \A t \in Applicable(c, settings) : Rank(t) <= Rank(u)
           top == CHOOSE u \in Applicable(c, settings) : Top(u)
<1>1. top \in Applicable(c, settings) /\ Top(top)
  <2>1. Top(s)
        OBVIOUS
  <2>. HIDE DEF Top
  <2>. QED  BY <2>1
<1>2. Rank(s) \in Nat /\ Rank(top) \in Nat
      BY DEF Rank
<1>3. Rank(top) <= Rank(s) /\ Rank(s) <= Rank(top)
      BY <1>1
<1>4. Rank(top) = Rank(s)
      BY <1>2, <1>3
<1>5. top = s
  <2>. HIDE DEF top
  <2>. QED  BY <1>1, <1>4, RanksDiffer
<1>. QED  BY <1>5

\* What the layers of a caller come to: the value of the most specific setting, and
\* locked as soon as one of them is (ResolveInput).
LEMMA LayersTyped ==
  ASSUME NEW c \in Caller, NEW settings, WellSet(settings)
  PROVE  Layers(c, settings) \in Setting
<1>1. \A of \in Caller, b \in BOOLEAN : settings[[action |-> b, client |-> of]] \in Setting
      BY ScopeTyped DEF WellSet
<1>. QED  BY <1>1, NoClientIsCaller DEF Layers, LaidOn, Setting

LEMMA NotSet == /\ NoSetting.value = NoValue
                /\ ~NoSetting.locked
BY DEF NoSetting

LEMMA LayersLock ==
  ASSUME NEW c \in Caller, NEW settings, WellSet(settings), ~Layers(c, settings).locked
  PROVE  Unlocked(c, settings)
<1>1. SUFFICES ASSUME NEW s \in Applicable(c, settings)
               PROVE  ~settings[s].locked
      BY DEF Unlocked
<1>2. s \in Scope /\ s.client \in {NoClient, c}
      BY DEF Applicable
<1>3. s = [action |-> s.action, client |-> s.client] /\ s.action \in BOOLEAN
      BY <1>2 DEF Scope
<1>4. \A of \in {NoClient, c}, b \in BOOLEAN :
         ~settings[[action |-> b, client |-> of]].locked
      BY DEF Layers, LaidOn
<1>. QED  BY <1>2, <1>3, <1>4

LEMMA LayersValue ==
  ASSUME NEW c \in Caller, NEW settings, WellSet(settings)
  PROVE  Layers(c, settings).value =
           IF Applicable(c, settings) = {} THEN NoValue
           ELSE settings[CHOOSE s \in Applicable(c, settings) :
                           \A t \in Applicable(c, settings) : Rank(t) <= Rank(s)].value
<1> DEFINE At(of, b) == [action |-> b, client |-> of]
           shared == At(NoClient, FALSE)
           sharedAction == At(NoClient, TRUE)
           own == At(c, FALSE)
           ownAction == At(c, TRUE)
           Is(s)     == s \in Applicable(c, settings)
           top == CHOOSE s \in Applicable(c, settings) :
                    \A t \in Applicable(c, settings) : Rank(t) <= Rank(s)
<1>1. \A s \in {shared, sharedAction, own, ownAction} :
         s \in Scope /\ (Is(s) <=> settings[s].value # NoValue)
  <2>0. /\ shared \in Scope /\ sharedAction \in Scope /\ own \in Scope /\ ownAction \in Scope
        /\ shared.client = NoClient /\ sharedAction.client = NoClient
        /\ own.client = c /\ ownAction.client = c
        BY ScopeTyped, NoClientIsCaller
  <2>. HIDE DEF shared, sharedAction, own, ownAction
  <2>1. TAKE s \in {shared, sharedAction, own, ownAction}
  <2>2. s \in Scope /\ s.client \in {NoClient, c}
        BY <2>0
  <2>3. settings[s].value = NoValue <=> settings[s] = NoSetting
        BY <2>2, NotSet DEF WellSet
  <2>. QED  BY <2>2, <2>3 DEF Applicable
<1>2. \A s : Is(s) => s \in {shared, sharedAction, own, ownAction}
  <2>1. SUFFICES ASSUME NEW s, Is(s)
                 PROVE  s \in {shared, sharedAction, own, ownAction}
        OBVIOUS
  <2>2. s \in Scope /\ s.client \in {NoClient, c}
        BY <2>1 DEF Applicable
  <2>3. s = [action |-> s.action, client |-> s.client] /\ s.action \in BOOLEAN
        BY <2>2 DEF Scope
  <2>. QED  BY <2>2, <2>3
<1>3. /\ Rank(shared) = 0 /\ Rank(sharedAction) = 1
      /\ c # NoClient => Rank(own) = 2 /\ Rank(ownAction) = 3
      /\ c = NoClient => own = shared /\ ownAction = sharedAction
  <2>1. /\ ~shared.action /\ shared.client = NoClient
        /\ sharedAction.action /\ sharedAction.client = NoClient
        /\ ~own.action /\ own.client = c
        /\ ownAction.action /\ ownAction.client = c
        OBVIOUS
  <2>2. c = NoClient => own = shared /\ ownAction = sharedAction
        OBVIOUS
  <2>. HIDE DEF shared, sharedAction, own, ownAction
  <2>. QED  BY <2>1, <2>2 DEF Rank
<1>4. \A s : Is(s) /\ (\A t : Is(t) => Rank(t) <= Rank(s)) => top = s
      BY MostSpecific
<1>5. Layers(c, settings).value =
        LET Or(low, high) == IF settings[high].value = NoValue THEN low ELSE settings[high].value
            below == Or(settings[shared].value, sharedAction)
        IN IF c = NoClient THEN below
           ELSE IF Is(ownAction) THEN settings[ownAction].value
           ELSE IF Is(own) THEN settings[own].value ELSE below
      BY <1>1 DEF Layers, LaidOn
<1>. HIDE DEF shared, sharedAction, own, ownAction, Is, top
<1>6. CASE c # NoClient /\ Is(ownAction)
  <2>1. \A t : Is(t) => Rank(t) <= Rank(ownAction)
        BY <1>2, <1>3, <1>6
  <2>2. top = ownAction
        BY <1>4, <1>6, <2>1
  <2>3. Applicable(c, settings) # {}
        BY <1>6 DEF Is
  <2>. QED  BY <1>1, <1>5, <1>6, <2>2, <2>3 DEF top
<1>7. CASE c # NoClient /\ ~Is(ownAction) /\ Is(own)
  <2>1. \A t : Is(t) => Rank(t) <= Rank(own)
        BY <1>2, <1>3, <1>7
  <2>2. top = own
        BY <1>4, <1>7, <2>1
  <2>3. Applicable(c, settings) # {}
        BY <1>7 DEF Is
  <2>. QED  BY <1>1, <1>5, <1>7, <2>2, <2>3 DEF top
<1>8. CASE /\ c # NoClient => ~Is(ownAction) /\ ~Is(own)
           /\ Is(sharedAction)
  <2>1. \A t : Is(t) => Rank(t) <= Rank(sharedAction)
        BY <1>2, <1>3, <1>8
  <2>2. top = sharedAction
        BY <1>4, <1>8, <2>1
  <2>3. Applicable(c, settings) # {}
        BY <1>8 DEF Is
  <2>. QED  BY <1>1, <1>5, <1>8, <2>2, <2>3 DEF top
<1>9. CASE /\ c # NoClient => ~Is(ownAction) /\ ~Is(own)
           /\ ~Is(sharedAction) /\ Is(shared)
  <2>1. \A t : Is(t) => Rank(t) <= Rank(shared)
        BY <1>2, <1>3, <1>9
  <2>2. top = shared
        BY <1>4, <1>9, <2>1
  <2>3. Applicable(c, settings) # {}
        BY <1>9 DEF Is
  <2>. QED  BY <1>1, <1>5, <1>9, <2>2, <2>3 DEF top
<1>10. CASE /\ c # NoClient => ~Is(ownAction) /\ ~Is(own)
            /\ ~Is(sharedAction) /\ ~Is(shared)
  <2>1. \A t : ~Is(t)
        BY <1>2, <1>3, <1>10
  <2>2. Applicable(c, settings) = {}
        BY <2>1 DEF Is
  <2>. QED  BY <1>1, <1>5, <1>10, <2>2
<1>. QED  BY <1>6, <1>7, <1>8, <1>9, <1>10

\* OverlayCorrect: a request that the overlay of its settings lets through gets the
\* input that the settings and the request make together, and leaves locked keys
\* alone, whatever is set for the app, the action, the client and both (ResolveInput,
\* ApplyInputOverlay).
THEOREM OverlayCorrect ==
  ASSUME NEW c \in Caller, NEW sent \in Input, NEW settings, WellSet(settings),
         ~ResolveInput(c, sent, settings).rejected
  PROVE  /\ ResolveInput(c, sent, settings).value \in Input
         /\ ResolveInput(c, sent, settings).value = Expected(c, sent, settings)
         /\ sent # NoValue => Unlocked(c, settings)
<1>1. Layers(c, settings) \in Setting
      BY LayersTyped
<1>2. sent # NoValue => ~Layers(c, settings).locked
      BY DEF ResolveInput, ApplyInputOverlay
<1>3. sent # NoValue => Unlocked(c, settings)
      BY <1>2, LayersLock
<1>4. ResolveInput(c, sent, settings).value =
        IF sent = NoValue THEN Layers(c, settings).value ELSE sent
      BY DEF ResolveInput, ApplyInputOverlay
<1>5. CASE sent = NoValue
      BY <1>1, <1>4, <1>5, LayersValue DEF Expected, Setting
<1>6. CASE sent # NoValue
      BY <1>3, <1>4, <1>6 DEF Expected, Unlocked
<1>. QED  BY <1>3, <1>5, <1>6

----------------------------------------------------------------------------
(* What a step does to the requests and to the runs.                        *)

\* One request goes on and is sound again.
RequestBecomes(q, x) == RequestSound(x) /\ req' = [req EXCEPT ![q] = x]

LEMMA RequestStep ==
  ASSUME RequestsInv, NEW q \in Request, NEW x, RequestBecomes(q, x)
  PROVE  RequestsInv'
<1>1. x \in RequestRow /\ RequestSound(x)
      BY DEF RequestBecomes, RequestSound
<1>2. req' \in [Request -> RequestRow]
      BY <1>1 DEF RequestBecomes, RequestsInv
<1>3. \A p \in Request : RequestSound(req'[p])
      BY <1>1 DEF RequestBecomes, RequestsInv
<1>. QED  BY <1>2, <1>3 DEF RequestsInv

\* One run goes on, with its counters, and is sound again.
RunBecomes(r, x, a, p) ==
  /\ RunSound(r, x, a, p)
  /\ run' = [run EXCEPT ![r] = x]
  /\ admitted' = [admitted EXCEPT ![r] = a]
  /\ pruned' = [pruned EXCEPT ![r] = p]

LEMMA RunStep ==
  ASSUME RunsInv, NEW r \in RunId, NEW x, NEW a, NEW p, RunBecomes(r, x, a, p)
  PROVE  RunsInv'
<1>1. x \in RunRow /\ a \in Nat /\ p \in Nat /\ RunSound(r, x, a, p)
      BY DEF RunBecomes, RunSound
<1>2. run' \in [RunId -> RunRow] /\ admitted' \in [RunId -> Nat] /\ pruned' \in [RunId -> Nat]
      BY <1>1 DEF RunBecomes, RunsInv
<1>3. \A u \in RunId : RunSound(u, run'[u], admitted'[u], pruned'[u])
      BY <1>1 DEF RunBecomes, RunsInv
<1>. QED  BY <1>2, <1>3 DEF RunsInv

LEMMA RequestsStay == ASSUME RequestsInv, UNCHANGED req PROVE RequestsInv'
BY DEF RequestsInv

LEMMA RunsStay == ASSUME RunsInv, UNCHANGED <<run, admitted, pruned>> PROVE RunsInv'
BY DEF RunsInv

LEMMA SettingsStay ==
  ASSUME SettingsInv, UNCHANGED <<client, setting, edits>> PROVE SettingsInv'
BY DEF SettingsInv

\* A request moves on without changing what it carries.
LEMMA RequestGoesTo ==
  ASSUME RequestsInv, NEW q \in Request,
         NEW at \in {"looked_up", "conflict", "refused"}, GoTo(q, at)
  PROVE  RequestsInv'
<1>1. PICK x \in RequestRow : x = req[q]
      BY DEF RequestsInv
<1>2. DEFINE y == [x EXCEPT !.at = at]
<1>3. RequestSound(y)
      BY DEF RequestSound, RequestRow
<1>4. req' = [req EXCEPT ![q] = y]
      BY <1>1 DEF GoTo, RequestsInv
<1>. HIDE DEF y
<1>5. RequestBecomes(q, y)
      BY <1>3, <1>4 DEF RequestBecomes
<1>. QED  BY <1>5, RequestStep

LEMMA RunOfTyped ==
  ASSUME RequestsInv, NEW q \in Request
  PROVE  RunOf(q) \in RunId /\ RunOf(q).key = req[q].key /\ RunOf(q).client = req[q].client
BY DEF RequestsInv, RunOf, RequestRow, RunId

LEMMA RequestAnswered ==
  ASSUME RequestsInv, NEW q \in Request, AnswerWith(q)
  PROVE  RequestsInv'
<1>1. PICK x \in RequestRow : x = req[q]
      BY DEF RequestsInv
<1>2. DEFINE y == [x EXCEPT !.at = "answered", !.answer = RunOf(q)]
<1>3. RequestSound(y)
  <2>1. RunOf(q) = [key |-> y.key, client |-> y.client]
        BY <1>1 DEF RunOf, RequestRow
  <2>2. y \in RequestRow
        BY RunOfTyped DEF RequestRow
  <2>. QED  BY <2>1, <2>2 DEF RequestSound, RequestRow
<1>4. req' = [req EXCEPT ![q] = y]
      BY <1>1 DEF AnswerWith, RequestsInv
<1>. HIDE DEF y
<1>5. RequestBecomes(q, y)
      BY <1>3, <1>4 DEF RequestBecomes
<1>. QED  BY <1>5, RequestStep

LEMMA CarriedTyped ==
  /\ NoSettings \in [Scope -> Setting] /\ WellSet(NoSettings)
  /\ Absent \in RunRow
  /\ \A k \in Key : RequestSound(NoRequest(k))
<1>1. NoSetting \in Setting
      BY DEF NoSetting, Setting, Input
<1>2. NoSettings \in [Scope -> Setting] /\ WellSet(NoSettings)
      BY <1>1 DEF NoSettings, WellSet
<1>3. NoClient \in Caller /\ NoValue \in Input
      BY DEF Caller, Input
<1>4. Absent \in RunRow
      BY <1>2, <1>3 DEF Absent, RunRow
<1>5. \A k \in Key : RequestSound(NoRequest(k))
      BY <1>2, <1>3 DEF NoRequest, RequestSound, RequestRow
<1>. QED  BY <1>2, <1>4, <1>5

----------------------------------------------------------------------------
(* The invariant.                                                           *)

LEMMA AdmissionInitially == Init => AdmissionInv
<1>. SUFFICES ASSUME Init PROVE AdmissionInv
     OBVIOUS
<1>1. SettingsInv
  <2>1. client \in [Client -> {"token", "no_token", "deleted"}]
        BY DEF Init
  <2>2. \A s \in Scope : setting[s] = NoSetting
        BY DEF Init, NoSettings
  <2>3. edits \in 0..MaxEdits
        BY ConstantAssumption DEF Init
  <2>. QED  BY <2>1, <2>2, <2>3, CarriedTyped DEF Init, SettingsInv
<1>2. RequestsInv
  <2>1. PICK k \in Key : req = [q \in Request |-> NoRequest(k)]
        BY ConstantAssumption DEF Init
  <2>2. RequestSound(NoRequest(k)) /\ NoRequest(k) \in RequestRow
        BY CarriedTyped DEF RequestSound
  <2>. QED  BY <2>1, <2>2 DEF RequestsInv
<1>3. RunsInv
  <2>1. \A r \in RunId : RunSound(r, Absent, 0, 0)
        BY CarriedTyped DEF RunSound, Absent
  <2>2. run \in [RunId -> RunRow] /\ admitted \in [RunId -> Nat] /\ pruned \in [RunId -> Nat]
        BY CarriedTyped DEF Init
  <2>. QED  BY <2>1, <2>2 DEF Init, RunsInv
<1>. QED  BY <1>1, <1>2, <1>3 DEF AdmissionInv

LEMMA ClientsStep ==
  ASSUME AdmissionInv, NEW c \in Client,
         RotateClientToken(c) \/ RevokeClientToken(c) \/ DeleteClient(c)
  PROVE  AdmissionInv'
<1>. USE DEF AdmissionInv
<1>1. RequestsInv' /\ RunsInv'
  <2>1. UNCHANGED <<req, run, admitted, pruned>>
        BY DEF RotateClientToken, RevokeClientToken, DeleteClient
  <2>. QED  BY <2>1, RequestsStay, RunsStay
<1>2. edits' \in 0..MaxEdits
      BY ConstantAssumption DEF Edit, SettingsInv, RotateClientToken, RevokeClientToken, DeleteClient
<1>3. c \in Caller /\ NoSetting \in Setting
      BY DEF NoSetting, Setting, Input, Caller
<1>4. CASE RotateClientToken(c) \/ RevokeClientToken(c)
  <2>1. client' \in [Client -> {"token", "no_token", "deleted"}] /\ setting' = setting
        BY <1>4 DEF SettingsInv, RotateClientToken, RevokeClientToken
  <2>2. \A t \in Client : client[t] # "deleted" => client'[t] # "deleted"
        BY <1>4 DEF SettingsInv, RotateClientToken, RevokeClientToken
  <2>3. \A t \in Scope : t.client = NoClient \/ t.client \in Client
        BY DEF Scope, Caller
  <2>. QED  BY <1>1, <1>2, <2>1, <2>2, <2>3 DEF SettingsInv, WellSet
<1>5. CASE DeleteClient(c)
  <2>1. client' \in [Client -> {"token", "no_token", "deleted"}]
        BY <1>5 DEF SettingsInv, DeleteClient
  <2>2. WellSet(setting')
        BY <1>3, <1>5 DEF SettingsInv, WellSet, DeleteClient
  <2>3. \A t \in Scope : setting'[t] = NoSetting \/ t.client = NoClient
                         \/ client'[t.client] # "deleted"
        BY <1>5 DEF SettingsInv, DeleteClient, Scope, Caller
  <2>. QED  BY <1>1, <1>2, <2>1, <2>2, <2>3 DEF SettingsInv
<1>. QED  BY <1>4, <1>5

LEMMA SettingsStep ==
  ASSUME AdmissionInv, NEW s \in Scope,
         DeleteInputConfig(s) \/ \E new \in Setting : SetInputConfig(s, new)
  PROVE  AdmissionInv'
<1>. USE DEF AdmissionInv
<1>1. UNCHANGED <<client, req, run, admitted, pruned>> /\ Edit
      BY DEF DeleteInputConfig, SetInputConfig
<1>2. RequestsInv' /\ RunsInv'
      BY <1>1, RequestsStay, RunsStay
<1>3. edits' \in 0..MaxEdits
      BY <1>1, ConstantAssumption DEF Edit, SettingsInv
<1>4. NoSetting \in Setting
      BY DEF NoSetting, Setting, Input
<1>5. CASE DeleteInputConfig(s)
  <2>1. WellSet(setting')
        BY <1>4, <1>5 DEF SettingsInv, WellSet, DeleteInputConfig
  <2>. QED  BY <1>1, <1>2, <1>3, <1>5, <2>1 DEF SettingsInv, WellSet, DeleteInputConfig
<1>6. CASE \E new \in Setting : SetInputConfig(s, new)
  <2>1. PICK new \in Setting : SetInputConfig(s, new)
        BY <1>6
  <2>2. WellSet(setting')
        BY <2>1 DEF SettingsInv, WellSet, SetInputConfig
  <2>. QED  BY <1>1, <1>2, <1>3, <2>1, <2>2 DEF SettingsInv, WellSet, SetInputConfig
<1>. QED  BY <1>5, <1>6

LEMMA RequestsStep ==
  ASSUME AdmissionInv, NEW q \in Request, NEW c \in Caller, NEW k \in Key, NEW v \in Input,
         \/ PublicRequest(q, c, k, v) \/ ExecutionRequest(q, c, k, v)
         \/ LookUp(q) \/ Resolve(q) \/ Refuse(q)
         \/ CreateRunAndEnqueue(q) \/ AnswerConflict(q)
  PROVE  AdmissionInv'
<1>. USE DEF AdmissionInv
<1>1. SettingsInv'
  <2>1. UNCHANGED <<client, setting, edits>>
        BY DEF PublicRequest, ExecutionRequest, Receive, LookUp, Resolve, Refuse,
               CreateRunAndEnqueue, AnswerConflict
  <2>. QED  BY <2>1, SettingsStay
<1>2. PICK x \in RequestRow : x = req[q] /\ RequestSound(x)
      BY DEF RequestsInv
<1>3. CASE PublicRequest(q, c, k, v) \/ ExecutionRequest(q, c, k, v)
  <2>1. Receive(q, c, k, v)
        BY <1>3 DEF PublicRequest, ExecutionRequest
  <2>2. DEFINE y == [x EXCEPT !.at = "authorized", !.client = c, !.key = k, !.sent = v]
  <2>3. RequestSound(y)
        BY DEF RequestSound, RequestRow
  <2>4. req' = [req EXCEPT ![q] = y]
        BY <1>2, <2>1 DEF Receive, RequestsInv
  <2>. HIDE DEF y
  <2>5. RequestBecomes(q, y)
        BY <2>3, <2>4 DEF RequestBecomes
  <2>6. RunsInv'
        BY <2>1, RunsStay DEF Receive
  <2>. QED  BY <1>1, <2>5, <2>6, RequestStep
<1>4. CASE LookUp(q)
  <2>1. GoTo(q, "refused") \/ AnswerWith(q) \/ GoTo(q, "looked_up")
        BY <1>4 DEF LookUp
  <2>2. RunsInv'
        BY <1>4, RunsStay DEF LookUp
  <2>. QED  BY <1>1, <2>1, <2>2, RequestGoesTo, RequestAnswered
<1>5. CASE Resolve(q)
  <2>1. RunsInv'
        BY <1>5, RunsStay DEF Resolve
  <2>2. CASE GoTo(q, "refused")
        BY <1>1, <2>1, <2>2, RequestGoesTo
  <2>3. CASE ~GoTo(q, "refused")
    <3>1. DEFINE effective == ResolveInput(x.client, x.sent, setting)
                 y == [x EXCEPT !.at = "resolved", !.input = effective.value, !.settings = setting]
    <3>2. ~effective.rejected /\ req' = [req EXCEPT ![q] = y]
          BY <1>2, <1>5, <2>3 DEF Resolve, RequestsInv
    <3>3. x.client \in Caller /\ x.sent \in Input /\ WellSet(setting)
          BY DEF RequestRow, SettingsInv
    <3>4. /\ effective.value \in Input
          /\ effective.value = Expected(x.client, x.sent, setting)
          /\ x.sent # NoValue => Unlocked(x.client, setting)
          BY <3>2, <3>3, OverlayCorrect
    <3>. HIDE DEF effective
    <3>5. y \in RequestRow
          BY <3>3, <3>4 DEF RequestRow, WellSet
    <3>6. /\ y.client = x.client /\ y.sent = x.sent /\ y.input = effective.value
          /\ y.settings = setting /\ y.at = "resolved"
          BY DEF RequestRow
    <3>. HIDE DEF y
    <3>7. RequestBecomes(q, y)
          BY <3>2, <3>3, <3>4, <3>5, <3>6 DEF RequestBecomes, RequestSound, Admits
    <3>. QED  BY <1>1, <2>1, <3>7, RequestStep
  <2>. QED  BY <2>2, <2>3
<1>6. CASE Refuse(q)
  <2>1. GoTo(q, "refused")
        BY <1>6 DEF Refuse
  <2>2. RunsInv'
        BY <1>6, RunsStay DEF Refuse
  <2>. QED  BY <1>1, <2>1, <2>2, RequestGoesTo
<1>7. CASE CreateRunAndEnqueue(q)
  <2>1. RequestsInv'
    <3>1. AnswerWith(q) \/ GoTo(q, "conflict")
          BY <1>7 DEF CreateRunAndEnqueue
    <3>. QED  BY <3>1, RequestGoesTo, RequestAnswered
  <2>2. CASE run[RunOf(q)].state # "absent"
    <3>1. UNCHANGED <<run, admitted, pruned>>
          BY <1>7, <2>2 DEF CreateRunAndEnqueue
    <3>. QED  BY <1>1, <2>1, <3>1, RunsStay
  <2>3. CASE run[RunOf(q)].state = "absent"
    <3>1. PICK r \in RunId : r = RunOf(q) /\ r.client = x.client
          BY <1>2, RunOfTyped
    <3>2. PICK y : y = NewRun(q)
          OBVIOUS
    <3>3. /\ y \in RunRow /\ y.state = "queued" /\ y.client = x.client
          /\ y.input = x.input /\ y.sent = x.sent /\ y.settings = x.settings
          BY <1>2, <3>2 DEF NewRun, RunRow, RequestRow
    <3>4. Admits(x)
          BY <1>2, <1>7 DEF RequestSound, CreateRunAndEnqueue
    <3>5. PICK a \in Nat, p \in Nat : /\ a = admitted[r] /\ p = pruned[r] /\ a = p
          BY <2>3, <3>1 DEF RunsInv, RunSound
    <3>6. RunSound(r, y, a + 1, p)
          BY <3>1, <3>3, <3>4, <3>5 DEF RunSound, Admits
    <3>7. RunBecomes(r, y, a + 1, p)
          BY <1>7, <2>3, <3>1, <3>2, <3>5, <3>6 DEF CreateRunAndEnqueue, RunBecomes, RunsInv
    <3>. QED  BY <1>1, <2>1, <3>7, RunStep
  <2>. QED  BY <2>2, <2>3
<1>8. CASE AnswerConflict(q)
  <2>1. AnswerWith(q) \/ GoTo(q, "refused")
        BY <1>8 DEF AnswerConflict
  <2>2. RunsInv'
        BY <1>8, RunsStay DEF AnswerConflict
  <2>. QED  BY <1>1, <2>1, <2>2, RequestGoesTo, RequestAnswered
<1>. QED  BY <1>3, <1>4, <1>5, <1>6, <1>7, <1>8

LEMMA InputSeenTyped ==
  ASSUME AdmissionInv, NEW r \in RunId, NEW w
  PROVE  InputSeen(r, w) \in Input \union {"nothing", "refused"}
<1>1. run[r].client \in Caller /\ run[r].input \in Input /\ WellSet(setting)
      BY DEF AdmissionInv, RunsInv, RunRow, SettingsInv
<1>2. DEFINE again == ResolveInput(run[r].client, run[r].input, setting)
<1>3. ~again.rejected => again.value \in Input
      BY <1>1, OverlayCorrect
<1>. QED  BY <1>1, <1>3 DEF InputSeen

\* A run's job goes on, and what was admitted with the run stays.
LEMMA JobGoesOn ==
  ASSUME AdmissionInv, NEW r \in RunId, NEW y \in RunRow,
         run[r].state # "absent", y.state # "absent",
         y.client = run[r].client, y.input = run[r].input, y.sent = run[r].sent,
         y.settings = run[r].settings,
         run' = [run EXCEPT ![r] = y], UNCHANGED <<client, setting, req, admitted, pruned, edits>>
  PROVE  AdmissionInv'
<1>1. PICK x, a, p : /\ x = run[r] /\ a = admitted[r] /\ p = pruned[r]
                     /\ RunSound(r, x, a, p)
      BY DEF AdmissionInv, RunsInv
<1>2. RunSound(r, y, a, p)
      BY <1>1 DEF RunSound, Admits
<1>3. RunBecomes(r, y, a, p)
      BY <1>1, <1>2 DEF RunBecomes, AdmissionInv, RunsInv
<1>. QED  BY <1>3, RunStep, SettingsStay, RequestsStay DEF AdmissionInv

\* What a claim writes.
Claimed(x, i) == [x EXCEPT !.jobs = x.jobs + 1, !.seen = i,
                           !.state = IF i = "refused" THEN "failed" ELSE "running"]

LEMMA ClaimWrites ==
  ASSUME RunsInv, NEW r \in RunId, NEW w, ClaimJob(r, w)
  PROVE  run' = [run EXCEPT ![r] = Claimed(run[r], InputSeen(r, w))]
<1>1. PICK i : i = InputSeen(r, w)
      OBVIOUS
<1>2. run' = [run EXCEPT ![r].jobs = @ + 1, ![r].seen = i,
                  ![r].state = IF i = "refused" THEN "failed" ELSE "running"]
      BY <1>1 DEF ClaimJob
<1>. QED  BY <1>1, <1>2 DEF Claimed, RunsInv, RunRow

LEMMA JobsStep ==
  ASSUME AdmissionInv, NEW r \in RunId, NEW w,
         \/ ClaimJob(r, w) \/ AttemptEnds(r) \/ RetryRun(r) \/ ResumeHumanTask(r)
         \/ PruneSettledJobs(r)
  PROVE  AdmissionInv'
<1>1. PICK x \in RunRow : x = run[r]
      BY DEF AdmissionInv, RunsInv
<1>2. CASE ClaimJob(r, w)
  <2>1. PICK i \in Input \union {"nothing", "refused"} : i = InputSeen(r, w)
        BY InputSeenTyped
  <2>2. DEFINE y == Claimed(x, i)
  <2>3. /\ y \in RunRow /\ x.state # "absent" /\ y.state # "absent"
        /\ y.client = x.client /\ y.input = x.input /\ y.sent = x.sent /\ y.settings = x.settings
    <3>1. x.state = "queued" /\ y.state \in {"failed", "running"} /\ x.jobs + 1 \in Nat
          BY <1>1, <1>2 DEF ClaimJob, RunRow, Claimed
    <3>. QED  BY <3>1 DEF RunRow, Claimed
  <2>4. run' = [run EXCEPT ![r] = y] /\ UNCHANGED <<client, setting, req, admitted, pruned, edits>>
        BY <1>1, <1>2, <2>1, ClaimWrites DEF ClaimJob, AdmissionInv
  <2>. HIDE DEF y
  <2>. QED  BY <1>1, <2>3, <2>4, JobGoesOn
<1>3. CASE AttemptEnds(r)
  <2>1. PICK s \in {"succeeded", "failed", "waiting", "queued"} : run' = [run EXCEPT ![r].state = s]
        BY <1>3 DEF AttemptEnds
  <2>2. DEFINE y == [x EXCEPT !.state = s]
  <2>3. /\ y \in RunRow /\ x.state # "absent" /\ y.state # "absent"
        /\ y.client = x.client /\ y.input = x.input /\ y.sent = x.sent /\ y.settings = x.settings
        BY <1>1, <1>3 DEF AttemptEnds, RunRow
  <2>4. run' = [run EXCEPT ![r] = y] /\ UNCHANGED <<client, setting, req, admitted, pruned, edits>>
        BY <1>1, <1>3, <2>1 DEF AttemptEnds
  <2>. HIDE DEF y
  <2>. QED  BY <1>1, <2>3, <2>4, JobGoesOn
<1>4. CASE RetryRun(r) \/ ResumeHumanTask(r)
  <2>1. NewJob(r) /\ UNCHANGED <<client, setting, req, admitted, pruned, edits>>
        BY <1>4 DEF RetryRun, ResumeHumanTask
  <2>2. DEFINE y == [x EXCEPT !.state = "queued", !.jobResolved = Store = "local" /\ x.runResolved]
  <2>3. /\ y \in RunRow /\ x.state # "absent" /\ y.state # "absent"
        /\ y.client = x.client /\ y.input = x.input /\ y.sent = x.sent /\ y.settings = x.settings
        BY <1>1, <1>4 DEF RetryRun, ResumeHumanTask, RunRow
  <2>4. run' = [run EXCEPT ![r] = y]
        BY <1>1, <2>1 DEF NewJob
  <2>. HIDE DEF y
  <2>. QED  BY <1>1, <2>1, <2>3, <2>4, JobGoesOn
<1>5. CASE PruneSettledJobs(r)
  <2>1. PICK a \in Nat, p \in Nat : /\ a = admitted[r] /\ p = pruned[r] /\ a = p + 1
        BY <1>5 DEF PruneSettledJobs, AdmissionInv, RunsInv, RunSound
  <2>2. RunSound(r, Absent, a, p + 1)
        BY <2>1, CarriedTyped DEF RunSound, Absent
  <2>3. RunBecomes(r, Absent, a, p + 1)
        BY <1>5, <2>1, <2>2 DEF RunBecomes, PruneSettledJobs, AdmissionInv, RunsInv
  <2>4. UNCHANGED <<client, setting, req, edits>>
        BY <1>5 DEF PruneSettledJobs
  <2>. QED  BY <2>3, <2>4, RunStep, SettingsStay, RequestsStay DEF AdmissionInv
<1>. QED  BY <1>2, <1>3, <1>4, <1>5

LEMMA AdmissionInvStep == AdmissionInv /\ [Next]_vars => AdmissionInv'
<1>. SUFFICES ASSUME AdmissionInv, [Next]_vars PROVE AdmissionInv'
     OBVIOUS
<1>1. CASE UNCHANGED vars
      BY <1>1, SettingsStay, RequestsStay, RunsStay DEF vars, AdmissionInv
<1>2. CASE \E c \in Client : RotateClientToken(c) \/ RevokeClientToken(c) \/ DeleteClient(c)
      BY <1>2, ClientsStep
<1>3. CASE \E s \in Scope : DeleteInputConfig(s) \/ \E new \in Setting : SetInputConfig(s, new)
      BY <1>3, SettingsStep
<1>4. CASE \E q \in Request : \E c \in Caller, k \in Key, v \in Input :
             PublicRequest(q, c, k, v) \/ ExecutionRequest(q, c, k, v)
      BY <1>4, RequestsStep
<1>5. CASE \E q \in Request : \/ LookUp(q) \/ Resolve(q) \/ Refuse(q)
                             \/ CreateRunAndEnqueue(q) \/ AnswerConflict(q)
  <2>1. PICK c \in Caller, k \in Key, v \in Input : TRUE
        BY ConstantAssumption DEF Caller, Input
  <2>. QED  BY <1>5, <2>1, RequestsStep
<1>6. CASE \E r \in RunId :
             \/ \E w \in Claimer : ClaimJob(r, w)
             \/ AttemptEnds(r) \/ RetryRun(r) \/ ResumeHumanTask(r) \/ PruneSettledJobs(r)
      BY <1>6, JobsStep
<1>. QED  BY <1>1, <1>2, <1>3, <1>4, <1>5, <1>6 DEF Next

\* AdmissionInvCorrect: what requests carry and runs store is sound at every moment.
THEOREM AdmissionInvCorrect == Spec => []AdmissionInv
BY AdmissionInitially, AdmissionInvStep, PTL DEF Spec

\* AdmissionTyped: the state keeps its types, and settings are kept for registered
\* clients only.
THEOREM AdmissionTyped == Spec => []TypeOK
<1>1. AdmissionInv => TypeOK
      BY DEF AdmissionInv, SettingsInv, WellSet, RequestsInv, RunsInv, TypeOK
<1>. QED  BY <1>1, AdmissionInvCorrect, PTL

\* OneRunAnswers: a run is created once until retention deletes it, and every answer
\* names a run of the request's own client and key.
THEOREM OneRunAnswers == Spec => []AnswersOneRun
<1>1. AdmissionInv => AnswersOneRun
  <2>. SUFFICES ASSUME AdmissionInv PROVE AnswersOneRun
       OBVIOUS
  <2>1. ASSUME NEW r \in RunId PROVE admitted[r] <= 1 + pruned[r]
    <3>1. PICK a, p : a = admitted[r] /\ p = pruned[r] /\ RunSound(r, run[r], a, p)
          BY DEF AdmissionInv, RunsInv
    <3>. QED  BY <3>1 DEF RunSound
  <2>2. ASSUME NEW q \in Request, req[q].at = "answered"
        PROVE  LET r == req[q].answer IN
                 run[r].state = "absent" \/ (run[r].client = req[q].client /\ r.key = req[q].key)
    <3>1. req[q].answer = RunOf(q)
          BY <2>2 DEF AdmissionInv, RequestsInv, RequestSound, RunOf
    <3>2. PICK r \in RunId : r = RunOf(q) /\ r.key = req[q].key /\ r.client = req[q].client
          BY RunOfTyped DEF AdmissionInv
    <3>3. run[r].state = "absent" \/ run[r].client = r.client
          BY DEF AdmissionInv, RunsInv, RunSound
    <3>. QED  BY <3>1, <3>2, <3>3
  <2>. QED  BY <2>1, <2>2 DEF AnswersOneRun
<1>. QED  BY <1>1, AdmissionInvCorrect, PTL

\* LockedKeysAreKept: a run is admitted with the input that its settings and the
\* request make together, and never with a value of the request for a locked key.
THEOREM LockedKeysAreKept == Spec => []LockedKeysHold
<1>1. AdmissionInv => LockedKeysHold
      BY DEF AdmissionInv, RunsInv, RunSound, Admits, Unlocked, LockedKeysHold
<1>. QED  BY <1>1, AdmissionInvCorrect, PTL

----------------------------------------------------------------------------
(* What an action is given, where only local workers claim jobs of the      *)
(* local store.                                                             *)

JobSound(x) ==
  /\ x.state # "absent" => x.runResolved /\ x.jobResolved
  /\ x.seen \in {"nothing", x.input}

JobsInv == AdmissionInv /\ \A r \in RunId : JobSound(run[r])

\* AdmittedInputSeen: with the local store and its local workers, a job is given the
\* input its run was admitted with, whatever is set, retried or resumed in between.
\* (Neither holds of the worker plane, nor of runs retried on PostgreSQL.)
THEOREM AdmittedInputSeen ==
  ASSUME Store = "local", Claimer = {"local"}
  PROVE  Spec => []RunsAdmittedInput
<1>1. Init => JobsInv
      BY AdmissionInitially DEF Init, JobsInv, JobSound, Absent
<1>2. JobsInv /\ [Next]_vars => JobsInv'
  <2>. SUFFICES ASSUME JobsInv, [Next]_vars, NEW u \in RunId PROVE JobSound(run'[u])
       BY AdmissionInvStep DEF JobsInv
  <2>1. run \in [RunId -> RunRow] /\ RequestsInv
        BY DEF JobsInv, AdmissionInv, RunsInv
  <2>2. PICK x \in RunRow : x = run[u] /\ JobSound(x)
        BY <2>1 DEF JobsInv
  <2>3. CASE UNCHANGED run
        BY <2>2, <2>3
  <2>4. CASE \E q \in Request : CreateRunAndEnqueue(q)
    <3>1. PICK q \in Request : CreateRunAndEnqueue(q)
          BY <2>4
    <3>2. CASE run' = run
          BY <2>2, <3>2
    <3>3. CASE run' = [run EXCEPT ![RunOf(q)] = NewRun(q)]
      <4>1. JobSound(NewRun(q))
            BY DEF NewRun, JobSound
      <4>. QED  BY <2>1, <2>2, <3>3, <4>1
    <3>. QED  BY <3>1, <3>2, <3>3 DEF CreateRunAndEnqueue
  <2>5. CASE \E r \in RunId : ClaimJob(r, "local")
    <3>1. PICK r \in RunId : ClaimJob(r, "local")
          BY <2>5
    <3>2. CASE r # u
          BY <2>1, <2>2, <3>1, <3>2 DEF ClaimJob
    <3>3. CASE r = u
      <4>1. InputSeen(u, "local") = x.input
            BY <2>2, <3>1, <3>3 DEF JobSound, ClaimJob, InputSeen, ResolvesAgain
      <4>2. run'[u] = Claimed(x, x.input)
            BY <2>1, <2>2, <3>1, <3>3, <4>1, ClaimWrites DEF JobsInv, AdmissionInv
      <4>3. x.runResolved /\ x.jobResolved
            BY <2>2, <3>1, <3>3 DEF JobSound, ClaimJob
      <4>. QED  BY <2>2, <4>2, <4>3 DEF JobSound, RunRow, Claimed
    <3>. QED  BY <3>2, <3>3
  <2>6. CASE \E r \in RunId : AttemptEnds(r)
    <3>1. PICK r \in RunId, s \in {"succeeded", "failed", "waiting", "queued"} :
             run[r].state = "running" /\ run' = [run EXCEPT ![r].state = s]
          BY <2>6 DEF AttemptEnds
    <3>2. run'[u] = x \/ (x.state = "running" /\ run'[u] = [x EXCEPT !.state = s])
          BY <2>1, <2>2, <3>1
    <3>. QED  BY <2>2, <3>2 DEF JobSound, RunRow
  <2>7. CASE \E r \in RunId : RetryRun(r) \/ ResumeHumanTask(r)
    <3>1. PICK r \in RunId : run[r].state # "absent" /\ NewJob(r)
          BY <2>7 DEF RetryRun, ResumeHumanTask
    <3>2. \/ run'[u] = x
          \/ /\ x.state # "absent"
             /\ run'[u] = [x EXCEPT !.state = "queued", !.jobResolved = x.runResolved]
          BY <2>1, <2>2, <3>1 DEF NewJob, RunRow
    <3>. QED  BY <2>2, <3>2 DEF JobSound, RunRow
  <2>8. CASE \E r \in RunId : PruneSettledJobs(r)
        BY <2>1, <2>2, <2>8 DEF PruneSettledJobs, JobSound, Absent
  <2>. QED  BY <2>3, <2>4, <2>5, <2>6, <2>7, <2>8 DEF vars, Next,
       RotateClientToken, RevokeClientToken, DeleteClient, DeleteInputConfig, SetInputConfig,
       PublicRequest, ExecutionRequest, Receive, LookUp, Resolve, Refuse, AnswerConflict
<1>3. JobsInv => RunsAdmittedInput
      BY DEF JobsInv, JobSound, RunsAdmittedInput
<1>. QED  BY <1>1, <1>2, <1>3, PTL DEF Spec

(***************************************************************************)
(* What workers make of the admitted work: an attempt is never ahead of    *)
(* the store and was told to cancel only for a reason that lasts, and what *)
(* it is about to report its processes have earned.  A report that settles *)
(* a job comes from the attempt that still has its lease, so the two meet. *)
(***************************************************************************)
\* An attempt is at most the one the store has, and was told to cancel only once
\* it had lost its job or the job was canceled.
AttemptSound(w) == LET a == worker[w] IN
  /\ a.at \in {"down", "idle"} <=> a.job = NoJob
  /\ a.job = NoJob => ~a.beating
  /\ a.job # NoJob => a.attempt <= job[a.job].attempt
  /\ a.told = "cancel" => ~StillOwned(w) \/ job[a.job].cancel

\* What it is about to report, its processes have earned.
ReportEarned(w) == LET a == worker[w] IN
  a.at = "reporting" =>
    /\ a.outcome \in {"succeeded", "failed", "waiting_human"}
    /\ a.outcome # "failed" =>
         /\ proc[w].main = "zero"
         /\ a.outcome = "waiting_human" <=> proc[w].output = "human_task"
         /\ Adapter[a.job] = "command" => a.told # "deadline"

RowEarned(j, x) ==
  /\ x.state = "running" => x.lease # "none"
  /\ x.state \in {"succeeded", "waiting_human"} =>
       /\ x.by = "zero" /\ x.told # "cancel"
       /\ Adapter[j] = "command" => x.told = "none"
       /\ x.state = "waiting_human" <=> x.output = "human_task"

WorkInv ==
  /\ WorkTypeOK
  /\ \A w \in WorkerId : AttemptSound(w) /\ ReportEarned(w)
  /\ \A j \in JobId : RowEarned(j, job[j])

\* What every step of the store keeps of a job: attempts and cancellations stay,
\* and a job gets a new owner only with a new attempt.
RowStep(x, y) ==
  /\ y \in JobRow
  /\ x.attempt <= y.attempt
  /\ x.cancel => y.cancel
  /\ y.state = "running" /\ y.attempt = x.attempt => x.state = "running" /\ y.owner = x.owner

StoreStep ==
  /\ job' \in [JobId -> JobRow]
  /\ \A j \in JobId : RowStep(job[j], job'[j]) /\ RowEarned(j, job'[j])

\* A step that leaves an attempt alone keeps what is known of it.
LEMMA AttemptKept ==
  ASSUME WorkInv, StoreStep, NEW w \in WorkerId,
         worker'[w] = worker[w], proc'[w] = proc[w]
  PROVE  AttemptSound(w)' /\ ReportEarned(w)'
<1>. DEFINE a == worker[w]
<1>1. a \in Attempt /\ AttemptSound(w) /\ ReportEarned(w)
      BY DEF WorkInv, WorkTypeOK
<1>2. ReportEarned(w)'
      BY <1>1 DEF ReportEarned
<1>3. CASE a.job = NoJob
      BY <1>1, <1>2, <1>3 DEF AttemptSound, StillOwned
<1>4. CASE a.job # NoJob
  <2>1. a.job \in JobId /\ a.attempt \in Nat
        BY <1>1, <1>4 DEF Attempt
  <2>2. /\ job[a.job] \in JobRow /\ job'[a.job] \in JobRow
        /\ RowStep(job[a.job], job'[a.job])
        BY <2>1 DEF WorkInv, WorkTypeOK, StoreStep
  <2>3. job[a.job].attempt \in Nat /\ job'[a.job].attempt \in Nat
        BY <2>2 DEF JobRow
  <2>4. a.attempt <= job'[a.job].attempt
        BY <1>1, <1>4, <2>1, <2>2, <2>3 DEF AttemptSound, RowStep
  <2>5. StillOwned(w)' => StillOwned(w)
        BY <1>1, <1>4, <2>1, <2>2, <2>3 DEF AttemptSound, RowStep, StillOwned
  <2>. QED  BY <1>1, <1>4, <1>2, <2>2, <2>4, <2>5 DEF AttemptSound, RowStep
<1>. QED  BY <1>2, <1>3, <1>4

\* A job that leaves the hands of its worker, or never was in them.
LEMMA RowLeaves ==
  ASSUME NEW j \in JobId, NEW x \in JobRow, NEW y \in JobRow,
         y.state \in {"queued", "failed", "canceled"},
         y.attempt = x.attempt, x.cancel => y.cancel
  PROVE  RowStep(x, y) /\ RowEarned(j, y)
<1>1. x.attempt \in Nat
      BY DEF JobRow
<1>. QED  BY <1>1 DEF RowStep, RowEarned

\* A job that is leased once more.
LEMMA RowLeased ==
  ASSUME NEW j \in JobId, NEW x \in JobRow, NEW w \in WorkerId, NEW y,
         y = [x EXCEPT !.state = "running", !.attempt = x.attempt + 1,
                       !.owner = w, !.lease = "live"]
  PROVE  /\ y \in JobRow /\ RowEarned(j, y)
         /\ y.attempt = x.attempt + 1 /\ y.cancel = x.cancel
<1>1. x.attempt \in Nat
      BY DEF JobRow
<1>2. PICK n \in Nat : n = x.attempt + 1
      BY <1>1
<1>3. y = [x EXCEPT !.state = "running", !.attempt = n,
                    !.owner = w, !.lease = "live"]
      BY <1>2
<1>4. y \in JobRow
      BY <1>3 DEF JobRow
<1>5. y.state = "running" /\ y.attempt = n /\ y.cancel = x.cancel /\ y.lease = "live"
      BY <1>3 DEF JobRow
<1>. QED  BY <1>2, <1>4, <1>5 DEF RowEarned

\* The store does nothing.
LEMMA StoreRests ==
  ASSUME WorkInv, UNCHANGED job
  PROVE  StoreStep
BY DEF WorkInv, WorkTypeOK, StoreStep, RowStep, JobRow

\* One job changes and the others do not.
LEMMA OneRowSteps ==
  ASSUME WorkInv, NEW j \in JobId, NEW y,
         job' = [job EXCEPT ![j] = y],
         RowStep(job[j], y), RowEarned(j, y)
  PROVE  StoreStep
<1>1. job \in [JobId -> JobRow] /\ \A i \in JobId : RowEarned(i, job[i])
      BY DEF WorkInv, WorkTypeOK
<1>2. \A i \in JobId : RowStep(job[i], job[i])
      BY <1>1 DEF RowStep, JobRow
<1>3. y \in JobRow
      BY DEF RowStep
<1>. QED  BY <1>1, <1>2, <1>3 DEF StoreStep

\* A claim, whatever becomes of it.
LEMMA ClaimSteps ==
  ASSUME WorkInv, NEW w \in WorkerId, NEW j \in JobId, Requeued(j).state = "queued"
  PROVE  /\ Leased(j, w) \in [JobId -> JobRow]
         /\ \A i \in JobId : RowStep(job[i], Leased(j, w)[i]) /\ RowEarned(i, Leased(j, w)[i])
<1>1. job \in [JobId -> JobRow] /\ \A i \in JobId : RowEarned(i, job[i])
      BY DEF WorkInv, WorkTypeOK
<1>2. \A i \in JobId :
        /\ Requeued(i) \in JobRow /\ RowEarned(i, Requeued(i))
        /\ RowStep(job[i], Requeued(i))
        /\ Requeued(i).attempt = job[i].attempt /\ Requeued(i).cancel = job[i].cancel
  <2>. SUFFICES ASSUME NEW i \in JobId
                PROVE  /\ Requeued(i) \in JobRow /\ RowEarned(i, Requeued(i))
                       /\ RowStep(job[i], Requeued(i))
                       /\ Requeued(i).attempt = job[i].attempt
                       /\ Requeued(i).cancel = job[i].cancel
       OBVIOUS
  <2>1. job[i] \in JobRow /\ RowEarned(i, job[i])
        BY <1>1
  <2>2. CASE job[i].state # "running" \/ job[i].lease # "lapsed"
        BY <2>1, <2>2 DEF Requeued, RowStep, JobRow
  <2>3. CASE ~(job[i].state # "running" \/ job[i].lease # "lapsed")
    <3>. DEFINE s == IF job[i].cancel THEN "canceled" ELSE "queued"
    <3>1. Requeued(i) = [job[i] EXCEPT !.state = s, !.owner = NoWorker, !.lease = "none"]
          BY <2>3 DEF Requeued
    <3>2. s \in {"canceled", "queued"}
          OBVIOUS
    <3>. HIDE DEF s
    <3>3. Requeued(i) \in JobRow
          BY <2>1, <3>1, <3>2 DEF JobRow, Settled
    <3>4. /\ Requeued(i).state = s /\ Requeued(i).attempt = job[i].attempt
          /\ Requeued(i).cancel = job[i].cancel
          BY <2>1, <3>1 DEF JobRow
    <3>. QED  BY <2>1, <3>2, <3>3, <3>4, RowLeaves
  <2>. QED  BY <2>2, <2>3
<1>. DEFINE y == [Requeued(j) EXCEPT !.state = "running", !.attempt = @ + 1,
                                     !.owner = w, !.lease = "live"]
<1>3. Leased(j, w) = [i \in JobId |-> IF i # j THEN Requeued(i) ELSE y]
      BY DEF Leased
<1>4. /\ y \in JobRow /\ RowEarned(j, y)
      /\ y.attempt = job[j].attempt + 1 /\ y.cancel = job[j].cancel
  <2>1. Requeued(j) \in JobRow
        BY <1>2
  <2>2. /\ y \in JobRow /\ RowEarned(j, y)
        /\ y.attempt = Requeued(j).attempt + 1 /\ y.cancel = Requeued(j).cancel
        BY <2>1, RowLeased
  <2>. HIDE DEF y
  <2>. QED  BY <1>2, <2>2
<1>5. RowStep(job[j], y)
  <2>1. job[j].attempt \in Nat
        BY <1>1 DEF JobRow
  <2>. HIDE DEF y
  <2>. QED  BY <1>4, <2>1 DEF RowStep
<1>. HIDE DEF y
<1>. QED  BY <1>2, <1>3, <1>4, <1>5

\* A completion: a report settles only a job that is still leased to its attempt
\* and that nobody canceled, so the attempt was not told to stop.
LEMMA ReportSteps ==
  ASSUME WorkInv, NEW w \in WorkerId, worker[w].at = "reporting",
         job' = Reported(w, worker[w].outcome)
  PROVE  StoreStep
<1>. DEFINE a == worker[w]
            x == job[a.job]
<1>1. a \in Attempt /\ AttemptSound(w) /\ ReportEarned(w) /\ proc[w] \in Group
      BY DEF WorkInv, WorkTypeOK
<1>2. a.job \in JobId /\ a.job # NoJob
      BY <1>1 DEF AttemptSound, Attempt
<1>3. x \in JobRow /\ RowEarned(a.job, x)
      BY <1>2 DEF WorkInv, WorkTypeOK
<1>4. CASE ~StillOwned(w) \/ x.lease = "lapsed"
      BY <1>4, StoreRests DEF Reported
<1>5. CASE StillOwned(w) /\ x.lease = "live" /\ x.cancel
  <2>. DEFINE y == [x EXCEPT !.state = "canceled", !.owner = NoWorker,
                             !.lease = "none", !.cancel = TRUE]
  <2>1. job' = [job EXCEPT ![a.job] = y]
        BY <1>5 DEF Reported, Canceled
  <2>2. RowStep(x, y) /\ RowEarned(a.job, y)
    <3>1. y \in JobRow
          BY <1>3 DEF JobRow, Settled
    <3>2. y.state = "canceled" /\ y.attempt = x.attempt /\ y.cancel
          BY <1>3 DEF JobRow
    <3>. HIDE DEF y
    <3>. QED  BY <1>2, <1>3, <3>1, <3>2, RowLeaves
  <2>. QED  BY <1>2, <2>1, <2>2, OneRowSteps
<1>6. CASE StillOwned(w) /\ x.lease = "live" /\ ~x.cancel
  <2>. DEFINE o == a.outcome
              y == [x EXCEPT !.state = o, !.owner = NoWorker, !.lease = "none",
                             !.by = IF o = "failed" THEN @ ELSE proc[w].main,
                             !.told = IF o = "failed" THEN @ ELSE a.told,
                             !.output = IF o = "failed" THEN @ ELSE proc[w].output]
  <2>0. job' = Settle(a.job, o, w)
        BY <1>6 DEF Reported
  <2>1. job' = [job EXCEPT ![a.job] = y]
        BY <2>0 DEF Settle
  <2>2. a.told \in {"none", "deadline"}
        BY <1>1, <1>6 DEF AttemptSound, Attempt
  <2>3. o \in {"succeeded", "failed", "waiting_human"}
        BY <1>1 DEF ReportEarned
  <2>4. CASE o = "failed"
    <3>1. y = [x EXCEPT !.state = "failed", !.owner = NoWorker, !.lease = "none"]
          BY <1>3, <2>4 DEF JobRow
    <3>2. /\ y \in JobRow /\ y.state = "failed"
          /\ y.attempt = x.attempt /\ y.cancel = x.cancel
          BY <1>3, <3>1 DEF JobRow, Settled
    <3>3. RowStep(x, y) /\ RowEarned(a.job, y)
      <4>. HIDE DEF y
      <4>. QED  BY <1>2, <1>3, <3>2, RowLeaves
    <3>. QED  BY <1>2, <2>1, <3>3, OneRowSteps
  <2>5. CASE o # "failed"
    <3>1. y = [x EXCEPT !.state = o, !.owner = NoWorker, !.lease = "none",
                        !.by = "zero", !.told = a.told, !.output = proc[w].output]
          BY <1>1, <1>3, <2>5 DEF JobRow, ReportEarned
    <3>2. /\ o = "waiting_human" <=> proc[w].output = "human_task"
          /\ Adapter[a.job] = "command" => a.told = "none"
          BY <1>1, <2>2, <2>5 DEF ReportEarned
    <3>3. proc[w].output \in Output
          BY <1>1 DEF Group
    <3>4. y \in JobRow
          BY <1>3, <2>2, <2>3, <3>1, <3>3 DEF JobRow, Settled
    <3>5. /\ y.state = o /\ y.attempt = x.attempt /\ y.cancel = x.cancel
          /\ y.by = "zero" /\ y.told = a.told /\ y.output = proc[w].output
          BY <1>3, <3>1 DEF JobRow
    <3>6. x.attempt \in Nat /\ o # "running"
          BY <1>3, <2>3 DEF JobRow
    <3>7. RowStep(x, y) /\ RowEarned(a.job, y)
      <4>. HIDE DEF y
      <4>. QED  BY <2>2, <2>3, <2>5, <3>2, <3>4, <3>5, <3>6 DEF RowStep, RowEarned
    <3>. QED  BY <1>2, <2>1, <3>7, OneRowSteps
  <2>. QED  BY <2>4, <2>5
<1>7. StillOwned(w) => x.lease \in {"live", "lapsed"}
      BY <1>3 DEF StillOwned, RowEarned, JobRow
<1>. QED  BY <1>4, <1>5, <1>6, <1>7
\* An attempt is typed, whatever was done to it, and has the lease it had when
\* neither its job nor its number changed.
LEMMA SameLease ==
  ASSUME NEW w \in WorkerId, UNCHANGED job,
         worker'[w].job = worker[w].job, worker'[w].attempt = worker[w].attempt
  PROVE  StillOwned(w)' <=> StillOwned(w)
BY DEF StillOwned

\* A step of one worker.
LEMMA OneWorkerSteps ==
  ASSUME WorkInv, StoreStep, faults' \in 0..MaxFaults, NEW w \in WorkerId,
         NEW a \in Attempt, worker' = [worker EXCEPT ![w] = a],
         NEW g \in Group, proc' = [proc EXCEPT ![w] = g],
         AttemptSound(w)', ReportEarned(w)'
  PROVE  WorkInv'
<1>1. worker \in [WorkerId -> Attempt] /\ proc \in [WorkerId -> Group]
      BY DEF WorkInv, WorkTypeOK
<1>2. WorkTypeOK'
      BY <1>1 DEF WorkTypeOK, StoreStep
<1>3. ASSUME NEW v \in WorkerId
      PROVE  AttemptSound(v)' /\ ReportEarned(v)'
  <2>1. CASE v = w
        BY <2>1
  <2>2. CASE v # w
        BY <1>1, <2>2, AttemptKept
  <2>. QED  BY <2>1, <2>2
<1>4. \A j \in JobId : RowEarned(j, job'[j])
      BY DEF StoreStep
<1>. QED  BY <1>2, <1>3, <1>4 DEF WorkInv

\* A step of the store alone.
LEMMA StoreAloneSteps ==
  ASSUME WorkInv, StoreStep, faults' \in 0..MaxFaults, UNCHANGED <<worker, proc>>
  PROVE  WorkInv'
<1>1. WorkTypeOK'
      BY DEF WorkInv, WorkTypeOK, StoreStep
<1>2. \A w \in WorkerId : AttemptSound(w)' /\ ReportEarned(w)'
      BY AttemptKept
<1>3. \A j \in JobId : RowEarned(j, job'[j])
      BY DEF StoreStep
<1>. QED  BY <1>1, <1>2, <1>3 DEF WorkInv

\* The context of an attempt ends: its group is killed, but what ended by itself
\* stays ended.
LEMMA StopKeeps ==
  ASSUME WorkInv, NEW w \in WorkerId, NEW why \in {"cancel", "deadline"}, Stop(w, why),
         worker[w].job \in JobId, faults' = faults, StoreStep,
         why = "cancel" => job'[worker[w].job].cancel \/ ~StillOwned(w),
         why = "deadline" => worker[w].at = "running"
  PROVE  WorkInv'
<1>. DEFINE a == worker[w]
            g == proc[w]
            b == [a EXCEPT !.told = IF a.told = "none" THEN why ELSE a.told,
                           !.beating = a.beating /\ why = "deadline"]
            h == [g EXCEPT !.main = IF g.main = "running" THEN "killed" ELSE g.main,
                           !.holds = g.holds /\ Adapter[a.job] = "command"]
<1>1. /\ worker \in [WorkerId -> Attempt] /\ proc \in [WorkerId -> Group]
      /\ a \in Attempt /\ g \in Group /\ AttemptSound(w) /\ ReportEarned(w)
      BY DEF WorkInv, WorkTypeOK
<1>2. worker' = [worker EXCEPT ![w] = b] /\ proc' = [proc EXCEPT ![w] = h]
      BY <1>1 DEF Stop
<1>3. /\ b \in Attempt
      /\ b.told = IF a.told = "none" THEN why ELSE a.told
      /\ b.at = a.at /\ b.job = a.job /\ b.attempt = a.attempt /\ b.outcome = a.outcome
      BY <1>1 DEF Attempt
<1>4. /\ h \in Group /\ h.output = g.output
      /\ g.main = "zero" => h.main = "zero"
      BY <1>1 DEF Group
<1>. HIDE DEF b, h
<1>5. worker'[w] = b /\ proc'[w] = h
      BY <1>1, <1>2
<1>6. /\ job[a.job] \in JobRow /\ job'[a.job] \in JobRow
      /\ RowStep(job[a.job], job'[a.job])
      BY DEF WorkInv, WorkTypeOK, StoreStep
<1>7. /\ job[a.job].attempt \in Nat /\ job'[a.job].attempt \in Nat /\ a.attempt \in Nat
      BY <1>1, <1>6 DEF JobRow, Attempt
<1>8. StillOwned(w)' => StillOwned(w)
      BY <1>1, <1>3, <1>5, <1>6, <1>7 DEF AttemptSound, RowStep, StillOwned
<1>9. a.job # NoJob
      BY WorkAssumption DEF WorkAssumption
<1>10. AttemptSound(w)'
  <2>1. b.at \in {"down", "idle"} <=> b.job = NoJob
        BY <1>1, <1>3 DEF AttemptSound
  <2>2. b.attempt <= job'[b.job].attempt
        BY <1>1, <1>3, <1>6, <1>7, <1>9 DEF AttemptSound, RowStep
  <2>3. b.told = "cancel" => ~StillOwned(w)' \/ job'[b.job].cancel
        BY <1>1, <1>3, <1>6, <1>8 DEF AttemptSound, RowStep
  <2>. QED  BY <1>3, <1>5, <1>9, <2>1, <2>2, <2>3 DEF AttemptSound
<1>11. ReportEarned(w)'
      BY <1>1, <1>3, <1>4, <1>5 DEF ReportEarned
<1>12. faults' \in 0..MaxFaults
      BY DEF WorkInv, WorkTypeOK
<1>. QED  BY <1>2, <1>3, <1>4, <1>10, <1>11, <1>12, OneWorkerSteps
\* A worker that has no job any more.
LEMMA WorkerLetsGo ==
  ASSUME WorkInv, StoreStep, faults' \in 0..MaxFaults, NEW w \in WorkerId,
         NEW a \in {Idle, Down}, worker' = [worker EXCEPT ![w] = a],
         NEW g \in Group, proc' = [proc EXCEPT ![w] = g]
  PROVE  WorkInv'
<1>1. /\ a \in Attempt /\ a.job = NoJob /\ a.told = "none" /\ a.at \in {"down", "idle"}
      /\ ~a.beating
  <2>1. CASE a = Idle
        BY <2>1 DEF Idle, Attempt
  <2>2. CASE a = Down
        BY <2>2 DEF Idle, Down, Attempt
  <2>. QED  BY <2>1, <2>2
<1>2. worker'[w] = a
      BY DEF WorkInv, WorkTypeOK
<1>. QED  BY <1>1, <1>2, OneWorkerSteps DEF AttemptSound, ReportEarned

LEMMA WorkInvKept ==
  ASSUME WorkInv, [WorkNext]_workVars
  PROVE  WorkInv'
<1>1. /\ job \in [JobId -> JobRow] /\ worker \in [WorkerId -> Attempt]
      /\ proc \in [WorkerId -> Group] /\ faults \in 0..MaxFaults
      BY DEF WorkInv, WorkTypeOK
<1>2. MaxFaults \in Nat /\ NoJob \notin JobId /\ NoWorker \notin WorkerId
      BY WorkAssumption DEF WorkAssumption
<1>3. NoGroup \in Group
      BY DEF NoGroup, Group, Output
<1>4. faults < MaxFaults => faults + 1 \in 0..MaxFaults
      BY <1>1, <1>2
<1>5. CASE UNCHANGED workVars
      BY <1>1, <1>5, StoreRests, StoreAloneSteps DEF workVars
<1>6. ASSUME NEW w \in WorkerId, NEW j \in JobId, WorkerClaims(w, j)
      PROVE  WorkInv'
  <2>. DEFINE a == [Idle EXCEPT !.at = "starting", !.job = j,
                                !.attempt = job'[j].attempt, !.beating = TRUE]
  <2>1. /\ StoreStep /\ UNCHANGED <<proc, faults>>
        /\ worker' = [worker EXCEPT ![w] = a]
        BY <1>6, ClaimSteps DEF WorkerClaims, Claimable, StoreStep
  <2>2. job'[j] \in JobRow /\ job'[j].attempt \in Nat
        BY <2>1 DEF StoreStep, JobRow
  <2>3. /\ a \in Attempt /\ a.at = "starting" /\ a.job = j /\ a.told = "none"
        /\ a.attempt = job'[j].attempt
        BY <2>2 DEF Idle, Attempt
  <2>. HIDE DEF a
  <2>4. worker'[w] = a /\ proc' = [proc EXCEPT ![w] = proc[w]] /\ proc[w] \in Group
        BY <1>1, <2>1
  <2>5. AttemptSound(w)' /\ ReportEarned(w)'
        BY <1>2, <2>2, <2>3, <2>4 DEF AttemptSound, ReportEarned
  <2>. QED  BY <1>1, <2>1, <2>3, <2>4, <2>5, OneWorkerSteps
<1>7. ASSUME NEW w \in WorkerId, NEW j \in JobId, ClaimFailsPreparation(w, j)
      PROVE  WorkInv'
  <2>. DEFINE x == Leased(j, w)[j]
              y == [x EXCEPT !.state = "failed", !.owner = NoWorker, !.lease = "none"]
  <2>1. /\ Leased(j, w) \in [JobId -> JobRow]
        /\ \A i \in JobId : /\ RowStep(job[i], Leased(j, w)[i])
                            /\ RowEarned(i, Leased(j, w)[i])
        BY <1>7, ClaimSteps DEF ClaimFailsPreparation, Claimable
  <2>2. job' = [Leased(j, w) EXCEPT ![j] = y]
        BY <1>7 DEF ClaimFailsPreparation
  <2>3. x \in JobRow /\ RowStep(job[j], x)
        BY <2>1
  <2>4. /\ y \in JobRow /\ y.state = "failed"
        /\ y.attempt = x.attempt /\ y.cancel = x.cancel
        BY <2>3 DEF JobRow, Settled
  <2>. HIDE DEF y
  <2>5. RowStep(job[j], y) /\ RowEarned(j, y)
        BY <2>3, <2>4 DEF RowStep, RowEarned
  <2>. HIDE DEF x
  <2>6. StoreStep
        BY <2>1, <2>2, <2>4, <2>5 DEF StoreStep
  <2>. QED  BY <1>1, <1>7, <2>6, StoreAloneSteps DEF ClaimFailsPreparation
<1>8. ASSUME NEW w \in WorkerId, NEW j \in JobId, ClaimLost(w, j)
      PROVE  WorkInv'
  <2>1. StoreStep
        BY <1>8, ClaimSteps DEF ClaimLost, Claimable, StoreStep
  <2>. QED  BY <1>4, <1>8, <2>1, StoreAloneSteps DEF ClaimLost
<1>9. ASSUME NEW j \in JobId, Lapse(j), faults' \in 0..MaxFaults
      PROVE  WorkInv'
  <2>. DEFINE y == [job[j] EXCEPT !.lease = "lapsed"]
  <2>1. job' = [job EXCEPT ![j] = y] /\ job[j].state = "running"
        BY <1>1, <1>9 DEF Lapse
  <2>2. /\ y \in JobRow /\ y.state = job[j].state /\ y.attempt = job[j].attempt
        /\ y.owner = job[j].owner /\ y.cancel = job[j].cancel /\ y.lease = "lapsed"
        /\ job[j].attempt \in Nat
        BY <1>1 DEF JobRow
  <2>. HIDE DEF y
  <2>3. RowStep(job[j], y) /\ RowEarned(j, y)
        BY <2>1, <2>2 DEF RowStep, RowEarned
  <2>. QED  BY <1>9, <2>1, <2>3, OneRowSteps, StoreAloneSteps DEF Lapse
<1>10. ASSUME NEW j \in JobId, LeaseLapses(j) \/ HeartbeatsLate(j)
       PROVE  WorkInv'
       BY <1>1, <1>4, <1>9, <1>10 DEF LeaseLapses, HeartbeatsLate
<1>11. ASSUME NEW j \in JobId, CancelJob(j)
       PROVE  WorkInv'
  <2>. DEFINE s == IF job[j].state = "queued" THEN "canceled" ELSE job[j].state
              y == [job[j] EXCEPT !.cancel = TRUE, !.state = s]
  <2>1. job' = [job EXCEPT ![j] = y] /\ job[j].state \in {"queued", "running"}
        BY <1>1, <1>11 DEF CancelJob
  <2>2. /\ s \in {"canceled", "running"} /\ (s = "running" => job[j].state = "running")
        BY <2>1
  <2>. HIDE DEF s
  <2>3. /\ y \in JobRow /\ y.state = s /\ y.attempt = job[j].attempt
        /\ y.owner = job[j].owner /\ y.cancel /\ y.lease = job[j].lease
        /\ job[j].attempt \in Nat
        BY <1>1, <2>2 DEF JobRow, Settled
  <2>4. RowEarned(j, job[j])
        BY DEF WorkInv
  <2>. HIDE DEF y
  <2>5. RowStep(job[j], y) /\ RowEarned(j, y)
        BY <2>2, <2>3, <2>4 DEF RowStep, RowEarned
  <2>. QED  BY <1>1, <1>11, <2>1, <2>5, OneRowSteps, StoreAloneSteps DEF CancelJob
<1>12. ASSUME NEW j \in JobId, CancelRun(j)
       PROVE  WorkInv'
  <2>. DEFINE y == [job[j] EXCEPT !.state = "canceled", !.owner = NoWorker,
                                  !.lease = "none", !.cancel = TRUE]
  <2>1. job' = [job EXCEPT ![j] = y]
        BY <1>12 DEF CancelRun, Canceled
  <2>2. y \in JobRow /\ y.state = "canceled" /\ y.attempt = job[j].attempt /\ y.cancel
        BY <1>1 DEF JobRow, Settled
  <2>. HIDE DEF y
  <2>3. RowStep(job[j], y) /\ RowEarned(j, y)
        BY <1>1, <2>2, RowLeaves
  <2>. QED  BY <1>1, <1>12, <2>1, <2>3, OneRowSteps, StoreAloneSteps DEF CancelRun
<1>13. ASSUME NEW w \in WorkerId, HeartbeatJob(w)
       PROVE  WorkInv'
  <2>1. worker[w] \in Attempt /\ AttemptSound(w) /\ faults' = faults
        BY <1>1, <1>13 DEF WorkInv, HeartbeatJob
  <2>2. CASE ~StillOwned(w)
    <3>1. UNCHANGED job /\ Stop(w, "cancel")
          BY <1>13, <2>2 DEF HeartbeatJob
    <3>2. worker[w].job \in JobId
          BY <1>13, <2>1 DEF AttemptSound, Attempt, HeartbeatJob
    <3>. QED  BY <2>1, <2>2, <3>1, <3>2, StoreRests, StopKeeps
  <2>3. CASE StillOwned(w)
    <3>. DEFINE k == worker[w].job
                y == [job[k] EXCEPT !.lease = "live"]
    <3>1. k \in JobId /\ k # NoJob
          BY <2>1, <2>3 DEF StillOwned, Attempt
    <3>2. job' = [job EXCEPT ![k] = y] /\ job[k].state = "running"
          BY <1>1, <1>13, <2>3, <3>1 DEF HeartbeatJob, StillOwned
    <3>3. /\ y \in JobRow /\ y.state = job[k].state /\ y.attempt = job[k].attempt
          /\ y.owner = job[k].owner /\ y.cancel = job[k].cancel /\ y.lease = "live"
          /\ job[k].attempt \in Nat
          BY <1>1, <3>1 DEF JobRow
    <3>. HIDE DEF y
    <3>4. RowStep(job[k], y) /\ RowEarned(k, y)
          BY <3>2, <3>3 DEF RowStep, RowEarned
    <3>5. StoreStep /\ job'[k] = y
          BY <1>1, <3>1, <3>2, <3>4, OneRowSteps
    <3>6. CASE job[k].cancel
      <4>1. Stop(w, "cancel")
            BY <1>13, <2>3, <3>6 DEF HeartbeatJob
      <4>2. job'[k].cancel
            BY <3>3, <3>5, <3>6
      <4>. QED  BY <2>1, <3>1, <3>5, <4>1, <4>2, StopKeeps
    <3>7. CASE ~job[k].cancel
      <4>1. UNCHANGED <<worker, proc>>
            BY <1>13, <2>3, <3>7 DEF HeartbeatJob
      <4>. QED  BY <1>1, <2>1, <3>5, <4>1, StoreAloneSteps
    <3>. QED  BY <3>6, <3>7
  <2>. QED  BY <2>2, <2>3
<1>14. ASSUME NEW w \in WorkerId, Deadline(w)
       PROVE  WorkInv'
  <2>1. /\ worker[w] \in Attempt /\ AttemptSound(w) /\ worker[w].at = "running"
        /\ Stop(w, "deadline") /\ UNCHANGED <<job, faults>>
        BY <1>1, <1>14 DEF WorkInv, Deadline
  <2>2. worker[w].job \in JobId
        BY <2>1 DEF AttemptSound, Attempt
  <2>. QED  BY <2>1, <2>2, StoreRests, StopKeeps
<1>15. ASSUME NEW w \in WorkerId, StartWorker(w)
       PROVE  WorkInv'
  <2>1. worker' = [worker EXCEPT ![w] = Idle] /\ proc' = [proc EXCEPT ![w] = proc[w]]
        BY <1>1, <1>15 DEF StartWorker
  <2>. QED  BY <1>1, <1>15, <2>1, StoreRests, WorkerLetsGo DEF StartWorker
<1>16. ASSUME NEW w \in WorkerId, StartFails(w)
       PROVE  WorkInv'
  <2>. DEFINE a == [worker[w] EXCEPT !.at = "reporting", !.outcome = "failed"]
  <2>1. /\ worker[w] \in Attempt /\ AttemptSound(w) /\ worker[w].at = "starting"
        /\ worker' = [worker EXCEPT ![w] = a] /\ UNCHANGED <<job, proc, faults>>
        BY <1>1, <1>16 DEF WorkInv, StartFails
  <2>2. /\ a \in Attempt /\ a.at = "reporting" /\ a.outcome = "failed"
        /\ a.job = worker[w].job /\ a.attempt = worker[w].attempt
        /\ a.told = worker[w].told /\ a.beating = worker[w].beating
        BY <2>1 DEF Attempt
  <2>. HIDE DEF a
  <2>3. worker'[w] = a /\ proc' = [proc EXCEPT ![w] = proc[w]]
        BY <1>1, <2>1
  <2>4. StillOwned(w)' <=> StillOwned(w)
        BY <2>1, <2>2, <2>3, SameLease
  <2>5. AttemptSound(w)' /\ ReportEarned(w)'
        BY <2>1, <2>2, <2>3, <2>4 DEF AttemptSound, ReportEarned
  <2>. QED  BY <1>1, <2>1, <2>2, <2>3, <2>5, StoreRests, OneWorkerSteps
<1>17. ASSUME NEW w \in WorkerId, StartAction(w)
       PROVE  WorkInv'
  <2>. DEFINE j == worker[w].job
              dead == worker[w].told # "none"
              a == [worker[w] EXCEPT !.at = "running"]
              g == [main |-> IF dead THEN "killed" ELSE "running",
                    holds |-> j \in Forking /\ ~dead, output |-> "none"]
  <2>1. /\ worker[w] \in Attempt /\ AttemptSound(w) /\ worker[w].at = "starting"
        /\ worker' = [worker EXCEPT ![w] = a] /\ proc' = [proc EXCEPT ![w] = g]
        /\ UNCHANGED <<job, faults>>
        BY <1>1, <1>17 DEF WorkInv, StartAction
  <2>2. g \in Group
        BY DEF Group, Output
  <2>3. /\ a \in Attempt /\ a.at = "running"
        /\ a.job = worker[w].job /\ a.attempt = worker[w].attempt
        /\ a.told = worker[w].told /\ a.beating = worker[w].beating
        BY <2>1 DEF Attempt
  <2>. HIDE DEF a, g
  <2>4. worker'[w] = a
        BY <1>1, <2>1
  <2>5. StillOwned(w)' <=> StillOwned(w)
        BY <2>1, <2>3, <2>4, SameLease
  <2>6. AttemptSound(w)' /\ ReportEarned(w)'
        BY <2>1, <2>3, <2>4, <2>5 DEF AttemptSound, ReportEarned
  <2>. QED  BY <1>1, <2>1, <2>2, <2>3, <2>6, StoreRests, OneWorkerSteps
<1>18. ASSUME NEW w \in WorkerId, MainExits(w) \/ ChildExits(w)
       PROVE  WorkInv'
  <2>1. PICK g \in Group : proc' = [proc EXCEPT ![w] = g]
    <3>1. proc[w] \in Group
          BY <1>1
    <3>2. CASE MainExits(w)
      <4>1. CASE \E file \in Output \ {"none"} :
                   proc' = [proc EXCEPT ![w] = [@ EXCEPT !.main = "zero", !.output = file]]
        <5>1. PICK file \in Output : proc' = [proc EXCEPT ![w] =
                     [proc[w] EXCEPT !.main = "zero", !.output = file]]
              BY <4>1
        <5>2. [proc[w] EXCEPT !.main = "zero", !.output = file] \in Group
              BY <3>1 DEF Group
        <5>. QED  BY <5>1, <5>2
      <4>2. CASE proc' = [proc EXCEPT ![w].main = "nonzero"]
        <5>1. [proc[w] EXCEPT !.main = "nonzero"] \in Group
              BY <3>1 DEF Group
        <5>. QED  BY <4>2, <5>1
      <4>. QED  BY <3>2, <4>1, <4>2 DEF MainExits
    <3>3. CASE ChildExits(w)
      <4>1. [proc[w] EXCEPT !.holds = FALSE] \in Group
            BY <3>1 DEF Group
      <4>. QED  BY <3>3, <4>1 DEF ChildExits
    <3>. QED  BY <1>18, <3>2, <3>3
  <2>2. /\ worker[w] \in Attempt /\ AttemptSound(w) /\ worker[w].at = "running"
        /\ UNCHANGED <<job, worker, faults>>
        BY <1>1, <1>18 DEF WorkInv, MainExits, ChildExits
  <2>3. worker' = [worker EXCEPT ![w] = worker[w]] /\ worker'[w] = worker[w]
        BY <1>1, <2>2
  <2>4. StillOwned(w)' <=> StillOwned(w)
        BY <2>2, SameLease
  <2>5. AttemptSound(w)' /\ ReportEarned(w)'
        BY <2>2, <2>3, <2>4 DEF AttemptSound, ReportEarned
  <2>. QED  BY <1>1, <2>1, <2>2, <2>3, <2>5, StoreRests, OneWorkerSteps
<1>19. ASSUME NEW w \in WorkerId, RunReturns(w)
       PROVE  WorkInv'
  <2>. DEFINE o == OutcomeOf(w)
              a == [worker[w] EXCEPT !.at = "reporting", !.outcome = o]
              g == IF o = "failed" THEN NoGroup ELSE proc[w]
  <2>1. /\ worker[w] \in Attempt /\ AttemptSound(w) /\ worker[w].at = "running"
        /\ worker' = [worker EXCEPT ![w] = a] /\ UNCHANGED <<job, faults>>
        /\ proc[w] \in Group
        BY <1>1, <1>19 DEF WorkInv, RunReturns
  <2>2. proc' = [proc EXCEPT ![w] = g]
        BY <1>1, <1>19 DEF RunReturns
  <2>3. g \in Group
        BY <1>3, <2>1
  <2>4. /\ o \in {"succeeded", "failed", "waiting_human"}
        /\ o # "failed" => /\ proc[w].main = "zero"
                           /\ o = "waiting_human" <=> proc[w].output = "human_task"
                           /\ Adapter[worker[w].job] = "command" => worker[w].told = "none"
        BY DEF OutcomeOf, ContextEnded, AsksPerson
  <2>5. o # "failed" => g = proc[w]
        OBVIOUS
  <2>. HIDE DEF o, g
  <2>6. /\ a \in Attempt /\ a.at = "reporting" /\ a.outcome = o
        /\ a.job = worker[w].job /\ a.attempt = worker[w].attempt
        /\ a.told = worker[w].told /\ a.beating = worker[w].beating
        BY <2>1, <2>4 DEF Attempt
  <2>. HIDE DEF a
  <2>7. worker'[w] = a /\ proc'[w] = g
        BY <1>1, <2>1, <2>2
  <2>8. StillOwned(w)' <=> StillOwned(w)
        BY <2>1, <2>6, <2>7, SameLease
  <2>9. AttemptSound(w)'
        BY <2>1, <2>6, <2>7, <2>8 DEF AttemptSound
  <2>10. ReportEarned(w)'
        BY <2>4, <2>5, <2>6, <2>7 DEF ReportEarned
  <2>. QED  BY <1>1, <2>1, <2>2, <2>3, <2>6, <2>9, <2>10, StoreRests, OneWorkerSteps
<1>20. ASSUME NEW w \in WorkerId, CompleteJob(w) \/ CompleteLost(w)
       PROVE  WorkInv'
  <2>1. StoreStep
        BY <1>20, StoreRests, ReportSteps DEF CompleteJob, CompleteLost
  <2>2. /\ worker' = [worker EXCEPT ![w] = Idle] /\ proc' = [proc EXCEPT ![w] = NoGroup]
        /\ faults' \in 0..MaxFaults
        BY <1>1, <1>4, <1>20 DEF CompleteJob, CompleteLost
  <2>. QED  BY <1>3, <2>1, <2>2, WorkerLetsGo
<1>21. ASSUME NEW w \in WorkerId, WorkerDies(w)
       PROVE  WorkInv'
       BY <1>1, <1>3, <1>4, <1>21, StoreRests, WorkerLetsGo DEF WorkerDies
<1>. QED  BY <1>5, <1>6, <1>7, <1>8, <1>10, <1>11, <1>12, <1>13, <1>14, <1>15, <1>16,
             <1>17, <1>18, <1>19, <1>20, <1>21 DEF WorkNext

LEMMA WorkInvStarts ==
  ASSUME WorkInit
  PROVE  WorkInv
<1>1. MaxFaults \in Nat
      BY WorkAssumption DEF WorkAssumption
<1>2. WorkTypeOK
      BY <1>1 DEF WorkInit, WorkTypeOK, JobRow, Attempt, Group, Output, Idle, NoGroup
<1>3. \A w \in WorkerId : AttemptSound(w) /\ ReportEarned(w)
      BY DEF WorkInit, AttemptSound, ReportEarned, Idle
<1>4. \A j \in JobId : RowEarned(j, job[j])
      BY DEF WorkInit, RowEarned
<1>. QED  BY <1>2, <1>3, <1>4 DEF WorkInv

\* Every reachable state of the workers, their processes and their jobs is typed.
THEOREM WorkersTyped == WorkSpec => []WorkTypeOK
<1>1. WorkInv => WorkTypeOK
      BY DEF WorkInv
<1>. QED  BY <1>1, WorkInvStarts, WorkInvKept, PTL DEF WorkSpec

\* OutcomeEarned: a job succeeds, or waits for a person, only on the report of an
\* attempt whose main process ended with code zero before anything stopped it
\* (ProcessOne, with what the executors return and the store refuses), whatever
\* was lost, late or crashed on the way.
THEOREM OutcomesAreEarned == WorkSpec => []OutcomeEarned
<1>1. WorkInv => OutcomeEarned
      BY DEF WorkInv, RowEarned, OutcomeEarned
<1>. QED  BY <1>1, WorkInvStarts, WorkInvKept, PTL DEF WorkSpec
=============================================================================
