------------------------ MODULE AssistantTriageProofs ------------------------
(* Proofs about AssistantTriage, for any number of machines, alerts and        *)
(* requests, any limits and any scenario of the environment.                   *)
(*                                                                             *)
(* A triage is answered from the rows of one moment, while the properties      *)
(* speak of the rows there are when the client reads the answer.  Rows are     *)
(* only added, so the alerts newer than a given one only become more: one that *)
(* is still among the newest now was among them then.                          *)
(*                                                                             *)
(* The second part is about the server under the assistant: the types of its   *)
(* start, and what its health check says of the dependencies.                  *)
EXTENDS AssistantTriage, FiniteSetTheorems, TLAPS

(* Ids are given once, in increasing order; a row says of its notification what *)
(* evaluateCPUAlert records, which for a RECOVERY is always "sent".             *)
RowsOK ==
  /\ IsFiniteSet(rows)
  /\ \A r \in rows : r.status = NotifyStatus(r.alert)
  /\ \A r \in rows : r.id \in 1..Cardinality(rows)
  /\ \A r, q \in rows : r.id = q.id => r = q

KnownOK == known \subseteq rows /\ \A r \in known : r.alert.mach = triage.mach

(* What a triage has that was not denied its fetch. *)
General == triage.note = "alert not found"   \* all the alerts are shown instead
Served == triage.pc \in {"diagnose", "answered"} /\ triage.note # "fetch failed"
AnswerOK ==
  Served =>
    \A r \in known : Cardinality(Newer(r)) < TriageLimit =>
      /\ r.id = triage.alertId => triage.shown = {r} /\ triage.note = "none"
      /\ r.status = "failed" /\ (triage.alertId \in {0, r.id} \/ General) => triage.hint

TriageRecord ==
  triage \in [pc : {"idle", "fetch", "diagnose", "answered"}, mach : Machine \cup {None},
              alertId : Nat, shown : SUBSET rows, note : Note,
              hint : BOOLEAN, diagnosed : BOOLEAN, llmNote : BOOLEAN]

IInv == RowsOK /\ TriageRecord /\ KnownOK /\ AnswerOK

LEMMA NewerFinite ==
  ASSUME RowsOK, NEW r
  PROVE  IsFiniteSet(Newer(r)) /\ Cardinality(Newer(r)) \in Nat
<1>1. Newer(r) \subseteq rows
  BY DEF Newer, OfMachine
<1>2. QED  BY <1>1, FS_Subset, FS_CardinalityType DEF RowsOK

LEMMA InitInv ==
  ASSUME Init
  PROVE  IInv
<1>1. RowsOK
  BY FS_EmptySet DEF Init, RowsOK
<1>2. TriageRecord
  BY DEF Init, TriageRecord, NoTriage, Note
<1>3. KnownOK /\ AnswerOK
  BY DEF Init, KnownOK, AnswerOK
<1>4. QED  BY <1>1, <1>2, <1>3 DEF IInv

(* The rows grow or stay; nothing that is decided about a triage changes while *)
(* they do. *)
LEMMA RowsGrow ==
  ASSUME RowsOK, NEW a, rows' = rows \cup {[id |-> Cardinality(rows) + 1, alert |-> a,
                                             status |-> NotifyStatus(a)]}
  PROVE  RowsOK'
<1> DEFINE r == [id |-> Cardinality(rows) + 1, alert |-> a, status |-> NotifyStatus(a)]
<1>1. Cardinality(rows) \in Nat /\ IsFiniteSet(rows)
  BY FS_CardinalityType DEF RowsOK
<1>2. r \notin rows
  BY <1>1 DEF RowsOK
<1> HIDE DEF r
<1>3. rows' = rows \cup {r}
  BY DEF r
<1>4. IsFiniteSet(rows') /\ Cardinality(rows') = Cardinality(rows) + 1
  BY <1>1, <1>2, <1>3, FS_AddElement
<1>5. r.id = Cardinality(rows) + 1 /\ r.status = NotifyStatus(r.alert)
  BY DEF r
<1>6. \A q \in rows' : q.id \in 1..Cardinality(rows')
  BY <1>1, <1>3, <1>4, <1>5 DEF RowsOK
<1>7. \A p, q \in rows' : p.id = q.id => p = q
  BY <1>1, <1>3, <1>5 DEF RowsOK
<1>8. \A q \in rows' : q.status = NotifyStatus(q.alert)
  BY <1>3, <1>5 DEF RowsOK
<1>9. QED  BY <1>4, <1>6, <1>7, <1>8 DEF RowsOK

LEMMA NewerGrows ==
  ASSUME RowsOK, RowsOK', rows \subseteq rows', NEW r
  PROVE  Cardinality(Newer(r)) <= Cardinality(Newer(r)')
<1>1. Newer(r) \subseteq Newer(r)'
  BY DEF Newer, OfMachine
<1>2. Newer(r)' \subseteq rows'
  BY DEF Newer, OfMachine
<1>3. IsFiniteSet(Newer(r)')
  BY <1>2, FS_Subset DEF RowsOK
<1>4. QED  BY <1>1, <1>3, FS_Subset

LEMMA AnswerStays ==
  ASSUME IInv, RowsOK', rows \subseteq rows', UNCHANGED known, Served' => Served,
         triage'.shown = triage.shown, triage'.note = triage.note,
         triage'.alertId = triage.alertId, triage'.hint = triage.hint
  PROVE  AnswerOK'
<1> SUFFICES ASSUME Served', NEW r \in known', Cardinality(Newer(r)') < TriageLimit
             PROVE  /\ r.id = triage'.alertId => triage'.shown = {r} /\ triage'.note = "none"
                    /\ r.status = "failed" /\ (triage'.alertId \in {0, r.id} \/ General')
                         => triage'.hint
  BY DEF AnswerOK
<1>1. Cardinality(Newer(r)) <= Cardinality(Newer(r)') /\ Cardinality(Newer(r)) \in Nat
  BY NewerGrows, NewerFinite DEF IInv
<1>2. Cardinality(Newer(r)') \in Nat
  <2>1. Newer(r)' \subseteq rows'
    BY DEF Newer, OfMachine
  <2>2. QED  BY <2>1, FS_Subset, FS_CardinalityType DEF RowsOK
<1>3. Cardinality(Newer(r)) < TriageLimit
  BY <1>1, <1>2, TriageAssumption
<1>4. QED  BY <1>3 DEF IInv, AnswerOK, General

(* The events the server answers with hold every alert of the machine that is  *)
(* among the newest. *)
LEMMA RecentHolds ==
  ASSUME NEW r \in rows, r.alert.mach = triage.mach, Cardinality(Newer(r)) < TriageLimit
  PROVE  r \in Recent(triage.mach, TriageLimit)
<1>1. LimitOf(TriageLimit) = TriageLimit
  BY TriageAssumption DEF LimitOf
<1>2. {q \in OfMachine(triage.mach) : Later(r, q)} = Newer(r)
  BY DEF Newer, Later, OfMachine
<1>3. QED  BY <1>1, <1>2 DEF Recent, OfMachine

LEMMA FetchedFields ==
  ASSUME TriageRecord, NEW events \in SUBSET rows, NEW note \in Note, Fetched(events, note)
  PROVE  /\ triage'.pc \in {"diagnose", "answered"} /\ triage'.mach = triage.mach
         /\ triage'.alertId = triage.alertId /\ triage'.shown = events
         /\ triage'.note = note /\ triage'.hint = Hint(events)
         /\ TriageRecord'
         /\ UNCHANGED <<rows, known>>
<1>1. UNCHANGED <<rows, known>>
  BY DEF Fetched
<1>2. NextStage \in {"diagnose", "answered"} /\ Hint(events) \in BOOLEAN
  BY DEF NextStage, Hint
<1>3. triage' = [triage EXCEPT !.pc = NextStage, !.shown = events, !.note = note,
                               !.hint = Hint(events)]
  BY DEF Fetched
<1>4. ASSUME NEW pc \in {"diagnose", "answered"}, NEW h \in BOOLEAN,
             triage' = [triage EXCEPT !.pc = pc, !.shown = events, !.note = note, !.hint = h]
      PROVE  /\ triage'.pc = pc /\ triage'.mach = triage.mach
             /\ triage'.alertId = triage.alertId /\ triage'.shown = events
             /\ triage'.note = note /\ triage'.hint = h
             /\ TriageRecord'
  BY <1>1, <1>4 DEF TriageRecord
<1>5. QED  BY <1>1, <1>2, <1>3, <1>4

LEMMA FetchStep ==
  ASSUME IInv, FetchRecentAlerts
  PROVE  IInv'
<1> DEFINE events == Recent(triage.mach, TriageLimit)
           shown == Context(events)
           note == FetchNote(events)
<1>1. events \subseteq rows /\ shown \subseteq rows /\ note \in Note
  BY DEF Recent, OfMachine, Context, Matching, FetchNote, Note
<1>2. Fetched(shown, note)
  BY DEF FetchRecentAlerts
<1> HIDE DEF shown, note
<1>3. /\ triage'.pc \in {"diagnose", "answered"} /\ triage'.mach = triage.mach
      /\ triage'.alertId = triage.alertId /\ triage'.shown = shown
      /\ triage'.note = note /\ triage'.hint = Hint(shown)
      /\ TriageRecord' /\ UNCHANGED <<rows, known>>
  BY <1>1, <1>2, FetchedFields DEF IInv
<1>4. RowsOK' /\ KnownOK'
  BY <1>3 DEF IInv, RowsOK, KnownOK
<1>5. ASSUME NEW r \in known, Cardinality(Newer(r)) < TriageLimit
      PROVE  /\ r.id = triage.alertId => shown = {r} /\ note = "none"
             /\ /\ r.status = "failed"
                /\ triage.alertId \in {0, r.id} \/ note = "alert not found"
                => Hint(shown)
  <2>1. r \in rows /\ r.alert.mach = triage.mach
    BY <1>5 DEF IInv, KnownOK
  <2>2. r \in events
    BY <1>5, <2>1, RecentHolds
  <2> HIDE DEF events
  <2>3. CASE r.id = triage.alertId
    <3>1. triage.alertId > 0
      BY <2>1, <2>3 DEF IInv, RowsOK
    <3>2. Matching(events) = {r}
      BY <1>1, <2>1, <2>2, <2>3 DEF Matching, IInv, RowsOK
    <3>3. shown = {r} /\ note = "none"
      BY <3>1, <3>2 DEF shown, note, Context, FetchNote
    <3>4. QED  BY <3>3 DEF Hint
  <2>4. CASE r.id # triage.alertId /\ (triage.alertId = 0 \/ note = "alert not found")
    <3>1. shown = events
      BY <2>4 DEF shown, note, Context, FetchNote
    <3>2. QED  BY <2>2, <2>4, <3>1 DEF Hint
  <2>5. CASE r.id # triage.alertId /\ triage.alertId # 0 /\ note # "alert not found"
    BY <2>5
  <2>6. QED  BY <2>3, <2>4, <2>5
<1>6. \A r : Newer(r)' = Newer(r)
  BY <1>3 DEF Newer, OfMachine
<1>7. AnswerOK'
  BY <1>3, <1>5, <1>6 DEF AnswerOK, General
<1>8. QED  BY <1>3, <1>4, <1>7 DEF IInv

LEMMA FailStep ==
  ASSUME IInv, FetchFails
  PROVE  IInv'
<1>1. Fetched({}, "fetch failed")
  BY DEF FetchFails
<1>2. triage'.note = "fetch failed" /\ triage'.mach = triage.mach /\ TriageRecord'
      /\ UNCHANGED <<rows, known>>
  BY <1>1, FetchedFields DEF IInv, Note
<1>3. AnswerOK'
  BY <1>2 DEF AnswerOK, Served
<1>4. QED  BY <1>2, <1>3 DEF IInv, RowsOK, KnownOK

LEMMA DiagnoseStep ==
  ASSUME IInv, DiagnoseWithLLM
  PROVE  IInv'
<1>1. PICK ok \in BOOLEAN :
        triage' = [triage EXCEPT !.pc = "answered", !.diagnosed = ok, !.llmNote = ~ok]
  BY DEF DiagnoseWithLLM
<1>2. triage.pc = "diagnose" /\ UNCHANGED <<rows, known>>
  BY DEF DiagnoseWithLLM
<1>3. ASSUME NEW a \in BOOLEAN, NEW b \in BOOLEAN,
             triage' = [triage EXCEPT !.pc = "answered", !.diagnosed = a, !.llmNote = b]
      PROVE  /\ TriageRecord' /\ triage'.mach = triage.mach
             /\ triage'.shown = triage.shown /\ triage'.note = triage.note
             /\ triage'.alertId = triage.alertId /\ triage'.hint = triage.hint
  BY <1>2, <1>3 DEF IInv, TriageRecord
<1>4. (~ok) \in BOOLEAN
  OBVIOUS
<1>5. /\ TriageRecord' /\ triage'.mach = triage.mach
      /\ triage'.shown = triage.shown /\ triage'.note = triage.note
      /\ triage'.alertId = triage.alertId /\ triage'.hint = triage.hint
  BY <1>1, <1>3, <1>4
<1>6. RowsOK' /\ KnownOK'
  BY <1>2, <1>5 DEF IInv, RowsOK, KnownOK
<1>7. Served' => Served
  BY <1>2, <1>5 DEF Served
<1>8. QED  BY <1>2, <1>5, <1>6, <1>7, AnswerStays DEF IInv

(* A step of the server or the environment that leaves the triage alone. *)
LEMMA OtherStep ==
  ASSUME IInv, RowsOK', rows \subseteq rows', UNCHANGED <<triage, known>>
  PROVE  IInv'
<1>1. TriageRecord' /\ KnownOK'
  BY DEF IInv, TriageRecord, KnownOK
<1>2. AnswerOK'
  BY AnswerStays DEF Served
<1>3. QED  BY <1>1, <1>2 DEF IInv

LEMMA InvStep ==
  ASSUME IInv, [Next]_vars
  PROVE  IInv'
<1>1. ASSUME UNCHANGED <<rows, triage, known>>
      PROVE  IInv'
  BY <1>1, OtherStep DEF IInv, RowsOK
<1>2. ASSUME NEW a \in saving, SaveAlertEvent(a)
      PROVE  IInv'
  <2>1. UNCHANGED <<triage, known>>
    BY <1>2 DEF SaveAlertEvent
  <2>2. CASE rows' = rows
    BY <1>1, <2>1, <2>2
  <2>3. CASE rows' = rows \cup {[id |-> Cardinality(rows) + 1, alert |-> a,
                                  status |-> NotifyStatus(a)]}
    BY <2>1, <2>3, RowsGrow, OtherStep DEF IInv
  <2>4. QED  BY <1>2, <2>2, <2>3 DEF SaveAlertEvent
<1>3. ASSUME NEW m \in Machine, NEW alertId \in 0..MaxAlerts, Ask(m, alertId)
      PROVE  IInv'
  <2>1. /\ triage' = [NoTriage EXCEPT !.pc = "fetch", !.mach = m, !.alertId = alertId]
        /\ known' = OfMachine(m) /\ rows' = rows
    BY <1>3 DEF Ask
  <2>2. triage' = [pc |-> "fetch", mach |-> m, alertId |-> alertId, shown |-> {},
                   note |-> "none", hint |-> FALSE, diagnosed |-> FALSE, llmNote |-> FALSE]
    BY <2>1 DEF NoTriage
  <2>3. TriageRecord'
    BY <2>2 DEF TriageRecord, Note
  <2>4. KnownOK' /\ AnswerOK'
    BY <2>1, <2>2 DEF KnownOK, OfMachine, AnswerOK, Served
  <2>5. QED  BY <2>1, <2>3, <2>4 DEF IInv, RowsOK
<1>4. CASE Done
  <2>1. triage' = NoTriage /\ known' = {} /\ rows' = rows
    BY <1>4 DEF Done
  <2>2. TriageRecord' /\ KnownOK' /\ AnswerOK'
    BY <2>1 DEF TriageRecord, KnownOK, AnswerOK, NoTriage, Note
  <2>3. QED  BY <2>1, <2>2 DEF IInv, RowsOK
<1>5. ASSUME NEW m \in Machine, NEW level \in Level, NEW delivered \in BOOLEAN,
             RaiseAlert(m, level, delivered)
      PROVE  IInv'
  BY <1>1, <1>5 DEF RaiseAlert
<1>6. CASE ServerStep
  BY <1>1, <1>6 DEF ServerStep
<1>7. CASE UNCHANGED vars
  BY <1>1, <1>7 DEF vars, triageVars
<1>8. QED
  BY <1>2, <1>3, <1>4, <1>5, <1>6, <1>7, FetchStep, FailStep, DiagnoseStep
  DEF Next, SaveStep, TriageStep

(* The inductive invariant holds in every state of every behaviour. *)
THEOREM Invariance == Spec => []IInv
BY InitInv, InvStep, PTL DEF Spec

(* An alert that is asked about by its id is the one that is shown             *)
(* (fetchRecentAlerts), as long as it is among the newest of its machine, for   *)
(* every limit and whatever the server saves meanwhile. *)
THEOREM AskedIsShown == Spec => []AskedAlertShown
<1>1. IInv => AskedAlertShown
  BY DEF IInv, AnswerOK, Served, AskedAlertShown
<1>2. QED  BY <1>1, Invariance, PTL

(* A P0 that the webhook did not take brings the advice to verify the webhook   *)
(* (main.go:421-432, buildRecommendedNext) to whoever asks about the machine,   *)
(* about that alert or about one that is not found, as long as it is among the  *)
(* newest of its machine. *)
THEOREM FailureAdvised == Spec => []FailureSurfaces
<1>1. IInv => FailureSurfaces
  <2> SUFFICES ASSUME IInv, NEW r \in known,
                      triage.pc = "answered" /\ triage.note # "fetch failed",
                      triage.alertId \in {0, r.id} \/ triage.note = "alert not found",
                      r.alert.level = "P0" /\ ~r.alert.delivered,
                      Cardinality(Newer(r)) < TriageLimit
               PROVE  triage.hint
    BY DEF FailureSurfaces
  <2>1. r.status = "failed"
    BY DEF IInv, KnownOK, RowsOK, NotifyStatus
  <2>2. QED  BY <2>1 DEF IInv, AnswerOK, Served, General
<1>2. QED  BY <1>1, Invariance, PTL

-----------------------------------------------------------------------------
(* The types of the server.                                                    *)

LEMMA CheckNames ==
  /\ Dependency = {"mysql", "redis", "vm"}
  /\ DOMAIN Checks = 1..3 /\ Len(Checks) = 3
  /\ \A i \in 1..3 : Checks[i] \in Dependency
  /\ \A i, j \in 1..3 : Checks[i] = Checks[j] => i = j
  /\ \A d \in Dependency : \E i \in 1..3 : d = Checks[i]
<1>1. DOMAIN Checks = 1..3 /\ Len(Checks) = 3
  BY DEF Checks
<1>2. Checks[1] = "mysql" /\ Checks[2] = "redis" /\ Checks[3] = "vm"
  BY DEF Checks
<1>3. \A i \in 1..3 : i = 1 \/ i = 2 \/ i = 3
  OBVIOUS
<1>4. QED  BY <1>1, <1>2, <1>3 DEF Dependency

LEMMA LesserOf ==
  ASSUME NEW a \in Nat, NEW b \in Nat
  PROVE  Min({a, b}) \in Nat /\ Min({a, b}) <= b /\ (a <= b => Min({a, b}) = a)
<1>1. \E x \in {a, b} : \A y \in {a, b} : x <= y
  OBVIOUS
<1>2. PICK x \in {a, b} : x = Min({a, b}) /\ \A y \in {a, b} : x <= y
  BY <1>1 DEF Min
<1>3. QED  BY <1>2

LEMMA GreaterOf ==
  ASSUME NEW v \in Int
  PROVE  Max({v, 1}) \in Nat /\ Max({v, 1}) >= 1
<1>1. \E x \in {v, 1} : \A y \in {v, 1} : x >= y
  OBVIOUS
<1>2. PICK x \in {v, 1} : x = Max({v, 1}) /\ \A y \in {v, 1} : x >= y
  BY <1>1 DEF Max
<1>3. QED  BY <1>2

(* At least one attempt is made, whatever MYSQL_CONNECT_RETRIES says. *)
LEMMA RetriesPositive ==
  ASSUME NEW value \in Settings
  PROVE  ConnectRetries(value) \in Nat /\ ConnectRetries(value) >= 1
BY GreaterOf, LifecycleAssumption DEF ConnectRetries

ServerRec(retries) ==
  [pc : {"open", "migrate", "initStore", "serving", "exited"},
   attempt : 1..retries, store : {"none", "redis", "memory"}]
HealthRec ==
  [at : 0..4, left : 0..Budget, status : {0, 200, 503},
   deps : [Dependency -> Report], seen : [Dependency -> Condition]]

LEMMA ServerTypes ==
  ServerTypeOK <=>
    /\ dep \in [Dependency -> Condition]
    /\ cfg \in [retries : Nat, store : StoreTypes]
    /\ server \in ServerRec(cfg.retries)
    /\ server.pc = "serving" => server.store # "none"
    /\ tables \in BOOLEAN
    /\ health \in HealthRec
    /\ health.at > 0 => server.pc = "serving"
    /\ bound \in Scenario
BY CheckNames DEF ServerTypeOK, ServerRec, HealthRec

LEMMA NoCheckTyped ==
  /\ NoCheck \in HealthRec /\ NoCheck.at = 0 /\ NoCheck.status = 0 /\ NoCheck.left = Budget
  /\ [NoCheck EXCEPT !.at = 1] \in HealthRec
  /\ [NoCheck EXCEPT !.at = 1].at = 1
  /\ [NoCheck EXCEPT !.at = 1].status = 0
  /\ [NoCheck EXCEPT !.at = 1].left = Budget
BY LifecycleAssumption DEF NoCheck, HealthRec, Report, Condition

LEMMA SpendTyped ==
  ASSUME bound \in Scenario, NEW kind \in {"changes", "checks", "P0", "RECOVERY", "triages"},
         Spend(kind)
  PROVE  bound' \in Scenario
<1>1. bound[kind] \in Nat /\ bound[kind] > 0 /\ bound' = [bound EXCEPT ![kind] = @ - 1]
  BY DEF Spend, Scenario
<1>2. bound[kind] - 1 \in Nat
  BY <1>1
<1>3. QED  BY <1>1, <1>2 DEF Scenario

LEMMA ServerInitTyped ==
  ASSUME ServerInit
  PROVE  ServerTypeOK
<1>1. PICK value \in Settings, store \in StoreTypes :
        cfg = [retries |-> ConnectRetries(value), store |-> store]
  BY DEF ServerInit
<1>2. cfg \in [retries : Nat, store : StoreTypes] /\ cfg.retries >= 1
  BY <1>1, RetriesPositive
<1>3. server \in ServerRec(cfg.retries) /\ server.pc # "serving"
  BY <1>2 DEF ServerInit, Starting, ServerRec
<1>4. health \in HealthRec /\ health.at = 0
  BY NoCheckTyped DEF ServerInit
<1>5. QED
  BY <1>2, <1>3, <1>4, LifecycleAssumption, ServerTypes DEF ServerInit

(* The steps of main: where it goes next, what it chooses. *)
LEMMA StartTyped ==
  ASSUME ServerTypeOK, Start
  PROVE  ServerTypeOK' /\ UNCHANGED <<dep, cfg, health, bound>>
<1>1. UNCHANGED <<dep, cfg, health, bound>> /\ server.pc # "serving"
  BY DEF Start, OpenMySQL, AutoMigrate, InitAlertStore, Restart
<1>2. /\ server \in ServerRec(cfg.retries) /\ cfg.retries \in Nat
      /\ server.attempt \in 1..cfg.retries
  BY ServerTypes DEF ServerRec
<1>3. server' \in ServerRec(cfg.retries) /\ (server'.pc = "serving" => server'.store # "none")
  <2>1. ASSUME NEW pc \in {"migrate", "initStore", "exited"}, server' = [server EXCEPT !.pc = pc]
        PROVE  server' \in ServerRec(cfg.retries) /\ server'.pc # "serving"
    BY <1>2, <2>1 DEF ServerRec
  <2>2. CASE server' = [server EXCEPT !.attempt = @ + 1] /\ server.attempt < cfg.retries
    <3>1. server.attempt + 1 \in 1..cfg.retries
      BY <1>2, <2>2
    <3>2. QED  BY <1>1, <1>2, <2>2, <3>1 DEF ServerRec
  <2>3. CASE OpenMySQL
    BY <2>1, <2>2, <2>3 DEF OpenMySQL
  <2>4. CASE AutoMigrate
    BY <2>1, <2>4 DEF AutoMigrate
  <2>5. CASE InitAlertStore
    <3>1. PICK st \in {"redis", "memory"} :
            server' = [server EXCEPT !.pc = "serving", !.store = st]
      BY <2>5 DEF InitAlertStore
    <3>2. QED  BY <1>2, <3>1 DEF ServerRec
  <2>6. CASE Restart
    BY <1>2, <2>6 DEF Restart, Starting, ServerRec
  <2>7. QED  BY <2>3, <2>4, <2>5, <2>6 DEF Start
<1>4. tables' \in BOOLEAN
  BY ServerTypes DEF Start, OpenMySQL, AutoMigrate, InitAlertStore, Restart
<1>5. health.at = 0
  BY <1>1, ServerTypes DEF HealthRec
<1>6. QED
  BY <1>1, <1>3, <1>4, <1>5, ServerTypes DEF ServerTypeOK, ServerRec, HealthRec

(* What a check costs, and when it leaves a dependency down that answers. *)
LEMMA CostTyped ==
  ASSUME ServerTypeOK, NEW d \in Dependency
  PROVE  /\ health.left - Cost(d) \in 0..Budget
         /\ Healthy(d) /\ dep[d] = "up" => Cost(d) = 0
         /\ Healthy(d) /\ dep[d] = "slow" => Cost(d) = Slow
<1>1. health.left \in 0..Budget /\ Budget \in Nat /\ Slow \in Nat
  BY ServerTypes, LifecycleAssumption DEF HealthRec
<1>2. /\ Min({Slow, health.left}) \in Nat /\ Min({Slow, health.left}) <= health.left
      /\ Slow <= health.left => Min({Slow, health.left}) = Slow
  BY <1>1, LesserOf
<1>3. QED  BY <1>1, <1>2 DEF Cost, Healthy

(* The next check of a health request. *)
LEMMA CheckFields ==
  ASSUME ServerTypeOK, CheckDependency
  PROVE  \E i \in 1..3 :
           /\ health.at = i /\ health'.at = i + 1 /\ health'.status = health.status
           /\ health'.left = IF CheckSkipped(Checks[i]) THEN health.left
                             ELSE health.left - Cost(Checks[i])
           /\ health'.seen = [health.seen EXCEPT ![Checks[i]] =
                                IF CheckSkipped(Checks[i]) THEN @ ELSE dep[Checks[i]]]
           /\ health'.deps = [health.deps EXCEPT ![Checks[i]] =
                                IF CheckSkipped(Checks[i]) \/ Healthy(Checks[i])
                                THEN "up" ELSE "down"]
           /\ health' \in HealthRec
           /\ UNCHANGED <<dep, cfg, server, tables, bound>>
<1>1. PICK i : i = health.at
  OBVIOUS
<1>2. i \in 1..3 /\ Checks[i] \in Dependency
  BY <1>1, CheckNames DEF CheckDependency
<1>3. PICK d : d = Checks[i]
  OBVIOUS
<1>4. PICK left \in 0..Budget :
        left = IF CheckSkipped(d) THEN health.left ELSE health.left - Cost(d)
  <2>1. health.left \in 0..Budget
    BY ServerTypes DEF HealthRec
  <2>2. QED  BY <1>2, <1>3, <2>1, CostTyped
<1>5. PICK seen \in Condition : seen = IF CheckSkipped(d) THEN health.seen[d] ELSE dep[d]
  BY <1>2, <1>3, ServerTypes DEF HealthRec
<1>6. PICK up \in {"up", "down"} : up = IF CheckSkipped(d) \/ Healthy(d) THEN "up" ELSE "down"
  OBVIOUS
<1>7. health' = [health EXCEPT !.at = i + 1, !.left = left, !.seen[d] = seen, !.deps[d] = up]
  <2>1. health' = [health EXCEPT
          !.at = @ + 1,
          !.left = IF CheckSkipped(d) THEN @ ELSE @ - Cost(d),
          !.seen[d] = IF CheckSkipped(d) THEN @ ELSE dep[d],
          !.deps[d] = IF CheckSkipped(d) \/ Healthy(d) THEN "up" ELSE "down"]
    BY <1>1, <1>3 DEF CheckDependency
  <2>2. health \in HealthRec
    BY ServerTypes
  <2>3. QED  BY <1>1, <1>4, <1>5, <1>6, <2>1, <2>2 DEF HealthRec
<1>8. health \in HealthRec
  BY ServerTypes
<1>9. /\ health'.at = i + 1 /\ health'.status = health.status /\ health'.left = left
      /\ health'.seen = [health.seen EXCEPT ![d] = seen]
      /\ health'.deps = [health.deps EXCEPT ![d] = up]
  BY <1>7, <1>8 DEF HealthRec
<1>10. health' \in HealthRec
  <2>1. i + 1 \in 0..4 /\ up \in Report
    BY <1>2 DEF Report
  <2>2. QED  BY <1>2, <1>3, <1>7, <1>8, <2>1 DEF HealthRec
<1>11. UNCHANGED <<dep, cfg, server, tables, bound>>
  BY DEF CheckDependency
<1>12. QED
  BY <1>1, <1>2, <1>3, <1>4, <1>5, <1>6, <1>9, <1>10, <1>11

LEMMA AnswerFields ==
  ASSUME ServerTypeOK, HealthAnswer
  PROVE  /\ health.at = 4 /\ health'.at = 0
         /\ health'.seen = health.seen /\ health'.deps = health.deps
         /\ health'.status = IF \A d \in Dependency : health.deps[d] = "up" THEN 200 ELSE 503
         /\ health' \in HealthRec
         /\ UNCHANGED <<dep, cfg, server, tables, bound>>
<1>1. health \in HealthRec
  BY ServerTypes
<1>2. PICK st \in {200, 503} :
        st = IF \A d \in Dependency : health.deps[d] = "up" THEN 200 ELSE 503
  OBVIOUS
<1>3. health' = [health EXCEPT !.at = 0, !.status = st]
  BY <1>2 DEF HealthAnswer
<1>4. /\ health'.at = 0 /\ health'.status = st
      /\ health'.seen = health.seen /\ health'.deps = health.deps
  BY <1>1, <1>3 DEF HealthRec
<1>5. health' \in HealthRec
  <2>1. PICK a \in 0..4 : a = 0
    OBVIOUS
  <2>2. PICK s \in {0, 200, 503} : s = st
    OBVIOUS
  <2>3. health' = [health EXCEPT !.at = a, !.status = s]
    BY <1>3, <2>1, <2>2
  <2>4. QED  BY <1>1, <2>3, ZenonT(60) DEF HealthRec
<1>6. QED  BY <1>2, <1>4, <1>5, CheckNames DEF HealthAnswer

LEMMA ServerStepTyped ==
  ASSUME ServerTypeOK, ServerNext
  PROVE  ServerTypeOK'
<1>1. CASE Start
  BY <1>1, StartTyped
<1>2. CASE CheckDependency
  <2>1. health' \in HealthRec /\ UNCHANGED <<dep, cfg, server, tables, bound>> /\ health.at > 0
    BY <1>2, CheckFields
  <2>2. QED  BY <2>1, CheckNames DEF ServerTypeOK, HealthRec
<1>3. CASE HealthAnswer
  <2>1. health' \in HealthRec /\ UNCHANGED <<dep, cfg, server, tables, bound>> /\ health'.at = 0
    BY <1>3, AnswerFields
  <2>2. QED  BY <2>1, CheckNames DEF ServerTypeOK, HealthRec
<1>4. CASE HealthRequest
  <2>1. /\ health' \in HealthRec /\ UNCHANGED <<dep, cfg, server, tables>>
        /\ server.pc = "serving" /\ bound' \in Scenario
    BY <1>4, NoCheckTyped, SpendTyped DEF HealthRequest, Serving, ServerTypeOK
  <2>2. QED  BY <2>1, CheckNames DEF ServerTypeOK, HealthRec
<1>5. ASSUME NEW d \in Dependency, NEW c \in Condition, DependencyChanges(d, c)
      PROVE  ServerTypeOK'
  <2>1. bound' \in Scenario /\ UNCHANGED <<cfg, server, tables, health>>
        /\ dep' \in [Dependency -> Condition]
    BY <1>5, SpendTyped DEF DependencyChanges, ServerTypeOK
  <2>2. QED  BY <2>1 DEF ServerTypeOK
<1>6. CASE ServerDies
  <2>1. /\ bound' \in Scenario /\ UNCHANGED <<dep, cfg, tables>>
        /\ server' = [server EXCEPT !.pc = "exited"] /\ health' = NoCheck
    BY <1>6, SpendTyped DEF ServerDies, ServerTypeOK
  <2>2. server' \in ServerRec(cfg.retries) /\ server'.pc = "exited"
    BY <2>1, ServerTypes DEF ServerRec
  <2>3. QED  BY <2>1, <2>2, NoCheckTyped, CheckNames DEF ServerTypeOK, ServerRec, HealthRec
<1>7. QED
  BY <1>1, <1>2, <1>3, <1>4, <1>5, <1>6 DEF ServerNext, Health

-----------------------------------------------------------------------------
(* The health check.  As long as every check went well, what is left of the    *)
(* budget is what the slow ones did not use; so the first one that did not go  *)
(* well did not answer, or the slow ones had used the budget up.               *)

SlowIn(seen, i) == Cardinality({j \in 1..i : seen[Checks[j]] = "slow"})
AllUp(i) == \A j \in 1..i : health.deps[Checks[j]] = "up"

\* How many checks of the last request are over.
ChecksDone ==
  IF health.at > 0 THEN health.at - 1 ELSE IF health.status # 0 THEN 3 ELSE 0

CheckOK(i) ==
  /\ health.deps[Checks[i]] \in {"up", "down"}
  /\ health.deps[Checks[i]] = "up" => health.seen[Checks[i]] \in Answering
  /\ AllUp(i - 1) /\ health.deps[Checks[i]] = "down" /\ health.seen[Checks[i]] \in Answering
       => Slow * SlowIn(health.seen, i) >= Budget

HealthInv ==
  /\ health.status # 0 => health.at = 0
  /\ \A i \in 1..3 : i <= ChecksDone => CheckOK(i)
  /\ \A i \in 1..3 : i > ChecksDone => health.seen[Checks[i]] = "up"
  /\ health.at > 0 /\ AllUp(health.at - 1)
       => health.left = Budget - Slow * SlowIn(health.seen, health.at - 1)
  /\ health.status = 200 <=> health.status # 0 /\ AllUp(3)

LEMMA SlowInType ==
  ASSUME NEW seen, NEW i \in Nat
  PROVE  SlowIn(seen, i) \in Nat
<1>1. {j \in 1..i : seen[Checks[j]] = "slow"} \subseteq 1..i /\ IsFiniteSet(1..i)
  BY FS_Interval
<1>2. QED  BY <1>1, FS_Subset, FS_CardinalityType DEF SlowIn

(* One more check: it was slow, or not. *)
LEMMA SlowInNext ==
  ASSUME NEW seen, NEW i \in 1..3
  PROVE  SlowIn(seen, i) = SlowIn(seen, i - 1) + IF seen[Checks[i]] = "slow" THEN 1 ELSE 0
<1> DEFINE S == {j \in 1..(i - 1) : seen[Checks[j]] = "slow"}
           T == {j \in 1..i : seen[Checks[j]] = "slow"}
<1>1. IsFiniteSet(S)
  <2>1. S \subseteq 1..(i - 1) /\ IsFiniteSet(1..(i - 1))
    BY FS_Interval
  <2>2. QED  BY <2>1, FS_Subset
<1>2. i \notin S
  OBVIOUS
<1>3. T = IF seen[Checks[i]] = "slow" THEN S \cup {i} ELSE S
  OBVIOUS
<1>4. Cardinality(S) \in Nat
  BY <1>1, FS_CardinalityType
<1> HIDE DEF S, T
<1>5. Cardinality(T) = Cardinality(S) + IF seen[Checks[i]] = "slow" THEN 1 ELSE 0
  BY <1>1, <1>2, <1>3, <1>4, FS_AddElement
<1>6. QED  BY <1>5 DEF SlowIn, S, T

LEMMA SlowInSame ==
  ASSUME NEW f, NEW g, NEW i \in Nat, \A j \in 1..i : f[Checks[j]] = g[Checks[j]]
  PROVE  SlowIn(f, i) = SlowIn(g, i)
<1>1. {j \in 1..i : f[Checks[j]] = "slow"} = {j \in 1..i : g[Checks[j]] = "slow"}
  OBVIOUS
<1>2. QED  BY <1>1 DEF SlowIn

LEMMA InitHealth ==
  health = NoCheck \/ health = [NoCheck EXCEPT !.at = 1] => HealthInv
<1> SUFFICES ASSUME health = NoCheck \/ health = [NoCheck EXCEPT !.at = 1]
             PROVE  HealthInv
  OBVIOUS
<1>1. /\ health.status = 0 /\ health.at \in {0, 1} /\ health.left = Budget
      /\ health.seen = [d \in Dependency |-> "up"]
  BY DEF NoCheck
<1>2. SlowIn(health.seen, 0) = 0
  <2>1. {j \in 1..0 : health.seen[Checks[j]] = "slow"} = {}
    OBVIOUS
  <2>2. QED  BY <2>1, FS_EmptySet DEF SlowIn
<1>3. ChecksDone = 0
  BY <1>1 DEF ChecksDone
<1>4. health.at > 0 => health.at - 1 = 0 /\ health.left = Budget - Slow * 0
  BY <1>1, LifecycleAssumption
<1>5. health.at > 0 /\ AllUp(health.at - 1)
        => health.left = Budget - Slow * SlowIn(health.seen, health.at - 1)
  BY <1>2, <1>4
<1>6. \A i \in 1..3 : health.seen[Checks[i]] = "up"
  BY <1>1, CheckNames
<1>7. QED  BY <1>1, <1>3, <1>5, <1>6 DEF HealthInv

LEMMA InitHealthThen ==
  health' = NoCheck \/ health' = [NoCheck EXCEPT !.at = 1] => HealthInv'
<1>1. (health = NoCheck \/ health = [NoCheck EXCEPT !.at = 1] => HealthInv)'
  BY InitHealth, PTL
<1>2. QED  BY <1>1

(* A check that does not go well although its dependency answers finds the     *)
(* budget used up by the slow ones, or uses it up.                             *)
LEMMA CheckHealth ==
  ASSUME ServerTypeOK, HealthInv, CheckDependency
  PROVE  HealthInv'
<1>1. PICK i \in 1..3 :
        /\ health.at = i /\ health'.at = i + 1 /\ health'.status = health.status
        /\ health'.left = IF CheckSkipped(Checks[i]) THEN health.left
                          ELSE health.left - Cost(Checks[i])
        /\ health'.seen = [health.seen EXCEPT ![Checks[i]] =
                             IF CheckSkipped(Checks[i]) THEN @ ELSE dep[Checks[i]]]
        /\ health'.deps = [health.deps EXCEPT ![Checks[i]] =
                             IF CheckSkipped(Checks[i]) \/ Healthy(Checks[i])
                             THEN "up" ELSE "down"]
  BY CheckFields
<1>2. PICK d : d = Checks[i] /\ d \in Dependency
  BY CheckNames
<1>3. /\ health.status = 0 /\ health'.status = 0
      /\ ChecksDone = i - 1 /\ ChecksDone' = i
  BY <1>1 DEF HealthInv, ChecksDone
<1>4. /\ health.seen \in [Dependency -> Condition] /\ health.deps \in [Dependency -> Report]
      /\ dep[d] \in Condition /\ health.left \in 0..Budget
      /\ Budget \in Nat \ {0} /\ Slow \in 1..Budget
  BY <1>2, ServerTypes, LifecycleAssumption DEF HealthRec
<1>5. /\ health'.seen[d] = IF CheckSkipped(d) THEN health.seen[d] ELSE dep[d]
      /\ health'.deps[d] = IF CheckSkipped(d) \/ Healthy(d) THEN "up" ELSE "down"
      /\ health'.left = IF CheckSkipped(d) THEN health.left ELSE health.left - Cost(d)
  BY <1>1, <1>2, <1>4
<1>6. \A j \in 1..3 : j # i => /\ health'.seen[Checks[j]] = health.seen[Checks[j]]
                              /\ health'.deps[Checks[j]] = health.deps[Checks[j]]
  BY <1>1, <1>4, CheckNames
<1>7. PICK n : n = SlowIn(health.seen, i - 1)
  OBVIOUS
<1>8. n \in Nat /\ SlowIn(health'.seen, i - 1) = n
  <2>1. i - 1 \in Nat
    OBVIOUS
  <2>2. \A j \in 1..(i - 1) : health'.seen[Checks[j]] = health.seen[Checks[j]]
    BY <1>6
  <2>3. QED  BY <1>7, <2>1, <2>2, SlowInType, SlowInSame
<1>9. SlowIn(health'.seen, i) = n + IF health'.seen[d] = "slow" THEN 1 ELSE 0
  BY <1>2, <1>8, SlowInNext
<1>10. AllUp(i - 1)' <=> AllUp(i - 1)
  BY <1>6 DEF AllUp
<1>11. AllUp(i - 1) => health.left = Budget - Slow * n
  BY <1>1, <1>7 DEF HealthInv
<1>12. health.seen[d] = "up"
  BY <1>2, <1>3 DEF HealthInv
<1>13. Slow * n \in Nat /\ Slow * (n + 1) = Slow * n + Slow
  BY <1>4, <1>8
<1>14. CheckOK(i)'
  <2>1. health'.deps[d] \in {"up", "down"}
    BY <1>5
  <2>2. health'.deps[d] = "up" => health'.seen[d] \in Answering
    BY <1>5, <1>12 DEF Healthy, Answering
  <2>3. ASSUME AllUp(i - 1), health'.deps[d] = "down", health'.seen[d] \in Answering
        PROVE  Slow * SlowIn(health'.seen, i) >= Budget
    <3>1. ~CheckSkipped(d) /\ ~Healthy(d) /\ dep[d] \in Answering
      BY <1>5, <2>3
    <3>2. health.left = 0 \/ (dep[d] = "slow" /\ Slow > health.left)
      BY <1>4, <3>1 DEF Healthy
    <3>3. CASE dep[d] = "slow"
      <4>1. SlowIn(health'.seen, i) = n + 1
        BY <1>5, <1>9, <3>1, <3>3
      <4>2. Slow * n + Slow >= Budget
        BY <1>4, <1>11, <1>13, <2>3, <3>2
      <4>3. QED  BY <1>13, <4>1, <4>2
    <3>4. CASE dep[d] # "slow"
      <4>1. SlowIn(health'.seen, i) = n
        BY <1>5, <1>8, <1>9, <3>1, <3>4
      <4>2. Slow * n = Budget
        BY <1>4, <1>11, <1>13, <2>3, <3>2, <3>4
      <4>3. QED  BY <1>4, <4>1, <4>2
    <3>5. QED  BY <3>3, <3>4
  <2>4. QED  BY <1>2, <1>10, <2>1, <2>2, <2>3 DEF CheckOK
<1>15. ASSUME NEW j \in 1..3, j < i PROVE CheckOK(j)'
  <2>1. CheckOK(j)
    BY <1>3, <1>15 DEF HealthInv
  <2>2. SlowIn(health'.seen, j) = SlowIn(health.seen, j)
    BY <1>6, <1>15, SlowInSame
  <2>3. AllUp(j - 1)' <=> AllUp(j - 1)
    BY <1>6, <1>15 DEF AllUp
  <2>4. QED  BY <1>6, <1>15, <2>1, <2>2, <2>3 DEF CheckOK
<1>16. \A j \in 1..3 : j <= ChecksDone' => CheckOK(j)'
  <2>1. \A j \in 1..3 : j <= i => j = i \/ j < i
    OBVIOUS
  <2>2. QED  BY <1>3, <1>14, <1>15, <2>1
<1>17. \A j \in 1..3 : j > ChecksDone' => health'.seen[Checks[j]] = "up"
  BY <1>3, <1>6 DEF HealthInv
<1>18. AllUp(i)' => health'.left = Budget - Slow * SlowIn(health'.seen, i)
  <2> SUFFICES ASSUME AllUp(i)'
               PROVE  health'.left = Budget - Slow * SlowIn(health'.seen, i)
    OBVIOUS
  <2>1. AllUp(i - 1) /\ health'.deps[d] = "up"
    <3>1. AllUp(i - 1)' /\ health'.deps[d] = "up"
      BY <1>2 DEF AllUp
    <3>2. QED  BY <3>1, <1>10
  <2>2. CASE CheckSkipped(d)
    <3>1. health'.left = health.left /\ health'.seen[d] = "up"
      BY <1>5, <1>12, <2>2
    <3>2. SlowIn(health'.seen, i) = n
      BY <1>8, <1>9, <3>1
    <3>3. QED  BY <1>11, <2>1, <3>1, <3>2
  <2>3. CASE ~CheckSkipped(d)
    <3>1. Healthy(d) /\ health'.seen[d] = dep[d] /\ health'.left = health.left - Cost(d)
      BY <1>5, <2>1, <2>3
    <3>2. dep[d] = "up" \/ dep[d] = "slow"
      BY <3>1 DEF Healthy, Answering
    <3>3. CASE dep[d] = "up"
      <4>1. SlowIn(health'.seen, i) = n /\ Cost(d) = 0
        BY <1>2, <1>8, <1>9, <3>1, <3>3, CostTyped
      <4>2. QED  BY <1>4, <1>11, <2>1, <3>1, <4>1
    <3>4. CASE dep[d] = "slow"
      <4>1. SlowIn(health'.seen, i) = n + 1 /\ Cost(d) = Slow
        BY <1>2, <1>8, <1>9, <3>1, <3>4, CostTyped
      <4>2. health'.left = Budget - (Slow * n + Slow)
        BY <1>4, <1>11, <1>13, <2>1, <3>1, <4>1
      <4>3. QED  BY <1>13, <4>1, <4>2
    <3>5. QED  BY <3>2, <3>3, <3>4
  <2>4. QED  BY <2>2, <2>3
<1>19. (health.at > 0 /\ AllUp(health.at - 1)
         => health.left = Budget - Slow * SlowIn(health.seen, health.at - 1))'
  <2>1. health'.at - 1 = i
    BY <1>1
  <2>2. AllUp(health.at - 1)' <=> AllUp(i)'
    BY <2>1 DEF AllUp
  <2>3. QED  BY <1>18, <2>1, <2>2
<1>20. QED
  BY <1>3, <1>16, <1>17, <1>19 DEF HealthInv

LEMMA AnswerHealth ==
  ASSUME ServerTypeOK, HealthInv, HealthAnswer
  PROVE  HealthInv'
<1>1. /\ health.at = 4 /\ health'.at = 0
      /\ health'.seen = health.seen /\ health'.deps = health.deps
      /\ health'.status = IF \A d \in Dependency : health.deps[d] = "up" THEN 200 ELSE 503
  BY AnswerFields
<1>2. ChecksDone = 3 /\ ChecksDone' = 3
  BY <1>1 DEF ChecksDone
<1>3. \A i \in 1..3 : CheckOK(i)
  BY <1>2 DEF HealthInv
<1>4. \A i \in 1..3 : CheckOK(i)'
  BY <1>1, <1>3 DEF CheckOK, AllUp
<1>5. (\A d \in Dependency : health.deps[d] = "up") <=> AllUp(3)'
  <2>1. AllUp(3)' <=> \A j \in 1..3 : health.deps[Checks[j]] = "up"
    BY <1>1 DEF AllUp
  <2>2. QED  BY <2>1, CheckNames
<1>6. health'.status = 200 <=> health'.status # 0 /\ AllUp(3)'
  BY <1>1, <1>5
<1>7. QED  BY <1>1, <1>2, <1>4, <1>6 DEF HealthInv

LEMMA HealthStays ==
  ASSUME HealthInv, UNCHANGED health
  PROVE  HealthInv'
BY DEF HealthInv, ChecksDone, CheckOK, AllUp

LEMMA HealthInvStep ==
  ASSUME ServerTypeOK, HealthInv, ServerNext
  PROVE  HealthInv'
<1>1. CASE Start
  BY <1>1, StartTyped, HealthStays
<1>2. CASE CheckDependency
  BY <1>2, CheckHealth
<1>3. CASE HealthAnswer
  BY <1>3, AnswerHealth
<1>4. CASE HealthRequest
  BY <1>4, InitHealthThen DEF HealthRequest
<1>5. ASSUME NEW d \in Dependency, NEW c \in Condition, DependencyChanges(d, c)
      PROVE  HealthInv'
  BY <1>5, HealthStays DEF DependencyChanges
<1>6. CASE ServerDies
  BY <1>6, InitHealthThen DEF ServerDies
<1>7. QED
  BY <1>1, <1>2, <1>3, <1>4, <1>5, <1>6 DEF ServerNext, Health

LEMMA InvIsTruthful ==
  ASSUME ServerTypeOK, HealthInv
  PROVE  HealthTruthful
<1>1. health.status \in {0, 200, 503}
  BY ServerTypes DEF HealthRec
<1>2. ASSUME health.status # 0
      PROVE  \A i \in 1..3 : CheckOK(i)
  <2>1. ChecksDone = 3
    BY <1>2 DEF HealthInv, ChecksDone
  <2>2. QED  BY <2>1 DEF HealthInv
<1>3. ASSUME health.status = 200, NEW d \in Dependency
      PROVE  health.seen[d] \in Answering
  <2>1. AllUp(3)
    BY <1>3 DEF HealthInv
  <2>2. PICK i \in 1..3 : d = Checks[i]
    BY CheckNames
  <2>3. QED  BY <1>2, <1>3, <2>1, <2>2 DEF AllUp, CheckOK
<1>4. ASSUME health.status = 503
      PROVE  \E i \in DOMAIN Checks :
               FirstDown(i) /\ (health.seen[Checks[i]] \in Answering => Slow * SlowUpTo(i) >= Budget)
  <2>1. ~AllUp(3) /\ \A i \in 1..3 : CheckOK(i)
    BY <1>2, <1>4 DEF HealthInv
  <2>2. PICK i \in 1..3 :
          health.deps[Checks[i]] # "up" /\ \A j \in 1..3 : j < i => health.deps[Checks[j]] = "up"
    <3>1. health.deps[Checks[1]] # "up" \/ health.deps[Checks[2]] # "up" \/ health.deps[Checks[3]] # "up"
      BY <2>1 DEF AllUp
    <3>2. \A j \in 1..3 : j = 1 \/ j = 2 \/ j = 3
      OBVIOUS
    <3>3. QED  BY <3>1, <3>2
  <2>3. AllUp(i - 1)
    BY <2>2 DEF AllUp
  <2>4. health.deps[Checks[i]] = "down"
    BY <2>1, <2>2 DEF CheckOK
  <2>5. FirstDown(i)
    BY <2>2, <2>4 DEF FirstDown
  <2>6. SlowUpTo(i) = SlowIn(health.seen, i)
    BY DEF SlowUpTo, SlowIn
  <2>7. health.seen[Checks[i]] \in Answering => Slow * SlowUpTo(i) >= Budget
    BY <2>1, <2>3, <2>4, <2>6 DEF CheckOK
  <2>8. QED  BY <2>5, <2>7, CheckNames
<1>5. QED  BY <1>3, <1>4 DEF HealthTruthful

-----------------------------------------------------------------------------
(* The types of the whole.  An alert that is notified takes the next place in   *)
(* the order of triggered_at and is saved at most once, so no two rows share    *)
(* their place although evaluations save out of order.                          *)

TrigOK ==
  /\ alerts \in Nat /\ saving \subseteq Alert /\ rows \subseteq Row
  /\ \A a \in saving : a.trig <= alerts
  /\ \A r \in rows : r.alert.trig <= alerts
  /\ \A a, b \in saving : a.trig = b.trig => a = b
  /\ \A r, q \in rows : r.alert.trig = q.alert.trig => r = q
  /\ \A a \in saving, r \in rows : a.trig # r.alert.trig

TriageShape ==
  \/ triage = NoTriage
  \/ triage.pc # "idle" /\ triage.mach \in Machine /\ triage.alertId \in 0..MaxAlerts

TypeInv == ServerTypeOK /\ HealthInv /\ IInv /\ TrigOK /\ llm \in BOOLEAN /\ TriageShape

LEMMA InitTypes ==
  ASSUME Init
  PROVE  TypeInv
<1>1. ServerTypeOK /\ HealthInv
  BY ServerInitTyped, InitHealth DEF Init, ServerInit
<1>2. TrigOK /\ llm \in BOOLEAN /\ TriageShape
  BY DEF Init, TrigOK, TriageShape
<1>3. QED  BY <1>1, <1>2, InitInv DEF TypeInv

LEMMA RaiseTrig ==
  ASSUME TrigOK, NEW m \in Machine, NEW level \in Level, NEW delivered \in BOOLEAN,
         RaiseAlert(m, level, delivered)
  PROVE  TrigOK'
<1>1. PICK a : a = [mach |-> m, trig |-> alerts + 1, level |-> level, delivered |-> delivered]
  OBVIOUS
<1>2. a \in Alert /\ a.trig = alerts + 1
  BY <1>1 DEF Alert, TrigOK
<1>3. saving' = saving \cup {a} /\ rows' = rows /\ alerts' = alerts + 1
  BY <1>1 DEF RaiseAlert
<1>4. alerts' \in Nat /\ saving' \subseteq Alert /\ rows' \subseteq Row
  BY <1>2, <1>3 DEF TrigOK
<1>5. \A b \in saving : b.trig \in Nat /\ b.trig <= alerts
  BY DEF TrigOK, Alert
<1>6. \A r \in rows : r.alert.trig \in Nat /\ r.alert.trig <= alerts
  BY DEF TrigOK, Row, Alert
<1>7. alerts \in Nat
  BY DEF TrigOK
<1>8. \A b, c \in saving' : b.trig = c.trig => b = c
  BY <1>2, <1>3, <1>5, <1>7 DEF TrigOK
<1>9. \A b \in saving', r \in rows' : b.trig # r.alert.trig
  BY <1>2, <1>3, <1>6, <1>7 DEF TrigOK
<1>10. \A b \in saving' : b.trig <= alerts'
  BY <1>2, <1>3, <1>5, <1>7
<1>11. \A r \in rows' : r.alert.trig <= alerts'
  BY <1>3, <1>6, <1>7
<1>12. \A r, q \in rows' : r.alert.trig = q.alert.trig => r = q
  BY <1>3 DEF TrigOK
<1>13. QED  BY <1>4, <1>8, <1>9, <1>10, <1>11, <1>12 DEF TrigOK

LEMMA SaveTrig ==
  ASSUME TrigOK, RowsOK, NEW a \in saving, SaveAlertEvent(a)
  PROVE  TrigOK'
<1>1. saving' = saving \ {a} /\ alerts' = alerts /\ a \in Alert
  BY DEF SaveAlertEvent, TrigOK
<1>2. CASE rows' = rows
  BY <1>1, <1>2 DEF TrigOK
<1>3. CASE rows' = rows \cup {[id |-> Cardinality(rows) + 1, alert |-> a,
                                status |-> NotifyStatus(a)]}
  <2>1. PICK r : r = [id |-> Cardinality(rows) + 1, alert |-> a, status |-> NotifyStatus(a)]
    OBVIOUS
  <2>2. Cardinality(rows) + 1 \in Nat
    BY FS_CardinalityType DEF RowsOK
  <2>3. r \in Row /\ r.alert = a
    <3>1. NotifyStatus(a) \in {"sent", "failed"}
      BY DEF NotifyStatus
    <3>2. QED  BY <1>1, <2>1, <2>2, <3>1 DEF Row
  <2>4. rows' = rows \cup {r}
    BY <1>3, <2>1
  <2>5. \A q \in rows : q.alert.trig # a.trig
    BY DEF TrigOK
  <2>6. \A q, t \in rows' : q.alert.trig = t.alert.trig => q = t
    BY <2>3, <2>4, <2>5 DEF TrigOK
  <2>7. \A b \in saving', q \in rows' : b.trig # q.alert.trig
    BY <1>1, <2>3, <2>4 DEF TrigOK
  <2>8. \A q \in rows' : q.alert.trig <= alerts'
    BY <1>1, <2>3, <2>4 DEF TrigOK
  <2>9. alerts' \in Nat /\ saving' \subseteq Alert /\ rows' \subseteq Row
    BY <1>1, <2>3, <2>4 DEF TrigOK
  <2>10. /\ \A b \in saving' : b.trig <= alerts'
         /\ \A b, c \in saving' : b.trig = c.trig => b = c
    BY <1>1 DEF TrigOK
  <2>11. QED  BY <2>6, <2>7, <2>8, <2>9, <2>10 DEF TrigOK
<1>4. QED  BY <1>2, <1>3 DEF SaveAlertEvent

LEMMA TypeStep ==
  ASSUME TypeInv, [Next]_vars
  PROVE  TypeInv'
<1>1. IInv'
  BY InvStep DEF TypeInv
<1>2. ServerTypeOK /\ HealthInv /\ IInv /\ TrigOK /\ llm \in BOOLEAN /\ TriageShape
  BY DEF TypeInv
<1>3. ASSUME UNCHANGED serverVars PROVE ServerTypeOK' /\ HealthInv'
  <2>1. UNCHANGED <<dep, cfg, server, tables, health, bound>>
    BY <1>3 DEF serverVars
  <2>2. HealthInv'
    BY <1>2, <2>1, HealthStays
  <2>3. ServerTypeOK'
    BY <1>2, <2>1 DEF ServerTypeOK
  <2>4. QED  BY <2>2, <2>3
<1>4. ASSUME NEW kind \in {"P0", "RECOVERY", "triages"}, Spend(kind),
             UNCHANGED <<dep, cfg, server, tables, health>>
      PROVE  ServerTypeOK' /\ HealthInv'
  <2>1. bound' \in Scenario
    BY <1>2, <1>4, SpendTyped DEF ServerTypeOK
  <2>2. QED  BY <1>2, <1>4, <2>1, HealthStays DEF ServerTypeOK
<1>5. ASSUME UNCHANGED <<saving, rows, alerts>> PROVE TrigOK'
  BY <1>2, <1>5 DEF TrigOK
<1>6. ASSUME UNCHANGED triage PROVE TriageShape'
  BY <1>2, <1>6 DEF TriageShape
<1>7. CASE ServerStep
  <2>1. ServerTypeOK' /\ HealthInv'
    BY <1>2, <1>7, ServerStepTyped, HealthInvStep DEF ServerStep
  <2>2. TrigOK'
    <3>1. saving' \subseteq saving /\ UNCHANGED <<rows, alerts>>
      BY <1>7 DEF ServerStep
    <3>2. QED  BY <1>2, <3>1 DEF TrigOK
  <2>3. QED  BY <1>1, <1>2, <1>6, <1>7, <2>1, <2>2 DEF ServerStep, TypeInv
<1>8. ASSUME NEW m \in Machine, NEW level \in Level, NEW delivered \in BOOLEAN,
             RaiseAlert(m, level, delivered)
      PROVE  TypeInv'
  <2>1. ServerTypeOK' /\ HealthInv'
    BY <1>4, <1>8 DEF RaiseAlert, Level
  <2>2. TrigOK'
    BY <1>2, <1>8, RaiseTrig
  <2>3. QED  BY <1>1, <1>2, <1>6, <1>8, <2>1, <2>2 DEF RaiseAlert, TypeInv
<1>9. ASSUME NEW a \in saving, SaveAlertEvent(a)
      PROVE  TypeInv'
  <2>1. ServerTypeOK' /\ HealthInv'
    BY <1>3, <1>9 DEF SaveAlertEvent
  <2>2. TrigOK'
    BY <1>2, <1>9, SaveTrig DEF IInv
  <2>3. QED  BY <1>1, <1>2, <1>6, <1>9, <2>1, <2>2 DEF SaveAlertEvent, TypeInv
<1>10. ASSUME NEW m \in Machine, NEW alertId \in 0..MaxAlerts, Ask(m, alertId)
      PROVE  TypeInv'
  <2>1. ServerTypeOK' /\ HealthInv'
    BY <1>4, <1>10 DEF Ask
  <2>2. triage'.pc = "fetch" /\ triage'.mach = m /\ triage'.alertId = alertId
    BY <1>10 DEF Ask, NoTriage
  <2>3. TriageShape'
    BY <2>2 DEF TriageShape
  <2>4. QED  BY <1>1, <1>2, <1>5, <1>10, <2>1, <2>3 DEF Ask, TypeInv
<1>11. CASE TriageStep
  <2>1. UNCHANGED <<serverVars, saving, rows, alerts, llm>>
    BY <1>11 DEF TriageStep, FetchRecentAlerts, FetchFails, Fetched, DiagnoseWithLLM
  <2>2. /\ triage.pc # "idle" /\ triage'.pc # "idle"
        /\ triage'.mach = triage.mach /\ triage'.alertId = triage.alertId
    <3>1. ASSUME NEW events \in SUBSET rows, NEW note \in Note, Fetched(events, note)
          PROVE  /\ triage'.pc # "idle"
                 /\ triage'.mach = triage.mach /\ triage'.alertId = triage.alertId
      BY <1>2, <3>1, FetchedFields DEF IInv
    <3>2. CASE FetchRecentAlerts
      <4>1. PICK events \in SUBSET rows, note \in Note : Fetched(events, note)
        <5>1. /\ Context(Recent(triage.mach, TriageLimit)) \in SUBSET rows
              /\ FetchNote(Recent(triage.mach, TriageLimit)) \in Note
          BY DEF Recent, OfMachine, Context, Matching, FetchNote, Note
        <5>2. QED  BY <3>2, <5>1 DEF FetchRecentAlerts
      <4>2. QED  BY <3>1, <3>2, <4>1 DEF FetchRecentAlerts
    <3>3. CASE FetchFails
      BY <3>1, <3>3 DEF FetchFails, Note
    <3>4. CASE DiagnoseWithLLM
      BY <1>2, <3>4 DEF DiagnoseWithLLM, IInv, TriageRecord
    <3>5. QED  BY <1>11, <3>2, <3>3, <3>4 DEF TriageStep
  <2>3. triage # NoTriage
    BY <2>2 DEF NoTriage
  <2>4. TriageShape'
    BY <1>2, <2>2, <2>3 DEF TriageShape
  <2>5. QED  BY <1>1, <1>2, <1>3, <1>5, <2>1, <2>4 DEF TypeInv
<1>12. CASE Done
  <2>1. UNCHANGED <<serverVars, saving, rows, alerts, llm>> /\ TriageShape'
    BY <1>12 DEF Done, TriageShape
  <2>2. QED  BY <1>1, <1>2, <1>3, <1>5, <2>1 DEF TypeInv
<1>13. CASE UNCHANGED vars
  BY <1>1, <1>2, <1>3, <1>5, <1>6, <1>13 DEF vars, triageVars, TypeInv
<1>14. QED
  BY <1>7, <1>8, <1>9, <1>10, <1>11, <1>12, <1>13 DEF Next, SaveStep

LEMMA TypesHold == Spec => []TypeInv
BY InitTypes, TypeStep, PTL DEF Spec

(* Every variable of the server, of its start (db.go, main.go) and of the       *)
(* triage has its type; no id and no place in the order of triggered_at is      *)
(* given twice. *)
THEOREM TypeCorrect == Spec => []TypeOK
<1>1. TypeInv => TypeOK
  <2> SUFFICES ASSUME TypeInv PROVE TypeOK
    OBVIOUS
  <2>1. triage = NoTriage \/ triage \in Triage
    BY DEF TypeInv, IInv, TriageRecord, TriageShape, Triage
  <2>2. \A r, q \in rows : r.id = q.id \/ r.alert.trig = q.alert.trig => r = q
    BY DEF TypeInv, IInv, RowsOK, TrigOK
  <2>3. QED  BY <2>1, <2>2 DEF TypeInv, TrigOK, IInv, KnownOK, TypeOK
<1>2. QED  BY <1>1, TypesHold, PTL

(* What /healthz/deps says is true of the moments at which it looked            *)
(* (health.go), although its checks share one budget: "up" that every           *)
(* dependency answered, "degraded" that the first one named did not, or that    *)
(* it and those before it were slow enough to use the budget up. *)
THEOREM HealthIsTruthful == Spec => []HealthTruthful
<1>1. TypeInv => HealthTruthful
  BY InvIsTruthful DEF TypeInv
<1>2. QED  BY <1>1, TypesHold, PTL
=============================================================================
