---------------------------- MODULE AssistantTriage ----------------------------
(***************************************************************************)
(* The assistant (cmd/assistant/main.go) asks the server for the recent     *)
(* alerts of a machine (main.go) and then, if LLM_ENABLED, a language model *)
(* for a diagnosis.  Meanwhile the server evaluates samples: it notifies,   *)
(* and saves the row of the alert afterwards, evaluations that overlap in   *)
(* any order.  The server and its dependencies are those of ServerLifecycle. *)
(***************************************************************************)
EXTENDS ServerLifecycle

CONSTANTS
  Machine,       \* machine ids
  None,          \* no machine
  TriageLimit,   \* the limit the assistant asks for, 5
  DefaultLimit, MostLimit,  \* of /api/v1/alerts/recent, 20 and 100
  MaxAlerts      \* alert ids that are asked about, a bound

ASSUME TriageAssumption ==
  /\ None \notin Machine
  /\ MostLimit \in Nat /\ DefaultLimit \in 1..MostLimit
  /\ TriageLimit \in 1..MostLimit   \* else the server would take its default
  /\ MaxAlerts \in Nat

VARIABLES
  saving,   \* alerts that are notified and not yet saved
  rows,     \* the table alert_event_records
  alerts,   \* alerts raised, in the order of their triggered_at
  llm,      \* LLM_ENABLED of the assistant
  triage,   \* the triage request and its answer
  known     \* history: the machine's rows when the request came
triageVars == <<saving, rows, alerts, llm, triage, known>>
vars == <<serverVars, triageVars>>

\* An alert of machine mach that was triggered as the trig-th; delivered says
\* whether the webhook took its notification, and status is the row's notify_status.
Level == {"P0", "RECOVERY"}
Alert == [mach : Machine, trig : Nat, level : Level, delivered : BOOLEAN]
Row == [id : Nat, alert : Alert, status : {"sent", "failed"}]

Note == {"none", "fetch failed", "alert not found"}
NoTriage == [pc |-> "idle", mach |-> None, alertId |-> 0, shown |-> {}, note |-> "none",
             hint |-> FALSE, diagnosed |-> FALSE, llmNote |-> FALSE]
Triage == [pc : {"fetch", "diagnose", "answered"}, mach : Machine,
           alertId : 0..MaxAlerts, shown : SUBSET rows, note : Note, hint : BOOLEAN,
           diagnosed : BOOLEAN, llmNote : BOOLEAN]

TypeOK ==
  /\ ServerTypeOK
  /\ saving \subseteq Alert
  /\ rows \subseteq Row
  /\ \A r, q \in rows : r.id = q.id \/ r.alert.trig = q.alert.trig => r = q
  /\ alerts \in Nat
  /\ llm \in BOOLEAN
  /\ triage = NoTriage \/ triage \in Triage
  /\ known \subseteq rows

Init ==
  /\ ServerInit
  /\ saving = {}
  /\ rows = {}
  /\ alerts = 0
  /\ llm \in BOOLEAN
  /\ triage = NoTriage
  /\ known = {}

-----------------------------------------------------------------------------
(* The server's side.                                                         *)

\* evaluateCPUAlert has taken triggered_at and notified.
RaiseAlert(m, level, delivered) ==
  /\ Serving
  /\ Spend(level)
  /\ alerts' = alerts + 1
  /\ saving' = saving \cup
       {[mach |-> m, trig |-> alerts + 1, level |-> level, delivered |-> delivered]}
  /\ UNCHANGED <<dep, cfg, server, tables, health, rows, llm, triage, known>>

\* A statement on MySQL: it needs an answer, and the tables.
Answers == dep["mysql"] \in Answering /\ tables

\* The record that evaluateCPUAlert makes of an alert.
NotifyStatus(a) == IF a.level = "P0" /\ ~a.delivered THEN "failed" ELSE "sent"

\* The row gets the next id; without MySQL it is lost, with a log line.
SaveAlertEvent(a) ==
  /\ a \in saving
  /\ saving' = saving \ {a}
  /\ rows' = IF Answers THEN rows \cup {[id |-> Cardinality(rows) + 1, alert |-> a,
                                           status |-> NotifyStatus(a)]}
                        ELSE rows
  /\ UNCHANGED <<serverVars, alerts, llm, triage, known>>

\* The limit parameter, if it is one.
LimitOf(limit) == IF limit \in 1..MostLimit THEN limit ELSE DefaultLimit

\* ORDER BY triggered_at DESC LIMIT.
SavedLater(r, q) == q.id > r.id                                \* mutant
Later(r, q) == q.alert.trig > r.alert.trig
OfMachine(m) == {r \in rows : r.alert.mach = m}
Recent(m, limit) ==
  {r \in OfMachine(m) : Cardinality({q \in OfMachine(m) : Later(r, q)}) < LimitOf(limit)}

-----------------------------------------------------------------------------
(* handleTriage.                                                              *)

\* A request with alert_id 0 asks about the machine in general.
Ask(m, alertId) ==
  /\ triage.pc = "idle"
  /\ Spend("triages")
  /\ triage' = [NoTriage EXCEPT !.pc = "fetch", !.mach = m, !.alertId = alertId]
  /\ known' = OfMachine(m)
  /\ UNCHANGED <<dep, cfg, server, tables, health, saving, rows, alerts, llm>>

\* What fetchRecentAlerts makes of the events of the answer.
MatchAny(events) == events                                     \* mutant
Matching(events) == {r \in events : r.id = triage.alertId}
Context(events) ==
  IF triage.alertId > 0 /\ Matching(events) # {} THEN Matching(events) ELSE events
FetchNote(events) ==
  IF triage.alertId > 0 /\ Matching(events) = {} THEN "alert not found" ELSE "none"

NextStage == IF llm THEN "diagnose" ELSE "answered"

\* The advice to verify the webhook.
Hint(events) == \E r \in events : r.status = "failed"

Fetched(events, note) ==
  /\ triage' = [triage EXCEPT !.pc = NextStage, !.shown = events, !.note = note,
                              !.hint = Hint(events)]
  /\ UNCHANGED <<serverVars, saving, rows, alerts, llm, known>>

\* The server answers 200 with the events.
FetchRecentAlerts ==
  LET events == Recent(triage.mach, TriageLimit) IN
  /\ triage.pc = "fetch"
  /\ Serving /\ Answers
  /\ Fetched(Context(events), FetchNote(events))

\* No connection, a 500, or no answer in 5 seconds: the triage goes on without.
WithoutTimeout == dep["mysql"] # "hung"                        \* mutant
FetchGivesUp == TRUE
FetchFails ==
  /\ triage.pc = "fetch"
  /\ ~Serving \/ ~Answers \/ dep["mysql"] = "slow"
  /\ FetchGivesUp
  /\ Fetched({}, "fetch failed")

\* diagnoseWithLLM fails if no address or model is configured, on any error,
\* non-2xx answer or text that does not parse, and after its timeout.
DiagnoseWithLLM ==
  /\ triage.pc = "diagnose"
  /\ \E ok \in BOOLEAN :
       triage' = [triage EXCEPT !.pc = "answered", !.diagnosed = ok, !.llmNote = ~ok]
  /\ UNCHANGED <<serverVars, saving, rows, alerts, llm, known>>

\* The client has its answer, and may ask again.
Done ==
  /\ triage.pc = "answered"
  /\ triage' = NoTriage
  /\ known' = {}
  /\ UNCHANGED <<serverVars, saving, rows, alerts, llm>>

-----------------------------------------------------------------------------
\* The evaluations under way die with the server.
ServerStep ==
  /\ ServerNext
  /\ saving' = IF server'.pc = "exited" THEN {} ELSE saving
  /\ UNCHANGED <<rows, alerts, llm, triage, known>>

StartStep == Start /\ UNCHANGED triageVars
HealthStep == Health /\ UNCHANGED triageVars
SaveStep == \E a \in saving : SaveAlertEvent(a)
TriageStep == FetchRecentAlerts \/ FetchFails \/ DiagnoseWithLLM

Next ==
  \/ ServerStep
  \/ \E m \in Machine, level \in Level, delivered \in BOOLEAN : RaiseAlert(m, level, delivered)
  \/ SaveStep
  \/ \E m \in Machine, alertId \in 0..MaxAlerts : Ask(m, alertId)
  \/ TriageStep
  \/ Done

Spec == Init /\ [][Next]_vars

\* main waits only in calls and sleeps that end; the handlers of the server and
\* of the assistant wait only in calls with a timeout.
FairSpec ==
  /\ Spec
  /\ WF_vars(StartStep) /\ WF_vars(HealthStep) /\ WF_vars(SaveStep) /\ WF_vars(TriageStep)

-----------------------------------------------------------------------------
(* Properties.                                                                *)

\* Rows of the machine triggered after r.
Newer(r) == {q \in OfMachine(r.alert.mach) : q.alert.trig > r.alert.trig}

\* An alert_id that was in the table when the triage began, is one of the machine
\* and has not been pushed out by five newer alerts since is answered with that
\* alert and nothing else, although evaluations save rows meanwhile, out of order
\* even; "not found" is never said of it.
AskedAlertShown ==
  \A r \in known :
    /\ triage.pc = "answered" /\ triage.note # "fetch failed"
    /\ r.id = triage.alertId
    /\ Cardinality(Newer(r)) < TriageLimit
    => triage.shown = {r} /\ triage.note = "none"

\* A P0 that the webhook did not take reaches whoever asks about the machine, or
\* about that alert: unless the fetch itself failed, and says so, an answer without
\* the hint to verify the webhook means that no P0 which it could show, known at the
\* time and still among the newest five, was undelivered.  When the alert asked about
\* is not found, all the machine's are shown.  (An undelivered RECOVERY is in the
\* table as sent, main.go:499, and nothing hints at it.)
FailureSurfaces ==
  \A r \in known :
    /\ triage.pc = "answered" /\ triage.note # "fetch failed"
    /\ triage.alertId \in {0, r.id} \/ triage.note = "alert not found"
    /\ r.alert.level = "P0" /\ ~r.alert.delivered
    /\ Cardinality(Newer(r)) < TriageLimit
    => triage.hint

\* Every triage is answered, whether the server is down, its database hangs or the
\* language model fails; what is missing in the answer is noted.
TriageAnswered ==
  triage.pc = "fetch" ~> triage.pc = "answered" /\
    (triage.diagnosed \/ triage.llmNote \/ ~llm)
=============================================================================
