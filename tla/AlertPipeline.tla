----------------------------- MODULE AlertPipeline -----------------------------
(***************************************************************************)
(* From an agent's sample to the notification: IngestPipeline and           *)
(* AlertEvaluation put together as processMetricsPayload does (main.go).    *)
(* The goroutine that writes a sample to VictoriaMetrics then runs          *)
(* evaluateCPUAlert on it, and its handler answers only when that returns.  *)
(* Both go on in the same server process and die with it.  Clients stay for *)
(* their answer here: one that leaves cancels the context that its handler  *)
(* still uses, which the two modules treat as faults of their own.          *)
(*                                                                          *)
(* Whether a sample breaches is fixed when the agent measures it, so that a *)
(* duplicate of a message is the same sample again.                         *)
(***************************************************************************)
EXTENDS Integers, FiniteSets, Sequences

CONSTANTS
  Machine, Partition, Worker, Handler, None, IngestModes, Faults,
  MaxSamples, MaxCrashes,                              \* of IngestPipeline
  Server,       \* the server process
  Redis, AlertTriggerCount, Cooldown, CountTTL, AlertStoreType, MaxTime,
  AlertFaults   \* faults of AlertEvaluation other than a crash

ASSUME CompositionAssumption ==
  /\ IsFiniteSet(Handler) /\ IsFiniteSet(Worker) /\ IsFiniteSet(Machine)
  /\ Machine \cap Worker = {}
  /\ None \notin Machine \cup Worker
  /\ Server \notin {Redis, None} \cup Machine /\ Redis # None
  /\ IngestModes \subseteq {"direct", "kafka"} /\ IngestModes # {}
  /\ Faults \subseteq {"vm", "publish", "commit", "server"}
  /\ AlertFaults \subseteq {"redis", "webhook", "db"}
  /\ AlertTriggerCount \in Nat \ {0} /\ Cooldown \in Nat /\ CountTTL \in Nat \ {0}
  /\ AlertStoreType \in {"redis", "memory"}
  /\ MaxSamples \in Nat /\ MaxCrashes \in Nat /\ MaxTime \in Nat

VARIABLES
  agent, worker, handler, log, committed, position, owner, members,
  workerKafkaMessagesTotal, workerForwardTotal, serverProcessTotal,
  serverVMWritesTotal, evaluated, crashes, serverCrashes, ingestMode, retired,
  accepted, finished,
  now, store, count, countUntil, coolUntil, task, rows,
  serverAlertNotificationsTotal, samples, notified, won,
  attempts, streak, ended, alerted,
  breach,   \* breach[m][k]: sample k of m is above CPU_ALERT_THRESHOLD
  breaches  \* history: breaching samples of m that came to evaluateCPUAlert
            \* since it last returned from a normal one

Pipeline == INSTANCE IngestPipeline

\* A message is in the log twice at most.
Alert == INSTANCE AlertEvaluation WITH
  Replica <- {Server}, Overlap <- TRUE, crashes <- serverCrashes,
  Faults <- AlertFaults \cup (IF "server" \in Faults THEN {"crash"} ELSE {}),
  MaxSamples <- 2 * MaxSamples * Cardinality(Machine)

pipelineVars == <<agent, worker, handler, log, committed, position, owner, members,
  workerKafkaMessagesTotal, workerForwardTotal, serverProcessTotal,
  serverVMWritesTotal, evaluated, crashes, serverCrashes, ingestMode, retired,
  accepted, finished>>
alertVars == <<now, store, count, countUntil, coolUntil, task, rows,
  serverAlertNotificationsTotal, samples, serverCrashes, notified, won, attempts,
  streak, ended, alerted>>
vars == <<pipelineVars, alertVars, breach, breaches>>

\* Besides the types of the two: a goroutine evaluates the sample of the request
\* it handles, and no other.
TypeOK ==
  /\ Pipeline!TypeOK
  /\ Alert!TypeOK
  /\ breach \in [Machine -> [1..MaxSamples -> BOOLEAN]]
  /\ breaches \in [Machine -> Nat]
  /\ \A h \in Handler : task[h] # Alert!Idle =>
       handler[h].pc = "evaluate" /\ handler[h].sample[1] = task[h].mach

Init ==
  /\ Pipeline!Init
  /\ Alert!Init
  /\ breach \in [Machine -> [1..MaxSamples -> BOOLEAN]]
  /\ breaches = [m \in Machine |-> 0]

Serving == store[Server] # None
Breaching(sample) == breach[sample[1]][sample[2]]

-----------------------------------------------------------------------------
(* Steps of the pipeline during which no alert is evaluated.                  *)

Quietly == UNCHANGED <<alertVars, breach, breaches>>

\* A request reaches a handler of a process that runs.
Reaching == Serving \/ handler' = handler
Report(m) == Pipeline!Report(m) /\ Reaching /\ Quietly
Forward(w) == Pipeline!Forward(w) /\ Reaching /\ Quietly

AgentAnswered(m) == Pipeline!AgentAnswered(m) /\ Quietly
PublishMetrics(h) == Pipeline!PublishMetrics(h) /\ Quietly
FetchMessage(w) == Pipeline!FetchMessage(w) /\ Quietly
CommitMessages(w) == Pipeline!CommitMessages(w) /\ Quietly
WorkerAnswered(w) == Pipeline!WorkerAnswered(w) /\ Quietly
StartWorker(w) == Pipeline!StartWorker(w) /\ Quietly
Rebalance == Pipeline!Rebalance /\ Quietly

-----------------------------------------------------------------------------
(* processMetricsPayload.                                                     *)

\* A sample that was written to VictoriaMetrics goes to evaluateCPUAlert.
WriteVM(h) ==
  LET sample == handler[h].sample  m == sample[1] IN
  /\ Pipeline!WriteVM(h)
  /\ IF handler'[h].pc = "evaluate"
     THEN /\ Alert!StartEvaluation(h, Server, m, Breaching(sample))
          /\ breaches' = [breaches EXCEPT ![m] = IF Breaching(sample) THEN @ + 1 ELSE @]
     ELSE UNCHANGED <<alertVars, breaches>>
  /\ UNCHANGED breach

AlertStep(h) == Alert!Step(h) /\ UNCHANGED <<pipelineVars, breach, breaches>>

\* processMetricsPayload calls evaluateCPUAlert and waits for it.
InGoroutine(h) == TRUE                                         \* mutant
Awaited(h) == task[h] = Alert!Idle

Evaluated(h) ==
  LET sample == handler[h].sample  m == sample[1] IN
  /\ Awaited(h)
  /\ Pipeline!Evaluated(h)
  /\ breaches' = [breaches EXCEPT ![m] = IF Breaching(sample) THEN @ ELSE 0]
  /\ UNCHANGED <<alertVars, breach>>

-----------------------------------------------------------------------------
(* The server process.                                                        *)

StartServer == Alert!StartServer(Server) /\ UNCHANGED <<pipelineVars, breach, breaches>>

CrashServer ==
  /\ Pipeline!CrashServer
  /\ Alert!Crash(Server)
  /\ UNCHANGED <<breach, breaches>>

Tick == Alert!Tick /\ UNCHANGED <<pipelineVars, breach, breaches>>

Quiesce == Pipeline!Drained /\ UNCHANGED vars

HandlerStep(h) == PublishMetrics(h) \/ WriteVM(h) \/ AlertStep(h) \/ Evaluated(h)
WorkerStep(w) ==
  FetchMessage(w) \/ CommitMessages(w) \/ Forward(w) \/ WorkerAnswered(w)

Next ==
  \/ \E m \in Machine : Report(m) \/ AgentAnswered(m)
  \/ \E h \in Handler : HandlerStep(h)
  \/ \E w \in Worker : WorkerStep(w) \/ StartWorker(w)
  \/ Rebalance
  \/ StartServer \/ CrashServer
  \/ Tick
  \/ Quiesce

Spec == Init /\ [][Next]_vars

-----------------------------------------------------------------------------
(* Properties, of one worker that reads one partition, as deployments/k8s runs *)
(* it.                                                                         *)

\* The samples of a machine are evaluated one at a time and in the order the
\* agent sent them, although the handlers of the server run concurrently.
EvaluatedSerially == Pipeline!EvaluatedSerially

\* A message of the topic reaches evaluateCPUAlert once at most, although the
\* server dies in the middle of evaluations and their client learns only that the
\* connection broke (worker/main.go:74-138): no breach counts twice because it
\* was delivered twice.
EvaluatedAtMostOnce == Pipeline!EvaluatedAtMostOnce

\* main.go:408 reports "CPU exceeded the threshold N times in a row".  Between
\* the breaches that make a P0 no normal sample was processed to its end, although
\* the server may have died in the middle of one and messages are duplicated.
\* (A normal sample that VictoriaMetrics refused never ends a streak, and a
\* breaching message that is in the log twice counts twice.)
AlertSpansNoNormalSample ==
  \A h \in Handler :
    task[h].pc = "notifyAlert" => breaches[task[h].mach] >= AlertTriggerCount

\* The counter is read and reset in two calls (main.go:466-478), yet a streak ends
\* in one RECOVERY: never two, and none is left out unless the server died.
Streaks(m) ==
  Cardinality({i \in 2..Len(evaluated[m]) :
                 breach[m][evaluated[m][i - 1]] /\ ~breach[m][evaluated[m][i]]})
OneRecoveryPerStreak ==
  \A m \in Machine :
    /\ Alert!Attempted(m, "RECOVERY") <= Streaks(m)
    /\ Alert!Quiet(m) /\ serverCrashes = 0
         => Alert!Attempted(m, "RECOVERY") = Streaks(m)

\* The store has kept what it was told: a Redis that answers every call (an INCR
\* that fails drops the breach with a log line and no counter, main.go:386-391), or the
\* memory of a server that has not died.
StoreKeeps ==
  \/ AlertStoreType = "redis" /\ "redis" \notin AlertFaults
  \/ AlertStoreType = "memory" /\ serverCrashes = 0

\* Samples k .. k + AlertTriggerCount - 1 of m breach, the server accepted them, and
\* none of them is under way any more.
Window(m, k) == {<<m, i>> : i \in k .. k + AlertTriggerCount - 1}
SustainedBreach(m, k) ==
  \A s \in Window(m, k) : Breaching(s) /\ s \in accepted /\ ~Pipeline!UnderWay(s)

\* A sample of the window was lost, and for each sample lost there is an error that
\* the worker counted.
LossCounted(m, k) ==
  /\ Window(m, k) \cap Pipeline!Lost # {}
  /\ Cardinality(Pipeline!Lost) <= Pipeline!ErrorsCounted

\* An evaluation died between taking the cooldown of m and notifying (main.go:401).
CooldownWasted(m) ==
  \E s \in Alert!Store : won[s][m] > attempts[s][m] + Cardinality(Alert!Notifying(s, m))

\* A machine that breaches AlertTriggerCount times in a row, in samples the server
\* accepted, has been notified by the time these samples are no longer under way;
\* or one of these samples was lost, and the worker's counters show as many errors as
\* there are samples lost (README.md:204-220); or the server died with the cooldown
\* taken and nothing sent, which suppresses the P0 until the cooldown ends.  No
\* alert is lost without a trace otherwise between the agent and the notifier.
AcceptedBreachNotified ==
  StoreKeeps =>
    \A m \in Machine, k \in 1 .. MaxSamples - AlertTriggerCount + 1 :
      SustainedBreach(m, k)
        => Alert!Attempted(m, "P0") > 0 \/ LossCounted(m, k) \/ CooldownWasted(m)
=============================================================================
