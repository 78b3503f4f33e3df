------------------------- MODULE AlertPipelineProofs -------------------------
(* Proofs about AlertPipeline, for any number of agents, workers, handlers,    *)
(* partitions and samples.                                                     *)
(*                                                                             *)
(* The composition implements both of its parts: every step of it is a step or *)
(* a stutter of the pipeline and one of the alerting.  What is proved of the   *)
(* two in modules of their own (Flow, Alerting) so holds of them together.     *)
(*                                                                             *)
(* With one worker on one partition it implements the alerting of samples that *)
(* do not overlap (Serially).  For that deployment the rest is proved here:    *)
(* no P0 spans a normal sample, a streak ends in one RECOVERY, and no accepted *)
(* breach is lost without a trace.                                             *)
EXTENDS AlertPipeline, FiniteSetTheorems, TLAPS

Flow == INSTANCE IngestPipelineProofs
Alerting == INSTANCE AlertEvaluationProofs WITH
  Replica <- {Server}, Overlap <- TRUE, crashes <- serverCrashes,
  Faults <- AlertFaults \cup (IF "server" \in Faults THEN {"crash"} ELSE {}),
  MaxSamples <- 2 * MaxSamples * Cardinality(Machine)
Serially == INSTANCE AlertEvaluationProofs WITH
  Replica <- {Server}, Overlap <- FALSE, crashes <- serverCrashes,
  Faults <- AlertFaults \cup (IF "server" \in Faults THEN {"crash"} ELSE {}),
  MaxSamples <- 2 * MaxSamples * Cardinality(Machine)

-----------------------------------------------------------------------------
(* Flow is about the same pipeline.                                            *)

LEMMA FlowAssumption == Flow!PipelineAssumption
BY CompositionAssumption DEF Flow!FaultKind, IsFiniteSet, Flow!IsFiniteSet

LEMMA FlowState ==
  /\ Flow!NoRequest = Pipeline!NoRequest
  /\ Flow!NoWorker = Pipeline!NoWorker
  /\ Flow!Reading = Pipeline!Reading
  /\ Flow!Live = Pipeline!Live
  /\ Flow!NoReads = Pipeline!NoReads
  /\ Flow!NoForwards = Pipeline!NoForwards
  /\ Flow!ReadResult = Pipeline!ReadResult
  /\ Flow!ForwardOutcome = Pipeline!ForwardOutcome
  /\ \A w : Flow!Errors(w) = Pipeline!Errors(w)
BY DEF Flow!NoReads, Flow!NoForwards, Flow!ReadResult, Flow!ForwardOutcome, Flow!Errors,
       Pipeline!NoReads, Pipeline!NoForwards, Pipeline!ReadResult,
       Pipeline!ForwardOutcome, Pipeline!Errors,
       Flow!NoRequest, Flow!NoSample, Flow!NoWorker, Flow!Reading, Flow!Live,
       Pipeline!NoRequest, Pipeline!NoSample, Pipeline!NoWorker, Pipeline!Reading, Pipeline!Live

LEMMA FlowGroups ==
  /\ Flow!vars = Pipeline!vars
  /\ UNCHANGED Flow!vars <=> UNCHANGED Pipeline!vars
  /\ UNCHANGED Flow!environment <=> UNCHANGED Pipeline!environment
  /\ UNCHANGED Flow!group <=> UNCHANGED Pipeline!group
  /\ UNCHANGED Flow!workerCounters <=> UNCHANGED Pipeline!workerCounters
  /\ UNCHANGED Flow!serverCounters <=> UNCHANGED Pipeline!serverCounters
BY
DEF Flow!environment, Flow!group, Flow!workerCounters, Flow!serverCounters, Flow!vars,
       Pipeline!environment, Pipeline!group, Pipeline!workerCounters,
       Pipeline!serverCounters, Pipeline!vars

LEMMA FlowInit == Flow!Init <=> Pipeline!Init
BY FlowState DEF Flow!Init, Pipeline!Init

LEMMA FlowTypeOK == Flow!TypeOK <=> Pipeline!TypeOK
BY FlowState DEF Flow!TypeOK, Flow!Agent, Flow!WorkerState, Flow!Reply, Flow!Status,
                 Flow!Sample, Flow!NoSample, Flow!Request, Flow!Client,
                 Pipeline!TypeOK, Pipeline!Agent, Pipeline!WorkerState, Pipeline!Reply,
                 Pipeline!Status, Pipeline!Sample, Pipeline!NoSample, Pipeline!Request,
                 Pipeline!Client

LEMMA FlowAgent ==
  ASSUME NEW m \in Machine
  PROVE  /\ Flow!Report(m) <=> Pipeline!Report(m)
         /\ Flow!AgentAnswered(m) <=> Pipeline!AgentAnswered(m)
<1>1. Flow!Report(m) <=> Pipeline!Report(m)
  BY FlowState, FlowGroups DEF Flow!Report, Flow!Unreachable,
                               Pipeline!Report, Pipeline!Unreachable
<1>2. Flow!AgentAnswered(m) <=> Pipeline!AgentAnswered(m)
  BY FlowGroups DEF Flow!AgentAnswered, Flow!Returned,
                    Pipeline!AgentAnswered, Pipeline!Returned
<1>3. QED  BY <1>1, <1>2

LEMMA FlowHandler ==
  ASSUME NEW h \in Handler
  PROVE  /\ Flow!PublishMetrics(h) <=> Pipeline!PublishMetrics(h)
         /\ Flow!WriteVM(h) <=> Pipeline!WriteVM(h)
         /\ Flow!Evaluated(h) <=> Pipeline!Evaluated(h)
         /\ Flow!GiveUp(h) <=> Pipeline!GiveUp(h)
<1>1. ASSUME NEW status PROVE Flow!AnswerTo(h, status) <=> Pipeline!AnswerTo(h, status)
  BY FlowState DEF Flow!AnswerTo, Pipeline!AnswerTo
<1>2. Flow!PublishMetrics(h) <=> Pipeline!PublishMetrics(h)
  <2>1. ASSUME NEW ok \in BOOLEAN
        PROVE  /\ Flow!PublishedCopies(ok) = Pipeline!PublishedCopies(ok)
               /\ Flow!Cancelled(h) <=> Pipeline!Cancelled(h)
    BY
    DEF Flow!PublishedCopies, Flow!Cancelled, Pipeline!PublishedCopies,
        Pipeline!Cancelled
  <2>2. ASSUME NEW copies PROVE Flow!WriteMessages(h, copies) <=> Pipeline!WriteMessages(h, copies)
    BY DEF Flow!WriteMessages, Pipeline!WriteMessages
  <2>3. QED
    BY <1>1, <2>1, <2>2, FlowGroups DEF Flow!PublishMetrics, Pipeline!PublishMetrics
<1>3. Flow!WriteVM(h) <=> Pipeline!WriteVM(h)
  BY <1>1, FlowGroups DEF Flow!WriteVM, Flow!ProcessStatus, Flow!Cancelled,
                          Pipeline!WriteVM, Pipeline!ProcessStatus, Pipeline!Cancelled
<1>4. Flow!Evaluated(h) <=> Pipeline!Evaluated(h)
  BY <1>1, FlowGroups DEF Flow!Evaluated, Flow!ProcessStatus,
                          Pipeline!Evaluated, Pipeline!ProcessStatus
<1>5. Flow!GiveUp(h) <=> Pipeline!GiveUp(h)
  BY FlowGroups DEF Flow!GiveUp, Pipeline!GiveUp
<1>6. QED  BY <1>2, <1>3, <1>4, <1>5

LEMMA FlowWorker ==
  ASSUME NEW w \in Worker
  PROVE  /\ Flow!WorkerStep(w) <=> Pipeline!WorkerStep(w)
         /\ Flow!StartWorker(w) <=> Pipeline!StartWorker(w)
         /\ Flow!CrashWorker(w) <=> Pipeline!CrashWorker(w)
<1>1. Flow!FetchMessage(w) <=> Pipeline!FetchMessage(w)
  BY FlowGroups DEF Flow!FetchMessage, Pipeline!FetchMessage
<1>2. Flow!CommitMessages(w) <=> Pipeline!CommitMessages(w)
  BY FlowState, FlowGroups DEF Flow!CommitMessages, Flow!Inc,
                               Pipeline!CommitMessages, Pipeline!Inc
<1>3. Flow!Forward(w) <=> Pipeline!Forward(w)
  BY FlowState, FlowGroups DEF Flow!Forward, Flow!Unreachable,
                               Pipeline!Forward, Pipeline!Unreachable
<1>4. Flow!WorkerAnswered(w) <=> Pipeline!WorkerAnswered(w)
  BY FlowState, FlowGroups DEF Flow!WorkerAnswered, Flow!Inc, Flow!ForwardResult,
                               Flow!Returned, Pipeline!WorkerAnswered, Pipeline!Inc,
                               Pipeline!ForwardResult, Pipeline!Returned
<1>5. Flow!StartWorker(w) <=> Pipeline!StartWorker(w)
  BY FlowState, FlowGroups DEF Flow!StartWorker, Pipeline!StartWorker
<1>6. Flow!CrashWorker(w) <=> Pipeline!CrashWorker(w)
  BY FlowState, FlowGroups DEF Flow!CrashWorker, Pipeline!CrashWorker
<1>7. QED
  BY <1>1, <1>2, <1>3, <1>4, <1>5, <1>6 DEF Flow!WorkerStep, Pipeline!WorkerStep

LEMMA FlowNext == Flow!Next <=> Pipeline!Next
<1>1. Flow!CrashServer <=> Pipeline!CrashServer
  BY FlowState, FlowGroups DEF Flow!CrashServer, Pipeline!CrashServer
<1>2. Flow!Rebalance <=> Pipeline!Rebalance
  BY FlowState, FlowGroups DEF Flow!Rebalance, Flow!StartOffset,
                               Pipeline!Rebalance, Pipeline!StartOffset
<1>3. Flow!Quiesce <=> Pipeline!Quiesce
  BY FlowState, FlowGroups
  DEF Flow!Quiesce, Flow!Drained, Pipeline!Quiesce, Pipeline!Drained
<1>4. QED
  BY <1>1, <1>2, <1>3, FlowAgent, FlowHandler, FlowWorker
  DEF Flow!Next, Flow!HandlerStep, Pipeline!Next, Pipeline!HandlerStep

LEMMA FlowSpec == Flow!Spec <=> Pipeline!Spec
<1>1. [Flow!Next]_(Flow!vars) <=> [Pipeline!Next]_(Pipeline!vars)
  BY FlowNext, FlowGroups
<1>2. QED  BY <1>1, FlowInit, PTL DEF Flow!Spec, Pipeline!Spec

-----------------------------------------------------------------------------
(* The composition implements the pipeline.                                    *)

LEMMA QuietPipeline == UNCHANGED pipelineVars => UNCHANGED Pipeline!vars
BY DEF pipelineVars, Pipeline!vars, Pipeline!group, Pipeline!workerCounters,
       Pipeline!serverCounters, Pipeline!environment

LEMMA PipelineStep ==
  ASSUME [Next]_vars
  PROVE  [Pipeline!Next]_(Pipeline!vars)
<1>1. ASSUME NEW m \in Machine, Report(m) \/ AgentAnswered(m)
      PROVE  Pipeline!Next
  BY <1>1 DEF Report, AgentAnswered, Pipeline!Next
<1>2. ASSUME NEW h \in Handler, HandlerStep(h)
      PROVE  Pipeline!Next \/ UNCHANGED pipelineVars
  BY <1>2 DEF HandlerStep, PublishMetrics, WriteVM, AlertStep, Evaluated,
              Pipeline!Next, Pipeline!HandlerStep
<1>3. ASSUME NEW w \in Worker, WorkerStep(w) \/ StartWorker(w)
      PROVE  Pipeline!Next
  BY <1>3 DEF WorkerStep, FetchMessage, CommitMessages, Forward, WorkerAnswered,
              StartWorker, Pipeline!Next, Pipeline!WorkerStep
<1>4. CASE Rebalance \/ CrashServer
  BY <1>4 DEF Rebalance, CrashServer, Pipeline!Next
<1>5. CASE StartServer \/ Tick \/ Quiesce \/ UNCHANGED vars
  BY <1>5, QuietPipeline DEF StartServer, Tick, Quiesce, vars
<1>6. QED
  BY <1>1, <1>2, <1>3, <1>4, <1>5, QuietPipeline DEF Next

(* The alerting that the server does with its samples takes nothing from the  *)
(* pipeline and adds nothing to it: whatever holds of every behaviour of      *)
(* IngestPipeline holds of the composition (main.go:229-291, 293-357).        *)
LEMMA ImplementsPipeline == Spec => Pipeline!Spec
<1>1. Init => Pipeline!Init
  BY DEF Init
<1>2. [Next]_vars => [Pipeline!Next]_(Pipeline!vars)
  BY PipelineStep
<1>3. QED  BY <1>1, <1>2, PTL DEF Spec, Pipeline!Spec

LEMMA PipelineTypes == Spec => []Pipeline!TypeOK
BY ImplementsPipeline, FlowSpec, FlowTypeOK, Flow!TypeCorrect, FlowAssumption, PTL

-----------------------------------------------------------------------------
(* Alerting is about the same alerting.                                        *)

LEMMA AlertingAssumption ==
  /\ IsFiniteSet(Handler) <=> Alerting!IsFiniteSet(Handler)
  /\ 2 * MaxSamples * Cardinality(Machine) \in Nat
<1>1. 2 * MaxSamples * Cardinality(Machine) \in Nat
  BY CompositionAssumption, FS_CardinalityType
<1>2. IsFiniteSet(Handler) <=> Alerting!IsFiniteSet(Handler)
  BY DEF IsFiniteSet, Alerting!IsFiniteSet
<1>3. QED  BY <1>1, <1>2

LEMMA AlertingState ==
  /\ Alerting!Idle = Alert!Idle
  /\ UNCHANGED Alerting!vars <=> UNCHANGED Alert!vars
  /\ UNCHANGED Alerting!keys <=> UNCHANGED Alert!keys
  /\ UNCHANGED Alerting!audit <=> UNCHANGED Alert!audit
  /\ UNCHANGED Alerting!cooldownHistory <=> UNCHANGED Alert!cooldownHistory
  /\ UNCHANGED Alerting!sampleHistory <=> UNCHANGED Alert!sampleHistory
  /\ UNCHANGED Alerting!environment <=> UNCHANGED Alert!environment
  /\ Alerting!vars = Alert!vars
BY DEF Alerting!Idle, Alerting!vars, Alerting!keys, Alerting!audit,
       Alerting!cooldownHistory, Alerting!sampleHistory, Alerting!environment,
       Alert!Idle, Alert!vars, Alert!keys, Alert!audit, Alert!cooldownHistory,
       Alert!sampleHistory, Alert!environment

LEMMA AlertingInit == Alerting!Init <=> Alert!Init
BY AlertingState DEF Alerting!Init, Alerting!Store, Alerting!Forever, Alerting!Zero, Alerting!NoneYet,
       Alerting!Level, Alerting!Outcome, Alert!Init, Alert!Store,
       Alert!Forever, Alert!Zero, Alert!NoneYet, Alert!Level, Alert!Outcome

LEMMA AlertingTypeOK == Alerting!TypeOK <=> Alert!TypeOK
<1>1. Alerting!TaskOK <=> Alert!TaskOK
  BY AlertingState DEF Alerting!TaskOK, Alerting!Task, Alerting!Stage, Alerting!Outcome,
       Alert!TaskOK, Alert!Task, Alert!Stage, Alert!Outcome
<1>2. Alerting!KeysOK <=> Alert!KeysOK
  BY DEF Alerting!KeysOK, Alerting!Store, Alert!KeysOK, Alert!Store
<1>3. Alerting!AuditOK <=> Alert!AuditOK
  BY DEF Alerting!AuditOK, Alerting!Level, Alerting!Outcome, Alert!AuditOK,
       Alert!Level, Alert!Outcome
<1>4. Alerting!HistoryOK <=> Alert!HistoryOK
  BY DEF Alerting!HistoryOK, Alerting!Store, Alert!HistoryOK, Alert!Store
<1>5. Alerting!EnvironmentOK <=> Alert!EnvironmentOK
  BY DEF Alerting!EnvironmentOK, Alerting!Store, Alert!EnvironmentOK, Alert!Store
<1>6. QED  BY <1>1, <1>2, <1>3, <1>4, <1>5 DEF Alerting!TypeOK, Alert!TypeOK

LEMMA AlertingCalls ==
  /\ \A h \in Handler : Alerting!StoreOf(h) = Alert!StoreOf(h)
  /\ \A s : Alerting!CallResult(s) = Alert!CallResult(s)
  /\ \A s, m : Alerting!Count(s, m) = Alert!Count(s, m)
  /\ \A s, m : Alerting!Incremented(s, m) <=> Alert!Incremented(s, m)
  /\ \A s, m : Alerting!Cleared(s, m) <=> Alert!Cleared(s, m)
  /\ \A s, m : Alerting!CooldownFree(s, m) <=> Alert!CooldownFree(s, m)
  /\ \A s : Alerting!CooldownEnd(s) = Alert!CooldownEnd(s)
BY DEF Alerting!StoreOf, Alerting!CallResult, Alerting!Count,
       Alerting!Incremented, Alerting!Cleared, Alerting!CooldownFree,
       Alerting!CooldownEnd, Alerting!Forever, Alert!StoreOf, Alert!CallResult,
       Alert!Count, Alert!Incremented, Alert!Cleared, Alert!CooldownFree,
       Alert!CooldownEnd, Alert!Forever

LEMMA AlertingMoves ==
  ASSUME NEW h \in Handler
  PROVE  /\ \A stage : Alerting!Goto(h, stage) <=> Alert!Goto(h, stage)
         /\ Alerting!Return(h) <=> Alert!Return(h)
BY AlertingState DEF Alerting!Goto, Alerting!Return, Alert!Goto, Alert!Return

LEMMA AlertingStep ==
  ASSUME NEW h \in Handler
  PROVE  Alerting!Step(h) <=> Alert!Step(h)
<1>1. Alerting!IncrementCPUBreach(h) <=> Alert!IncrementCPUBreach(h)
  BY AlertingState, AlertingCalls, AlertingMoves
  DEF Alerting!IncrementCPUBreach, Alerting!Reached, Alert!IncrementCPUBreach,
       Alert!Reached
<1>2. Alerting!ExpireCount(h) <=> Alert!ExpireCount(h)
  BY AlertingState, AlertingCalls, AlertingMoves
  DEF Alerting!ExpireCount, Alerting!Reached, Alert!ExpireCount, Alert!Reached
<1>3. Alerting!TryAcquireCooldown(h) <=> Alert!TryAcquireCooldown(h)
  BY AlertingState, AlertingCalls, AlertingMoves
  DEF Alerting!TryAcquireCooldown, Alert!TryAcquireCooldown
<1>4. Alerting!SuppressAlert(h) <=> Alert!SuppressAlert(h)
  BY AlertingState, AlertingCalls, AlertingMoves
  DEF Alerting!SuppressAlert, Alert!SuppressAlert
<1>5. ASSUME NEW level, NEW next PROVE Alerting!Notify(h, level, next) <=> Alert!Notify(h, level, next)
  BY DEF Alerting!Notify, Alerting!NotifyOutcome, Alerting!Outcome,
       Alerting!NotifyStatus, Alert!Notify,
       Alert!NotifyOutcome, Alert!Outcome, Alert!NotifyStatus
<1>6. Alerting!NotifyCPUAlert(h) <=> Alert!NotifyCPUAlert(h)
  BY <1>5, AlertingState, AlertingCalls
  DEF Alerting!NotifyCPUAlert, Alert!NotifyCPUAlert
<1>7. Alerting!GetCPUBreachCount(h) <=> Alert!GetCPUBreachCount(h)
  BY AlertingState, AlertingCalls, AlertingMoves
  DEF Alerting!GetCPUBreachCount, Alert!GetCPUBreachCount
<1>8. Alerting!ResetCPUBreach(h) <=> Alert!ResetCPUBreach(h)
  BY AlertingState, AlertingCalls, AlertingMoves
  DEF Alerting!ResetCPUBreach, Alerting!Recovered, Alert!ResetCPUBreach,
       Alert!Recovered
<1>9. Alerting!NotifyCPURecovery(h) <=> Alert!NotifyCPURecovery(h)
  BY <1>5, AlertingState DEF Alerting!NotifyCPURecovery, Alert!NotifyCPURecovery
<1>10. ASSUME NEW level PROVE Alerting!SaveAlertEvent(h, level) <=> Alert!SaveAlertEvent(h, level)
  BY AlertingState, AlertingMoves DEF Alerting!SaveAlertEvent, Alert!SaveAlertEvent
<1>11. Alerting!CountNotification(h) <=> Alert!CountNotification(h)
  BY AlertingState, AlertingMoves
  DEF Alerting!CountNotification, Alerting!Observed, Alert!CountNotification, Alert!Observed
<1>12. QED
  BY <1>1, <1>2, <1>3, <1>4, <1>6, <1>7, <1>8, <1>9, <1>10, <1>11
  DEF Alerting!Step, Alerting!Level, Alert!Step, Alert!Level

LEMMA AlertingServer ==
  /\ Alerting!StartServer(Server) <=> Alert!StartServer(Server)
  /\ Alerting!Crash(Server) <=> Alert!Crash(Server)
  /\ Alerting!Tick <=> Alert!Tick
<1>1. Alerting!StartServer(Server) <=> Alert!StartServer(Server)
  BY AlertingState DEF Alerting!StartServer, Alert!StartServer
<1>2. Alerting!Crash(Server) <=> Alert!Crash(Server)
  BY AlertingState DEF Alerting!Crash, Alerting!Forever, Alerting!NoneYet, Alerting!Outcome,
                         Alert!Crash, Alert!Forever, Alert!NoneYet, Alert!Outcome
<1>3. Alerting!Tick <=> Alert!Tick
  BY AlertingState DEF Alerting!Tick, Alert!Tick
<1>4. QED  BY <1>1, <1>2, <1>3

LEMMA AlertingSpec == Alerting!Spec <=> Alert!Spec
<1>1. ASSUME NEW h \in Handler, NEW r, NEW m, NEW b
      PROVE  Alerting!StartEvaluation(h, r, m, b) <=> Alert!StartEvaluation(h, r, m, b)
  BY AlertingState DEF Alerting!StartEvaluation, Alert!StartEvaluation
<1>2. Alerting!Quiesce <=> Alert!Quiesce
  BY AlertingState DEF Alerting!Quiesce, Alert!Quiesce
<1>3. Alerting!Next <=> Alert!Next
  BY <1>1, <1>2, AlertingStep, AlertingServer DEF Alerting!Next, Alert!Next
<1>4. [Alerting!Next]_(Alerting!vars) <=> [Alert!Next]_(Alert!vars)
  BY <1>3, AlertingState
<1>5. QED  BY <1>4, AlertingInit, PTL DEF Alerting!Spec, Alert!Spec

-----------------------------------------------------------------------------
(* The composition implements the alerting.                                    *)

LEMMA QuietAlerting == UNCHANGED alertVars => UNCHANGED Alert!vars
BY DEF alertVars, Alert!vars, Alert!keys, Alert!audit, Alert!cooldownHistory,
       Alert!sampleHistory, Alert!environment

Breach == breach \in [Machine -> [1..MaxSamples -> BOOLEAN]]

LEMMA SampleOf ==
  ASSUME Pipeline!TypeOK, Breach, NEW h \in Handler, handler[h].pc # "idle"
  PROVE  /\ handler[h] \in Pipeline!Request
         /\ handler[h].sample[1] \in Machine /\ handler[h].sample[2] \in 1..MaxSamples
         /\ Breaching(handler[h].sample) \in BOOLEAN
<1>1. handler[h] \in Pipeline!Request
  BY DEF Pipeline!TypeOK, Pipeline!NoRequest
<1>2. handler[h].sample \in Machine \X (1..MaxSamples)
  BY <1>1 DEF Pipeline!Request, Pipeline!Sample
<1>3. QED  BY <1>1, <1>2 DEF Breach, Breaching

LEMMA AlertStepImplements ==
  ASSUME Pipeline!TypeOK, Breach, [Next]_vars
  PROVE  [Alert!Next]_(Alert!vars)
<1>1. ASSUME NEW m \in Machine, Report(m) \/ AgentAnswered(m)
      PROVE  UNCHANGED alertVars
  BY <1>1 DEF Report, AgentAnswered, Quietly
<1>2. ASSUME NEW h \in Handler, WriteVM(h)
      PROVE  Alert!Next \/ UNCHANGED alertVars
  <2>1. handler[h].pc = "writeVM"
    BY <1>2 DEF WriteVM, Pipeline!WriteVM
  <2>2. CASE handler'[h].pc = "evaluate"
    <3>1. Alert!StartEvaluation(h, Server, handler[h].sample[1], Breaching(handler[h].sample))
      BY <1>2, <2>2 DEF WriteVM
    <3>2. QED  BY <2>1, <3>1, SampleOf DEF Alert!Next
  <2>3. CASE handler'[h].pc # "evaluate"
    BY <1>2, <2>3 DEF WriteVM
  <2>4. QED  BY <2>2, <2>3
<1>3. ASSUME NEW h \in Handler, PublishMetrics(h) \/ AlertStep(h) \/ Evaluated(h)
      PROVE  Alert!Next \/ UNCHANGED alertVars
  BY <1>3 DEF PublishMetrics, AlertStep, Evaluated, Quietly, Alert!Next
<1>4. ASSUME NEW w \in Worker, WorkerStep(w) \/ StartWorker(w)
      PROVE  UNCHANGED alertVars
  BY <1>4 DEF WorkerStep, FetchMessage, CommitMessages, Forward, WorkerAnswered,
              StartWorker, Quietly
<1>5. StartServer \/ CrashServer \/ Tick => Alert!Next
  BY DEF StartServer, CrashServer, Tick, Alert!Next
<1>6. Rebalance \/ Quiesce \/ UNCHANGED vars => UNCHANGED alertVars
  BY DEF Rebalance, Quiesce, Quietly, vars
<1>7. Alert!Next \/ UNCHANGED alertVars
  BY <1>1, <1>2, <1>3, <1>4, <1>5, <1>6 DEF Next, HandlerStep
<1>8. QED  BY <1>7, QuietAlerting

LEMMA BreachStays == Breach /\ [Next]_vars => Breach'
<1>1. [Next]_vars => UNCHANGED breach
  BY DEF Next, HandlerStep, WorkerStep, Report, AgentAnswered, PublishMetrics, WriteVM,
         AlertStep, Evaluated, FetchMessage, CommitMessages, Forward, WorkerAnswered,
         StartWorker, Rebalance, StartServer, CrashServer, Tick, Quiesce, Quietly, vars
<1>2. QED  BY <1>1 DEF Breach

LEMMA PartTypes == Spec => [](Pipeline!TypeOK /\ Breach)
<1>1. Init => Breach
  BY DEF Init, Breach
<1>2. Spec => []Breach
  BY <1>1, BreachStays, PTL DEF Spec
<1>3. QED  BY <1>2, PipelineTypes, PTL

(* Every sample that comes to evaluateCPUAlert in the composition is one that *)
(* AlertEvaluation lets come: of one of its machines, breaching or not, in a   *)
(* goroutine of its own; and no step of the pipeline touches the alerting      *)
(* otherwise.  What is proved of AlertEvaluation for samples from anywhere     *)
(* holds of those that the pipeline brings (main.go:293-357, 395-508).        *)
LEMMA ImplementsAlerting == Spec => Alert!Spec
<1>1. Init => Alert!Init
  BY DEF Init
<1>2. Pipeline!TypeOK /\ Breach /\ [Next]_vars => [Alert!Next]_(Alert!vars)
  BY AlertStepImplements
<1>3. QED  BY <1>1, <1>2, PartTypes, PTL DEF Spec, Alert!Spec

LEMMA AlertTypes == Spec => []Alert!TypeOK
<1>1. Alerting!Spec => []Alerting!TypeOK
  BY Alerting!TypeCorrect, AlertingAssumption, CompositionAssumption
  DEF Alerting!FaultKind
<1>2. QED  BY <1>1, ImplementsAlerting, AlertingSpec, AlertingTypeOK, PTL

-----------------------------------------------------------------------------
(* What a step of the composition does to the evaluations.                     *)

(* Nothing: *)
SameEvaluations ==
  \A h \in Handler :
    /\ handler'[h].pc = "evaluate" <=> handler[h].pc = "evaluate"
    /\ handler[h].pc = "evaluate" => handler'[h].sample = handler[h].sample
Elsewhere(h) == \A g \in Handler : g # h => handler'[g] = handler[g]
Calm == UNCHANGED <<alertVars, breach, breaches, evaluated, finished, crashes>> /\ SameEvaluations

(* one begins, *)
Begun(h) ==
  LET sample == handler[h].sample  m == sample[1] IN
  /\ handler[h].pc = "writeVM" /\ handler'[h].pc = "evaluate"
  /\ handler'[h].sample = sample
  /\ Elsewhere(h)
  /\ evaluated' = [evaluated EXCEPT ![m] = Append(@, sample[2])]
  /\ Alert!StartEvaluation(h, Server, m, Breaching(sample))
  /\ breaches' = [breaches EXCEPT ![m] = IF Breaching(sample) THEN @ + 1 ELSE @]
  /\ UNCHANGED <<breach, finished, crashes>>

(* or one is over. *)
Over(h) ==
  LET sample == handler[h].sample  m == sample[1] IN
  /\ handler[h].pc = "evaluate" /\ task[h] = Alert!Idle
  /\ handler'[h].pc = "idle"
  /\ Elsewhere(h)
  /\ breaches' = [breaches EXCEPT ![m] = IF Breaching(sample) THEN @ ELSE 0]
  /\ finished' = finished \cup {sample}
  /\ UNCHANGED <<alertVars, breach, evaluated, crashes>>

Dies ==
  /\ Pipeline!CrashServer /\ Alert!Crash(Server)
  /\ \A h \in Handler : handler'[h].pc = "idle"
  /\ UNCHANGED <<breach, breaches, evaluated>>

LEMMA NoRequestFields ==
  /\ Pipeline!NoRequest.pc = "idle"
  /\ \A r \in Pipeline!Request : r.pc # "idle" /\ r # Pipeline!NoRequest
BY DEF Pipeline!NoRequest, Pipeline!Request

LEMMA Answers ==
  ASSUME Pipeline!TypeOK, NEW h \in Handler, NEW status, Pipeline!AnswerTo(h, status)
  PROVE  handler'[h].pc = "idle" /\ Elsewhere(h)
BY NoRequestFields DEF Pipeline!AnswerTo, Pipeline!TypeOK, Elsewhere

LEMMA WriteVMEffect ==
  ASSUME Pipeline!TypeOK, NEW h \in Handler, WriteVM(h)
  PROVE  Calm \/ Begun(h)
<1>1. handler[h].pc = "writeVM"
  BY DEF WriteVM, Pipeline!WriteVM
<1>2. CASE Pipeline!AnswerTo(h, Pipeline!ProcessStatus(TRUE)) /\ UNCHANGED evaluated
  <2>1. handler'[h].pc = "idle" /\ Elsewhere(h)
    BY <1>2, Answers
  <2>2. UNCHANGED <<alertVars, breach, breaches, finished, crashes>>
    BY <2>1 DEF WriteVM, Pipeline!WriteVM, Pipeline!environment
  <2>3. SameEvaluations
    BY <1>1, <2>1 DEF SameEvaluations, Elsewhere
  <2>4. QED  BY <1>2, <2>2, <2>3 DEF Calm
<1>3. CASE /\ handler' = [handler EXCEPT ![h].pc = "evaluate"]
           /\ evaluated' = [evaluated EXCEPT ![handler[h].sample[1]] =
                              Append(@, handler[h].sample[2])]
  <2>1. handler[h] \in Pipeline!Request /\ handler \in [Handler -> Pipeline!Request \cup {Pipeline!NoRequest}]
    BY <1>1, NoRequestFields DEF Pipeline!TypeOK
  <2>2. /\ handler'[h].pc = "evaluate" /\ handler'[h].sample = handler[h].sample
        /\ Elsewhere(h)
    BY <1>3, <2>1 DEF Elsewhere, Pipeline!Request
  <2>3. QED
    BY <1>1, <1>3, <2>2 DEF WriteVM, Begun, Pipeline!WriteVM, Pipeline!environment
<1>4. QED  BY <1>2, <1>3 DEF WriteVM, Pipeline!WriteVM

LEMMA CalmSteps ==
  ASSUME Pipeline!TypeOK,
         \/ \E m \in Machine : Report(m) \/ AgentAnswered(m)
         \/ \E h \in Handler : PublishMetrics(h)
         \/ \E w \in Worker : WorkerStep(w) \/ StartWorker(w)
         \/ Rebalance \/ Quiesce \/ UNCHANGED vars
  PROVE  Calm
<1>1. /\ Pipeline!environment = <<crashes, serverCrashes, ingestMode>>
      /\ handler \in [Handler -> Pipeline!Request \cup {Pipeline!NoRequest}]
  BY DEF Pipeline!environment, Pipeline!TypeOK
<1>2. ASSUME UNCHANGED handler PROVE SameEvaluations
  BY <1>2 DEF SameEvaluations
<1>3. ASSUME NEW h \in Handler, handler[h] = Pipeline!NoRequest, NEW r, r.pc # "evaluate",
             handler' = [handler EXCEPT ![h] = r]
      PROVE  SameEvaluations
  BY <1>1, <1>3, NoRequestFields DEF SameEvaluations
<1>4. ASSUME NEW m \in Machine, Report(m)
      PROVE  Calm
  <2>1. UNCHANGED <<alertVars, breach, breaches, evaluated, finished, crashes>>
    BY <1>4 DEF Report, Quietly, Pipeline!Report, Pipeline!environment
  <2>2. \/ UNCHANGED handler
        \/ \E h \in Handler : \E r :
             /\ handler[h] = Pipeline!NoRequest /\ r.pc # "evaluate"
             /\ handler' = [handler EXCEPT ![h] = r]
    BY <1>4 DEF Report, Pipeline!Report
  <2>3. QED  BY <1>2, <1>3, <2>1, <2>2 DEF Calm
<1>5. ASSUME NEW w \in Worker, Forward(w)
      PROVE  Calm
  <2>1. UNCHANGED <<alertVars, breach, breaches, evaluated, finished, crashes>>
    BY <1>5 DEF Forward, Quietly, Pipeline!Forward, Pipeline!environment
  <2>2. \/ UNCHANGED handler
        \/ \E h \in Handler : \E r :
             /\ handler[h] = Pipeline!NoRequest /\ r.pc # "evaluate"
             /\ handler' = [handler EXCEPT ![h] = r]
    BY <1>5 DEF Forward, Pipeline!Forward
  <2>3. QED  BY <1>2, <1>3, <2>1, <2>2 DEF Calm
<1>6. ASSUME NEW h \in Handler, PublishMetrics(h)
      PROVE  Calm
  <2>1. UNCHANGED <<alertVars, breach, breaches, evaluated, finished, crashes>> /\ handler[h].pc = "publish"
    BY <1>6 DEF PublishMetrics, Quietly, Pipeline!PublishMetrics, Pipeline!environment
  <2>2. handler'[h].pc = "idle" /\ Elsewhere(h)
    BY <1>6, Answers DEF PublishMetrics, Pipeline!PublishMetrics
  <2>3. QED  BY <2>1, <2>2 DEF Calm, SameEvaluations, Elsewhere
<1>7. ASSUME \/ \E m \in Machine : AgentAnswered(m)
             \/ \E w \in Worker : \/ FetchMessage(w) \/ CommitMessages(w)
                                  \/ WorkerAnswered(w) \/ StartWorker(w)
             \/ Rebalance
      PROVE  Calm
  <2>1. UNCHANGED <<alertVars, breach, breaches, evaluated, finished, crashes, handler>>
    BY <1>7
    DEF AgentAnswered, FetchMessage, CommitMessages, WorkerAnswered, StartWorker,
                Rebalance, Quietly, Pipeline!AgentAnswered, Pipeline!FetchMessage,
                Pipeline!CommitMessages, Pipeline!WorkerAnswered, Pipeline!StartWorker,
                Pipeline!Rebalance, Pipeline!environment
  <2>2. QED  BY <1>2, <2>1 DEF Calm
<1>8. ASSUME Quiesce \/ UNCHANGED vars
      PROVE  Calm
  BY <1>2, <1>8 DEF Calm, Quiesce, vars, pipelineVars
<1>9. QED  BY <1>4, <1>5, <1>6, <1>7, <1>8 DEF WorkerStep

LEMMA StepEffects ==
  ASSUME Pipeline!TypeOK, [Next]_vars
  PROVE  \/ Calm
         \/ \E h \in Handler : Begun(h) \/ AlertStep(h) \/ Over(h)
         \/ StartServer \/ Dies \/ Tick
<1>1. ASSUME NEW h \in Handler, Evaluated(h)
      PROVE  Over(h)
  <2>1. handler'[h].pc = "idle" /\ Elsewhere(h)
    BY <1>1, Answers DEF Evaluated, Pipeline!Evaluated
  <2>2. QED
    BY <1>1, <2>1 DEF Evaluated, Awaited, Over, Pipeline!Evaluated, Pipeline!environment
<1>2. CrashServer => Dies
  BY NoRequestFields DEF CrashServer, Dies, Pipeline!CrashServer
<1>3. QED
  BY <1>1, <1>2, WriteVMEffect, CalmSteps DEF Next, HandlerStep

LEMMA IdleTask ==
  /\ Alert!Idle.pc = "idle" /\ Alert!Idle.mach = None
  /\ \A t \in Alert!Task : t.pc # "idle" /\ t # Alert!Idle /\ t.mach \in Machine /\ t.rep = Server
  /\ None \notin Machine
<1>1. Alert!Idle.pc = "idle" /\ Alert!Idle.mach = None
  BY DEF Alert!Idle
<1>2. ASSUME NEW t \in Alert!Task
      PROVE  t.pc # "idle" /\ t.mach \in Machine /\ t.rep = Server
  BY DEF Alert!Task, Alert!Stage
<1>3. QED  BY <1>1, <1>2, CompositionAssumption

LEMMA AlertMoves ==
  ASSUME Alert!TypeOK, NEW h \in Handler, Alert!Step(h)
  PROVE  /\ task[h] \in Alert!Task /\ task[h].mach \in Machine
         /\ \/ task'[h] = Alert!Idle
            \/ task'[h] \in Alert!Task /\ task'[h].mach = task[h].mach
         /\ \A g \in Handler : g # h => task'[g] = task[g]
         /\ UNCHANGED <<now, store, samples, serverCrashes>>
<1>1. Alerting!TypeOK /\ Alerting!Step(h)
  BY AlertingTypeOK, AlertingStep
<1>2. /\ task[h].pc # "idle"
      /\ \E t : Alerting!Moved(h, t)
      /\ UNCHANGED Alerting!environment
  BY <1>1, Alerting!StepMoves, AlertingAssumption, CompositionAssumption
  DEF Alerting!FaultKind
<1>3. task \in [Handler -> Alert!Task \cup {Alert!Idle}]
  BY DEF Alert!TypeOK, Alert!TaskOK
<1>4. task[h] \in Alert!Task /\ task[h].mach \in Machine
  BY <1>2, <1>3, IdleTask
<1>5. PICK t : Alerting!Moved(h, t)
  BY <1>2
<1>6. /\ task' = [task EXCEPT ![h] = t]
      /\ t = Alert!Idle \/ (t \in Alert!Task /\ t.mach = task[h].mach)
  BY <1>5, AlertingState
  DEF Alerting!Moved, Alerting!Task, Alerting!Stage, Alerting!Outcome,
                             Alert!Task, Alert!Stage, Alert!Outcome
<1>7. QED  BY <1>2, <1>3, <1>4, <1>6 DEF Alerting!environment

-----------------------------------------------------------------------------
(* The types.                                                                  *)

(* A goroutine evaluates the sample of the request that it handles. *)
TasksServed ==
  \A h \in Handler : task[h] # Alert!Idle =>
    handler[h].pc = "evaluate" /\ handler[h].sample[1] = task[h].mach

PartsOK == Pipeline!TypeOK /\ Alert!TypeOK /\ Breach
Types == PartsOK /\ breaches \in [Machine -> Nat] /\ TasksServed

LEMMA TypesCover == Types => TypeOK
BY DEF Types, PartsOK, Breach, TypeOK, TasksServed

LEMMA StepTypes ==
  ASSUME Types, PartsOK', [Next]_vars
  PROVE  Types'
<1>1. /\ Pipeline!TypeOK /\ Alert!TypeOK /\ Breach
      /\ task \in [Handler -> Alert!Task \cup {Alert!Idle}]
  BY DEF Types, PartsOK, Alert!TypeOK, Alert!TaskOK
<1>2. CASE Calm
  BY <1>2 DEF Calm, SameEvaluations, alertVars, Types, TasksServed, Alert!Idle
<1>3. ASSUME NEW h \in Handler, Begun(h)
      PROVE  Types'
  <2>1. /\ handler[h].sample[1] \in Machine /\ handler'[h].sample = handler[h].sample
        /\ handler'[h].pc = "evaluate" /\ Elsewhere(h)
    BY <1>1, <1>3, SampleOf DEF Begun
  <2>2. breaches' \in [Machine -> Nat]
    BY <1>3, <2>1 DEF Begun, Types
  <2>3. task' = [task EXCEPT ![h] = [Alert!Idle EXCEPT
                   !.pc = IF Breaching(handler[h].sample) THEN "increment" ELSE "get",
                   !.rep = Server, !.mach = handler[h].sample[1]]]
    BY <1>3 DEF Begun, Alert!StartEvaluation
  <2>4. task'[h].mach = handler[h].sample[1] /\ \A g \in Handler : g # h => task'[g] = task[g]
    BY <1>1, <2>3 DEF Alert!Idle
  <2>5. TasksServed'
    BY <2>1, <2>4 DEF Types, TasksServed, Elsewhere, Alert!Idle
  <2>6. QED  BY <2>2, <2>5 DEF Types
<1>4. ASSUME NEW h \in Handler, AlertStep(h)
      PROVE  Types'
  <2>1. Alert!Step(h) /\ UNCHANGED <<handler, breaches>>
    BY <1>4 DEF AlertStep, pipelineVars
  <2>2. TasksServed'
    BY <1>1, <2>1, AlertMoves, IdleTask DEF Types, TasksServed, Alert!Idle
  <2>3. QED  BY <2>1, <2>2 DEF Types
<1>5. ASSUME NEW h \in Handler, Over(h)
      PROVE  Types'
  <2>1. handler[h].sample[1] \in Machine /\ UNCHANGED task
    BY <1>1, <1>5, SampleOf DEF Over, alertVars
  <2>2. breaches' \in [Machine -> Nat]
    BY <1>5, <2>1 DEF Over, Types
  <2>3. TasksServed'
    BY <1>5, <2>1 DEF Over, Types, TasksServed, Elsewhere, Alert!Idle
  <2>4. QED  BY <2>2, <2>3 DEF Types
<1>6. CASE StartServer \/ Tick
  <2>1. UNCHANGED <<handler, breaches, task>>
    BY <1>6 DEF StartServer, Tick, pipelineVars, Alert!StartServer, Alert!Tick
  <2>2. QED  BY <2>1 DEF Types, TasksServed, Alert!Idle
<1>7. CASE Dies
  <2>1. task' = [h \in Handler |-> IF task[h].rep = Server THEN Alert!Idle ELSE task[h]]
    BY <1>7 DEF Dies, Alert!Crash
  <2>2. \A h \in Handler : task'[h] = Alert!Idle
    BY <1>1, <2>1, IdleTask
  <2>3. TasksServed'
    BY <2>2 DEF TasksServed, Alert!Idle
  <2>4. QED  BY <1>7, <2>3 DEF Dies, Types
<1>8. QED  BY <1>1, <1>2, <1>3, <1>4, <1>5, <1>6, <1>7, StepEffects

LEMMA InitTypes == Init /\ PartsOK => Types
BY DEF Init, Types, TasksServed, Alert!Init

LEMMA TypesInvariance == Spec => []Types
<1>1. Spec => []PartsOK
  BY PartTypes, AlertTypes, PTL DEF PartsOK
<1>2. Types /\ PartsOK' /\ [Next]_vars => Types'
  BY StepTypes
<1>3. QED  BY <1>1, <1>2, InitTypes, PTL DEF Spec

(* Every variable has its type, and a goroutine that runs evaluateCPUAlert does *)
(* so for the sample of the request it handles: it has no other, and no task    *)
(* outlives its request or its process (main.go:293-357).                       *)
THEOREM TypeCorrect == Spec => []TypeOK
BY TypesInvariance, TypesCover, PTL

-----------------------------------------------------------------------------
(* One worker that reads one partition, as deployments/k8s runs it.            *)

LEMMA SameCardinality ==
  \A S : Pipeline!Cardinality(S) = Cardinality(S) /\ Flow!Cardinality(S) = Cardinality(S)
BY DEF Cardinality, Pipeline!Cardinality, Flow!Cardinality,
       IsFiniteSet, Pipeline!IsFiniteSet, Flow!IsFiniteSet

OneWorker ==
  /\ \E w : Worker = {w}
  /\ \E p : Partition = {p}
  /\ IngestModes = {"kafka"}

(* The samples of a machine are evaluated one at a time and in the order the   *)
(* agent sent them, in the composition too, where the evaluation takes as many *)
(* steps as evaluateCPUAlert makes calls and the server may die in between      *)
(* (worker/main.go:74-151, main.go:293-357).                                   *)
THEOREM SamplesAreSerial == OneWorker => (Spec => []EvaluatedSerially)
<1> SUFFICES ASSUME OneWorker PROVE Spec => []EvaluatedSerially
  OBVIOUS
<1>1. Flow!OneWorker
  BY CompositionAssumption DEF OneWorker, Flow!OneWorker
<1>2. Flow!Spec => []Flow!EvaluatedSerially
  BY <1>1, Flow!SamplesAreSerial, FlowAssumption
<1>3. Flow!EvaluatedSerially <=> EvaluatedSerially
  BY SameCardinality
  DEF Flow!EvaluatedSerially, EvaluatedSerially, Pipeline!EvaluatedSerially
<1>4. QED  BY <1>2, <1>3, ImplementsPipeline, FlowSpec, PTL

(* No message is delivered to evaluateCPUAlert twice, in the composition too:    *)
(* the server may die in the middle of an evaluation, whose sample then counts   *)
(* in Redis and whose client learns only that the connection broke                *)
(* (worker/main.go:74-138, main.go:293-357).                                    *)
THEOREM MessagesDeliveredOnce ==
  OneWorker => (Spec => []EvaluatedAtMostOnce)
<1> SUFFICES ASSUME OneWorker PROVE Spec => []EvaluatedAtMostOnce
  OBVIOUS
<1>1. Flow!OneConsumer
  <2>1. PICK p \in Partition : Partition = {p}
    BY DEF OneWorker
  <2>2. IsFiniteSet({p})
    BY FS_Singleton
  <2>3. Flow!IsFiniteSet(Partition)
    BY <2>1, <2>2 DEF IsFiniteSet, Flow!IsFiniteSet
  <2>4. QED  BY <2>3 DEF OneWorker, Flow!OneConsumer
<1>2. Flow!Spec => []Flow!EvaluatedAtMostOnce
  BY <1>1, Flow!MessagesDeliveredOnce, FlowAssumption
<1>3. Flow!EvaluatedAtMostOnce <=> EvaluatedAtMostOnce
  BY SameCardinality
  DEF Flow!EvaluatedAtMostOnce, EvaluatedAtMostOnce, Pipeline!EvaluatedAtMostOnce,
      Flow!Sample, Pipeline!Sample, Flow!Committed, Pipeline!Committed
<1>4. QED  BY <1>2, <1>3, ImplementsPipeline, FlowSpec, PTL

OneAtATime ==
  \A g, h \in Handler :
    handler[g].pc = "evaluate" /\ handler[h].pc = "evaluate"
      /\ handler[g].sample[1] = handler[h].sample[1] => g = h

LEMMA SerialIsOneAtATime ==
  ASSUME Pipeline!TypeOK, Breach, EvaluatedSerially
  PROVE  OneAtATime
<1> SUFFICES ASSUME NEW g \in Handler, NEW h \in Handler, g # h,
                    handler[g].pc = "evaluate", handler[h].pc = "evaluate",
                    handler[g].sample[1] = handler[h].sample[1]
             PROVE  FALSE
  BY DEF OneAtATime
<1>1. PICK m \in Machine : m = handler[h].sample[1]
  BY SampleOf
<1> DEFINE S == {k \in Handler : handler[k].pc = "evaluate" /\ handler[k].sample[1] = m}
<1>2. Cardinality(S) <= 1
  BY SameCardinality DEF EvaluatedSerially, Pipeline!EvaluatedSerially
<1>3. {g, h} \subseteq S
  BY <1>1
<1>4. IsFiniteSet(S)
  BY CompositionAssumption, FS_Subset
<1>5. IsFiniteSet({g}) /\ Cardinality({g}) = 1 /\ {g} \cup {h} = {g, h} /\ h \notin {g}
  BY FS_Singleton
<1>6. Cardinality({g, h}) = 2
  <2>1. Cardinality({g} \cup {h}) = Cardinality({g}) + 1
    BY <1>5, FS_AddElement
  <2>2. QED  BY <1>5, <2>1
<1> HIDE DEF S
<1>7. Cardinality({g, h}) <= Cardinality(S) /\ Cardinality(S) \in Nat
  BY <1>3, <1>4, FS_Subset, FS_CardinalityType
<1>8. QED  BY <1>2, <1>6, <1>7

-----------------------------------------------------------------------------
(* Serially is about the same alerting, but for its guard.                     *)

LEMMA SeriallyAssumption ==
  /\ IsFiniteSet(Handler) <=> Serially!IsFiniteSet(Handler)
  /\ 2 * MaxSamples * Cardinality(Machine) \in Nat
<1>1. 2 * MaxSamples * Cardinality(Machine) \in Nat
  BY CompositionAssumption, FS_CardinalityType
<1>2. IsFiniteSet(Handler) <=> Serially!IsFiniteSet(Handler)
  BY DEF IsFiniteSet, Serially!IsFiniteSet
<1>3. QED  BY <1>1, <1>2

LEMMA SeriallyState ==
  /\ Serially!Idle = Alert!Idle
  /\ UNCHANGED Serially!vars <=> UNCHANGED Alert!vars
  /\ UNCHANGED Serially!keys <=> UNCHANGED Alert!keys
  /\ UNCHANGED Serially!audit <=> UNCHANGED Alert!audit
  /\ UNCHANGED Serially!cooldownHistory <=> UNCHANGED Alert!cooldownHistory
  /\ UNCHANGED Serially!sampleHistory <=> UNCHANGED Alert!sampleHistory
  /\ UNCHANGED Serially!environment <=> UNCHANGED Alert!environment
  /\ Serially!vars = Alert!vars
BY DEF Serially!Idle, Serially!vars, Serially!keys, Serially!audit,
       Serially!cooldownHistory, Serially!sampleHistory, Serially!environment,
       Alert!Idle, Alert!vars, Alert!keys, Alert!audit, Alert!cooldownHistory,
       Alert!sampleHistory, Alert!environment

LEMMA SeriallyInit == Serially!Init <=> Alert!Init
BY SeriallyState DEF Serially!Init, Serially!Store, Serially!Forever, Serially!Zero, Serially!NoneYet,
       Serially!Level, Serially!Outcome, Alert!Init, Alert!Store,
       Alert!Forever, Alert!Zero, Alert!NoneYet, Alert!Level, Alert!Outcome

LEMMA SeriallyTypeOK == Serially!TypeOK <=> Alert!TypeOK
<1>1. Serially!TaskOK <=> Alert!TaskOK
  BY SeriallyState DEF Serially!TaskOK, Serially!Task, Serially!Stage, Serially!Outcome,
       Alert!TaskOK, Alert!Task, Alert!Stage, Alert!Outcome
<1>2. Serially!KeysOK <=> Alert!KeysOK
  BY DEF Serially!KeysOK, Serially!Store, Alert!KeysOK, Alert!Store
<1>3. Serially!AuditOK <=> Alert!AuditOK
  BY DEF Serially!AuditOK, Serially!Level, Serially!Outcome, Alert!AuditOK,
       Alert!Level, Alert!Outcome
<1>4. Serially!HistoryOK <=> Alert!HistoryOK
  BY DEF Serially!HistoryOK, Serially!Store, Alert!HistoryOK, Alert!Store
<1>5. Serially!EnvironmentOK <=> Alert!EnvironmentOK
  BY DEF Serially!EnvironmentOK, Serially!Store, Alert!EnvironmentOK, Alert!Store
<1>6. QED  BY <1>1, <1>2, <1>3, <1>4, <1>5 DEF Serially!TypeOK, Alert!TypeOK

LEMMA SeriallyCalls ==
  /\ \A h \in Handler : Serially!StoreOf(h) = Alert!StoreOf(h)
  /\ \A s : Serially!CallResult(s) = Alert!CallResult(s)
  /\ \A s, m : Serially!Count(s, m) = Alert!Count(s, m)
  /\ \A s, m : Serially!Incremented(s, m) <=> Alert!Incremented(s, m)
  /\ \A s, m : Serially!Cleared(s, m) <=> Alert!Cleared(s, m)
  /\ \A s, m : Serially!CooldownFree(s, m) <=> Alert!CooldownFree(s, m)
  /\ \A s : Serially!CooldownEnd(s) = Alert!CooldownEnd(s)
BY DEF Serially!StoreOf, Serially!CallResult, Serially!Count,
       Serially!Incremented, Serially!Cleared, Serially!CooldownFree,
       Serially!CooldownEnd, Serially!Forever, Alert!StoreOf, Alert!CallResult,
       Alert!Count, Alert!Incremented, Alert!Cleared, Alert!CooldownFree,
       Alert!CooldownEnd, Alert!Forever

LEMMA SeriallyMoves ==
  ASSUME NEW h \in Handler
  PROVE  /\ \A stage : Serially!Goto(h, stage) <=> Alert!Goto(h, stage)
         /\ Serially!Return(h) <=> Alert!Return(h)
BY SeriallyState DEF Serially!Goto, Serially!Return, Alert!Goto, Alert!Return

LEMMA SeriallyStep ==
  ASSUME NEW h \in Handler
  PROVE  Serially!Step(h) <=> Alert!Step(h)
<1>1. Serially!IncrementCPUBreach(h) <=> Alert!IncrementCPUBreach(h)
  BY SeriallyState, SeriallyCalls, SeriallyMoves
  DEF Serially!IncrementCPUBreach, Serially!Reached, Alert!IncrementCPUBreach,
       Alert!Reached
<1>2. Serially!ExpireCount(h) <=> Alert!ExpireCount(h)
  BY SeriallyState, SeriallyCalls, SeriallyMoves
  DEF Serially!ExpireCount, Serially!Reached, Alert!ExpireCount, Alert!Reached
<1>3. Serially!TryAcquireCooldown(h) <=> Alert!TryAcquireCooldown(h)
  BY SeriallyState, SeriallyCalls, SeriallyMoves
  DEF Serially!TryAcquireCooldown, Alert!TryAcquireCooldown
<1>4. Serially!SuppressAlert(h) <=> Alert!SuppressAlert(h)
  BY SeriallyState, SeriallyCalls, SeriallyMoves
  DEF Serially!SuppressAlert, Alert!SuppressAlert
<1>5. ASSUME NEW level, NEW next PROVE Serially!Notify(h, level, next) <=> Alert!Notify(h, level, next)
  BY DEF Serially!Notify, Serially!NotifyOutcome, Serially!Outcome,
       Serially!NotifyStatus, Alert!Notify,
       Alert!NotifyOutcome, Alert!Outcome, Alert!NotifyStatus
<1>6. Serially!NotifyCPUAlert(h) <=> Alert!NotifyCPUAlert(h)
  BY <1>5, SeriallyState, SeriallyCalls
  DEF Serially!NotifyCPUAlert, Alert!NotifyCPUAlert
<1>7. Serially!GetCPUBreachCount(h) <=> Alert!GetCPUBreachCount(h)
  BY SeriallyState, SeriallyCalls, SeriallyMoves
  DEF Serially!GetCPUBreachCount, Alert!GetCPUBreachCount
<1>8. Serially!ResetCPUBreach(h) <=> Alert!ResetCPUBreach(h)
  BY SeriallyState, SeriallyCalls, SeriallyMoves
  DEF Serially!ResetCPUBreach, Serially!Recovered, Alert!ResetCPUBreach,
       Alert!Recovered
<1>9. Serially!NotifyCPURecovery(h) <=> Alert!NotifyCPURecovery(h)
  BY <1>5, SeriallyState DEF Serially!NotifyCPURecovery, Alert!NotifyCPURecovery
<1>10. ASSUME NEW level PROVE Serially!SaveAlertEvent(h, level) <=> Alert!SaveAlertEvent(h, level)
  BY SeriallyState, SeriallyMoves DEF Serially!SaveAlertEvent, Alert!SaveAlertEvent
<1>11. Serially!CountNotification(h) <=> Alert!CountNotification(h)
  BY SeriallyState, SeriallyMoves
  DEF Serially!CountNotification, Serially!Observed, Alert!CountNotification, Alert!Observed
<1>12. QED
  BY <1>1, <1>2, <1>3, <1>4, <1>6, <1>7, <1>8, <1>9, <1>10, <1>11
  DEF Serially!Step, Serially!Level, Alert!Step, Alert!Level

LEMMA SeriallyServer ==
  /\ Serially!StartServer(Server) <=> Alert!StartServer(Server)
  /\ Serially!Crash(Server) <=> Alert!Crash(Server)
  /\ Serially!Tick <=> Alert!Tick
<1>1. Serially!StartServer(Server) <=> Alert!StartServer(Server)
  BY SeriallyState DEF Serially!StartServer, Alert!StartServer
<1>2. Serially!Crash(Server) <=> Alert!Crash(Server)
  BY SeriallyState DEF Serially!Crash, Serially!Forever, Serially!NoneYet, Serially!Outcome,
                         Alert!Crash, Alert!Forever, Alert!NoneYet, Alert!Outcome
<1>3. Serially!Tick <=> Alert!Tick
  BY SeriallyState DEF Serially!Tick, Alert!Tick
<1>4. QED  BY <1>1, <1>2, <1>3

LEMMA SeriallyStart ==
  ASSUME NEW h \in Handler, NEW r, NEW m, NEW b
  PROVE  Serially!StartEvaluation(h, r, m, b) <=>
           Alert!StartEvaluation(h, r, m, b) /\ \A g \in Handler : task[g].mach # m
BY SeriallyState DEF Serially!StartEvaluation, Alert!StartEvaluation

(* No other goroutine evaluates a sample of the machine. *)
LEMMA BeginsAlone ==
  ASSUME Types, OneAtATime', NEW h \in Handler, Begun(h), NEW g \in Handler
  PROVE  task[g].mach # handler[h].sample[1]
<1>1. CASE task[g] = Alert!Idle
  BY <1>1, IdleTask, SampleOf DEF Types, PartsOK, Begun
<1>2. CASE task[g] # Alert!Idle
  <2>1. handler[g].pc = "evaluate" /\ handler[g].sample[1] = task[g].mach
    BY <1>2 DEF Types, TasksServed
  <2>2. g # h /\ handler'[g] = handler[g]
    BY <2>1 DEF Begun, Elsewhere
  <2>3. QED  BY <2>1, <2>2 DEF OneAtATime, Begun
<1>3. QED  BY <1>1, <1>2

LEMMA SerialStepImplements ==
  ASSUME Types, OneAtATime', [Next]_vars
  PROVE  [Serially!Next]_(Serially!vars)
<1>1. UNCHANGED alertVars => UNCHANGED Serially!vars
  BY QuietAlerting, SeriallyState
<1>2. CASE Calm
  BY <1>1, <1>2 DEF Calm
<1>3. ASSUME NEW h \in Handler, Begun(h)
      PROVE  Serially!Next
  <2>1. Serially!StartEvaluation(h, Server, handler[h].sample[1], Breaching(handler[h].sample))
    BY <1>3, BeginsAlone, SeriallyStart DEF Begun
  <2>2. handler[h].sample[1] \in Machine /\ Breaching(handler[h].sample) \in BOOLEAN
    BY <1>3, SampleOf DEF Begun, Types, PartsOK
  <2>3. QED  BY <2>1, <2>2 DEF Serially!Next
<1>4. ASSUME NEW h \in Handler, AlertStep(h)
      PROVE  Serially!Next
  BY <1>4, SeriallyStep DEF AlertStep, Serially!Next
<1>5. ASSUME NEW h \in Handler, Over(h)
      PROVE  UNCHANGED Serially!vars
  BY <1>1, <1>5 DEF Over
<1>6. StartServer \/ Dies \/ Tick => Serially!Next
  BY SeriallyServer DEF StartServer, Dies, Tick, Serially!Next
<1>7. QED
  BY <1>2, <1>3, <1>4, <1>5, <1>6, StepEffects DEF Types, PartsOK

LEMMA OneAtATimeInvariance == OneWorker => (Spec => []OneAtATime)
<1> SUFFICES ASSUME OneWorker PROVE Spec => []OneAtATime
  OBVIOUS
<1>1. Spec => []EvaluatedSerially
  BY SamplesAreSerial
<1>2. Pipeline!TypeOK /\ Breach /\ EvaluatedSerially => OneAtATime
  BY SerialIsOneAtATime
<1>3. QED  BY <1>1, <1>2, PartTypes, PTL

(* One worker feeds the server so that no two samples of a machine are ever in  *)
(* evaluation at once, although nothing in evaluateCPUAlert sees to that: the   *)
(* composition implements the alerting without overlap, which AlertSerial       *)
(* checks and AlertEvaluationProofs is about (main.go:395-508).                     *)
THEOREM ImplementsSerialAlerting == OneWorker => (Spec => Serially!Spec)
<1> SUFFICES ASSUME OneWorker PROVE Spec => Serially!Spec
  OBVIOUS
<1>1. Init => Serially!Init
  BY SeriallyInit DEF Init
<1>2. Types /\ OneAtATime' /\ [Next]_vars => [Serially!Next]_(Serially!vars)
  BY SerialStepImplements
<1>3. Spec => []OneAtATime
  BY OneAtATimeInvariance
<1>4. QED  BY <1>1, <1>2, <1>3, TypesInvariance, PTL DEF Spec, Serially!Spec

(* The counts are kept as long as an evaluation runs: in a Redis that answers a *)
(* server that does not die, or in the memory of the server.                    *)
CountsKept ==
  \/ /\ AlertStoreType = "redis" /\ "redis" \notin AlertFaults /\ "server" \notin Faults
  \/ AlertStoreType = "memory"

(* What a P0 and a RECOVERY say of the samples in a row is true of the samples *)
(* that the pipeline brings, duplicates and refused writes among them           *)
(* (main.go:408, notifier.go:104).                                              *)
THEOREM NotificationsReportStreaks ==
  OneWorker /\ CountsKept =>
    (Spec => [](Alert!AlertMeansConsecutive /\ Alert!RecoveryReportsStreak))
<1> SUFFICES ASSUME OneWorker, CountsKept
             PROVE  Spec => [](Alert!AlertMeansConsecutive /\ Alert!RecoveryReportsStreak)
  OBVIOUS
<1>1. Serially!OneStore
  <2>1. "redis" \notin AlertFaults /\ "server" \notin Faults
          => (AlertFaults \cup (IF "server" \in Faults THEN {"crash"} ELSE {}))
                \cap {"redis", "crash"} = {}
    BY CompositionAssumption
  <2>2. QED
    BY <2>1 DEF CountsKept, Serially!OneStore, Serially!OneRedis, Serially!OneMemory
<1>2. Serially!Spec => [](Serially!AlertMeansConsecutive)
  BY <1>1, Serially!AlertsAreConsecutive, SeriallyAssumption, CompositionAssumption
  DEF Serially!FaultKind
<1>3. Serially!Spec => [](Serially!RecoveryReportsStreak)
  BY <1>1, Serially!RecoveriesReportStreaks, SeriallyAssumption, CompositionAssumption
  DEF Serially!FaultKind
<1>4. /\ Serially!AlertMeansConsecutive <=> Alert!AlertMeansConsecutive
      /\ Serially!RecoveryReportsStreak <=> Alert!RecoveryReportsStreak
  BY DEF Serially!AlertMeansConsecutive, Serially!RecoveryReportsStreak,
         Alert!AlertMeansConsecutive, Alert!RecoveryReportsStreak
<1>5. Spec => Serially!Spec
  BY ImplementsSerialAlerting
<1>6. QED  BY <1>2, <1>3, <1>4, <1>5, PTL

-----------------------------------------------------------------------------
(* What the steps of an evaluation do to the state of their machine, when the  *)
(* store answers: the memory of the server, or a Redis that does not fail.     *)

StoreAnswers == AlertStoreType = "memory" \/ "redis" \notin AlertFaults
Kept == IF AlertStoreType = "redis" THEN Redis ELSE Server

Counted(m) == count[Kept][m]
Live(m) == Alert!Count(Kept, m)
Until(m) == countUntil[Kept][m]
Cool(m) == coolUntil[Kept][m]
P0s(m) == Alert!Attempted(m, "P0")
Recoveries(m) == Alert!Attempted(m, "RECOVERY")

(* t becomes u in a step of evaluateCPUAlert for m. *)
Counts(t, u, m) ==
  \/ /\ t.pc = "increment" /\ Counted(m)' = Live(m) + 1
     /\ \/ u = Alert!Idle /\ Live(m) + 1 < AlertTriggerCount
        \/ u.pc = "expire" /\ u.n = Live(m) + 1 /\ Kept = Redis
        \/ u.pc = "acquire" /\ u.n = Live(m) + 1 /\ u.n >= AlertTriggerCount
  \/ /\ t.pc = "expire" /\ Counted(m)' = Counted(m)
     /\ \/ u = Alert!Idle /\ t.n < AlertTriggerCount
        \/ u.pc = "acquire" /\ u.n = t.n /\ u.n >= AlertTriggerCount
  \/ /\ t.pc = "get" /\ Counted(m)' = Counted(m)
     /\ u.pc = "reset" /\ u.n = Live(m)
  \/ /\ t.pc = "reset" /\ Counted(m)' = 0
     /\ \/ u = Alert!Idle /\ t.n = 0
        \/ u.pc = "notifyRecovery" /\ t.n > 0
Notifies(t, u, m) ==
  \/ /\ t.pc = "acquire"
     /\ UNCHANGED <<P0s(m), Recoveries(m)>>
     /\ \/ u = Alert!Idle /\ now < Cool(m) /\ UNCHANGED Cool(m)
        \/ u.pc = "notifyAlert" /\ u.n = t.n
  \/ /\ t.pc = "notifyAlert" /\ u.pc = "countAlert"
     /\ P0s(m)' = P0s(m) + 1 /\ UNCHANGED <<Recoveries(m), Cool(m)>>
  \/ /\ t.pc = "countAlert" /\ u.pc = "saveAlert"
     /\ UNCHANGED <<P0s(m), Recoveries(m), Cool(m)>>
  \/ /\ t.pc = "notifyRecovery" /\ u.pc = "saveRecovery"
     /\ Recoveries(m)' = Recoveries(m) + 1 /\ UNCHANGED <<P0s(m), Cool(m)>>
  \/ /\ t.pc \in {"saveAlert", "saveRecovery"} /\ u = Alert!Idle
     /\ UNCHANGED <<P0s(m), Recoveries(m), Cool(m)>>
Proceeds(t, u, m) ==
  \/ Counts(t, u, m) /\ UNCHANGED <<P0s(m), Recoveries(m), Cool(m)>>
  \/ Notifies(t, u, m) /\ Counted(m)' = Counted(m)

LEMMA KeptStore ==
  ASSUME StoreAnswers
  PROVE  /\ Kept \in Alert!Store /\ Kept # None
         /\ Alert!CallResult(Kept) = {"ok"}
         /\ Server \in Alert!Store /\ Redis \in Alert!Store
BY CompositionAssumption DEF StoreAnswers, Kept, Alert!Store, Alert!CallResult

LEMMA CountTypes ==
  ASSUME Alert!TypeOK, StoreAnswers, NEW m \in Machine
  PROVE  /\ Counted(m) \in Nat /\ Live(m) \in Nat /\ Live(m) <= Counted(m)
         /\ Cool(m) \in Nat /\ P0s(m) \in Nat /\ Recoveries(m) \in Nat /\ now \in Nat
<1>1. Counted(m) \in Nat /\ Cool(m) \in Nat /\ now \in Nat
  BY KeptStore DEF Counted, Cool, Alert!TypeOK, Alert!KeysOK, Alert!EnvironmentOK
<1>2. Live(m) \in Nat /\ Live(m) <= Counted(m)
  BY <1>1 DEF Live, Counted, Alert!Count
<1>3. P0s(m) \in Nat /\ Recoveries(m) \in Nat
  BY DEF P0s, Recoveries, Alert!Attempted, Alert!TypeOK, Alert!AuditOK, Alert!Level,
         Alert!Outcome
<1>4. QED  BY <1>1, <1>2, <1>3

(* How the task of a goroutine that moves to the stage p looks. *)
LEMMA MovedTask ==
  ASSUME Alert!TypeOK, NEW h \in Handler, task[h] \in Alert!Task, NEW p, NEW n
  PROVE  /\ task' = [task EXCEPT ![h].pc = p] => task'[h].pc = p /\ task'[h].n = task[h].n
         /\ task' = [task EXCEPT ![h].n = n, ![h].pc = p] => task'[h].pc = p /\ task'[h].n = n
         /\ task' = [task EXCEPT ![h].pc = p, ![h].n = n] => task'[h].pc = p /\ task'[h].n = n
         /\ task' = [task EXCEPT ![h].pc = p, ![h].status = n] => task'[h].pc = p
         /\ task' = [task EXCEPT ![h] = Alert!Idle] => task'[h] = Alert!Idle
<1>1. task \in [Handler -> Alert!Task \cup {Alert!Idle}]
  BY DEF Alert!TypeOK, Alert!TaskOK
<1>2. QED  BY <1>1 DEF Alert!Task

LEMMA StepStore ==
  ASSUME Alert!TypeOK, StoreAnswers, store[Server] \in {Kept, None},
         NEW h \in Handler, Alert!Step(h)
  PROVE  /\ task[h] \in Alert!Task /\ task[h].mach \in Machine
         /\ Alert!StoreOf(h) = Kept /\ Alert!CallResult(Kept) = {"ok"}
         /\ Kept \in Alert!Store
<1>1. task[h] \in Alert!Task /\ task[h].mach \in Machine /\ task[h].pc # "idle"
  BY AlertMoves, IdleTask
<1>2. store[task[h].rep] # None /\ task[h].rep = Server
  BY <1>1, IdleTask DEF Alert!TypeOK, Alert!TaskOK
<1>3. QED  BY <1>1, <1>2, KeptStore DEF Alert!StoreOf

LEMMA IncrementProceeds ==
  ASSUME Alert!TypeOK, StoreAnswers, store[Server] \in {Kept, None},
         NEW h \in Handler, Alert!IncrementCPUBreach(h), NEW m, m = task[h].mach
  PROVE  Proceeds(task[h], task'[h], m)
<1>1. /\ task[h] \in Alert!Task /\ m \in Machine /\ Kept \in Alert!Store
      /\ Alert!StoreOf(h) = Kept /\ Alert!CallResult(Kept) = {"ok"}
  BY StepStore DEF Alert!Step
<1>2. PICK k \in Nat : k = Live(m)
  BY <1>1, CountTypes
<1>3. /\ task[h].pc = "increment"
      /\ Alert!Incremented(Kept, m)
      /\ IF Kept # Redis /\ ~Alert!Reached(k + 1)
         THEN Alert!Return(h)
         ELSE task' = [task EXCEPT ![h].n = k + 1,
                                   ![h].pc = IF Kept = Redis THEN "expire" ELSE "acquire"]
      /\ UNCHANGED <<coolUntil, notified>>
  BY <1>1, <1>2 DEF Alert!IncrementCPUBreach, Live, Alert!audit
<1>4. Counted(m)' = k + 1
  BY <1>1, <1>2, <1>3
  DEF Alert!Incremented, Counted, Live, Kept, Alert!TypeOK, Alert!KeysOK
<1>5. UNCHANGED <<P0s(m), Recoveries(m), Cool(m)>>
  BY <1>3 DEF P0s, Recoveries, Cool, Kept, Alert!Attempted
<1>6. \/ task'[h] = Alert!Idle /\ k + 1 < AlertTriggerCount
      \/ task'[h].pc = "expire" /\ task'[h].n = k + 1 /\ Kept = Redis
      \/ task'[h].pc = "acquire" /\ task'[h].n = k + 1 /\ k + 1 >= AlertTriggerCount
  <2>1. CASE Kept # Redis /\ ~Alert!Reached(k + 1)
    <3>1. task'[h] = Alert!Idle
      BY <1>1, <1>3, <2>1, MovedTask DEF Alert!Return
    <3>2. k + 1 < AlertTriggerCount
      BY <1>2, <2>1, CompositionAssumption DEF Alert!Reached
    <3>3. QED  BY <3>1, <3>2
  <2>2. CASE Kept = Redis
    <3>1. task' = [task EXCEPT ![h].n = k + 1, ![h].pc = "expire"]
      BY <1>3, <2>2
    <3>2. QED  BY <1>1, <2>2, <3>1, MovedTask
  <2>3. CASE Kept # Redis /\ Alert!Reached(k + 1)
    <3>1. task' = [task EXCEPT ![h].n = k + 1, ![h].pc = "acquire"]
      BY <1>3, <2>3
    <3>2. QED  BY <1>1, <2>3, <3>1, MovedTask DEF Alert!Reached
  <2>4. QED  BY <2>1, <2>2, <2>3
<1>7. QED  BY <1>2, <1>3, <1>4, <1>5, <1>6 DEF Proceeds, Counts

LEMMA ExpireProceeds ==
  ASSUME Alert!TypeOK, StoreAnswers, store[Server] \in {Kept, None},
         NEW h \in Handler, Alert!ExpireCount(h), NEW m, m = task[h].mach
  PROVE  Proceeds(task[h], task'[h], m)
<1>1. task[h] \in Alert!Task /\ task[h].n \in Nat
  BY StepStore DEF Alert!Step, Alert!Task
<1>2. /\ task[h].pc = "expire" /\ UNCHANGED <<count, coolUntil, notified>>
      /\ IF Alert!Reached(task[h].n) THEN Alert!Goto(h, "acquire") ELSE Alert!Return(h)
  BY DEF Alert!ExpireCount, Alert!audit
<1>3. UNCHANGED <<Counted(m), P0s(m), Recoveries(m), Cool(m)>>
  BY <1>2 DEF Counted, P0s, Recoveries, Cool, Kept, Alert!Attempted
<1>4. \/ task'[h] = Alert!Idle /\ task[h].n < AlertTriggerCount
      \/ /\ task'[h].pc = "acquire" /\ task'[h].n = task[h].n
         /\ task'[h].n >= AlertTriggerCount
  <2>1. CASE Alert!Reached(task[h].n)
    BY <1>1, <1>2, <2>1, MovedTask DEF Alert!Goto, Alert!Reached
  <2>2. CASE ~Alert!Reached(task[h].n)
    <3>1. task'[h] = Alert!Idle
      BY <1>1, <1>2, <2>2, MovedTask DEF Alert!Return
    <3>2. task[h].n < AlertTriggerCount
      BY <1>1, <2>2, CompositionAssumption DEF Alert!Reached
    <3>3. QED  BY <3>1, <3>2
  <2>3. QED  BY <2>1, <2>2
<1>5. QED  BY <1>2, <1>3, <1>4 DEF Proceeds, Counts

LEMMA AcquireProceeds ==
  ASSUME Alert!TypeOK, StoreAnswers, store[Server] \in {Kept, None}, NEW h \in Handler,
         Alert!TryAcquireCooldown(h) \/ Alert!SuppressAlert(h), NEW m, m = task[h].mach
  PROVE  Proceeds(task[h], task'[h], m)
<1>1. /\ task[h] \in Alert!Task /\ m \in Machine
      /\ Alert!StoreOf(h) = Kept /\ Alert!CallResult(Kept) = {"ok"}
  BY StepStore DEF Alert!Step
<1>2. /\ task[h].pc = "acquire" /\ UNCHANGED <<count, notified>>
      /\ \/ Alert!Goto(h, "notifyAlert")
         \/ Alert!Return(h) /\ ~Alert!CooldownFree(Kept, m) /\ UNCHANGED coolUntil
  BY <1>1 DEF Alert!TryAcquireCooldown, Alert!SuppressAlert, Alert!audit, Alert!keys
<1>3. UNCHANGED <<Counted(m), P0s(m), Recoveries(m)>>
  BY <1>2 DEF Counted, P0s, Recoveries, Kept, Alert!Attempted
<1>4. \/ task'[h].pc = "notifyAlert" /\ task'[h].n = task[h].n
      \/ task'[h] = Alert!Idle /\ now < Cool(m) /\ UNCHANGED Cool(m)
  <2>1. ~Alert!CooldownFree(Kept, m) => now < Cool(m)
    BY <1>1, CountTypes DEF Alert!CooldownFree, Cool
  <2>2. QED  BY <1>1, <1>2, <2>1, MovedTask DEF Alert!Goto, Alert!Return, Cool, Kept
<1>5. QED  BY <1>2, <1>3, <1>4 DEF Proceeds, Notifies

LEMMA NotifyProceeds ==
  ASSUME Alert!TypeOK, StoreAnswers, store[Server] \in {Kept, None}, NEW h \in Handler,
         Alert!NotifyCPUAlert(h) \/ Alert!NotifyCPURecovery(h), NEW m, m = task[h].mach
  PROVE  Proceeds(task[h], task'[h], m)
<1>1. /\ task[h] \in Alert!Task /\ m \in Machine
  BY StepStore DEF Alert!Step
<1>2. UNCHANGED <<count, coolUntil>>
  BY DEF Alert!NotifyCPUAlert, Alert!NotifyCPURecovery, Alert!keys
<1>3. PICK level \in {"P0", "RECOVERY"}, o \in {"sent", "failed"} :
        /\ task[h].pc = IF level = "P0" THEN "notifyAlert" ELSE "notifyRecovery"
        /\ notified' = [notified EXCEPT ![m][level][o] = @ + 1]
        /\ task' = [task EXCEPT ![h].pc = IF level = "P0" THEN "countAlert" ELSE "saveRecovery",
                                ![h].status = Alert!NotifyStatus(level, o)]
  <2>1. CASE Alert!NotifyCPUAlert(h)
    BY <2>1 DEF Alert!NotifyCPUAlert, Alert!Notify, Alert!NotifyOutcome, Alert!Outcome
  <2>2. CASE Alert!NotifyCPURecovery(h)
    BY <2>2
    DEF Alert!NotifyCPURecovery, Alert!Notify, Alert!NotifyOutcome, Alert!Outcome
  <2>3. QED  BY <2>1, <2>2
<1>4. /\ notified \in [Machine -> [{"P0", "RECOVERY"} -> [{"sent", "failed"} -> Nat]]]
  BY DEF Alert!TypeOK, Alert!AuditOK, Alert!Level, Alert!Outcome
<1>5. /\ P0s(m)' = IF level = "P0" THEN P0s(m) + 1 ELSE P0s(m)
      /\ Recoveries(m)' = IF level = "RECOVERY" THEN Recoveries(m) + 1 ELSE Recoveries(m)
  <2>1. \A lv \in {"P0", "RECOVERY"}, x \in {"sent", "failed"} :
          /\ notified[m][lv][x] \in Nat
          /\ notified'[m][lv][x] = IF lv = level /\ x = o THEN notified[m][lv][x] + 1
                                                          ELSE notified[m][lv][x]
    BY <1>1, <1>3, <1>4
  <2>2. ASSUME NEW lv \in {"P0", "RECOVERY"}
        PROVE  Alert!Attempted(m, lv)' = IF lv = level THEN Alert!Attempted(m, lv) + 1
                                                       ELSE Alert!Attempted(m, lv)
    <3>1. PICK a \in Nat, b \in Nat : a = notified[m][lv]["sent"] /\ b = notified[m][lv]["failed"]
      BY <2>1
    <3>2. /\ notified'[m][lv]["sent"] = IF lv = level /\ o = "sent" THEN a + 1 ELSE a
          /\ notified'[m][lv]["failed"] = IF lv = level /\ o = "failed" THEN b + 1 ELSE b
      BY <2>1, <3>1
    <3>3. /\ Alert!Attempted(m, lv) = a + b
          /\ Alert!Attempted(m, lv)' = notified'[m][lv]["sent"] + notified'[m][lv]["failed"]
      BY <3>1 DEF Alert!Attempted
    <3>4. o = "sent" \/ o = "failed"
      OBVIOUS
    <3>5. QED  BY <3>2, <3>3, <3>4
  <2>3. P0s(m)' = Alert!Attempted(m, "P0")' /\ Recoveries(m)' = Alert!Attempted(m, "RECOVERY")'
    BY DEF P0s, Recoveries
  <2>4. QED  BY <2>2, <2>3 DEF P0s, Recoveries
<1>6. task'[h].pc = IF level = "P0" THEN "countAlert" ELSE "saveRecovery"
  <2>1. PICK p : p = IF level = "P0" THEN "countAlert" ELSE "saveRecovery"
    OBVIOUS
  <2>2. PICK st : st = Alert!NotifyStatus(level, o)
    OBVIOUS
  <2>3. task' = [task EXCEPT ![h].pc = p, ![h].status = st]
    BY <1>3, <2>1, <2>2
  <2>4. task'[h].pc = p
    BY <1>1, <2>3, MovedTask
  <2>5. QED  BY <2>1, <2>4
<1>7. UNCHANGED <<Counted(m), Cool(m)>>
  BY <1>2 DEF Counted, Cool, Kept
<1>8. QED  BY <1>3, <1>5, <1>6, <1>7 DEF Proceeds, Notifies

LEMMA RecoverProceeds ==
  ASSUME Alert!TypeOK, StoreAnswers, store[Server] \in {Kept, None}, NEW h \in Handler,
         Alert!GetCPUBreachCount(h) \/ Alert!ResetCPUBreach(h), NEW m, m = task[h].mach
  PROVE  Proceeds(task[h], task'[h], m)
<1>1. /\ task[h] \in Alert!Task /\ m \in Machine /\ Kept \in Alert!Store
      /\ Alert!StoreOf(h) = Kept /\ Alert!CallResult(Kept) = {"ok"}
      /\ task[h].n \in Nat
  BY StepStore DEF Alert!Step, Alert!Task
<1>2. UNCHANGED <<coolUntil, notified>>
  BY DEF Alert!GetCPUBreachCount, Alert!ResetCPUBreach, Alert!audit, Alert!keys
<1>3. UNCHANGED <<P0s(m), Recoveries(m), Cool(m)>>
  BY <1>2 DEF P0s, Recoveries, Cool, Kept, Alert!Attempted
<1>4. CASE Alert!GetCPUBreachCount(h)
  <2>1. PICK k : k = Live(m)
    OBVIOUS
  <2>2. /\ task[h].pc = "get" /\ UNCHANGED count
        /\ task' = [task EXCEPT ![h].pc = "reset", ![h].n = k]
    BY <1>1, <1>4, <2>1 DEF Alert!GetCPUBreachCount, Live, Alert!keys
  <2>3. task'[h].pc = "reset" /\ task'[h].n = k
    BY <1>1, <2>2, MovedTask
  <2>4. UNCHANGED Counted(m)
    BY <2>2 DEF Counted, Kept
  <2>5. QED  BY <1>3, <2>1, <2>2, <2>3, <2>4 DEF Proceeds, Counts
<1>5. CASE Alert!ResetCPUBreach(h)
  <2>1. /\ task[h].pc = "reset" /\ Alert!Cleared(Kept, m)
        /\ IF Alert!Recovered(task[h].n) THEN Alert!Goto(h, "notifyRecovery") ELSE Alert!Return(h)
    BY <1>1, <1>5 DEF Alert!ResetCPUBreach
  <2>2. Counted(m)' = 0
    BY <1>1, <2>1 DEF Alert!Cleared, Counted, Kept, Alert!TypeOK, Alert!KeysOK
  <2>3. \/ task'[h] = Alert!Idle /\ task[h].n = 0
        \/ task'[h].pc = "notifyRecovery" /\ task[h].n > 0
    <3>1. CASE Alert!Recovered(task[h].n)
      BY <1>1, <2>1, <3>1, MovedTask DEF Alert!Recovered, Alert!Goto
    <3>2. CASE ~Alert!Recovered(task[h].n)
      <4>1. task'[h] = Alert!Idle
        BY <1>1, <2>1, <3>2, MovedTask DEF Alert!Return
      <4>2. task[h].n = 0
        BY <1>1, <3>2 DEF Alert!Recovered
      <4>3. QED  BY <4>1, <4>2
    <3>3. QED  BY <3>1, <3>2
  <2>4. QED  BY <1>3, <2>1, <2>2, <2>3 DEF Proceeds, Counts
<1>6. QED  BY <1>4, <1>5

LEMMA SaveProceeds ==
  ASSUME Alert!TypeOK, StoreAnswers, store[Server] \in {Kept, None}, NEW h \in Handler,
         NEW level \in Alert!Level, Alert!SaveAlertEvent(h, level), NEW m, m = task[h].mach
  PROVE  Proceeds(task[h], task'[h], m)
<1>1. task[h] \in Alert!Task
  BY StepStore DEF Alert!Step
<1>2. /\ task[h].pc \in {"saveAlert", "saveRecovery"} /\ Alert!Return(h)
      /\ UNCHANGED <<count, coolUntil, notified>>
  BY DEF Alert!SaveAlertEvent, Alert!keys
<1>3. task'[h] = Alert!Idle
  BY <1>1, <1>2, MovedTask DEF Alert!Return
<1>4. UNCHANGED <<Counted(m), P0s(m), Recoveries(m), Cool(m)>>
  BY <1>2 DEF Counted, P0s, Recoveries, Cool, Kept, Alert!Attempted
<1>5. QED  BY <1>2, <1>3, <1>4 DEF Proceeds, Notifies

LEMMA CountProceeds ==
  ASSUME Alert!TypeOK, StoreAnswers, store[Server] \in {Kept, None}, NEW h \in Handler,
         Alert!CountNotification(h), NEW m, m = task[h].mach
  PROVE  Proceeds(task[h], task'[h], m)
<1>1. task[h] \in Alert!Task
  BY StepStore DEF Alert!Step
<1>2. /\ task[h].pc = "countAlert" /\ Alert!Goto(h, "saveAlert")
      /\ UNCHANGED <<count, coolUntil, notified>>
  BY DEF Alert!CountNotification, Alert!keys
<1>3. task'[h].pc = "saveAlert"
  BY <1>1, <1>2, MovedTask DEF Alert!Goto
<1>4. UNCHANGED <<Counted(m), P0s(m), Recoveries(m), Cool(m)>>
  BY <1>2 DEF Counted, P0s, Recoveries, Cool, Kept, Alert!Attempted
<1>5. QED  BY <1>2, <1>3, <1>4 DEF Proceeds, Notifies

LEMMA StepProceeds ==
  ASSUME Alert!TypeOK, StoreAnswers, store[Server] \in {Kept, None},
         NEW h \in Handler, Alert!Step(h), NEW m, m = task[h].mach
  PROVE  Proceeds(task[h], task'[h], m)
BY IncrementProceeds, ExpireProceeds, AcquireProceeds, NotifyProceeds, RecoverProceeds,
   SaveProceeds, CountProceeds
DEF Alert!Step

(* The step leaves the other machines alone. *)
LEMMA StepElsewhere ==
  ASSUME Alert!TypeOK, StoreAnswers, store[Server] \in {Kept, None},
         NEW h \in Handler, Alert!Step(h), NEW m \in Machine, m # task[h].mach
  PROVE  UNCHANGED <<Counted(m), Until(m), Cool(m), P0s(m), Recoveries(m)>>
<1>1. /\ task[h].mach \in Machine /\ Kept \in Alert!Store
      /\ Alert!StoreOf(h) = Kept /\ Alert!CallResult(Kept) = {"ok"}
  BY StepStore
<1>2. /\ count \in [Alert!Store -> [Machine -> Nat]]
      /\ countUntil \in [Alert!Store -> [Machine -> Nat]]
      /\ coolUntil \in [Alert!Store -> [Machine -> Nat]]
      /\ notified \in [Machine -> [{"P0", "RECOVERY"} -> [{"sent", "failed"} -> Nat]]]
  BY DEF Alert!TypeOK, Alert!KeysOK, Alert!AuditOK, Alert!Level, Alert!Outcome
<1>3. /\ count'[Kept][m] = count[Kept][m]
      /\ countUntil'[Kept][m] = countUntil[Kept][m]
      /\ coolUntil'[Kept][m] = coolUntil[Kept][m]
      /\ notified'[m] = notified[m]
  <2>1. CASE Alert!IncrementCPUBreach(h)
    BY <1>1, <1>2, <2>1 DEF Alert!IncrementCPUBreach, Alert!Incremented, Alert!audit
  <2>2. CASE Alert!ExpireCount(h)
    BY <1>1, <1>2, <2>2 DEF Alert!ExpireCount, Alert!audit
  <2>3. CASE Alert!TryAcquireCooldown(h)
    BY <1>1, <1>2, <2>3 DEF Alert!TryAcquireCooldown, Alert!audit
  <2>4. CASE Alert!SuppressAlert(h)
    BY <2>4 DEF Alert!SuppressAlert, Alert!audit, Alert!keys
  <2>5. CASE Alert!NotifyCPUAlert(h)
    BY <1>1, <1>2, <2>5 DEF Alert!NotifyCPUAlert, Alert!Notify, Alert!keys
  <2>6. CASE Alert!GetCPUBreachCount(h)
    BY <2>6 DEF Alert!GetCPUBreachCount, Alert!audit, Alert!keys
  <2>7. CASE Alert!ResetCPUBreach(h)
    BY <1>1, <1>2, <2>7 DEF Alert!ResetCPUBreach, Alert!Cleared, Alert!audit
  <2>8. CASE Alert!NotifyCPURecovery(h)
    BY <1>1, <1>2, <2>8 DEF Alert!NotifyCPURecovery, Alert!Notify, Alert!keys
  <2>9. ASSUME NEW level \in Alert!Level, Alert!SaveAlertEvent(h, level)
        PROVE  UNCHANGED <<count, countUntil, coolUntil, notified>>
    BY <2>9 DEF Alert!SaveAlertEvent, Alert!keys
  <2>10. CASE Alert!CountNotification(h)
    BY <2>10 DEF Alert!CountNotification, Alert!keys
  <2>11. QED
    BY <2>1, <2>2, <2>3, <2>4, <2>5, <2>6, <2>7, <2>8, <2>9, <2>10 DEF Alert!Step
<1>4. QED
  BY <1>3 DEF Counted, Until, Cool, P0s, Recoveries, Kept, Alert!Attempted

-----------------------------------------------------------------------------
(* A P0 spans no normal sample.  The count that the store keeps is at most the *)
(* breaches since the last normal sample, and a normal sample is over only     *)
(* when the count is gone.                                                     *)

Alerts == {"increment", "expire", "acquire", "notifyAlert", "countAlert", "saveAlert"}
Recovers == {"get", "reset", "notifyRecovery", "saveRecovery"}

(* h evaluates a sample of m: *)
Evaluates(h, m) == handler[h].pc = "evaluate" /\ handler[h].sample[1] = m

Branch(h) ==
  task[h] # Alert!Idle =>
    task[h].pc \in IF Breaching(handler[h].sample) THEN Alerts ELSE Recovers
SpansAt(h, m) ==
  Evaluates(h, m) =>
    /\ task[h].pc = "increment" => Counted(m) < breaches[m]
    /\ task[h].pc \in {"expire", "acquire", "notifyAlert"} => task[h].n <= breaches[m]
    /\ task[h].pc \in {"acquire", "notifyAlert"} => task[h].n >= AlertTriggerCount
    /\ ~Breaching(handler[h].sample) => task[h].pc \in {"get", "reset"} \/ Counted(m) = 0
SpanInv ==
  /\ store[Server] \in {Kept, None}
  /\ \A m \in Machine : Counted(m) <= breaches[m]
  /\ \A h \in Handler : Branch(h)
  /\ \A h \in Handler, m \in Machine : SpansAt(h, m)

LEMMA SpanStep ==
  ASSUME Types, OneAtATime, StoreAnswers, SpanInv, NEW h \in Handler, AlertStep(h)
  PROVE  SpanInv'
<1>1. /\ Alert!TypeOK /\ Alert!Step(h)
      /\ UNCHANGED <<handler, breach, breaches, store>>
      /\ store[Server] \in {Kept, None}
  BY AlertMoves DEF Types, PartsOK, AlertStep, pipelineVars, SpanInv
<1>2. PICK m \in Machine : m = task[h].mach
  BY <1>1, AlertMoves
<1>3. Evaluates(h, m) /\ task[h] \in Alert!Task /\ task[h] # Alert!Idle /\ task[h].n \in Nat
  BY <1>1, <1>2, AlertMoves, IdleTask
  DEF Types, TasksServed, Evaluates, Alert!Idle, Alert!Task
<1>4. Proceeds(task[h], task'[h], m)
  BY <1>1, <1>2, StepProceeds
<1>5. /\ Counted(m) \in Nat /\ Live(m) \in Nat /\ Live(m) <= Counted(m)
      /\ breaches[m] \in Nat
  BY <1>1, CountTypes DEF Types
<1>6. SpansAt(h, m) /\ Branch(h) /\ Counted(m) <= breaches[m]
  BY DEF SpanInv
<1>7. Counted(m)' <= breaches[m]
  BY <1>3, <1>4, <1>5, <1>6 DEF Proceeds, Counts, SpansAt
<1>8. Branch(h)'
  BY <1>1, <1>3, <1>4, <1>6
  DEF Branch, Proceeds, Counts, Notifies, Alerts, Recovers, Breaching
<1>9. SpansAt(h, m)'
  BY <1>1, <1>3, <1>4, <1>5, <1>6, IdleTask, CompositionAssumption
  DEF Branch, SpansAt, Proceeds, Counts, Notifies, Alerts, Recovers, Breaching, Evaluates
<1>10. ASSUME NEW g \in Handler, NEW k \in Machine, g # h \/ k # m
       PROVE  SpansAt(g, k)'
  <2>1. CASE ~Evaluates(g, k)
    BY <1>1, <2>1 DEF SpansAt, Evaluates
  <2>2. CASE Evaluates(g, k)
    <3>1. k # m /\ g # h
      BY <1>3, <1>10, <2>2 DEF Evaluates, OneAtATime
    <3>2. Counted(k)' = Counted(k) /\ task'[g] = task[g]
      BY <1>1, <1>2, <3>1, StepElsewhere, AlertMoves
    <3>3. QED  BY <1>1, <3>2 DEF SpansAt, SpanInv, Evaluates, Breaching
  <2>3. QED  BY <2>1, <2>2
<1>11. \A g \in Handler : Branch(g)'
  BY <1>1, <1>8, AlertMoves DEF Branch, SpanInv, Breaching, Alert!Idle
<1>12. \A k \in Machine : Counted(k)' <= breaches'[k]
  BY <1>1, <1>2, <1>7, StepElsewhere DEF SpanInv
<1>13. \A g \in Handler, k \in Machine : SpansAt(g, k)'
  BY <1>9, <1>10
<1>14. store'[Server] \in {Kept', None}
  BY <1>1 DEF Kept
<1>15. QED  BY <1>11, <1>12, <1>13, <1>14 DEF SpanInv

(* The task that a begun evaluation gets. *)
LEMMA BegunTask ==
  ASSUME Types, NEW h \in Handler, Begun(h)
  PROVE  /\ handler[h].sample[1] \in Machine /\ task[h] = Alert!Idle
         /\ task'[h] # Alert!Idle /\ task'[h].mach = handler[h].sample[1]
         /\ task'[h].pc = IF Breaching(handler[h].sample) THEN "increment" ELSE "get"
         /\ \A g \in Handler : g # h => task'[g] = task[g]
         /\ UNCHANGED <<breach, count, countUntil, coolUntil, notified, store, serverCrashes, now>>
<1>1. /\ handler[h].sample[1] \in Machine /\ task[h] = Alert!Idle
      /\ task \in [Handler -> Alert!Task \cup {Alert!Idle}]
  BY SampleOf
  DEF Begun, Types, PartsOK, Alert!TypeOK, Alert!TaskOK, Alert!StartEvaluation
<1>2. PICK p : p = IF Breaching(handler[h].sample) THEN "increment" ELSE "get"
  OBVIOUS
<1>3. task' = [task EXCEPT ![h] = [Alert!Idle EXCEPT
                 !.pc = p, !.rep = Server, !.mach = handler[h].sample[1]]]
  BY <1>2 DEF Begun, Alert!StartEvaluation
<1>4. /\ task'[h].pc = p /\ task'[h].mach = handler[h].sample[1]
      /\ \A g \in Handler : g # h => task'[g] = task[g]
  BY <1>1, <1>3 DEF Alert!Idle
<1>5. task'[h] # Alert!Idle
  BY <1>1, <1>4, IdleTask
<1>6. UNCHANGED <<breach, count, countUntil, coolUntil, notified, store, serverCrashes, now>>
  BY DEF Begun, Alert!StartEvaluation, Alert!keys, Alert!audit
<1>7. QED  BY <1>1, <1>2, <1>4, <1>5, <1>6

LEMMA SpanBegun ==
  ASSUME Types, OneAtATime', StoreAnswers, SpanInv, NEW h \in Handler, Begun(h)
  PROVE  SpanInv'
<1>1. PICK m \in Machine : m = handler[h].sample[1]
  BY BegunTask
<1>2. /\ handler'[h].pc = "evaluate" /\ handler'[h].sample = handler[h].sample
      /\ Elsewhere(h)
  BY DEF Begun
<1>3. /\ task'[h] # Alert!Idle
      /\ task'[h].pc = IF Breaching(handler[h].sample) THEN "increment" ELSE "get"
      /\ \A g \in Handler : g # h => task'[g] = task[g]
      /\ UNCHANGED <<breach, count, store>>
  BY BegunTask
<1>4. /\ breaches \in [Machine -> Nat] /\ Counted(m) <= breaches[m] /\ Counted(m) \in Nat
  BY CountTypes DEF Types, PartsOK, SpanInv
<1>5. /\ \A k \in Machine : k # m => breaches'[k] = breaches[k]
      /\ breaches'[m] = IF Breaching(handler[h].sample) THEN breaches[m] + 1 ELSE breaches[m]
  BY <1>1, <1>4 DEF Begun
<1>6. \A k \in Machine : Counted(k)' = Counted(k)
  BY <1>3 DEF Counted, Kept
<1>7. \A k \in Machine : Counted(k)' <= breaches'[k]
  BY <1>4, <1>5, <1>6 DEF SpanInv
<1>8. SpansAt(h, m)' /\ Branch(h)'
  BY <1>2, <1>3, <1>4, <1>5, <1>6 DEF SpansAt, Branch, Breaching, Alerts, Recovers
<1>9. ASSUME NEW g \in Handler, NEW k \in Machine, g # h \/ k # m
      PROVE  SpansAt(g, k)'
  <2>1. CASE ~Evaluates(g, k)'
    BY <2>1 DEF SpansAt
  <2>2. CASE Evaluates(g, k)'
    <3>1. k # m /\ g # h
      BY <1>1, <1>2, <1>9, <2>2 DEF Evaluates, OneAtATime
    <3>2. handler'[g] = handler[g]
      BY <1>2, <3>1 DEF Elsewhere
    <3>3. QED
      BY <1>3, <1>5, <1>6, <3>1, <3>2 DEF SpansAt, SpanInv, Evaluates, Breaching
  <2>3. QED  BY <2>1, <2>2
<1>10. \A g \in Handler : Branch(g)'
  BY <1>2, <1>3, <1>8 DEF Branch, SpanInv, Elsewhere, Breaching, Alert!Idle
<1>11. store'[Server] \in {Kept', None}
  BY <1>3 DEF Kept, SpanInv
<1>12. \A g \in Handler, k \in Machine : SpansAt(g, k)'
  BY <1>8, <1>9
<1>13. QED  BY <1>7, <1>10, <1>11, <1>12 DEF SpanInv

LEMMA SpanOver ==
  ASSUME Types, OneAtATime, StoreAnswers, SpanInv, NEW h \in Handler, Over(h)
  PROVE  SpanInv'
<1>1. PICK m \in Machine : m = handler[h].sample[1]
  BY SampleOf DEF Over, Types, PartsOK
<1>2. /\ handler[h].pc = "evaluate" /\ handler'[h].pc = "idle" /\ task[h] = Alert!Idle
      /\ Elsewhere(h) /\ UNCHANGED <<breach, task, count, store>>
  BY DEF Over, alertVars
<1>3. SpansAt(h, m) /\ Evaluates(h, m) /\ task[h].pc = "idle"
  BY <1>1, <1>2, IdleTask DEF SpanInv, Evaluates
<1>4. breaches \in [Machine -> Nat] /\ Counted(m) <= breaches[m] /\ Counted(m) \in Nat
  BY CountTypes DEF Types, PartsOK, SpanInv
<1>5. /\ \A k \in Machine : k # m => breaches'[k] = breaches[k]
      /\ breaches'[m] = IF Breaching(handler[h].sample) THEN breaches[m] ELSE 0
  BY <1>1, <1>4 DEF Over
<1>6. \A k \in Machine : Counted(k)' = Counted(k)
  BY <1>2 DEF Counted, Kept
<1>7. \A k \in Machine : Counted(k)' <= breaches'[k]
  BY <1>3, <1>4, <1>5, <1>6 DEF SpanInv, SpansAt
<1>8. ASSUME NEW g \in Handler, NEW k \in Machine
      PROVE  SpansAt(g, k)'
  <2>1. CASE ~Evaluates(g, k)'
    BY <2>1 DEF SpansAt
  <2>2. CASE Evaluates(g, k)'
    <3>1. g # h
      BY <1>2, <2>2 DEF Evaluates
    <3>2. handler'[g] = handler[g]
      BY <1>2, <3>1 DEF Elsewhere
    <3>3. k # m
      BY <1>3, <2>2, <3>1, <3>2 DEF Evaluates, OneAtATime
    <3>4. QED
      BY <1>2, <1>5, <1>6, <3>2, <3>3 DEF SpansAt, SpanInv, Evaluates, Breaching
  <2>3. QED  BY <2>1, <2>2
<1>9. \A g \in Handler : Branch(g)'
  BY <1>2 DEF Branch, SpanInv, Elsewhere, Breaching, Alert!Idle
<1>10. store'[Server] \in {Kept', None}
  BY <1>2 DEF Kept, SpanInv
<1>11. QED  BY <1>7, <1>8, <1>9, <1>10 DEF SpanInv

(* A process that dies takes its evaluations with it, and its memory. *)
LEMMA DiesEffect ==
  ASSUME Types, StoreAnswers, Dies
  PROVE  /\ \A h \in Handler : task'[h] = Alert!Idle /\ handler'[h].pc = "idle"
         /\ store'[Server] = None /\ serverCrashes' = serverCrashes + 1
         /\ crashes' = crashes + 1
         /\ \A m \in Machine : /\ Counted(m)' = Counted(m) \/ Counted(m)' = 0
                               /\ UNCHANGED <<P0s(m), Recoveries(m)>>
         /\ UNCHANGED <<breach, breaches, evaluated>>
<1>1. /\ task \in [Handler -> Alert!Task \cup {Alert!Idle}]
      /\ count \in [Alert!Store -> [Machine -> Nat]]
      /\ store \in [{Server} -> Alert!Store \cup {None}]
  BY DEF Types, PartsOK, Alert!TypeOK, Alert!TaskOK, Alert!KeysOK, Alert!EnvironmentOK
<1>2. /\ task' = [h \in Handler |-> IF task[h].rep = Server THEN Alert!Idle ELSE task[h]]
      /\ count' = [count EXCEPT ![Server] = [m \in Machine |-> 0]]
      /\ store' = [store EXCEPT ![Server] = None]
      /\ serverCrashes' = serverCrashes + 1
      /\ UNCHANGED notified
  BY DEF Dies, Alert!Crash, Alert!audit
<1>3. \A h \in Handler : task'[h] = Alert!Idle
  BY <1>1, <1>2, IdleTask
<1>4. \A m \in Machine : Counted(m)' = Counted(m) \/ Counted(m)' = 0
  BY <1>1, <1>2, KeptStore DEF Counted, Kept
<1>5. \A m \in Machine : UNCHANGED <<P0s(m), Recoveries(m)>>
  BY <1>2 DEF P0s, Recoveries, Alert!Attempted
<1>6. store'[Server] = None
  BY <1>1, <1>2
<1>7. QED  BY <1>2, <1>3, <1>4, <1>5, <1>6 DEF Dies, Pipeline!CrashServer

LEMMA SpanRest ==
  ASSUME Types, StoreAnswers, SpanInv, Calm \/ StartServer \/ Dies \/ Tick
  PROVE  SpanInv'
<1>1. CASE Calm
  <2>1. UNCHANGED <<store, count, breach, breaches, task>> /\ SameEvaluations
    BY <1>1 DEF Calm, alertVars
  <2>2. \A h \in Handler : Branch(h)'
    BY <2>1
    DEF SpanInv, Branch, Types, TasksServed, SameEvaluations, Breaching, Alert!Idle
  <2>3. \A h \in Handler, m \in Machine : SpansAt(h, m)'
    BY <2>1 DEF SpanInv, SpansAt, Evaluates, SameEvaluations, Counted, Kept, Breaching
  <2>4. \A m \in Machine : Counted(m)' <= breaches'[m]
    BY <2>1 DEF SpanInv, Counted, Kept
  <2>5. QED  BY <2>1, <2>2, <2>3, <2>4 DEF SpanInv, Kept
<1>2. CASE StartServer \/ Tick
  <2>1. UNCHANGED <<count, breach, breaches, task, handler>>
    BY <1>2
    DEF StartServer, Tick, Alert!StartServer, Alert!Tick, pipelineVars, Alert!keys
  <2>2. store'[Server] \in {Kept', None}
    <3>1. CASE Tick
      BY <3>1 DEF SpanInv, Kept, Tick, Alert!Tick
    <3>2. CASE StartServer
      <4>1. store \in [{Server} -> Alert!Store \cup {None}]
        BY DEF Types, PartsOK, Alert!TypeOK, Alert!EnvironmentOK
      <4>2. PICK s \in {Server, Redis} :
              /\ s = Redis => AlertStoreType = "redis"
              /\ s = Server => \/ AlertStoreType = "memory"
                               \/ "redis" \in AlertFaults \cup (IF "server" \in Faults THEN {"crash"} ELSE {})
              /\ store' = [store EXCEPT ![Server] = s]
        BY <3>2 DEF StartServer, Alert!StartServer
      <4>3. s = Kept
        BY <4>2, CompositionAssumption DEF StoreAnswers, Kept
      <4>4. QED  BY <4>1, <4>2, <4>3 DEF Kept
    <3>3. QED  BY <1>2, <3>1, <3>2
  <2>3. \A h \in Handler : Branch(h)'
    BY <2>1 DEF SpanInv, Branch, Breaching, Alert!Idle
  <2>4. \A h \in Handler, m \in Machine : SpansAt(h, m)'
    BY <2>1 DEF SpanInv, SpansAt, Evaluates, Counted, Kept, Breaching
  <2>5. \A m \in Machine : Counted(m)' <= breaches'[m]
    BY <2>1 DEF SpanInv, Counted, Kept
  <2>6. QED  BY <2>2, <2>3, <2>4, <2>5 DEF SpanInv
<1>3. CASE Dies
  <2>1. /\ \A h \in Handler : task'[h] = Alert!Idle /\ handler'[h].pc = "idle"
        /\ store'[Server] = None /\ UNCHANGED breaches
        /\ \A m \in Machine : Counted(m)' = Counted(m) \/ Counted(m)' = 0
    BY <1>3, DiesEffect
  <2>2. \A m \in Machine : Counted(m)' <= breaches'[m]
    BY <2>1 DEF SpanInv, Types
  <2>3. \A h \in Handler : Branch(h)'
    BY <2>1 DEF Branch, Alert!Idle
  <2>4. \A h \in Handler, m \in Machine : SpansAt(h, m)'
    BY <2>1 DEF SpansAt, Evaluates
  <2>5. QED  BY <2>1, <2>2, <2>3, <2>4 DEF SpanInv
<1>4. QED  BY <1>1, <1>2, <1>3

LEMMA SpanInit == Init => SpanInv
<1> SUFFICES ASSUME Init PROVE SpanInv
  OBVIOUS
<1>1. /\ store = [r \in {Server} |-> None]
      /\ count = [s \in Alert!Store |-> [m \in Machine |-> 0]]
      /\ task = [h \in Handler |-> Alert!Idle]
      /\ handler = [h \in Handler |-> Pipeline!NoRequest]
      /\ breaches = [m \in Machine |-> 0]
  BY DEF Init, Alert!Init, Pipeline!Init
<1>2. Kept \in Alert!Store
  BY DEF Kept, Alert!Store
<1>3. \A m \in Machine : Counted(m) = 0 /\ Counted(m) <= breaches[m]
  BY <1>1, <1>2 DEF Counted
<1>4. \A h \in Handler : Branch(h) /\ handler[h].pc = "idle"
  BY <1>1, NoRequestFields DEF Branch
<1>5. QED  BY <1>1, <1>3, <1>4 DEF SpanInv, SpansAt, Evaluates

LEMMA SpanInvariance ==
  OneWorker /\ StoreAnswers => (Spec => []SpanInv)
<1> SUFFICES ASSUME OneWorker, StoreAnswers PROVE Spec => []SpanInv
  OBVIOUS
<1>1. SpanInv /\ Types /\ OneAtATime /\ OneAtATime' /\ [Next]_vars => SpanInv'
  BY StepEffects, SpanStep, SpanBegun, SpanOver, SpanRest DEF Types, PartsOK
<1>2. Spec => [](Types /\ OneAtATime)
  BY TypesInvariance, OneAtATimeInvariance, PTL
<1>3. QED  BY <1>1, <1>2, SpanInit, PTL DEF Spec

(* main.go:408 says of a P0 that the CPU was high N times in a row.  Between   *)
(* these N breaches no normal sample was processed to its end, wherever the    *)
(* server died in between, if the store answers.                               *)
THEOREM AlertsSpanNoNormalSample ==
  OneWorker /\ StoreAnswers => (Spec => []AlertSpansNoNormalSample)
<1> SUFFICES ASSUME OneWorker, StoreAnswers PROVE Spec => []AlertSpansNoNormalSample
  OBVIOUS
<1>1. Types /\ SpanInv => AlertSpansNoNormalSample
  <2> SUFFICES ASSUME Types, SpanInv, NEW h \in Handler, task[h].pc = "notifyAlert"
               PROVE  breaches[task[h].mach] >= AlertTriggerCount
    BY DEF AlertSpansNoNormalSample
  <2>1. task[h] # Alert!Idle /\ task[h] \in Alert!Task
    BY IdleTask DEF Types, PartsOK, Alert!TypeOK, Alert!TaskOK
  <2>2. task[h].mach \in Machine /\ Evaluates(h, task[h].mach) /\ task[h].n \in Nat
    BY <2>1, IdleTask DEF Types, TasksServed, Evaluates, Alert!Task
  <2>3. PICK m \in Machine : m = task[h].mach
    BY <2>2
  <2>4. SpansAt(h, m) /\ Evaluates(h, m) /\ breaches[m] \in Nat
    BY <2>2, <2>3 DEF SpanInv, Types
  <2>5. QED
    BY <2>2, <2>3, <2>4, CompositionAssumption DEF SpansAt
<1>2. QED  BY <1>1, SpanInvariance, TypesInvariance, PTL

-----------------------------------------------------------------------------
(* The sample that is evaluated is the last one that was brought.              *)

Last(m) == evaluated[m][Len(evaluated[m])]
LastBreached(m) == evaluated[m] # <<>> /\ breach[m][Last(m)]
LastAt(h, m) == Evaluates(h, m) => evaluated[m] # <<>> /\ Last(m) = handler[h].sample[2]
EvaluatesLast == \A h \in Handler, m \in Machine : LastAt(h, m)

(* What an evaluation that begins adds to evaluated. *)
LEMMA BegunLast ==
  ASSUME Types, NEW h \in Handler, Begun(h), NEW m \in Machine, m = handler[h].sample[1]
  PROVE  /\ evaluated'[m] = Append(evaluated[m], handler[h].sample[2])
         /\ evaluated'[m] # <<>> /\ Last(m)' = handler[h].sample[2]
         /\ LastBreached(m)' <=> Breaching(handler[h].sample)
         /\ \A k \in Machine : k # m => evaluated'[k] = evaluated[k]
<1>1. /\ evaluated \in [Machine -> Seq(1..MaxSamples)]
      /\ handler[h].sample[2] \in 1..MaxSamples
      /\ evaluated' = [evaluated EXCEPT ![m] = Append(@, handler[h].sample[2])]
  BY SampleOf DEF Types, PartsOK, Pipeline!TypeOK, Begun
<1>2. PICK k \in 1..MaxSamples : k = handler[h].sample[2]
  BY <1>1
<1>3. PICK e \in Seq(1..MaxSamples) : e = evaluated[m]
  BY <1>1
<1>4. evaluated'[m] = Append(e, k) /\ \A j \in Machine : j # m => evaluated'[j] = evaluated[j]
  BY <1>1, <1>2, <1>3
<1>5. Append(e, k) # <<>> /\ Append(e, k)[Len(Append(e, k))] = k
  OBVIOUS
<1>6. Last(m)' = k /\ evaluated'[m] # <<>>
  BY <1>4, <1>5 DEF Last
<1>7. LastBreached(m)' <=> Breaching(handler[h].sample)
  BY <1>2, <1>6 DEF LastBreached, Breaching, Begun
<1>8. QED  BY <1>2, <1>3, <1>4, <1>6, <1>7

LEMMA LastInvariance == OneWorker => (Spec => []EvaluatesLast)
<1> SUFFICES ASSUME OneWorker PROVE Spec => []EvaluatesLast
  OBVIOUS
<1>1. Init => EvaluatesLast
  BY NoRequestFields DEF Init, Pipeline!Init, EvaluatesLast, LastAt, Evaluates
<1>2. ASSUME EvaluatesLast, Types, OneAtATime', [Next]_vars
      PROVE  EvaluatesLast'
  <2>1. CASE Calm
    BY <1>2, <2>1 DEF Calm, SameEvaluations, EvaluatesLast, LastAt, Evaluates, Last
  <2>2. ASSUME NEW h \in Handler, Begun(h), NEW g \in Handler, NEW k \in Machine,
               Evaluates(g, k)'
        PROVE  evaluated'[k] # <<>> /\ Last(k)' = handler'[g].sample[2]
    <3>1. PICK m \in Machine : m = handler[h].sample[1]
      BY <1>2, <2>2, BegunTask
    <3>2. /\ handler'[h].pc = "evaluate" /\ handler'[h].sample = handler[h].sample
          /\ Elsewhere(h)
      BY <2>2 DEF Begun
    <3>3. /\ evaluated'[m] # <<>> /\ Last(m)' = handler[h].sample[2]
          /\ \A j \in Machine : j # m => evaluated'[j] = evaluated[j]
      BY <1>2, <2>2, <3>1, BegunLast
    <3>4. CASE k = m
      <4>1. g = h
        BY <1>2, <2>2, <3>1, <3>2, <3>4 DEF OneAtATime, Evaluates
      <4>2. QED  BY <3>2, <3>3, <3>4, <4>1
    <3>5. CASE k # m
      <4>1. g # h
        BY <2>2, <3>1, <3>2, <3>5 DEF Evaluates
      <4>2. handler'[g] = handler[g] /\ evaluated'[k] = evaluated[k]
        BY <3>2, <3>3, <3>5, <4>1 DEF Elsewhere
      <4>3. Evaluates(g, k)
        BY <2>2, <4>2 DEF Evaluates
      <4>4. QED  BY <1>2, <4>2, <4>3 DEF EvaluatesLast, LastAt, Last
    <3>6. QED  BY <3>4, <3>5
  <2>3. ASSUME NEW h \in Handler, AlertStep(h)
        PROVE  EvaluatesLast'
    BY <1>2, <2>3 DEF AlertStep, pipelineVars, EvaluatesLast, LastAt, Evaluates, Last
  <2>4. ASSUME NEW h \in Handler, Over(h)
        PROVE  EvaluatesLast'
    <3>1. ASSUME NEW g \in Handler, NEW k \in Machine, Evaluates(g, k)'
          PROVE  handler'[g] = handler[g]
      BY <2>4, <3>1 DEF Over, Elsewhere, Evaluates
    <3>2. UNCHANGED evaluated
      BY <2>4 DEF Over
    <3>3. QED  BY <1>2, <3>1, <3>2 DEF EvaluatesLast, LastAt, Evaluates, Last
  <2>5. CASE StartServer \/ Tick
    BY <1>2, <2>5
    DEF StartServer, Tick, pipelineVars, EvaluatesLast, LastAt, Evaluates, Last
  <2>6. CASE Dies
    BY <2>6 DEF Dies, EvaluatesLast, LastAt, Evaluates
  <2>7. (\E h \in Handler : Begun(h)) => EvaluatesLast'
    BY <2>2 DEF EvaluatesLast, LastAt
  <2>8. QED
    BY <1>2, <2>1, <2>3, <2>4, <2>5, <2>6, <2>7, StepEffects DEF Types, PartsOK
<1>3. Spec => [](Types /\ OneAtATime)
  BY TypesInvariance, OneAtATimeInvariance, PTL
<1>4. EvaluatesLast /\ Types /\ OneAtATime' /\ [Next]_vars => EvaluatesLast'
  BY <1>2
<1>5. QED  BY <1>1, <1>3, <1>4, PTL DEF Spec

(* At(m, S): an evaluation of m is at one of the stages S. *)
At(m, S) == \E h \in Handler : task[h].mach = m /\ task[h].pc \in S

LEMMA AtStep ==
  ASSUME Types, OneAtATime, NEW h \in Handler, AlertStep(h),
         NEW m \in Machine, m = task[h].mach, NEW S, "idle" \notin S
  PROVE  /\ At(m, S) <=> task[h].pc \in S
         /\ At(m, S)' <=> task'[h].pc \in S
         /\ \A k \in Machine : k # m => (At(k, S)' <=> At(k, S))
<1>1. Alert!TypeOK /\ Alert!Step(h)
  BY DEF Types, PartsOK, AlertStep
<1>2. /\ task[h] # Alert!Idle
      /\ task'[h] = Alert!Idle \/ task'[h].mach = m
      /\ \A g \in Handler : g # h => task'[g] = task[g]
  BY <1>1, AlertMoves, IdleTask
<1>3. ASSUME NEW g \in Handler, task[g].mach = m
      PROVE  g = h
  <2>1. task[g] # Alert!Idle
    BY <1>3, IdleTask
  <2>2. QED  BY <1>2, <1>3, <2>1 DEF Types, TasksServed, OneAtATime
<1>4. Alert!Idle.pc \notin S /\ \A k \in Machine : Alert!Idle.mach # k
  BY IdleTask
<1>5. QED  BY <1>2, <1>3, <1>4 DEF At

LEMMA AtBegun ==
  ASSUME Types, OneAtATime', NEW h \in Handler, Begun(h),
         NEW m \in Machine, m = handler[h].sample[1], NEW S, "idle" \notin S
  PROVE  /\ ~At(m, S) /\ Alert!Quiet(m)
         /\ At(m, S)' <=> task'[h].pc \in S
         /\ \A k \in Machine : k # m => (At(k, S)' <=> At(k, S))
<1>1. /\ task[h] = Alert!Idle /\ task'[h].mach = m
      /\ \A g \in Handler : g # h => task'[g] = task[g]
  BY BegunTask
<1>2. /\ handler'[h].pc = "evaluate" /\ handler'[h].sample = handler[h].sample
      /\ Elsewhere(h)
  BY DEF Begun
<1>3. Alert!Idle.pc \notin S /\ \A k \in Machine : Alert!Idle.mach # k
  BY IdleTask
<1>4. ASSUME NEW g \in Handler, task[g].mach = m
      PROVE  FALSE
  <2>1. task[g] # Alert!Idle /\ g # h
    BY <1>1, <1>3, <1>4
  <2>2. handler'[g].pc = "evaluate" /\ handler'[g].sample[1] = m
    BY <1>2, <1>4, <2>1 DEF Types, TasksServed, Elsewhere
  <2>3. QED  BY <1>2, <2>1, <2>2 DEF OneAtATime
<1>5. ~At(m, S) /\ Alert!Quiet(m)
  BY <1>4 DEF At, Alert!Quiet
<1>6. QED  BY <1>1, <1>3, <1>4, <1>5 DEF At

-----------------------------------------------------------------------------
(* One RECOVERY for each streak.                                               *)

LEMMA IntervalFinite ==
  ASSUME NEW n \in Nat
  PROVE  IsFiniteSet(2..n)
<1>1. 2 \in Int /\ n \in Int
  OBVIOUS
<1>2. QED  BY ONLY <1>1, FS_Interval

LEMMA StreaksType ==
  ASSUME Types, NEW m \in Machine
  PROVE  Streaks(m) \in Nat
<1>1. Len(evaluated[m]) \in Nat
  BY DEF Types, PartsOK, Pipeline!TypeOK
<1> DEFINE S == {i \in 2..Len(evaluated[m]) : breach[m][evaluated[m][i - 1]] /\ ~breach[m][evaluated[m][i]]}
<1>2. IsFiniteSet(2..Len(evaluated[m])) /\ S \subseteq 2..Len(evaluated[m])
  BY <1>1, IntervalFinite
<1>3. IsFiniteSet(S)
  BY <1>2, FS_Subset
<1>4. Cardinality(S) \in Nat
  BY <1>3, FS_CardinalityType
<1>5. QED  BY <1>4 DEF Streaks

(* A normal sample ends the streak that it finds. *)
LEMMA StreaksBegun ==
  ASSUME Types, NEW h \in Handler, Begun(h), NEW m \in Machine, m = handler[h].sample[1]
  PROVE  /\ Streaks(m)' = IF LastBreached(m) /\ ~Breaching(handler[h].sample)
                          THEN Streaks(m) + 1 ELSE Streaks(m)
         /\ \A k \in Machine : k # m => Streaks(k)' = Streaks(k)
<1>1. PICK e \in Seq(1..MaxSamples) : e = evaluated[m]
  BY DEF Types, PartsOK, Pipeline!TypeOK
<1>2. PICK b : b = breach[m]
  OBVIOUS
<1>3. PICK x \in 1..MaxSamples : x = handler[h].sample[2]
  BY SampleOf DEF Types, PartsOK, Begun
<1>4. evaluated'[m] = Append(e, x) /\ \A k \in Machine : k # m => evaluated'[k] = evaluated[k]
  BY <1>1, <1>3, BegunLast
<1>5. UNCHANGED breach
  BY DEF Begun
<1> DEFINE n == Len(e)
           S == {i \in 2..n : b[e[i - 1]] /\ ~b[e[i]]}
           T == {i \in 2..n + 1 : b[Append(e, x)[i - 1]] /\ ~b[Append(e, x)[i]]}
<1>6. n \in Nat /\ Len(Append(e, x)) = n + 1
  OBVIOUS
<1>7. Streaks(m) = Cardinality(S) /\ Streaks(m)' = Cardinality(T)
  BY <1>1, <1>2, <1>4, <1>5, <1>6 DEF Streaks
<1>8. IsFiniteSet(S) /\ n + 1 \notin S
  <2>1. IsFiniteSet(2..n)
    BY <1>6, IntervalFinite
  <2>2. n + 1 \notin 2..n
    BY <1>6
  <2>3. S \subseteq 2..n
    OBVIOUS
  <2>4. QED  BY <2>1, <2>2, <2>3, FS_Subset
<1>9. \A i \in 1..n : Append(e, x)[i] = e[i]
  BY <1>6
<1>10. Append(e, x)[n + 1] = x
  BY <1>6
<1>11. (LastBreached(m) /\ ~Breaching(handler[h].sample)) <=> (n >= 1 /\ b[e[n]] /\ ~b[x])
  <2>1. e # <<>> <=> n >= 1
    BY <1>6
  <2>2. QED  BY <1>1, <1>2, <1>3, <2>1 DEF LastBreached, Last, Breaching
<1>12. CASE n >= 1 /\ b[e[n]] /\ ~b[x]
  <2>1. T = S \cup {n + 1}
    <3>1. ASSUME NEW i \in 2..n PROVE i \in T <=> i \in S
      <4>1. i \in 1..n /\ i - 1 \in 1..n /\ i \in 2..n + 1
        BY <1>6
      <4>2. QED  BY <1>9, <4>1
    <3>2. n + 1 \in T
      <4>1. n + 1 \in 2..n + 1 /\ (n + 1) - 1 = n /\ n \in 1..n
        BY <1>6, <1>12
      <4>2. QED  BY <1>9, <1>10, <1>12, <4>1
    <3>3. 2..n + 1 = (2..n) \cup {n + 1}
      BY <1>6, <1>12
    <3>4. QED  BY <3>1, <3>2, <3>3
  <2>2. Cardinality(T) = Cardinality(S) + 1
    BY <1>8, <2>1, FS_AddElement
  <2>3. QED  BY <1>4, <1>5, <1>7, <1>11, <1>12, <2>2 DEF Streaks
<1>13. CASE ~(n >= 1 /\ b[e[n]] /\ ~b[x])
  <2>1. T = S
    <3>1. ASSUME NEW i \in 2..n PROVE i \in T <=> i \in S
      <4>1. i \in 1..n /\ i - 1 \in 1..n /\ i \in 2..n + 1
        BY <1>6
      <4>2. QED  BY <1>9, <4>1
    <3>2. n + 1 \notin T
      <4>1. n = 0 \/ (n >= 1 /\ (n + 1) - 1 = n /\ n \in 1..n)
        BY <1>6
      <4>2. CASE n = 0
        BY <4>2
      <4>3. CASE n >= 1 /\ (n + 1) - 1 = n /\ n \in 1..n
        BY <1>9, <1>10, <1>13, <4>3
      <4>4. QED  BY <4>1, <4>2, <4>3
    <3>3. \A i : i \in 2..n + 1 => i \in 2..n \/ i = n + 1
      BY <1>6
    <3>4. QED  BY <3>1, <3>2, <3>3
  <2>2. QED  BY <1>4, <1>5, <1>7, <1>11, <1>13, <2>1 DEF Streaks
<1>14. QED  BY <1>12, <1>13

(* While m is evaluated the RECOVERY of the last streak is still to be sent: it *)
(* is about to be, or the count that tells of the streak is still there.        *)
Recovering(m) == IF At(m, {"notifyRecovery"}) THEN 1 ELSE 0
Pending(m) == IF ~LastBreached(m) /\ Counted(m) > 0 THEN 1 ELSE 0
RecoveryAt(m) ==
  /\ Recoveries(m) + Recovering(m) + Pending(m) <= Streaks(m)
  /\ \A h \in Handler :
       Evaluates(h, m) /\ task[h].pc = "reset" => task[h].n <= Counted(m)
RecoveryInv == \A m \in Machine : RecoveryAt(m)

(* What the proofs about a step for m take from the invariants. *)
LEMMA StepFacts ==
  ASSUME Types, OneAtATime, StoreAnswers, SpanInv, EvaluatesLast,
         NEW h \in Handler, AlertStep(h), NEW m \in Machine, m = task[h].mach
  PROVE  /\ Proceeds(task[h], task'[h], m)
         /\ Evaluates(h, m) /\ Evaluates(h, m)'
         /\ task[h].n \in Nat /\ (task'[h] = Alert!Idle => task'[h].pc = "idle")
         /\ task[h].pc \in IF LastBreached(m) THEN Alerts ELSE Recovers
         /\ Counted(m) \in Nat /\ Live(m) \in Nat /\ Live(m) <= Counted(m)
         /\ P0s(m) \in Nat /\ Recoveries(m) \in Nat /\ Streaks(m) \in Nat
         /\ LastBreached(m)' <=> LastBreached(m)
         /\ Streaks(m)' = Streaks(m)
         /\ \A g \in Handler : Evaluates(g, m)' => g = h
         /\ UNCHANGED <<handler, evaluated, finished, breach, breaches, now, store,
                        serverCrashes, crashes>>
<1>1. /\ Alert!TypeOK /\ Alert!Step(h) /\ store[Server] \in {Kept, None}
      /\ UNCHANGED <<handler, evaluated, finished, breach, breaches, crashes>>
  BY DEF Types, PartsOK, AlertStep, pipelineVars, SpanInv
<1>2. UNCHANGED <<now, store, serverCrashes>>
  BY <1>1, AlertMoves
<1>3. Proceeds(task[h], task'[h], m)
  BY <1>1, StepProceeds
<1>4. /\ task[h] \in Alert!Task /\ task[h] # Alert!Idle /\ task[h].n \in Nat
      /\ Evaluates(h, m)
  BY <1>1, AlertMoves, IdleTask DEF Types, TasksServed, Evaluates, Alert!Task
<1>5. LastBreached(m) <=> Breaching(handler[h].sample)
  <2>1. evaluated[m] # <<>> /\ Last(m) = handler[h].sample[2]
    BY <1>4 DEF EvaluatesLast, LastAt
  <2>2. handler[h].sample[1] = m
    BY <1>4 DEF Evaluates
  <2>3. QED  BY <2>1, <2>2 DEF LastBreached, Breaching
<1>6. task[h].pc \in IF LastBreached(m) THEN Alerts ELSE Recovers
  BY <1>4, <1>5 DEF SpanInv, Branch
<1>7. /\ Counted(m) \in Nat /\ Live(m) \in Nat /\ Live(m) <= Counted(m)
      /\ P0s(m) \in Nat /\ Recoveries(m) \in Nat /\ Streaks(m) \in Nat
  BY <1>1, CountTypes, StreaksType
<1>8. (LastBreached(m)' <=> LastBreached(m)) /\ Streaks(m)' = Streaks(m)
  BY <1>1 DEF LastBreached, Last, Streaks
<1>9. Evaluates(h, m)' /\ \A g \in Handler : Evaluates(g, m)' => g = h
  BY <1>1, <1>4 DEF Evaluates, OneAtATime
<1>10. QED
  BY <1>1, <1>2, <1>3, <1>4, <1>6, <1>7, <1>8, <1>9, IdleTask

LEMMA RecoveryStep ==
  ASSUME Types, OneAtATime, StoreAnswers, SpanInv, EvaluatesLast, RecoveryInv,
         NEW h \in Handler, AlertStep(h)
  PROVE  RecoveryInv'
<1>1. PICK m \in Machine : m = task[h].mach
  BY AlertMoves DEF Types, PartsOK, AlertStep
<1>2. /\ Proceeds(task[h], task'[h], m) /\ Evaluates(h, m)
      /\ task[h].n \in Nat /\ (task'[h] = Alert!Idle => task'[h].pc = "idle")
      /\ task[h].pc \in IF LastBreached(m) THEN Alerts ELSE Recovers
      /\ Counted(m) \in Nat /\ Live(m) \in Nat /\ Live(m) <= Counted(m)
      /\ Recoveries(m) \in Nat /\ Streaks(m) \in Nat
      /\ LastBreached(m)' <=> LastBreached(m)
      /\ Streaks(m)' = Streaks(m)
      /\ \A g \in Handler : Evaluates(g, m)' => g = h
      /\ UNCHANGED <<handler, evaluated, breach>>
  BY <1>1, StepFacts
<1>3. /\ At(m, {"notifyRecovery"}) <=> task[h].pc = "notifyRecovery"
      /\ At(m, {"notifyRecovery"})' <=> task'[h].pc = "notifyRecovery"
      /\ \A k \in Machine : k # m => (At(k, {"notifyRecovery"})' <=> At(k, {"notifyRecovery"}))
  BY <1>1, AtStep, ZenonT(60)
<1>4. RecoveryAt(m)
  BY DEF RecoveryInv
<1>5. task[h].pc = "reset" => task[h].n <= Counted(m)
  BY <1>2, <1>4 DEF RecoveryAt
<1>6. /\ Recovering(m) = IF task[h].pc = "notifyRecovery" THEN 1 ELSE 0
      /\ Recovering(m)' = IF task'[h].pc = "notifyRecovery" THEN 1 ELSE 0
  BY <1>3 DEF Recovering
<1>7. Recoveries(m)' + Recovering(m)' + Pending(m)' <= Streaks(m)'
  <2>1. Recoveries(m) + Recovering(m) + Pending(m) <= Streaks(m)
    BY <1>4 DEF RecoveryAt
  <2>2. Pending(m)' = IF ~LastBreached(m) /\ Counted(m)' > 0 THEN 1 ELSE 0
    BY <1>2 DEF Pending
  <2>3. CASE Counts(task[h], task'[h], m) /\ UNCHANGED <<P0s(m), Recoveries(m), Cool(m)>>
    <3>1. Recovering(m) = 0 /\ Recoveries(m)' = Recoveries(m)
      BY <1>6, <2>3 DEF Counts
    <3>2. Recovering(m)' + Pending(m)' <= Pending(m)
      <4>1. CASE task[h].pc \in {"increment", "expire"}
        BY <1>2, <1>6, <2>2, <2>3, <4>1 DEF Counts, Pending, Recovers
      <4>2. CASE task[h].pc = "get"
        BY <1>2, <1>6, <2>2, <2>3, <4>2 DEF Counts, Pending
      <4>3. CASE task[h].pc = "reset"
        <5>1. ~LastBreached(m) /\ Counted(m)' = 0
          BY <1>2, <2>3, <4>3 DEF Counts, Alerts
        <5>2. Pending(m)' = 0
          BY <2>2, <5>1
        <5>3. task'[h].pc = "notifyRecovery" => Counted(m) > 0
          BY <1>2, <1>5, <2>3, <4>3 DEF Counts
        <5>4. QED  BY <1>6, <5>1, <5>2, <5>3 DEF Pending
      <4>4. QED  BY <2>3, <4>1, <4>2, <4>3 DEF Counts
    <3>3. Recovering(m)' \in Nat /\ Pending(m)' \in Nat /\ Pending(m) \in Nat
      BY <1>6, <2>2 DEF Pending
    <3>4. QED  BY <1>2, <2>1, <3>1, <3>2, <3>3
  <2>4. CASE Notifies(task[h], task'[h], m) /\ Counted(m)' = Counted(m)
    BY <1>2, <1>6, <2>1, <2>2, <2>4 DEF Notifies, Pending, Alerts, Recovers
  <2>5. QED  BY <1>2, <2>3, <2>4 DEF Proceeds
<1>8. task'[h].pc = "reset" => task'[h].n <= Counted(m)'
  BY <1>2 DEF Proceeds, Counts, Notifies
<1>9. RecoveryAt(m)'
  BY <1>2, <1>7, <1>8 DEF RecoveryAt
<1>10. ASSUME NEW k \in Machine, k # m
       PROVE  RecoveryAt(k)'
  <2>1. UNCHANGED <<Counted(k), Recoveries(k)>>
    BY <1>1, <1>10, StepElsewhere DEF Types, PartsOK, AlertStep, SpanInv
  <2>2. /\ Recovering(k)' = Recovering(k) /\ Pending(k)' = Pending(k)
        /\ Streaks(k)' = Streaks(k)
    BY <1>2, <1>3, <1>10, <2>1 DEF Recovering, Pending, LastBreached, Last, Streaks
  <2>3. \A g \in Handler : Evaluates(g, k)' => Evaluates(g, k) /\ task'[g] = task[g]
    BY <1>1, <1>2, <1>10, AlertMoves DEF Evaluates, Types, PartsOK, AlertStep
  <2>4. QED  BY <2>1, <2>2, <2>3 DEF RecoveryAt, RecoveryInv
<1>11. QED  BY <1>9, <1>10 DEF RecoveryInv

(* What the proofs about the beginning of an evaluation for m take. *)
LEMMA BegunFacts ==
  ASSUME Types, OneAtATime', StoreAnswers, NEW h \in Handler, Begun(h),
         NEW m \in Machine, m = handler[h].sample[1]
  PROVE  /\ \A k \in Machine : UNCHANGED <<Counted(k), Until(k), Cool(k), P0s(k), Recoveries(k)>>
         /\ \A k \in Machine : k # m =>
              /\ (LastBreached(k)' <=> LastBreached(k)) /\ Streaks(k)' = Streaks(k)
              /\ evaluated'[k] = evaluated[k]
         /\ \A g \in Handler, k \in Machine : g # h /\ Evaluates(g, k)' =>
              /\ k # m /\ Evaluates(g, k) /\ task'[g] = task[g] /\ handler'[g] = handler[g]
         /\ task'[h].pc = IF LastBreached(m)' THEN "increment" ELSE "get"
         /\ LastBreached(m)' <=> Breaching(handler[h].sample)
         /\ Streaks(m)' = IF LastBreached(m) /\ ~LastBreached(m)' THEN Streaks(m) + 1 ELSE Streaks(m)
         /\ Counted(m) \in Nat /\ Recoveries(m) \in Nat /\ Streaks(m) \in Nat /\ P0s(m) \in Nat
         /\ Evaluates(h, m)' /\ \A k \in Machine : k # m => ~Evaluates(h, k)'
         /\ UNCHANGED <<breach, store, serverCrashes, crashes>>
<1>1. /\ task'[h].pc = IF Breaching(handler[h].sample) THEN "increment" ELSE "get"
      /\ \A g \in Handler : g # h => task'[g] = task[g]
      /\ UNCHANGED <<breach, count, countUntil, coolUntil, notified, store, serverCrashes>>
  BY BegunTask
<1>2. /\ handler'[h].pc = "evaluate" /\ handler'[h].sample = handler[h].sample
      /\ Elsewhere(h) /\ UNCHANGED crashes
  BY DEF Begun
<1>3. /\ LastBreached(m)' <=> Breaching(handler[h].sample)
      /\ \A k \in Machine : k # m => evaluated'[k] = evaluated[k]
  BY BegunLast
<1>4. \A k \in Machine : UNCHANGED <<Counted(k), Until(k), Cool(k), P0s(k), Recoveries(k)>>
  BY <1>1 DEF Counted, Until, Cool, P0s, Recoveries, Kept, Alert!Attempted
<1>5. \A k \in Machine : k # m => (LastBreached(k)' <=> LastBreached(k))
  BY <1>1, <1>3 DEF LastBreached, Last
<1>6. /\ Streaks(m)' = IF LastBreached(m) /\ ~LastBreached(m)' THEN Streaks(m) + 1 ELSE Streaks(m)
      /\ \A k \in Machine : k # m => Streaks(k)' = Streaks(k)
  BY <1>3, StreaksBegun
<1>7. ASSUME NEW g \in Handler, NEW k \in Machine, g # h, Evaluates(g, k)'
      PROVE  k # m /\ Evaluates(g, k) /\ task'[g] = task[g] /\ handler'[g] = handler[g]
  BY <1>1, <1>2, <1>7 DEF Evaluates, Elsewhere, OneAtATime
<1>8. /\ Counted(m) \in Nat /\ Recoveries(m) \in Nat /\ Streaks(m) \in Nat /\ P0s(m) \in Nat
  BY CountTypes, StreaksType DEF Types, PartsOK
<1>9. Evaluates(h, m)' /\ \A k \in Machine : k # m => ~Evaluates(h, k)'
  BY <1>2 DEF Evaluates
<1>10. QED  BY <1>1, <1>2, <1>3, <1>4, <1>5, <1>6, <1>7, <1>8, <1>9

LEMMA RecoveryBegun ==
  ASSUME Types, OneAtATime', StoreAnswers, RecoveryInv, NEW h \in Handler, Begun(h)
  PROVE  RecoveryInv'
<1>1. PICK m \in Machine : m = handler[h].sample[1]
  BY BegunTask
<1>2. /\ ~At(m, {"notifyRecovery"})
      /\ At(m, {"notifyRecovery"})' <=> task'[h].pc \in {"notifyRecovery"}
      /\ \A k \in Machine : k # m => (At(k, {"notifyRecovery"})' <=> At(k, {"notifyRecovery"}))
  BY <1>1, AtBegun
<1>3. /\ \A k \in Machine : UNCHANGED <<Counted(k), Recoveries(k)>>
      /\ \A k \in Machine : k # m =>
           (LastBreached(k)' <=> LastBreached(k)) /\ Streaks(k)' = Streaks(k)
      /\ \A g \in Handler, k \in Machine : g # h /\ Evaluates(g, k)' =>
           k # m /\ Evaluates(g, k) /\ task'[g] = task[g]
      /\ task'[h].pc = IF LastBreached(m)' THEN "increment" ELSE "get"
      /\ Streaks(m)' = IF LastBreached(m) /\ ~LastBreached(m)' THEN Streaks(m) + 1 ELSE Streaks(m)
      /\ Counted(m) \in Nat /\ Recoveries(m) \in Nat /\ Streaks(m) \in Nat
      /\ \A k \in Machine : k # m => ~Evaluates(h, k)'
  BY <1>1, BegunFacts
<1>4. Recoveries(m)' + Recovering(m)' + Pending(m)' <= Streaks(m)'
  <2>1. Recoveries(m) + Recovering(m) + Pending(m) <= Streaks(m)
    BY DEF RecoveryInv, RecoveryAt
  <2>2. Recovering(m) = 0 /\ Recovering(m)' = 0
    BY <1>2, <1>3 DEF Recovering
  <2>3. Pending(m)' = IF ~LastBreached(m)' /\ Counted(m) > 0 THEN 1 ELSE 0
    BY <1>3 DEF Pending
  <2>4. QED  BY <1>3, <2>1, <2>2, <2>3 DEF Pending
<1>5. RecoveryAt(m)'
  BY <1>3, <1>4 DEF RecoveryAt
<1>6. ASSUME NEW k \in Machine, k # m
      PROVE  RecoveryAt(k)'
  <2>1. Recovering(k)' = Recovering(k) /\ Pending(k)' = Pending(k)
    BY <1>2, <1>3, <1>6 DEF Recovering, Pending
  <2>2. QED  BY <1>3, <1>6, <2>1 DEF RecoveryAt, RecoveryInv
<1>7. QED  BY <1>5, <1>6 DEF RecoveryInv

(* Steps that neither begin an evaluation nor take it further. *)
Rests == Calm \/ (\E h \in Handler : Over(h)) \/ StartServer \/ Tick

LEMMA RestFacts ==
  ASSUME Types, Rests
  PROVE  /\ \A m \in Machine :
              /\ UNCHANGED <<Counted(m), Until(m), Cool(m), P0s(m), Recoveries(m)>>
              /\ (LastBreached(m)' <=> LastBreached(m)) /\ Streaks(m)' = Streaks(m)
              /\ \A S : At(m, S)' <=> At(m, S)
         /\ \A g \in Handler, m \in Machine : Evaluates(g, m)' => Evaluates(g, m)
         /\ UNCHANGED <<task, evaluated, breach, serverCrashes, crashes>>
<1>1. UNCHANGED <<task, evaluated, breach, count, countUntil, coolUntil, notified,
                  serverCrashes, crashes>>
  BY DEF Rests, Calm, Over, StartServer, Tick, Alert!StartServer, Alert!Tick, alertVars,
         pipelineVars, Alert!keys, Alert!audit
<1>2. ASSUME NEW g \in Handler, NEW m \in Machine, Evaluates(g, m)'
      PROVE  Evaluates(g, m)
  <2>1. CASE Calm
    BY <1>2, <2>1 DEF Calm, SameEvaluations, Evaluates
  <2>2. ASSUME NEW h \in Handler, Over(h)
        PROVE  Evaluates(g, m)
    BY <1>2, <2>2 DEF Over, Elsewhere, Evaluates
  <2>3. CASE StartServer \/ Tick
    BY <1>2, <2>3 DEF StartServer, Tick, pipelineVars, Evaluates
  <2>4. QED  BY <2>1, <2>2, <2>3 DEF Rests
<1>3. \A m \in Machine :
        /\ UNCHANGED <<Counted(m), Until(m), Cool(m), P0s(m), Recoveries(m)>>
        /\ (LastBreached(m)' <=> LastBreached(m)) /\ Streaks(m)' = Streaks(m)
        /\ \A S : At(m, S)' <=> At(m, S)
  BY <1>1
  DEF Counted, Until, Cool, P0s, Recoveries, Kept, Alert!Attempted, LastBreached,
              Last, Streaks, At
<1>4. QED  BY <1>1, <1>2, <1>3

LEMMA Kinds ==
  ASSUME Types, [Next]_vars
  PROVE  \/ \E h \in Handler : Begun(h)
         \/ \E h \in Handler : AlertStep(h)
         \/ Rests
         \/ Dies
BY StepEffects DEF Types, PartsOK, Rests

LEMMA RecoveryInvariance ==
  OneWorker /\ StoreAnswers => (Spec => []RecoveryInv)
<1> SUFFICES ASSUME OneWorker, StoreAnswers PROVE Spec => []RecoveryInv
  OBVIOUS
<1>1. Init /\ Types => RecoveryInv
  <2> SUFFICES ASSUME Init, Types, NEW m \in Machine PROVE RecoveryAt(m)
    BY DEF RecoveryInv
  <2>1. /\ notified[m] = [lv \in {"P0", "RECOVERY"} |-> [o \in {"sent", "failed"} |-> 0]]
        /\ count[Kept][m] = 0
        /\ \A h \in Handler : task[h] = Alert!Idle /\ handler[h].pc = "idle"
    BY NoRequestFields DEF Init, Alert!Init, Pipeline!Init, Alert!Zero, Alert!NoneYet,
       Alert!Level, Alert!Outcome, Kept, Alert!Store
  <2>2. Recoveries(m) = 0 /\ Recovering(m) = 0 /\ Pending(m) = 0
    BY <2>1, IdleTask DEF Recoveries, Recovering, Pending, Counted, At, Alert!Attempted
  <2>3. QED  BY <2>1, <2>2, StreaksType DEF RecoveryAt, Evaluates
<1>2. ASSUME RecoveryInv, Rests, Types
      PROVE  RecoveryInv'
  <2> SUFFICES ASSUME NEW m \in Machine PROVE RecoveryAt(m)'
    BY DEF RecoveryInv
  <2>1. /\ UNCHANGED <<Counted(m), Recoveries(m), task>>
        /\ (LastBreached(m)' <=> LastBreached(m)) /\ Streaks(m)' = Streaks(m)
        /\ At(m, {"notifyRecovery"})' <=> At(m, {"notifyRecovery"})
        /\ \A g \in Handler : Evaluates(g, m)' => Evaluates(g, m)
    BY <1>2, RestFacts
  <2>2. Recovering(m)' = Recovering(m) /\ Pending(m)' = Pending(m)
    BY <2>1 DEF Recovering, Pending
  <2>3. QED  BY <1>2, <2>1, <2>2 DEF RecoveryInv, RecoveryAt
<1>3. ASSUME RecoveryInv, Dies, Types
      PROVE  RecoveryInv'
  <2> SUFFICES ASSUME NEW m \in Machine PROVE RecoveryAt(m)'
    BY DEF RecoveryInv
  <2>1. /\ \A h \in Handler : task'[h] = Alert!Idle /\ handler'[h].pc = "idle"
        /\ Counted(m)' = Counted(m) \/ Counted(m)' = 0
        /\ UNCHANGED <<Recoveries(m), breach, evaluated>>
    BY <1>3, DiesEffect
  <2>2. /\ (LastBreached(m)' <=> LastBreached(m)) /\ Streaks(m)' = Streaks(m)
        /\ ~At(m, {"notifyRecovery"})'
    BY <2>1, IdleTask DEF LastBreached, Last, Streaks, At
  <2>3. Recovering(m)' = 0 /\ Pending(m)' <= Pending(m)
    BY <2>1, <2>2 DEF Recovering, Pending
  <2>4. /\ Recovering(m) \in Nat /\ Pending(m) \in Nat /\ Pending(m)' \in Nat
        /\ Recoveries(m) \in Nat /\ Streaks(m) \in Nat
    BY <1>3, CountTypes, StreaksType DEF Recovering, Pending, Types, PartsOK
  <2>5. Recoveries(m) + Recovering(m) + Pending(m) <= Streaks(m)
    BY <1>3 DEF RecoveryInv, RecoveryAt
  <2>6. Recoveries(m)' + Recovering(m)' + Pending(m)' <= Streaks(m)'
    BY <2>1, <2>2, <2>3, <2>4, <2>5
  <2>7. QED  BY <2>1, <2>6 DEF RecoveryAt, Evaluates
<1>4. RecoveryInv /\ Types /\ OneAtATime /\ OneAtATime' /\ SpanInv /\ EvaluatesLast
        /\ [Next]_vars => RecoveryInv'
  BY <1>2, <1>3, Kinds, RecoveryStep, RecoveryBegun
<1>5. Spec => [](Types /\ OneAtATime /\ SpanInv /\ EvaluatesLast)
  BY TypesInvariance, OneAtATimeInvariance, SpanInvariance, LastInvariance, PTL
<1>6. QED  BY <1>1, <1>4, <1>5, PTL DEF Spec

(* No count runs out during the run: the TTL of Redis is an hour, the memory    *)
(* knows none.                                                                  *)
CountsOutlive == AlertStoreType = "redis" => MaxTime < CountTTL

Lasting ==
  /\ \A h \in Handler : task[h].pc = "expire" => Kept = Redis
  /\ \A m \in Machine : Until(m) > MaxTime

LEMMA LastingStep ==
  ASSUME Types, StoreAnswers, CountsOutlive, SpanInv, Lasting, NEW h \in Handler, AlertStep(h)
  PROVE  Lasting'
<1>1. Alert!TypeOK /\ Alert!Step(h) /\ store[Server] \in {Kept, None}
  BY DEF Types, PartsOK, AlertStep, SpanInv
<1>2. PICK m \in Machine : m = task[h].mach
  BY <1>1, AlertMoves
<1>3. Proceeds(task[h], task'[h], m)
  BY <1>1, <1>2, StepProceeds
<1>4. task'[h].pc = "expire" => Kept = Redis
  BY <1>3, IdleTask DEF Proceeds, Counts, Notifies
<1>5. /\ Alert!StoreOf(h) = Kept /\ Kept \in Alert!Store
      /\ countUntil \in [Alert!Store -> [Machine -> Nat]] /\ now \in Nat
  BY <1>1, StepStore DEF Alert!TypeOK, Alert!KeysOK, Alert!EnvironmentOK
<1>6. Until(m) > MaxTime /\ Alert!Forever > MaxTime
  BY CompositionAssumption DEF Lasting, Alert!Forever
<1>7. countUntil'[Kept][m] > MaxTime
  <2>1. CASE Alert!IncrementCPUBreach(h) \/ Alert!ResetCPUBreach(h)
    <3>1. \/ UNCHANGED countUntil
          \/ countUntil' = [countUntil EXCEPT ![Kept][m] = Alert!Forever]
      BY <1>2, <1>5, <2>1 DEF Alert!IncrementCPUBreach, Alert!ResetCPUBreach,
                              Alert!Incremented, Alert!Cleared
    <3>2. QED  BY <1>5, <1>6, <3>1 DEF Until
  <2>2. CASE Alert!ExpireCount(h)
    <3>1. \/ UNCHANGED countUntil
          \/ countUntil' = [countUntil EXCEPT ![Kept][m] = now + CountTTL]
      BY <1>2, <1>5, <2>2 DEF Alert!ExpireCount
    <3>2. MaxTime < CountTTL
      BY <2>2, CompositionAssumption DEF Alert!ExpireCount, Lasting, Kept, CountsOutlive
    <3>3. now + CountTTL > MaxTime
      BY <1>5, <3>2, CompositionAssumption
    <3>4. QED  BY <1>5, <1>6, <3>1, <3>3 DEF Until
  <2>3. CASE \/ Alert!TryAcquireCooldown(h) \/ Alert!SuppressAlert(h)
             \/ Alert!NotifyCPUAlert(h) \/ Alert!GetCPUBreachCount(h)
             \/ Alert!NotifyCPURecovery(h) \/ Alert!CountNotification(h)
             \/ \E level \in Alert!Level : Alert!SaveAlertEvent(h, level)
    <3>1. UNCHANGED countUntil
      BY <2>3 DEF Alert!CountNotification, Alert!TryAcquireCooldown, Alert!SuppressAlert, Alert!NotifyCPUAlert,
                  Alert!GetCPUBreachCount, Alert!NotifyCPURecovery, Alert!SaveAlertEvent,
                  Alert!keys
    <3>2. QED  BY <1>6, <3>1 DEF Until
  <2>4. QED  BY <1>1, <2>1, <2>2, <2>3 DEF Alert!Step
<1>8. \A k \in Machine : Until(k)' > MaxTime
  BY <1>1, <1>2, <1>7, StepElsewhere DEF Lasting, Until, Kept
<1>9. \A g \in Handler : task'[g].pc = "expire" => Kept = Redis
  BY <1>1, <1>4, AlertMoves DEF Lasting
<1>10. QED  BY <1>8, <1>9 DEF Lasting, Kept

LEMMA LastingInvariance ==
  OneWorker /\ StoreAnswers /\ CountsOutlive => (Spec => []Lasting)
<1> SUFFICES ASSUME OneWorker, StoreAnswers, CountsOutlive PROVE Spec => []Lasting
  OBVIOUS
<1>1. Init => Lasting
  <2> SUFFICES ASSUME Init PROVE Lasting
    OBVIOUS
  <2>1. /\ \A h \in Handler : task[h].pc = "idle"
        /\ countUntil = [s \in Alert!Store |-> [m \in Machine |-> Alert!Forever]]
    BY IdleTask DEF Init, Alert!Init
  <2>2. Kept \in Alert!Store /\ Alert!Forever > MaxTime
    BY CompositionAssumption DEF Kept, Alert!Store, Alert!Forever
  <2>3. QED  BY <2>1, <2>2 DEF Lasting, Until
<1>2. ASSUME Lasting, Types, NEW h \in Handler, Begun(h)
      PROVE  Lasting'
  BY <1>2, BegunTask DEF Lasting, Until, Kept
<1>3. ASSUME Lasting, Types, Rests
      PROVE  Lasting'
  BY <1>3, RestFacts DEF Lasting, Kept
<1>4. ASSUME Lasting, Types, Dies
      PROVE  Lasting'
  <2>1. \A h \in Handler : task'[h].pc = "idle"
    BY <1>4, DiesEffect, IdleTask
  <2>2. /\ countUntil' = [countUntil EXCEPT ![Server] = [m \in Machine |-> Alert!Forever]]
        /\ countUntil \in [Alert!Store -> [Machine -> Nat]]
    BY <1>4 DEF Dies, Alert!Crash, Types, PartsOK, Alert!TypeOK, Alert!KeysOK
  <2>3. Kept \in Alert!Store /\ Alert!Forever > MaxTime
    BY CompositionAssumption DEF Kept, Alert!Store, Alert!Forever
  <2>4. \A m \in Machine : countUntil'[Kept][m] > MaxTime
    BY <1>4, <2>2, <2>3 DEF Lasting, Until
  <2>5. QED  BY <2>1, <2>4 DEF Lasting, Until, Kept
<1>5. Lasting /\ Types /\ SpanInv /\ [Next]_vars => Lasting'
  BY <1>2, <1>3, <1>4, Kinds, LastingStep
<1>6. Spec => [](Types /\ SpanInv)
  BY TypesInvariance, SpanInvariance, PTL
<1>7. QED  BY <1>1, <1>5, <1>6, PTL DEF Spec

LEMMA LastingCounts ==
  ASSUME Types, StoreAnswers, Lasting, NEW m \in Machine
  PROVE  Live(m) = Counted(m)
<1>1. now \in 0..MaxTime /\ Until(m) > MaxTime /\ countUntil[Kept][m] \in Nat
  BY KeptStore
  DEF Lasting, Types, PartsOK, Alert!TypeOK, Alert!EnvironmentOK, Alert!KeysOK
<1>2. now < countUntil[Kept][m]
  BY <1>1, CompositionAssumption DEF Until
<1>3. QED  BY <1>2 DEF Live, Counted, Alert!Count

(* In a server that has not died the count tells of a streak as long as its     *)
(* RECOVERY is to be sent, and no longer.                                       *)
ExactAt(m) ==
  /\ Recoveries(m) + Recovering(m) + Pending(m) = Streaks(m)
  /\ LastBreached(m) => Counted(m) > 0 \/ At(m, {"increment"})
  /\ ~LastBreached(m) /\ Counted(m) > 0 => At(m, {"get", "reset"})
  /\ \A h \in Handler :
       Evaluates(h, m) /\ task[h].pc = "reset" => task[h].n = Counted(m)
ExactInv == serverCrashes = 0 => \A m \in Machine : ExactAt(m)

LEMMA ExactStep ==
  ASSUME Types, OneAtATime, StoreAnswers, SpanInv, EvaluatesLast, Lasting, ExactInv,
         NEW h \in Handler, AlertStep(h)
  PROVE  ExactInv'
<1>1. PICK m \in Machine : m = task[h].mach
  BY AlertMoves DEF Types, PartsOK, AlertStep
<1>2. /\ Proceeds(task[h], task'[h], m) /\ Evaluates(h, m)
      /\ task[h].n \in Nat /\ (task'[h] = Alert!Idle => task'[h].pc = "idle")
      /\ task[h].pc \in IF LastBreached(m) THEN Alerts ELSE Recovers
      /\ Counted(m) \in Nat /\ Recoveries(m) \in Nat /\ Streaks(m) \in Nat
      /\ LastBreached(m)' <=> LastBreached(m)
      /\ Streaks(m)' = Streaks(m)
      /\ \A g \in Handler : Evaluates(g, m)' => g = h
      /\ UNCHANGED <<handler, evaluated, breach, serverCrashes>>
  BY <1>1, StepFacts
<1>3. Live(m) = Counted(m)
  BY LastingCounts
<1>4. ASSUME NEW S, "idle" \notin S
      PROVE  /\ At(m, S) <=> task[h].pc \in S
             /\ At(m, S)' <=> task'[h].pc \in S
             /\ \A k \in Machine : k # m => (At(k, S)' <=> At(k, S))
  BY <1>1, <1>4, AtStep
<1> SUFFICES ASSUME serverCrashes = 0, NEW j \in Machine
             PROVE  ExactAt(j)'
  BY <1>2 DEF ExactInv
<1>5. ExactAt(m) /\ ExactAt(j)
  BY DEF ExactInv
<1>6. CASE j # m
  <2>1. UNCHANGED <<Counted(j), Recoveries(j)>>
    BY <1>1, <1>6, StepElsewhere DEF Types, PartsOK, AlertStep, SpanInv
  <2>2. \A S : "idle" \notin S => (At(j, S)' <=> At(j, S))
    BY <1>4, <1>6
  <2>3. (LastBreached(j)' <=> LastBreached(j)) /\ Streaks(j)' = Streaks(j)
    BY <1>2 DEF LastBreached, Last, Streaks
  <2>4. Recovering(j)' = Recovering(j) /\ Pending(j)' = Pending(j)
    BY <2>1, <2>2, <2>3 DEF Recovering, Pending
  <2>5. \A g \in Handler : Evaluates(g, j)' => Evaluates(g, j) /\ task'[g] = task[g]
    BY <1>1, <1>2, <1>6, AlertMoves DEF Evaluates, Types, PartsOK, AlertStep
  <2>6. QED  BY <1>5, <2>1, <2>2, <2>3, <2>4, <2>5 DEF ExactAt
<1>7. CASE j = m
  <2>1. /\ At(m, {"notifyRecovery"}) <=> task[h].pc = "notifyRecovery"
        /\ At(m, {"notifyRecovery"})' <=> task'[h].pc = "notifyRecovery"
        /\ At(m, {"increment"}) <=> task[h].pc = "increment"
        /\ At(m, {"increment"})' <=> task'[h].pc = "increment"
        /\ At(m, {"get", "reset"}) <=> task[h].pc \in {"get", "reset"}
        /\ At(m, {"get", "reset"})' <=> task'[h].pc \in {"get", "reset"}
    BY <1>4
  <2>2. /\ Recovering(m) = IF task[h].pc = "notifyRecovery" THEN 1 ELSE 0
        /\ Recovering(m)' = IF task'[h].pc = "notifyRecovery" THEN 1 ELSE 0
    BY <2>1 DEF Recovering
  <2>3. /\ Pending(m) = IF ~LastBreached(m) /\ Counted(m) > 0 THEN 1 ELSE 0
        /\ Pending(m)' = IF ~LastBreached(m) /\ Counted(m)' > 0 THEN 1 ELSE 0
    BY <1>2 DEF Pending
  <2>4. task[h].pc = "reset" => task[h].n = Counted(m)
    BY <1>2, <1>5 DEF ExactAt
  <2>5. Recoveries(m)' + Recovering(m)' + Pending(m)' = Streaks(m)'
    <3>1. Recoveries(m) + Recovering(m) + Pending(m) = Streaks(m)
      BY <1>5 DEF ExactAt
    <3>2. CASE Counts(task[h], task'[h], m) /\ UNCHANGED <<P0s(m), Recoveries(m), Cool(m)>>
      <4>1. Recovering(m) = 0 /\ Recoveries(m)' = Recoveries(m)
        BY <2>2, <3>2 DEF Counts
      <4>2. Recovering(m)' + Pending(m)' = Pending(m)
        <5>1. CASE task[h].pc \in {"increment", "expire"}
          BY <1>2, <2>2, <2>3, <3>2, <5>1 DEF Counts, Recovers
        <5>2. CASE task[h].pc = "get"
          BY <1>2, <2>2, <2>3, <3>2, <5>2 DEF Counts
        <5>3. CASE task[h].pc = "reset"
          <6>1. ~LastBreached(m) /\ Counted(m)' = 0
            BY <1>2, <3>2, <5>3 DEF Counts, Alerts
          <6>2. task'[h].pc = "notifyRecovery" <=> Counted(m) > 0
            BY <1>2, <2>4, <3>2, <5>3 DEF Counts
          <6>3. QED  BY <2>2, <2>3, <6>1, <6>2
        <5>4. QED  BY <3>2, <5>1, <5>2, <5>3 DEF Counts
      <4>3. Recovering(m)' \in Nat /\ Pending(m)' \in Nat /\ Pending(m) \in Nat
        BY <2>2, <2>3
      <4>4. QED  BY <1>2, <3>1, <4>1, <4>2, <4>3
    <3>3. CASE Notifies(task[h], task'[h], m) /\ Counted(m)' = Counted(m)
      BY <1>2, <2>2, <2>3, <3>1, <3>3 DEF Notifies
    <3>4. QED  BY <1>2, <3>2, <3>3 DEF Proceeds
  <2>6. LastBreached(m)' => Counted(m)' > 0 \/ At(m, {"increment"})'
    <3>1. LastBreached(m) => Counted(m) > 0 \/ task[h].pc = "increment"
      BY <1>5, <2>1 DEF ExactAt
    <3>2. task[h].pc = "increment" => Counted(m)' > 0
      BY <1>2, <1>3 DEF Proceeds, Counts, Notifies
    <3>3. LastBreached(m) /\ task[h].pc # "increment" => Counted(m)' = Counted(m)
      BY <1>2 DEF Proceeds, Counts, Alerts
    <3>4. QED  BY <1>2, <3>1, <3>2, <3>3
  <2>7. ~LastBreached(m)' /\ Counted(m)' > 0 => At(m, {"get", "reset"})'
    <3>1. ~LastBreached(m) /\ Counted(m) > 0 => task[h].pc \in {"get", "reset"}
      BY <1>5, <2>1 DEF ExactAt
    <3>2. task[h].pc = "get" => task'[h].pc = "reset"
      BY <1>2 DEF Proceeds, Counts, Notifies
    <3>3. task[h].pc = "reset" => Counted(m)' = 0
      BY <1>2 DEF Proceeds, Counts, Notifies
    <3>4. ~LastBreached(m) /\ task[h].pc # "reset" => Counted(m)' = Counted(m)
      BY <1>2 DEF Proceeds, Counts, Recovers
    <3>5. QED  BY <1>2, <2>1, <3>1, <3>2, <3>3, <3>4
  <2>8. task'[h].pc = "reset" => task'[h].n = Counted(m)'
    BY <1>2, <1>3 DEF Proceeds, Counts, Notifies
  <2>9. \A g \in Handler :
          Evaluates(g, m)' /\ task'[g].pc = "reset" => task'[g].n = Counted(m)'
    BY <1>2, <2>8
  <2>10. ExactAt(m)'
    BY <2>5, <2>6, <2>7, <2>9 DEF ExactAt
  <2>11. QED  BY <1>7, <2>10
<1>8. QED  BY <1>6, <1>7

LEMMA ExactBegun ==
  ASSUME Types, OneAtATime', StoreAnswers, ExactInv, NEW h \in Handler, Begun(h)
  PROVE  ExactInv'
<1>1. PICK m \in Machine : m = handler[h].sample[1]
  BY BegunTask
<1>2. ASSUME NEW S, "idle" \notin S
      PROVE  /\ ~At(m, S)
             /\ At(m, S)' <=> task'[h].pc \in S
             /\ \A k \in Machine : k # m => (At(k, S)' <=> At(k, S))
  BY <1>1, <1>2, AtBegun
<1>3. /\ \A k \in Machine : UNCHANGED <<Counted(k), Recoveries(k)>>
      /\ \A k \in Machine : k # m =>
           (LastBreached(k)' <=> LastBreached(k)) /\ Streaks(k)' = Streaks(k)
      /\ \A g \in Handler, k \in Machine : g # h /\ Evaluates(g, k)' =>
           k # m /\ Evaluates(g, k) /\ task'[g] = task[g]
      /\ task'[h].pc = IF LastBreached(m)' THEN "increment" ELSE "get"
      /\ Streaks(m)' = IF LastBreached(m) /\ ~LastBreached(m)' THEN Streaks(m) + 1 ELSE Streaks(m)
      /\ Counted(m) \in Nat /\ Recoveries(m) \in Nat /\ Streaks(m) \in Nat
      /\ \A k \in Machine : k # m => ~Evaluates(h, k)'
      /\ UNCHANGED serverCrashes
  BY <1>1, BegunFacts
<1> SUFFICES ASSUME serverCrashes = 0, NEW j \in Machine
             PROVE  ExactAt(j)'
  BY <1>3 DEF ExactInv
<1>4. ExactAt(m) /\ ExactAt(j)
  BY DEF ExactInv
<1>5. CASE j # m
  <2>1. \A S : "idle" \notin S => (At(j, S)' <=> At(j, S))
    BY <1>2, <1>5
  <2>2. Recovering(j)' = Recovering(j) /\ Pending(j)' = Pending(j)
    BY <1>3, <1>5, <2>1 DEF Recovering, Pending
  <2>3. QED  BY <1>3, <1>4, <1>5, <2>1, <2>2 DEF ExactAt
<1>6. CASE j = m
  <2>1. /\ ~At(m, {"notifyRecovery"}) /\ ~At(m, {"notifyRecovery"})'
        /\ ~At(m, {"increment"}) /\ ~At(m, {"get", "reset"})
        /\ At(m, {"increment"})' <=> LastBreached(m)'
        /\ At(m, {"get", "reset"})' <=> ~LastBreached(m)'
    BY <1>2, <1>3
  <2>2. Recovering(m) = 0 /\ Recovering(m)' = 0
    BY <2>1 DEF Recovering
  <2>3. LastBreached(m) <=> Counted(m) > 0
    BY <1>4, <2>1 DEF ExactAt
  <2>4. Pending(m) = 0 /\ Pending(m)' = IF LastBreached(m) /\ ~LastBreached(m)' THEN 1 ELSE 0
    BY <1>3, <2>3 DEF Pending
  <2>5. Recoveries(m)' + Recovering(m)' + Pending(m)' = Streaks(m)'
    <3>1. Recoveries(m) + Recovering(m) + Pending(m) = Streaks(m)
      BY <1>4 DEF ExactAt
    <3>2. QED  BY <1>3, <2>2, <2>4, <3>1
  <2>6. \A g \in Handler : Evaluates(g, m)' => task'[g].pc # "reset"
    BY <1>3
  <2>7. ExactAt(m)'
    BY <2>1, <2>5, <2>6 DEF ExactAt
  <2>8. QED  BY <1>6, <2>7
<1>7. QED  BY <1>5, <1>6

LEMMA ExactInvariance ==
  OneWorker /\ StoreAnswers /\ CountsOutlive => (Spec => []ExactInv)
<1> SUFFICES ASSUME OneWorker, StoreAnswers, CountsOutlive PROVE Spec => []ExactInv
  OBVIOUS
<1>1. Init => ExactInv
  <2> SUFFICES ASSUME Init, NEW m \in Machine PROVE ExactAt(m)
    BY DEF ExactInv
  <2>1. /\ notified[m] = [lv \in {"P0", "RECOVERY"} |-> [o \in {"sent", "failed"} |-> 0]]
        /\ count[Kept][m] = 0 /\ evaluated[m] = <<>>
        /\ \A h \in Handler : task[h] = Alert!Idle /\ handler[h].pc = "idle"
    BY NoRequestFields DEF Init, Alert!Init, Pipeline!Init, Alert!Zero, Alert!NoneYet,
       Alert!Level, Alert!Outcome, Kept, Alert!Store
  <2>2. /\ Recoveries(m) = 0 /\ Recovering(m) = 0 /\ Pending(m) = 0
        /\ ~LastBreached(m) /\ Counted(m) = 0
    BY <2>1, IdleTask DEF Recoveries, Recovering, Pending, Counted, At, Alert!Attempted,
                          LastBreached
  <2>3. Streaks(m) = 0
    <3>1. 2..Len(evaluated[m]) = {}
      BY <2>1
    <3>2. {i \in 2..Len(evaluated[m]) :
             breach[m][evaluated[m][i - 1]] /\ ~breach[m][evaluated[m][i]]} = {}
      BY <3>1
    <3>3. QED  BY <3>2, FS_EmptySet DEF Streaks
  <2>4. QED  BY <2>1, <2>2, <2>3 DEF ExactAt, Evaluates
<1>2. ASSUME ExactInv, Rests, Types
      PROVE  ExactInv'
  <2>1. UNCHANGED serverCrashes
    BY <1>2, RestFacts
  <2> SUFFICES ASSUME serverCrashes = 0, NEW m \in Machine PROVE ExactAt(m)'
    BY <2>1 DEF ExactInv
  <2>2. /\ UNCHANGED <<Counted(m), Recoveries(m), task>>
        /\ (LastBreached(m)' <=> LastBreached(m)) /\ Streaks(m)' = Streaks(m)
        /\ \A S : At(m, S)' <=> At(m, S)
        /\ \A g \in Handler : Evaluates(g, m)' => Evaluates(g, m)
    BY <1>2, RestFacts
  <2>3. Recovering(m)' = Recovering(m) /\ Pending(m)' = Pending(m)
    BY <2>2 DEF Recovering, Pending
  <2>4. ExactAt(m)
    BY <1>2 DEF ExactInv
  <2>5. QED  BY <2>2, <2>3, <2>4 DEF ExactAt
<1>3. ASSUME Dies, Types
      PROVE  ExactInv'
  <2>1. serverCrashes \in Nat /\ serverCrashes' = serverCrashes + 1
    BY <1>3, DiesEffect DEF Types, PartsOK, Alert!TypeOK, Alert!EnvironmentOK
  <2>2. QED  BY <2>1 DEF ExactInv
<1>4. ExactInv /\ Types /\ OneAtATime /\ OneAtATime' /\ SpanInv /\ EvaluatesLast /\ Lasting
        /\ [Next]_vars => ExactInv'
  BY <1>2, <1>3, Kinds, ExactStep, ExactBegun
<1>5. Spec => [](Types /\ OneAtATime /\ SpanInv /\ EvaluatesLast /\ Lasting)
  BY TypesInvariance, OneAtATimeInvariance, SpanInvariance, LastInvariance,
     LastingInvariance, PTL
<1>6. QED  BY <1>1, <1>4, <1>5, PTL DEF Spec

(* A streak ends in one RECOVERY, although evaluateCPUAlert reads the counter   *)
(* and resets it in two calls (main.go:466-478): never two, and none is left    *)
(* out unless the server died or the count ran out.                             *)
THEOREM StreaksEndInOneRecovery ==
  OneWorker /\ StoreAnswers /\ CountsOutlive => (Spec => []OneRecoveryPerStreak)
<1> SUFFICES ASSUME OneWorker, StoreAnswers, CountsOutlive
             PROVE  Spec => []OneRecoveryPerStreak
  OBVIOUS
<1>1. Types /\ RecoveryInv /\ ExactInv => OneRecoveryPerStreak
  <2> SUFFICES ASSUME Types, RecoveryInv, ExactInv, NEW m \in Machine
               PROVE  /\ Recoveries(m) <= Streaks(m)
                      /\ Alert!Quiet(m) /\ serverCrashes = 0 => Recoveries(m) = Streaks(m)
    BY DEF OneRecoveryPerStreak, Recoveries
  <2>1. /\ Recoveries(m) \in Nat /\ Streaks(m) \in Nat
        /\ Recovering(m) \in Nat /\ Pending(m) \in Nat
    BY CountTypes, StreaksType DEF Types, PartsOK, Recovering, Pending
  <2>2. Recoveries(m) + Recovering(m) + Pending(m) <= Streaks(m)
    BY DEF RecoveryInv, RecoveryAt
  <2>3. ASSUME Alert!Quiet(m), serverCrashes = 0
        PROVE  Recoveries(m) = Streaks(m)
    <3>1. ExactAt(m) /\ ~At(m, {"notifyRecovery"}) /\ ~At(m, {"get", "reset"})
      BY <2>3 DEF ExactInv, At, Alert!Quiet
    <3>2. Recovering(m) = 0 /\ Pending(m) = 0
      BY <3>1 DEF ExactAt, Recovering, Pending
    <3>3. QED  BY <2>1, <3>1, <3>2 DEF ExactAt
  <2>4. QED  BY <2>1, <2>2, <2>3
<1>2. QED  BY <1>1, TypesInvariance, RecoveryInvariance, ExactInvariance, PTL

-----------------------------------------------------------------------------
(* No sustained breach goes unnoticed.                                         *)

Won(m) == won[Kept][m]
Tried(m) == attempts[Kept][m]

(* What a step of evaluateCPUAlert does to the cooldowns of m, and to those of  *)
(* another machine.                                                             *)
CooldownMoves(t, u, m) ==
  /\ Won(m)' = IF t.pc = "acquire" /\ u.pc = "notifyAlert" THEN Won(m) + 1 ELSE Won(m)
  /\ Tried(m)' = IF t.pc = "notifyAlert" THEN Tried(m) + 1 ELSE Tried(m)

LEMMA CooldownTypes ==
  ASSUME Alert!TypeOK, StoreAnswers, NEW m \in Machine
  PROVE  Won(m) \in Nat /\ Tried(m) \in Nat
BY KeptStore DEF Won, Tried, Alert!TypeOK, Alert!HistoryOK

LEMMA CooldownStep ==
  ASSUME Alert!TypeOK, StoreAnswers, store[Server] \in {Kept, None},
         NEW h \in Handler, Alert!Step(h), NEW m \in Machine, m = task[h].mach
  PROVE  /\ CooldownMoves(task[h], task'[h], m)
         /\ \A k \in Machine : k # m => UNCHANGED <<Won(k), Tried(k)>>
<1>1. /\ task[h] \in Alert!Task /\ task[h].mach \in Machine /\ Kept \in Alert!Store
      /\ Alert!StoreOf(h) = Kept /\ Alert!CallResult(Kept) = {"ok"}
  BY StepStore
<1>2. /\ won \in [Alert!Store -> [Machine -> Nat]]
      /\ attempts \in [Alert!Store -> [Machine -> Nat]]
  BY DEF Alert!TypeOK, Alert!HistoryOK
<1>3. CASE Alert!TryAcquireCooldown(h)
  <2>1. /\ task[h].pc = "acquire" /\ task' = [task EXCEPT ![h].pc = "notifyAlert"]
        /\ won' = [won EXCEPT ![Kept][m] = @ + 1] /\ UNCHANGED attempts
    BY <1>1, <1>3 DEF Alert!TryAcquireCooldown, Alert!Goto
  <2>2. task'[h].pc = "notifyAlert"
    BY <1>1, <2>1, MovedTask
  <2>3. /\ Won(m)' = Won(m) + 1
        /\ \A k \in Machine : Tried(k)' = Tried(k)
        /\ \A k \in Machine : k # m => Won(k)' = Won(k)
    BY <1>1, <1>2, <2>1 DEF Won, Tried
  <2>4. CooldownMoves(task[h], task'[h], m)
    BY <1>1, <2>1, <2>2, <2>3 DEF CooldownMoves
  <2>5. QED  BY <2>3, <2>4
<1>4. CASE Alert!NotifyCPUAlert(h)
  <2>1. /\ task[h].pc = "notifyAlert" /\ UNCHANGED won
        /\ attempts' = [attempts EXCEPT ![Kept][m] = @ + 1]
    BY <1>1, <1>4 DEF Alert!NotifyCPUAlert
  <2>2. /\ Tried(m)' = Tried(m) + 1
        /\ \A k \in Machine : Won(k)' = Won(k)
        /\ \A k \in Machine : k # m => Tried(k)' = Tried(k)
    BY <1>1, <1>2, <2>1 DEF Won, Tried
  <2>3. CooldownMoves(task[h], task'[h], m)
    BY <1>1, <2>1, <2>2 DEF CooldownMoves
  <2>4. QED  BY <2>2, <2>3
<1>5. CASE \/ Alert!IncrementCPUBreach(h) \/ Alert!ExpireCount(h) \/ Alert!SuppressAlert(h)
           \/ Alert!CountNotification(h) \/ Alert!GetCPUBreachCount(h)
           \/ Alert!ResetCPUBreach(h) \/ Alert!NotifyCPURecovery(h)
           \/ \E level \in Alert!Level : Alert!SaveAlertEvent(h, level)
  <2>1. UNCHANGED <<won, attempts>> /\ task[h].pc # "notifyAlert"
    BY <1>5
    DEF Alert!IncrementCPUBreach, Alert!ExpireCount, Alert!SuppressAlert,
        Alert!CountNotification, Alert!GetCPUBreachCount, Alert!ResetCPUBreach,
        Alert!NotifyCPURecovery, Alert!SaveAlertEvent, Alert!cooldownHistory
  <2>2. ~(task[h].pc = "acquire" /\ task'[h].pc = "notifyAlert")
    <3>1. CASE Alert!SuppressAlert(h)
      <4>1. task'[h] = Alert!Idle
        BY <1>1, <3>1, MovedTask DEF Alert!SuppressAlert, Alert!Return
      <4>2. QED  BY <4>1, IdleTask
    <3>2. CASE ~Alert!SuppressAlert(h)
      BY <1>5, <3>2
      DEF Alert!IncrementCPUBreach, Alert!ExpireCount, Alert!CountNotification,
          Alert!GetCPUBreachCount, Alert!ResetCPUBreach, Alert!NotifyCPURecovery,
          Alert!SaveAlertEvent
    <3>3. QED  BY <3>1, <3>2
  <2>3. \A k \in Machine : Won(k)' = Won(k) /\ Tried(k)' = Tried(k)
    BY <2>1 DEF Won, Tried, Kept
  <2>4. QED  BY <1>1, <2>1, <2>2, <2>3 DEF CooldownMoves
<1>6. QED  BY <1>3, <1>4, <1>5 DEF Alert!Step

(* What is over was brought, and the last sample that was brought is the latest. *)
FinishedBefore ==
  \A s \in finished : evaluated[s[1]] # <<>> /\ s[2] <= Last(s[1])

LEMMA LastType ==
  ASSUME Types, NEW m \in Machine, evaluated[m] # <<>>
  PROVE  Last(m) \in 1..MaxSamples
<1>1. PICK S : S = 1..MaxSamples
  OBVIOUS
<1>2. PICK e \in Seq(S) : e = evaluated[m]
  BY <1>1 DEF Types, PartsOK, Pipeline!TypeOK
<1>3. Len(e) \in 1..Len(e)
  BY <1>2
<1>4. e \in [1..Len(e) -> S]
  OBVIOUS
<1>5. e[Len(e)] \in S
  BY <1>3, <1>4
<1>6. QED  BY <1>1, <1>2, <1>5 DEF Last

LEMMA LastGrows ==
  ASSUME Types, EvaluatedSerially', NEW h \in Handler, Begun(h), NEW m \in Machine,
         evaluated[m] # <<>>
  PROVE  evaluated'[m] # <<>> /\ Last(m) <= Last(m)' /\ Last(m)' \in Nat
<1>1. PICK k \in Machine : k = handler[h].sample[1]
  BY BegunTask
<1>2. /\ evaluated'[k] = Append(evaluated[k], handler[h].sample[2])
      /\ \A j \in Machine : j # k => evaluated'[j] = evaluated[j]
  BY <1>1, BegunLast
<1>3. Last(m) \in Nat
  BY LastType
<1>4. CASE m # k
  BY <1>2, <1>3, <1>4 DEF Last
<1>5. CASE m = k
  <2>1. PICK e \in Seq(1..MaxSamples) : e = evaluated[m]
    BY DEF Types, PartsOK, Pipeline!TypeOK
  <2>2. PICK x \in 1..MaxSamples : x = handler[h].sample[2]
    BY SampleOf DEF Types, PartsOK, Begun
  <2>3. PICK n \in Nat : n = Len(e) /\ n >= 1 /\ Len(Append(e, x)) = n + 1
    BY <2>1
  <2>4. n \in 1..n + 1 /\ n + 1 \in 1..n + 1 /\ n < n + 1 /\ DOMAIN Append(e, x) = 1..n + 1
    BY <2>3
  <2>5. Append(e, x)[n] = e[n] /\ Append(e, x)[n + 1] = x
    BY <2>3
  <2>6. evaluated'[m] = Append(e, x)
    BY <1>2, <1>5, <2>1, <2>2
  <2>7. \A i, j \in DOMAIN Append(e, x) : i < j => Append(e, x)[i] <= Append(e, x)[j]
    BY <2>6 DEF EvaluatedSerially, Pipeline!EvaluatedSerially
  <2>8. e[n] <= x
    BY <2>4, <2>5, <2>7
  <2>9. Last(m) = e[n] /\ Last(m)' = x /\ evaluated'[m] # <<>>
    BY <2>1, <2>3, <2>5, <2>6 DEF Last
  <2>10. QED  BY <2>8, <2>9
<1>6. QED  BY <1>4, <1>5

LEMMA FinishedInvariance == OneWorker => (Spec => []FinishedBefore)
<1> SUFFICES ASSUME OneWorker PROVE Spec => []FinishedBefore
  OBVIOUS
<1>1. Init => FinishedBefore
  BY DEF Init, Pipeline!Init, FinishedBefore
<1>2. ASSUME FinishedBefore, Types, EvaluatesLast, EvaluatedSerially', [Next]_vars
      PROVE  FinishedBefore'
  <2>1. \A s \in finished : s[1] \in Machine /\ s[2] \in 1..MaxSamples
    BY <1>2 DEF Types, PartsOK, Pipeline!TypeOK, Pipeline!Sample
  <2>2. ASSUME NEW h \in Handler, Begun(h)
        PROVE  FinishedBefore'
    <3> SUFFICES ASSUME NEW s \in finished
                 PROVE  evaluated'[s[1]] # <<>> /\ s[2] <= Last(s[1])'
      BY <2>2 DEF Begun, FinishedBefore
    <3>1. PICK m \in Machine : m = s[1]
      BY <2>1
    <3>2. evaluated[m] # <<>> /\ s[2] <= Last(m) /\ s[2] \in Nat
      BY <1>2, <2>1, <3>1 DEF FinishedBefore
    <3>3. evaluated'[m] # <<>> /\ Last(m) <= Last(m)' /\ Last(m)' \in Nat
      BY <1>2, <2>2, <3>2, LastGrows
    <3>4. Last(m) \in Nat
      BY <1>2, <3>2, LastType
    <3>5. s[2] <= Last(m)'
      BY <3>2, <3>3, <3>4
    <3>6. QED  BY <3>1, <3>3, <3>5
  <2>3. ASSUME NEW h \in Handler, Over(h)
        PROVE  FinishedBefore'
    <3>1. PICK m \in Machine : m = handler[h].sample[1]
      BY <1>2, <2>3, SampleOf DEF Over, Types, PartsOK
    <3>2. /\ evaluated[m] # <<>> /\ Last(m) = handler[h].sample[2]
          /\ Last(m) \in Nat
      BY <1>2, <2>3, <3>1, LastType DEF EvaluatesLast, LastAt, Evaluates, Over
    <3>3. finished' = finished \cup {handler[h].sample} /\ UNCHANGED evaluated
      BY <2>3 DEF Over
    <3>4. \A s \in finished' : evaluated[s[1]] # <<>> /\ s[2] <= Last(s[1])
      BY <1>2, <3>1, <3>2, <3>3 DEF FinishedBefore
    <3>5. QED  BY <3>3, <3>4 DEF FinishedBefore, Last
  <2>4. CASE \/ Calm \/ StartServer \/ Tick \/ Dies
             \/ \E h \in Handler : AlertStep(h)
    <3>1. UNCHANGED <<finished, evaluated>>
      BY <2>4 DEF Calm, StartServer, Tick, Dies, AlertStep, pipelineVars, Pipeline!CrashServer
    <3>2. QED  BY <1>2, <3>1 DEF FinishedBefore, Last
  <2>5. QED  BY <1>2, <2>2, <2>3, <2>4, StepEffects DEF Types, PartsOK
<1>3. Spec => [](Types /\ EvaluatesLast /\ EvaluatedSerially)
  BY TypesInvariance, LastInvariance, SamplesAreSerial, PTL
<1>4. FinishedBefore /\ Types /\ EvaluatesLast /\ EvaluatedSerially' /\ [Next]_vars
        => FinishedBefore'
  BY <1>2
<1>5. QED  BY <1>1, <1>3, <1>4, PTL DEF Spec

(* Sample i of m has been counted: its evaluation is over, or past the increment. *)
Done(m, i) ==
  \/ <<m, i>> \in finished
  \/ \E h \in Handler :
       Evaluates(h, m) /\ handler[h].sample[2] = i /\ task[h].pc # "increment"

(* The evaluation of sample i of m is about to raise the alert. *)
RaisingAt(h, m, i) ==
  /\ Evaluates(h, m) /\ handler[h].sample[2] = i
  /\ task[h].pc \in {"expire", "acquire", "notifyAlert"} /\ task[h].n >= AlertTriggerCount
Raising(m, i) == <<m, i>> \notin finished /\ \E h \in Handler : RaisingAt(h, m, i)

(* A cooldown was taken under which nothing was notified and nothing will be. *)
Owed(m) == Won(m) > Tried(m) + (IF At(m, {"notifyAlert"}) THEN 1 ELSE 0)

(* Samples k..j of m breach and were counted. *)
Breached(m, k, j) == \A i \in k..j : breach[m][i] /\ Done(m, i)

(* As long as the store keeps what it is told, the count is at least the length  *)
(* of a run of breaches that no normal sample has ended yet; a run that is long  *)
(* enough has been notified, is about to be, or was when the server died with    *)
(* the cooldown taken; and no cooldown was taken without a P0 otherwise.         *)
CountedAt(m) ==
  \A k, j \in 1..MaxSamples :
    k <= j /\ Breached(m, k, j) /\ (\A i \in k..Last(m) : breach[m][i])
      => Counted(m) >= j - k + 1
RaisedAt(m) ==
  \A k, j \in 1..MaxSamples :
    k <= j /\ Breached(m, k, j) /\ j - k + 1 >= AlertTriggerCount
      => P0s(m) > 0 \/ Owed(m) \/ Raising(m, j)
PaidAt(m) ==
  /\ Cool(m) > 0 => Won(m) > 0
  /\ Tried(m) > 0 => P0s(m) > 0
NoticedAt(m) == CountedAt(m) /\ RaisedAt(m) /\ PaidAt(m)
Holding == AlertStoreType = "memory" => serverCrashes = 0
NoticedInv == Holding => \A m \in Machine : NoticedAt(m)

LEMMA DoneBefore ==
  ASSUME Types, EvaluatesLast, FinishedBefore, NEW m \in Machine, NEW i, Done(m, i)
  PROVE  evaluated[m] # <<>> /\ Last(m) \in 1..MaxSamples /\ i <= Last(m)
<1>1. CASE <<m, i>> \in finished
  <2>1. PICK s \in finished : s = <<m, i>>
    BY <1>1
  <2>2. s[1] = m /\ s[2] = i
    BY <2>1
  <2>3. QED  BY <2>2, LastType DEF FinishedBefore
<1>2. ASSUME NEW h \in Handler, Evaluates(h, m), handler[h].sample[2] = i
      PROVE  evaluated[m] # <<>> /\ Last(m) \in 1..MaxSamples /\ i <= Last(m)
  <2>1. evaluated[m] # <<>> /\ Last(m) = i
    BY <1>2 DEF EvaluatesLast, LastAt
  <2>2. Last(m) \in 1..MaxSamples
    BY <2>1, LastType
  <2>3. QED  BY <2>1, <2>2
<1>3. QED  BY <1>1, <1>2 DEF Done

(* A step that counts nothing new for m and takes nothing away. *)
LEMMA Undisturbed ==
  ASSUME Types, StoreAnswers, EvaluatesLast, FinishedBefore,
         NEW m \in Machine, NoticedAt(m),
         UNCHANGED <<breach, Counted(m), P0s(m), Cool(m), Won(m), Tried(m)>>,
         \A i \in 1..MaxSamples : breach[m][i] /\ Done(m, i)' => Done(m, i),
         evaluated[m] # <<>> => Last(m)' \in Nat /\ Last(m) <= Last(m)',
         At(m, {"notifyAlert"})' => At(m, {"notifyAlert"}),
         \A i \in 1..MaxSamples : Raising(m, i) /\ Done(m, i)' => Raising(m, i)'
  PROVE  NoticedAt(m)'
<1>1. Won(m) \in Nat /\ Tried(m) \in Nat
  BY CooldownTypes DEF Types, PartsOK
<1>2. Owed(m) => Owed(m)'
  BY <1>1 DEF Owed
<1>3. ASSUME NEW k \in 1..MaxSamples, NEW j \in 1..MaxSamples, k <= j, Breached(m, k, j)'
      PROVE  Breached(m, k, j) /\ Done(m, j)' /\ Done(m, j)
  <2>1. \A i \in k..j : breach[m][i] /\ Done(m, i)'
    BY <1>3 DEF Breached
  <2>2. \A i \in k..j : i \in 1..MaxSamples
    BY CompositionAssumption
  <2>3. j \in k..j
    BY <1>3
  <2>4. QED  BY <2>1, <2>2, <2>3 DEF Breached
<1>4. CountedAt(m)'
  <2> SUFFICES ASSUME NEW k \in 1..MaxSamples, NEW j \in 1..MaxSamples, k <= j,
                      Breached(m, k, j)', \A i \in k..Last(m)' : breach[m][i]
               PROVE  Counted(m) >= j - k + 1
    BY DEF CountedAt
  <2>1. Breached(m, k, j) /\ evaluated[m] # <<>> /\ Last(m) \in 1..MaxSamples
    BY <1>3, DoneBefore
  <2>2. \A i \in k..Last(m) : i \in k..Last(m)'
    BY <2>1
  <2>3. QED  BY <2>1, <2>2 DEF NoticedAt, CountedAt
<1>5. RaisedAt(m)'
  <2> SUFFICES ASSUME NEW k \in 1..MaxSamples, NEW j \in 1..MaxSamples, k <= j,
                      Breached(m, k, j)', j - k + 1 >= AlertTriggerCount
               PROVE  P0s(m)' > 0 \/ Owed(m)' \/ Raising(m, j)'
    BY DEF RaisedAt
  <2>1. Breached(m, k, j) /\ Done(m, j)'
    BY <1>3
  <2>2. P0s(m) > 0 \/ Owed(m) \/ Raising(m, j)
    BY <2>1 DEF NoticedAt, RaisedAt
  <2>3. QED  BY <1>2, <2>1, <2>2
<1>6. PaidAt(m)'
  BY DEF NoticedAt, PaidAt
<1>7. QED  BY <1>4, <1>5, <1>6 DEF NoticedAt

LEMMA NoticedOwn ==
  ASSUME Types, OneAtATime, StoreAnswers, SpanInv, EvaluatesLast, FinishedBefore, Lasting,
         NEW h \in Handler, AlertStep(h), NEW m \in Machine, m = task[h].mach, NoticedAt(m)
  PROVE  NoticedAt(m)'
<1>1. /\ Proceeds(task[h], task'[h], m) /\ Evaluates(h, m) /\ Evaluates(h, m)'
      /\ task[h].n \in Nat /\ (task'[h] = Alert!Idle => task'[h].pc = "idle")
      /\ task[h].pc \in IF LastBreached(m) THEN Alerts ELSE Recovers
      /\ Counted(m) \in Nat /\ P0s(m) \in Nat
      /\ \A g \in Handler : Evaluates(g, m)' => g = h
      /\ UNCHANGED <<handler, evaluated, finished, breach, now>>
  BY StepFacts
<1>2. Live(m) = Counted(m) /\ now \in Nat /\ Cool(m) \in Nat
  BY LastingCounts, CountTypes DEF Types, PartsOK
<1>3. CooldownMoves(task[h], task'[h], m) /\ Won(m) \in Nat /\ Tried(m) \in Nat
  BY CooldownStep, CooldownTypes DEF Types, PartsOK, AlertStep, SpanInv
<1>4. /\ At(m, {"notifyAlert"}) <=> task[h].pc = "notifyAlert"
      /\ At(m, {"notifyAlert"})' <=> task'[h].pc = "notifyAlert"
  <2>1. /\ At(m, {"notifyAlert"}) <=> task[h].pc \in {"notifyAlert"}
        /\ At(m, {"notifyAlert"})' <=> task'[h].pc \in {"notifyAlert"}
    BY AtStep, ZenonT(60)
  <2>2. QED  BY <2>1
<1>5. PICK x \in 1..MaxSamples : x = Last(m) /\ x = Last(m)' /\ x = handler[h].sample[2]
  <2>1. evaluated[m] # <<>> /\ Last(m) = handler[h].sample[2]
    BY <1>1 DEF EvaluatesLast, LastAt
  <2>2. QED  BY <1>1, <2>1, LastType DEF Last
<1>6. ASSUME NEW i \in 1..MaxSamples, Done(m, i)'
      PROVE  i <= x /\ (Done(m, i) \/ (task[h].pc = "increment" /\ i = x))
  <2>1. CASE <<m, i>> \in finished
    BY <1>5, <2>1, DoneBefore DEF Done
  <2>2. CASE <<m, i>> \notin finished
    <3>1. handler[h].sample[2] = i
      BY <1>1, <1>6, <2>2 DEF Done
    <3>2. QED  BY <1>1, <1>5, <3>1 DEF Done
  <2>3. QED  BY <2>1, <2>2
<1>7. LastBreached(m) =>
        Counted(m)' = Counted(m) + (IF task[h].pc = "increment" THEN 1 ELSE 0)
  BY <1>1, <1>2 DEF Proceeds, Counts, Notifies, Alerts
<1>8. breach[m][x] => LastBreached(m)
  <2>1. evaluated[m] # <<>>
    BY <1>1 DEF EvaluatesLast, LastAt
  <2>2. QED  BY <1>5, <2>1 DEF LastBreached
<1>9. CountedAt(m)'
  <2> SUFFICES ASSUME NEW k \in 1..MaxSamples, NEW j \in 1..MaxSamples, k <= j,
                      Breached(m, k, j)', \A i \in k..x : breach[m][i]
               PROVE  Counted(m)' >= j - k + 1
    BY <1>1, <1>5 DEF CountedAt
  <2>1. \A i \in k..j : i \in 1..MaxSamples /\ breach[m][i] /\ Done(m, i)'
    <3>1. \A i \in k..j : i \in 1..MaxSamples
      BY CompositionAssumption
    <3>2. QED  BY <1>1, <3>1 DEF Breached
  <2>2. j <= x /\ x \in k..x
    <3>1. j \in k..j
      OBVIOUS
    <3>2. j <= x
      BY <1>6, <2>1, <3>1
    <3>3. QED  BY <3>2
  <2>3. Counted(m)' = Counted(m) + (IF task[h].pc = "increment" THEN 1 ELSE 0)
    BY <1>7, <1>8, <2>2
  <2>4. ASSUME NEW i \in 1..MaxSamples, k <= i, i <= j, task[h].pc = "increment" => i < x
        PROVE  Counted(m) >= i - k + 1
    <3>1. \A y \in k..i : y \in k..j /\ y <= i
      BY <2>4
    <3>2. Breached(m, k, i)
      BY <1>6, <2>1, <2>4, <3>1 DEF Breached
    <3>3. QED  BY <1>5, <2>4, <3>2 DEF NoticedAt, CountedAt
  <2>5. CASE task[h].pc # "increment"
    BY <1>1, <2>3, <2>4, <2>5
  <2>6. CASE task[h].pc = "increment" /\ j < x
    BY <1>1, <2>3, <2>4, <2>6
  <2>7. CASE task[h].pc = "increment" /\ j = x
    <3>1. CASE k = x
      BY <1>1, <2>3, <2>7, <3>1
    <3>2. CASE k < x
      <4>1. x - 1 \in 1..MaxSamples /\ k <= x - 1 /\ x - 1 <= j /\ x - 1 < x
        BY <2>7, <3>2, CompositionAssumption
      <4>2. Counted(m) >= (x - 1) - k + 1
        BY <2>4, <4>1
      <4>3. QED  BY <1>1, <2>3, <2>7, <4>2
    <3>3. QED  BY <2>7, <3>1, <3>2
  <2>8. QED  BY <2>2, <2>5, <2>6, <2>7
<1>10. PaidAt(m)'
  <2>1. PaidAt(m)
    BY DEF NoticedAt
  <2>2. CASE task[h].pc = "notifyAlert"
    <3>1. Won(m)' = Won(m) /\ P0s(m)' = P0s(m) + 1 /\ Cool(m)' = Cool(m)
      BY <1>1, <1>3, <2>2 DEF Proceeds, Counts, Notifies, CooldownMoves
    <3>2. QED  BY <1>1, <2>1, <3>1 DEF PaidAt
  <2>3. CASE task[h].pc # "notifyAlert"
    <3>1. Tried(m)' = Tried(m) /\ P0s(m)' = P0s(m)
      BY <1>1, <1>3, <2>3 DEF Proceeds, Counts, Notifies, CooldownMoves
    <3>2. \/ Cool(m)' = Cool(m) /\ Won(m)' \in {Won(m), Won(m) + 1}
          \/ Won(m)' = Won(m) + 1
      BY <1>1, <1>3, <2>3 DEF Proceeds, Counts, Notifies, CooldownMoves
    <3>3. QED  BY <1>3, <2>1, <3>1, <3>2 DEF PaidAt
  <2>4. QED  BY <2>2, <2>3
<1>11. Owed(m) => Owed(m)' \/ P0s(m)' > 0
  <2>1. CASE task[h].pc = "notifyAlert"
    BY <1>1, <2>1 DEF Proceeds, Counts, Notifies
  <2>2. CASE task[h].pc = "acquire"
    <3>1. task'[h].pc # "notifyAlert" => Won(m)' = Won(m) /\ Tried(m)' = Tried(m)
      BY <1>3, <2>2 DEF CooldownMoves
    <3>2. task'[h].pc = "notifyAlert" => Won(m)' = Won(m) + 1 /\ Tried(m)' = Tried(m)
      BY <1>3, <2>2 DEF CooldownMoves
    <3>3. QED  BY <1>3, <1>4, <2>2, <3>1, <3>2 DEF Owed
  <2>3. CASE task[h].pc \notin {"acquire", "notifyAlert"}
    <3>1. task'[h].pc # "notifyAlert"
      BY <1>1, <2>3 DEF Proceeds, Counts, Notifies
    <3>2. Won(m)' = Won(m) /\ Tried(m)' = Tried(m)
      BY <1>3, <2>3 DEF CooldownMoves
    <3>3. QED  BY <1>3, <1>4, <2>3, <3>1, <3>2 DEF Owed
  <2>4. QED  BY <2>1, <2>2, <2>3
<1>12. ASSUME NEW j \in 1..MaxSamples, Raising(m, j)
       PROVE  P0s(m)' > 0 \/ Owed(m)' \/ Raising(m, j)'
  <2>1. RaisingAt(h, m, j) /\ <<m, j>> \notin finished'
    BY <1>1, <1>12 DEF Raising, RaisingAt, Evaluates
  <2>2. ASSUME task'[h].pc \in {"acquire", "notifyAlert"}, task'[h].n = task[h].n
        PROVE  Raising(m, j)'
    BY <1>1, <2>1, <2>2 DEF Raising, RaisingAt
  <2>3. CASE task[h].pc = "expire"
    <3>1. task[h].n >= AlertTriggerCount
      BY <2>1 DEF RaisingAt
    <3>2. task'[h].pc = "acquire" /\ task'[h].n = task[h].n
      BY <1>1, <2>3, <3>1, CompositionAssumption DEF Proceeds, Counts, Notifies
    <3>3. QED  BY <2>2, <3>2
  <2>4. CASE task[h].pc = "acquire"
    <3>1. \/ task'[h].pc = "notifyAlert" /\ task'[h].n = task[h].n
          \/ /\ task'[h].pc = "idle" /\ now < Cool(m) /\ P0s(m)' = P0s(m)
      BY <1>1, <2>4 DEF Proceeds, Counts, Notifies
    <3>2. CASE task'[h].pc = "idle" /\ now < Cool(m) /\ P0s(m)' = P0s(m)
      <4>1. Won(m) > 0 /\ (Tried(m) > 0 => P0s(m) > 0)
        BY <1>2, <3>2 DEF NoticedAt, PaidAt
      <4>2. Won(m)' = Won(m) /\ Tried(m)' = Tried(m) /\ ~At(m, {"notifyAlert"})'
        BY <1>3, <1>4, <2>4, <3>2 DEF CooldownMoves
      <4>3. QED  BY <1>3, <3>2, <4>1, <4>2 DEF Owed
    <3>3. QED  BY <2>2, <3>1, <3>2
  <2>5. CASE task[h].pc = "notifyAlert"
    BY <1>1, <2>5 DEF Proceeds, Counts, Notifies
  <2>6. QED  BY <2>1, <2>3, <2>4, <2>5 DEF RaisingAt
<1>13. RaisedAt(m)'
  <2> SUFFICES ASSUME NEW k \in 1..MaxSamples, NEW j \in 1..MaxSamples, k <= j,
                      Breached(m, k, j)', j - k + 1 >= AlertTriggerCount
               PROVE  P0s(m)' > 0 \/ Owed(m)' \/ Raising(m, j)'
    BY DEF RaisedAt
  <2>1. \A i \in k..j : i \in 1..MaxSamples /\ breach[m][i] /\ Done(m, i)'
    <3>1. \A i \in k..j : i \in 1..MaxSamples
      BY CompositionAssumption
    <3>2. QED  BY <1>1, <3>1 DEF Breached
  <2>2. CASE Breached(m, k, j)
    <3>1. P0s(m) > 0 \/ Owed(m) \/ Raising(m, j)
      BY <2>2 DEF NoticedAt, RaisedAt
    <3>2. P0s(m) > 0 => P0s(m)' > 0
      BY <1>1 DEF Proceeds, Notifies
    <3>3. QED  BY <1>11, <1>12, <3>1, <3>2
  <2>3. CASE ~Breached(m, k, j)
    <3>1. PICK i \in k..j : ~Done(m, i)
      BY <2>1, <2>3 DEF Breached
    <3>2. task[h].pc = "increment" /\ i = x /\ j = x /\ <<m, j>> \notin finished
      <4>1. task[h].pc = "increment" /\ i = x
        BY <1>6, <2>1, <3>1
      <4>2. j \in k..j
        OBVIOUS
      <4>3. j <= x
        BY <1>6, <2>1, <4>2
      <4>4. QED  BY <3>1, <4>1, <4>3 DEF Done
    <3>3. Counted(m)' >= AlertTriggerCount
      <4>1. Counted(m)' >= j - k + 1
        BY <1>1, <1>5, <1>9, <2>1, <3>2 DEF CountedAt
      <4>2. Counted(m)' \in Nat
        BY <1>1, <1>2, <3>2 DEF Proceeds, Counts, Notifies
      <4>3. QED  BY <4>1, <4>2, CompositionAssumption
    <3>4. /\ task'[h].pc \in {"expire", "acquire"}
          /\ task'[h].n = Counted(m)'
      BY <1>1, <1>2, <3>2, <3>3, CompositionAssumption DEF Proceeds, Counts, Notifies
    <3>5. RaisingAt(h, m, j)'
      BY <1>1, <1>5, <3>2, <3>3, <3>4 DEF RaisingAt
    <3>6. QED  BY <1>1, <3>2, <3>5 DEF Raising
  <2>4. QED  BY <2>2, <2>3
<1>14. QED  BY <1>9, <1>10, <1>13 DEF NoticedAt

LEMMA NoticedStep ==
  ASSUME Types, OneAtATime, StoreAnswers, SpanInv, EvaluatesLast, FinishedBefore, Lasting,
         NoticedInv, NEW h \in Handler, AlertStep(h)
  PROVE  NoticedInv'
<1>1. PICK m \in Machine : m = task[h].mach
  BY AlertMoves DEF Types, PartsOK, AlertStep
<1>2. UNCHANGED <<handler, evaluated, finished, breach, serverCrashes>>
  BY <1>1, StepFacts
<1> SUFFICES ASSUME Holding, NEW k \in Machine
             PROVE  NoticedAt(k)'
  BY <1>2 DEF NoticedInv, Holding
<1>3. NoticedAt(k)
  BY DEF NoticedInv
<1>4. CASE k = m
  BY <1>1, <1>3, <1>4, NoticedOwn
<1>5. CASE k # m
  <2>1. /\ UNCHANGED <<Counted(k), Cool(k), P0s(k), Won(k), Tried(k)>>
        /\ At(k, {"notifyAlert"})' <=> At(k, {"notifyAlert"})
    BY <1>1, <1>5, StepElsewhere, CooldownStep, AtStep
    DEF Types, PartsOK, AlertStep, SpanInv
  <2>2. \A g \in Handler : Evaluates(g, k) => task'[g] = task[g]
    BY <1>1, <1>5, StepFacts, AlertMoves DEF Evaluates, Types, PartsOK, AlertStep
  <2>3. \A i : (Done(k, i)' <=> Done(k, i)) /\ (Raising(k, i)' <=> Raising(k, i))
    BY <1>2, <2>2 DEF Done, Raising, RaisingAt, Evaluates
  <2>4. evaluated[k] # <<>> => Last(k)' \in Nat /\ Last(k) <= Last(k)'
    BY <1>2, LastType DEF Last
  <2>5. QED  BY <1>2, <1>3, <2>1, <2>3, <2>4, Undisturbed
<1>6. QED  BY <1>4, <1>5

LEMMA NoticedBegun ==
  ASSUME Types, OneAtATime', EvaluatedSerially', StoreAnswers, EvaluatesLast, FinishedBefore,
         NoticedInv, NEW h \in Handler, Begun(h)
  PROVE  NoticedInv'
<1>1. PICK m \in Machine : m = handler[h].sample[1]
  BY BegunTask
<1>2. /\ \A k \in Machine : UNCHANGED <<Counted(k), Cool(k), P0s(k)>>
      /\ \A g \in Handler, k \in Machine : g # h /\ Evaluates(g, k)' =>
           k # m /\ Evaluates(g, k) /\ task'[g] = task[g] /\ handler'[g] = handler[g]
      /\ task'[h].pc = IF LastBreached(m)' THEN "increment" ELSE "get"
      /\ LastBreached(m)' <=> Breaching(handler[h].sample)
      /\ \A k \in Machine : k # m => ~Evaluates(h, k)'
      /\ UNCHANGED <<breach, serverCrashes>>
  BY <1>1, BegunFacts
<1>3. /\ handler[h].pc = "writeVM" /\ handler'[h].sample = handler[h].sample
      /\ Elsewhere(h) /\ UNCHANGED <<finished, won, attempts>>
      /\ \A g \in Handler : g # h => task'[g] = task[g]
  BY BegunTask DEF Begun, Alert!StartEvaluation, Alert!cooldownHistory
<1> SUFFICES ASSUME Holding, NEW k \in Machine
             PROVE  NoticedAt(k)'
  BY <1>2 DEF NoticedInv, Holding
<1>4. NoticedAt(k)
  BY DEF NoticedInv
<1>5. UNCHANGED <<Won(k), Tried(k)>>
  BY <1>3 DEF Won, Tried, Kept
<1>6. At(k, {"notifyAlert"})' => At(k, {"notifyAlert"})
  <2>1. task'[h].pc # "notifyAlert"
    BY <1>2
  <2>2. QED  BY <1>3, <2>1 DEF At
<1>7. ASSUME NEW i \in 1..MaxSamples, breach[k][i], Done(k, i)'
      PROVE  Done(k, i)
  <2>1. CASE <<k, i>> \in finished
    BY <2>1 DEF Done
  <2>2. ASSUME NEW g \in Handler, Evaluates(g, k)', handler'[g].sample[2] = i,
               task'[g].pc # "increment"
        PROVE  Done(k, i)
    <3>1. CASE g # h
      BY <1>2, <2>2, <3>1 DEF Done
    <3>2. CASE g = h
      <4>1. k = m
        BY <1>2, <2>2, <3>2
      <4>2. Breaching(handler[h].sample)
        BY <1>1, <1>3, <1>7, <2>2, <3>2, <4>1 DEF Breaching
      <4>3. QED  BY <1>2, <2>2, <3>2, <4>2
    <3>3. QED  BY <3>1, <3>2
  <2>3. QED  BY <1>3, <1>7, <2>1, <2>2 DEF Done
<1>8. ASSUME NEW i \in 1..MaxSamples, Raising(k, i)
      PROVE  Raising(k, i)'
  <2>1. PICK g \in Handler : RaisingAt(g, k, i)
    BY <1>8 DEF Raising
  <2>2. g # h /\ handler'[g] = handler[g] /\ task'[g] = task[g]
    BY <1>3, <2>1 DEF RaisingAt, Evaluates, Elsewhere
  <2>3. RaisingAt(g, k, i)'
    BY <2>1, <2>2 DEF RaisingAt, Evaluates
  <2>4. QED  BY <1>3, <1>8, <2>3 DEF Raising
<1>9. evaluated[k] # <<>> => Last(k)' \in Nat /\ Last(k) <= Last(k)'
  BY LastGrows
<1>10. QED
  BY <1>2, <1>4, <1>5, <1>6, <1>7, <1>8, <1>9, Undisturbed

LEMMA NoticedRests ==
  ASSUME Types, OneAtATime, StoreAnswers, EvaluatesLast, FinishedBefore, NoticedInv, Rests
  PROVE  NoticedInv'
<1>1. /\ \A k \in Machine : UNCHANGED <<Counted(k), Cool(k), P0s(k)>>
      /\ \A k \in Machine : At(k, {"notifyAlert"})' <=> At(k, {"notifyAlert"})
      /\ UNCHANGED <<task, evaluated, breach, serverCrashes>>
  BY RestFacts
<1>2. UNCHANGED <<won, attempts>>
  BY DEF Rests, Calm, Over, StartServer, Tick, Alert!StartServer, Alert!Tick, alertVars,
         Alert!cooldownHistory
<1> SUFFICES ASSUME Holding, NEW k \in Machine
             PROVE  NoticedAt(k)'
  BY <1>1 DEF NoticedInv, Holding
<1>3. NoticedAt(k)
  BY DEF NoticedInv
<1>4. UNCHANGED <<Won(k), Tried(k)>>
  BY <1>2 DEF Won, Tried, Kept
<1>5. evaluated[k] # <<>> => Last(k)' \in Nat /\ Last(k) <= Last(k)'
  BY <1>1, LastType DEF Last
<1>6. CASE Calm \/ StartServer \/ Tick
  <2>1. UNCHANGED finished
    BY <1>6 DEF Calm, StartServer, Tick, pipelineVars
  <2>2. \A g \in Handler : /\ Evaluates(g, k)' <=> Evaluates(g, k)
                           /\ Evaluates(g, k) => handler'[g].sample = handler[g].sample
    BY <1>6 DEF Calm, SameEvaluations, StartServer, Tick, pipelineVars, Evaluates
  <2>3. \A i : (Done(k, i)' <=> Done(k, i)) /\ (Raising(k, i)' <=> Raising(k, i))
    BY <1>1, <2>1, <2>2 DEF Done, Raising, RaisingAt
  <2>4. QED  BY <1>1, <1>3, <1>4, <1>5, <2>3, Undisturbed
<1>7. ASSUME NEW h \in Handler, Over(h)
      PROVE  NoticedAt(k)'
  <2>1. /\ handler[h].pc = "evaluate" /\ task[h].pc = "idle"
        /\ handler'[h].pc = "idle" /\ Elsewhere(h)
        /\ finished' = finished \cup {handler[h].sample}
    BY <1>7, IdleTask DEF Over
  <2>2. handler[h].sample = <<handler[h].sample[1], handler[h].sample[2]>>
    <3>1. handler[h].sample \in Machine \X (1..MaxSamples)
      BY <2>1, SampleOf DEF Types, PartsOK, Pipeline!Request, Pipeline!Sample
    <3>2. QED  BY <3>1
  <2>3. ASSUME NEW i, Done(k, i)'
        PROVE  Done(k, i)
    <3>1. CASE <<k, i>> = handler[h].sample
      <4>1. handler[h].sample[1] = k /\ handler[h].sample[2] = i
        <5>1. PICK s : s = <<k, i>>
          OBVIOUS
        <5>2. s[1] = k /\ s[2] = i
          BY <5>1
        <5>3. QED  BY <3>1, <5>1, <5>2
      <4>2. QED  BY <2>1, <4>1 DEF Done, Evaluates
    <3>2. CASE <<k, i>> # handler[h].sample
      BY <1>1, <2>1, <2>3, <3>2 DEF Done, Evaluates, Elsewhere
    <3>3. QED  BY <3>1, <3>2
  <2>4. ASSUME NEW i, Raising(k, i)
        PROVE  Raising(k, i)'
    <3>1. PICK g \in Handler : RaisingAt(g, k, i)
      BY <2>4 DEF Raising
    <3>2. g # h /\ handler'[g] = handler[g]
      BY <2>1, <3>1 DEF RaisingAt, Elsewhere
    <3>3. <<k, i>> # handler[h].sample
      <4>1. handler[h].sample[1] # k
        BY <2>1, <3>1, <3>2 DEF RaisingAt, Evaluates, OneAtATime
      <4>2. PICK s : s = <<k, i>>
        OBVIOUS
      <4>3. s[1] = k
        BY <4>2
      <4>4. QED  BY <4>1, <4>2, <4>3
    <3>4. RaisingAt(g, k, i)'
      BY <1>1, <3>1, <3>2 DEF RaisingAt, Evaluates
    <3>5. <<k, i>> \notin finished'
      BY <2>1, <2>4, <3>3 DEF Raising
    <3>6. QED  BY <3>4, <3>5 DEF Raising
  <2>5. QED  BY <1>1, <1>3, <1>4, <1>5, <2>3, <2>4, Undisturbed
<1>8. QED  BY <1>6, <1>7 DEF Rests

LEMMA NoticedDies ==
  ASSUME Types, StoreAnswers, EvaluatesLast, FinishedBefore, NoticedInv, Dies
  PROVE  NoticedInv'
<1>1. /\ \A h \in Handler : task'[h] = Alert!Idle /\ handler'[h].pc = "idle"
      /\ serverCrashes' = serverCrashes + 1
      /\ \A k \in Machine : UNCHANGED P0s(k)
      /\ UNCHANGED <<breach, evaluated>>
  BY DiesEffect
<1>2. /\ count' = [count EXCEPT ![Server] = [m \in Machine |-> 0]]
      /\ coolUntil' = [coolUntil EXCEPT ![Server] = [m \in Machine |-> 0]]
      /\ won' = [won EXCEPT ![Server] = [m \in Machine |-> 0]]
      /\ attempts' = [attempts EXCEPT ![Server] = [m \in Machine |-> 0]]
      /\ UNCHANGED finished
  BY DEF Dies, Alert!Crash, Pipeline!CrashServer
<1>3. serverCrashes \in Nat
  BY DEF Types, PartsOK, Alert!TypeOK, Alert!EnvironmentOK
<1> SUFFICES ASSUME Holding', NEW k \in Machine
             PROVE  NoticedAt(k)'
  BY DEF NoticedInv
<1>4. AlertStoreType = "redis" /\ Kept = Redis /\ Redis # Server
  BY <1>1, <1>3, CompositionAssumption DEF Holding, Kept
<1>5. NoticedAt(k)
  BY <1>4 DEF NoticedInv, Holding
<1>6. UNCHANGED <<Counted(k), Cool(k), Won(k), Tried(k)>>
  <2>1. /\ count \in [Alert!Store -> [Machine -> Nat]]
        /\ coolUntil \in [Alert!Store -> [Machine -> Nat]]
        /\ won \in [Alert!Store -> [Machine -> Nat]]
        /\ attempts \in [Alert!Store -> [Machine -> Nat]]
    BY DEF Types, PartsOK, Alert!TypeOK, Alert!KeysOK, Alert!HistoryOK
  <2>2. Redis \in Alert!Store
    BY KeptStore
  <2>3. /\ count'[Redis] = count[Redis] /\ coolUntil'[Redis] = coolUntil[Redis]
        /\ won'[Redis] = won[Redis] /\ attempts'[Redis] = attempts[Redis]
    BY <1>2, <1>4, <2>1, <2>2
  <2>4. QED  BY <1>4, <2>3 DEF Counted, Cool, Won, Tried, Kept
<1>7. ~At(k, {"notifyAlert"})'
  BY <1>1, IdleTask DEF At
<1>8. \A i : Done(k, i)' => <<k, i>> \in finished
  BY <1>1, <1>2 DEF Done, Evaluates
<1>9. \A i : Done(k, i)' => Done(k, i) /\ ~Raising(k, i)
  BY <1>8 DEF Done, Raising
<1>10. evaluated[k] # <<>> => Last(k)' \in Nat /\ Last(k) <= Last(k)'
  BY <1>1, LastType DEF Last
<1>11. QED
  BY <1>1, <1>5, <1>6, <1>7, <1>9, <1>10, Undisturbed

LEMMA NoticedInvariance ==
  OneWorker /\ StoreAnswers /\ CountsOutlive => (Spec => []NoticedInv)
<1> SUFFICES ASSUME OneWorker, StoreAnswers, CountsOutlive PROVE Spec => []NoticedInv
  OBVIOUS
<1>1. Init => NoticedInv
  <2> SUFFICES ASSUME Init, NEW m \in Machine PROVE NoticedAt(m)
    BY DEF NoticedInv
  <2>1. /\ coolUntil = [s \in Alert!Store |-> [k \in Machine |-> 0]]
        /\ attempts = [s \in Alert!Store |-> [k \in Machine |-> 0]]
        /\ finished = {} /\ \A h \in Handler : handler[h].pc = "idle"
    BY NoRequestFields DEF Init, Alert!Init, Pipeline!Init
  <2>2. PaidAt(m)
    BY <2>1, KeptStore DEF PaidAt, Cool, Tried
  <2>3. ASSUME NEW k \in 1..MaxSamples, NEW j \in 1..MaxSamples, k <= j
        PROVE  ~Breached(m, k, j)
    <3>1. k \in k..j /\ ~Done(m, k)
      BY <2>1, <2>3 DEF Done, Evaluates
    <3>2. QED  BY <3>1 DEF Breached
  <2>4. QED  BY <2>2, <2>3 DEF NoticedAt, CountedAt, RaisedAt
<1>2. NoticedInv /\ Types /\ OneAtATime /\ OneAtATime' /\ EvaluatedSerially' /\ SpanInv
        /\ EvaluatesLast /\ FinishedBefore /\ Lasting /\ [Next]_vars => NoticedInv'
  BY Kinds, NoticedStep, NoticedBegun, NoticedRests, NoticedDies
<1>3. Spec => [](Types /\ OneAtATime /\ EvaluatedSerially /\ SpanInv /\ EvaluatesLast
                   /\ FinishedBefore /\ Lasting)
  BY TypesInvariance, OneAtATimeInvariance, SamplesAreSerial, SpanInvariance,
     LastInvariance, FinishedInvariance, LastingInvariance, PTL
<1>4. QED  BY <1>1, <1>2, <1>3, PTL DEF Spec

(* Every process that dies here is the server. *)
LEMMA SameCrashes == Spec => [](crashes = serverCrashes)
<1>1. Init => crashes = serverCrashes
  BY DEF Init, Pipeline!Init, Alert!Init
<1>2. ASSUME crashes = serverCrashes, Types, [Next]_vars
      PROVE  crashes' = serverCrashes'
  <2>1. ASSUME NEW h \in Handler, Begun(h)
        PROVE  UNCHANGED <<crashes, serverCrashes>>
    BY <1>2, <2>1, BegunTask DEF Begun
  <2>2. ASSUME NEW h \in Handler, AlertStep(h)
        PROVE  UNCHANGED <<crashes, serverCrashes>>
    BY <1>2, <2>2, AlertMoves DEF AlertStep, pipelineVars, Types, PartsOK
  <2>3. CASE Rests
    BY <1>2, <2>3, RestFacts
  <2>4. CASE Dies
    BY <1>2, <2>4 DEF Dies, Pipeline!CrashServer, Alert!Crash
  <2>5. QED  BY <1>2, <2>1, <2>2, <2>3, <2>4, Kinds
<1>3. crashes = serverCrashes /\ Types /\ [Next]_vars => (crashes = serverCrashes)'
  BY <1>2
<1>4. QED  BY <1>1, <1>3, TypesInvariance, PTL DEF Spec

(* For each sample lost there is an error that the worker counted. *)
LossesCounted == Cardinality(Pipeline!Lost) <= Pipeline!ErrorsCounted

LEMMA FlowErrors == Flow!ErrorsCounted = Pipeline!ErrorsCounted /\ Flow!Lost = Pipeline!Lost
<1>1. \A f : Flow!SumFunction(f) = Pipeline!SumFunction(f)
  BY DEF Flow!SumFunction, Flow!SumFunctionOnSet, Flow!FoldFunctionOnSet, Flow!MapThenFoldSet,
         Pipeline!SumFunction, Pipeline!SumFunctionOnSet, Pipeline!FoldFunctionOnSet,
         Pipeline!MapThenFoldSet
<1>2. [w \in Worker |-> Flow!Errors(w)] = [w \in Worker |-> Pipeline!Errors(w)]
  BY FlowState
<1>3. Flow!ErrorsCounted = Pipeline!ErrorsCounted
  BY <1>1, <1>2 DEF Flow!ErrorsCounted, Pipeline!ErrorsCounted
<1>4. Flow!Lost = Pipeline!Lost
  BY DEF Flow!Lost, Pipeline!Lost, Flow!UnderWay, Pipeline!UnderWay
<1>5. QED  BY <1>3, <1>4

LEMMA LossesAccounted == Spec => []LossesCounted
<1>1. Flow!Spec => []Flow!LossAccounted
  BY Flow!LossIsAccounted, FlowAssumption
<1>2. Flow!LossAccounted /\ Types /\ crashes = serverCrashes => LossesCounted
  <2> SUFFICES ASSUME Flow!LossAccounted, Types, crashes = serverCrashes
               PROVE  LossesCounted
    OBVIOUS
  <2>1. Flow!ErrorsCounted \in Nat /\ crashes \in Nat
    BY Flow!SumsType, FlowAssumption, FlowTypeOK DEF Types, PartsOK
  <2>2. Cardinality(Flow!Lost) <= Flow!ErrorsCounted + (crashes - serverCrashes)
    BY SameCardinality DEF Flow!LossAccounted
  <2>3. Cardinality(Flow!Lost) <= Flow!ErrorsCounted
    BY <2>1, <2>2
  <2>4. QED  BY <2>3, FlowErrors DEF LossesCounted
<1>3. QED
  BY <1>1, <1>2, ImplementsPipeline, FlowSpec, TypesInvariance, SameCrashes, PTL

(* What is owed at the end is a cooldown wasted. *)
LEMMA OwedIsWasted ==
  ASSUME Types, StoreAnswers, OneAtATime, NEW m \in Machine, Owed(m),
         store[Server] \in {Kept, None}
  PROVE  CooldownWasted(m)
<1> DEFINE N == Alert!Notifying(Kept, m)
<1>1. \A g \in N : Evaluates(g, m) /\ task[g].mach = m /\ task[g].pc = "notifyAlert"
  BY IdleTask DEF Alert!Notifying, Types, TasksServed, Evaluates
<1>2. N = {} \/ \E h \in Handler : N = {h}
  BY <1>1 DEF OneAtATime, Evaluates, Alert!Notifying
<1>3. Cardinality(N) = 0 \/ (Cardinality(N) = 1 /\ At(m, {"notifyAlert"}))
  BY <1>1, <1>2, FS_EmptySet, FS_Singleton DEF At, Alert!Notifying
<1>4. Won(m) \in Nat /\ Tried(m) \in Nat /\ Kept \in Alert!Store
  BY CooldownTypes, KeptStore DEF Types, PartsOK
<1> HIDE DEF N
<1>5. Won(m) > Tried(m) + Cardinality(N)
  BY <1>3, <1>4 DEF Owed
<1>6. QED  BY <1>4, <1>5, SameCardinality DEF CooldownWasted, Won, Tried, N

(* No alert is lost without a trace between the agent and the notifier, as long *)
(* as the store keeps what it is told: a machine that breaches AlertTriggerCount *)
(* times in a row, in samples the server accepted, has been notified once these  *)
(* samples are no longer under way; or one of these very samples was lost, and   *)
(* the worker counted an error for each sample lost (README.md:204-220); or the  *)
(* server died between the cooldown and the notification (main.go:401-423).      *)
(* The losses of the pipeline, the order it keeps, and the counting of the       *)
(* alerting make this together.                                                  *)
THEOREM AcceptedBreachesAreNotified ==
  OneWorker /\ CountsOutlive => (Spec => []AcceptedBreachNotified)
<1> SUFFICES ASSUME OneWorker, CountsOutlive PROVE Spec => []AcceptedBreachNotified
  OBVIOUS
<1>1. CASE ~StoreAnswers
  <2>1. AcceptedBreachNotified
    BY <1>1, CompositionAssumption DEF AcceptedBreachNotified, StoreKeeps, StoreAnswers
  <2>2. QED  BY <2>1, PTL
<1>2. CASE StoreAnswers
  <2> DEFINE Known == /\ Types /\ OneAtATime /\ SpanInv /\ LossesCounted /\ NoticedInv
  <2>1. Known => AcceptedBreachNotified
    <3> SUFFICES ASSUME Known, StoreKeeps, NEW m \in Machine,
                        NEW k \in 1 .. MaxSamples - AlertTriggerCount + 1,
                        SustainedBreach(m, k), ~LossCounted(m, k), ~CooldownWasted(m)
                 PROVE  P0s(m) > 0
      BY DEF AcceptedBreachNotified, P0s
    <3>1. PICK j \in Nat : j = k + AlertTriggerCount - 1
      BY CompositionAssumption
    <3>2. /\ k \in 1..MaxSamples /\ j \in 1..MaxSamples
          /\ k <= j /\ j - k + 1 = AlertTriggerCount
      BY <3>1, CompositionAssumption
    <3>3. NoticedAt(m)
      BY CompositionAssumption DEF NoticedInv, Holding, StoreKeeps
    <3>4. ASSUME NEW i \in k..j
          PROVE  breach[m][i] /\ <<m, i>> \in finished
      <4>1. PICK s \in Window(m, k) : s = <<m, i>>
        BY <3>1 DEF Window
      <4>2. s[1] = m /\ s[2] = i
        BY <4>1
      <4>3. Breaching(s) /\ s \in accepted /\ ~Pipeline!UnderWay(s)
        BY DEF SustainedBreach
      <4>4. s \notin Pipeline!Lost
        BY DEF LossCounted, LossesCounted
      <4>5. QED  BY <4>1, <4>2, <4>3, <4>4 DEF Pipeline!Lost, Breaching
    <3>5. Breached(m, k, j)
      BY <3>4 DEF Breached, Done
    <3>6. P0s(m) > 0 \/ Owed(m) \/ Raising(m, j)
      BY <3>2, <3>3, <3>5 DEF NoticedAt, RaisedAt
    <3>7. ~Raising(m, j)
      BY <3>2, <3>4 DEF Raising
    <3>8. ~Owed(m)
      BY <1>2, OwedIsWasted DEF SpanInv
    <3>9. QED  BY <3>6, <3>7, <3>8
  <2>2. Spec => []Known
    BY <1>2, TypesInvariance, OneAtATimeInvariance, SpanInvariance, LossesAccounted,
       NoticedInvariance, PTL
  <2>3. QED  BY <2>1, <2>2, PTL
<1>3. QED  BY <1>1, <1>2
=============================================================================
