# cloudops-monitor in TLA+

TLA+ models of the cloudops-monitor server, agent, worker and operator, the TLC
runs that check them on small instances, and TLAPS proofs of what matters most
for every instance. Paths below are relative to the repository.

## The system

```
agent --POST /metrics--> server --direct--> VictoriaMetrics, evaluateCPUAlert --> webhook
                           |                        ^                |  |
                           +--kafka--> topic --> worker (POST        |  +--> MySQL: alert events
                                                 /metrics/process)   +--> Redis or memory: counts, cooldowns
agent --POST /machines/register--> server --> MySQL: machines
operator --(Kubernetes API)--> ConfigMap, Deployments, DaemonSet, status
client --/triage--> assistant --/api/v1/alerts/recent--> server --> MySQL
                         +-----> language model
```

| Component | State | Operations | Hard part | What makes it correct |
|---|---|---|---|---|
| CPU alerting (`main.go` 375-509, `alert_event.go`, `server_metrics.go`) | audit rows, notification counter | `evaluateCPUAlert`, `saveAlertEventObserved` | many goroutines and replicas, five external calls in a row, each may fail | alerts and recoveries say what happened; at most one P0 per cooldown; rows and counters never tell another outcome of a P0 than it had |
| Alert store (`alert_store.go`) | breach counts, cooldowns | increment, get, reset, try-acquire | concurrency, key expiry, lost replies, fallback to memory | each operation is atomic |
| Notifier (`notifier.go`) | none | notify alert, notify recovery | HTTP failure | see alerting |
| Ingest handlers and publisher (`main.go` 191-358, `internal/ingest/publisher`) | counters | `/metrics`, `/metrics/process` | abandoned requests run on, ambiguous publishes | an accepted sample is evaluated, or its loss is counted |
| Worker (`cmd/worker`) | the message in hand, the group's offsets | read, commit, forward | commit before forward, rebalances, 5 s timeout | nothing in the topic is skipped; one worker delivers nothing twice; counters form a funnel |
| Agent (`agent/main.go`) | registered or not, retry times | register with retry, report loop | retries racing with what they retry | it always comes to report, and gets registered |
| Machine registry (`main.go` 86-139) | table `machines` | upsert of two or three statements | no transaction | one current row for each registered machine; each request is one atomic write or none |
| Operator (`cmd/operator`) | status of the resource | `reconcile` every 15 s | nine API calls with edits, conflicts and failures in between | Ready can be believed; it converges; no lost update |
| Start of the server (`db.go`, `main.go` 48-84, `config.go`) | attempts, the chosen store | load configuration, open MySQL with retries, migrate, choose the store | it gives up, and is started again; dependencies change between the steps | it comes to serve once MySQL stays up |
| Health check (`health.go`) | none | ping three dependencies | one 2 s budget for three checks in a row | up and degraded can be believed |
| Recent alerts query (`main.go` 141-189), assistant (`cmd/assistant`) | none | fetch alerts, pick the one asked about, diagnose | rows are saved late and out of order; server, MySQL, language model may fail | the alert asked about is shown, an undelivered P0 surfaces, every triage is answered |
| Tracing, logs, manifests | none the program writes | | | not modelled, see below |

## Modules

| Module | Models | Instances |
|---|---|---|
| `AlertEvaluation` | evaluation on any number of replicas, Redis, webhook, MySQL | `MCAlertEvaluation` |
| `AlertStore` | what evaluation expects of a store: atomic operations | through `MemoryAlertStore` |
| `MemoryAlertStore` | the in-memory store at the level of its mutex; implements `AlertStore` | `MCMemoryAlertStore` |
| `IngestPipeline` | agent, ingest handlers, topic, workers, process handler | `MCIngestPipeline` |
| `MachineRegister` | what the register endpoint promises: each request is one atomic write of its machine's row, or none | through `MachineRegistry` |
| `MachineRegistry` | registration by the agent and the upsert of the handler; implements `MachineRegister` | `MCMachineRegistry` |
| `AlertPipeline` | `IngestPipeline` and `AlertEvaluation` composed, from the agent's sample to the notification | `MCAlertPipeline` |
| `CloudOpsOperator` | `reconcile`, in one or more operator pods, and those who edit what it reconciles | `MCCloudOpsOperator` |
| `ServerLifecycle` | the server from start to death, and its health check | through `AssistantTriage` |
| `AssistantTriage` | the assistant and the alerts query, on top of `ServerLifecycle` | `MCAssistantTriage` |
| `AlertEvaluationProofs`, `MemoryAlertStoreProofs`, `IngestPipelineProofs`, `MachineRegistryProofs`, `CloudOpsOperatorProofs`, `AssistantTriageProofs` | theorems about the module each is named after | |
| `SumTheorems` | facts about sums of finite functions, for the counters | cited by `AlertEvaluationProofs` and `IngestPipelineProofs` |
| `AlertPipelineProofs` | theorems about the composition | instances of `IngestPipelineProofs` and `AlertEvaluationProofs` |

**AlertEvaluation.** `task[h]` is a goroutine inside `evaluateCPUAlert`: its
program counter names the next external call, `n` is the local `count` or
`prevCount`, `status` the local `notifyStatus`. One action is one call:
`IncrementCPUBreach` and `ExpireCount` are the two Redis commands of the first
method, in memory the first alone. `store[r]` is what `initAlertStore` gave
process `r`: `Redis` or `r` itself, whose memory dies with it. A Redis call may
fail or take effect and lose its reply (`CallResult`); an expired key is a missing
key (`Count`). `serverAlertNotificationsTotal[r]` is the Prometheus counter of
process `r`: it is incremented after the webhook has answered (`NotifyCPUAlert`,
then `CountNotification`), and a process that dies takes it with it. `won`,
`attempts`, `streak`, `ended`, `alerted` and `notified` are history: no action
reads them.

**MemoryAlertStore / AlertStore.** A method is the steps lock, load, store,
unlock, and the clock may tick between any two. A call takes effect, for the
refinement, when it loads: there `TryAcquireCooldown` reads the clock. Until the
store the maps lag behind, and the refinement mapping adds what is pending.

**IngestPipeline.** `handler[h]` is a request inside the server, `worker[w]` the
loop of a worker, `agent[m]` that of an agent. A client that gives up (`GiveUp`),
or dies, leaves its handler running with its context cancelled. `FetchMessage` and
`CommitMessages` are the two halves of `ReadMessage`. The broker and the client
library are outside the repository and modelled from how they are used: a
rebalance hands partitions out anew and restarts them at the committed offset; a
commit of a message fetched before a rebalance is let through; a failed commit may
have been made. The counters are those of the processes that now run, which is
what `/metrics` shows: a death resets them. `retired` is history, the errors that
workers had counted when they died, and `finished` the samples of which an
evaluation has come to its end. Evaluation itself is the step from `evaluate` to
the answer: it fails silently in the code, and is the subject of
`AlertEvaluation`, whose `Overlap` constant is what `EvaluatedSerially` decides.
`ingestMode` is the mode of the running server: a restart may change it.

**MachineRegistry.** One action for each statement of the handler; a statement
that reports an error may have been executed, the unique index refuses a second
row. The agent's back-off is only a delay and left out, so is the text of
requests; `ip` stands for everything an agent registers and changes when it
restarts, `sampled` for whether `cpu.Percent` works in that process. 400 answers
change nothing and agents never get them.

**MachineRegister.** What the handler amounts to if its statements are taken as
one: the address of a request gets into the row at one instant, or not at all; 200
says that it did, 500 leaves it open. That instant is the INSERT or the UPDATE, in
the step that answers or before it: the mapping `Stage` has a request `asked`
until it is updated and `written` while the row is read for the answer. A client
that times out, restarts or goes on to its next attempt is `Abandon`, the rest of
the report loop stutters.

**CloudOpsOperator.** Every object has a part that reconcile always sets
(addresses and mode, replicas) and one it sets only when the spec gives it (OTel
endpoint, image). `Get` and `Update` are separate actions, the API server refuses
an update of an old version, an update that changes nothing makes no new version.
Objects in `Missing` may not exist at first, editors create and delete objects at
any time, the containers the operator looks for in the others do. `Operator` are
the pods that reconcile: one normally, two during a rolling update, without leader
election; each dies and starts on its own. `intended` and `drifted` are history.

**AlertPipeline.** The two modules are instantiated on one set of variables and
stepped together as `processMetricsPayload` does: a written sample starts
`evaluateCPUAlert` in the goroutine of its handler, which answers when that
returns; a server crash is the crash of both. Whether a sample breaches is fixed
when it is measured, so that a duplicated message repeats it. Two things the
composition has besides: `StoreKeeps`, whether the store has kept what it was told
(a Redis that answers, or the memory of a server that has not died), and
`CooldownWasted`, a cooldown taken by a process that died before it notified.
Clients that give up, and workers that die, are left to `PipelineLoss`: there the
assumption `CompositionAssumption` of this module does not hold.

**ServerLifecycle.** `server` is where `main` is, `dep` the condition of MySQL,
Redis and VictoriaMetrics (`up`, `slow`, `down`, `hung`), which may change between
any two steps. Time is only the budget of a health request: a slow answer costs
`Slow` of `Budget` ticks, a hanging one all that is left. `AutoMigrate`'s dropped
error is modelled: the server then serves without its tables.

**AssistantTriage.** `rows` is the table of alert events, `saving` what
`evaluateCPUAlert` has notified, as a P0 or a RECOVERY, and not yet saved: rows
get their ids in another order than their alerts were triggered. `delivered` is
whether the webhook took it; the row says so of a P0, and `sent` of every RECOVERY
(`NotifyStatus`). A triage is the fetch, which fails when the server, its tables
or MySQL do, and the diagnosis, which may fail for any reason. `known` is history.

## What is checked

All runs finish without error unless marked **violated**.

| Run | Question | Bounds |
|---|---|---|
| `AlertSerial` | Do P0 and RECOVERY say what happened, is every P0 closed by a RECOVERY, and a sustained breach notified, when a machine's samples are evaluated one by one and webhook and MySQL fail? | 1 machine, 2 replicas, 6 samples, 3 ticks, trigger count 2, cooldown 2, counts that outlast the run, fair |
| `AlertConcurrent` | Does the cooldown bound P0s, and are the P0 audit and the P0 counter truthful, with overlap, expiring counts, lost replies, memory fallback and a process that dies with its counter? | 1 machine, 2 replicas, 2 goroutines, 4 samples, 3 ticks, 1 crash |
| `AlertAfterRedisError` | **violated**: `AlertMeansConsecutive` when Redis fails | 5 samples |
| `RecoveryAudit` | **violated**: the row of a RECOVERY tells how it ended | 3 samples |
| `MemoryStore` | Is every method of the memory store atomic? | 3 goroutines, 4 calls, 3 ticks |
| `PipelineLoss` | Is every lost sample accounted for, and do the counters of the running processes form a funnel, in both modes and when the mode changes? | 2 samples, 2 workers, 2 handlers, 1 partition, 1 crash |
| `AlertPipeline` | In the deployed configuration, are samples evaluated one at a time and in order, and no message twice, does a P0 never span a normal sample, has every streak its one RECOVERY, and is no accepted breach lost without a trace? | 1 machine with 3 samples, 1 worker, 1 partition, 2 handlers, trigger count 2, publish and VictoriaMetrics errors, 1 crash of the server |
| `PipelineRecovery` | Is the topic read to its end after a crash? | 2 workers, 2 partitions, 2 samples, 1 crash, fair |
| `Registry` | Is the row of a registered machine the one it registered? Is a request one atomic write of it, or none? Does the agent come to report, and get registered, in the end? | 1 machine, 3 handlers, 3 attempts, 3 faults, 1 restart, the server may stay down, fair |
| `RegistryRace` | **violated**: registering again reports no error | 1 timeout |
| `Operator` | Can Ready be believed, is no edit lost, do the workloads settle on the spec, with two operators at once and objects created, changed and deleted? | 2 operators, 2 images, 1 edit, 1 fault, fair |
| `AssistantTriage` | Does the server come to serve, can its health check be believed, does the assistant always answer, and show the alert asked about and the P0s that were not delivered? | 2 machines, limit 2, four scenarios: 1 health request with all dependencies varying; 1 P0 and 1 triage with MySQL varying; 1 P0, 1 RECOVERY and 1 triage; 3 P0s and 1 triage; fair |

**Why the bounds are enough.** Two goroutines, handlers or workers are what an
interleaving needs: each invariant speaks of one machine, partition or object
and a pair of actors. Six samples are a streak, its end, a streak again and its
end with a trigger count of 2; three ticks let a cooldown of 2 end and a second
one begin. A crash, a restart and a rebalance all happen within one crash. Where
a proof exists the bound does not matter. `AlertPipeline` needs three samples for
a streak of two and its end; the crash may come between the cooldown and the
notification, or cut an evaluation short, so that both excuses of
`AcceptedBreachNotified` occur, and a VictoriaMetrics error is the other loss.
The scenarios of `AssistantTriage` keep apart what does not interact: a health
request reads the dependencies only, a triage MySQL and the rows only, and the
window of the query needs three alerts but no failure. Its run does not check
deadlock: when the scenario is spent and every request answered, nothing more
happens. Two things the runs leave to the proofs, which hold for every value of the
constants: a count that expires during a streak (`AlertsAreConsecutive`,
`RecoveriesReportStreaks`), and a single worker that dies, times out, fails to commit
or reads several partitions (`MessagesDeliveredOnce`).

**Symmetry** is used for goroutines, replicas, workers, machines and partitions in
runs that check invariants only (`AlertConcurrent`, `PipelineLoss`,
`AlertPipeline`); no definition tells them apart. `AlertPipeline` has a `VIEW`
too: states that differ only in counters and history that no guard and none of its
properties reads are one state.

**Fairness.** Weak fairness of a goroutine's or worker's step: every call it makes
returns or times out (3 s for VictoriaMetrics, 5 s for the webhook and for the
clients of the server, the defaults of the Redis and MySQL clients). Of starting a
process: Kubernetes restarts it. Of a rebalance: the coordinator completes it. Of
`main`'s steps and of the handlers of the health check and the triage, in
`AssistantTriage`: attempts and sleeps are bounded, calls have timeouts (2 s for
the health check, 5 s for the fetch, `LLM_TIMEOUT_SECONDS` for the diagnosis). Of
the operator's step and of `RetryDue`: the ticker fires, the 30 seconds pass.
Samples, faults, crashes and edits are never fair. Errors and edits are counted,
so they end; the server of `Registry` may stay down for ever, and
`EventuallyRegistered` leaves out an agent that is turned away for ever.

## Findings

1. `AlertAfterRedisError`: when Redis fails on a normal sample the old breach
   count stays, and a later P0 claims consecutive breaches that were not
   (`main.go:408`, `459-470`).
2. `RecoveryAudit`: a RECOVERY row says `sent` whatever happened
   (`main.go:499` against `alert_event.go:9`).
3. `RegistryRace`: concurrent first registrations of one machine, such as one
   that timed out and its retry, end in a 500 (`main.go:103-116` against
   `test.http:18`).

Read in the code, and left without a run: RECOVERY notifications are not counted
(`main.go:486-489`, `server_metrics.go:49`); a failed P0 keeps its cooldown, so
that the next one is skipped as a repetition (`main.go:401`, `453`); an agent
without CPU samples skips its registration retry (`agent/main.go:67-71`, `56`);
the operator adjusts workloads and never creates them
(`cmd/operator/main.go:156,173,186`, `docs/phase3-phase4-roadmap.md:307-308`).
The models have all four. An INCR that Redis refuses drops an accepted breach with a
log line and no counter (`main.go:386-391`): `AcceptedBreachNotified` is therefore
stated of a store that keeps what it is told (`StoreKeeps`). A server that dies
between cooldown and notification suppresses the P0 until the cooldown ends, and
no counter shows it (`CooldownWasted`). The comparison of counters that
`README.md:204-220` of the repository describes is sound between the worker and the server
only as long as the server has not been started again: `FunnelAgrees` says which
comparisons always are.

A sample lost because its worker died between commit and forward is not listed:
the code promises no delivery. `LossAccounted` states what does hold of losses: each has an error some worker
counted, or the death of a worker, to account for it, also one whose evaluation the
death of the server cut short (its worker then counts the broken connection). The
counter may have gone with its worker since; a reader of `/metrics` needs what
Prometheus scraped before. `EvaluatedAtMostOnce` states what is gained by committing
first.

## What is proved

From `ConstantsAssumption` alone (any numbers of replicas, machines, any finite
number of goroutines, any thresholds), in `AlertEvaluationProofs`:

* `TypeCorrect`: `Spec => []TypeOK`, one lemma for each action.
* `EveryP0HasItsCooldown`: `Spec => []CooldownAccounts`. The inductive invariant
  is `TypeOK /\ CooldownAccounts`. The rate alone is not inductive: nothing in it
  forbids a goroutine that is about to notify without a cooldown.
  `CooldownAccounts` counts those goroutines with the attempts, bounds both by
  the cooldowns taken from the store, and these by the time they take.
* `P0RateIsBounded`: `Spec => []P0RateBounded`, arithmetic from the two above.
* `P0AuditIsTruthful`: `Spec => []P0AuditAgrees`, which with `TypeOK` is inductive:
  a goroutine about to save counts with the rows, and each step moves one
  goroutine into or out of those that are.
* `P0CounterIsTruthful`: `IsFiniteSet(Machine) /\ IsFiniteSet(Replica) => (Spec =>
  []P0CounterAgrees)`. Nothing bounds these sets in the module, and a sum over an
  infinite one means nothing. What the counters of the running processes show, with
  the goroutines between the webhook's answer and the increment, is at most what
  happened, and exactly that until a process dies: each step of a goroutine moves
  one from the notified to the counting to the counted, a death only takes away.
  The sums come from `SumTheorems`: one grows by as much as one summand does
  (`SumChanges`), which needs that the sum over any finite set exists. That is an
  induction over the set, done on the least cardinality that fails (`NoneIsLeast`), a
  set of numbers, as the induction rules of the library are out of the prover's
  reach.

In the same module, what the notifications say:

* `AlertsAreConsecutive` and `RecoveriesReportStreaks`: `OneStore => (Spec =>
  []...)`. `OneStore` is what run `AlertSerial` assumes: samples of a machine do
  not overlap, and one store keeps the counts, either a Redis that does not fail
  under processes that do not die, or the memory of a single server, which may
  die. The properties speak of a goroutine about to notify; `StreakInv` says for
  every place in `evaluateCPUAlert` how the count in the store, and the
  goroutine's copy of it, are bounded by the streak of the machine, or, once the
  reset of a normal sample is under way, by the one it ended. The bounds are
  inequalities, since a count may expire at any time.
* `AlertsAreClosed`: `Closing => (Spec => []AlertClosedByRecovery)`. `Closing`
  adds that nothing dies and no count expires: either would drop the count that
  makes the next normal sample a RECOVERY. `ClosingInv`: an open alert has its
  count in the store, or its RECOVERY under way.

From `MemoryAssumption`, in `MemoryAlertStoreProofs`:

* `MutexProtectsMaps`: `Spec => [](TypeOK /\ LoadedIsCurrent)`: only the holder
  of the mutex is inside a method, and what it loaded is current.
* `MemoryStoreIsAlertStore`: `Spec => ImplementsAlertStore`, step by step: `Begin`
  is `Begin`, `Load` is `Perform`, `Unlock` is `End`, `Lock` and `Store` stutter.

* `TypeCorrect`: the first part of `MutexProtectsMaps`, `Spec => []TypeOK`.

From `PipelineAssumption`, in `IngestPipelineProofs`: `TypeCorrect`,
`LossIsAccounted` (`Spec => []LossAccounted`) and `CountersFormFunnel`
(`Spec => []FunnelAgrees`). `LossAccounted` is not inductive: a rebalance takes a
partition back to a message that was given up, and forward again past one that
another worker has committed; and an orphaned handler keeps a sample under way
that its client has counted as lost. The invariant bounds `Gone` instead, the
accepted samples that no evaluation has finished and that are neither in a worker's
hands, nor ahead of everything that was read, committed or held of their partition.
`Gone` grows by one sample at most, and only in steps that count an error or in
which a worker dies, and it contains every sample that is lost. A death of the
server adds nothing: the worker it called has the sample in hand until it counts the
error. The funnel needs the answers on their way to be counted with the counters;
that the workers' successes are processed is claimed until a server dies, the rest
always, since each process compares its own counters.

`SamplesAreSerial`: `OneWorker => (Spec => []EvaluatedSerially)`, one worker, one
partition, mode kafka, no client that gives up and no worker that dies (with
either, a handler is left running and the next sample overtakes it). Its invariant
`SerialInv` orders what was evaluated, what the worker holds, what is still to be
read and what the agent sends next, says whose request each handler serves, and
that the partition was assigned before anything was read.

`MessagesDeliveredOnce`: `OneConsumer => (Spec => []EvaluatedAtMostOnce)`, one worker,
any finite number of partitions, mode kafka and every kind of fault. The property
compares what was evaluated with what is committed and says nothing of what is on
its way. `Delivered` counts with the evaluated copies of a sample those that a
handler has yet to write and those the worker has yet to forward, so that each
step hands a copy on, drops it, or adds one while it commits one. That a commit is
of something new is `Fetched`: the group's offset is behind the fetched message;
it holds because the worker has nothing in hand when a rebalance sets its position
back (`Assigned`), which is where two workers would break it.

From `RegistryAssumption`, in `MachineRegistryProofs`: `TypeCorrect` and
`RowCurrent` (`Spec => []RowIsCurrent`). `RowIsCurrent` says nothing of requests
under way. The invariant adds that an agent waits for one request at a time
(`ClientsOK`) and that, if none was left behind, that is the only request about
its machine (`AloneOK`): the row cannot change any more once it is answered.

`HandlerIsRegister`: `Spec => ImplementsRegister`, step by step: `PostRegister` is
`Ask`, or `Abandon` when the server is not there; the SELECT stutters or fails; an
INSERT is `Succeed` in a table without the row and `Fail` in one that has it, the
UPDATE is `Write`, the last read `Succeed` or `Fail`; a statement that reports an error is
`Fail` with or without its write. Of the invariant it takes the types only.

From `OperatorAssumption`, in `CloudOpsOperatorProofs`, for any number of pods:
`TypeCorrect`, `UpdatesKept` (`Spec => []NoLostUpdate`) and `ReadyHolds`
(`Spec => []ReadyMeansApplied`). The invariant says that what a pod is about to
update is what it read if the version is still the one it read (`Fresh`), that a
pod which works on the current generation has left every object it came past as
the spec says, or drifted since (`Progress`). An object that a pod with an older
spec writes counts as drifted (`Overtaken`).

From `LifecycleAssumption` and `TriageAssumption`, in `AssistantTriageProofs`:
`AskedIsShown` (`Spec => []AskedAlertShown`) and `FailureAdvised`
(`Spec => []FailureSurfaces`, which is about P0s). A triage is answered from the rows of one moment
and judged by those of a later one. Rows are only added: an alert that is among
the newest now was among them then. `TypeCorrect` is `Spec => []TypeOK`, for which
ids and places in the order of `triggered_at` must be given once: the invariant
counts the rows and what is being saved. `HealthIsTruthful` (`Spec =>
[]HealthTruthful`): `HealthInv` says of a request in the middle of its
checks what each check already made has seen, and that the budget left is what
the slow ones did not use.

From `CompositionAssumption`, in `AlertPipelineProofs`:

* Two lemmas, `ImplementsPipeline` (`Spec => Pipeline!Spec`) and `ImplementsAlerting`
  (`Spec => Alert!Spec`). The composition conjoins the actions of the two modules, so
  they follow from its definitions; they carry over what is proved of the two:
  `SamplesAreSerial`, `MessagesDeliveredOnce` and the account of losses.
* `TypeCorrect`: `Spec => []TypeOK`. A goroutine evaluates the sample of the
  request it handles and no other, so no evaluation outlives its request.
* `ImplementsSerialAlerting`: `OneWorker => (Spec => Serially!Spec)`. One worker
  makes the composition an alerting without overlap, so that the theorems on streaks
  apply: `NotificationsReportStreaks` is `AlertMeansConsecutive` and
  `RecoveryReportsStreak` end to end, for a store that keeps the counts
  (`CountsKept`).
* `AlertsSpanNoNormalSample`: `OneWorker /\ StoreAnswers => (Spec =>
  []AlertSpansNoNormalSample)`. `StoreAnswers`: memory, or a Redis that does not
  fail; the server may die anywhere. `SpanInv`: the count in the store is at most
  the breaches since the last normal sample that was processed to its end, and a
  goroutine about to notify claims no more than these.
* `StreaksEndInOneRecovery`: with `CountsOutlive` besides (no count expires during
  the run), `Spec => []OneRecoveryPerStreak`. `RecoveryInv` counts with the
  RECOVERYs attempted the one that is about to be sent and the one that a count
  still in the store will make. For "none is left out" `ExactInv` makes that
  bound an equality as long as the server has not died: it needs that keys do not
  expire (`Lasting`) and that whatever is evaluated is the last sample of
  `evaluated` (`EvaluatesLast`).
* `AcceptedBreachesAreNotified`: `OneWorker /\ CountsOutlive => (Spec =>
  []AcceptedBreachNotified)`, the server dying anywhere, as long as `StoreKeeps`.
  `NoticedInv`: samples that breach in a row and were counted have a count of as many
  at least until a normal one ends them; a run of `AlertTriggerCount` of them has been
  notified, is about to be, or a cooldown is owed (`Owed`: more were taken than
  were, or are about to be, used); and nothing cools down without a cooldown taken.
  That a sample whose evaluation has ended comes before everything that will be
  evaluated is `FinishedBefore`, from `EvaluatedSerially`. The theorem then joins
  three: if none of the samples in question was lost, all of them are finished, so
  that they are such a run; if one was, `LossIsAccounted` and the absence of worker
  deaths give as many errors as losses (`LossesAccounted`); and what is owed when
  nobody is about to notify is a cooldown wasted (`OwedIsWasted`).

`OneWorker` is the deployment of `deployments/k8s`, as long as no client gives up
and the worker does not die; the constants of run `AlertPipeline` satisfy every
hypothesis.

**Only model-checked:** all liveness, which is out of the prover's reach
(`SustainedBreachNotified`, `TopicDrained`, `ReportsRegardless`,
`EventuallyRegistered`, `Converges`, `EventuallyServes`, `TriageAnswered`). Every
invariant of a passing run and both refinements are proved. There are no recursive
definitions.

## Not modelled

* Tracing and logs: no state that the program reads. Manifests: replica and
  partition counts are taken from them.
* Of the configuration, everything but what the start depends on: the other
  values are the constants of the modules.
* The assistant's query links and texts; requests refused with 400 or 405; the
  `level` and `notify_status` filters of the alerts query, which no caller uses.
* Message texts, provider formats, the parsing of requests, histograms.
* Redis losing its data (the manifest gives it no volume), and clocks of
  different machines: the model has one clock.
* Pods reading the ConfigMap only at start: listed as a hazard. When they do is
  not decided by code of this repository.
* In the composition: clients that give up and workers that die, which
  `IngestPipeline` models alone. What a cancelled context does inside the Redis
  client between two commands.

## Plan

Done: alerting, the memory store and its refinement, the pipeline, the registry,
the operator with several pods, the composition of pipeline and alerting, the
server's life, the health check and the assistant. End-to-end delivery is given
in parts: `TopicDrained` (what is in the topic is read), `SustainedBreachNotified`
(what is evaluated is notified) and, as safety of the composition,
`AcceptedBreachNotified`.

Every invariant of a passing run is proved, and both refinements are. What would
come next:

1. `IngestPipeline` with one worker as an abstract channel that loses messages, and
   neither reorders nor repeats them: `EvaluatedSerially` and `EvaluatedAtMostOnce`
   are what such a channel promises.
2. The same refinement for several workers, where messages are repeated.
