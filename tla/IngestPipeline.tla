---------------------------- MODULE IngestPipeline ----------------------------
(***************************************************************************)
(* The way of a sample from an agent to evaluateCPUAlert: the report loop   *)
(* of agent/main.go, the two ingest handlers of main.go, the publisher      *)
(* (internal/ingest/publisher/kafka.go), the topic and the consumer loop of *)
(* cmd/worker/main.go.                                                      *)
(*                                                                          *)
(* In direct mode the ingest handler processes the sample itself.  In kafka *)
(* mode it publishes it; a worker reads it and posts it back to the process *)
(* handler.  A client waits for one answer at a time and gives up after 5   *)
(* seconds, but its handler then still runs.                                *)
(***************************************************************************)
EXTENDS Integers, FiniteSets, Functions, Sequences

CONSTANTS
  Machine,     \* machine ids, one agent each
  Partition,   \* partitions of KAFKA_TOPIC
  Worker,      \* processes of the consumer group
  Handler,     \* goroutines in which the server can be handling a request
  None,        \* no client, no worker
  IngestModes, \* the values of INGEST_MODE the server is started with
  Faults,      \* what may go wrong: a subset of FaultKind
  MaxSamples,  \* samples of one agent, a bound
  MaxCrashes   \* crashes of workers and of the server, a bound

FaultKind == {"vm", "publish", "commit", "timeout", "worker", "server"}

ASSUME PipelineAssumption ==
  /\ IsFiniteSet(Handler) /\ IsFiniteSet(Worker) /\ IsFiniteSet(Machine)
  /\ Machine \cap Worker = {}
  /\ None \notin Machine \cup Worker
  /\ IngestModes \subseteq {"direct", "kafka"} /\ IngestModes # {}
  /\ Faults \subseteq FaultKind
  /\ MaxSamples \in Nat /\ MaxCrashes \in Nat

Client == Machine \cup Worker
Sample == Machine \X (1..MaxSamples)
NoSample == <<None, 0>>
Status == {200, 202, 500}

VARIABLES
  agent,      \* agent[m]: what the agent of m does
  worker,     \* worker[w]: what worker w does
  handler,    \* handler[h]: the request in goroutine h
  log,        \* log[p]: the messages of partition p
  committed,  \* committed[p]: the group's committed offset
  position,   \* position[p]: how far the owner of p has fetched
  owner,      \* owner[p]: the worker to which p is assigned
  members,    \* the workers of the group's current generation
  workerKafkaMessagesTotal,  \* [w][label]: the Prometheus counters of the
  workerForwardTotal,        \* process that worker w is now
  serverProcessTotal,        \* those of the server, their "success" label: of
  serverVMWritesTotal,       \* /metrics/process, and of the writes
  evaluated,  \* evaluated[m]: the samples evaluateCPUAlert got, in order
  crashes,    \* deaths of workers and of the server, a bound
  serverCrashes, \* those of the server
  ingestMode, \* the mode of the running server
  retired,    \* history: errors counted by the workers that have died
  accepted,   \* history: samples whose agent was answered 200 or 202
  finished    \* history: samples of which evaluateCPUAlert has returned
environment == <<crashes, serverCrashes, ingestMode>>
group == <<committed, position, owner, members>>
workerCounters == <<workerKafkaMessagesTotal, workerForwardTotal, retired>>
serverCounters == <<serverProcessTotal, serverVMWritesTotal>>
vars == <<agent, worker, handler, log, group, workerCounters, serverCounters,
          evaluated, environment, accepted, finished>>

\* sent counts the samples reported; reply is the answer that came, 0 if none,
\* and -1 when the connection failed or the 5 seconds are over.
Reply == Status \cup {0, -1}
Agent == [pc : {"collect", "wait"}, sent : 0..MaxSamples, reply : Reply]

\* The worker's msg, with its partition and offset.
NoWorker == [pc |-> "down", msg |-> NoSample, part |-> None, offset |-> 0, reply |-> 0]
Reading == [NoWorker EXCEPT !.pc = "read"]
WorkerState == [pc : {"down", "read", "commit", "forward", "wait"},
                msg : Sample \cup {NoSample}, part : Partition \cup {None},
                offset : Nat, reply : Reply]

NoRequest == [pc |-> "idle", path |-> "none", client |-> None, sample |-> NoSample]
Request == [pc : {"publish", "writeVM", "evaluate"}, path : {"metrics", "process"},
            client : Client \cup {None}, sample : Sample]

ReadResult == {"read", "read_error"}
ForwardOutcome == {"success", "error", "non_2xx"}
NoReads == [l \in ReadResult |-> 0]
NoForwards == [l \in ForwardOutcome |-> 0]

TypeOK ==
  /\ agent \in [Machine -> Agent]
  /\ worker \in [Worker -> WorkerState]
  /\ handler \in [Handler -> Request \cup {NoRequest}]
  /\ log \in [Partition -> Seq(Sample)]
  /\ committed \in [Partition -> Nat]
  /\ position \in [Partition -> Nat]
  /\ \A p \in Partition : committed[p] <= Len(log[p]) /\ position[p] <= Len(log[p])
  /\ owner \in [Partition -> Worker \cup {None}]
  /\ members \subseteq Worker
  /\ workerKafkaMessagesTotal \in [Worker -> [ReadResult -> Nat]]
  /\ workerForwardTotal \in [Worker -> [ForwardOutcome -> Nat]]
  /\ serverProcessTotal \in Nat
  /\ serverVMWritesTotal \in Nat
  /\ evaluated \in [Machine -> Seq(1..MaxSamples)]
  /\ retired \in Nat
  /\ crashes \in 0..MaxCrashes
  /\ serverCrashes \in 0..crashes
  /\ ingestMode \in IngestModes
  /\ accepted \subseteq Sample
  /\ finished \subseteq Sample

Init ==
  /\ agent = [m \in Machine |-> [pc |-> "collect", sent |-> 0, reply |-> 0]]
  /\ worker = [w \in Worker |-> NoWorker]
  /\ handler = [h \in Handler |-> NoRequest]
  /\ log = [p \in Partition |-> <<>>]
  /\ committed = [p \in Partition |-> 0]
  /\ position = [p \in Partition |-> 0]
  /\ owner = [p \in Partition |-> None]
  /\ members = {}
  /\ workerKafkaMessagesTotal = [w \in Worker |-> NoReads]
  /\ workerForwardTotal = [w \in Worker |-> NoForwards]
  /\ serverProcessTotal = 0
  /\ serverVMWritesTotal = 0
  /\ evaluated = [m \in Machine |-> <<>>]
  /\ crashes = 0
  /\ serverCrashes = 0
  /\ retired = 0
  /\ ingestMode \in IngestModes
  /\ accepted = {}
  /\ finished = {}

Inc(counter, w, label) == [counter EXCEPT ![w][label] = @ + 1]

\* Do has returned: with an answer, or with an error after 5 seconds at most.
WithoutTimeout(reply) == reply > 0                             \* mutant
InBackground(reply) == TRUE                                    \* mutant
Returned(reply) == reply # 0

\* The server does not accept the connection.
Unreachable == {"timeout", "server"} \cap Faults # {}

-----------------------------------------------------------------------------
(* The agent.  Whatever the answer, the next turn reports the next sample.    *)

\* httpClient.Post of the report loop.
Report(m) ==
  /\ agent[m].pc = "collect"
  /\ agent[m].sent < MaxSamples
  /\ \/ \E h \in Handler :
          /\ handler[h] = NoRequest
          /\ handler' = [handler EXCEPT ![h] =
               [pc |-> IF ingestMode = "kafka" THEN "publish" ELSE "writeVM",
                path |-> "metrics", client |-> m, sample |-> <<m, agent[m].sent + 1>>]]
          /\ agent' = [agent EXCEPT ![m] =
               [pc |-> "wait", sent |-> agent[m].sent + 1, reply |-> 0]]
     \/ /\ Unreachable
        /\ agent' = [agent EXCEPT ![m].sent = @ + 1]
        /\ UNCHANGED handler
  /\ UNCHANGED <<worker, log, group, workerCounters, serverCounters, evaluated,
                 environment, accepted, finished>>

AgentAnswered(m) ==
  /\ agent[m].pc = "wait" /\ Returned(agent[m].reply)
  /\ agent' = [agent EXCEPT ![m].pc = "collect", ![m].reply = 0]
  /\ UNCHANGED <<worker, handler, log, group, workerCounters, serverCounters,
                 evaluated, environment, accepted, finished>>

-----------------------------------------------------------------------------
(* The server.                                                                *)

\* An answer reaches the client that still waits for it.
AnswerTo(h, status) ==
  LET c == handler[h].client IN
  /\ handler' = [handler EXCEPT ![h] = NoRequest]
  /\ agent' = IF c \in Machine THEN [agent EXCEPT ![c].reply = status] ELSE agent
  /\ worker' = IF c \in Worker THEN [worker EXCEPT ![c].reply = status] ELSE worker
  /\ accepted' = IF c \in Machine /\ status # 500
                 THEN accepted \cup {handler[h].sample} ELSE accepted

\* PublishMetrics.  WriteMessages retries, so an error does not say that nothing
\* was written, nor a success that it was written once.  kafka.Writer without a
\* Balancer is round-robin: the key does not choose the partition.
WriteMessages(h, copies) ==
  \E p \in Partition :
    log' = [log EXCEPT ![p] = @ \o [i \in 1..copies |-> handler[h].sample]]

AnswerBeforeWrite(ok) == {0, 1}                                \* mutant
PublishedCopies(ok) ==
  IF ~ok THEN {0, 1} ELSE IF "publish" \in Faults THEN {1, 2} ELSE {1}

\* Both calls carry the request's context: it is cancelled when the client goes.
Cancelled(h) == handler[h].client = None

PublishMetrics(h) ==
  /\ handler[h].pc = "publish"
  /\ \E ok \in BOOLEAN :
       /\ ok \/ "publish" \in Faults \/ Cancelled(h)
       /\ \E copies \in PublishedCopies(ok) : WriteMessages(h, copies)
       /\ AnswerTo(h, IF ok THEN 202 ELSE 500)
  /\ UNCHANGED <<group, workerCounters, serverCounters, evaluated, environment, finished>>

\* What the handler answers once processMetricsPayload has returned.
ProcessStatus(err) == IF err THEN 500 ELSE 200

\* processMetricsPayload up to the call of evaluateCPUAlert.
WriteVM(h) ==
  LET m == handler[h].sample[1]  k == handler[h].sample[2] IN
  /\ handler[h].pc = "writeVM"
  /\ \/ /\ serverVMWritesTotal' = serverVMWritesTotal + 1
        /\ evaluated' = [evaluated EXCEPT ![m] = Append(@, k)]
        /\ handler' = [handler EXCEPT ![h].pc = "evaluate"]
        /\ UNCHANGED <<agent, worker, accepted>>
     \/ /\ "vm" \in Faults \/ Cancelled(h)
        /\ AnswerTo(h, ProcessStatus(TRUE))
        /\ UNCHANGED <<serverVMWritesTotal, evaluated>>
  /\ UNCHANGED <<log, group, workerCounters, serverProcessTotal, environment, finished>>

\* evaluateCPUAlert returns, whatever failed in it, and the handler answers.
Evaluated(h) ==
  /\ handler[h].pc = "evaluate"
  /\ serverProcessTotal' = IF handler[h].path = "process"
                            THEN serverProcessTotal + 1 ELSE serverProcessTotal
  /\ finished' = finished \cup {handler[h].sample}
  /\ AnswerTo(h, ProcessStatus(FALSE))
  /\ UNCHANGED <<log, group, workerCounters, serverVMWritesTotal, evaluated, environment>>

\* The client's 5 seconds are over.  Its handler goes on without it.
GiveUp(h) ==
  LET c == handler[h].client IN
  /\ "timeout" \in Faults
  /\ c # None
  /\ handler' = [handler EXCEPT ![h].client = None]
  /\ agent' = IF c \in Machine THEN [agent EXCEPT ![c].reply = -1] ELSE agent
  /\ worker' = IF c \in Worker THEN [worker EXCEPT ![c].reply = -1] ELSE worker
  /\ UNCHANGED <<log, group, workerCounters, serverCounters, evaluated, environment, accepted, finished>>

\* The server dies and is started again, maybe after its INGEST_MODE was edited:
\* its clients see a broken connection, and its counters start at 0 again.
CrashServer ==
  LET waitedFor == {handler[h].client : h \in Handler} IN
  /\ "server" \in Faults
  /\ crashes < MaxCrashes
  /\ crashes' = crashes + 1
  /\ serverCrashes' = serverCrashes + 1
  /\ ingestMode' \in IngestModes
  /\ serverProcessTotal' = 0
  /\ serverVMWritesTotal' = 0
  /\ handler' = [h \in Handler |-> NoRequest]
  /\ agent' = [m \in Machine |-> IF m \in waitedFor
                                 THEN [agent[m] EXCEPT !.reply = -1] ELSE agent[m]]
  /\ worker' = [w \in Worker |-> IF w \in waitedFor
                                 THEN [worker[w] EXCEPT !.reply = -1] ELSE worker[w]]
  /\ UNCHANGED <<log, group, workerCounters, evaluated, accepted, finished>>

-----------------------------------------------------------------------------
(* The worker.                                                                *)

\* ReadMessage fetches ...
FetchMessage(w) ==
  /\ worker[w].pc = "read"
  /\ \E p \in Partition :
       /\ owner[p] = w
       /\ position[p] < Len(log[p])
       /\ position' = [position EXCEPT ![p] = @ + 1]
       /\ worker' = [worker EXCEPT ![w] =
            [pc |-> "commit", msg |-> log[p][position[p] + 1], part |-> p,
             offset |-> position[p] + 1, reply |-> 0]]
  /\ UNCHANGED <<agent, handler, log, committed, owner, members, workerCounters,
                 serverCounters, evaluated, environment, accepted, finished>>

\* ... and commits before it returns the message.  When the commit fails it
\* returns the error and not the message; the commit may have been made.
CommitMessages(w) ==
  LET p == worker[w].part IN
  /\ worker[w].pc = "commit"
  /\ \/ /\ committed' = [committed EXCEPT ![p] = worker[w].offset]
        /\ workerKafkaMessagesTotal' = Inc(workerKafkaMessagesTotal, w, "read")
        /\ worker' = [worker EXCEPT ![w].pc = "forward"]
     \/ /\ "commit" \in Faults
        /\ \/ committed' = [committed EXCEPT ![p] = worker[w].offset]
           \/ UNCHANGED committed
        /\ workerKafkaMessagesTotal' = Inc(workerKafkaMessagesTotal, w, "read_error")
        /\ worker' = [worker EXCEPT ![w] = Reading]
  /\ UNCHANGED <<agent, handler, log, position, owner, members, workerForwardTotal,
                 retired, serverCounters, evaluated, environment, accepted, finished>>

\* httpClient.Do of the forwarded sample.
Forward(w) ==
  /\ worker[w].pc = "forward"
  /\ \/ \E h \in Handler :
          /\ handler[h] = NoRequest
          /\ handler' = [handler EXCEPT ![h] = [pc |-> "writeVM", path |-> "process",
                                                client |-> w, sample |-> worker[w].msg]]
          /\ worker' = [worker EXCEPT ![w].pc = "wait"]
     \/ /\ Unreachable
        /\ worker' = [worker EXCEPT ![w].pc = "wait", ![w].reply = -1]
        /\ UNCHANGED handler
  /\ UNCHANGED <<agent, log, group, workerCounters, serverCounters, evaluated,
                 environment, accepted, finished>>

\* The loop turns to the next message, however the forward ended.
AnyReply(reply) == IF reply = -1 THEN "error" ELSE "success"   \* mutant
ForwardResult(reply) ==
  IF reply = -1 THEN "error" ELSE IF reply = 200 THEN "success" ELSE "non_2xx"

RetriedForward(w) ==                                           \* mutant
  /\ worker[w].pc = "wait" /\ Returned(worker[w].reply)
  /\ workerForwardTotal' = Inc(workerForwardTotal, w, ForwardResult(worker[w].reply))
  /\ worker' = [worker EXCEPT ![w] = IF worker[w].reply = 200 THEN Reading
                                     ELSE [@ EXCEPT !.pc = "forward", !.reply = 0]]
  /\ UNCHANGED <<agent, handler, log, group, workerKafkaMessagesTotal, retired,
                 serverCounters, evaluated, environment, accepted, finished>>
WorkerAnswered(w) ==
  /\ worker[w].pc = "wait" /\ Returned(worker[w].reply)
  /\ workerForwardTotal' = Inc(workerForwardTotal, w, ForwardResult(worker[w].reply))
  /\ worker' = [worker EXCEPT ![w] = Reading]
  /\ UNCHANGED <<agent, handler, log, group, workerKafkaMessagesTotal, retired,
                 serverCounters, evaluated, environment, accepted, finished>>

StartWorker(w) ==
  /\ worker[w].pc = "down"
  /\ worker' = [worker EXCEPT ![w] = Reading]
  /\ UNCHANGED <<agent, handler, log, group, workerCounters, serverCounters,
                 evaluated, environment, accepted, finished>>

\* What the worker's process has counted as gone wrong.
Errors(w) ==
  workerKafkaMessagesTotal[w]["read_error"] + workerForwardTotal[w]["error"]
    + workerForwardTotal[w]["non_2xx"]

\* The worker dies with what it has in hand, and its counters with it; a handler
\* it called loses its client, its partitions lose their owner.  Started again it
\* is a new member.
CrashWorker(w) ==
  /\ "worker" \in Faults
  /\ worker[w].pc # "down"
  /\ crashes < MaxCrashes
  /\ crashes' = crashes + 1
  /\ worker' = [worker EXCEPT ![w] = NoWorker]
  /\ workerKafkaMessagesTotal' = [workerKafkaMessagesTotal EXCEPT ![w] = NoReads]
  /\ workerForwardTotal' = [workerForwardTotal EXCEPT ![w] = NoForwards]
  /\ retired' = retired + Errors(w)
  /\ handler' = [h \in Handler |-> IF handler[h].client = w
                                   THEN [handler[h] EXCEPT !.client = None]
                                   ELSE handler[h]]
  /\ owner' = [p \in Partition |-> IF owner[p] = w THEN None ELSE owner[p]]
  /\ members' = members \ {w}
  /\ UNCHANGED <<agent, log, committed, position, serverCounters, evaluated,
                 serverCrashes, ingestMode, accepted, finished>>

Live == {w \in Worker : worker[w].pc # "down"}

\* Where a new owner starts to read.
AfterNext(p) == committed[p] + 1                               \* mutant
StartOffset(p) == committed[p]

\* A worker joined or left the group: the partitions are assigned anew, and
\* every owner starts from the committed offset.
Rebalance ==
  /\ members # Live \/ \E p \in Partition : owner[p] = None
  /\ Live # {}
  /\ members' = Live
  /\ \E assigned \in [Partition -> Live] : owner' = assigned
  /\ position' = [p \in Partition |-> StartOffset(p)]
  /\ UNCHANGED <<agent, worker, handler, log, committed, workerCounters,
                 serverCounters, evaluated, environment, accepted, finished>>

-----------------------------------------------------------------------------
HandlerStep(h) == PublishMetrics(h) \/ WriteVM(h) \/ Evaluated(h)
WorkerStep(w) ==
  FetchMessage(w) \/ CommitMessages(w) \/ Forward(w) \/ WorkerAnswered(w)

\* Nothing is under way: every agent has reported its samples and the topic is
\* read to its end by the workers that are assigned to it.
Drained ==
  /\ \A m \in Machine : agent[m].pc = "collect" /\ agent[m].sent = MaxSamples
  /\ \A h \in Handler : handler[h] = NoRequest
  /\ \A w \in Worker : worker[w].pc = "read"
  /\ members = Worker
  /\ \A p \in Partition : position[p] = Len(log[p])
Quiesce == Drained /\ UNCHANGED vars

Next ==
  \/ \E m \in Machine : Report(m) \/ AgentAnswered(m)
  \/ \E h \in Handler : HandlerStep(h) \/ GiveUp(h)
  \/ CrashServer
  \/ \E w \in Worker : WorkerStep(w) \/ StartWorker(w) \/ CrashWorker(w)
  \/ Rebalance
  \/ Quiesce

Spec == Init /\ [][Next]_vars

\* Handlers and workers block only in calls with a timeout, the orchestrator
\* starts workers again, and the group coordinator completes a rebalance.
FairSpec ==
  /\ Spec
  /\ \A h \in Handler : WF_vars(HandlerStep(h))
  /\ \A w \in Worker : WF_vars(WorkerStep(w)) /\ WF_vars(StartWorker(w))
  /\ WF_vars(Rebalance)

-----------------------------------------------------------------------------
(* Properties.                                                                *)

UnderWay(s) ==
  \/ \E p \in Partition : \E i \in position[p] + 1 .. Len(log[p]) : log[p][i] = s
  \/ \E w \in Worker : worker[w].msg = s
  \/ \E h \in Handler : handler[h].sample = s

\* An agent that was answered 200 or 202 never sends the sample again.  If no
\* evaluation of the sample comes to its end then an error that a worker counted, in
\* this process or in one that has died, or the death of a worker accounts for it,
\* one for each sample lost: nothing disappears between the answer, the commit, the
\* forward, a rebalance and the evaluation without a trace, and what the death of the
\* server cuts short a worker counts (worker/main.go:74-151, main.go:229-291).
ErrorsCounted == SumFunction([w \in Worker |-> Errors(w)]) + retired
Lost == {s \in accepted \ finished : ~UnderWay(s)}
LossAccounted == Cardinality(Lost) <= ErrorsCounted + (crashes - serverCrashes)

\* README.md:204-220 confirms the pipeline by comparing counters at /metrics, which
\* shows those of the processes that now run.  Whatever died before: a worker has
\* forwarded once all it has read but what it has in hand, and the server processed
\* no more than it wrote.  What the workers call a success the server has
\* processed: that comparison is sound only as long as the server has not died.
Forwards(w) ==
  workerForwardTotal[w]["success"] + workerForwardTotal[w]["error"]
    + workerForwardTotal[w]["non_2xx"]
InHand(w) == IF worker[w].pc \in {"forward", "wait"} THEN 1 ELSE 0
Successes == SumFunction([w \in Worker |-> workerForwardTotal[w]["success"]])
FunnelAgrees ==
  /\ \A w \in Worker : workerKafkaMessagesTotal[w]["read"] = Forwards(w) + InHand(w)
  /\ serverProcessTotal <= serverVMWritesTotal
  /\ serverCrashes = 0 => Successes <= serverProcessTotal

\* One worker that reads one partition (what deployments/k8s runs) waits for the
\* answer before it reads on: the samples of a machine are evaluated one at a
\* time and in the order the agent sent them, although the handlers of the
\* server run concurrently.
EvaluatedSerially ==
  \A m \in Machine :
    /\ \A i, j \in DOMAIN evaluated[m] : i < j => evaluated[m][i] <= evaluated[m][j]
    /\ Cardinality({h \in Handler : handler[h].pc = "evaluate"
                                    /\ handler[h].sample[1] = m}) <= 1

\* One worker commits a message before it forwards it, forwards it once and is
\* never set back: no message is delivered twice.  In kafka mode a sample is
\* evaluated at most as often as the committed part of the log holds it, whatever
\* times out, fails or dies (worker/main.go:74-138).  (Two workers can both read
\* a message when its partition changes hands before the commit.)
Committed(s) ==
  {r \in UNION {{p} \X (1..committed[p]) : p \in Partition} : log[r[1]][r[2]] = s}
EvaluatedAtMostOnce ==
  \A s \in Sample :
    Cardinality({i \in DOMAIN evaluated[s[1]] : evaluated[s[1]][i] = s[2]})
      <= Cardinality(Committed(s))

\* "Kill one worker pod; confirm Kafka mode recovers" (docs/phase3-phase4-
\* roadmap.md:246): whatever is in the topic is read by a worker it is assigned to,
\* although workers and the server die and forwards time out.
TopicDrained ==
  \A p \in Partition, i \in 1..MaxSamples :
    Len(log[p]) >= i ~> position[p] >= i /\ owner[p] # None
=============================================================================
