------------------------- MODULE IngestPipelineProofs -------------------------
(* Proofs about IngestPipeline, for any number of agents, workers, handlers,   *)
(* partitions, samples, crashes and any kinds of faults.                       *)
(*                                                                             *)
(* LossAccounted is not inductive: a rebalance may move the position of a      *)
(* partition back to a message that was given up before, and forward again     *)
(* past one that another worker has committed; and a handler whose client gave *)
(* up keeps a sample under way that the client has already counted as lost.    *)
(* Gone is what is lost even if those are left out: a sample that is neither   *)
(* ahead of everything read of its partition nor in a worker's hands, and of    *)
(* which no evaluation has come to its end.  It grows by one sample at most, and *)
(* only when a worker counts an error or dies.  The counters of a worker go with *)
(* its process: a sum over the workers changes by what one of them changes       *)
(* (SumTheorems), and retired takes over the errors of one that dies.            *)
(*                                                                             *)
(* The third part is about the order of the samples: one worker on one          *)
(* partition has them evaluated one at a time, as they were sent.  The last     *)
(* one counts deliveries: one worker delivers no message twice.                 *)
EXTENDS IngestPipeline, SumTheorems, FiniteSetTheorems, TLAPS

HoldsMessage(w) ==
  /\ worker[w].msg \in Sample
  /\ worker[w].part \in Partition
  /\ worker[w].offset \in 1..Len(log[worker[w].part])

WorkersOK ==
  \A w \in Worker :
    /\ worker[w].pc \in {"down", "read"} => worker[w] \in {NoWorker, Reading}
    /\ worker[w].pc \in {"commit", "forward", "wait"} => HoldsMessage(w)
    /\ worker[w].reply # 0 => worker[w].pc = "wait"
    /\ worker[w].reply = 200 => worker[w].msg \in finished

HandlersOK ==
  /\ \A h \in Handler : handler[h].client \in Worker =>
       /\ handler[h].path = "process"
       /\ worker[handler[h].client].pc = "wait"
       /\ worker[handler[h].client].reply = 0
       /\ worker[handler[h].client].msg = handler[h].sample
  /\ \A h, k \in Handler :
       handler[h].client = handler[k].client /\ handler[h].client \in Worker => h = k

(* Message i of p is beyond what was read of p, by whichever owner. *)
Beyond(p, i) ==
  /\ i > position[p] /\ i > committed[p]
  /\ \A w \in Worker : worker[w].part = p => i > worker[w].offset
Ahead(s) == \E p \in Partition : \E i \in 1..Len(log[p]) : log[p][i] = s /\ Beyond(p, i)
Held(s) == \E w \in Worker : worker[w].msg = s
Gone == {s \in accepted : s \notin finished /\ ~Ahead(s) /\ ~Held(s)}

(* What there is to account for them. *)
Tally == ErrorsCounted + (crashes - serverCrashes)
GoneAccounted == Cardinality(Gone) <= Tally

(* The counters, with the answers that are on their way to be counted. *)
Acked == {w \in Worker : worker[w].reply = 200}
Processing == {h \in Handler : handler[h].pc = "evaluate" /\ handler[h].path = "process"}
Funnel ==
  /\ \A w \in Worker : workerKafkaMessagesTotal[w]["read"] = Forwards(w) + InHand(w)
  /\ serverProcessTotal + Cardinality(Processing) <= serverVMWritesTotal
  /\ serverCrashes = 0 => Successes + Cardinality(Acked) <= serverProcessTotal

IInv == TypeOK /\ WorkersOK /\ HandlersOK /\ GoneAccounted /\ Funnel

-----------------------------------------------------------------------------
(* Facts about the state. *)

USE DEF Status, FaultKind

LEMMA NoSampleIsNone == NoSample \notin Sample
  BY DEF NoSample, Sample

LEMMA SampleParts ==
  ASSUME NEW s \in Sample
  PROVE  s[1] \in Machine /\ s[2] \in 1..MaxSamples
  BY DEF Sample

LEMMA FiniteSamples == IsFiniteSet(Sample)
<1>1. IsFiniteSet(1..MaxSamples)
  BY FS_Interval, PipelineAssumption
<1>2. QED  BY <1>1, FS_Product, PipelineAssumption DEF Sample

(* The counters of one worker, and of all. *)
LEMMA CountersType ==
  ASSUME TypeOK, NEW w \in Worker
  PROVE  /\ workerKafkaMessagesTotal[w] \in [ReadResult -> Nat]
         /\ workerForwardTotal[w] \in [ForwardOutcome -> Nat]
         /\ workerKafkaMessagesTotal[w]["read"] \in Nat
         /\ workerKafkaMessagesTotal[w]["read_error"] \in Nat
         /\ workerForwardTotal[w]["success"] \in Nat
         /\ workerForwardTotal[w]["error"] \in Nat
         /\ workerForwardTotal[w]["non_2xx"] \in Nat
         /\ Errors(w) \in Nat /\ Forwards(w) \in Nat
<1>1. /\ workerKafkaMessagesTotal[w] \in [ReadResult -> Nat]
      /\ workerForwardTotal[w] \in [ForwardOutcome -> Nat]
  BY DEF TypeOK
<1>2. /\ workerKafkaMessagesTotal[w]["read"] \in Nat
      /\ workerKafkaMessagesTotal[w]["read_error"] \in Nat
      /\ workerForwardTotal[w]["success"] \in Nat
      /\ workerForwardTotal[w]["error"] \in Nat
      /\ workerForwardTotal[w]["non_2xx"] \in Nat
  BY <1>1 DEF ReadResult, ForwardOutcome
<1>3. QED  BY <1>1, <1>2 DEF Errors, Forwards

ErrorsOf == [w \in Worker |-> Errors(w)]
SuccessesOf == [w \in Worker |-> workerForwardTotal[w]["success"]]

LEMMA SumsType ==
  ASSUME TypeOK
  PROVE  /\ ErrorsOf \in [Worker -> Nat] /\ SuccessesOf \in [Worker -> Nat]
         /\ ErrorsCounted = SumFunction(ErrorsOf) + retired
         /\ Successes = SumFunction(SuccessesOf)
         /\ SumFunction(ErrorsOf) \in Nat /\ Successes \in Nat /\ ErrorsCounted \in Nat
         /\ retired \in Nat /\ crashes \in Nat /\ serverCrashes \in Nat
         /\ serverCrashes <= crashes
         /\ Tally \in Nat
<1>1. ErrorsOf \in [Worker -> Nat] /\ SuccessesOf \in [Worker -> Nat]
  BY CountersType DEF ErrorsOf, SuccessesOf
<1>2. ErrorsCounted = SumFunction(ErrorsOf) + retired /\ Successes = SumFunction(SuccessesOf)
  BY DEF ErrorsCounted, ErrorsOf, Successes, SuccessesOf
<1>3. SumFunction(ErrorsOf) \in Nat /\ SumFunction(SuccessesOf) \in Nat
  BY <1>1, SumType, PipelineAssumption
<1>4. /\ retired \in Nat /\ crashes \in Nat /\ serverCrashes \in Nat
      /\ serverCrashes <= crashes
  BY PipelineAssumption DEF TypeOK
<1>5. QED  BY <1>1, <1>2, <1>3, <1>4 DEF Tally

LEMMA Counted ==
  ASSUME TypeOK
  PROVE  /\ IsFiniteSet(Gone) /\ Cardinality(Gone) \in Nat
         /\ IsFiniteSet(Acked) /\ Cardinality(Acked) \in Nat
         /\ IsFiniteSet(Processing) /\ Cardinality(Processing) \in Nat
         /\ Tally \in Nat /\ Successes \in Nat
         /\ crashes \in Nat /\ serverCrashes \in Nat
         /\ serverProcessTotal \in Nat /\ serverVMWritesTotal \in Nat
<1>1. Gone \subseteq Sample
  BY DEF Gone, TypeOK
<1>2. IsFiniteSet(Gone) /\ Cardinality(Gone) \in Nat
  BY <1>1, FiniteSamples, FS_Subset, FS_CardinalityType
<1>3. IsFiniteSet(Acked) /\ Cardinality(Acked) \in Nat
  <2>1. Acked \subseteq Worker
    BY DEF Acked
  <2>2. QED  BY <2>1, FS_Subset, FS_CardinalityType, PipelineAssumption
<1>4. IsFiniteSet(Processing) /\ Cardinality(Processing) \in Nat
  <2>1. Processing \subseteq Handler
    BY DEF Processing
  <2>2. QED  BY <2>1, FS_Subset, FS_CardinalityType, PipelineAssumption
<1>5. serverProcessTotal \in Nat /\ serverVMWritesTotal \in Nat
  BY DEF TypeOK
<1>6. QED  BY <1>2, <1>3, <1>4, <1>5, SumsType

(* Nobody counts, or only the server dies. *)
LEMMA SameTally ==
  ASSUME TypeOK, UNCHANGED workerCounters,
         \/ UNCHANGED <<crashes, serverCrashes>>
         \/ crashes' = crashes + 1 /\ serverCrashes' = serverCrashes + 1
  PROVE  Tally' = Tally /\ Tally' >= Tally
<1>1. UNCHANGED <<workerKafkaMessagesTotal, workerForwardTotal, retired>>
  BY DEF workerCounters
<1>2. ErrorsCounted' = ErrorsCounted
  BY <1>1 DEF ErrorsCounted, Errors
<1>3. crashes' - serverCrashes' = crashes - serverCrashes
  BY SumsType
<1>4. QED  BY <1>2, <1>3, SumsType DEF Tally

(* One worker counts an error or a success, or dies. *)
LEMMA TallyOf ==
  ASSUME TypeOK, TypeOK', NEW w \in Worker,
         \A v \in Worker : v # w =>
           /\ workerKafkaMessagesTotal'[v] = workerKafkaMessagesTotal[v]
           /\ workerForwardTotal'[v] = workerForwardTotal[v]
  PROVE  /\ SumFunction(ErrorsOf)' \in Nat
         /\ SumFunction(ErrorsOf)' + Errors(w) = SumFunction(ErrorsOf) + Errors(w)'
         /\ Successes' \in Nat
         /\ Successes' + workerForwardTotal[w]["success"]
              = Successes + workerForwardTotal'[w]["success"]
<1>1. /\ ErrorsOf \in [Worker -> Nat] /\ SuccessesOf \in [Worker -> Nat]
      /\ Successes = SumFunction(SuccessesOf)
  BY SumsType
<1>2. ErrorsOf' \in [Worker -> Nat] /\ SuccessesOf' \in [Worker -> Nat]
  <2>1. \A v \in Worker : workerKafkaMessagesTotal'[v] \in [ReadResult -> Nat]
                          /\ workerForwardTotal'[v] \in [ForwardOutcome -> Nat]
    BY DEF TypeOK
  <2>2. \A v \in Worker : Errors(v)' \in Nat /\ workerForwardTotal'[v]["success"] \in Nat
    BY <2>1 DEF Errors, ReadResult, ForwardOutcome
  <2>3. QED  BY <2>2 DEF ErrorsOf, SuccessesOf
<1>3. \A v \in Worker \ {w} : ErrorsOf'[v] = ErrorsOf[v] /\ SuccessesOf'[v] = SuccessesOf[v]
  BY DEF ErrorsOf, SuccessesOf, Errors
<1>4. /\ ErrorsOf[w] = Errors(w) /\ ErrorsOf'[w] = Errors(w)'
      /\ SuccessesOf[w] = workerForwardTotal[w]["success"]
      /\ SuccessesOf'[w] = workerForwardTotal'[w]["success"]
  BY DEF ErrorsOf, SuccessesOf
<1>5. /\ SumFunction(ErrorsOf') \in Nat
      /\ SumFunction(ErrorsOf') + ErrorsOf[w] = SumFunction(ErrorsOf) + ErrorsOf'[w]
  BY <1>1, <1>2, <1>3, SumChanges, PipelineAssumption
<1>6. /\ SumFunction(SuccessesOf') \in Nat
      /\ SumFunction(SuccessesOf') + SuccessesOf[w] = SumFunction(SuccessesOf) + SuccessesOf'[w]
  BY <1>1, <1>2, <1>3, SumChanges, PipelineAssumption
<1>7. Successes' = SumFunction(SuccessesOf')
  BY DEF Successes, SuccessesOf
<1>8. QED  BY <1>1, <1>4, <1>5, <1>6, <1>7

LEMMA SumsTypeNext == TypeOK' => Tally' \in Nat
<1>1. TypeOK => Tally \in Nat
  BY SumsType
<1>2. TypeOK' => (Tally \in Nat)'
  BY <1>1, PTL
<1>3. QED  BY <1>2

(* How GoneAccounted is kept. *)
LEMMA GoneShrinks ==
  ASSUME TypeOK, GoneAccounted, Gone' \subseteq Gone, Tally' \in Nat, Tally' >= Tally
  PROVE  GoneAccounted'
<1>1. Cardinality(Gone') <= Cardinality(Gone) /\ Cardinality(Gone') \in Nat
  <2>1. IsFiniteSet(Gone)
    BY Counted
  <2>2. IsFiniteSet(Gone') /\ Cardinality(Gone') <= Cardinality(Gone)
    BY <2>1, FS_Subset
  <2>3. QED  BY <2>2, FS_CardinalityType
<1>2. Tally \in Nat /\ Cardinality(Gone) \in Nat
  BY Counted
<1>3. QED  BY <1>1, <1>2 DEF GoneAccounted

LEMMA GoneGrows ==
  ASSUME TypeOK, GoneAccounted, NEW s, Gone' \subseteq Gone \cup {s}, Tally' \in Nat,
         Tally' >= Tally + 1
  PROVE  GoneAccounted'
<1>1. IsFiniteSet(Gone) /\ Cardinality(Gone) \in Nat /\ Tally \in Nat
  BY Counted
<1>2. IsFiniteSet(Gone \cup {s}) /\ Cardinality(Gone \cup {s}) \in {Cardinality(Gone), Cardinality(Gone) + 1}
  BY <1>1, FS_AddElement
<1>3. IsFiniteSet(Gone') /\ Cardinality(Gone') <= Cardinality(Gone \cup {s})
  BY <1>2, FS_Subset
<1>4. Cardinality(Gone') \in Nat
  BY <1>3, FS_CardinalityType
<1>5. QED  BY <1>1, <1>2, <1>3, <1>4 DEF GoneAccounted

(* What a step leaves alone. *)
SameMessages ==
  \A w \in Worker : /\ worker'[w].msg = worker[w].msg /\ worker'[w].part = worker[w].part
                    /\ worker'[w].offset = worker[w].offset
LogsGrow ==
  \A p \in Partition : Len(log[p]) \in Nat /\ Len(log'[p]) \in Nat /\ Len(log[p]) <= Len(log'[p])
SameHands == SameMessages /\ \A w \in Worker : worker'[w].pc = worker[w].pc

LEMMA GoneBut ==
  ASSUME NEW x, accepted' \subseteq Sample, finished \subseteq finished',
         \A s \in Sample \ {x} : Ahead(s) \/ Held(s) => Ahead(s)' \/ Held(s)' \/ s \in finished',
         \A s \in accepted' \ accepted : s \in finished' \/ Ahead(s)'
  PROVE  Gone' \subseteq Gone \cup {x}
<1> SUFFICES ASSUME NEW s \in Gone', s # x PROVE s \in Gone
  OBVIOUS
<1>1. s \in accepted' /\ s \notin finished' /\ ~Ahead(s)' /\ ~Held(s)'
  BY DEF Gone
<1>2. s \in Sample \ {x}
  BY <1>1
<1>3. s \in accepted /\ s \notin finished /\ ~Ahead(s) /\ ~Held(s)
  BY <1>1, <1>2
<1>4. QED  BY <1>3 DEF Gone

LEMMA GoneStays ==
  ASSUME TypeOK, TypeOK', GoneAccounted, Tally' >= Tally, SameMessages,
         \A s \in Sample : Ahead(s) => Ahead(s)',
         finished \subseteq finished',
         \A s \in accepted' \ accepted : s \in finished' \/ Ahead(s)'
  PROVE  GoneAccounted'
<1>1. accepted' \subseteq Sample
  BY DEF TypeOK
<1>2. \A s : Held(s) => Held(s)'
  BY DEF Held, SameMessages
<1>3. Gone' \subseteq Gone \cup {NoSample}
  BY <1>1, <1>2, GoneBut
<1>4. Gone' \subseteq Gone
  BY <1>1, <1>3, NoSampleIsNone DEF Gone
<1>5. Tally' \in Nat
  BY SumsTypeNext
<1>6. QED  BY <1>4, <1>5, GoneShrinks

LEMMA AheadStays ==
  ASSUME SameMessages, UNCHANGED <<log, committed, position>>, NEW s, Ahead(s)
  PROVE  Ahead(s)'
BY DEF Ahead, Beyond, SameMessages

LEMMA Fewer ==
  ASSUME NEW S, IsFiniteSet(S), NEW T \in SUBSET S
  PROVE  IsFiniteSet(T) /\ Cardinality(T) \in Nat /\ Cardinality(T) <= Cardinality(S)
BY FS_Subset, FS_CardinalityType

(* No worker takes or gives back a message, and none counts. *)
LEMMA SameFunnel ==
  ASSUME Funnel, TypeOK, Acked' \subseteq Acked, Processing' \subseteq Processing,
         \A w \in Worker : InHand(w)' = InHand(w),
         UNCHANGED workerCounters,
         \/ UNCHANGED <<serverCounters, serverCrashes>>
         \/ serverCrashes' = serverCrashes + 1 /\ Processing' = {} /\ serverProcessTotal' = 0
              /\ serverVMWritesTotal' = 0
  PROVE  Funnel'
<1>1. UNCHANGED <<workerForwardTotal, workerKafkaMessagesTotal>>
  BY DEF workerCounters
<1>2. (\A w \in Worker : Forwards(w)' = Forwards(w)) /\ Successes' = Successes
  BY <1>1 DEF Forwards, Successes
<1>3. /\ Cardinality(Acked') \in Nat /\ Cardinality(Acked') <= Cardinality(Acked)
      /\ Cardinality(Processing') \in Nat /\ Cardinality(Processing') <= Cardinality(Processing)
  BY Counted, Fewer
<1>4. \A w \in Worker : workerKafkaMessagesTotal'[w]["read"] = Forwards(w)' + InHand(w)'
  BY <1>1, <1>2 DEF Funnel
<1>5. CASE UNCHANGED <<serverCounters, serverCrashes>>
  <2>1. UNCHANGED <<serverProcessTotal, serverVMWritesTotal, serverCrashes>>
    BY <1>5 DEF serverCounters
  <2>2. serverProcessTotal + Cardinality(Processing') <= serverVMWritesTotal
    BY <1>3, Counted DEF Funnel
  <2>3. serverCrashes = 0 => Successes + Cardinality(Acked') <= serverProcessTotal
    BY <1>3, Counted DEF Funnel
  <2>4. QED  BY <1>2, <1>4, <2>1, <2>2, <2>3 DEF Funnel
<1>6. CASE serverCrashes' = serverCrashes + 1 /\ Processing' = {} /\ serverProcessTotal' = 0
             /\ serverVMWritesTotal' = 0
  <2>1. serverCrashes' # 0
    BY <1>6, Counted
  <2>2. Cardinality({}) = 0
    BY FS_EmptySet
  <2>3. serverProcessTotal' + Cardinality(Processing') <= serverVMWritesTotal'
    BY <1>6, <2>2
  <2>4. QED  BY <1>4, <2>1, <2>3 DEF Funnel
<1>7. QED  BY <1>5, <1>6

-----------------------------------------------------------------------------
(* An answer, the part that three steps of a handler share. *)

LEMMA IsRequest ==
  ASSUME TypeOK, NEW h \in Handler, handler[h].pc # "idle"
  PROVE  /\ handler[h] \in Request /\ handler[h].sample \in Sample
         /\ handler[h].client \in Client \cup {None}
<1>1. handler[h] \in Request
  BY DEF TypeOK, NoRequest
<1>2. QED  BY <1>1 DEF Request

LEMMA IdleHasNoClient ==
  ASSUME TypeOK, NEW h \in Handler, handler[h].client # None
  PROVE  handler[h] \in Request
BY DEF TypeOK, NoRequest

LEMMA AgentReply ==
  ASSUME NEW a \in Agent, NEW reply \in Reply
  PROVE  /\ [a EXCEPT !.reply = reply] \in Agent
         /\ [a EXCEPT !.reply = reply].reply = reply
BY DEF Agent

LEMMA WorkerReply ==
  ASSUME NEW v \in WorkerState, NEW reply \in Reply
  PROVE  LET r == [v EXCEPT !.reply = reply] IN
         /\ r \in WorkerState /\ r.reply = reply
         /\ r.pc = v.pc /\ r.msg = v.msg /\ r.part = v.part /\ r.offset = v.offset
BY DEF WorkerState

LEMMA AnswerToFields ==
  ASSUME TypeOK, NEW h \in Handler, handler[h].pc # "idle", NEW status \in Status,
         AnswerTo(h, status)
  PROVE  /\ handler' = [handler EXCEPT ![h] = NoRequest]
         /\ \A w \in Worker : w # handler[h].client => worker'[w] = worker[w]
         /\ \A w \in Worker : w = handler[h].client => worker'[w].reply = status
         /\ SameHands
         /\ agent' \in [Machine -> Agent]
         /\ worker' \in [Worker -> WorkerState]
         /\ handler' \in [Handler -> Request \cup {NoRequest}]
         /\ accepted' \subseteq Sample
<1> DEFINE c == handler[h].client
<1>1. handler[h].sample \in Sample /\ c \in Client \cup {None}
  BY IsRequest
<1>2. /\ handler' = [handler EXCEPT ![h] = NoRequest]
      /\ agent' = IF c \in Machine THEN [agent EXCEPT ![c].reply = status] ELSE agent
      /\ worker' = IF c \in Worker THEN [worker EXCEPT ![c].reply = status] ELSE worker
      /\ accepted' \subseteq accepted \cup {handler[h].sample}
  BY DEF AnswerTo
<1> HIDE DEF c
<1>3. agent' \in [Machine -> Agent]
  <2>1. CASE c \in Machine
    <3>1. [agent[c] EXCEPT !.reply = status] \in Agent
      <4>1. agent[c] \in Agent /\ status \in Reply
        BY <2>1 DEF TypeOK, Reply
      <4>2. QED  BY <4>1, AgentReply
    <3>2. agent' = [agent EXCEPT ![c] = [agent[c] EXCEPT !.reply = status]]
      BY <1>2, <2>1 DEF TypeOK
    <3>3. QED  BY <3>1, <3>2 DEF TypeOK
  <2>2. QED  BY <1>2, <2>1 DEF TypeOK
<1>4. /\ worker' \in [Worker -> WorkerState] /\ SameHands
      /\ \A w \in Worker : w # c => worker'[w] = worker[w]
      /\ \A w \in Worker : w = c => worker'[w].reply = status
  <2>1. CASE c \in Worker
    <3> DEFINE r == [worker[c] EXCEPT !.reply = status]
    <3>1. worker[c] \in WorkerState
      BY <2>1 DEF TypeOK
    <3>2. r \in WorkerState /\ r.reply = status /\ r.pc = worker[c].pc /\ r.msg = worker[c].msg
          /\ r.part = worker[c].part /\ r.offset = worker[c].offset
      <4>1. status \in Reply
        BY DEF Reply
      <4>2. QED  BY <3>1, <4>1, WorkerReply
    <3>3. worker' = [worker EXCEPT ![c] = r]
      BY <1>2, <2>1 DEF TypeOK
    <3> HIDE DEF r
    <3>4. \A w \in Worker : w = c => worker'[w].reply = status
      BY <3>2, <3>3 DEF TypeOK
    <3>5. QED  BY <2>1, <3>2, <3>3, <3>4 DEF TypeOK, SameHands, SameMessages
  <2>2. CASE c \notin Worker
    BY <1>2, <2>2 DEF TypeOK, SameHands, SameMessages
  <2>3. QED  BY <2>1, <2>2
<1>5. handler' \in [Handler -> Request \cup {NoRequest}] /\ accepted' \subseteq Sample
  BY <1>1, <1>2 DEF TypeOK
<1>6. QED  BY <1>2, <1>3, <1>4, <1>5 DEF c

(* The workers and the handlers after an answer: nobody waits twice. *)
LEMMA AnswerToOK ==
  ASSUME TypeOK, WorkersOK, HandlersOK, NEW h \in Handler, handler[h].pc # "idle",
         NEW status \in Status, AnswerTo(h, status), finished \subseteq finished', LogsGrow,
         status = 200 => handler[h].sample \in finished'
  PROVE  WorkersOK' /\ HandlersOK'
<1>0. /\ handler' = [handler EXCEPT ![h] = NoRequest]
      /\ \A w \in Worker : w # handler[h].client => worker'[w] = worker[w]
      /\ \A w \in Worker : w = handler[h].client => worker'[w].reply = status
      /\ SameHands
  BY AnswerToFields
<1>2. WorkersOK'
  <2> SUFFICES ASSUME NEW w \in Worker
               PROVE  /\ worker'[w].pc \in {"down", "read"} => worker'[w] \in {NoWorker, Reading}
                      /\ worker'[w].pc \in {"commit", "forward", "wait"} => HoldsMessage(w)'
                      /\ worker'[w].reply # 0 => worker'[w].pc = "wait"
                      /\ worker'[w].reply = 200 => worker'[w].msg \in finished'
    BY DEF WorkersOK
  <2>1. HoldsMessage(w) => HoldsMessage(w)'
    BY <1>0 DEF HoldsMessage, SameHands, SameMessages, LogsGrow
  <2>2. CASE w # handler[h].client
    BY <1>0, <2>1, <2>2 DEF WorkersOK
  <2>3. CASE w = handler[h].client
    <3>1. worker[w].pc = "wait" /\ worker[w].msg = handler[h].sample
      BY <2>3 DEF HandlersOK
    <3>2. worker'[w].pc = "wait" /\ worker'[w].msg = handler[h].sample
      BY <1>0, <3>1 DEF SameHands, SameMessages
    <3>3. worker'[w].reply = status
      BY <1>0, <2>3
    <3>4. QED  BY <2>1, <3>1, <3>2, <3>3 DEF WorkersOK
  <2>4. QED  BY <2>2, <2>3
<1>3. HandlersOK'
  <2>1. ASSUME NEW k \in Handler
        PROVE  /\ k # h => handler'[k] = handler[k]
               /\ k = h => handler'[k].client = None /\ handler'[k].pc = "idle"
    BY <1>0 DEF TypeOK, NoRequest
  <2>2. ASSUME NEW k \in Handler, handler'[k].client \in Worker
        PROVE  /\ k # h /\ handler'[k] = handler[k]
               /\ worker'[handler'[k].client] = worker[handler[k].client]
    BY <1>0, <2>1, <2>2, PipelineAssumption DEF HandlersOK
  <2>3. ASSUME NEW k \in Handler, handler'[k].client \in Worker
        PROVE  /\ handler'[k].path = "process"
               /\ worker'[handler'[k].client].pc = "wait"
               /\ worker'[handler'[k].client].reply = 0
               /\ worker'[handler'[k].client].msg = handler'[k].sample
    BY <2>2, <2>3 DEF HandlersOK
  <2>5. ASSUME NEW k \in Handler, NEW j \in Handler,
               handler'[k].client = handler'[j].client, handler'[k].client \in Worker
        PROVE  k = j
    BY <2>2, <2>5 DEF HandlersOK
  <2>6. QED  BY <2>3, <2>5 DEF HandlersOK
<1>4. QED  BY <1>2, <1>3

-----------------------------------------------------------------------------
(* The steps of a handler. *)

LEMMA Concatenated ==
  ASSUME NEW S, NEW a \in Seq(S), NEW b \in Seq(S)
  PROVE  /\ a \o b \in Seq(S) /\ Len(a \o b) = Len(a) + Len(b)
         /\ \A i \in 1..Len(a) : (a \o b)[i] = a[i]
         /\ Len(b) > 0 => (a \o b)[Len(a) + 1] = b[1]
OBVIOUS

LEMMA LogExtended ==
  ASSUME TypeOK, NEW p \in Partition, NEW copies \in Nat, NEW s \in Sample,
         log' = [log EXCEPT ![p] = @ \o [i \in 1..copies |-> s]]
  PROVE  /\ log' \in [Partition -> Seq(Sample)]
         /\ LogsGrow
         /\ \A q \in Partition : \A i \in 1..Len(log[q]) :
              log'[q][i] = log[q][i] /\ i \in 1..Len(log'[q])
         /\ copies > 0 => /\ Len(log[p]) + 1 \in 1..Len(log'[p])
                          /\ log'[p][Len(log[p]) + 1] = s
<1> DEFINE more == [i \in 1..copies |-> s]
<1>1. more \in Seq(Sample) /\ Len(more) = copies /\ (copies > 0 => more[1] = s)
  OBVIOUS
<1>2. \A q \in Partition : log[q] \in Seq(Sample) /\ Len(log[q]) \in Nat
  BY DEF TypeOK
<1> HIDE DEF more
<1>3. /\ log[p] \o more \in Seq(Sample) /\ Len(log[p] \o more) = Len(log[p]) + copies
      /\ \A i \in 1..Len(log[p]) : (log[p] \o more)[i] = log[p][i]
      /\ copies > 0 => (log[p] \o more)[Len(log[p]) + 1] = s
  <2>1. log[p] \in Seq(Sample) /\ more \in Seq(Sample)
    BY <1>1, <1>2
  <2>2. QED  BY <1>1, <2>1, Concatenated
<1>4. log' = [log EXCEPT ![p] = log[p] \o more]
  BY DEF more, TypeOK
<1> DEFINE l == log[p] \o more
<1>5. log' \in [Partition -> Seq(Sample)] /\ log'[p] = l
      /\ \A q \in Partition : q # p => log'[q] = log[q]
  BY <1>3, <1>4 DEF TypeOK
<1>6. LogsGrow
  BY <1>2, <1>3, <1>5 DEF LogsGrow
<1>7. ASSUME NEW q \in Partition, NEW i \in 1..Len(log[q])
      PROVE  log'[q][i] = log[q][i] /\ i \in 1..Len(log'[q])
  <2>1. CASE q = p
    BY <1>2, <1>3, <1>5, <2>1
  <2>2. CASE q # p
    BY <1>5, <2>2
  <2>3. QED  BY <2>1, <2>2
<1>8. copies > 0 => /\ Len(log[p]) + 1 \in 1..Len(log'[p])
                    /\ log'[p][Len(log[p]) + 1] = s
  BY <1>2, <1>3, <1>5
<1>9. QED  BY <1>5, <1>6, <1>7, <1>8

LEMMA PublishMetricsInv ==
  ASSUME IInv, NEW h \in Handler, PublishMetrics(h)
  PROVE  IInv'
<1>1. TypeOK /\ WorkersOK /\ HandlersOK /\ GoneAccounted /\ Funnel
  BY DEF IInv
<1>2. handler[h].pc = "publish" /\ handler[h].sample \in Sample
  BY <1>1, IsRequest DEF PublishMetrics
<1>3. /\ UNCHANGED <<committed, position, owner, members, workerKafkaMessagesTotal,
                     workerForwardTotal, serverProcessTotal, serverVMWritesTotal,
                     evaluated, finished, retired, crashes, serverCrashes, ingestMode>>
  BY DEF PublishMetrics, group, workerCounters, serverCounters, environment
<1>4. PICK ok \in BOOLEAN : \E copies \in PublishedCopies(ok) :
        WriteMessages(h, copies) /\ AnswerTo(h, IF ok THEN 202 ELSE 500)
  BY DEF PublishMetrics
<1>5. PICK copies \in PublishedCopies(ok) :
        WriteMessages(h, copies) /\ AnswerTo(h, IF ok THEN 202 ELSE 500)
  BY <1>4
<1>6. copies \in Nat /\ (ok => copies > 0)
  BY <1>5 DEF PublishedCopies
<1>7. PICK p \in Partition :
        log' = [log EXCEPT ![p] = @ \o [i \in 1..copies |-> handler[h].sample]]
  BY <1>5 DEF WriteMessages
<1> DEFINE status == IF ok THEN 202 ELSE 500
<1>a. PICK s \in Sample : s = handler[h].sample
  BY <1>2
<1>8. status \in Status /\ status # 200 /\ AnswerTo(h, status)
  BY <1>5
<1> HIDE DEF status
<1>9. /\ log' \in [Partition -> Seq(Sample)]
      /\ LogsGrow
      /\ \A q \in Partition : \A i \in 1..Len(log[q]) :
           log'[q][i] = log[q][i] /\ i \in 1..Len(log'[q])
      /\ copies > 0 => /\ Len(log[p]) + 1 \in 1..Len(log'[p])
                       /\ log'[p][Len(log[p]) + 1] = s
  BY <1>1, <1>a, <1>6, <1>7, LogExtended
<1>10. /\ handler' = [handler EXCEPT ![h] = NoRequest] /\ SameHands
       /\ \A w \in Worker : w # handler[h].client => worker'[w] = worker[w]
       /\ \A w \in Worker : w = handler[h].client => worker'[w].reply = status
       /\ agent' \in [Machine -> Agent]
       /\ worker' \in [Worker -> WorkerState]
       /\ handler' \in [Handler -> Request \cup {NoRequest}]
       /\ accepted' \subseteq Sample
  BY <1>1, <1>2, <1>8, AnswerToFields
<1>11. TypeOK'
  <2>1. \A q \in Partition : committed[q] <= Len(log'[q]) /\ position[q] <= Len(log'[q])
    BY <1>1, <1>9 DEF TypeOK, LogsGrow
  <2>2. QED  BY <1>1, <1>3, <1>9, <1>10, <2>1 DEF TypeOK
<1>12. WorkersOK' /\ HandlersOK'
  BY <1>1, <1>2, <1>3, <1>8, <1>9, AnswerToOK
<1>13. GoneAccounted'
  <2>1. \A t \in Sample : Ahead(t) => Ahead(t)'
    <3> SUFFICES ASSUME NEW t \in Sample, Ahead(t) PROVE Ahead(t)'
      OBVIOUS
    <3>1. PICK q \in Partition : \E i \in 1..Len(log[q]) : log[q][i] = t /\ Beyond(q, i)
      BY DEF Ahead
    <3>2. PICK i \in 1..Len(log[q]) : log[q][i] = t /\ Beyond(q, i)
      BY <3>1
    <3>3. Beyond(q, i)'
      BY <1>3, <1>10, <3>2 DEF Beyond, SameHands, SameMessages
    <3>4. QED  BY <1>9, <3>2, <3>3 DEF Ahead
  <2>2. ok => Ahead(s)'
    <3> SUFFICES ASSUME ok PROVE Ahead(s)'
      OBVIOUS
    <3>1. PICK j \in 1..Len(log'[p]) : j = Len(log[p]) + 1 /\ log'[p][j] = s
      BY <1>6, <1>9
    <3>2. j > position[p] /\ j > committed[p]
      BY <1>1, <1>9, <3>1 DEF TypeOK, LogsGrow
    <3>3. ASSUME NEW w \in Worker, worker[w].part = p
          PROVE  j > worker[w].offset
      <4>1. worker[w].offset = 0 \/ worker[w].offset \in 1..Len(log[p])
        <5>1. worker[w].pc \in {"down", "read", "commit", "forward", "wait"}
          BY <1>1 DEF TypeOK, WorkerState
        <5>2. QED  BY <1>1, <3>3, <5>1 DEF WorkersOK, HoldsMessage, NoWorker, Reading
      <4>2. QED  BY <1>9, <3>1, <4>1 DEF LogsGrow
    <3>4. Beyond(p, j)'
      BY <1>3, <1>10, <3>2, <3>3 DEF Beyond, SameHands, SameMessages
    <3>5. QED  BY <3>1, <3>4 DEF Ahead
  <2>3. \A t \in accepted' \ accepted : t \in finished' \/ Ahead(t)'
    <3>1. accepted' \subseteq accepted \cup {s} /\ (~ok => accepted' = accepted)
      BY <1>a, <1>8 DEF AnswerTo, status
    <3>2. QED  BY <2>2, <3>1
  <2>4. finished \subseteq finished'
    BY <1>3
  <2>5. Tally' >= Tally
    BY <1>1, <1>3, SameTally DEF workerCounters
  <2>6. QED  BY <1>1, <1>10, <1>11, <2>1, <2>3, <2>4, <2>5, GoneStays DEF SameHands
<1>14. Funnel'
  <2>1. Acked' \subseteq Acked
    BY <1>8, <1>10 DEF Acked
  <2>2. Processing' \subseteq Processing
    BY <1>1, <1>10 DEF Processing, TypeOK, NoRequest
  <2>3. \A w \in Worker : InHand(w)' = InHand(w)
    BY <1>10 DEF InHand, SameHands
  <2>4. QED  BY <1>1, <1>3, <2>1, <2>2, <2>3, SameFunnel DEF workerCounters, serverCounters
<1>15. QED  BY <1>11, <1>12, <1>13, <1>14 DEF IInv

(* A failed write answers 500. *)
LEMMA RefusedInv ==
  ASSUME IInv, NEW h \in Handler, handler[h].pc # "idle", AnswerTo(h, 500),
         UNCHANGED <<log, group, workerCounters, serverCounters, evaluated, environment, finished>>
  PROVE  IInv'
<1>1. TypeOK /\ WorkersOK /\ HandlersOK /\ GoneAccounted /\ Funnel
  BY DEF IInv
<1>2. UNCHANGED <<log, committed, position, owner, members, workerKafkaMessagesTotal,
                  workerForwardTotal, serverProcessTotal, serverVMWritesTotal,
                  evaluated, finished, retired, crashes, serverCrashes, ingestMode>>
  BY DEF group, workerCounters, serverCounters, environment
<1>3. /\ handler' = [handler EXCEPT ![h] = NoRequest] /\ SameHands
      /\ \A w \in Worker : w # handler[h].client => worker'[w] = worker[w]
      /\ \A w \in Worker : w = handler[h].client => worker'[w].reply = 500
      /\ agent' \in [Machine -> Agent]
      /\ worker' \in [Worker -> WorkerState]
      /\ handler' \in [Handler -> Request \cup {NoRequest}]
      /\ accepted' \subseteq Sample
  BY <1>1, AnswerToFields
<1>4. TypeOK'
  BY <1>1, <1>2, <1>3 DEF TypeOK
<1>5. WorkersOK' /\ HandlersOK'
  <2>1. LogsGrow
    BY <1>1, <1>2 DEF LogsGrow, TypeOK
  <2>2. QED  BY <1>1, <1>2, <2>1, AnswerToOK
<1>6. GoneAccounted'
  <2>1. \A t \in Sample : Ahead(t) => Ahead(t)'
    BY <1>2, <1>3, AheadStays DEF SameHands
  <2>2. finished \subseteq finished'
    BY <1>2
  <2>3. accepted' = accepted
    BY DEF AnswerTo
  <2>4. Tally' >= Tally
    BY <1>1, <1>2, SameTally DEF workerCounters
  <2>5. QED  BY <1>1, <1>3, <1>4, <2>1, <2>2, <2>3, <2>4, GoneStays DEF SameHands
<1>7. Funnel'
  <2>1. Acked' \subseteq Acked
    BY <1>3 DEF Acked
  <2>2. Processing' \subseteq Processing
    BY <1>1, <1>3 DEF Processing, TypeOK, NoRequest
  <2>3. \A w \in Worker : InHand(w)' = InHand(w)
    BY <1>3 DEF InHand, SameHands
  <2>4. QED  BY <1>1, <1>2, <2>1, <2>2, <2>3, SameFunnel DEF workerCounters, serverCounters
<1>8. QED  BY <1>4, <1>5, <1>6, <1>7 DEF IInv

LEMMA Appended ==
  ASSUME NEW S, NEW l \in Seq(S), NEW x \in S
  PROVE  LET m == Append(l, x) IN
         /\ m \in Seq(S) /\ Len(m) \in DOMAIN m /\ m[Len(m)] = x
         /\ \A i \in DOMAIN l : i \in DOMAIN m /\ m[i] = l[i]
OBVIOUS

LEMMA EvaluatedGrows ==
  ASSUME TypeOK, NEW s \in Sample,
         evaluated' = [evaluated EXCEPT ![s[1]] = Append(@, s[2])]
  PROVE  evaluated' \in [Machine -> Seq(1..MaxSamples)]
<1>1. s[1] \in Machine /\ s[2] \in 1..MaxSamples
  BY SampleParts
<1>2. PICK l \in Seq(1..MaxSamples) : l = evaluated[s[1]]
  BY <1>1 DEF TypeOK
<1>3. PICK l2 \in Seq(1..MaxSamples) : l2 = Append(l, s[2])
  BY <1>1, Appended
<1>4. evaluated' = [evaluated EXCEPT ![s[1]] = l2]
  BY <1>1, <1>2, <1>3 DEF TypeOK
<1>5. QED  BY <1>1, <1>3, <1>4 DEF TypeOK

LEMMA HandlerPc ==
  ASSUME NEW r \in Request, NEW pc \in {"publish", "writeVM", "evaluate"}
  PROVE  LET q == [r EXCEPT !.pc = pc] IN
         /\ q \in Request /\ q.pc = pc /\ q.path = r.path /\ q.client = r.client
         /\ q.sample = r.sample
BY DEF Request

LEMMA WriteVMInv ==
  ASSUME IInv, NEW h \in Handler, WriteVM(h)
  PROVE  IInv'
<1>1. TypeOK /\ WorkersOK /\ HandlersOK /\ GoneAccounted /\ Funnel
  BY DEF IInv
<1>2. /\ handler[h].pc = "writeVM" /\ handler[h] \in Request /\ handler[h].sample \in Sample
  BY <1>1, IsRequest DEF WriteVM
<1>3. UNCHANGED <<log, committed, position, owner, members, workerKafkaMessagesTotal,
                  workerForwardTotal, serverProcessTotal, retired, finished, crashes,
                  serverCrashes, ingestMode>>
  BY DEF WriteVM, group, workerCounters, environment
<1>4. CASE /\ serverVMWritesTotal' = serverVMWritesTotal + 1
           /\ evaluated' = [evaluated EXCEPT ![handler[h].sample[1]] =
                              Append(@, handler[h].sample[2])]
           /\ handler' = [handler EXCEPT ![h].pc = "evaluate"]
           /\ UNCHANGED <<agent, worker, accepted>>
  <2>1. PICK s \in Sample : s = handler[h].sample
    BY <1>2
  <2>2. evaluated' \in [Machine -> Seq(1..MaxSamples)]
    BY <1>1, <1>4, <2>1, EvaluatedGrows
  <2>3. PICK r \in Request : /\ r.pc = "evaluate" /\ r.path = handler[h].path
                             /\ r.client = handler[h].client /\ r.sample = s
                             /\ r = [handler[h] EXCEPT !.pc = "evaluate"]
    BY <1>2, <2>1, HandlerPc
  <2>4. handler' \in [Handler -> Request \cup {NoRequest}] /\ handler'[h] = r
        /\ \A k \in Handler : k # h => handler'[k] = handler[k]
    BY <1>1, <1>4, <2>3 DEF TypeOK
  <2>5. TypeOK'
    <3>1. serverVMWritesTotal' \in Nat
      BY <1>1, <1>4 DEF TypeOK
    <3>2. agent' = agent /\ worker' = worker /\ accepted' = accepted
      BY <1>4
    <3>3. QED  BY <1>1, <1>3, <2>2, <2>4, <3>1, <3>2 DEF TypeOK
  <2>6. WorkersOK'
    <3> SUFFICES ASSUME NEW w \in Worker
                 PROVE  HoldsMessage(w) => HoldsMessage(w)'
      BY <1>1, <1>3, <1>4 DEF WorkersOK
    <3>1. QED  BY <1>3, <1>4 DEF HoldsMessage
  <2>7. HandlersOK'
    <3>1. \A k \in Handler : handler'[k].client = handler[k].client
                             /\ handler'[k].sample = handler[k].sample
                             /\ handler'[k].path = handler[k].path
      BY <2>1, <2>3, <2>4
    <3>2. \A k \in Handler : handler'[k].client \in Worker =>
            /\ handler'[k].path = "process"
            /\ worker'[handler'[k].client].pc = "wait"
            /\ worker'[handler'[k].client].reply = 0
            /\ worker'[handler'[k].client].msg = handler'[k].sample
      BY <1>1, <1>4, <3>1 DEF HandlersOK
    <3>3. \A k, j \in Handler :
            handler'[k].client = handler'[j].client /\ handler'[k].client \in Worker => k = j
      BY <1>1, <3>1 DEF HandlersOK
    <3>4. QED  BY <3>2, <3>3 DEF HandlersOK
  <2>8. GoneAccounted'
    <3>1. SameMessages
      BY <1>4 DEF SameMessages
    <3>2. \A t \in Sample : Ahead(t) => Ahead(t)'
      BY <1>3, <3>1, AheadStays
    <3>3. Tally' >= Tally
      BY <1>1, <1>3, SameTally DEF workerCounters
    <3>4. QED  BY <1>1, <1>3, <1>4, <2>5, <3>1, <3>2, <3>3, GoneStays
  <2>9. Funnel'
    <3>1. Processing' \subseteq Processing \cup {h}
      BY <2>4 DEF Processing
    <3>2. IsFiniteSet(Processing) /\ Cardinality(Processing) \in Nat
      BY <1>1, Counted
    <3>3. IsFiniteSet(Processing \cup {h})
          /\ Cardinality(Processing \cup {h}) \in {Cardinality(Processing), Cardinality(Processing) + 1}
      BY <3>2, FS_AddElement
    <3>4. Cardinality(Processing') \in Nat
          /\ Cardinality(Processing') <= Cardinality(Processing \cup {h})
      BY <3>1, <3>3, Fewer
    <3>5. serverProcessTotal + Cardinality(Processing') <= serverVMWritesTotal + 1
      BY <1>1, <3>2, <3>3, <3>4, Counted DEF Funnel
    <3>6. Acked' = Acked /\ Successes' = Successes
      BY <1>3, <1>4 DEF Acked, Successes
    <3>7. \A w \in Worker : InHand(w)' = InHand(w) /\ Forwards(w)' = Forwards(w)
      BY <1>3, <1>4 DEF InHand, Forwards
    <3>8. QED  BY <1>1, <1>3, <1>4, <3>5, <3>6, <3>7 DEF Funnel
  <2>10. QED  BY <2>5, <2>6, <2>7, <2>8, <2>9 DEF IInv
<1>5. CASE AnswerTo(h, ProcessStatus(TRUE)) /\ UNCHANGED <<serverVMWritesTotal, evaluated>>
  <2>1. AnswerTo(h, 500)
    BY <1>5 DEF ProcessStatus
  <2>2. QED
    BY <1>2, <1>3, <1>5, <2>1, RefusedInv DEF group, workerCounters, serverCounters, environment
<1>6. QED  BY <1>4, <1>5 DEF WriteVM

LEMMA EvaluatedInv ==
  ASSUME IInv, NEW h \in Handler, Evaluated(h)
  PROVE  IInv'
<1>1. TypeOK /\ WorkersOK /\ HandlersOK /\ GoneAccounted /\ Funnel
  BY DEF IInv
<1>2. /\ handler[h].pc = "evaluate" /\ handler[h] \in Request /\ handler[h].sample \in Sample
  BY <1>1, IsRequest DEF Evaluated
<1>3. UNCHANGED <<log, committed, position, owner, members, workerKafkaMessagesTotal,
                  workerForwardTotal, serverVMWritesTotal, evaluated, retired, crashes,
                  serverCrashes, ingestMode>>
  BY DEF Evaluated, group, workerCounters, environment
<1>4. /\ AnswerTo(h, 200)
      /\ serverProcessTotal' = IF handler[h].path = "process"
                               THEN serverProcessTotal + 1 ELSE serverProcessTotal
      /\ finished' = finished \cup {handler[h].sample}
  BY DEF Evaluated, ProcessStatus
<1>5. /\ handler' = [handler EXCEPT ![h] = NoRequest] /\ SameHands
      /\ \A w \in Worker : w # handler[h].client => worker'[w] = worker[w]
      /\ agent' \in [Machine -> Agent]
      /\ worker' \in [Worker -> WorkerState]
      /\ handler' \in [Handler -> Request \cup {NoRequest}]
      /\ accepted' \subseteq Sample
  BY <1>1, <1>2, <1>4, AnswerToFields
<1>6. TypeOK'
  <2>1. serverProcessTotal' \in Nat
    BY <1>1, <1>4 DEF TypeOK
  <2>2. finished' \subseteq Sample
    BY <1>1, <1>2, <1>4 DEF TypeOK
  <2>3. QED  BY <1>1, <1>3, <1>5, <2>1, <2>2 DEF TypeOK
<1>7. WorkersOK' /\ HandlersOK'
  <2>1. LogsGrow
    BY <1>1, <1>3 DEF LogsGrow, TypeOK
  <2>2. QED  BY <1>1, <1>2, <1>3, <1>4, <2>1, AnswerToOK
<1>8. GoneAccounted'
  <2>1. \A t \in Sample : Ahead(t) => Ahead(t)'
    BY <1>3, <1>5, AheadStays DEF SameHands
  <2>2. finished \subseteq finished'
    BY <1>4
  <2>3. \A t \in accepted' \ accepted : t \in finished'
    BY <1>4 DEF AnswerTo
  <2>4. Tally' >= Tally
    BY <1>1, <1>3, SameTally DEF workerCounters
  <2>5. QED  BY <1>1, <1>5, <1>6, <2>1, <2>2, <2>3, <2>4, GoneStays DEF SameHands
<1>9. Funnel'
  <2>1. /\ IsFiniteSet(Acked) /\ Cardinality(Acked) \in Nat
        /\ IsFiniteSet(Processing) /\ Cardinality(Processing) \in Nat
        /\ Successes \in Nat /\ serverProcessTotal \in Nat
        /\ serverVMWritesTotal \in Nat
    BY <1>1, Counted
  <2>2. /\ \A w \in Worker : InHand(w)' = InHand(w) /\ Forwards(w)' = Forwards(w)
        /\ Successes' = Successes
    BY <1>3, <1>5 DEF InHand, SameHands, Forwards, Successes
  <2>3. Processing' = Processing \ {h}
    BY <1>1, <1>5 DEF Processing, TypeOK, NoRequest
  <2>4. Cardinality(Processing')
          = IF h \in Processing THEN Cardinality(Processing) - 1 ELSE Cardinality(Processing)
    BY <2>1, <2>3, FS_RemoveElement
  <2>5. h \in Processing <=> handler[h].path = "process"
    BY <1>2 DEF Processing
  <2>6. serverProcessTotal' + Cardinality(Processing') <= serverVMWritesTotal
    BY <1>1, <1>4, <2>1, <2>4, <2>5 DEF Funnel
  <2>7. serverCrashes = 0 => Successes + Cardinality(Acked') <= serverProcessTotal'
    <3>1. CASE handler[h].client \in Worker
      <4>1. handler[h].path = "process"
        BY <1>1, <3>1 DEF HandlersOK
      <4>2. Acked' \subseteq Acked \cup {handler[h].client}
        BY <1>5 DEF Acked
      <4>3. IsFiniteSet(Acked \cup {handler[h].client})
            /\ Cardinality(Acked \cup {handler[h].client})
                 \in {Cardinality(Acked), Cardinality(Acked) + 1}
        BY <2>1, FS_AddElement
      <4>4. Cardinality(Acked') \in Nat
            /\ Cardinality(Acked') <= Cardinality(Acked \cup {handler[h].client})
        BY <4>2, <4>3, Fewer
      <4>5. QED  BY <1>1, <1>4, <2>1, <4>1, <4>3, <4>4 DEF Funnel
    <3>2. CASE handler[h].client \notin Worker
      <4>1. Acked' = Acked
        BY <1>5, <3>2 DEF Acked
      <4>2. QED  BY <1>1, <1>4, <2>1, <4>1 DEF Funnel
    <3>3. QED  BY <3>1, <3>2
  <2>8. QED  BY <1>1, <1>3, <2>2, <2>6, <2>7 DEF Funnel
<1>10. QED  BY <1>6, <1>7, <1>8, <1>9 DEF IInv

(* A step that reads no message and evaluates none. *)
LEMMA Quiet ==
  ASSUME TypeOK, GoneAccounted, Funnel, TypeOK', SameMessages,
         \A w \in Worker : InHand(w)' = InHand(w),
         UNCHANGED <<log, committed, position, accepted, finished, workerCounters>>,
         Acked' \subseteq Acked, Processing' \subseteq Processing,
         \/ UNCHANGED <<serverCounters, crashes, serverCrashes>>
         \/ crashes' = crashes + 1 /\ serverCrashes' = serverCrashes + 1 /\ Processing' = {}
              /\ serverProcessTotal' = 0 /\ serverVMWritesTotal' = 0
  PROVE  GoneAccounted' /\ Funnel'
<1>1. Funnel'
  BY SameFunnel
<1>2. \A t \in Sample : Ahead(t) => Ahead(t)'
  BY AheadStays
<1>3. Tally' >= Tally
  BY SameTally
<1>4. QED  BY <1>1, <1>2, <1>3, GoneStays

(* Workers and handlers when some of the clients are told that the connection *)
(* failed, and the handlers of none but those lose their client or end. *)
LEMMA Disconnected ==
  ASSUME TypeOK, WorkersOK, HandlersOK, TypeOK', NEW C, None \notin C, SameHands,
         UNCHANGED <<log, finished>>,
         \A w \in Worker : w \in C => worker[w].pc = "wait" /\ worker'[w].reply = -1,
         \A w \in Worker : w \notin C => worker'[w] = worker[w],
         \A h \in Handler : \/ handler'[h] = handler[h] /\ handler[h].client \notin C
                            \/ handler'[h].client \notin Worker
  PROVE  WorkersOK' /\ HandlersOK'
<1>1. WorkersOK'
  <2> SUFFICES ASSUME NEW w \in Worker
               PROVE  /\ worker'[w].pc \in {"down", "read"} => worker'[w] \in {NoWorker, Reading}
                      /\ worker'[w].pc \in {"commit", "forward", "wait"} => HoldsMessage(w)'
                      /\ worker'[w].reply # 0 => worker'[w].pc = "wait"
                      /\ worker'[w].reply = 200 => worker'[w].msg \in finished'
    BY DEF WorkersOK
  <2>1. HoldsMessage(w) => HoldsMessage(w)'
    BY DEF HoldsMessage, SameHands, SameMessages
  <2>2. CASE w \in C
    BY <2>1, <2>2 DEF WorkersOK, SameHands
  <2>3. CASE w \notin C
    BY <2>1, <2>3 DEF WorkersOK, SameHands
  <2>4. QED  BY <2>2, <2>3
<1>2. ASSUME NEW k \in Handler, handler'[k].client \in Worker
      PROVE  /\ handler'[k] = handler[k]
             /\ worker'[handler'[k].client] = worker[handler[k].client]
  BY <1>2
<1>3. \A k \in Handler : handler'[k].client \in Worker =>
        /\ handler'[k].path = "process"
        /\ worker'[handler'[k].client].pc = "wait"
        /\ worker'[handler'[k].client].reply = 0
        /\ worker'[handler'[k].client].msg = handler'[k].sample
  BY <1>2 DEF HandlersOK
<1>4. \A k, j \in Handler :
        handler'[k].client = handler'[j].client /\ handler'[k].client \in Worker => k = j
  BY <1>2 DEF HandlersOK
<1>5. QED  BY <1>1, <1>3, <1>4 DEF HandlersOK

LEMMA GiveUpInv ==
  ASSUME IInv, NEW h \in Handler, GiveUp(h)
  PROVE  IInv'
<1>1. TypeOK /\ WorkersOK /\ HandlersOK /\ GoneAccounted /\ Funnel
  BY DEF IInv
<1>2. PICK c \in Client : c = handler[h].client /\ handler[h] \in Request
  BY <1>1, IdleHasNoClient DEF GiveUp, Request
<1>3. /\ handler' = [handler EXCEPT ![h].client = None]
      /\ agent' = IF c \in Machine THEN [agent EXCEPT ![c].reply = -1] ELSE agent
      /\ worker' = IF c \in Worker THEN [worker EXCEPT ![c].reply = -1] ELSE worker
      /\ UNCHANGED <<log, committed, position, owner, members, workerKafkaMessagesTotal,
                     workerForwardTotal, serverProcessTotal, serverVMWritesTotal,
                     evaluated, finished, retired, crashes, serverCrashes, ingestMode, accepted>>
  BY <1>2 DEF GiveUp, group, workerCounters, serverCounters, environment
<1>4. agent' \in [Machine -> Agent]
  <2>1. CASE c \in Machine
    <3>1. agent[c] \in Agent /\ -1 \in Reply
      BY <1>1, <2>1 DEF TypeOK, Reply
    <3>2. [agent[c] EXCEPT !.reply = -1] \in Agent
      BY <3>1, AgentReply
    <3>3. agent' = [agent EXCEPT ![c] = [agent[c] EXCEPT !.reply = -1]]
      BY <1>1, <1>3, <2>1 DEF TypeOK
    <3>4. QED  BY <1>1, <3>2, <3>3 DEF TypeOK
  <2>2. QED  BY <1>1, <1>3, <2>1 DEF TypeOK
<1>5. /\ worker' \in [Worker -> WorkerState] /\ SameHands
      /\ \A w \in Worker : w # c => worker'[w] = worker[w]
      /\ \A w \in Worker : w = c => worker'[w].reply = -1
  <2>1. CASE c \in Worker
    <3>1. worker[c] \in WorkerState /\ -1 \in Reply
      BY <1>1, <2>1 DEF TypeOK, Reply
    <3> DEFINE r == [worker[c] EXCEPT !.reply = -1]
    <3>2. r \in WorkerState /\ r.reply = -1 /\ r.pc = worker[c].pc /\ r.msg = worker[c].msg
          /\ r.part = worker[c].part /\ r.offset = worker[c].offset
      BY <3>1, WorkerReply
    <3>3. worker' = [worker EXCEPT ![c] = r]
      BY <1>1, <1>3, <2>1 DEF TypeOK
    <3> HIDE DEF r
    <3>4. QED  BY <1>1, <2>1, <3>2, <3>3 DEF TypeOK, SameHands, SameMessages
  <2>2. CASE c \notin Worker
    BY <1>1, <1>3, <2>2 DEF TypeOK, SameHands, SameMessages
  <2>3. QED  BY <2>1, <2>2
<1>6. PICK q \in Request : /\ q.client = None /\ q.pc = handler[h].pc
                           /\ q.sample = handler[h].sample /\ q.path = handler[h].path
                           /\ q = [handler[h] EXCEPT !.client = None]
  BY <1>2 DEF Request
<1>7. /\ handler' \in [Handler -> Request \cup {NoRequest}] /\ handler'[h] = q
      /\ \A k \in Handler : k # h => handler'[k] = handler[k]
  BY <1>1, <1>3, <1>6 DEF TypeOK
<1>8. TypeOK'
  BY <1>1, <1>3, <1>4, <1>5, <1>7 DEF TypeOK
<1>9. WorkersOK' /\ HandlersOK'
  <2>1. c \in Worker => /\ worker[c].pc = "wait"
                        /\ \A k \in Handler : handler[k].client = c => k = h
    BY <1>1, <1>2 DEF HandlersOK
  <2> DEFINE C == {c} \cap Worker
  <2>2. None \notin C
    BY PipelineAssumption
  <2>3. ASSUME NEW w \in Worker, w \in C PROVE worker[w].pc = "wait" /\ worker'[w].reply = -1
    <3>1. w = c
      BY <2>3
    <3>2. QED  BY <1>5, <2>1, <3>1
  <2>4. \A w \in Worker : w \notin C => worker'[w] = worker[w]
    BY <1>5
  <2>5. \A k \in Handler : \/ handler'[k] = handler[k] /\ handler[k].client \notin C
                           \/ handler'[k].client \notin Worker
    BY <1>6, <1>7, <2>1, PipelineAssumption
  <2> HIDE DEF C
  <2>6. QED  BY <1>1, <1>3, <1>5, <1>8, <2>2, <2>3, <2>4, <2>5, Disconnected
<1>10. GoneAccounted' /\ Funnel'
  <2>1. Acked' \subseteq Acked
    <3>1. \A w \in Worker : w = c => worker'[w].reply # 200
      <4> SUFFICES ASSUME NEW w \in Worker, w = c PROVE worker'[w].reply # 200
        OBVIOUS
      <4>1. worker'[w].reply = -1
        BY <1>5
      <4>2. QED  BY <4>1
    <3>2. \A w \in Worker : w # c => worker'[w] = worker[w]
      BY <1>5
    <3>3. QED  BY <3>1, <3>2 DEF Acked
  <2>2. Processing' \subseteq Processing
    BY <1>6, <1>7 DEF Processing
  <2>3. (\A w \in Worker : InHand(w)' = InHand(w)) /\ SameMessages
    BY <1>5 DEF InHand, SameHands
  <2>4. QED  BY <1>1, <1>3, <1>8, <2>1, <2>2, <2>3, Quiet DEF workerCounters, serverCounters
<1>11. QED  BY <1>8, <1>9, <1>10 DEF IInv

LEMMA CrashServerInv ==
  ASSUME IInv, CrashServer
  PROVE  IInv'
<1>1. TypeOK /\ WorkersOK /\ HandlersOK /\ GoneAccounted /\ Funnel
  BY DEF IInv
<1> DEFINE W == {handler[h].client : h \in Handler}
<1>2. PICK C : C = W
  OBVIOUS
<1>3. /\ handler' = [h \in Handler |-> NoRequest]
      /\ agent' = [m \in Machine |-> IF m \in C THEN [agent[m] EXCEPT !.reply = -1] ELSE agent[m]]
      /\ worker' = [w \in Worker |-> IF w \in C THEN [worker[w] EXCEPT !.reply = -1] ELSE worker[w]]
      /\ ingestMode' \in IngestModes
      /\ crashes' = crashes + 1 /\ crashes < MaxCrashes /\ serverCrashes' = serverCrashes + 1
      /\ serverProcessTotal' = 0 /\ serverVMWritesTotal' = 0
      /\ UNCHANGED <<log, committed, position, owner, members, workerKafkaMessagesTotal,
                     workerForwardTotal, retired, evaluated, accepted, finished>>
  BY <1>2 DEF CrashServer, group, workerCounters
<1>4. \A w \in Worker : w \in C => worker[w].pc = "wait"
  BY <1>1, <1>2 DEF HandlersOK
<1> HIDE DEF W
<1>5. -1 \in Reply
  BY DEF Reply
<1>6. agent' \in [Machine -> Agent]
  <2>1. ASSUME NEW m \in Machine PROVE [agent[m] EXCEPT !.reply = -1] \in Agent
    <3>1. agent[m] \in Agent
      BY <1>1 DEF TypeOK
    <3>2. QED  BY <1>5, <3>1, AgentReply
  <2>2. QED  BY <1>1, <1>3, <2>1 DEF TypeOK
<1>7. ASSUME NEW w \in Worker
      PROVE  /\ worker'[w] \in WorkerState
             /\ w \in C => worker'[w].reply = -1
             /\ w \notin C => worker'[w] = worker[w]
             /\ worker'[w].pc = worker[w].pc /\ worker'[w].msg = worker[w].msg
             /\ worker'[w].part = worker[w].part /\ worker'[w].offset = worker[w].offset
  <2>1. worker[w] \in WorkerState
    BY <1>1 DEF TypeOK
  <2>2. CASE w \in C
    <3>1. worker'[w] = [worker[w] EXCEPT !.reply = -1]
      BY <1>3, <2>2
    <3>2. QED  BY <1>5, <2>1, <2>2, <3>1, WorkerReply
  <2>3. CASE w \notin C
    BY <1>3, <2>1, <2>3
  <2>4. QED  BY <2>2, <2>3
<1>8. SameHands /\ SameMessages
  BY <1>7 DEF SameHands, SameMessages
<1>9. TypeOK'
  <2>1. worker' \in [Worker -> WorkerState]
    <3>1. worker' = [w \in Worker |-> worker'[w]]
      BY <1>3
    <3>2. QED  BY <1>7, <3>1
  <2>2. handler' \in [Handler -> Request \cup {NoRequest}]
    BY <1>3
  <2>3. crashes' \in 0..MaxCrashes /\ serverCrashes' \in 0..crashes'
    BY <1>1, <1>3, PipelineAssumption DEF TypeOK
  <2>4. QED  BY <1>1, <1>3, <1>6, <2>1, <2>2, <2>3 DEF TypeOK
<1>10. WorkersOK' /\ HandlersOK'
  <2>1. PICK D : D = C \cap Worker
    OBVIOUS
  <2>2. None \notin D
    BY <2>1, PipelineAssumption
  <2>3. \A w \in Worker : w \in D => worker[w].pc = "wait" /\ worker'[w].reply = -1
    BY <1>4, <1>7, <2>1
  <2>4. \A w \in Worker : w \notin D => worker'[w] = worker[w]
    BY <1>7, <2>1
  <2>5. \A h \in Handler : handler'[h].client \notin Worker
    BY <1>3, PipelineAssumption DEF NoRequest
  <2>6. QED  BY <1>1, <1>3, <1>8, <1>9, <2>2, <2>3, <2>4, <2>5, Disconnected
<1>11. GoneAccounted' /\ Funnel'
  <2>1. Acked' \subseteq Acked
    <3> SUFFICES ASSUME NEW w \in Worker, worker'[w].reply = 200 PROVE worker[w].reply = 200
      BY DEF Acked
    <3>1. worker'[w].reply # -1
      OBVIOUS
    <3>2. QED  BY <1>7, <3>1
  <2>2. Processing' = {}
    BY <1>3 DEF Processing, NoRequest
  <2>3. \A w \in Worker : InHand(w)' = InHand(w)
    BY <1>8 DEF InHand, SameHands
  <2>4. QED  BY <1>1, <1>3, <1>8, <1>9, <2>1, <2>2, <2>3, Quiet DEF workerCounters
<1>12. QED  BY <1>9, <1>10, <1>11 DEF IInv

-----------------------------------------------------------------------------
(* The agent. *)

(* A step of an agent is a new request of its own, or none. *)
LEMMA AgentStepInv ==
  ASSUME IInv, agent' \in [Machine -> Agent], handler' \in [Handler -> Request \cup {NoRequest}],
         UNCHANGED <<worker, log, group, workerCounters, serverCounters, evaluated,
                     environment, accepted, finished>>,
         \A h \in Handler : \/ handler'[h] = handler[h]
                            \/ handler'[h].client \notin Worker /\ handler'[h].pc # "evaluate"
  PROVE  IInv'
<1>1. TypeOK /\ WorkersOK /\ HandlersOK /\ GoneAccounted /\ Funnel
  BY DEF IInv
<1>2. UNCHANGED <<worker, log, committed, position, owner, members, workerKafkaMessagesTotal,
                  workerForwardTotal, serverProcessTotal, serverVMWritesTotal,
                  evaluated, finished, retired, crashes, serverCrashes, ingestMode, accepted>>
  BY DEF group, workerCounters, serverCounters, environment
<1>3. TypeOK'
  BY <1>1, <1>2 DEF TypeOK
<1>4. SameHands /\ SameMessages
  BY <1>2 DEF SameHands, SameMessages
<1>5. WorkersOK' /\ HandlersOK'
  <2>0. PICK C : C = {}
    OBVIOUS
  <2>1. \A w \in Worker : w \in C => worker[w].pc = "wait" /\ worker'[w].reply = -1
    BY <2>0
  <2>2. \A w \in Worker : w \notin C => worker'[w] = worker[w]
    BY <1>2
  <2>3. \A h \in Handler : \/ handler'[h] = handler[h] /\ handler[h].client \notin C
                           \/ handler'[h].client \notin Worker
    BY <2>0
  <2>4. None \notin C
    BY <2>0
  <2>5. QED  BY <1>1, <1>2, <1>3, <1>4, <2>1, <2>2, <2>3, <2>4, Disconnected
<1>6. GoneAccounted' /\ Funnel'
  <2>1. Acked' = Acked /\ \A w \in Worker : InHand(w)' = InHand(w)
    BY <1>2 DEF Acked, InHand
  <2>2. Processing' \subseteq Processing
    BY DEF Processing
  <2>3. QED  BY <1>1, <1>2, <1>3, <1>4, <2>1, <2>2, Quiet DEF workerCounters, serverCounters
<1>7. QED  BY <1>3, <1>5, <1>6 DEF IInv

LEMMA ReportInv ==
  ASSUME IInv, NEW m \in Machine, Report(m)
  PROVE  IInv'
<1>1. TypeOK
  BY DEF IInv
<1>2. agent[m] \in Agent /\ agent[m].sent \in 0..MaxSamples /\ agent[m].sent < MaxSamples
  BY <1>1 DEF Report, TypeOK, Agent
<1>3. PICK n \in 1..MaxSamples : n = agent[m].sent + 1
  BY <1>2, PipelineAssumption
<1>4. UNCHANGED <<worker, log, group, workerCounters, serverCounters, evaluated,
                  environment, accepted, finished>>
  BY DEF Report
<1>5. CASE \E h \in Handler :
             /\ handler' = [handler EXCEPT ![h] =
                  [pc |-> IF ingestMode = "kafka" THEN "publish" ELSE "writeVM",
                   path |-> "metrics", client |-> m, sample |-> <<m, agent[m].sent + 1>>]]
             /\ agent' = [agent EXCEPT ![m] =
                  [pc |-> "wait", sent |-> agent[m].sent + 1, reply |-> 0]]
  <2>0. PICK r : r = [pc |-> IF ingestMode = "kafka" THEN "publish" ELSE "writeVM",
                      path |-> "metrics", client |-> m, sample |-> <<m, n>>]
    OBVIOUS
  <2>1. PICK h \in Handler :
          /\ handler' = [handler EXCEPT ![h] = r]
          /\ agent' = [agent EXCEPT ![m] = [pc |-> "wait", sent |-> n, reply |-> 0]]
    BY <1>3, <1>5, <2>0
  <2>2. r \in Request /\ r.client \notin Worker /\ r.pc # "evaluate"
    BY <2>0, PipelineAssumption DEF Request, Sample, Client
  <2>3. [pc |-> "wait", sent |-> n, reply |-> 0] \in Agent
    BY PipelineAssumption DEF Agent, Reply
  <2>4. agent' \in [Machine -> Agent]
    BY <1>1, <2>1, <2>3 DEF TypeOK
  <2>5. /\ handler' \in [Handler -> Request \cup {NoRequest}]
        /\ \A k \in Handler : \/ handler'[k] = handler[k]
                              \/ handler'[k].client \notin Worker /\ handler'[k].pc # "evaluate"
    BY <1>1, <2>1, <2>2 DEF TypeOK
  <2>6. QED  BY <1>4, <2>4, <2>5, AgentStepInv
<1>6. CASE agent' = [agent EXCEPT ![m].sent = @ + 1] /\ UNCHANGED handler
  <2>1. [agent[m] EXCEPT !.sent = n] \in Agent
    BY <1>2, PipelineAssumption DEF Agent
  <2>2. agent' = [agent EXCEPT ![m] = [agent[m] EXCEPT !.sent = n]]
    BY <1>3, <1>6
  <2>3. agent' \in [Machine -> Agent]
    BY <1>1, <2>1, <2>2 DEF TypeOK
  <2>4. handler' \in [Handler -> Request \cup {NoRequest}]
    BY <1>1, <1>6 DEF TypeOK
  <2>5. QED  BY <1>4, <1>6, <2>3, <2>4, AgentStepInv
<1>7. QED  BY <1>5, <1>6 DEF Report

LEMMA AgentAnsweredInv ==
  ASSUME IInv, NEW m \in Machine, AgentAnswered(m)
  PROVE  IInv'
<1>1. TypeOK
  BY DEF IInv
<1>2. agent[m] \in Agent
  BY <1>1 DEF TypeOK
<1>3. [agent[m] EXCEPT !.pc = "collect", !.reply = 0] \in Agent
  BY <1>2, ZenonT(60) DEF Agent, Reply
<1>4. agent' = [agent EXCEPT ![m] = [agent[m] EXCEPT !.pc = "collect", !.reply = 0]]
  BY DEF AgentAnswered
<1>5. agent' \in [Machine -> Agent]
  BY <1>1, <1>3, <1>4 DEF TypeOK
<1>6. handler' = handler /\ handler \in [Handler -> Request \cup {NoRequest}]
      /\ UNCHANGED <<worker, log, group, workerCounters, serverCounters, evaluated,
                     environment, accepted, finished>>
  BY <1>1 DEF AgentAnswered, TypeOK
<1>7. QED  BY <1>5, <1>6, AgentStepInv

-----------------------------------------------------------------------------
(* The worker. *)

(* What a step of worker w, and of no other, keeps. *)
OnlyWorker(w) == \A v \in Worker : v # w => worker'[v] = worker[v]

LEMMA WorkersStay ==
  ASSUME WorkersOK, UNCHANGED <<log, finished>>, NEW w \in Worker, OnlyWorker(w),
         worker'[w].pc \in {"down", "read"} => worker'[w] \in {NoWorker, Reading},
         worker'[w].pc \in {"commit", "forward", "wait"} => HoldsMessage(w)',
         worker'[w].reply # 0 => worker'[w].pc = "wait",
         worker'[w].reply # 200
  PROVE  WorkersOK'
<1> SUFFICES ASSUME NEW v \in Worker
             PROVE  /\ worker'[v].pc \in {"down", "read"} => worker'[v] \in {NoWorker, Reading}
                    /\ worker'[v].pc \in {"commit", "forward", "wait"} => HoldsMessage(v)'
                    /\ worker'[v].reply # 0 => worker'[v].pc = "wait"
                    /\ worker'[v].reply = 200 => worker'[v].msg \in finished'
  BY DEF WorkersOK
<1>1. CASE v = w
  BY <1>1
<1>2. CASE v # w
  BY <1>2 DEF WorkersOK, HoldsMessage, OnlyWorker
<1>3. QED  BY <1>1, <1>2

(* A worker that does not wait for an answer is nobody's client. *)
LEMMA HandlersStay ==
  ASSUME HandlersOK, UNCHANGED handler, NEW w \in Worker, OnlyWorker(w),
         worker[w].pc # "wait" \/ worker[w].reply # 0
  PROVE  HandlersOK'
<1>1. \A h \in Handler : handler[h].client \in Worker =>
        handler[h].client # w /\ worker'[handler[h].client] = worker[handler[h].client]
  BY DEF HandlersOK, OnlyWorker
<1>2. \A h \in Handler : handler[h].client \in Worker =>
        /\ handler[h].path = "process"
        /\ worker'[handler[h].client].pc = "wait"
        /\ worker'[handler[h].client].reply = 0
        /\ worker'[handler[h].client].msg = handler[h].sample
  BY <1>1 DEF HandlersOK
<1>3. \A h, k \in Handler :
        handler[h].client = handler[k].client /\ handler[h].client \in Worker => h = k
  BY DEF HandlersOK
<1>4. QED  BY <1>2, <1>3 DEF HandlersOK

(* Messages change hands, and x is dropped; none is evaluated. *)
LEMMA GoneMoves ==
  ASSUME TypeOK, TypeOK', GoneAccounted, UNCHANGED <<accepted, finished>>, NEW x,
         \A s \in Sample \ {x} : Ahead(s) \/ Held(s) => Ahead(s)' \/ Held(s)',
         \/ Tally' >= Tally /\ (x \in Sample => x \in finished)
         \/ Tally' >= Tally + 1
  PROVE  GoneAccounted'
<1>1. accepted' \subseteq Sample /\ Tally' \in Nat
  BY SumsTypeNext DEF TypeOK
<1>2. Gone' \subseteq Gone \cup {x}
  BY <1>1, GoneBut
<1>3. CASE Tally' >= Tally /\ (x \in Sample => x \in finished)
  <2>1. x \notin Gone'
    BY <1>1, <1>3 DEF Gone
  <2>2. Gone' \subseteq Gone
    BY <1>2, <2>1
  <2>3. QED  BY <1>1, <1>3, <2>2, GoneShrinks
<1>4. CASE Tally' >= Tally + 1
  BY <1>1, <1>2, <1>4, GoneGrows
<1>5. QED  BY <1>3, <1>4

(* What a worker has in hand between its commit and the end of its forward. *)
LEMMA InHandOf ==
  ASSUME NEW w \in Worker, OnlyWorker(w)
  PROVE  /\ \A v \in Worker : v # w => InHand(v)' = InHand(v)
         /\ InHand(w) = IF worker[w].pc \in {"forward", "wait"} THEN 1 ELSE 0
         /\ InHand(w)' = IF worker'[w].pc \in {"forward", "wait"} THEN 1 ELSE 0
         /\ (worker[w].pc \in {"forward", "wait"} <=> worker'[w].pc \in {"forward", "wait"})
              => \A v \in Worker : InHand(v)' = InHand(v)
<1>1. \A v \in Worker : v # w => InHand(v)' = InHand(v)
  BY DEF InHand, OnlyWorker
<1>2. /\ InHand(w) = IF worker[w].pc \in {"forward", "wait"} THEN 1 ELSE 0
      /\ InHand(w)' = IF worker'[w].pc \in {"forward", "wait"} THEN 1 ELSE 0
  BY DEF InHand
<1>3. ASSUME worker[w].pc \in {"forward", "wait"} <=> worker'[w].pc \in {"forward", "wait"},
             NEW v \in Worker
      PROVE  InHand(v)' = InHand(v)
  <2>1. CASE v = w
    BY <1>2, <1>3, <2>1
  <2>2. CASE v # w
    BY <1>1, <2>2
  <2>3. QED  BY <2>1, <2>2
<1>4. QED  BY <1>1, <1>2, <1>3

LEMMA FetchMessageInv ==
  ASSUME IInv, NEW w \in Worker, FetchMessage(w)
  PROVE  IInv'
<1>1. TypeOK /\ WorkersOK /\ HandlersOK /\ GoneAccounted /\ Funnel
  BY DEF IInv
<1>2. worker[w].pc = "read" /\ worker[w] = Reading
  BY <1>1 DEF FetchMessage, WorkersOK, NoWorker
<1>3. UNCHANGED <<agent, handler, log, committed, owner, members, workerKafkaMessagesTotal,
                  workerForwardTotal, serverProcessTotal, serverVMWritesTotal,
                  evaluated, finished, retired, crashes, serverCrashes, ingestMode, accepted>>
  BY DEF FetchMessage, workerCounters, serverCounters, environment
<1>4. PICK p \in Partition :
        /\ position[p] < Len(log[p])
        /\ position' = [position EXCEPT ![p] = @ + 1]
        /\ worker' = [worker EXCEPT ![w] =
             [pc |-> "commit", msg |-> log[p][position[p] + 1], part |-> p,
              offset |-> position[p] + 1, reply |-> 0]]
  BY DEF FetchMessage
<1>5. log[p] \in Seq(Sample) /\ Len(log[p]) \in Nat /\ position[p] \in Nat
  BY <1>1 DEF TypeOK
<1>6. PICK n \in 1..Len(log[p]) : n = position[p] + 1
  BY <1>4, <1>5
<1>7. PICK s \in Sample : s = log[p][n]
  BY <1>5, <1>6
<1>8. PICK r \in WorkerState :
        /\ r.pc = "commit" /\ r.msg = s /\ r.part = p /\ r.offset = n /\ r.reply = 0
        /\ r = [pc |-> "commit", msg |-> s, part |-> p, offset |-> n, reply |-> 0]
  <2>1. n \in Nat
    BY <1>5
  <2>2. QED  BY <2>1 DEF WorkerState, Reply
<1>9. /\ position' \in [Partition -> Nat] /\ position'[p] = n
      /\ \A q \in Partition : q # p => position'[q] = position[q]
      /\ worker' \in [Worker -> WorkerState] /\ worker'[w] = r
      /\ OnlyWorker(w)
  <2>1. position' = [position EXCEPT ![p] = n]
    BY <1>4, <1>6
  <2>2. worker' = [worker EXCEPT ![w] = r]
    BY <1>4, <1>6, <1>7, <1>8
  <2>3. QED  BY <1>1, <1>6, <2>1, <2>2 DEF TypeOK, OnlyWorker
<1>10. TypeOK'
  <2>1. ASSUME NEW q \in Partition PROVE position'[q] <= Len(log[q])
    <3>1. CASE q = p
      BY <1>5, <1>9, <3>1
    <3>2. CASE q # p
      BY <1>1, <1>9, <3>2 DEF TypeOK
    <3>3. QED  BY <3>1, <3>2
  <2>2. QED  BY <1>1, <1>3, <1>9, <2>1 DEF TypeOK
<1>11. WorkersOK' /\ HandlersOK'
  <2>1. HoldsMessage(w)'
    BY <1>3, <1>6, <1>8, <1>9 DEF HoldsMessage
  <2>2. WorkersOK'
    BY <1>1, <1>3, <1>8, <1>9, <2>1, WorkersStay
  <2>3. HandlersOK'
    BY <1>1, <1>2, <1>3, <1>9, HandlersStay
  <2>4. QED  BY <2>2, <2>3
<1>12. GoneAccounted'
  <2>1. ASSUME NEW t \in Sample, Held(t) PROVE Held(t)'
    <3>1. PICK v \in Worker : worker[v].msg = t
      BY <2>1 DEF Held
    <3>2. v # w
      BY <1>2, <3>1, NoSampleIsNone DEF Reading, NoWorker
    <3>3. QED  BY <1>9, <3>1, <3>2 DEF Held, OnlyWorker
  <2>2. ASSUME NEW t \in Sample, Ahead(t) PROVE Ahead(t)' \/ Held(t)'
    <3>1. PICK q \in Partition : \E i \in 1..Len(log[q]) : log[q][i] = t /\ Beyond(q, i)
      BY <2>2 DEF Ahead
    <3>2. PICK i \in 1..Len(log[q]) : log[q][i] = t /\ Beyond(q, i)
      BY <3>1
    <3>3. CASE q = p /\ i = n
      BY <1>7, <1>8, <1>9, <3>2, <3>3 DEF Held
    <3>4. CASE q # p \/ i # n
      <4>1. i > position'[q]
        BY <1>5, <1>6, <1>9, <3>2, <3>4 DEF Beyond
      <4>2. ASSUME NEW v \in Worker, worker'[v].part = q PROVE i > worker'[v].offset
        <5>1. CASE v = w
          BY <1>8, <1>9, <4>1, <4>2, <5>1
        <5>2. CASE v # w
          BY <1>9, <3>2, <4>2, <5>2 DEF Beyond, OnlyWorker
        <5>3. QED  BY <5>1, <5>2
      <4>3. Beyond(q, i)'
        BY <1>3, <3>2, <4>1, <4>2 DEF Beyond
      <4>4. i \in 1..Len(log'[q]) /\ log'[q][i] = t
        BY <1>3, <3>2
      <4>5. QED  BY <4>3, <4>4 DEF Ahead
    <3>5. QED  BY <3>3, <3>4
  <2>3. Tally' >= Tally
    BY <1>1, <1>3, SameTally DEF workerCounters
  <2>4. \A t \in Sample \ {NoSample} : Ahead(t) \/ Held(t) => Ahead(t)' \/ Held(t)'
    BY <2>1, <2>2
  <2>5. QED  BY <1>1, <1>3, <1>10, <2>3, <2>4, NoSampleIsNone, GoneMoves
<1>13. Funnel'
  <2>1. Acked' \subseteq Acked
    BY <1>8, <1>9 DEF Acked, OnlyWorker
  <2>2. \A v \in Worker : InHand(v)' = InHand(v)
    <3>1. worker[w].pc = "read" /\ worker'[w].pc = "commit"
      BY <1>2, <1>8, <1>9
    <3>2. QED  BY <1>9, <3>1, InHandOf
  <2>3. Processing' = Processing
    BY <1>3 DEF Processing
  <2>4. QED  BY <1>1, <1>3, <2>1, <2>2, <2>3, SameFunnel DEF workerCounters, serverCounters
<1>14. QED  BY <1>10, <1>11, <1>12, <1>13 DEF IInv

(* The messages that are ahead when w drops or keeps its message, and commits *)
(* at most that one. *)
LEMMA AheadOfWorker ==
  ASSUME WorkersOK, NEW w \in Worker, OnlyWorker(w), UNCHANGED <<log, position>>,
         \A q \in Partition : \/ committed'[q] = committed[q]
                              \/ worker[w].part = q /\ committed'[q] = worker[w].offset,
         \/ worker'[w].part = worker[w].part /\ worker'[w].offset = worker[w].offset
         \/ worker'[w].offset = 0,
         NEW s, Ahead(s)
  PROVE  Ahead(s)'
<1>1. PICK q \in Partition : \E i \in 1..Len(log[q]) : log[q][i] = s /\ Beyond(q, i)
  BY DEF Ahead
<1>2. PICK i \in 1..Len(log[q]) : log[q][i] = s /\ Beyond(q, i)
  BY <1>1
<1>3. i > position'[q] /\ i > committed'[q]
  BY <1>2 DEF Beyond
<1>4. ASSUME NEW v \in Worker, worker'[v].part = q PROVE i > worker'[v].offset
  <2>1. CASE v = w
    <3>1. CASE worker'[w].part = worker[w].part /\ worker'[w].offset = worker[w].offset
      BY <1>2, <1>4, <2>1, <3>1 DEF Beyond
    <3>2. CASE worker'[w].offset = 0
      BY <2>1, <3>2
    <3>3. QED  BY <3>1, <3>2
  <2>2. CASE v # w
    BY <1>2, <1>4, <2>2 DEF Beyond, OnlyWorker
  <2>3. QED  BY <2>1, <2>2
<1>5. Beyond(q, i)'
  BY <1>3, <1>4 DEF Beyond
<1>6. i \in 1..Len(log'[q]) /\ log'[q][i] = s
  BY <1>2
<1>7. QED  BY <1>5, <1>6 DEF Ahead

LEMMA ReadingFields ==
  /\ Reading \in WorkerState /\ NoWorker \in WorkerState
  /\ Reading.pc = "read" /\ Reading.msg = NoSample /\ Reading.reply = 0 /\ Reading.offset = 0
  /\ NoWorker.pc = "down" /\ NoWorker.msg = NoSample /\ NoWorker.reply = 0 /\ NoWorker.offset = 0
  /\ Reading.part = None /\ NoWorker.part = None
BY DEF Reading, NoWorker, WorkerState, Reply

LEMMA WorkerPc ==
  ASSUME NEW v \in WorkerState, NEW pc \in {"forward", "wait"}, NEW reply \in Reply
  PROVE  LET r == [v EXCEPT !.pc = pc, !.reply = reply] IN
         /\ r \in WorkerState /\ r.reply = reply /\ r.pc = pc
         /\ r.msg = v.msg /\ r.part = v.part /\ r.offset = v.offset
BY DEF WorkerState

LEMMA WorkerPcOnly ==
  ASSUME NEW v \in WorkerState, NEW pc \in {"forward", "wait"}
  PROVE  LET r == [v EXCEPT !.pc = pc] IN
         /\ r \in WorkerState /\ r.reply = v.reply /\ r.pc = pc
         /\ r.msg = v.msg /\ r.part = v.part /\ r.offset = v.offset
BY DEF WorkerState

LEMMA TallyIs ==
  /\ Tally = SumFunction(ErrorsOf) + retired + (crashes - serverCrashes)
  /\ Tally' = SumFunction(ErrorsOf)' + retired' + (crashes' - serverCrashes')
BY DEF Tally, ErrorsCounted, ErrorsOf

(* One counter of one worker goes up. *)
LEMMA ReadCounted ==
  ASSUME NEW c \in [Worker -> [ReadResult -> Nat]], NEW w \in Worker, NEW l \in ReadResult
  PROVE  LET d == Inc(c, w, l) IN
         /\ d \in [Worker -> [ReadResult -> Nat]]
         /\ \A v \in Worker : v # w => d[v] = c[v]
         /\ d[w]["read"] = IF l = "read" THEN c[w]["read"] + 1 ELSE c[w]["read"]
         /\ d[w]["read_error"]
              = IF l = "read_error" THEN c[w]["read_error"] + 1 ELSE c[w]["read_error"]
BY DEF Inc, ReadResult

LEMMA ForwardCounted ==
  ASSUME NEW c \in [Worker -> [ForwardOutcome -> Nat]], NEW w \in Worker,
         NEW l \in ForwardOutcome
  PROVE  LET d == Inc(c, w, l) IN
         /\ d \in [Worker -> [ForwardOutcome -> Nat]]
         /\ \A v \in Worker : v # w => d[v] = c[v]
         /\ \A k \in ForwardOutcome : d[w][k] = IF k = l THEN c[w][k] + 1 ELSE c[w][k]
BY DEF Inc, ForwardOutcome

LEMMA CommitMessagesInv ==
  ASSUME IInv, NEW w \in Worker, CommitMessages(w)
  PROVE  IInv'
<1>1. TypeOK /\ WorkersOK /\ HandlersOK /\ GoneAccounted /\ Funnel
  BY DEF IInv
<1>2. worker[w].pc = "commit" /\ worker[w] \in WorkerState /\ HoldsMessage(w) /\ worker[w].reply = 0
  BY <1>1 DEF CommitMessages, WorkersOK, TypeOK
<1>3. UNCHANGED <<agent, handler, log, position, owner, members, workerForwardTotal,
                  serverProcessTotal, serverVMWritesTotal, evaluated, finished, retired,
                  crashes, serverCrashes, ingestMode, accepted>>
  BY DEF CommitMessages, serverCounters, environment
<1>4. PICK p \in Partition : p = worker[w].part
  BY <1>2 DEF HoldsMessage
<1>5. worker[w].offset \in Nat /\ worker[w].offset <= Len(log[p]) /\ Len(log[p]) \in Nat
  BY <1>1, <1>2, <1>4 DEF HoldsMessage, TypeOK
<1>6. /\ committed' \in [Partition -> Nat]
      /\ \A q \in Partition : \/ committed'[q] = committed[q]
                              \/ worker[w].part = q /\ committed'[q] = worker[w].offset
  <2>1. \/ committed' = [committed EXCEPT ![p] = worker[w].offset]
        \/ committed' = committed
    BY <1>4 DEF CommitMessages
  <2>2. QED  BY <1>1, <1>4, <1>5, <2>1 DEF TypeOK
<1>7. \A q \in Partition : committed'[q] <= Len(log[q])
  BY <1>1, <1>4, <1>5, <1>6 DEF TypeOK
<1>8. /\ workerKafkaMessagesTotal[w] \in [ReadResult -> Nat]
      /\ workerKafkaMessagesTotal[w]["read"] \in Nat
      /\ workerKafkaMessagesTotal[w]["read_error"] \in Nat
      /\ Errors(w) \in Nat /\ Forwards(w) \in Nat
  BY <1>1, CountersType
<1>9. CASE /\ workerKafkaMessagesTotal' = Inc(workerKafkaMessagesTotal, w, "read")
           /\ worker' = [worker EXCEPT ![w].pc = "forward"]
  <2>1. PICK r \in WorkerState :
          /\ r = [worker[w] EXCEPT !.pc = "forward"] /\ r.pc = "forward" /\ r.reply = 0
          /\ r.msg = worker[w].msg /\ r.part = worker[w].part /\ r.offset = worker[w].offset
    BY <1>2, WorkerPcOnly
  <2>2. worker' \in [Worker -> WorkerState] /\ worker'[w] = r /\ OnlyWorker(w)
    BY <1>1, <1>9, <2>1 DEF TypeOK, OnlyWorker
  <2>3. /\ workerKafkaMessagesTotal' \in [Worker -> [ReadResult -> Nat]]
        /\ \A v \in Worker : v # w => workerKafkaMessagesTotal'[v] = workerKafkaMessagesTotal[v]
        /\ workerKafkaMessagesTotal'[w]["read"] = workerKafkaMessagesTotal[w]["read"] + 1
        /\ workerKafkaMessagesTotal'[w]["read_error"] = workerKafkaMessagesTotal[w]["read_error"]
    <3>1. "read" \in ReadResult /\ "read_error" \in ReadResult
      BY DEF ReadResult
    <3>2. workerKafkaMessagesTotal \in [Worker -> [ReadResult -> Nat]]
      BY <1>1 DEF TypeOK
    <3>3. QED  BY <1>9, <3>1, <3>2, ReadCounted
  <2>4. TypeOK'
    BY <1>1, <1>3, <1>6, <1>7, <2>2, <2>3 DEF TypeOK
  <2>5. WorkersOK' /\ HandlersOK'
    <3>1. HoldsMessage(w)'
      BY <1>2, <1>3, <2>1, <2>2 DEF HoldsMessage
    <3>2. worker'[w].pc = "forward" /\ worker'[w].reply = 0
      BY <2>1, <2>2
    <3>3. /\ worker'[w].pc \notin {"down", "read"}
          /\ worker'[w].reply # 200
      BY <3>2
    <3>4. UNCHANGED <<log, finished>>
      BY <1>3
    <3>5. OnlyWorker(w)
      BY <2>2
    <3>6. WorkersOK'
      BY <1>1, <3>1, <3>2, <3>3, <3>4, <3>5, WorkersStay
    <3>7. HandlersOK'
      BY <1>1, <1>2, <1>3, <2>2, HandlersStay
    <3>8. QED  BY <3>6, <3>7
  <2>6. GoneAccounted'
    <3>1. SameMessages
      BY <2>1, <2>2 DEF SameMessages, OnlyWorker
    <3>2. \A t \in Sample : Ahead(t) => Ahead(t)'
      BY <1>1, <1>3, <1>6, <2>1, <2>2, AheadOfWorker
    <3>3. finished \subseteq finished'
      BY <1>3
    <3>4. Tally' >= Tally
      <4>1. Errors(w)' = Errors(w)
        BY <1>3, <2>3 DEF Errors
      <4>2. SumFunction(ErrorsOf)' = SumFunction(ErrorsOf)
        <5>1. \A v \in Worker : v # w =>
                /\ workerKafkaMessagesTotal'[v] = workerKafkaMessagesTotal[v]
                /\ workerForwardTotal'[v] = workerForwardTotal[v]
          BY <1>3, <2>3
        <5>2. /\ SumFunction(ErrorsOf)' \in Nat
              /\ SumFunction(ErrorsOf)' + Errors(w) = SumFunction(ErrorsOf) + Errors(w)'
          BY <1>1, <2>4, <5>1, TallyOf
        <5>3. SumFunction(ErrorsOf) \in Nat /\ Errors(w) \in Nat
          BY <1>1, <1>8, SumsType
        <5>4. QED  BY <4>1, <5>2, <5>3
      <4>3. Tally' = Tally
        BY <1>1, <1>3, <4>2, TallyIs, SumsType
      <4>4. QED  BY <1>1, <4>3, SumsType
    <3>5. QED  BY <1>1, <1>3, <2>4, <3>1, <3>2, <3>3, <3>4, GoneStays
  <2>7. Funnel'
    <3>1. Acked' = Acked
      <4>1. worker'[w].reply = 0 /\ worker[w].reply = 0
        BY <1>2, <2>1, <2>2
      <4>2. OnlyWorker(w)
        BY <2>2
      <4>3. QED  BY <4>1, <4>2 DEF Acked, OnlyWorker
    <3>2. /\ Processing' = Processing /\ Successes' = Successes
          /\ \A v \in Worker : Forwards(v)' = Forwards(v)
      BY <1>3 DEF Processing, Successes, Forwards
    <3>3. InHand(w)' = 1 /\ InHand(w) = 0 /\ \A v \in Worker : v # w => InHand(v)' = InHand(v)
      BY <1>2, <2>1, <2>2, InHandOf
    <3>4. ASSUME NEW v \in Worker
          PROVE  workerKafkaMessagesTotal'[v]["read"] = Forwards(v)' + InHand(v)'
      <4>1. CASE v = w
        BY <1>1, <1>8, <2>3, <3>2, <3>3, <4>1 DEF Funnel
      <4>2. CASE v # w
        BY <1>1, <2>3, <3>2, <3>3, <4>2 DEF Funnel
      <4>3. QED  BY <4>1, <4>2
    <3>5. QED  BY <1>1, <1>3, <3>1, <3>2, <3>4 DEF Funnel
  <2>8. QED  BY <2>4, <2>5, <2>6, <2>7 DEF IInv
<1>10. CASE /\ workerKafkaMessagesTotal' = Inc(workerKafkaMessagesTotal, w, "read_error")
            /\ worker' = [worker EXCEPT ![w] = Reading]
  <2>1. worker' \in [Worker -> WorkerState] /\ worker'[w] = Reading /\ OnlyWorker(w)
    BY <1>1, <1>10, ReadingFields DEF TypeOK, OnlyWorker
  <2>2. /\ workerKafkaMessagesTotal' \in [Worker -> [ReadResult -> Nat]]
        /\ \A v \in Worker : v # w => workerKafkaMessagesTotal'[v] = workerKafkaMessagesTotal[v]
        /\ workerKafkaMessagesTotal'[w]["read"] = workerKafkaMessagesTotal[w]["read"]
        /\ workerKafkaMessagesTotal'[w]["read_error"] = workerKafkaMessagesTotal[w]["read_error"] + 1
    <3>1. "read" \in ReadResult /\ "read_error" \in ReadResult
      BY DEF ReadResult
    <3>2. workerKafkaMessagesTotal \in [Worker -> [ReadResult -> Nat]]
      BY <1>1 DEF TypeOK
    <3>3. QED  BY <1>10, <3>1, <3>2, ReadCounted
  <2>3. TypeOK'
    BY <1>1, <1>3, <1>6, <1>7, <2>1, <2>2 DEF TypeOK
  <2>4. WorkersOK' /\ HandlersOK'
    <3>1. WorkersOK'
      BY <1>1, <1>3, <2>1, ReadingFields, WorkersStay
    <3>2. HandlersOK'
      BY <1>1, <1>2, <1>3, <2>1, HandlersStay
    <3>3. QED  BY <3>1, <3>2
  <2>5. GoneAccounted'
    <3>1. PICK x \in Sample : x = worker[w].msg
      BY <1>2 DEF HoldsMessage
    <3>2. \A t \in Sample : Ahead(t) => Ahead(t)'
      BY <1>1, <1>3, <1>6, <2>1, ReadingFields, AheadOfWorker
    <3>3. \A t \in Sample \ {x} : Held(t) => Held(t)'
      BY <2>1, <3>1 DEF Held, OnlyWorker
    <3>4. Tally' >= Tally + 1
      <4>1. Errors(w)' = Errors(w) + 1
        <5>1. workerForwardTotal[w]["error"] \in Nat /\ workerForwardTotal[w]["non_2xx"] \in Nat
          BY <1>1, CountersType
        <5>2. QED  BY <1>3, <1>8, <2>2, <5>1 DEF Errors
      <4>2. SumFunction(ErrorsOf)' = SumFunction(ErrorsOf) + 1
        BY <1>1, <1>3, <1>8, <2>2, <2>3, <4>1, TallyOf, SumsType
      <4>3. Tally' = Tally + 1
        BY <1>1, <1>3, <4>2, TallyIs, SumsType
      <4>4. QED  BY <1>1, <4>3, SumsType
    <3>5. QED  BY <1>1, <1>3, <2>3, <3>2, <3>3, <3>4, GoneMoves
  <2>6. Funnel'
    <3>1. Acked' = Acked
      BY <1>2, <2>1, ReadingFields DEF Acked, OnlyWorker
    <3>2. /\ Processing' = Processing /\ Successes' = Successes
          /\ \A v \in Worker : Forwards(v)' = Forwards(v)
      BY <1>3 DEF Processing, Successes, Forwards
    <3>3. \A v \in Worker : InHand(v)' = InHand(v)
      BY <1>2, <2>1, ReadingFields, InHandOf
    <3>4. \A v \in Worker : workerKafkaMessagesTotal'[v]["read"] = workerKafkaMessagesTotal[v]["read"]
      BY <2>2
    <3>5. QED  BY <1>1, <1>3, <3>1, <3>2, <3>3, <3>4 DEF Funnel
  <2>7. QED  BY <2>3, <2>4, <2>5, <2>6 DEF IInv
<1>11. QED  BY <1>9, <1>10 DEF CommitMessages

LEMMA ForwardInv ==
  ASSUME IInv, NEW w \in Worker, Forward(w)
  PROVE  IInv'
<1>1. TypeOK /\ WorkersOK /\ HandlersOK /\ GoneAccounted /\ Funnel
  BY DEF IInv
<1>2. worker[w].pc = "forward" /\ worker[w] \in WorkerState /\ HoldsMessage(w) /\ worker[w].reply = 0
  BY <1>1 DEF Forward, WorkersOK, TypeOK
<1>3. UNCHANGED <<agent, log, committed, position, owner, members, workerKafkaMessagesTotal,
                  workerForwardTotal, serverProcessTotal, serverVMWritesTotal, evaluated,
                  finished, retired, crashes, serverCrashes, ingestMode, accepted>>
  BY DEF Forward, group, workerCounters, serverCounters, environment
<1>4. PICK s \in Sample : s = worker[w].msg
  BY <1>2 DEF HoldsMessage
<1> DEFINE Waiting(reply) == [worker[w] EXCEPT !.pc = "wait", !.reply = reply]
           Sent == \E h \in Handler :
                     /\ handler[h] = NoRequest
                     /\ handler' = [handler EXCEPT ![h] =
                          [pc |-> "writeVM", path |-> "process",
                           client |-> w, sample |-> worker[w].msg]]
<1>5. \/ worker' = [worker EXCEPT ![w] = Waiting(0)] /\ Sent
      \/ worker' = [worker EXCEPT ![w] = Waiting(-1)] /\ handler' = handler
  <2>1. CASE worker' = [worker EXCEPT ![w].pc = "wait"] /\ Sent
    <3>1. [worker[w] EXCEPT !.pc = "wait"] = Waiting(0)
      BY <1>2 DEF WorkerState
    <3>2. worker' = [worker EXCEPT ![w] = [worker[w] EXCEPT !.pc = "wait"]]
      BY <1>1, <2>1 DEF TypeOK
    <3> HIDE DEF Waiting
    <3>3. QED  BY <2>1, <3>1, <3>2
  <2>2. CASE worker' = [worker EXCEPT ![w].pc = "wait", ![w].reply = -1] /\ UNCHANGED handler
    <3>1. worker' = [worker EXCEPT ![w] = Waiting(-1)]
      BY <1>1, <2>2 DEF TypeOK
    <3>2. QED  BY <2>2, <3>1
  <2>3. QED  BY <2>1, <2>2 DEF Forward
<1>6. PICK reply \in {0, -1} :
        /\ worker' = [worker EXCEPT ![w] = Waiting(reply)]
        /\ \/ reply = 0 /\ Sent
           \/ reply = -1 /\ handler' = handler
  <2> HIDE DEF Waiting, Sent
  <2>1. QED  BY <1>5
<1>7. /\ worker' \in [Worker -> WorkerState] /\ OnlyWorker(w)
      /\ worker'[w].pc = "wait" /\ worker'[w].reply = reply /\ worker'[w].msg = worker[w].msg
      /\ worker'[w].part = worker[w].part /\ worker'[w].offset = worker[w].offset
  <2>1. reply \in Reply
    BY DEF Reply
  <2>2. /\ Waiting(reply) \in WorkerState /\ Waiting(reply).pc = "wait"
        /\ Waiting(reply).reply = reply /\ Waiting(reply).msg = worker[w].msg
        /\ Waiting(reply).part = worker[w].part /\ Waiting(reply).offset = worker[w].offset
    BY <1>2, <2>1, WorkerPc, ZenonT(60)
  <2> HIDE DEF Waiting
  <2>3. QED  BY <1>1, <1>6, <2>2 DEF TypeOK, OnlyWorker
<1>8. /\ worker'[w].pc = "wait" /\ worker'[w].reply = reply /\ worker'[w].msg = s
      /\ worker'[w].part = worker[w].part /\ worker'[w].offset = worker[w].offset
  BY <1>4, <1>7
<1>9. OnlyWorker(w)
  BY <1>7
<1>10. WorkersOK'
  <2>1. HoldsMessage(w)'
    BY <1>2, <1>3, <1>4, <1>8 DEF HoldsMessage
  <2>2. worker'[w].reply # 200 /\ worker'[w].pc \notin {"down", "read"}
    BY <1>8
  <2>3. UNCHANGED <<log, finished>>
    BY <1>3
  <2>4. QED  BY <1>1, <1>8, <1>9, <2>1, <2>2, <2>3, WorkersStay
<1>11. \A k \in Handler : handler[k].client # w
  BY <1>1, <1>2 DEF HandlersOK
<1>12. handler' \in [Handler -> Request \cup {NoRequest}] /\ HandlersOK'
       /\ Processing' \subseteq Processing
  <2>1. CASE reply = -1
    <3>1. handler' = handler
      BY <1>6, <2>1
    <3>2. HandlersOK'
      BY <1>1, <1>2, <1>3, <1>9, <3>1, HandlersStay
    <3>3. QED  BY <1>1, <3>1, <3>2 DEF TypeOK, Processing
  <2>2. CASE reply = 0
    <3>0. PICK q : q = [pc |-> "writeVM", path |-> "process", client |-> w, sample |-> s]
      OBVIOUS
    <3>1. PICK h \in Handler : handler' = [handler EXCEPT ![h] = q]
      <4>1. Sent
        BY <1>6, <2>2
      <4>2. QED  BY <1>4, <3>0, <4>1
    <3>2. q \in Request /\ q.pc = "writeVM" /\ q.path = "process" /\ q.client = w /\ q.sample = s
      BY <3>0 DEF Request, Client
    <3>3. /\ handler' \in [Handler -> Request \cup {NoRequest}] /\ handler'[h] = q
          /\ \A k \in Handler : k # h => handler'[k] = handler[k]
      BY <1>1, <3>1, <3>2 DEF TypeOK
    <3>4. \A k \in Handler : k = h => /\ handler'[k].client = w /\ handler'[k].path = "process"
                                      /\ handler'[k].pc = "writeVM" /\ handler'[k].sample = s
      BY <3>2, <3>3
    <3>5. ASSUME NEW k \in Handler, handler'[k].client \in Worker
          PROVE  /\ handler'[k].path = "process"
                 /\ worker'[handler'[k].client].pc = "wait"
                 /\ worker'[handler'[k].client].reply = 0
                 /\ worker'[handler'[k].client].msg = handler'[k].sample
      <4>1. CASE k = h
        BY <1>8, <2>2, <3>4, <4>1
      <4>2. CASE k # h
        <5>1. handler'[k] = handler[k] /\ handler[k].client # w /\ handler[k].client \in Worker
          BY <1>11, <3>3, <3>5, <4>2
        <5>2. worker'[handler[k].client] = worker[handler[k].client]
          BY <1>9, <5>1 DEF OnlyWorker
        <5>3. QED  BY <1>1, <5>1, <5>2 DEF HandlersOK
      <4>3. QED  BY <4>1, <4>2
    <3>6. ASSUME NEW k \in Handler, NEW j \in Handler, handler'[k].client = handler'[j].client,
                 handler'[k].client \in Worker
          PROVE  k = j
      <4>1. CASE k = h
        BY <1>11, <3>3, <3>4, <3>6, <4>1
      <4>2. CASE j = h
        BY <1>11, <3>3, <3>4, <3>6, <4>2
      <4>3. CASE k # h /\ j # h
        BY <1>1, <3>3, <3>6, <4>3 DEF HandlersOK
      <4>4. QED  BY <4>1, <4>2, <4>3
    <3>7. \A k \in Handler : handler'[k].pc = "evaluate" => handler'[k] = handler[k]
      BY <3>3, <3>4
    <3>9. HandlersOK'
      BY <3>5, <3>6 DEF HandlersOK
    <3>10. Processing' \subseteq Processing
      BY <3>7 DEF Processing
    <3>11. QED  BY <3>3, <3>9, <3>10
  <2>3. QED  BY <2>1, <2>2
<1>13. TypeOK'
  BY <1>1, <1>3, <1>7, <1>12 DEF TypeOK
<1>14. GoneAccounted' /\ Funnel'
  <2>1. SameMessages
    BY <1>4, <1>8, <1>9 DEF SameMessages, OnlyWorker
  <2>2. Acked' \subseteq Acked
    <3>1. worker'[w].reply # 200
      BY <1>8
    <3>2. QED  BY <1>9, <3>1 DEF Acked, OnlyWorker
  <2>3. \A v \in Worker : InHand(v)' = InHand(v)
    BY <1>2, <1>8, <1>9, InHandOf
  <2>4. QED
    BY <1>1, <1>3, <1>12, <1>13, <2>1, <2>2, <2>3, Quiet DEF workerCounters, serverCounters
<1>15. QED  BY <1>10, <1>12, <1>13, <1>14 DEF IInv

LEMMA StartWorkerInv ==
  ASSUME IInv, NEW w \in Worker, StartWorker(w)
  PROVE  IInv'
<1>1. TypeOK /\ WorkersOK /\ HandlersOK /\ GoneAccounted /\ Funnel
  BY DEF IInv
<1>2. worker[w].pc = "down" /\ worker[w] = NoWorker
  BY <1>1, ReadingFields DEF StartWorker, WorkersOK
<1>3. UNCHANGED <<agent, handler, log, committed, position, owner, members,
                  workerKafkaMessagesTotal, workerForwardTotal, serverProcessTotal,
                  serverVMWritesTotal, evaluated, finished, retired, crashes, serverCrashes, ingestMode, accepted>>
  BY DEF StartWorker, group, workerCounters, serverCounters, environment
<1>4. worker' \in [Worker -> WorkerState] /\ worker'[w] = Reading /\ OnlyWorker(w)
  BY <1>1, ReadingFields DEF StartWorker, TypeOK, OnlyWorker
<1>5. TypeOK'
  BY <1>1, <1>3, <1>4 DEF TypeOK
<1>6. WorkersOK'
  BY <1>1, <1>3, <1>4, ReadingFields, WorkersStay
<1>7. HandlersOK'
  BY <1>1, <1>2, <1>3, <1>4, HandlersStay
<1>8. SameMessages
  BY <1>2, <1>4, ReadingFields DEF SameMessages, OnlyWorker
<1>9. Acked' = Acked
  BY <1>2, <1>4, ReadingFields DEF Acked, OnlyWorker
<1>10. \A v \in Worker : InHand(v)' = InHand(v)
  BY <1>2, <1>4, ReadingFields, InHandOf
<1>11. Processing' = Processing
  BY <1>3 DEF Processing
<1>12. GoneAccounted' /\ Funnel'
  BY <1>1, <1>3, <1>5, <1>8, <1>9, <1>10, <1>11, Quiet DEF workerCounters, serverCounters
<1>13. QED  BY <1>5, <1>6, <1>7, <1>12 DEF IInv

LEMMA RebalanceInv ==
  ASSUME IInv, Rebalance
  PROVE  IInv'
<1>1. TypeOK /\ WorkersOK /\ HandlersOK /\ GoneAccounted /\ Funnel
  BY DEF IInv
<1>2. UNCHANGED <<agent, worker, handler, log, committed, workerKafkaMessagesTotal,
                  workerForwardTotal, serverProcessTotal, serverVMWritesTotal, evaluated,
                  finished, retired, crashes, serverCrashes, ingestMode, accepted>>
  BY DEF Rebalance, workerCounters, serverCounters, environment
<1>3. /\ position' = [p \in Partition |-> committed[p]]
      /\ owner' \in [Partition -> Worker \cup {None}] /\ members' \subseteq Worker
  BY DEF Rebalance, StartOffset, Live
<1>4. TypeOK'
  BY <1>1, <1>2, <1>3 DEF TypeOK
<1>5. WorkersOK' /\ HandlersOK'
  BY <1>1, <1>2 DEF WorkersOK, HandlersOK, HoldsMessage
<1>6. GoneAccounted'
  <2>1. ASSUME NEW t \in Sample, Ahead(t) PROVE Ahead(t)'
    <3>1. PICK q \in Partition : \E i \in 1..Len(log[q]) : log[q][i] = t /\ Beyond(q, i)
      BY <2>1 DEF Ahead
    <3>2. PICK i \in 1..Len(log[q]) : log[q][i] = t /\ Beyond(q, i)
      BY <3>1
    <3>3. Beyond(q, i)'
      BY <1>2, <1>3, <3>2 DEF Beyond
    <3>4. i \in 1..Len(log'[q]) /\ log'[q][i] = t
      BY <1>2, <3>2
    <3>5. QED  BY <3>3, <3>4 DEF Ahead
  <2>2. SameMessages
    BY <1>2 DEF SameMessages
  <2>3. finished \subseteq finished'
    BY <1>2
  <2>4. Tally' >= Tally
    BY <1>1, <1>2, SameTally DEF workerCounters
  <2>5. QED  BY <1>1, <1>2, <1>4, <2>1, <2>2, <2>3, <2>4, GoneStays
<1>7. Funnel'
  BY <1>1, <1>2 DEF Funnel, Acked, Processing, InHand, Forwards, Successes
<1>8. QED  BY <1>4, <1>5, <1>6, <1>7 DEF IInv

LEMMA WorkerAnsweredInv ==
  ASSUME IInv, NEW w \in Worker, WorkerAnswered(w)
  PROVE  IInv'
<1>1. TypeOK /\ WorkersOK /\ HandlersOK /\ GoneAccounted /\ Funnel
  BY DEF IInv
<1>2. worker[w].pc = "wait" /\ worker[w] \in WorkerState /\ HoldsMessage(w) /\ worker[w].reply # 0
  BY <1>1 DEF WorkerAnswered, Returned, WorkersOK, TypeOK
<1>3. UNCHANGED <<agent, handler, log, committed, position, owner, members,
                  workerKafkaMessagesTotal, serverProcessTotal, serverVMWritesTotal, evaluated,
                  finished, retired, crashes, serverCrashes, ingestMode, accepted>>
  BY DEF WorkerAnswered, group, serverCounters, environment
<1>4. PICK x \in Sample : x = worker[w].msg
  BY <1>2 DEF HoldsMessage
<1>5. PICK result \in {"success", "error", "non_2xx"} :
        /\ result = "success" <=> worker[w].reply = 200
        /\ workerForwardTotal' = Inc(workerForwardTotal, w, result)
  <2>1. CASE worker[w].reply = -1
    BY <2>1 DEF WorkerAnswered, ForwardResult
  <2>2. CASE worker[w].reply = 200
    <3>1. worker[w].reply # -1
      BY <2>2
    <3>2. ForwardResult(worker[w].reply) = "success"
      BY <2>2, <3>1 DEF ForwardResult
    <3>3. QED  BY <2>2, <3>2 DEF WorkerAnswered
  <2>3. CASE worker[w].reply # -1 /\ worker[w].reply # 200
    <3>1. ForwardResult(worker[w].reply) = "non_2xx"
      BY <2>3 DEF ForwardResult
    <3>2. QED  BY <2>3, <3>1 DEF WorkerAnswered
  <2>4. QED  BY <2>1, <2>2, <2>3
<1>6. worker' \in [Worker -> WorkerState] /\ worker'[w] = Reading /\ OnlyWorker(w)
  BY <1>1, ReadingFields DEF WorkerAnswered, TypeOK, OnlyWorker
<1>7. /\ workerForwardTotal[w]["success"] \in Nat /\ workerForwardTotal[w]["error"] \in Nat
      /\ workerForwardTotal[w]["non_2xx"] \in Nat
      /\ workerKafkaMessagesTotal[w]["read_error"] \in Nat
      /\ Errors(w) \in Nat /\ Forwards(w) \in Nat
  BY <1>1, CountersType
<1>8. /\ workerForwardTotal' \in [Worker -> [ForwardOutcome -> Nat]]
      /\ \A v \in Worker : v # w => workerForwardTotal'[v] = workerForwardTotal[v]
      /\ workerForwardTotal'[w]["success"] = IF result = "success"
           THEN workerForwardTotal[w]["success"] + 1 ELSE workerForwardTotal[w]["success"]
      /\ workerForwardTotal'[w]["error"] = IF result = "error"
           THEN workerForwardTotal[w]["error"] + 1 ELSE workerForwardTotal[w]["error"]
      /\ workerForwardTotal'[w]["non_2xx"] = IF result = "non_2xx"
           THEN workerForwardTotal[w]["non_2xx"] + 1 ELSE workerForwardTotal[w]["non_2xx"]
  <2>1. ForwardOutcome = {"success", "error", "non_2xx"}
    BY DEF ForwardOutcome
  <2>2. workerForwardTotal \in [Worker -> [ForwardOutcome -> Nat]]
    BY <1>1 DEF TypeOK
  <2>3. QED  BY <1>5, <2>1, <2>2, ForwardCounted
<1>9. TypeOK'
  BY <1>1, <1>3, <1>6, <1>8 DEF TypeOK
<1>10. WorkersOK'
  BY <1>1, <1>3, <1>6, ReadingFields, WorkersStay
<1>11. HandlersOK'
  BY <1>1, <1>2, <1>3, <1>6, HandlersStay
<1>12. GoneAccounted'
  <2>1. \A t \in Sample : Ahead(t) => Ahead(t)'
    BY <1>1, <1>3, <1>6, ReadingFields, AheadOfWorker
  <2>2. \A t \in Sample \ {x} : Held(t) => Held(t)'
    BY <1>4, <1>6 DEF Held, OnlyWorker
  <2>3. \/ Tally' >= Tally /\ x \in finished
        \/ Tally' >= Tally + 1
    <3>0. SumFunction(ErrorsOf)' + Errors(w) = SumFunction(ErrorsOf) + Errors(w)'
          /\ SumFunction(ErrorsOf)' \in Nat /\ SumFunction(ErrorsOf) \in Nat /\ Tally \in Nat
      BY <1>1, <1>3, <1>8, <1>9, TallyOf, SumsType
    <3>1. CASE result = "success"
      <4>1. x \in finished
        BY <1>1, <1>4, <1>5, <3>1 DEF WorkersOK
      <4>2. Errors(w)' = Errors(w)
        BY <1>3, <1>8, <3>1 DEF Errors
      <4>3. SumFunction(ErrorsOf)' = SumFunction(ErrorsOf)
        BY <1>7, <3>0, <4>2
      <4>4. Tally' = Tally
        BY <1>3, <4>3, TallyIs
      <4>5. QED  BY <3>0, <4>1, <4>4
    <3>2. CASE result # "success"
      <4>1. Errors(w)' = Errors(w) + 1
        BY <1>3, <1>7, <1>8, <3>2 DEF Errors
      <4>2. SumFunction(ErrorsOf)' = SumFunction(ErrorsOf) + 1
        BY <1>7, <3>0, <4>1
      <4>3. Tally' = Tally + 1
        BY <1>1, <1>3, <4>2, TallyIs, SumsType
      <4>4. QED  BY <3>0, <4>3
    <3>3. QED  BY <3>1, <3>2
  <2>4. QED  BY <1>1, <1>3, <1>9, <2>1, <2>2, <2>3, GoneMoves
<1>13. Funnel'
  <2>1. InHand(w)' = 0 /\ InHand(w) = 1 /\ \A v \in Worker : v # w => InHand(v)' = InHand(v)
    BY <1>2, <1>6, ReadingFields, InHandOf
  <2>2. Forwards(w)' = Forwards(w) + 1 /\ \A v \in Worker : v # w => Forwards(v)' = Forwards(v)
    BY <1>7, <1>8 DEF Forwards
  <2>3. ASSUME NEW v \in Worker
        PROVE  workerKafkaMessagesTotal'[v]["read"] = Forwards(v)' + InHand(v)'
    <3>1. workerKafkaMessagesTotal'[v]["read"] = Forwards(v) + InHand(v)
      BY <1>1, <1>3 DEF Funnel
    <3>2. CASE v = w
      BY <1>7, <2>1, <2>2, <3>1, <3>2
    <3>3. CASE v # w
      BY <2>1, <2>2, <3>1, <3>3
    <3>4. QED  BY <3>2, <3>3
  <2>4. Processing' = Processing
    BY <1>3 DEF Processing
  <2>5. Acked' = Acked \ {w}
    BY <1>6, ReadingFields DEF Acked, OnlyWorker
  <2>6. IsFiniteSet(Acked) /\ Cardinality(Acked) \in Nat
    BY <1>1, Counted
  <2>7. Cardinality(Acked') = IF w \in Acked THEN Cardinality(Acked) - 1 ELSE Cardinality(Acked)
    BY <2>5, <2>6, FS_RemoveElement
  <2>8. Successes' + Cardinality(Acked') = Successes + Cardinality(Acked)
    <3>1. w \in Acked <=> result = "success"
      BY <1>5 DEF Acked
    <3>2. /\ Successes' \in Nat /\ Successes \in Nat
          /\ Successes' + workerForwardTotal[w]["success"]
               = Successes + workerForwardTotal'[w]["success"]
      BY <1>1, <1>3, <1>8, <1>9, TallyOf, SumsType
    <3>3. QED  BY <1>7, <1>8, <2>6, <2>7, <3>1, <3>2
  <2>9. QED  BY <1>1, <1>3, <2>3, <2>4, <2>8 DEF Funnel
<1>14. QED  BY <1>9, <1>10, <1>11, <1>12, <1>13 DEF IInv

LEMMA CrashWorkerInv ==
  ASSUME IInv, NEW w \in Worker, CrashWorker(w)
  PROVE  IInv'
<1>1. TypeOK /\ WorkersOK /\ HandlersOK /\ GoneAccounted /\ Funnel
  BY DEF IInv
<1>2. /\ UNCHANGED <<agent, log, committed, position, serverProcessTotal,
                     serverVMWritesTotal, evaluated, finished, serverCrashes, ingestMode,
                     accepted>>
      /\ workerKafkaMessagesTotal' = [workerKafkaMessagesTotal EXCEPT ![w] = NoReads]
      /\ workerForwardTotal' = [workerForwardTotal EXCEPT ![w] = NoForwards]
      /\ retired' = retired + Errors(w)
      /\ crashes' = crashes + 1 /\ crashes < MaxCrashes
      /\ worker' = [worker EXCEPT ![w] = NoWorker]
      /\ handler' = [h \in Handler |-> IF handler[h].client = w
                                       THEN [handler[h] EXCEPT !.client = None]
                                       ELSE handler[h]]
      /\ owner' = [p \in Partition |-> IF owner[p] = w THEN None ELSE owner[p]]
      /\ members' = members \ {w}
  BY DEF CrashWorker, serverCounters
<1>3. worker' \in [Worker -> WorkerState] /\ worker'[w] = NoWorker /\ OnlyWorker(w)
  BY <1>1, <1>2, ReadingFields DEF TypeOK, OnlyWorker
<1>4. ASSUME NEW h \in Handler
      PROVE  /\ handler'[h] \in Request \cup {NoRequest}
             /\ handler[h].client # w => handler'[h] = handler[h]
             /\ handler[h].client = w => handler'[h].client = None
             /\ handler'[h].pc = handler[h].pc /\ handler'[h].path = handler[h].path
             /\ handler'[h].sample = handler[h].sample
  <2>1. CASE handler[h].client = w
    <3>1. handler[h] \in Request
      BY <1>1, <2>1, IdleHasNoClient, PipelineAssumption
    <3>2. handler'[h] = [handler[h] EXCEPT !.client = None]
      BY <1>2, <2>1
    <3>3. QED  BY <2>1, <3>1, <3>2 DEF Request
  <2>2. CASE handler[h].client # w
    <3>1. handler'[h] = handler[h] /\ handler[h] \in Request \cup {NoRequest}
      BY <1>1, <1>2, <2>2 DEF TypeOK
    <3>2. QED  BY <2>2, <3>1
  <2>3. QED  BY <2>1, <2>2
<1>5. TypeOK'
  <2>1. handler' \in [Handler -> Request \cup {NoRequest}]
    <3>1. handler' = [h \in Handler |-> handler'[h]]
      BY <1>2
    <3>2. QED  BY <1>4, <3>1
  <2>2. crashes' \in 0..MaxCrashes /\ serverCrashes' \in 0..crashes'
    BY <1>1, <1>2, PipelineAssumption DEF TypeOK
  <2>3. owner' \in [Partition -> Worker \cup {None}] /\ members' \subseteq Worker
    BY <1>1, <1>2 DEF TypeOK
  <2>4. /\ workerKafkaMessagesTotal' \in [Worker -> [ReadResult -> Nat]]
        /\ workerForwardTotal' \in [Worker -> [ForwardOutcome -> Nat]]
    <3>1. NoReads \in [ReadResult -> Nat] /\ NoForwards \in [ForwardOutcome -> Nat]
      BY DEF NoReads, NoForwards
    <3>2. QED  BY <1>1, <1>2, <3>1 DEF TypeOK
  <2>5. retired' \in Nat
    BY <1>1, <1>2, CountersType DEF TypeOK
  <2>6. QED  BY <1>1, <1>2, <1>3, <2>1, <2>2, <2>3, <2>4, <2>5 DEF TypeOK
<1>6. WorkersOK'
  BY <1>1, <1>2, <1>3, ReadingFields, WorkersStay
<1>7. HandlersOK'
  <2>1. ASSUME NEW h \in Handler, handler'[h].client \in Worker
        PROVE  /\ handler'[h].client = handler[h].client /\ handler[h].client # w
               /\ worker'[handler'[h].client] = worker[handler[h].client]
    <3>1. handler[h].client # w
      BY <1>4, <2>1, PipelineAssumption
    <3>2. handler'[h] = handler[h]
      BY <1>4, <3>1
    <3>3. QED  BY <1>3, <2>1, <3>1, <3>2 DEF OnlyWorker
  <2>2. ASSUME NEW h \in Handler, handler'[h].client \in Worker
        PROVE  /\ handler'[h].path = "process"
               /\ worker'[handler'[h].client].pc = "wait"
               /\ worker'[handler'[h].client].reply = 0
               /\ worker'[handler'[h].client].msg = handler'[h].sample
    BY <1>1, <1>4, <2>1, <2>2 DEF HandlersOK
  <2>3. \A h, k \in Handler :
          handler'[h].client = handler'[k].client /\ handler'[h].client \in Worker => h = k
    BY <1>1, <2>1 DEF HandlersOK
  <2>4. QED  BY <2>2, <2>3 DEF HandlersOK
<1>8. /\ \A v \in Worker : v # w =>
           /\ workerKafkaMessagesTotal'[v] = workerKafkaMessagesTotal[v]
           /\ workerForwardTotal'[v] = workerForwardTotal[v]
      /\ workerKafkaMessagesTotal'[w] = NoReads /\ workerForwardTotal'[w] = NoForwards
      /\ Errors(w)' = 0 /\ Forwards(w)' = 0 /\ workerForwardTotal'[w]["success"] = 0
      /\ workerKafkaMessagesTotal'[w]["read"] = 0
  <2>1. /\ \A v \in Worker : v # w =>
             /\ workerKafkaMessagesTotal'[v] = workerKafkaMessagesTotal[v]
             /\ workerForwardTotal'[v] = workerForwardTotal[v]
        /\ workerKafkaMessagesTotal'[w] = NoReads /\ workerForwardTotal'[w] = NoForwards
    BY <1>1, <1>2 DEF TypeOK
  <2>2. /\ NoReads["read"] = 0 /\ NoReads["read_error"] = 0 /\ NoForwards["success"] = 0
        /\ NoForwards["error"] = 0 /\ NoForwards["non_2xx"] = 0
    BY DEF NoReads, NoForwards, ReadResult, ForwardOutcome
  <2>3. QED  BY <2>1, <2>2 DEF Errors, Forwards
<1>9. GoneAccounted' /\ Funnel'
  <2>1. PICK x : x = worker[w].msg
    OBVIOUS
  <2>2. \A t \in Sample : Ahead(t) => Ahead(t)'
    BY <1>1, <1>2, <1>3, ReadingFields, AheadOfWorker
  <2>3. \A t \in Sample \ {x} : Held(t) => Held(t)'
    BY <1>3, <2>1 DEF Held, OnlyWorker
  <2>4. /\ Errors(w) \in Nat /\ workerForwardTotal[w]["success"] \in Nat
        /\ SumFunction(ErrorsOf) \in Nat /\ retired \in Nat /\ Tally \in Nat
        /\ crashes \in Nat /\ serverCrashes \in Nat /\ Successes \in Nat
    BY <1>1, CountersType, SumsType
  <2>5. /\ SumFunction(ErrorsOf)' \in Nat
        /\ SumFunction(ErrorsOf)' + Errors(w) = SumFunction(ErrorsOf) + Errors(w)'
        /\ Successes' \in Nat
        /\ Successes' + workerForwardTotal[w]["success"]
             = Successes + workerForwardTotal'[w]["success"]
    BY <1>1, <1>5, <1>8, TallyOf
  <2>6. Tally' >= Tally + 1
    <3>1. SumFunction(ErrorsOf)' + retired' = SumFunction(ErrorsOf) + retired
      BY <1>2, <1>8, <2>4, <2>5
    <3>2. Tally' = Tally + 1
      BY <1>2, <2>4, <2>5, <3>1, TallyIs
    <3>3. QED  BY <2>4, <3>2
  <2>7. GoneAccounted'
    BY <1>1, <1>2, <1>5, <2>2, <2>3, <2>6, GoneMoves
  <2>8. Successes' <= Successes
    BY <1>8, <2>4, <2>5
  <2>9. /\ InHand(w)' = 0 /\ \A v \in Worker : v # w => InHand(v)' = InHand(v)
        /\ \A v \in Worker : v # w => Forwards(v)' = Forwards(v)
    BY <1>3, <1>8, ReadingFields, InHandOf DEF Forwards
  <2>10. ASSUME NEW v \in Worker
         PROVE  workerKafkaMessagesTotal'[v]["read"] = Forwards(v)' + InHand(v)'
    <3>1. CASE v = w
      BY <1>8, <2>9, <3>1
    <3>2. CASE v # w
      BY <1>1, <1>8, <2>9, <3>2 DEF Funnel
    <3>3. QED  BY <3>1, <3>2
  <2>11. Processing' = Processing
    BY <1>4 DEF Processing
  <2>12. Acked' \in SUBSET Acked
    BY <1>3, ReadingFields DEF Acked, OnlyWorker
  <2>13. /\ Cardinality(Acked') \in Nat /\ Cardinality(Acked') <= Cardinality(Acked)
         /\ Cardinality(Acked) \in Nat /\ serverProcessTotal \in Nat
    BY <1>1, <2>12, Counted, Fewer
  <2>14. serverCrashes' = 0 => Successes' + Cardinality(Acked') <= serverProcessTotal'
    BY <1>1, <1>2, <2>4, <2>5, <2>8, <2>13 DEF Funnel
  <2>15. Funnel'
    BY <1>1, <1>2, <2>10, <2>11, <2>14 DEF Funnel
  <2>16. QED  BY <2>7, <2>15
<1>10. QED  BY <1>5, <1>6, <1>7, <1>8, <1>9 DEF IInv

-----------------------------------------------------------------------------
LEMMA InitInv ==
  ASSUME Init
  PROVE  IInv
<1>1. TypeOK
  <2>1. /\ workerKafkaMessagesTotal \in [Worker -> [ReadResult -> Nat]]
        /\ workerForwardTotal \in [Worker -> [ForwardOutcome -> Nat]]
    BY DEF Init, NoReads, NoForwards
  <2>2. QED  BY <2>1, PipelineAssumption, ReadingFields DEF Init, TypeOK, Agent, Reply
<1>2. WorkersOK
  BY ReadingFields DEF Init, WorkersOK
<1>3. HandlersOK
  BY PipelineAssumption DEF Init, HandlersOK, NoRequest
<1>4. GoneAccounted
  <2>1. Gone = {}
    BY DEF Init, Gone
  <2>2. QED  BY <1>1, <2>1, FS_EmptySet, Counted DEF GoneAccounted
<1>5. Funnel
  <2>1. Acked = {} /\ Processing = {}
    BY ReadingFields DEF Init, Acked, Processing, NoRequest
  <2>2. Cardinality({}) = 0
    BY FS_EmptySet
  <2>3. serverProcessTotal = 0 /\ serverVMWritesTotal = 0
    BY DEF Init
  <2>4. ASSUME NEW w \in Worker
        PROVE  workerKafkaMessagesTotal[w]["read"] = Forwards(w) + InHand(w)
    <3>1. InHand(w) = 0
      BY ReadingFields DEF Init, InHand
    <3>2. /\ workerKafkaMessagesTotal[w]["read"] = 0 /\ workerForwardTotal[w]["success"] = 0
          /\ workerForwardTotal[w]["error"] = 0 /\ workerForwardTotal[w]["non_2xx"] = 0
      BY DEF Init, NoReads, NoForwards, ReadResult, ForwardOutcome
    <3>3. QED  BY <3>1, <3>2 DEF Forwards
  <2>5. Successes = 0
    <3>1. SuccessesOf = [w \in Worker |-> 0]
      BY DEF Init, SuccessesOf, NoForwards, ForwardOutcome
    <3>2. SumFunction(SuccessesOf) = 0
      BY <3>1, SumOfZeros, PipelineAssumption
    <3>3. QED  BY <3>2, <1>1, SumsType
  <2>6. QED  BY <2>1, <2>2, <2>3, <2>4, <2>5 DEF Funnel
<1>6. QED  BY <1>1, <1>2, <1>3, <1>4, <1>5 DEF IInv

LEMMA StepInv ==
  ASSUME IInv, [Next]_vars
  PROVE  IInv'
<1>1. ASSUME NEW m \in Machine, Report(m) \/ AgentAnswered(m)
      PROVE  IInv'
  BY <1>1, ReportInv, AgentAnsweredInv
<1>2. ASSUME NEW h \in Handler, HandlerStep(h) \/ GiveUp(h)
      PROVE  IInv'
  BY <1>2, PublishMetricsInv, WriteVMInv, EvaluatedInv, GiveUpInv DEF HandlerStep
<1>3. ASSUME NEW w \in Worker, WorkerStep(w) \/ StartWorker(w) \/ CrashWorker(w)
      PROVE  IInv'
  BY <1>3, FetchMessageInv, CommitMessagesInv, ForwardInv, WorkerAnsweredInv, StartWorkerInv,
     CrashWorkerInv DEF WorkerStep
<1>4. CASE CrashServer \/ Rebalance
  BY <1>4, CrashServerInv, RebalanceInv
<1>5. CASE UNCHANGED vars
  <2>1. UNCHANGED <<agent, worker, handler, log, committed, position, owner, members,
                    workerKafkaMessagesTotal, workerForwardTotal, serverProcessTotal,
                    serverVMWritesTotal, evaluated, finished, retired, crashes,
                    serverCrashes, ingestMode, accepted>>
    BY <1>5 DEF vars, group, workerCounters, serverCounters, environment
  <2>2. TypeOK'
    BY <2>1 DEF IInv, TypeOK
  <2>3. WorkersOK' /\ HandlersOK'
    BY <2>1 DEF IInv, WorkersOK, HandlersOK, HoldsMessage
  <2>4. GoneAccounted'
    BY <2>1 DEF IInv, GoneAccounted, Gone, Ahead, Beyond, Held, Tally, ErrorsCounted, Errors
  <2>5. Funnel'
    BY <2>1 DEF IInv, Funnel, Acked, Processing, InHand, Forwards, Successes
  <2>6. QED  BY <2>2, <2>3, <2>4, <2>5 DEF IInv
<1>6. CASE Quiesce
  BY <1>5, <1>6 DEF Quiesce
<1>7. QED  BY <1>1, <1>2, <1>3, <1>4, <1>5, <1>6 DEF Next

(* The invariant says at least what the properties say. *)
LEMMA GoneCovers ==
  ASSUME TypeOK, GoneAccounted
  PROVE  LossAccounted
<1>1. Lost \in SUBSET Gone
  <2> SUFFICES ASSUME NEW s \in accepted, s \notin finished, ~UnderWay(s) PROVE s \in Gone
    BY DEF Lost
  <2>1. ~Held(s)
    BY DEF Held, UnderWay
  <2>2. ASSUME Ahead(s) PROVE FALSE
    <3>1. PICK p \in Partition : \E i \in 1..Len(log[p]) : log[p][i] = s /\ Beyond(p, i)
      BY <2>2 DEF Ahead
    <3>2. PICK i \in 1..Len(log[p]) : log[p][i] = s /\ i > position[p]
      BY <3>1 DEF Beyond
    <3>3. position[p] \in Nat /\ Len(log[p]) \in Nat
      BY DEF TypeOK
    <3>4. i \in position[p] + 1 .. Len(log[p])
      BY <3>2, <3>3
    <3>5. QED  BY <3>2, <3>4 DEF UnderWay
  <2>3. QED  BY <2>1, <2>2 DEF Gone
<1>2. Cardinality(Lost) <= Cardinality(Gone) /\ Cardinality(Lost) \in Nat
  BY <1>1, Counted, Fewer
<1>3. Cardinality(Lost) <= Tally
  BY <1>2, Counted DEF GoneAccounted
<1>4. QED  BY <1>3 DEF LossAccounted, Tally

LEMMA FunnelCovers ==
  ASSUME TypeOK, Funnel
  PROVE  FunnelAgrees
BY Counted DEF Funnel, FunnelAgrees

-----------------------------------------------------------------------------
(* In every reachable state the program is well typed, a worker is the client  *)
(* of one request at most, a success was evaluated, and what is gone from the  *)
(* topic and from every worker is covered by an error or a crash. *)
THEOREM Invariance == Spec => []IInv
<1>1. Init => IInv
  BY InitInv
<1>2. IInv /\ [Next]_vars => IInv'
  BY StepInv
<1>3. QED  BY <1>1, <1>2, PTL DEF Spec

(* The pipeline is well typed, and no offset of the group is beyond the log. *)
THEOREM TypeCorrect == Spec => []TypeOK
<1>1. IInv => TypeOK
  BY DEF IInv
<1>2. QED  BY <1>1, Invariance, PTL

(* Every accepted sample of which no evaluation comes to its end is accounted  *)
(* for by an error that a worker has counted, one that lives or one that has    *)
(* died, or by the death of a worker, one for each sample: whatever the         *)
(* interleaving of commits, forwards, timeouts, crashes of both kinds of        *)
(* process and rebalances (worker/main.go:74-151, main.go:229-291). *)
THEOREM LossIsAccounted == Spec => []LossAccounted
<1>1. IInv => LossAccounted
  BY GoneCovers DEF IInv
<1>2. QED  BY <1>1, Invariance, PTL

(* The counters of the processes that now run form the funnel by which          *)
(* README.md:204-220 confirms that the pipeline works: each worker has forwarded *)
(* what it read but for the sample in hand and the server wrote what it          *)
(* processed, whatever died before; and what the workers call a success the      *)
(* server has processed, as long as the server that counts it has not died.      *)
THEOREM CountersFormFunnel == Spec => []FunnelAgrees
<1>1. IInv => FunnelAgrees
  BY FunnelCovers DEF IInv
<1>2. QED  BY <1>1, Invariance, PTL

-----------------------------------------------------------------------------
(* One worker that reads one partition, as deployments/k8s runs it, with       *)
(* clients that stay for their answer.  The order of a machine's samples is    *)
(* kept from hand to hand: what was evaluated is not after what the worker     *)
(* holds, that is not after what is still to be read, and that is not after    *)
(* what the agent sends next.  Nothing is read again, because the partition is *)
(* assigned once, before anything was read.                                    *)

OneWorker ==
  /\ \E w : Worker = {w}
  /\ \E p : Partition = {p}
  /\ IngestModes = {"kafka"}
  /\ Faults \cap {"timeout", "worker"} = {}

Busy(w) == worker[w].pc \in {"commit", "forward", "wait"}

(* Every request is one of the worker, or the last one of its agent. *)
Awaits(m, s) == agent[m].pc = "wait" /\ agent[m].reply = 0 /\ s = <<m, agent[m].sent>>
Attended ==
  /\ \A h \in Handler : handler[h].pc # "idle" =>
       \/ /\ handler[h].path = "process" /\ handler[h].pc # "publish"
          /\ handler[h].client \in Worker
       \/ /\ handler[h].path = "metrics" /\ handler[h].pc = "publish"
          /\ handler[h].client \in Machine /\ Awaits(handler[h].client, handler[h].sample)
  /\ \A h, k \in Handler :
       handler[h].client = handler[k].client /\ handler[h].client \in Machine => h = k

Joined ==
  \A w \in Worker, p \in Partition :
    \/ /\ members = {} /\ owner[p] = None /\ position[p] = 0 /\ committed[p] = 0
       /\ ~Busy(w)
    \/ members = Worker /\ owner[p] = w /\ worker[w].pc # "down"

Before(s, t) == s[1] = t[1] => s[2] <= t[2]
NotAfter(s) == \A i \in DOMAIN evaluated[s[1]] : evaluated[s[1]][i] <= s[2]
Sent(s) == s[2] <= agent[s[1]].sent

EvaluatedInOrder ==
  \A m \in Machine :
    /\ \A i, j \in DOMAIN evaluated[m] : i < j => evaluated[m][i] <= evaluated[m][j]
    /\ \A i \in DOMAIN evaluated[m] : evaluated[m][i] <= agent[m].sent
LogInOrder ==
  \A p \in Partition : \A i \in 1..Len(log[p]) :
    /\ Sent(log[p][i])
    /\ i > position[p] => NotAfter(log[p][i])
    /\ \A j \in 1..Len(log[p]) : i <= j => Before(log[p][i], log[p][j])
HeldInOrder ==
  \A w \in Worker : Busy(w) =>
    /\ Sent(worker[w].msg) /\ NotAfter(worker[w].msg)
    /\ \A p \in Partition : \A i \in 1..Len(log[p]) :
         i > position[p] => Before(worker[w].msg, log[p][i])
InOrder == EvaluatedInOrder /\ LogInOrder /\ HeldInOrder

SerialInv == Attended /\ Joined /\ InOrder

LEMMA IdleIsNoRequest ==
  ASSUME TypeOK, NEW h \in Handler, handler[h].pc = "idle"
  PROVE  handler[h] = NoRequest
<1>1. \A r \in Request : r.pc # "idle"
  BY DEF Request
<1>2. QED  BY <1>1 DEF TypeOK

LEMMA SentType ==
  ASSUME TypeOK, NEW m \in Machine
  PROVE  agent[m].sent \in Nat
BY PipelineAssumption DEF TypeOK, Agent

LEMMA InitSerial ==
  ASSUME OneWorker, Init
  PROVE  SerialInv
<1>1. Attended
  BY PipelineAssumption DEF Init, Attended, NoRequest
<1>2. Joined
  BY DEF Init, Joined, Busy, NoWorker
<1>3. InOrder
  BY DEF Init, InOrder, EvaluatedInOrder, LogInOrder, HeldInOrder, Busy, NoWorker
<1>4. QED  BY <1>1, <1>2, <1>3 DEF SerialInv

(* What becomes of the requests: they end, or go on with a client who waits. *)
LEMMA AttendedStays ==
  ASSUME Attended,
         \A h \in Handler :
           \/ handler'[h] = NoRequest
           \/ /\ handler'[h].client = handler[h].client /\ handler'[h].path = handler[h].path
              /\ handler'[h].sample = handler[h].sample
              /\ \/ handler'[h].pc = handler[h].pc
                 \/ handler[h].pc = "writeVM" /\ handler'[h].pc = "evaluate"
              /\ handler[h].pc # "idle"
              /\ handler[h].client \in Machine => agent'[handler[h].client] = agent[handler[h].client]
  PROVE  Attended'
<1>1. NoRequest.pc = "idle" /\ NoRequest.client \notin Machine
  BY PipelineAssumption DEF NoRequest
<1>2. ASSUME NEW h \in Handler, handler'[h].pc # "idle"
      PROVE  \/ /\ handler'[h].path = "process" /\ handler'[h].pc # "publish"
                /\ handler'[h].client \in Worker
             \/ /\ handler'[h].path = "metrics" /\ handler'[h].pc = "publish"
                /\ handler'[h].client \in Machine
                /\ agent'[handler'[h].client].pc = "wait"
                /\ agent'[handler'[h].client].reply = 0
                /\ handler'[h].sample = <<handler'[h].client, agent'[handler'[h].client].sent>>
  BY <1>1, <1>2 DEF Attended, Awaits
<1>3. ASSUME NEW h \in Handler, NEW k \in Handler, handler'[h].client = handler'[k].client,
             handler'[h].client \in Machine
      PROVE  h = k
  BY <1>1, <1>3 DEF Attended
<1>4. QED  BY <1>2, <1>3 DEF Attended, Awaits

LEMMA JoinedStays ==
  ASSUME Joined, UNCHANGED <<members, owner, position>>,
         \A w \in Worker : (Busy(w)' => Busy(w)) /\ (worker[w].pc # "down" => worker'[w].pc # "down"),
         committed' = committed \/ \E w \in Worker : Busy(w)
  PROVE  Joined'
BY DEF Joined

(* What a sequence over S holds is in S. *)
LEMMA MemberOfSeq ==
  ASSUME NEW S, NEW q \in Seq(S), NEW i \in DOMAIN q
  PROVE  q[i] \in S
OBVIOUS

(* Nothing is published, read or evaluated. *)
LEMMA OrderStays ==
  ASSUME TypeOK, TypeOK', WorkersOK, InOrder, UNCHANGED <<log, evaluated, position>>,
         \A m \in Machine : agent[m].sent <= agent'[m].sent,
         \A w \in Worker : Busy(w)' => Busy(w) /\ worker'[w].msg = worker[w].msg
  PROVE  InOrder'
<1>1. \A m \in Machine : agent[m].sent \in Nat /\ agent'[m].sent \in Nat
  BY SentType, PipelineAssumption DEF TypeOK, Agent
<1>2. EvaluatedInOrder'
  <2> SUFFICES ASSUME NEW m \in Machine, NEW i \in DOMAIN evaluated[m]
               PROVE  evaluated[m][i] <= agent'[m].sent
    BY DEF InOrder, EvaluatedInOrder
  <2>1. evaluated[m][i] <= agent[m].sent /\ evaluated[m][i] \in Nat
    <3>1. evaluated[m][i] <= agent[m].sent
      BY DEF InOrder, EvaluatedInOrder
    <3>2. evaluated[m] \in Seq(1..MaxSamples)
      BY DEF TypeOK
    <3>3. evaluated[m][i] \in 1..MaxSamples
      BY <3>2, MemberOfSeq
    <3>4. QED  BY <3>1, <3>3, PipelineAssumption
  <2>2. QED  BY <1>1, <2>1
<1>3. ASSUME NEW s \in Sample, Sent(s) PROVE s[2] <= agent'[s[1]].sent
  <2>1. s[1] \in Machine /\ s[2] \in Nat
    BY SampleParts, PipelineAssumption
  <2>2. QED  BY <1>1, <1>3, <2>1 DEF Sent
<1>4. LogInOrder'
  <2> SUFFICES ASSUME NEW p \in Partition, NEW i \in 1..Len(log[p])
               PROVE  log[p][i][2] <= agent'[log[p][i][1]].sent
    BY DEF InOrder, LogInOrder, Sent, NotAfter, Before
  <2>1. PICK l \in Seq(Sample) : l = log[p]
    BY DEF TypeOK
  <2>2. l[i] \in Sample
    BY <2>1
  <2>3. QED  BY <1>3, <2>1, <2>2 DEF InOrder, LogInOrder
<1>5. HeldInOrder'
  <2> SUFFICES ASSUME NEW w \in Worker, Busy(w)'
               PROVE  /\ worker'[w].msg[2] <= agent'[worker'[w].msg[1]].sent
                      /\ NotAfter(worker[w].msg)
                      /\ worker'[w].msg = worker[w].msg
                      /\ \A p \in Partition : \A i \in 1..Len(log[p]) :
                           i > position[p] => Before(worker[w].msg, log[p][i])
    BY DEF HeldInOrder, Sent, NotAfter, Before
  <2>1. Busy(w) /\ worker'[w].msg = worker[w].msg
    OBVIOUS
  <2>2. worker[w].msg \in Sample
    BY <2>1 DEF WorkersOK, HoldsMessage, Busy
  <2>3. QED  BY <1>3, <2>1, <2>2 DEF InOrder, HeldInOrder
<1>6. QED  BY <1>2, <1>4, <1>5 DEF InOrder

(* An answer leaves the agents where they are. *)
LEMMA AnswerAgents ==
  ASSUME TypeOK, NEW h \in Handler, handler[h].pc # "idle", NEW status \in Status,
         AnswerTo(h, status)
  PROVE  \A m \in Machine : /\ agent'[m].sent = agent[m].sent
                            /\ m # handler[h].client => agent'[m] = agent[m]
<1>1. PICK c : c = handler[h].client
  OBVIOUS
<1>2. agent' = IF c \in Machine THEN [agent EXCEPT ![c].reply = status] ELSE agent
  BY <1>1 DEF AnswerTo
<1>3. SUFFICES ASSUME NEW m \in Machine
               PROVE  agent'[m].sent = agent[m].sent /\ (m # c => agent'[m] = agent[m])
  BY <1>1
<1>4. agent \in [Machine -> Agent] /\ agent[m] \in Agent
  BY DEF TypeOK
<1>5. CASE c \in Machine
  <2>1. agent' = [agent EXCEPT ![c] = [agent[c] EXCEPT !.reply = status]]
    BY <1>2, <1>5
  <2>2. agent[c] \in Agent
    BY <1>5 DEF TypeOK
  <2>3. [agent[c] EXCEPT !.reply = status].sent = agent[c].sent
    BY <2>2 DEF Agent
  <2>4. QED  BY <1>4, <1>5, <2>1, <2>3
<1>6. QED  BY <1>2, <1>5

LEMMA AnswerSerial ==
  ASSUME TypeOK, HandlersOK, SerialInv, NEW h \in Handler, handler[h].pc # "idle",
         NEW status \in Status, AnswerTo(h, status)
  PROVE  /\ Attended'
         /\ \A m \in Machine : agent'[m].sent = agent[m].sent
         /\ \A w \in Worker : worker'[w].pc = worker[w].pc /\ worker'[w].msg = worker[w].msg
<1>1. /\ handler' = [handler EXCEPT ![h] = NoRequest] /\ SameHands
  BY AnswerToFields
<1>2. ASSUME NEW g \in Handler, g # h
      PROVE  /\ handler'[g] = handler[g]
             /\ handler[g].client \in Machine => agent'[handler[g].client] = agent[handler[g].client]
  <2>1. handler'[g] = handler[g]
    BY <1>1, <1>2 DEF TypeOK
  <2>2. handler[g].client \in Machine => handler[g].client # handler[h].client
    BY <1>2 DEF SerialInv, Attended
  <2>3. QED  BY <2>1, <2>2, AnswerAgents
<1>3. ASSUME NEW g \in Handler, handler[g].pc = "idle"
      PROVE  handler[g] = NoRequest
  BY <1>3, IdleIsNoRequest
<1>4. \A g \in Handler : g = h => handler'[g] = NoRequest
  BY <1>1 DEF TypeOK
<1>5. Attended'
  BY <1>2, <1>3, <1>4, AttendedStays DEF SerialInv
<1>6. QED  BY <1>1, <1>5, AnswerAgents DEF SameHands, SameMessages

(* The agent: it has no other request when it reports. *)
LEMMA ReportSerial ==
  ASSUME IInv, IInv', SerialInv, OneWorker, NEW m \in Machine, Report(m)
  PROVE  SerialInv'
<1>1. TypeOK /\ TypeOK' /\ WorkersOK
  BY DEF IInv
<1>2. UNCHANGED <<worker, log, committed, position, owner, members, evaluated>>
  BY DEF Report, group
<1>3. agent[m].pc = "collect" /\ agent[m].sent < MaxSamples /\ agent[m] \in Agent
      /\ agent[m].sent \in Nat
  BY <1>1, SentType DEF Report, TypeOK
<1>4. ingestMode = "kafka"
  BY <1>1 DEF TypeOK, OneWorker
<1>5. \A h \in Handler : handler[h].client = m => handler[h].pc = "idle"
  <2> SUFFICES ASSUME NEW h \in Handler, handler[h].client = m, handler[h].pc # "idle"
               PROVE  FALSE
    OBVIOUS
  <2>1. m \notin Worker
    BY PipelineAssumption
  <2>2. QED  BY <1>3, <2>1 DEF SerialInv, Attended, Awaits
<1>6. Joined'
  BY <1>2, JoinedStays DEF SerialInv, Busy
<1>7. CASE \E h \in Handler :
             /\ handler[h] = NoRequest
             /\ handler' = [handler EXCEPT ![h] =
                  [pc |-> IF ingestMode = "kafka" THEN "publish" ELSE "writeVM",
                   path |-> "metrics", client |-> m, sample |-> <<m, agent[m].sent + 1>>]]
             /\ agent' = [agent EXCEPT ![m] =
                  [pc |-> "wait", sent |-> agent[m].sent + 1, reply |-> 0]]
  <2>1. PICK h \in Handler :
          /\ handler[h] = NoRequest
          /\ handler' = [handler EXCEPT ![h] =
               [pc |-> "publish", path |-> "metrics", client |-> m,
                sample |-> <<m, agent[m].sent + 1>>]]
          /\ agent' = [agent EXCEPT ![m] =
               [pc |-> "wait", sent |-> agent[m].sent + 1, reply |-> 0]]
    BY <1>4, <1>7
  <2>2. /\ agent'[m] = [pc |-> "wait", sent |-> agent[m].sent + 1, reply |-> 0]
        /\ \A n \in Machine : n # m => agent'[n] = agent[n]
    BY <1>1, <2>1 DEF TypeOK
  <2>3. /\ handler'[h] = [pc |-> "publish", path |-> "metrics", client |-> m,
                          sample |-> <<m, agent[m].sent + 1>>]
        /\ \A g \in Handler : g # h => handler'[g] = handler[g]
    BY <1>1, <2>1 DEF TypeOK
  <2>4. \A g \in Handler : handler[g].client = m => handler[g] = NoRequest
    BY <1>1, <1>5, IdleIsNoRequest
  <2>5. NoRequest.client = None /\ NoRequest.pc = "idle" /\ m # None
    BY PipelineAssumption DEF NoRequest
  <2>6. \A g \in Handler : handler[g].client # m
    BY <2>4, <2>5
  <2>7. \A g \in Handler : g # h /\ handler[g].client \in Machine =>
          agent'[handler[g].client] = agent[handler[g].client]
    BY <2>2, <2>6
  <2>8. ASSUME NEW g \in Handler, handler'[g].pc # "idle"
        PROVE  \/ /\ handler'[g].path = "process" /\ handler'[g].pc # "publish"
                  /\ handler'[g].client \in Worker
               \/ /\ handler'[g].path = "metrics" /\ handler'[g].pc = "publish"
                  /\ handler'[g].client \in Machine
                  /\ agent'[handler'[g].client].pc = "wait"
                  /\ agent'[handler'[g].client].reply = 0
                  /\ handler'[g].sample = <<handler'[g].client, agent'[handler'[g].client].sent>>
    <3>1. CASE g = h
      BY <2>2, <2>3, <3>1
    <3>2. CASE g # h
      BY <2>3, <2>7, <2>8, <3>2 DEF SerialInv, Attended, Awaits
    <3>3. QED  BY <3>1, <3>2
  <2>9. \A g, k \in Handler :
          handler'[g].client = handler'[k].client /\ handler'[g].client \in Machine => g = k
    <3>1. \A g \in Handler : g # h => handler'[g].client # m
      BY <2>3, <2>6
    <3>2. handler'[h].client = m
      BY <2>3
    <3>3. QED  BY <2>3, <3>1, <3>2 DEF SerialInv, Attended
  <2>10. Attended'
    BY <2>8, <2>9 DEF Attended, Awaits
  <2>11. \A n \in Machine : agent[n].sent <= agent'[n].sent
    BY <1>1, <1>3, <2>2, SentType
  <2>12. InOrder'
    BY <1>1, <1>2, <2>11, OrderStays DEF SerialInv, Busy
  <2>13. QED  BY <1>6, <2>10, <2>12 DEF SerialInv
<1>8. CASE agent' = [agent EXCEPT ![m].sent = @ + 1] /\ UNCHANGED handler
  <2>1. \A n \in Machine : n # m => agent'[n] = agent[n]
    BY <1>1, <1>8 DEF TypeOK
  <2>2. agent'[m].sent = agent[m].sent + 1
    <3>1. agent'[m] = [agent[m] EXCEPT !.sent = agent[m].sent + 1]
      BY <1>1, <1>8 DEF TypeOK
    <3>2. QED  BY <1>3, <3>1 DEF Agent
  <2>3. \A h \in Handler : handler[h].pc # "idle" /\ handler[h].client \in Machine =>
          agent'[handler[h].client] = agent[handler[h].client]
    BY <1>5, <2>1
  <2>4. Attended'
    BY <1>1, <1>8, <2>3, AttendedStays, IdleIsNoRequest DEF SerialInv
  <2>5. \A n \in Machine : agent[n].sent <= agent'[n].sent
    BY <1>1, <1>3, <2>1, <2>2, SentType
  <2>6. InOrder'
    BY <1>1, <1>2, <2>5, OrderStays DEF SerialInv, Busy
  <2>7. QED  BY <1>6, <2>4, <2>6 DEF SerialInv
<1>9. QED  BY <1>7, <1>8 DEF Report

LEMMA AgentAnsweredSerial ==
  ASSUME IInv, IInv', SerialInv, NEW m \in Machine, AgentAnswered(m)
  PROVE  SerialInv'
<1>1. TypeOK /\ TypeOK' /\ WorkersOK
  BY DEF IInv
<1>2. UNCHANGED <<worker, handler, log, committed, position, owner, members, evaluated>>
      /\ agent[m].reply # 0
      /\ agent' = [agent EXCEPT ![m].pc = "collect", ![m].reply = 0]
  BY DEF AgentAnswered, group, Returned
<1>3. /\ \A n \in Machine : n # m => agent'[n] = agent[n]
      /\ agent'[m].sent = agent[m].sent
  <2>1. agent[m] \in Agent /\ agent \in [Machine -> Agent]
    BY <1>1 DEF TypeOK
  <2>2. agent'[m] = [agent[m] EXCEPT !.pc = "collect", !.reply = 0]
    BY <1>2, <2>1
  <2>3. agent'[m].sent = agent[m].sent
    BY <2>1, <2>2 DEF Agent
  <2>4. QED  BY <1>2, <2>1, <2>3
<1>4. \A h \in Handler : handler[h].pc # "idle" /\ handler[h].client \in Machine =>
        handler[h].client # m
  BY <1>2, PipelineAssumption DEF SerialInv, Attended, Awaits
<1>5. Attended'
  BY <1>1, <1>2, <1>3, <1>4, AttendedStays, IdleIsNoRequest DEF SerialInv
<1>6. Joined'
  BY <1>2, JoinedStays DEF SerialInv, Busy
<1>7. \A n \in Machine : agent[n].sent <= agent'[n].sent
  BY <1>1, <1>3, SentType
<1>8. InOrder'
  BY <1>1, <1>2, <1>7, OrderStays DEF SerialInv, Busy
<1>9. QED  BY <1>5, <1>6, <1>8 DEF SerialInv

(* A message that is published is the last one its agent sent. *)
LEMMA LogExtendedBy ==
  ASSUME TypeOK, NEW p \in Partition, NEW copies \in Nat, NEW s \in Sample,
         log' = [log EXCEPT ![p] = @ \o [i \in 1..copies |-> s]]
  PROVE  \A q \in Partition : \A i \in 1..Len(log'[q]) :
           \/ i \in 1..Len(log[q]) /\ log'[q][i] = log[q][i]
           \/ q = p /\ i > Len(log[p]) /\ log'[q][i] = s
<1> DEFINE more == [i \in 1..copies |-> s]
<1>1. more \in Seq(Sample) /\ Len(more) = copies /\ \A i \in 1..copies : more[i] = s
  OBVIOUS
<1>2. \A q \in Partition : log[q] \in Seq(Sample) /\ Len(log[q]) \in Nat
  BY DEF TypeOK
<1>3. log' = [log EXCEPT ![p] = log[p] \o more]
  BY DEF TypeOK
<1> HIDE DEF more
<1>4. log'[p] = log[p] \o more /\ \A q \in Partition : q # p => log'[q] = log[q]
  BY <1>3 DEF TypeOK
<1>5. PICK l \in Seq(Sample) : l = log[p]
  BY <1>2
<1>6. \A i \in 1..Len(l \o more) :
        \/ i \in 1..Len(l) /\ (l \o more)[i] = l[i]
        \/ i > Len(l) /\ (l \o more)[i] = s
  <2> SUFFICES ASSUME NEW i \in 1..Len(l \o more)
               PROVE  \/ i \in 1..Len(l) /\ (l \o more)[i] = l[i]
                      \/ i > Len(l) /\ (l \o more)[i] = s
    OBVIOUS
  <2>1. Len(l \o more) = Len(l) + copies /\ Len(l) \in Nat
    <3>1. Len(l \o more) = Len(l) + Len(more)
      BY <1>1, Concatenated
    <3>2. QED  BY <1>1, <3>1
  <2>2. CASE i <= Len(l)
    BY <1>1, <1>5, <2>1, <2>2
  <2>3. CASE i > Len(l)
    <3>1. i - Len(l) \in 1..copies /\ (l \o more)[i] = more[i - Len(l)]
      BY <1>1, <1>5, <2>1, <2>3
    <3>2. QED  BY <1>1, <2>3, <3>1
  <2>4. QED  BY <2>1, <2>2, <2>3
<1>7. QED  BY <1>4, <1>5, <1>6

LEMMA PublishSerial ==
  ASSUME IInv, IInv', SerialInv, NEW h \in Handler, PublishMetrics(h)
  PROVE  SerialInv'
<1>1. TypeOK /\ TypeOK' /\ WorkersOK /\ WorkersOK' /\ HandlersOK
  BY DEF IInv
<1>2. /\ handler[h].pc = "publish" /\ handler[h].sample \in Sample
      /\ UNCHANGED <<committed, position, owner, members, evaluated>>
  BY <1>1, IsRequest DEF PublishMetrics, group
<1>3. PICK m \in Machine : /\ m = handler[h].client /\ Awaits(m, handler[h].sample)
  BY <1>2 DEF SerialInv, Attended
<1>4. PICK s \in Sample : s = handler[h].sample
  BY <1>2
<1>5. s[1] = m /\ s[2] = agent[m].sent
  BY <1>3, <1>4 DEF Awaits
<1>6. PICK ok \in BOOLEAN : \E copies \in PublishedCopies(ok) :
        WriteMessages(h, copies) /\ AnswerTo(h, IF ok THEN 202 ELSE 500)
  BY DEF PublishMetrics
<1>7. PICK copies \in PublishedCopies(ok) :
        WriteMessages(h, copies) /\ AnswerTo(h, IF ok THEN 202 ELSE 500)
  BY <1>6
<1>8. copies \in Nat
  BY DEF PublishedCopies
<1>9. PICK p \in Partition :
        log' = [log EXCEPT ![p] = @ \o [i \in 1..copies |-> s]]
  BY <1>4, <1>7 DEF WriteMessages
<1>10. PICK status \in Status : AnswerTo(h, status)
  BY <1>7
<1>11. /\ Attended' /\ \A n \in Machine : agent'[n].sent = agent[n].sent
       /\ \A w \in Worker : worker'[w].pc = worker[w].pc /\ worker'[w].msg = worker[w].msg
  <2>1. handler[h].pc # "idle"
    BY <1>2
  <2>2. QED  BY <1>1, <1>10, <2>1, AnswerSerial
<1>12. Joined'
  BY <1>2, <1>11, JoinedStays DEF SerialInv, Busy
<1>13. \A q \in Partition : \A i \in 1..Len(log'[q]) :
         \/ i \in 1..Len(log[q]) /\ log'[q][i] = log[q][i]
         \/ q = p /\ i > Len(log[p]) /\ log'[q][i] = s
  BY <1>1, <1>8, <1>9, LogExtendedBy
<1>14. \A t : Sent(t) /\ t[1] = m => Before(t, s)
  BY <1>5 DEF Sent, Before
<1>15. NotAfter(s) /\ Sent(s) /\ Before(s, s)
  <2>1. s[2] \in Nat
    BY SampleParts, PipelineAssumption
  <2>2. QED  BY <1>5, <2>1 DEF SerialInv, InOrder, EvaluatedInOrder, NotAfter, Sent, Before
<1>16. \A t \in Sample : (Sent(t)' <=> Sent(t)) /\ (NotAfter(t)' <=> NotAfter(t))
  <2>1. \A t \in Sample : t[1] \in Machine
    BY SampleParts
  <2>2. QED  BY <1>2, <1>11, <2>1 DEF Sent, NotAfter
<1>17. \A t : Sent(t) => Before(t, s)
  BY <1>5, <1>14 DEF Before
<1>18. \A q \in Partition : \A i \in 1..Len(log[q]) : log[q][i] \in Sample
  <2>1. \A q \in Partition : log[q] \in Seq(Sample)
    BY <1>1 DEF TypeOK
  <2>2. QED  BY <2>1
<1>19. \A q \in Partition : Len(log[q]) \in Nat
  BY <1>1 DEF TypeOK
<1>20. EvaluatedInOrder'
  BY <1>2, <1>11 DEF SerialInv, InOrder, EvaluatedInOrder
<1>21. LogInOrder'
  <2> SUFFICES ASSUME NEW q \in Partition, NEW i \in 1..Len(log'[q])
               PROVE  /\ Sent(log'[q][i])
                      /\ i > position[q] => NotAfter(log'[q][i])
                      /\ \A j \in 1..Len(log'[q]) : i <= j => Before(log'[q][i], log'[q][j])
                      /\ log'[q][i] \in Sample
    <3>1. \A t \in Sample : /\ Sent(t) => t[2] <= agent'[t[1]].sent
                            /\ NotAfter(t) => \A k \in DOMAIN evaluated'[t[1]] :
                                                evaluated'[t[1]][k] <= t[2]
      BY <1>16 DEF Sent, NotAfter
    <3>2. QED  BY <1>2, <3>1 DEF LogInOrder, Sent, NotAfter, Before
  <2>1. CASE i \in 1..Len(log[q]) /\ log'[q][i] = log[q][i]
    <3>1. /\ Sent(log[q][i]) /\ (i > position[q] => NotAfter(log[q][i]))
          /\ \A j \in 1..Len(log[q]) : i <= j => Before(log[q][i], log[q][j])
      BY <2>1 DEF SerialInv, InOrder, LogInOrder
    <3>2. Before(log[q][i], s)
      BY <1>17, <3>1
    <3>3. QED  BY <1>13, <1>18, <2>1, <3>1, <3>2
  <2>2. CASE q = p /\ i > Len(log[p]) /\ log'[q][i] = s
    <3>1. \A j \in 1..Len(log'[q]) : i <= j => log'[q][j] = s
      BY <1>13, <1>19, <2>2
    <3>2. QED  BY <1>15, <2>2, <3>1
  <2>3. QED  BY <1>13, <2>1, <2>2
<1>22. HeldInOrder'
  <2> SUFFICES ASSUME NEW w \in Worker, Busy(w)'
               PROVE  /\ worker'[w].msg[2] <= agent'[worker'[w].msg[1]].sent
                      /\ \A k \in DOMAIN evaluated'[worker'[w].msg[1]] :
                           evaluated'[worker'[w].msg[1]][k] <= worker'[w].msg[2]
                      /\ \A q \in Partition : \A i \in 1..Len(log'[q]) :
                           i > position[q] => Before(worker'[w].msg, log'[q][i])
    BY <1>2 DEF HeldInOrder, Sent, NotAfter, Before
  <2>1. Busy(w) /\ worker'[w].msg = worker[w].msg
    BY <1>11 DEF Busy
  <2>2. PICK t \in Sample : t = worker[w].msg
    BY <1>1, <2>1 DEF WorkersOK, HoldsMessage, Busy
  <2>3. /\ Sent(t) /\ NotAfter(t)
        /\ \A q \in Partition : \A i \in 1..Len(log[q]) : i > position[q] => Before(t, log[q][i])
    BY <2>1, <2>2 DEF SerialInv, InOrder, HeldInOrder
  <2>4. Before(t, s)
    BY <1>17, <2>3
  <2>5. \A q \in Partition : \A i \in 1..Len(log'[q]) : i > position[q] => Before(t, log'[q][i])
    BY <1>13, <2>3, <2>4
  <2>6. t[2] <= agent'[t[1]].sent /\ \A k \in DOMAIN evaluated'[t[1]] : evaluated'[t[1]][k] <= t[2]
    BY <1>16, <2>3, ZenonT(60) DEF Sent, NotAfter
  <2>7. QED  BY <2>1, <2>2, <2>5, <2>6
<1>23. QED  BY <1>11, <1>12, <1>20, <1>21, <1>22 DEF SerialInv, InOrder

(* An answer without a message or a sample: the order is untouched. *)
LEMMA AnswerOnlySerial ==
  ASSUME IInv, IInv', SerialInv, NEW h \in Handler, handler[h].pc # "idle",
         NEW status \in Status, AnswerTo(h, status),
         UNCHANGED <<log, committed, position, owner, members, evaluated>>
  PROVE  SerialInv'
<1>1. TypeOK /\ TypeOK' /\ WorkersOK /\ HandlersOK
  BY DEF IInv
<1>2. /\ Attended' /\ \A n \in Machine : agent'[n].sent = agent[n].sent
      /\ \A w \in Worker : worker'[w].pc = worker[w].pc /\ worker'[w].msg = worker[w].msg
  BY <1>1, AnswerSerial
<1>3. Joined'
  BY <1>2, JoinedStays DEF SerialInv, Busy
<1>4. \A n \in Machine : agent[n].sent <= agent'[n].sent
  BY <1>1, <1>2, SentType
<1>5. InOrder'
  BY <1>1, <1>2, <1>4, OrderStays DEF SerialInv, Busy
<1>6. QED  BY <1>2, <1>3, <1>5 DEF SerialInv

LEMMA EvaluatedSerial ==
  ASSUME IInv, IInv', SerialInv, NEW h \in Handler, Evaluated(h)
  PROVE  SerialInv'
<1>1. /\ handler[h].pc # "idle" /\ AnswerTo(h, 200)
      /\ UNCHANGED <<log, committed, position, owner, members, evaluated>>
  BY DEF Evaluated, ProcessStatus, group
<1>2. QED  BY <1>1, AnswerOnlySerial

(* A sample that is evaluated is the one the worker holds, and becomes the last *)
(* one evaluated of its machine. *)
LEMMA AppendedLast ==
  ASSUME NEW S, NEW l \in Seq(S), NEW x \in S
  PROVE  LET n == Append(l, x) IN
         /\ DOMAIN n = 1..(Len(l) + 1) /\ n[Len(l) + 1] = x
         /\ \A i \in DOMAIN n : (i \in DOMAIN l /\ n[i] = l[i]) \/ i = Len(l) + 1
         /\ DOMAIN l = 1..Len(l) /\ Len(l) \in Nat
OBVIOUS

LEMMA WriteSerial ==
  ASSUME IInv, IInv', SerialInv, OneWorker, NEW h \in Handler, WriteVM(h)
  PROVE  SerialInv'
<1>1. TypeOK /\ TypeOK' /\ WorkersOK /\ HandlersOK
  BY DEF IInv
<1>2. /\ handler[h].pc = "writeVM" /\ handler[h] \in Request /\ handler[h].sample \in Sample
      /\ UNCHANGED <<log, committed, position, owner, members>>
  BY <1>1, IsRequest DEF WriteVM, group
<1>3. PICK w \in Worker : w = handler[h].client
  BY <1>2 DEF SerialInv, Attended
<1>4. Worker = {w} /\ Busy(w) /\ worker[w].msg = handler[h].sample
  BY <1>1, <1>3 DEF OneWorker, HandlersOK, Busy
<1>5. CASE AnswerTo(h, 500) /\ UNCHANGED evaluated
  BY <1>2, <1>5, AnswerOnlySerial
<1>6. CASE /\ evaluated' = [evaluated EXCEPT ![handler[h].sample[1]] =
                              Append(@, handler[h].sample[2])]
           /\ handler' = [handler EXCEPT ![h].pc = "evaluate"]
           /\ UNCHANGED <<agent, worker>>
  <2>1. PICK r \in Request : /\ r.pc = "evaluate" /\ r.path = handler[h].path
                             /\ r.client = handler[h].client /\ r.sample = handler[h].sample
                             /\ r = [handler[h] EXCEPT !.pc = "evaluate"]
    BY <1>2, HandlerPc
  <2>2. handler'[h] = r /\ \A k \in Handler : k # h => handler'[k] = handler[k]
    BY <1>1, <1>6, <2>1 DEF TypeOK
  <2>3. Attended'
    <3>1. \A g \in Handler : g # h => handler'[g] = NoRequest \/ handler[g].pc # "idle"
      BY <1>1, <2>2, IdleIsNoRequest
    <3>2. SUFFICES ASSUME NEW g \in Handler
                   PROVE  \/ handler'[g] = NoRequest
                          \/ /\ handler'[g].client = handler[g].client
                             /\ handler'[g].path = handler[g].path
                             /\ handler'[g].sample = handler[g].sample
                             /\ \/ handler'[g].pc = handler[g].pc
                                \/ handler[g].pc = "writeVM" /\ handler'[g].pc = "evaluate"
                             /\ handler[g].pc # "idle"
                             /\ agent' = agent
      BY <1>6, AttendedStays DEF SerialInv
    <3>3. CASE g = h
      BY <1>2, <1>6, <2>1, <2>2, <3>3
    <3>4. CASE g # h
      BY <1>6, <2>2, <3>1, <3>4
    <3>5. QED  BY <3>3, <3>4
  <2>4. Joined'
    BY <1>2, <1>6, JoinedStays DEF SerialInv, Busy
  <2>5. PICK s \in Sample : s = handler[h].sample
    BY <1>2
  <2>6. s[1] \in Machine /\ s[2] \in 1..MaxSamples
    BY SampleParts
  <2>7. PICK l \in Seq(1..MaxSamples) : l = evaluated[s[1]]
    BY <1>1, <2>6 DEF TypeOK
  <2>8. PICK n : n = Append(l, s[2])
    OBVIOUS
  <2>9. /\ evaluated'[s[1]] = n
        /\ \A m \in Machine : m # s[1] => evaluated'[m] = evaluated[m]
    BY <1>1, <1>6, <2>5, <2>6, <2>7, <2>8 DEF TypeOK
  <2>10. /\ DOMAIN n = 1..(Len(l) + 1) /\ n[Len(l) + 1] = s[2]
         /\ \A i \in DOMAIN n : (i \in DOMAIN l /\ n[i] = l[i]) \/ i = Len(l) + 1
         /\ DOMAIN l = 1..Len(l) /\ Len(l) \in Nat
    BY <2>6, <2>8, AppendedLast
  <2>11. /\ Sent(s) /\ NotAfter(s)
         /\ \A p \in Partition : \A i \in 1..Len(log[p]) : i > position[p] => Before(s, log[p][i])
    BY <1>4, <2>5 DEF SerialInv, InOrder, HeldInOrder
  <2>12. \A i \in DOMAIN l : l[i] <= s[2]
    BY <2>7, <2>11 DEF NotAfter
  <2>13. s[2] <= agent[s[1]].sent
    BY <2>11 DEF Sent
  <2>14. EvaluatedInOrder'
    <3> SUFFICES ASSUME NEW m \in Machine
                 PROVE  /\ \A i, j \in DOMAIN evaluated'[m] :
                             i < j => evaluated'[m][i] <= evaluated'[m][j]
                        /\ \A i \in DOMAIN evaluated'[m] : evaluated'[m][i] <= agent[m].sent
      BY <1>6 DEF EvaluatedInOrder
    <3>1. /\ \A i, j \in DOMAIN evaluated[m] : i < j => evaluated[m][i] <= evaluated[m][j]
          /\ \A i \in DOMAIN evaluated[m] : evaluated[m][i] <= agent[m].sent
      BY DEF SerialInv, InOrder, EvaluatedInOrder
    <3>2. CASE m = s[1]
      <4>1. \A i \in DOMAIN n : n[i] <= agent[m].sent
        BY <2>7, <2>10, <2>13, <3>1, <3>2
      <4>2. ASSUME NEW i \in DOMAIN n, NEW j \in DOMAIN n, i < j
            PROVE  n[i] <= n[j]
        <5>1. i \in DOMAIN l /\ n[i] = l[i]
          BY <2>10, <4>2
        <5>2. CASE j = Len(l) + 1
          BY <2>10, <2>12, <5>1, <5>2
        <5>3. CASE j \in DOMAIN l /\ n[j] = l[j]
          BY <2>7, <3>1, <3>2, <4>2, <5>1, <5>3
        <5>4. QED  BY <2>10, <5>2, <5>3
      <4>3. QED  BY <2>9, <3>2, <4>1, <4>2
    <3>3. CASE m # s[1]
      BY <2>9, <3>1, <3>3
    <3>4. QED  BY <3>2, <3>3
  <2>15. ASSUME NEW t \in Sample, NotAfter(t), Before(s, t)
         PROVE  \A i \in DOMAIN evaluated'[t[1]] : evaluated'[t[1]][i] <= t[2]
    <3>1. t[1] \in Machine
      BY SampleParts
    <3>2. CASE t[1] = s[1]
      <4>1. \A i \in DOMAIN l : l[i] <= t[2]
        BY <2>7, <2>15, <3>2 DEF NotAfter
      <4>2. s[2] <= t[2]
        BY <2>15, <3>2 DEF Before
      <4>3. QED  BY <2>9, <2>10, <3>2, <4>1, <4>2
    <3>3. CASE t[1] # s[1]
      BY <2>9, <2>15, <3>1, <3>3 DEF NotAfter
    <3>4. QED  BY <3>2, <3>3
  <2>16. LogInOrder'
    <3> SUFFICES ASSUME NEW p \in Partition, NEW i \in 1..Len(log[p])
                 PROVE  /\ Sent(log[p][i])
                        /\ i > position[p] =>
                             \A k \in DOMAIN evaluated'[log[p][i][1]] :
                               evaluated'[log[p][i][1]][k] <= log[p][i][2]
                        /\ \A j \in 1..Len(log[p]) : i <= j => Before(log[p][i], log[p][j])
      BY <1>2, <1>6 DEF LogInOrder, Sent, NotAfter, Before
    <3>1. log[p] \in Seq(Sample)
      BY <1>1 DEF TypeOK
    <3>2. log[p][i] \in Sample
      BY <3>1
    <3>3. /\ Sent(log[p][i]) /\ (i > position[p] => NotAfter(log[p][i]))
          /\ \A j \in 1..Len(log[p]) : i <= j => Before(log[p][i], log[p][j])
      BY DEF SerialInv, InOrder, LogInOrder
    <3>4. QED  BY <2>11, <2>15, <3>2, <3>3
  <2>17. HeldInOrder'
    <3>1. Before(s, s)
      BY <2>6, PipelineAssumption DEF Before
    <3>2. \A k \in DOMAIN evaluated'[s[1]] : evaluated'[s[1]][k] <= s[2]
      BY <2>11, <2>15, <3>1
    <3>3. /\ worker'[w].msg = s /\ \A v \in Worker : v = w
      BY <1>4, <1>6, <2>5
    <3>4. QED
      BY <1>2, <1>6, <2>11, <3>2, <3>3 DEF HeldInOrder, Sent, NotAfter, Before
  <2>18. QED  BY <2>3, <2>4, <2>14, <2>16, <2>17 DEF SerialInv, InOrder
<1>7. QED  BY <1>5, <1>6 DEF WriteVM, ProcessStatus

(* The death of the server ends every request; who waited for one learns it. *)
LEMMA CrashSerial ==
  ASSUME IInv, IInv', SerialInv, CrashServer
  PROVE  SerialInv'
<1>1. TypeOK /\ TypeOK' /\ WorkersOK
  BY DEF IInv
<1>2. PICK C : C = {handler[h].client : h \in Handler}
  OBVIOUS
<1>3. /\ handler' = [h \in Handler |-> NoRequest]
      /\ agent' = [m \in Machine |-> IF m \in C THEN [agent[m] EXCEPT !.reply = -1] ELSE agent[m]]
      /\ worker' = [w \in Worker |-> IF w \in C THEN [worker[w] EXCEPT !.reply = -1] ELSE worker[w]]
      /\ UNCHANGED <<log, committed, position, owner, members, evaluated>>
  BY <1>2 DEF CrashServer, group
<1>4. Attended'
  BY <1>3, AttendedStays DEF SerialInv
<1>5. \A m \in Machine : agent'[m].sent = agent[m].sent
  <2> SUFFICES ASSUME NEW m \in Machine PROVE agent'[m].sent = agent[m].sent
    OBVIOUS
  <2>1. agent[m] \in Agent
    BY <1>1 DEF TypeOK
  <2>2. [agent[m] EXCEPT !.reply = -1].sent = agent[m].sent
    BY <2>1 DEF Agent
  <2>3. QED  BY <1>3, <2>2
<1>6. \A w \in Worker : worker'[w].pc = worker[w].pc /\ worker'[w].msg = worker[w].msg
  <2> SUFFICES ASSUME NEW w \in Worker
               PROVE  worker'[w].pc = worker[w].pc /\ worker'[w].msg = worker[w].msg
    OBVIOUS
  <2>1. worker[w] \in WorkerState
    BY <1>1 DEF TypeOK
  <2>2. PICK v : v = [worker[w] EXCEPT !.reply = -1]
    OBVIOUS
  <2>3. v.pc = worker[w].pc /\ v.msg = worker[w].msg
    BY <2>1, <2>2 DEF WorkerState
  <2>4. worker'[w] = v \/ worker'[w] = worker[w]
    BY <1>3, <2>2
  <2>5. QED  BY <2>3, <2>4
<1>7. Joined'
  BY <1>3, <1>6, JoinedStays DEF SerialInv, Busy
<1>8. \A m \in Machine : agent[m].sent <= agent'[m].sent
  BY <1>1, <1>5, SentType
<1>9. InOrder'
  BY <1>1, <1>3, <1>6, <1>8, OrderStays DEF SerialInv, Busy
<1>10. QED  BY <1>4, <1>7, <1>9 DEF SerialInv

(* The worker: what it reads next is what it holds next. *)
LEMMA FetchSerial ==
  ASSUME IInv, IInv', SerialInv, OneWorker, NEW w \in Worker, FetchMessage(w)
  PROVE  SerialInv'
<1>1. TypeOK /\ TypeOK' /\ WorkersOK /\ WorkersOK'
  BY DEF IInv
<1>2. UNCHANGED <<agent, handler, log, committed, owner, members, evaluated>>
      /\ worker[w].pc = "read"
  BY DEF FetchMessage
<1>3. PICK p \in Partition :
        /\ owner[p] = w
        /\ position[p] < Len(log[p])
        /\ position' = [position EXCEPT ![p] = @ + 1]
        /\ worker' = [worker EXCEPT ![w] =
             [pc |-> "commit", msg |-> log[p][position[p] + 1], part |-> p,
              offset |-> position[p] + 1, reply |-> 0]]
  BY DEF FetchMessage
<1>4. Partition = {p} /\ Worker = {w}
  BY DEF OneWorker
<1>5. log[p] \in Seq(Sample) /\ Len(log[p]) \in Nat /\ position[p] \in Nat
  BY <1>1 DEF TypeOK
<1>6. PICK n \in 1..Len(log[p]) : n = position[p] + 1
  BY <1>3, <1>5
<1>7. PICK s \in Sample : s = log[p][n]
  BY <1>5, <1>6
<1>8. position'[p] = n /\ worker'[w].pc = "commit" /\ worker'[w].msg = s
  BY <1>1, <1>3, <1>6, <1>7 DEF TypeOK
<1>9. Attended'
  BY <1>1, <1>2, AttendedStays, IdleIsNoRequest DEF SerialInv
<1>10. Joined'
  <2>1. members = Worker
    BY <1>3, PipelineAssumption DEF SerialInv, Joined
  <2>2. QED  BY <1>2, <1>3, <1>4, <1>8, <2>1 DEF Joined
<1>11. EvaluatedInOrder'
  BY <1>2 DEF SerialInv, InOrder, EvaluatedInOrder
<1>12. LogInOrder'
  <2> SUFFICES ASSUME NEW q \in Partition, NEW i \in 1..Len(log[q])
               PROVE  /\ Sent(log[q][i])
                      /\ i > position'[q] => NotAfter(log[q][i])
                      /\ \A j \in 1..Len(log[q]) : i <= j => Before(log[q][i], log[q][j])
    BY <1>2 DEF LogInOrder, Sent, NotAfter, Before
  <2>1. i > position'[q] => i > position[q]
    BY <1>4, <1>5, <1>6, <1>8
  <2>2. QED  BY <2>1 DEF SerialInv, InOrder, LogInOrder
<1>13. HeldInOrder'
  <2>1. Sent(s) /\ NotAfter(s) /\ \A j \in 1..Len(log[p]) : n <= j => Before(s, log[p][j])
    <3>1. n > position[p]
      BY <1>5, <1>6
    <3>2. QED  BY <1>7, <3>1 DEF SerialInv, InOrder, LogInOrder
  <2>2. \A j \in 1..Len(log[p]) : j > position'[p] => Before(s, log[p][j])
    BY <1>8, <2>1
  <2>3. \A v \in Worker : v = w
    BY <1>4
  <2>4. QED  BY <1>2, <1>4, <1>8, <2>1, <2>2, <2>3 DEF HeldInOrder, Sent, NotAfter, Before
<1>14. QED  BY <1>9, <1>10, <1>11, <1>12, <1>13 DEF SerialInv, InOrder

(* The other steps of the worker: it goes on with its message, or drops it. *)
LEMMA WorkerStepSerial ==
  ASSUME IInv, IInv', SerialInv, OneWorker, NEW w \in Worker,
         UNCHANGED <<agent, log, position, owner, members, evaluated>>,
         Busy(w)' => Busy(w) /\ worker'[w].msg = worker[w].msg,
         worker'[w].pc # "down",
         committed' = committed \/ Busy(w),
         Attended'
  PROVE  SerialInv'
<1>1. TypeOK /\ TypeOK' /\ WorkersOK
  BY DEF IInv
<1>2. \A v \in Worker : v = w
  BY DEF OneWorker
<1>3. Joined'
  BY <1>2, JoinedStays DEF SerialInv
<1>4. \A m \in Machine : agent[m].sent <= agent'[m].sent
  BY <1>1, SentType
<1>5. InOrder'
  BY <1>1, <1>2, <1>4, OrderStays DEF SerialInv
<1>6. QED  BY <1>3, <1>5 DEF SerialInv

LEMMA CommitSerial ==
  ASSUME IInv, IInv', SerialInv, OneWorker, NEW w \in Worker, CommitMessages(w)
  PROVE  SerialInv'
<1>1. TypeOK
  BY DEF IInv
<1>2. UNCHANGED <<agent, handler, log, position, owner, members, evaluated>> /\ Busy(w)
  BY DEF CommitMessages, Busy
<1>3. Attended'
  BY <1>1, <1>2, AttendedStays, IdleIsNoRequest DEF SerialInv
<1>4. worker[w] \in WorkerState /\ worker \in [Worker -> WorkerState]
  BY <1>1 DEF TypeOK
<1>5. /\ Busy(w)' => worker'[w].msg = worker[w].msg
      /\ worker'[w].pc # "down"
  <2>1. CASE worker' = [worker EXCEPT ![w].pc = "forward"]
    <3>1. PICK r \in WorkerState : /\ r = [worker[w] EXCEPT !.pc = "forward"]
                                   /\ r.pc = "forward" /\ r.msg = worker[w].msg
      BY <1>4, WorkerPcOnly
    <3>2. worker'[w] = r
      BY <1>4, <2>1, <3>1
    <3>3. QED  BY <3>1, <3>2
  <2>2. CASE worker' = [worker EXCEPT ![w] = Reading]
    BY <1>4, <2>2, ReadingFields DEF Busy
  <2>3. QED  BY <2>1, <2>2 DEF CommitMessages
<1>6. QED  BY <1>2, <1>3, <1>5, WorkerStepSerial

LEMMA ForwardSerial ==
  ASSUME IInv, IInv', SerialInv, OneWorker, NEW w \in Worker, Forward(w)
  PROVE  SerialInv'
<1>1. TypeOK /\ TypeOK'
  BY DEF IInv
<1>2. UNCHANGED <<agent, log, committed, position, owner, members, evaluated>> /\ Busy(w)
  BY DEF Forward, group, Busy
<1>3. worker[w] \in WorkerState /\ worker \in [Worker -> WorkerState]
  BY <1>1 DEF TypeOK
<1>4. worker'[w].pc = "wait" /\ worker'[w].msg = worker[w].msg
  <2>1. CASE worker' = [worker EXCEPT ![w].pc = "wait"]
    <3>1. PICK r \in WorkerState : /\ r = [worker[w] EXCEPT !.pc = "wait"]
                                   /\ r.pc = "wait" /\ r.msg = worker[w].msg
      BY <1>3, WorkerPcOnly
    <3>2. worker'[w] = r
      BY <1>3, <2>1, <3>1
    <3>3. QED  BY <3>1, <3>2
  <2>2. CASE worker' = [worker EXCEPT ![w].pc = "wait", ![w].reply = -1]
    <3>1. PICK reply \in Reply : reply = -1
      BY DEF Reply
    <3> DEFINE r == [worker[w] EXCEPT !.pc = "wait", !.reply = reply]
    <3>2. r.pc = "wait" /\ r.msg = worker[w].msg
      BY <1>3, WorkerPc
    <3>3. worker' = [worker EXCEPT ![w] = r]
      BY <1>3, <2>2, <3>1
    <3> HIDE DEF r
    <3>4. worker'[w] = r
      BY <1>3, <3>3
    <3>5. QED  BY <3>2, <3>4
  <2>3. QED  BY <2>1, <2>2 DEF Forward
<1>5. Attended'
  <2>1. CASE UNCHANGED handler
    BY <1>1, <1>2, <2>1, AttendedStays, IdleIsNoRequest DEF SerialInv
  <2>2. CASE \E h \in Handler :
               /\ handler[h] = NoRequest
               /\ handler' = [handler EXCEPT ![h] = [pc |-> "writeVM", path |-> "process",
                                                     client |-> w, sample |-> worker[w].msg]]
    <3>1. PICK h \in Handler :
            /\ handler[h] = NoRequest
            /\ handler' = [handler EXCEPT ![h] = [pc |-> "writeVM", path |-> "process",
                                                  client |-> w, sample |-> worker[w].msg]]
      BY <2>2
    <3>2. /\ handler'[h].pc = "writeVM" /\ handler'[h].path = "process" /\ handler'[h].client = w
          /\ \A g \in Handler : g # h => handler'[g] = handler[g]
      BY <1>1, <3>1 DEF TypeOK
    <3>3. w \notin Machine
      BY PipelineAssumption
    <3>4. ASSUME NEW g \in Handler, handler'[g].pc # "idle"
          PROVE  \/ /\ handler'[g].path = "process" /\ handler'[g].pc # "publish"
                    /\ handler'[g].client \in Worker
                 \/ /\ handler'[g].path = "metrics" /\ handler'[g].pc = "publish"
                    /\ handler'[g].client \in Machine
                    /\ agent'[handler'[g].client].pc = "wait"
                    /\ agent'[handler'[g].client].reply = 0
                    /\ handler'[g].sample = <<handler'[g].client, agent'[handler'[g].client].sent>>
      <4>1. CASE g = h
        BY <3>2, <4>1
      <4>2. CASE g # h
        BY <1>2, <3>2, <3>4, <4>2 DEF SerialInv, Attended, Awaits
      <4>3. QED  BY <4>1, <4>2
    <3>5. \A g, k \in Handler :
            handler'[g].client = handler'[k].client /\ handler'[g].client \in Machine => g = k
      BY <3>2, <3>3 DEF SerialInv, Attended
    <3>6. QED  BY <3>4, <3>5 DEF Attended, Awaits
  <2>3. QED  BY <2>1, <2>2 DEF Forward
<1>6. QED  BY <1>2, <1>4, <1>5, WorkerStepSerial

LEMMA ReadOnSerial ==
  ASSUME IInv, IInv', SerialInv, OneWorker, NEW w \in Worker, WorkerAnswered(w) \/ StartWorker(w)
  PROVE  SerialInv'
<1>1. TypeOK
  BY DEF IInv
<1>2. UNCHANGED <<agent, handler, log, committed, position, owner, members, evaluated>>
      /\ worker' = [worker EXCEPT ![w] = Reading]
  BY DEF WorkerAnswered, StartWorker, group
<1>3. worker'[w] = Reading
  BY <1>1, <1>2 DEF TypeOK
<1>4. ~Busy(w)' /\ worker'[w].pc # "down"
  BY <1>3, ReadingFields DEF Busy
<1>5. Attended'
  BY <1>1, <1>2, AttendedStays, IdleIsNoRequest DEF SerialInv
<1>6. QED  BY <1>2, <1>4, <1>5, WorkerStepSerial

(* The partition is assigned once, before anything was read of it. *)
LEMMA RebalanceSerial ==
  ASSUME IInv, IInv', SerialInv, OneWorker, Rebalance
  PROVE  SerialInv'
<1>1. TypeOK /\ TypeOK' /\ WorkersOK
  BY DEF IInv
<1>2. PICK w \in Worker, p \in Partition : Worker = {w} /\ Partition = {p}
  BY DEF OneWorker
<1>3. UNCHANGED <<agent, worker, handler, log, committed, evaluated>>
  BY DEF Rebalance
<1>4. Live = Worker /\ worker[w].pc # "down" /\ members' = Worker
  BY <1>2 DEF Rebalance, Live
<1>5. members = {} /\ owner[p] = None /\ position[p] = 0 /\ committed[p] = 0
  BY <1>2, <1>4, PipelineAssumption DEF SerialInv, Joined, Rebalance
<1>6. position' = position /\ owner'[p] = w
  BY <1>1, <1>2, <1>4, <1>5 DEF Rebalance, StartOffset, TypeOK
<1>7. Attended'
  BY <1>1, <1>3, AttendedStays, IdleIsNoRequest DEF SerialInv
<1>8. Joined'
  BY <1>2, <1>3, <1>4, <1>6 DEF Joined
<1>9. \A m \in Machine : agent[m].sent <= agent'[m].sent
  BY <1>1, <1>3, SentType
<1>10. InOrder'
  BY <1>1, <1>3, <1>6, <1>9, OrderStays DEF SerialInv, Busy
<1>11. QED  BY <1>7, <1>8, <1>10 DEF SerialInv

LEMMA SerialStep ==
  ASSUME IInv, IInv', SerialInv, OneWorker, [Next]_vars
  PROVE  SerialInv'
<1>1. ASSUME NEW m \in Machine, Report(m) \/ AgentAnswered(m)
      PROVE  SerialInv'
  BY <1>1, ReportSerial, AgentAnsweredSerial
<1>2. ASSUME NEW h \in Handler, HandlerStep(h) \/ GiveUp(h)
      PROVE  SerialInv'
  <2>1. ~GiveUp(h)
    BY DEF GiveUp, OneWorker
  <2>2. QED  BY <1>2, <2>1, PublishSerial, WriteSerial, EvaluatedSerial DEF HandlerStep
<1>3. ASSUME NEW w \in Worker, WorkerStep(w) \/ StartWorker(w) \/ CrashWorker(w)
      PROVE  SerialInv'
  <2>1. ~CrashWorker(w)
    BY DEF CrashWorker, OneWorker
  <2>2. QED  BY <1>3, <2>1, FetchSerial, CommitSerial, ForwardSerial, ReadOnSerial DEF WorkerStep
<1>4. CASE CrashServer \/ Rebalance
  BY <1>4, CrashSerial, RebalanceSerial
<1>5. CASE UNCHANGED vars
  <2>1. UNCHANGED <<agent, worker, handler, log, committed, position, owner, members, evaluated>>
    BY <1>5 DEF vars, group
  <2>2. Attended' /\ Joined'
    BY <2>1 DEF SerialInv, Attended, Awaits, Joined, Busy
  <2>3. InOrder'
    BY <2>1 DEF SerialInv, InOrder, EvaluatedInOrder, LogInOrder, HeldInOrder, Sent, NotAfter,
                Before, Busy
  <2>4. QED  BY <2>2, <2>3 DEF SerialInv
<1>6. CASE Quiesce
  BY <1>5, <1>6 DEF Quiesce
<1>7. QED  BY <1>1, <1>2, <1>3, <1>4, <1>5, <1>6 DEF Next

LEMMA SerialCovers ==
  ASSUME TypeOK, HandlersOK, SerialInv, OneWorker
  PROVE  EvaluatedSerially
<1> SUFFICES ASSUME NEW m \in Machine
             PROVE  /\ \A i, j \in DOMAIN evaluated[m] : i < j => evaluated[m][i] <= evaluated[m][j]
                    /\ Cardinality({h \in Handler : handler[h].pc = "evaluate"
                                                    /\ handler[h].sample[1] = m}) <= 1
  BY DEF EvaluatedSerially
<1> DEFINE E == {h \in Handler : handler[h].pc = "evaluate" /\ handler[h].sample[1] = m}
<1>1. \A h \in E : handler[h].client \in Worker
  BY DEF SerialInv, Attended
<1>2. \A h, k \in E : h = k
  BY <1>1 DEF OneWorker, HandlersOK
<1>3. E = {} \/ \E h \in E : E = {h}
  BY <1>2
<1> HIDE DEF E
<1>4. Cardinality(E) <= 1
  <2>1. CASE E = {}
    BY <2>1, FS_EmptySet
  <2>2. CASE \E h \in E : E = {h}
    <3>1. PICK h : E = {h}
      BY <2>2
    <3>2. Cardinality({h}) = 1
      BY FS_Singleton
    <3>3. QED  BY <3>1, <3>2
  <2>3. QED  BY <1>3, <2>1, <2>2
<1>5. QED  BY <1>4 DEF E, SerialInv, InOrder, EvaluatedInOrder

(* With one worker and one partition the samples of a machine come to           *)
(* evaluateCPUAlert one at a time and in the order its agent sent them, for any  *)
(* number of agents and handlers, although messages are published twice, writes  *)
(* and commits fail and the server dies (worker/main.go:74-151, main.go:229-291). *)
THEOREM SamplesAreSerial == OneWorker => (Spec => []EvaluatedSerially)
<1> SUFFICES ASSUME OneWorker PROVE Spec => []EvaluatedSerially
  OBVIOUS
<1>1. Init => IInv /\ SerialInv
  BY InitInv, InitSerial
<1>2. IInv /\ SerialInv /\ [Next]_vars => (IInv /\ SerialInv)'
  BY StepInv, SerialStep
<1>3. IInv /\ SerialInv => EvaluatedSerially
  BY SerialCovers DEF IInv
<1>4. QED  BY <1>1, <1>2, <1>3, PTL DEF Spec

-----------------------------------------------------------------------------
(* One worker: a message is on its way to evaluateCPUAlert once at most.  A     *)
(* copy of a sample in the committed part of the log is in the hands of the     *)
(* worker, or in those of a handler that has not written it, or evaluated, or   *)
(* lost.  The worker never commits what is committed already: a partition is    *)
(* assigned while it holds nothing, and it reads from the committed offset.     *)

OneConsumer ==
  /\ \E w : Worker = {w}
  /\ IsFiniteSet(Partition)
  /\ IngestModes = {"kafka"}

Times(s) == {i \in DOMAIN evaluated[s[1]] : evaluated[s[1]][i] = s[2]}
Handled(s) == {h \in Handler : handler[h].pc = "writeVM" /\ handler[h].sample = s}
Carried(s) == {w \in Worker : worker[w].pc = "forward" /\ worker[w].msg = s}
Delivered ==
  \A s \in Sample :
    Cardinality(Times(s)) + Cardinality(Handled(s)) + Cardinality(Carried(s))
      <= Cardinality(Committed(s))

Uncommitted(w) ==
  /\ committed[worker[w].part] < worker[w].offset
  /\ worker[w].offset <= position[worker[w].part]
  /\ log[worker[w].part][worker[w].offset] = worker[w].msg
Fetched ==
  /\ \A p \in Partition : committed[p] <= position[p]
  /\ \A w \in Worker : worker[w].pc = "commit" => Uncommitted(w)

Assigned ==
  \A w \in Worker :
    \/ members = {} /\ worker[w].pc \in {"down", "read"} /\ \A p \in Partition : owner[p] = None
    \/ members = Worker /\ worker[w].pc # "down" /\ \A p \in Partition : owner[p] = w

OnceInv == Assigned /\ Fetched /\ Delivered

LEMMA FinitePrefixes ==
  ASSUME IsFiniteSet(Partition), NEW c \in [Partition -> Nat]
  PROVE  IsFiniteSet(UNION {{p} \X (1..c[p]) : p \in Partition})
<1> DEFINE f == [p \in Partition |-> {p} \X (1..c[p])]
           S == {f[p] : p \in Partition}
<1>1. f \in Surjection(Partition, S)
  BY DEF Surjection
<1>2. IsFiniteSet(S)
  BY <1>1, FS_Surjection
<1>3. ASSUME NEW p \in Partition PROVE IsFiniteSet(f[p])
  <2>1. 1 \in Int /\ c[p] \in Int
    OBVIOUS
  <2>2. IsFiniteSet(1..c[p])
    BY <2>1, FS_Interval
  <2>3. IsFiniteSet({p})
    BY FS_Singleton
  <2>4. QED  BY <2>2, <2>3, FS_Product
<1>4. \A T \in S : IsFiniteSet(T)
  BY <1>3
<1>5. S = {{p} \X (1..c[p]) : p \in Partition}
  OBVIOUS
<1> HIDE DEF S
<1>6. QED  BY <1>2, <1>4, <1>5, FS_UNION

LEMMA FiniteDeliveries ==
  ASSUME TypeOK, IsFiniteSet(Partition), NEW s \in Sample
  PROVE  /\ IsFiniteSet(Times(s)) /\ IsFiniteSet(Handled(s)) /\ IsFiniteSet(Carried(s))
         /\ IsFiniteSet(Committed(s))
         /\ Cardinality(Times(s)) \in Nat /\ Cardinality(Handled(s)) \in Nat
         /\ Cardinality(Carried(s)) \in Nat /\ Cardinality(Committed(s)) \in Nat
<1>1. IsFiniteSet(Times(s))
  <2>1. s[1] \in Machine
    BY SampleParts
  <2>2. PICK l \in Seq(1..MaxSamples) : l = evaluated[s[1]]
    BY <2>1 DEF TypeOK
  <2>3. DOMAIN l = 1..Len(l) /\ Len(l) \in Int
    OBVIOUS
  <2>4. IsFiniteSet(DOMAIN l)
    BY <2>3, FS_Interval
  <2>5. Times(s) \subseteq DOMAIN l
    BY <2>2 DEF Times
  <2>6. QED  BY <2>4, <2>5, FS_Subset
<1>2. IsFiniteSet(Handled(s)) /\ IsFiniteSet(Carried(s))
  <2>1. Handled(s) \subseteq Handler /\ Carried(s) \subseteq Worker
    BY DEF Handled, Carried
  <2>2. QED  BY <2>1, FS_Subset, PipelineAssumption
<1>3. IsFiniteSet(Committed(s))
  <2>1. committed \in [Partition -> Nat]
    BY DEF TypeOK
  <2>2. IsFiniteSet(UNION {{p} \X (1..committed[p]) : p \in Partition})
    BY <2>1, FinitePrefixes
  <2>3. QED  BY <2>2, FS_Subset DEF Committed
<1>4. QED  BY <1>1, <1>2, <1>3, FS_CardinalityType

(* What the log held it holds. *)
LogKept ==
  \A p \in Partition : \A i \in 1..Len(log[p]) : log'[p][i] = log[p][i]

LEMMA CommittedType ==
  ASSUME TypeOK, NEW p \in Partition
  PROVE  committed[p] \in Nat /\ Len(log[p]) \in Nat /\ committed[p] <= Len(log[p])
BY DEF TypeOK

LEMMA IsCommitted ==
  ASSUME NEW s, NEW r
  PROVE  r \in Committed(s) <=> \E p \in Partition : \E i \in 1..committed[p] :
                                  r = <<p, i>> /\ log[p][i] = s
<1>1. ASSUME r \in Committed(s)
      PROVE  \E p \in Partition : \E i \in 1..committed[p] : r = <<p, i>> /\ log[p][i] = s
  <2>1. PICK p \in Partition : r \in {p} \X (1..committed[p])
    BY <1>1 DEF Committed
  <2>2. PICK i \in 1..committed[p] : r = <<p, i>>
    BY <2>1
  <2>3. log[p][i] = s
    BY <1>1, <2>2 DEF Committed
  <2>4. QED  BY <2>2, <2>3
<1>2. ASSUME NEW p \in Partition, NEW i \in 1..committed[p], r = <<p, i>>, log[p][i] = s
      PROVE  r \in Committed(s)
  <2>1. r \in {p} \X (1..committed[p]) /\ r[1] = p /\ r[2] = i
    BY <1>2
  <2>2. QED  BY <1>2, <2>1 DEF Committed
<1>3. QED  BY <1>1, <1>2

LEMMA CommittedGrows ==
  ASSUME TypeOK, TypeOK', LogKept, NEW s,
         \A p \in Partition : committed[p] <= committed'[p]
  PROVE  Committed(s) \subseteq Committed(s)'
<1> SUFFICES ASSUME NEW r \in Committed(s) PROVE r \in Committed(s)'
  OBVIOUS
<1>1. PICK p \in Partition : \E i \in 1..committed[p] : r = <<p, i>> /\ log[p][i] = s
  BY IsCommitted
<1>2. PICK i \in 1..committed[p] : r = <<p, i>> /\ log[p][i] = s
  BY <1>1
<1>3. i \in 1..Len(log[p]) /\ i \in 1..committed'[p]
  <2>1. committed[p] \in Nat /\ Len(log[p]) \in Nat /\ committed[p] <= Len(log[p])
    BY CommittedType
  <2>2. committed'[p] \in Nat
    BY DEF TypeOK
  <2>3. QED  BY <2>1, <2>2
<1>4. log'[p][i] = s
  BY <1>2, <1>3 DEF LogKept
<1>5. r \in {p} \X (1..committed'[p]) /\ r[1] = p /\ r[2] = i
  BY <1>2, <1>3
<1>6. QED  BY <1>4, <1>5 DEF Committed

LEMMA DeliveredStays ==
  ASSUME TypeOK, TypeOK', IsFiniteSet(Partition), Delivered, UNCHANGED evaluated,
         \A s \in Sample : /\ Handled(s)' \subseteq Handled(s)
                           /\ Carried(s)' \subseteq Carried(s)
                           /\ Committed(s) \subseteq Committed(s)'
  PROVE  Delivered'
<1> SUFFICES ASSUME NEW s \in Sample
             PROVE  Cardinality(Times(s)') + Cardinality(Handled(s)') + Cardinality(Carried(s)')
                      <= Cardinality(Committed(s)')
  BY DEF Delivered
<1>1. Times(s)' = Times(s)
  BY DEF Times
<1>2. /\ IsFiniteSet(Handled(s)) /\ IsFiniteSet(Carried(s))
      /\ Cardinality(Times(s)) \in Nat /\ Cardinality(Handled(s)) \in Nat
      /\ Cardinality(Carried(s)) \in Nat /\ Cardinality(Committed(s)) \in Nat
  BY FiniteDeliveries
<1>3. IsFiniteSet(Committed(s)')
  <2>1. committed' \in [Partition -> Nat]
    BY DEF TypeOK
  <2>2. IsFiniteSet(UNION {{p} \X (1..committed'[p]) : p \in Partition})
    BY <2>1, FinitePrefixes
  <2>3. QED  BY <2>2, FS_Subset DEF Committed
<1>4. /\ Cardinality(Handled(s)') \in Nat /\ Cardinality(Handled(s)') <= Cardinality(Handled(s))
      /\ Cardinality(Carried(s)') \in Nat /\ Cardinality(Carried(s)') <= Cardinality(Carried(s))
  BY <1>2, Fewer
<1>5. Cardinality(Committed(s)) <= Cardinality(Committed(s)') /\ Cardinality(Committed(s)') \in Nat
  BY <1>3, Fewer, FS_CardinalityType
<1>6. Cardinality(Times(s)) + Cardinality(Handled(s)) + Cardinality(Carried(s))
        <= Cardinality(Committed(s))
  BY DEF Delivered
<1>7. QED  BY <1>1, <1>2, <1>4, <1>5, <1>6

(* A step that leaves the group and the hands of the workers as they are. *)
NothingToWrite ==
  \A h \in Handler : handler'[h].pc = "writeVM" =>
    handler[h].pc = "writeVM" /\ handler'[h].sample = handler[h].sample

LEMMA AssignedStays ==
  ASSUME Assigned, UNCHANGED <<members, owner>>,
         \A w \in Worker : /\ worker'[w].pc = "down" <=> worker[w].pc = "down"
                           /\ worker[w].pc = "read" => worker'[w].pc = "read"
  PROVE  Assigned'
BY DEF Assigned

LEMMA FetchedStays ==
  ASSUME TypeOK, WorkersOK, Fetched, LogKept, SameHands, UNCHANGED <<committed, position>>
  PROVE  Fetched'
<1> SUFFICES ASSUME NEW w \in Worker, worker'[w].pc = "commit"
             PROVE  /\ committed[worker'[w].part] < worker'[w].offset
                    /\ worker'[w].offset <= position[worker'[w].part]
                    /\ log'[worker'[w].part][worker'[w].offset] = worker'[w].msg
  BY DEF Fetched, Uncommitted
<1>1. /\ worker[w].pc = "commit" /\ worker'[w].msg = worker[w].msg
      /\ worker'[w].part = worker[w].part /\ worker'[w].offset = worker[w].offset
  BY DEF SameHands, SameMessages
<1>2. Uncommitted(w) /\ HoldsMessage(w)
  BY <1>1 DEF Fetched, WorkersOK
<1>3. log'[worker[w].part][worker[w].offset] = log[worker[w].part][worker[w].offset]
  BY <1>2 DEF HoldsMessage, LogKept
<1>4. QED  BY <1>1, <1>2, <1>3 DEF Uncommitted

LEMMA CarriedStays ==
  ASSUME SameHands, NEW s
  PROVE  Carried(s)' = Carried(s)
BY DEF Carried, SameHands, SameMessages

LEMMA HandledFewer ==
  ASSUME NothingToWrite, NEW s
  PROVE  Handled(s)' \subseteq Handled(s)
BY DEF Handled, NothingToWrite

LEMMA QuietOnce ==
  ASSUME IInv, IInv', OnceInv, OneConsumer, SameHands, LogKept, NothingToWrite,
         UNCHANGED <<committed, position, owner, members, evaluated>>
  PROVE  OnceInv'
<1>1. TypeOK /\ TypeOK' /\ WorkersOK
  BY DEF IInv
<1>2. Assigned'
  BY AssignedStays DEF OnceInv, SameHands
<1>3. Fetched'
  BY <1>1, FetchedStays DEF OnceInv
<1>4. \A p \in Partition : committed[p] <= committed'[p]
  BY <1>1, CommittedType
<1>5. \A s \in Sample : Committed(s) \subseteq Committed(s)'
  BY <1>1, <1>4, CommittedGrows
<1>6. Delivered'
  BY <1>1, <1>5, CarriedStays, HandledFewer, DeliveredStays DEF OneConsumer, OnceInv
<1>7. QED  BY <1>2, <1>3, <1>6 DEF OnceInv

LEMMA NoRequestFields ==
  NoRequest.pc = "idle" /\ NoRequest.client = None /\ NoRequest.sample = NoSample
BY DEF NoRequest

(* The agent: what it reports is published first. *)
LEMMA AgentOnce ==
  ASSUME IInv, IInv', OnceInv, OneConsumer, NEW m \in Machine, Report(m) \/ AgentAnswered(m)
  PROVE  OnceInv'
<1>1. TypeOK /\ ingestMode = "kafka"
  BY DEF IInv, TypeOK, OneConsumer
<1>2. UNCHANGED <<worker, log, committed, position, owner, members, evaluated>>
  BY DEF Report, AgentAnswered, group
<1>3. SameHands /\ LogKept
  BY <1>2 DEF SameHands, SameMessages, LogKept
<1>4. NothingToWrite
  <2>1. CASE UNCHANGED handler
    BY <2>1 DEF NothingToWrite
  <2>2. ASSUME NEW h \in Handler,
               handler' = [handler EXCEPT ![h] =
                 [pc |-> IF ingestMode = "kafka" THEN "publish" ELSE "writeVM",
                  path |-> "metrics", client |-> m, sample |-> <<m, agent[m].sent + 1>>]]
        PROVE  NothingToWrite
    <3>1. handler'[h].pc = "publish" /\ \A g \in Handler : g # h => handler'[g] = handler[g]
      BY <1>1, <2>2 DEF TypeOK
    <3>2. QED  BY <3>1 DEF NothingToWrite
  <2>3. QED  BY <2>1, <2>2 DEF Report, AgentAnswered
<1>5. QED  BY <1>2, <1>3, <1>4, QuietOnce

(* The server: a handler answers, and what it published is not committed. *)
LEMMA AnswerIsQuiet ==
  ASSUME TypeOK, NEW h \in Handler, handler[h].pc # "idle", NEW status \in Status,
         AnswerTo(h, status)
  PROVE  SameHands /\ NothingToWrite
<1>1. handler' = [handler EXCEPT ![h] = NoRequest] /\ SameHands
  BY AnswerToFields
<1>2. handler'[h].pc = "idle" /\ \A g \in Handler : g # h => handler'[g] = handler[g]
  BY <1>1, NoRequestFields DEF TypeOK
<1>3. QED  BY <1>1, <1>2 DEF NothingToWrite

LEMMA WriteKeepsLog ==
  ASSUME TypeOK, NEW h \in Handler, NEW copies \in Nat, handler[h].sample \in Sample,
         WriteMessages(h, copies)
  PROVE  LogKept
<1> DEFINE more == [i \in 1..copies |-> handler[h].sample]
<1>1. more \in Seq(Sample)
  OBVIOUS
<1>2. PICK p \in Partition : log' = [log EXCEPT ![p] = @ \o more]
  BY DEF WriteMessages
<1> HIDE DEF more
<1>3. PICK l \in Seq(Sample) : l = log[p]
  BY DEF TypeOK
<1>4. log' = [log EXCEPT ![p] = l \o more]
  BY <1>2, <1>3 DEF TypeOK
<1>5. log'[p] = l \o more /\ \A q \in Partition : q # p => log'[q] = log[q]
  BY <1>4 DEF TypeOK
<1>6. \A i \in 1..Len(l) : (l \o more)[i] = l[i]
  BY <1>1
<1>7. QED  BY <1>3, <1>5, <1>6 DEF LogKept

LEMMA PublishOnce ==
  ASSUME IInv, IInv', OnceInv, OneConsumer, NEW h \in Handler, PublishMetrics(h)
  PROVE  OnceInv'
<1>1. TypeOK
  BY DEF IInv
<1>2. /\ handler[h].pc # "idle" /\ handler[h].sample \in Sample
      /\ UNCHANGED <<committed, position, owner, members, evaluated>>
  BY <1>1, IsRequest DEF PublishMetrics, group
<1>3. PICK ok \in BOOLEAN : \E copies \in PublishedCopies(ok) :
        WriteMessages(h, copies) /\ AnswerTo(h, IF ok THEN 202 ELSE 500)
  BY DEF PublishMetrics
<1>4. PICK copies \in PublishedCopies(ok) :
        WriteMessages(h, copies) /\ AnswerTo(h, IF ok THEN 202 ELSE 500)
  BY <1>3
<1>5. PICK status \in Status : AnswerTo(h, status)
  BY <1>4
<1>6. SameHands /\ NothingToWrite
  BY <1>1, <1>2, <1>5, AnswerIsQuiet
<1>7. copies \in Nat
  BY DEF PublishedCopies
<1>8. LogKept
  BY <1>1, <1>2, <1>4, <1>7, WriteKeepsLog
<1>9. QED  BY <1>2, <1>6, <1>8, QuietOnce

LEMMA ReturnOnce ==
  ASSUME IInv, IInv', OnceInv, OneConsumer, NEW h \in Handler, handler[h].pc # "idle",
         NEW status \in Status, AnswerTo(h, status),
         UNCHANGED <<log, committed, position, owner, members, evaluated>>
  PROVE  OnceInv'
<1>1. SameHands /\ NothingToWrite
  BY AnswerIsQuiet DEF IInv
<1>2. LogKept
  BY DEF LogKept
<1>3. QED  BY <1>1, <1>2, QuietOnce

LEMMA EvaluatedOnce ==
  ASSUME IInv, IInv', OnceInv, OneConsumer, NEW h \in Handler, Evaluated(h)
  PROVE  OnceInv'
<1>1. /\ handler[h].pc # "idle" /\ AnswerTo(h, 200)
      /\ UNCHANGED <<log, committed, position, owner, members, evaluated>>
  BY DEF Evaluated, ProcessStatus, group
<1>2. QED  BY <1>1, ReturnOnce

(* The connection breaks or times out: the request is as it was, or gone. *)
LEMMA DisconnectOnce ==
  ASSUME IInv, IInv', OnceInv, OneConsumer,
         (\E h \in Handler : GiveUp(h)) \/ CrashServer
  PROVE  OnceInv'
<1>1. TypeOK /\ WorkersOK
  BY DEF IInv
<1>2. UNCHANGED <<log, committed, position, owner, members, evaluated>>
  BY DEF GiveUp, CrashServer, group
<1>3. \A w \in Worker : worker'[w] = worker[w] \/ worker'[w] = [worker[w] EXCEPT !.reply = -1]
  <2>1. ASSUME NEW h \in Handler, GiveUp(h)
        PROVE  \A w \in Worker : worker'[w] = worker[w] \/ worker'[w] = [worker[w] EXCEPT !.reply = -1]
    BY <1>1, <2>1 DEF GiveUp, TypeOK
  <2>2. ASSUME CrashServer
        PROVE  \A w \in Worker : worker'[w] = worker[w] \/ worker'[w] = [worker[w] EXCEPT !.reply = -1]
    BY <2>2 DEF CrashServer
  <2>3. QED  BY <2>1, <2>2
<1>4. SameHands
  <2>1. ASSUME NEW w \in Worker
        PROVE  /\ worker'[w].pc = worker[w].pc /\ worker'[w].msg = worker[w].msg
               /\ worker'[w].part = worker[w].part /\ worker'[w].offset = worker[w].offset
    <3>1. worker[w] \in WorkerState
      BY <1>1 DEF TypeOK
    <3>2. -1 \in Reply
      BY DEF Reply
    <3> DEFINE r == [worker[w] EXCEPT !.reply = -1]
    <3>3. r.pc = worker[w].pc /\ r.msg = worker[w].msg /\ r.part = worker[w].part
          /\ r.offset = worker[w].offset
      BY <3>1, <3>2, WorkerReply
    <3>4. worker'[w] = worker[w] \/ worker'[w] = r
      BY <1>3
    <3> HIDE DEF r
    <3>5. QED  BY <3>3, <3>4
  <2>2. QED  BY <2>1 DEF SameHands, SameMessages
<1>5. NothingToWrite
  <2>1. ASSUME NEW h \in Handler, GiveUp(h)
        PROVE  NothingToWrite
    <3>1. handler[h].client # None /\ handler' = [handler EXCEPT ![h].client = None]
      BY <2>1 DEF GiveUp
    <3>2. handler[h] \in Request
      BY <1>1, <3>1, IdleHasNoClient
    <3>3. handler'[h] = [handler[h] EXCEPT !.client = None]
      BY <1>1, <3>1 DEF TypeOK
    <3>4. handler'[h].pc = handler[h].pc /\ handler'[h].sample = handler[h].sample
      BY <3>2, <3>3 DEF Request
    <3>5. \A g \in Handler : g # h => handler'[g] = handler[g]
      BY <1>1, <3>1 DEF TypeOK
    <3>6. QED  BY <3>4, <3>5 DEF NothingToWrite
  <2>2. ASSUME CrashServer
        PROVE  NothingToWrite
    <3>1. \A h \in Handler : handler'[h].pc = "idle"
      BY <2>2, NoRequestFields DEF CrashServer
    <3>2. QED  BY <3>1 DEF NothingToWrite
  <2>3. QED  BY <2>1, <2>2
<1>6. LogKept
  BY <1>2 DEF LogKept
<1>7. QED  BY <1>2, <1>4, <1>5, <1>6, QuietOnce

(* A write hands the sample over to evaluateCPUAlert. *)
LEMMA OneLess ==
  ASSUME NEW S, IsFiniteSet(S), NEW x \in S, NEW T, T \subseteq S \ {x}
  PROVE  /\ IsFiniteSet(T) /\ Cardinality(T) \in Nat
         /\ Cardinality(T) + 1 <= Cardinality(S)
<1>1. IsFiniteSet(S \ {x}) /\ Cardinality(S \ {x}) = Cardinality(S) - 1
  BY FS_RemoveElement
<1>2. Cardinality(T) \in Nat /\ Cardinality(T) <= Cardinality(S \ {x}) /\ IsFiniteSet(T)
  BY <1>1, Fewer
<1>3. Cardinality(S) \in Nat
  BY FS_CardinalityType
<1>4. QED  BY <1>1, <1>2, <1>3

LEMMA OneMore ==
  ASSUME NEW S, IsFiniteSet(S), NEW x, NEW T, T \subseteq S \cup {x}
  PROVE  /\ Cardinality(T) \in Nat /\ Cardinality(S) \in Nat
         /\ Cardinality(T) <= Cardinality(S) + 1
<1>1. IsFiniteSet(S \cup {x}) /\ Cardinality(S \cup {x}) <= Cardinality(S) + 1
  <2>1. Cardinality(S) \in Nat
    BY FS_CardinalityType
  <2>2. QED  BY <2>1, FS_AddElement
<1>2. Cardinality(T) \in Nat /\ Cardinality(T) <= Cardinality(S \cup {x})
  BY <1>1, Fewer
<1>3. Cardinality(S) \in Nat /\ Cardinality(S \cup {x}) \in Nat
  BY <1>1, FS_CardinalityType
<1>4. QED  BY <1>1, <1>2, <1>3

LEMMA WriteOnce ==
  ASSUME IInv, IInv', OnceInv, OneConsumer, NEW h \in Handler, WriteVM(h)
  PROVE  OnceInv'
<1>1. TypeOK /\ TypeOK' /\ WorkersOK
  BY DEF IInv
<1>2. /\ handler[h].pc = "writeVM" /\ handler[h] \in Request /\ handler[h].sample \in Sample
      /\ UNCHANGED <<log, committed, position, owner, members>>
  BY <1>1, IsRequest DEF WriteVM, group
<1>3. CASE AnswerTo(h, 500) /\ UNCHANGED evaluated
  BY <1>2, <1>3, ReturnOnce
<1>4. CASE /\ evaluated' = [evaluated EXCEPT ![handler[h].sample[1]] =
                              Append(@, handler[h].sample[2])]
           /\ handler' = [handler EXCEPT ![h].pc = "evaluate"]
           /\ UNCHANGED <<agent, worker>>
  <2>1. PICK s \in Sample : s = handler[h].sample
    BY <1>2
  <2>2. s[1] \in Machine /\ s[2] \in 1..MaxSamples
    BY SampleParts
  <2>3. SameHands /\ LogKept
    BY <1>2, <1>4 DEF SameHands, SameMessages, LogKept
  <2>4. Assigned' /\ Fetched'
    <3>1. Assigned'
      BY <1>2, <2>3, AssignedStays DEF OnceInv, SameHands
    <3>2. QED  BY <1>1, <1>2, <2>3, <3>1, FetchedStays DEF OnceInv
  <2>5. /\ handler'[h].pc = "evaluate"
        /\ \A g \in Handler : g # h => handler'[g] = handler[g]
    <3>1. handler'[h] = [handler[h] EXCEPT !.pc = "evaluate"]
      BY <1>1, <1>4 DEF TypeOK
    <3>2. [handler[h] EXCEPT !.pc = "evaluate"].pc = "evaluate"
      BY <1>2, HandlerPc
    <3>3. QED  BY <1>1, <1>4, <3>1, <3>2 DEF TypeOK
  <2>6. PICK l \in Seq(1..MaxSamples) : l = evaluated[s[1]]
    BY <1>1, <2>2 DEF TypeOK
  <2>7. PICK n : n = Append(l, s[2])
    OBVIOUS
  <2>8. /\ evaluated'[s[1]] = n
        /\ \A m \in Machine : m # s[1] => evaluated'[m] = evaluated[m]
    BY <1>1, <1>4, <2>1, <2>2, <2>6, <2>7 DEF TypeOK
  <2>9. /\ DOMAIN n = 1..(Len(l) + 1) /\ n[Len(l) + 1] = s[2]
        /\ \A i \in DOMAIN n : (i \in DOMAIN l /\ n[i] = l[i]) \/ i = Len(l) + 1
        /\ DOMAIN l = 1..Len(l) /\ Len(l) \in Nat
    BY <2>2, <2>7, AppendedLast
  <2>10. ASSUME NEW t \in Sample
         PROVE  Cardinality(Times(t)') + Cardinality(Handled(t)') + Cardinality(Carried(t)')
                  <= Cardinality(Committed(t)')
    <3>1. /\ IsFiniteSet(Times(t)) /\ IsFiniteSet(Handled(t))
          /\ Cardinality(Times(t)) \in Nat /\ Cardinality(Handled(t)) \in Nat
          /\ Cardinality(Carried(t)) \in Nat /\ Cardinality(Committed(t)) \in Nat
      BY <1>1, FiniteDeliveries DEF OneConsumer
    <3>2. Carried(t)' = Carried(t) /\ Committed(t)' = Committed(t)
      BY <1>2, <2>3, CarriedStays DEF Committed
    <3>3. Cardinality(Times(t)) + Cardinality(Handled(t)) + Cardinality(Carried(t))
            <= Cardinality(Committed(t))
      BY DEF OnceInv, Delivered
    <3>4. t[1] \in Machine
      BY SampleParts
    <3>5. CASE t = s
      <4>1. h \in Handled(s) /\ Handled(s)' \subseteq Handled(s) \ {h}
        BY <1>2, <2>1, <2>5 DEF Handled
      <4>2. Times(s)' \subseteq Times(s) \cup {Len(l) + 1}
        BY <2>6, <2>8, <2>9 DEF Times
      <4>3. Cardinality(Handled(t)') \in Nat
            /\ Cardinality(Handled(t)') + 1 <= Cardinality(Handled(t))
        BY <3>1, <3>5, <4>1, OneLess
      <4>4. Cardinality(Times(t)') \in Nat /\ Cardinality(Times(t)') <= Cardinality(Times(t)) + 1
        BY <3>1, <3>5, <4>2, OneMore
      <4>5. QED  BY <3>1, <3>2, <3>3, <4>3, <4>4
    <3>6. CASE t # s
      <4>1. Handled(t)' \subseteq Handled(t)
        BY <2>5 DEF Handled
      <4>2. Times(t)' \subseteq Times(t)
        <5>1. CASE t[1] = s[1]
          <6>1. t[2] # s[2]
            BY <3>6, <5>1 DEF Sample
          <6>2. QED  BY <2>6, <2>8, <2>9, <5>1, <6>1 DEF Times
        <5>2. CASE t[1] # s[1]
          BY <2>8, <3>4, <5>2 DEF Times
        <5>3. QED  BY <5>1, <5>2
      <4>3. /\ Cardinality(Handled(t)') \in Nat
            /\ Cardinality(Handled(t)') <= Cardinality(Handled(t))
            /\ Cardinality(Times(t)') \in Nat /\ Cardinality(Times(t)') <= Cardinality(Times(t))
        BY <3>1, <4>1, <4>2, Fewer
      <4>4. QED  BY <3>1, <3>2, <3>3, <4>3
    <3>7. QED  BY <3>5, <3>6
  <2>11. QED  BY <2>4, <2>10 DEF OnceInv, Delivered
<1>5. QED  BY <1>3, <1>4 DEF WriteVM, ProcessStatus

(* The worker fetches what is not committed, *)
LEMMA FetchOnce ==
  ASSUME IInv, IInv', OnceInv, OneConsumer, NEW w \in Worker, FetchMessage(w)
  PROVE  OnceInv'
<1>1. TypeOK /\ TypeOK' /\ WorkersOK
  BY DEF IInv
<1>2. UNCHANGED <<agent, handler, log, committed, owner, members, evaluated>>
      /\ worker[w].pc = "read"
  BY DEF FetchMessage
<1>3. PICK p \in Partition :
        /\ owner[p] = w
        /\ position[p] < Len(log[p])
        /\ position' = [position EXCEPT ![p] = @ + 1]
        /\ worker' = [worker EXCEPT ![w] =
             [pc |-> "commit", msg |-> log[p][position[p] + 1], part |-> p,
              offset |-> position[p] + 1, reply |-> 0]]
  BY DEF FetchMessage
<1>4. \A v \in Worker : v = w
  BY DEF OneConsumer
<1>5. /\ worker'[w].pc = "commit" /\ worker'[w].part = p /\ worker'[w].offset = position[p] + 1
      /\ worker'[w].msg = log[p][position[p] + 1]
  BY <1>1, <1>3 DEF TypeOK
<1>6. /\ position'[p] = position[p] + 1 /\ \A q \in Partition : q # p => position'[q] = position[q]
      /\ \A q \in Partition : position[q] \in Nat /\ committed[q] \in Nat /\ committed[q] <= position[q]
  BY <1>1, <1>3 DEF TypeOK, OnceInv, Fetched
<1>7. Assigned'
  <2>1. owner[p] # None
    BY <1>3, PipelineAssumption
  <2>2. members = Worker /\ \A q \in Partition : owner[q] = w
    BY <2>1 DEF OnceInv, Assigned
  <2>3. QED  BY <1>2, <1>4, <1>5, <2>2 DEF Assigned
<1>8. Fetched'
  <2>1. \A q \in Partition : committed[q] <= position'[q]
    BY <1>6
  <2>2. /\ committed[p] < position[p] + 1 /\ position[p] + 1 <= position'[p]
    BY <1>6
  <2>3. QED  BY <1>2, <1>4, <1>5, <2>1, <2>2 DEF Fetched, Uncommitted
<1>9. Delivered'
  <2>1. ASSUME NEW s \in Sample
        PROVE  /\ Handled(s)' \subseteq Handled(s) /\ Carried(s)' \subseteq Carried(s)
               /\ Committed(s) \subseteq Committed(s)'
    BY <1>2, <1>4, <1>5 DEF Handled, Carried, Committed
  <2>2. QED  BY <1>1, <1>2, <2>1, DeliveredStays DEF OneConsumer, OnceInv
<1>10. QED  BY <1>7, <1>8, <1>9 DEF OnceInv

(* commits it once before it forwards it, *)
LEMMA CommitOnce ==
  ASSUME IInv, IInv', OnceInv, OneConsumer, NEW w \in Worker, CommitMessages(w)
  PROVE  OnceInv'
<1>1. TypeOK /\ TypeOK' /\ WorkersOK
  BY DEF IInv
<1>2. UNCHANGED <<agent, handler, log, position, owner, members, evaluated>>
      /\ worker[w].pc = "commit"
  BY DEF CommitMessages
<1>3. \A v \in Worker : v = w
  BY DEF OneConsumer
<1>4. worker[w] \in WorkerState /\ worker \in [Worker -> WorkerState]
  BY <1>1 DEF TypeOK
<1>5. PICK p \in Partition : p = worker[w].part
  BY <1>1, <1>2 DEF WorkersOK, HoldsMessage
<1>6. PICK i \in 1..Len(log[p]) : i = worker[w].offset
  BY <1>1, <1>2, <1>5 DEF WorkersOK, HoldsMessage
<1>7. committed[p] < i /\ i <= position[p] /\ log[p][i] = worker[w].msg
  BY <1>2, <1>5, <1>6 DEF OnceInv, Fetched, Uncommitted
<1>8. committed[p] \in Nat /\ position[p] \in Nat /\ Len(log[p]) \in Nat
  BY <1>1 DEF TypeOK
<1>9. committed' = committed \/ committed' = [committed EXCEPT ![p] = i]
  BY <1>5, <1>6 DEF CommitMessages
<1>10. \A q \in Partition : q # p => committed'[q] = committed[q]
  BY <1>1, <1>9 DEF TypeOK
<1>11. committed'[p] = committed[p] \/ committed'[p] = i
  BY <1>1, <1>9 DEF TypeOK
<1>12. /\ \A q \in Partition : committed[q] <= committed'[q]
       /\ \A q \in Partition : committed'[q] <= position[q]
  <2>1. \A q \in Partition : committed[q] \in Nat /\ position[q] \in Nat /\ committed[q] <= position[q]
    BY <1>1 DEF TypeOK, OnceInv, Fetched
  <2>2. QED  BY <1>7, <1>8, <1>10, <1>11, <2>1
<1>13. \/ worker'[w].pc = "forward" /\ worker'[w].msg = worker[w].msg /\ committed'[p] = i
       \/ worker'[w].pc = "read"
  <2>1. CASE /\ worker' = [worker EXCEPT ![w].pc = "forward"]
             /\ committed' = [committed EXCEPT ![worker[w].part] = worker[w].offset]
    <3> DEFINE r == [worker[w] EXCEPT !.pc = "forward"]
    <3>1. r.pc = "forward" /\ r.msg = worker[w].msg
      BY <1>4, WorkerPcOnly
    <3>2. worker' = [worker EXCEPT ![w] = r]
      BY <1>4, <2>1
    <3> HIDE DEF r
    <3>3. worker'[w] = r
      BY <1>4, <3>2
    <3>4. committed'[p] = i
      BY <1>1, <1>5, <1>6, <2>1 DEF TypeOK
    <3>5. QED  BY <3>1, <3>3, <3>4
  <2>2. CASE worker' = [worker EXCEPT ![w] = Reading]
    BY <1>4, <2>2, ReadingFields
  <2>3. QED  BY <2>1, <2>2 DEF CommitMessages
<1>14. Assigned'
  <2>1. members = Worker /\ \A q \in Partition : owner[q] = w
    BY <1>2 DEF OnceInv, Assigned
  <2>2. QED  BY <1>2, <1>3, <1>13, <2>1 DEF Assigned
<1>15. Fetched'
  <2>1. \A v \in Worker : worker'[v].pc # "commit"
    BY <1>3, <1>13
  <2>2. QED  BY <1>2, <1>12, <2>1 DEF Fetched
<1>16. LogKept
  BY <1>2 DEF LogKept
<1>17. \A s : Handled(s)' = Handled(s) /\ Times(s)' = Times(s)
  BY <1>2 DEF Handled, Times
<1>18. \A s : Committed(s) \subseteq Committed(s)'
  BY <1>1, <1>12, <1>16, CommittedGrows
<1>19. ASSUME NEW s \in Sample
       PROVE  Cardinality(Times(s)') + Cardinality(Handled(s)') + Cardinality(Carried(s)')
                <= Cardinality(Committed(s)')
  <2>1. /\ IsFiniteSet(Committed(s)) /\ IsFiniteSet(Carried(s))
        /\ Cardinality(Times(s)) \in Nat /\ Cardinality(Handled(s)) \in Nat
        /\ Cardinality(Carried(s)) \in Nat /\ Cardinality(Committed(s)) \in Nat
    BY <1>1, FiniteDeliveries DEF OneConsumer
  <2>2. Cardinality(Times(s)) + Cardinality(Handled(s)) + Cardinality(Carried(s))
          <= Cardinality(Committed(s))
    BY DEF OnceInv, Delivered
  <2>3. IsFiniteSet(Committed(s)') /\ Cardinality(Committed(s)') \in Nat
    <3>1. committed' \in [Partition -> Nat]
      BY <1>1 DEF TypeOK
    <3>2. IsFiniteSet(UNION {{q} \X (1..committed'[q]) : q \in Partition})
      BY <3>1, FinitePrefixes DEF OneConsumer
    <3>3. QED  BY <3>2, FS_Subset, FS_CardinalityType DEF Committed
  <2>4. CASE worker'[w].pc = "forward" /\ worker'[w].msg = s
    <3>1. committed'[p] = i /\ log[p][i] = s
      BY <1>7, <1>13, <2>4
    <3>2. <<p, i>> \notin Committed(s)
      BY <1>7, <1>8 DEF Committed
    <3>3. <<p, i>> \in Committed(s)'
      <4>1. <<p, i>> \in {p} \X (1..committed'[p])
        BY <3>1
      <4>2. QED  BY <1>2, <3>1, <4>1 DEF Committed
    <3>4. Cardinality(Committed(s)) + 1 <= Cardinality(Committed(s)')
      <4>1. Committed(s) \subseteq Committed(s)' \ {<<p, i>>}
        BY <1>18, <3>2
      <4>2. QED  BY <2>3, <3>3, <4>1, OneLess
    <3>5. Carried(s)' \subseteq Carried(s) \cup {w}
      BY <1>3 DEF Carried
    <3>6. Cardinality(Carried(s)') \in Nat /\ Cardinality(Carried(s)') <= Cardinality(Carried(s)) + 1
      BY <2>1, <3>5, OneMore
    <3>7. QED  BY <1>17, <2>1, <2>2, <2>3, <3>4, <3>6
  <2>5. CASE ~(worker'[w].pc = "forward" /\ worker'[w].msg = s)
    <3>1. Carried(s)' \subseteq Carried(s)
      BY <1>3, <2>5 DEF Carried
    <3>2. Cardinality(Carried(s)') \in Nat /\ Cardinality(Carried(s)') <= Cardinality(Carried(s))
      BY <2>1, <3>1, Fewer
    <3>3. Cardinality(Committed(s)) <= Cardinality(Committed(s)')
      BY <1>18, <2>3, Fewer
    <3>4. QED  BY <1>17, <2>1, <2>2, <2>3, <3>2, <3>3
  <2>6. QED  BY <2>4, <2>5
<1>20. QED  BY <1>14, <1>15, <1>19 DEF OnceInv, Delivered

(* and hands it to one handler at most. *)
LEMMA ForwardOnce ==
  ASSUME IInv, IInv', OnceInv, OneConsumer, NEW w \in Worker, Forward(w)
  PROVE  OnceInv'
<1>1. TypeOK /\ TypeOK' /\ WorkersOK
  BY DEF IInv
<1>2. UNCHANGED <<agent, log, committed, position, owner, members, evaluated>>
      /\ worker[w].pc = "forward"
  BY DEF Forward, group
<1>3. \A v \in Worker : v = w
  BY DEF OneConsumer
<1>4. worker[w] \in WorkerState /\ worker \in [Worker -> WorkerState]
  BY <1>1 DEF TypeOK
<1>5. worker'[w].pc = "wait"
  <2>1. CASE worker' = [worker EXCEPT ![w].pc = "wait"]
    <3>1. [worker[w] EXCEPT !.pc = "wait"].pc = "wait"
      BY <1>4, WorkerPcOnly
    <3>2. QED  BY <1>4, <2>1, <3>1
  <2>2. CASE worker' = [worker EXCEPT ![w].pc = "wait", ![w].reply = -1]
    <3>1. worker'[w] = [worker[w] EXCEPT !.pc = "wait", !.reply = -1]
      BY <1>4, <2>2
    <3>2. [worker[w] EXCEPT !.pc = "wait", !.reply = -1].pc = "wait"
      BY <1>4 DEF WorkerState
    <3>3. QED  BY <3>1, <3>2
  <2>3. QED  BY <2>1, <2>2 DEF Forward
<1>6. Assigned'
  <2>1. members = Worker /\ \A q \in Partition : owner[q] = w
    BY <1>2 DEF OnceInv, Assigned
  <2>2. QED  BY <1>2, <1>3, <1>5, <2>1 DEF Assigned
<1>7. Fetched'
  BY <1>2, <1>3, <1>5 DEF OnceInv, Fetched
<1>8. \A s : Carried(s)' = {}
  BY <1>3, <1>5 DEF Carried
<1>9. \A s : Committed(s)' = Committed(s) /\ Times(s)' = Times(s)
  BY <1>2 DEF Committed, Times
<1>10. \/ \A s : Handled(s)' = Handled(s)
       \/ \E h \in Handler : \A s : /\ worker[w].msg = s => Handled(s)' \subseteq Handled(s) \cup {h}
                                    /\ worker[w].msg # s => Handled(s)' \subseteq Handled(s)
  <2>1. CASE UNCHANGED handler
    BY <2>1 DEF Handled
  <2>2. ASSUME NEW h \in Handler,
               handler' = [handler EXCEPT ![h] = [pc |-> "writeVM", path |-> "process",
                                                  client |-> w, sample |-> worker[w].msg]]
        PROVE  \A s : /\ worker[w].msg = s => Handled(s)' \subseteq Handled(s) \cup {h}
                      /\ worker[w].msg # s => Handled(s)' \subseteq Handled(s)
    <3>1. /\ handler'[h].sample = worker[w].msg
          /\ \A g \in Handler : g # h => handler'[g] = handler[g]
      BY <1>1, <2>2 DEF TypeOK
    <3>2. QED  BY <3>1 DEF Handled
  <2>3. QED  BY <2>1, <2>2 DEF Forward
<1>11. ASSUME NEW s \in Sample
       PROVE  Cardinality(Times(s)') + Cardinality(Handled(s)') + Cardinality(Carried(s)')
                <= Cardinality(Committed(s)')
  <2>1. /\ IsFiniteSet(Handled(s)) /\ IsFiniteSet(Carried(s))
        /\ Cardinality(Times(s)) \in Nat /\ Cardinality(Handled(s)) \in Nat
        /\ Cardinality(Carried(s)) \in Nat /\ Cardinality(Committed(s)) \in Nat
    BY <1>1, FiniteDeliveries DEF OneConsumer
  <2>2. Cardinality(Times(s)) + Cardinality(Handled(s)) + Cardinality(Carried(s))
          <= Cardinality(Committed(s))
    BY DEF OnceInv, Delivered
  <2>3. Cardinality(Carried(s)') = 0
    BY <1>8, FS_EmptySet
  <2>4. CASE worker[w].msg = s
    <3>1. Cardinality(Carried(s)) >= 1
      <4>1. w \in Carried(s) /\ {} \subseteq Carried(s) \ {w}
        BY <1>2, <2>4 DEF Carried
      <4>2. Cardinality({}) + 1 <= Cardinality(Carried(s))
        BY <2>1, <4>1, OneLess
      <4>3. QED  BY <2>1, <4>2, FS_EmptySet
    <3>2. Cardinality(Handled(s)') \in Nat /\ Cardinality(Handled(s)') <= Cardinality(Handled(s)) + 1
      <4>1. \E h : Handled(s)' \subseteq Handled(s) \cup {h}
        BY <1>10, <2>4
      <4>2. QED  BY <2>1, <4>1, OneMore
    <3>3. QED  BY <1>9, <2>1, <2>2, <2>3, <3>1, <3>2
  <2>5. CASE worker[w].msg # s
    <3>1. Handled(s)' \subseteq Handled(s)
      BY <1>10, <2>5
    <3>2. Cardinality(Handled(s)') \in Nat /\ Cardinality(Handled(s)') <= Cardinality(Handled(s))
      BY <2>1, <3>1, Fewer
    <3>3. QED  BY <1>9, <2>1, <2>2, <2>3, <3>2
  <2>6. QED  BY <2>4, <2>5
<1>12. QED  BY <1>6, <1>7, <1>11 DEF OnceInv, Delivered

(* However the forward ends, it reads on.  Started again it is a new member. *)
LEMMA ReadOnOnce ==
  ASSUME IInv, IInv', OnceInv, OneConsumer, NEW w \in Worker,
         WorkerAnswered(w) \/ StartWorker(w) \/ CrashWorker(w)
  PROVE  OnceInv'
<1>1. TypeOK /\ TypeOK' /\ WorkersOK
  BY DEF IInv
<1>2. UNCHANGED <<log, committed, position, evaluated>>
  BY DEF WorkerAnswered, StartWorker, CrashWorker, group
<1>3. \A v \in Worker : v = w
  BY DEF OneConsumer
<1>4. /\ worker'[w].pc \in {"read", "down"}
      /\ CrashWorker(w) \/ worker'[w].pc = "read"
  <2>1. CASE worker' = [worker EXCEPT ![w] = Reading]
    BY <1>1, <2>1, ReadingFields DEF TypeOK
  <2>2. CASE worker' = [worker EXCEPT ![w] = NoWorker] /\ CrashWorker(w)
    BY <1>1, <2>2, ReadingFields DEF TypeOK
  <2>3. QED  BY <2>1, <2>2 DEF WorkerAnswered, StartWorker, CrashWorker
<1>5. Assigned'
  <2>1. CASE CrashWorker(w)
    <3>1. members' = {}
      BY <1>3, <2>1 DEF CrashWorker, OnceInv, Assigned
    <3>2. \A p \in Partition : owner'[p] = None
      BY <1>3, <2>1 DEF CrashWorker, OnceInv, Assigned
    <3>3. QED  BY <1>3, <1>4, <3>1, <3>2 DEF Assigned
  <2>2. CASE WorkerAnswered(w) \/ StartWorker(w)
    <3>1. UNCHANGED <<members, owner>> /\ worker'[w].pc = "read"
      BY <1>1, <2>2, ReadingFields DEF WorkerAnswered, StartWorker, group, TypeOK
    <3>2. QED  BY <1>3, <3>1 DEF OnceInv, Assigned
  <2>3. QED  BY <2>1, <2>2
<1>6. Fetched'
  BY <1>2, <1>3, <1>4 DEF OnceInv, Fetched
<1>7. NothingToWrite
  <2>1. CASE UNCHANGED handler
    BY <2>1 DEF NothingToWrite
  <2>2. CASE CrashWorker(w)
    <3>1. handler' = [h \in Handler |-> IF handler[h].client = w
                                        THEN [handler[h] EXCEPT !.client = None]
                                        ELSE handler[h]]
      BY <2>2 DEF CrashWorker
    <3>2. ASSUME NEW h \in Handler, handler[h].client = w
          PROVE  handler'[h].pc = handler[h].pc /\ handler'[h].sample = handler[h].sample
      <4>1. handler[h] \in Request
        BY <1>1, <3>2, IdleHasNoClient, PipelineAssumption
      <4>2. handler'[h] = [handler[h] EXCEPT !.client = None]
        BY <3>1, <3>2
      <4>3. QED  BY <4>1, <4>2 DEF Request
    <3>3. ASSUME NEW h \in Handler, handler[h].client # w
          PROVE  handler'[h] = handler[h]
      BY <3>1, <3>3
    <3>4. QED  BY <3>2, <3>3 DEF NothingToWrite
  <2>3. QED  BY <2>1, <2>2 DEF WorkerAnswered, StartWorker
<1>8. \A s : Carried(s)' \subseteq Carried(s) /\ Committed(s) \subseteq Committed(s)'
  BY <1>2, <1>3, <1>4 DEF Carried, Committed
<1>9. Delivered'
  BY <1>1, <1>2, <1>7, <1>8, HandledFewer, DeliveredStays DEF OneConsumer, OnceInv
<1>10. QED  BY <1>5, <1>6, <1>9 DEF OnceInv

LEMMA RebalanceOnce ==
  ASSUME IInv, IInv', OnceInv, OneConsumer, Rebalance
  PROVE  OnceInv'
<1>1. TypeOK /\ TypeOK' /\ WorkersOK
  BY DEF IInv
<1>2. PICK w \in Worker : Worker = {w}
  BY DEF OneConsumer
<1>3. UNCHANGED <<agent, worker, handler, log, committed, evaluated>>
  BY DEF Rebalance
<1>4. Live = Worker /\ worker[w].pc # "down" /\ members' = Worker
  BY <1>2 DEF Rebalance, Live
<1>5. worker[w].pc = "read"
  BY <1>2, <1>4, PipelineAssumption DEF OnceInv, Assigned, Rebalance
<1>6. /\ \A p \in Partition : owner'[p] = w
      /\ \A p \in Partition : position'[p] = committed[p]
  BY <1>2, <1>4 DEF Rebalance, StartOffset
<1>7. Assigned'
  BY <1>2, <1>3, <1>4, <1>6 DEF Assigned
<1>8. Fetched'
  <2>1. \A p \in Partition : committed[p] \in Nat
    BY <1>1 DEF TypeOK
  <2>2. QED  BY <1>2, <1>3, <1>5, <1>6, <2>1 DEF Fetched
<1>9. Delivered'
  BY <1>3 DEF OnceInv, Delivered, Times, Handled, Carried, Committed
<1>10. QED  BY <1>7, <1>8, <1>9 DEF OnceInv

LEMMA OnceStep ==
  ASSUME IInv, IInv', OnceInv, OneConsumer, [Next]_vars
  PROVE  OnceInv'
<1>1. ASSUME NEW m \in Machine, Report(m) \/ AgentAnswered(m)
      PROVE  OnceInv'
  BY <1>1, AgentOnce
<1>2. ASSUME NEW h \in Handler, HandlerStep(h) \/ GiveUp(h)
      PROVE  OnceInv'
  BY <1>2, PublishOnce, WriteOnce, EvaluatedOnce, DisconnectOnce DEF HandlerStep
<1>3. ASSUME NEW w \in Worker, WorkerStep(w) \/ StartWorker(w) \/ CrashWorker(w)
      PROVE  OnceInv'
  BY <1>3, FetchOnce, CommitOnce, ForwardOnce, ReadOnOnce DEF WorkerStep
<1>4. CASE CrashServer \/ Rebalance
  BY <1>4, DisconnectOnce, RebalanceOnce
<1>5. CASE UNCHANGED vars
  <2>1. UNCHANGED <<worker, handler, log, committed, position, owner, members, evaluated>>
    BY <1>5 DEF vars, group
  <2>2. SameHands /\ LogKept /\ NothingToWrite
    BY <2>1 DEF SameHands, SameMessages, LogKept, NothingToWrite
  <2>3. QED  BY <2>1, <2>2, QuietOnce
<1>6. CASE Quiesce
  BY <1>5, <1>6 DEF Quiesce
<1>7. QED  BY <1>1, <1>2, <1>3, <1>4, <1>5, <1>6 DEF Next

LEMMA InitOnce ==
  ASSUME Init, OneConsumer
  PROVE  OnceInv
<1>1. TypeOK
  BY InitInv DEF IInv
<1>2. Assigned
  BY ReadingFields DEF Init, Assigned
<1>3. Fetched
  BY ReadingFields DEF Init, Fetched
<1>4. Delivered
  <2> SUFFICES ASSUME NEW s \in Sample
               PROVE  Cardinality(Times(s)) + Cardinality(Handled(s)) + Cardinality(Carried(s))
                        <= Cardinality(Committed(s))
    BY DEF Delivered
  <2>1. s[1] \in Machine
    BY SampleParts
  <2>2. Times(s) = {}
    BY <2>1 DEF Init, Times
  <2>3. Handled(s) = {} /\ Carried(s) = {}
    BY NoRequestFields, ReadingFields DEF Init, Handled, Carried
  <2>4. Cardinality(Committed(s)) \in Nat
    BY <1>1, FiniteDeliveries DEF OneConsumer
  <2>5. Cardinality({}) = 0
    BY FS_EmptySet
  <2>6. QED  BY <2>2, <2>3, <2>4, <2>5
<1>5. QED  BY <1>2, <1>3, <1>4 DEF OnceInv

LEMMA OnceCovers ==
  ASSUME TypeOK, OneConsumer, Delivered
  PROVE  EvaluatedAtMostOnce
<1> SUFFICES ASSUME NEW s \in Sample
             PROVE  Cardinality(Times(s)) <= Cardinality(Committed(s))
  BY DEF EvaluatedAtMostOnce, Times
<1>1. /\ Cardinality(Times(s)) \in Nat /\ Cardinality(Handled(s)) \in Nat
      /\ Cardinality(Carried(s)) \in Nat /\ Cardinality(Committed(s)) \in Nat
  BY FiniteDeliveries DEF OneConsumer
<1>2. QED  BY <1>1 DEF Delivered

(* In kafka mode one worker delivers no message of the topic to               *)
(* evaluateCPUAlert twice, whatever the number of partitions, agents and        *)
(* handlers: not when a publish is repeated, a commit fails, a forward times    *)
(* out and its handler goes on, or the server or the worker dies and starts     *)
(* again (worker/main.go:74-151, main.go:229-291).                              *)
THEOREM MessagesDeliveredOnce == OneConsumer => (Spec => []EvaluatedAtMostOnce)
<1> SUFFICES ASSUME OneConsumer PROVE Spec => []EvaluatedAtMostOnce
  OBVIOUS
<1>1. Init => IInv /\ OnceInv
  BY InitInv, InitOnce
<1>2. IInv /\ OnceInv /\ [Next]_vars => (IInv /\ OnceInv)'
  BY StepInv, OnceStep
<1>3. IInv /\ OnceInv => EvaluatedAtMostOnce
  BY OnceCovers DEF IInv, OnceInv
<1>4. QED  BY <1>1, <1>2, <1>3, PTL DEF Spec
=============================================================================
