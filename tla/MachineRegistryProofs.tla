------------------------ MODULE MachineRegistryProofs ------------------------
(* Proofs about MachineRegistry, for any number of machines, handlers,         *)
(* attempts, restarts and faults.                                              *)
(*                                                                             *)
(* RowIsCurrent is not inductive: it says nothing of the requests under way.   *)
(* An agent waits for one request at a time, so as long as none was left       *)
(* behind the only request about its machine is the one it waits for, with the *)
(* address it has: the row cannot change any more once that is answered.       *)
EXTENDS MachineRegistry, TLAPS

(* The requests that somebody waits for. *)
ClientsOK ==
  /\ \A h \in Handler : handler[h].client =>
       LET a == agent[handler[h].mach] IN
       a.pc = "wait" /\ a.reply = 0 /\ a.ip = handler[h].ip
  /\ \A h, k \in Handler :
       handler[h].client /\ handler[k].client /\ handler[h].mach = handler[k].mach => h = k

(* Nobody else handles a request of a machine that has left none behind. *)
AloneOK ==
  \A h \in Handler, m \in Machine : handler[h].mach = m /\ ~outlived[m] =>
    /\ handler[h].client
    /\ handler[h].pc = "read" => machines[m] = agent[m].ip

Current(m) == machines[m] # None /\ (~outlived[m] => machines[m] = agent[m].ip)
AgentsOK ==
  \A m \in Machine :
    /\ agent[m].reply # 0 => agent[m].pc = "wait"
    /\ agent[m].reply = 200 => Current(m)
    /\ agent[m].registered => agent[m].pc \in {"collect", "check"} /\ Current(m)

IInv == TypeOK /\ ClientsOK /\ AloneOK /\ AgentsOK

-----------------------------------------------------------------------------
(* Facts about the state. *)

LEMMA IsRequest ==
  ASSUME TypeOK, NEW h \in Handler, handler[h].pc # "idle" \/ handler[h].client \/ handler[h].mach \in Machine
  PROVE  /\ handler[h] \in Request /\ handler[h].mach \in Machine
         /\ handler[h].ip \in 0..MaxRestarts
<1>1. handler[h] \in Request
  <2>1. handler[h] \in Request \cup {NoRequest}
    BY DEF TypeOK
  <2>2. NoRequest.pc = "idle" /\ ~NoRequest.client /\ NoRequest.mach \notin Machine
    BY RegistryAssumption DEF NoRequest
  <2>3. QED  BY <2>1, <2>2
<1>2. QED  BY <1>1 DEF Request

LEMMA NoRequestFields ==
  NoRequest.pc = "idle" /\ ~NoRequest.client /\ NoRequest.mach \notin Machine
BY RegistryAssumption DEF NoRequest

Reply == {0, 200, 500, -1}
Statement == {"first", "create", "update", "read"}

LEMMA WithReply ==
  ASSUME NEW a \in Agent, NEW v \in Reply
  PROVE  LET r == [a EXCEPT !.reply = v] IN
         /\ r \in Agent /\ r.reply = v /\ r.pc = a.pc /\ r.ip = a.ip
         /\ r.registered = a.registered
BY DEF Agent, Reply

AgentPc == {"post", "wait", "collect", "check"}
Attempts == {1, FirstAttempts}
Attempt == 1..FirstAttempts
Address == 0..MaxRestarts

LEMMA AgentFields ==
  Agent = [pc : AgentPc, ip : Address, attempt : Attempt, max : Attempts,
           registered : BOOLEAN, started : BOOLEAN, due : BOOLEAN, sampled : BOOLEAN,
           reply : Reply]
BY DEF Agent, AgentPc, Address, Attempt, Attempts, Reply

(* One field at a time, as operators: the provers find these facts by name. *)
SetPc(a, pc) == [a EXCEPT !.pc = pc]
SetReply(a, v) == [a EXCEPT !.reply = v]
SetAttempt(a, n) == [a EXCEPT !.attempt = n]
SetMax(a, x) == [a EXCEPT !.max = x]

LEMMA SetPcFields ==
  ASSUME NEW a \in Agent, NEW pc \in AgentPc
  PROVE  /\ SetPc(a, pc) \in Agent /\ SetPc(a, pc).ip = a.ip
         /\ SetPc(a, pc).registered = a.registered
         /\ SetPc(a, pc).pc = pc /\ SetPc(a, pc).reply = a.reply
BY AgentFields DEF SetPc

LEMMA SetReplyFields ==
  ASSUME NEW a \in Agent, NEW v \in Reply
  PROVE  /\ SetReply(a, v) \in Agent /\ SetReply(a, v).ip = a.ip
         /\ SetReply(a, v).registered = a.registered
         /\ SetReply(a, v).pc = a.pc /\ SetReply(a, v).reply = v
BY AgentFields DEF SetReply

LEMMA SetAttemptFields ==
  ASSUME NEW a \in Agent, NEW n \in Attempt
  PROVE  /\ SetAttempt(a, n) \in Agent /\ SetAttempt(a, n).ip = a.ip
         /\ SetAttempt(a, n).registered = a.registered
         /\ SetAttempt(a, n).pc = a.pc /\ SetAttempt(a, n).reply = a.reply
BY AgentFields DEF SetAttempt

LEMMA SetMaxFields ==
  ASSUME NEW a \in Agent, NEW x \in Attempts
  PROVE  /\ SetMax(a, x) \in Agent /\ SetMax(a, x).ip = a.ip
         /\ SetMax(a, x).registered = a.registered
         /\ SetMax(a, x).pc = a.pc /\ SetMax(a, x).reply = a.reply
BY AgentFields DEF SetMax

LEMMA WithDue ==
  ASSUME NEW a \in Agent, NEW b \in BOOLEAN
  PROVE  LET r == [a EXCEPT !.due = b] IN
         /\ r \in Agent /\ r.reply = a.reply /\ r.pc = a.pc /\ r.ip = a.ip
         /\ r.registered = a.registered
BY AgentFields

LEMMA WithStarted ==
  ASSUME NEW a \in Agent
  PROVE  LET r == [SetPc(a, "check") EXCEPT !.started = TRUE] IN
         /\ r \in Agent /\ r.reply = a.reply /\ r.pc = "check" /\ r.ip = a.ip
         /\ r.registered = a.registered
<1>1. PICK q \in Agent : /\ q = SetPc(a, "check") /\ q.pc = "check" /\ q.reply = a.reply
                          /\ q.ip = a.ip /\ q.registered = a.registered
  BY SetPcFields DEF AgentPc
<1>2. QED  BY <1>1, AgentFields

(* A step that gives the agent of m another record. *)
LEMMA SetsFields ==
  ASSUME IInv, NEW m \in Machine, NEW v,
         agent' = [agent EXCEPT ![m].pc = "wait", ![m].reply = v]
  PROVE  agent' = [agent EXCEPT ![m] = SetReply(SetPc(agent[m], "wait"), v)]
<1>1. agent \in [Machine -> Agent]
  BY DEF IInv, TypeOK
<1>2. PICK g : g = [agent EXCEPT ![m].pc = "wait"]
  OBVIOUS
<1>3. g = [agent EXCEPT ![m] = SetPc(agent[m], "wait")] /\ g[m] = SetPc(agent[m], "wait")
  BY <1>1, <1>2 DEF SetPc
<1>4. agent' = [g EXCEPT ![m] = SetReply(g[m], v)]
  BY <1>2 DEF SetReply
<1>5. QED  BY <1>1, <1>3, <1>4

LEMMA SetsStarted ==
  ASSUME IInv, NEW m \in Machine, Collect(m)
  PROVE  agent' = [agent EXCEPT ![m] = [SetPc(agent[m], "check") EXCEPT !.started = TRUE]]
<1>1. agent \in [Machine -> Agent]
  BY DEF IInv, TypeOK
<1>2. PICK g : g = [agent EXCEPT ![m].pc = "check"]
  OBVIOUS
<1>3. g = [agent EXCEPT ![m] = SetPc(agent[m], "check")] /\ g[m] = SetPc(agent[m], "check")
  BY <1>1, <1>2 DEF SetPc
<1>4. agent' = [g EXCEPT ![m].started = TRUE]
  BY <1>2 DEF Collect
<1>5. agent' = [g EXCEPT ![m] = [g[m] EXCEPT !.started = TRUE]]
  BY <1>4
<1>6. QED  BY <1>1, <1>3, <1>5

LEMMA AgentPcs ==
  /\ "post" \in AgentPc /\ "wait" \in AgentPc /\ "collect" \in AgentPc /\ "check" \in AgentPc
  /\ 1 \in Attempts /\ 1 \in Attempt /\ TRUE \in BOOLEAN
  /\ 0 \in Reply /\ -1 \in Reply
BY RegistryAssumption DEF AgentPc, Attempts, Attempt, Reply

LEMMA WithPc ==
  ASSUME NEW q \in Request, NEW pc \in Statement
  PROVE  LET r == [q EXCEPT !.pc = pc] IN
         r \in Request /\ r.pc = pc /\ r.mach = q.mach /\ r.ip = q.ip /\ r.client = q.client
BY DEF Request, Statement

LEMMA LeftAlone ==
  ASSUME NEW q \in Request
  PROVE  LET r == [q EXCEPT !.client = FALSE] IN
         r \in Request /\ r.pc = q.pc /\ r.mach = q.mach /\ r.ip = q.ip /\ ~r.client
BY DEF Request

(* What a statement does to the table: it writes the row of its machine, and   *)
(* deletes none. *)
Writes(h) ==
  LET m == handler[h].mach IN
  /\ machines' \in [Machine -> 0..MaxRestarts \cup {None}]
  /\ \A n \in Machine : n # m => machines'[n] = machines[n]
  /\ machines[m] # None => machines'[m] # None

LEMMA RowsStay ==
  ASSUME NEW h \in Handler, Writes(h), NEW n \in Machine, machines[n] # None
  PROVE  machines'[n] # None
BY DEF Writes

(* A machine with a request under way and none left behind is not registered. *)
LEMMA WaitsFor ==
  ASSUME IInv, NEW h \in Handler, NEW m \in Machine, handler[h].mach = m, ~outlived[m]
  PROVE  /\ handler[h].client /\ agent[m].pc = "wait" /\ agent[m].reply = 0
         /\ agent[m].ip = handler[h].ip /\ ~agent[m].registered
         /\ \A k \in Handler : handler[k].mach = m => k = h
<1>1. handler[h].client
  BY DEF IInv, AloneOK
<1>2. agent[m].pc = "wait" /\ agent[m].reply = 0 /\ agent[m].ip = handler[h].ip
  BY <1>1 DEF IInv, ClientsOK
<1>3. ~agent[m].registered
  BY <1>2 DEF IInv, AgentsOK
<1>4. ASSUME NEW k \in Handler, handler[k].mach = m PROVE k = h
  <2>1. handler[k].client
    BY <1>4 DEF IInv, AloneOK
  <2>2. QED  BY <1>1, <1>4, <2>1 DEF IInv, ClientsOK
<1>5. QED  BY <1>1, <1>2, <1>3, <1>4

-----------------------------------------------------------------------------
(* The handler. *)

LEMMA AnswerInv ==
  ASSUME IInv, NEW h \in Handler, handler[h].pc # "idle", NEW status \in {200, 500},
         AnswerWith(h, status), Writes(h), outlived' = outlived, faults' \in 0..MaxFaults,
         status = 200 =>
           /\ machines'[handler[h].mach] # None
           /\ ~outlived[handler[h].mach] => machines'[handler[h].mach] = handler[h].ip
  PROVE  IInv'
<1>1. PICK m \in Machine : m = handler[h].mach
  BY IsRequest DEF IInv
<1>2. /\ handler' = [handler EXCEPT ![h] = NoRequest]
      /\ answers' = answers \cup {status}
      /\ handler[h].client => agent' = [agent EXCEPT ![m].reply = status]
      /\ ~handler[h].client => agent' = agent
  BY <1>1 DEF AnswerWith
<1>3. /\ handler' \in [Handler -> Request \cup {NoRequest}]
      /\ handler'[h] = NoRequest
      /\ \A k \in Handler : k # h => handler'[k] = handler[k]
  BY <1>2 DEF IInv, TypeOK
<1>4. \A k \in Handler : handler'[k].client \/ handler'[k].mach \in Machine =>
        k # h /\ handler'[k] = handler[k]
  BY <1>3, NoRequestFields
<1>5. /\ agent' \in [Machine -> Agent]
      /\ \A n \in Machine : /\ n # m \/ ~handler[h].client => agent'[n] = agent[n]
                            /\ n = m /\ handler[h].client => agent'[n].reply = status
                            /\ agent'[n].pc = agent[n].pc /\ agent'[n].ip = agent[n].ip
                            /\ agent'[n].registered = agent[n].registered
  <2>1. CASE handler[h].client
    <3>1. agent[m] \in Agent /\ status \in Reply
      BY DEF IInv, TypeOK, Reply
    <3> DEFINE r == [agent[m] EXCEPT !.reply = status]
    <3>2. /\ r \in Agent /\ r.reply = status /\ r.pc = agent[m].pc /\ r.ip = agent[m].ip
          /\ r.registered = agent[m].registered
      BY <3>1, WithReply
    <3>3. agent' = [agent EXCEPT ![m] = r]
      BY <1>2, <2>1 DEF IInv, TypeOK
    <3> HIDE DEF r
    <3>4. agent' \in [Machine -> Agent] /\ agent'[m] = r
          /\ \A n \in Machine : n # m => agent'[n] = agent[n]
      BY <3>2, <3>3 DEF IInv, TypeOK
    <3>5. QED  BY <2>1, <3>2, <3>4
  <2>2. CASE ~handler[h].client
    BY <1>2, <2>2 DEF IInv, TypeOK
  <2>3. QED  BY <2>1, <2>2
<1>6. TypeOK'
  <2>1. \A k \in Handler : handler'[k].pc \in {"update", "read"} => machines'[handler'[k].mach] # None
    <3> SUFFICES ASSUME NEW k \in Handler, handler'[k].pc \in {"update", "read"}
                 PROVE  machines'[handler'[k].mach] # None
      OBVIOUS
    <3>1. k # h /\ handler'[k] = handler[k]
      BY <1>3, NoRequestFields
    <3>2. machines[handler[k].mach] # None /\ handler[k].mach \in Machine
      BY <3>1, IsRequest DEF IInv, TypeOK
    <3>3. QED  BY <3>1, <3>2, RowsStay
  <2>2. machines' \in [Machine -> 0..MaxRestarts \cup {None}]
    BY DEF Writes
  <2>3. answers' \subseteq {200, 500}
    BY <1>2 DEF IInv, TypeOK
  <2>4. QED  BY <1>3, <1>5, <2>1, <2>2, <2>3 DEF IInv, TypeOK
<1>7. ClientsOK'
  <2>1. ASSUME NEW k \in Handler, handler'[k].client
        PROVE  /\ k # h /\ handler'[k] = handler[k] /\ handler[k].client
               /\ agent'[handler[k].mach] = agent[handler[k].mach]
    <3>1. k # h /\ handler'[k] = handler[k] /\ handler[k].client
      BY <1>4, <2>1
    <3>2. handler[k].mach \in Machine
      BY <3>1, IsRequest DEF IInv
    <3>3. handler[h].client => handler[k].mach # m
      BY <1>1, <3>1 DEF IInv, ClientsOK
    <3>4. QED  BY <1>5, <3>1, <3>2, <3>3
  <2>2. \A k \in Handler : handler'[k].client =>
          /\ agent'[handler'[k].mach].pc = "wait" /\ agent'[handler'[k].mach].reply = 0
          /\ agent'[handler'[k].mach].ip = handler'[k].ip
    BY <2>1 DEF IInv, ClientsOK
  <2>3. \A k, j \in Handler :
          handler'[k].client /\ handler'[j].client /\ handler'[k].mach = handler'[j].mach => k = j
    BY <2>1 DEF IInv, ClientsOK
  <2>4. QED  BY <2>2, <2>3 DEF ClientsOK
<1>8. AloneOK'
  <2> SUFFICES ASSUME NEW k \in Handler, NEW n \in Machine, handler'[k].mach = n, ~outlived[n]
               PROVE  /\ handler'[k].client
                      /\ handler'[k].pc = "read" => machines'[n] = agent'[n].ip
    BY DEF AloneOK
  <2>1. k # h /\ handler'[k] = handler[k]
    BY <1>4
  <2>2. n # m
    BY <1>1, <2>1, WaitsFor
  <2>3. machines'[n] = machines[n] /\ agent'[n].ip = agent[n].ip
    BY <1>1, <1>5, <2>2 DEF Writes
  <2>4. QED  BY <2>1, <2>3 DEF IInv, AloneOK
<1>9. AgentsOK'
  <2> SUFFICES ASSUME NEW n \in Machine
               PROVE  /\ agent'[n].reply # 0 => agent'[n].pc = "wait"
                      /\ agent'[n].reply = 200 => Current(n)'
                      /\ agent'[n].registered => agent'[n].pc \in {"collect", "check"} /\ Current(n)'
    BY DEF AgentsOK
  <2>1. CASE n # m
    <3>1. agent'[n] = agent[n] /\ machines'[n] = machines[n]
      BY <1>1, <1>5, <2>1 DEF Writes
    <3>2. Current(n) => Current(n)'
      BY <3>1 DEF Current
    <3>3. QED  BY <3>1, <3>2 DEF IInv, AgentsOK
  <2>2. CASE n = m /\ outlived[m]
    <3>1. machines[m] # None => Current(m)'
      BY <2>2, RowsStay DEF Current
    <3>2. status = 200 => Current(m)'
      BY <1>1, <2>2 DEF Current
    <3>3. handler[h].client => agent[m].pc = "wait"
      BY <1>1 DEF IInv, ClientsOK
    <3>4. /\ agent[m].reply # 0 => agent[m].pc = "wait"
          /\ agent[m].reply = 200 \/ agent[m].registered => machines[m] # None
          /\ agent[m].registered => agent[m].pc \in {"collect", "check"}
      BY DEF IInv, AgentsOK, Current
    <3>5. CASE handler[h].client
      BY <1>5, <2>2, <3>1, <3>2, <3>3, <3>4, <3>5
    <3>6. CASE ~handler[h].client
      BY <1>5, <2>2, <3>1, <3>4, <3>6
    <3>7. QED  BY <3>5, <3>6
  <2>3. CASE n = m /\ ~outlived[m]
    <3>1. handler[h].client /\ agent[m].pc = "wait" /\ agent[m].ip = handler[h].ip
          /\ ~agent[m].registered
      BY <1>1, <2>3, WaitsFor
    <3>2. agent'[m].pc = "wait" /\ agent'[m].ip = handler[h].ip /\ ~agent'[m].registered
          /\ agent'[m].reply = status
      BY <1>5, <3>1
    <3>3. status = 200 => Current(m)'
      BY <1>1, <2>3, <3>2 DEF Current
    <3>4. QED  BY <2>3, <3>2, <3>3
  <2>4. QED  BY <2>1, <2>2, <2>3
<1>10. QED  BY <1>6, <1>7, <1>8, <1>9 DEF IInv

(* The handler goes on to the next statement. *)
LEMMA ContinueInv ==
  ASSUME IInv, NEW h \in Handler, handler[h].pc # "idle", NEW pc \in {"create", "update", "read"},
         handler' = [handler EXCEPT ![h].pc = pc], UNCHANGED <<agent, answers, faults, outlived>>,
         Writes(h),
         pc \in {"update", "read"} => machines'[handler[h].mach] # None,
         pc = "read" => machines'[handler[h].mach] = handler[h].ip
  PROVE  IInv'
<1>1. PICK m \in Machine : m = handler[h].mach
  BY IsRequest DEF IInv
<1>2. handler[h] \in Request /\ pc \in Statement
  BY IsRequest DEF IInv, Statement
<1> DEFINE q == [handler[h] EXCEPT !.pc = pc]
<1>3. /\ q \in Request /\ q.pc = pc /\ q.mach = m /\ q.ip = handler[h].ip
      /\ q.client = handler[h].client
  BY <1>1, <1>2, WithPc
<1>4. handler' = [handler EXCEPT ![h] = q]
  BY DEF IInv, TypeOK
<1> HIDE DEF q
<1>5. /\ handler' \in [Handler -> Request \cup {NoRequest}]
      /\ \A k \in Handler : k # h => handler'[k] = handler[k]
      /\ handler'[h].pc = pc
      /\ \A k \in Handler : /\ handler'[k].mach = handler[k].mach /\ handler'[k].ip = handler[k].ip
                            /\ handler'[k].client = handler[k].client
  BY <1>1, <1>3, <1>4 DEF IInv, TypeOK
<1>6. TypeOK'
  <2>1. \A k \in Handler : handler'[k].pc \in {"update", "read"} => machines'[handler'[k].mach] # None
    <3> SUFFICES ASSUME NEW k \in Handler, handler'[k].pc \in {"update", "read"}
                 PROVE  machines'[handler'[k].mach] # None
      OBVIOUS
    <3>1. CASE k = h
      BY <1>5, <3>1
    <3>2. CASE k # h
      <4>1. handler'[k] = handler[k] /\ handler[k].mach \in Machine
        BY <1>5, <3>2, IsRequest DEF IInv
      <4>2. machines[handler[k].mach] # None
        BY <4>1 DEF IInv, TypeOK
      <4>3. QED  BY <4>1, <4>2, RowsStay
    <3>3. QED  BY <3>1, <3>2
  <2>2. machines' \in [Machine -> 0..MaxRestarts \cup {None}]
    BY DEF Writes
  <2>3. QED  BY <1>5, <2>1, <2>2 DEF IInv, TypeOK
<1>7. ClientsOK'
  BY <1>5 DEF IInv, ClientsOK
<1>8. AloneOK'
  <2> SUFFICES ASSUME NEW k \in Handler, NEW n \in Machine, handler[k].mach = n, ~outlived[n]
               PROVE  /\ handler[k].client
                      /\ handler'[k].pc = "read" => machines'[n] = agent[n].ip
    BY <1>5 DEF AloneOK
  <2>1. handler[k].client /\ agent[n].ip = handler[k].ip
    BY WaitsFor
  <2>2. CASE k = h
    BY <1>1, <1>5, <2>1, <2>2
  <2>3. CASE k # h
    <3>1. handler'[k] = handler[k] /\ n # m
      BY <1>1, <1>5, <2>3, WaitsFor
    <3>2. machines'[n] = machines[n]
      BY <1>1, <3>1 DEF Writes
    <3>3. QED  BY <2>1, <3>1, <3>2 DEF IInv, AloneOK
  <2>4. QED  BY <2>2, <2>3
<1>9. AgentsOK'
  <2> SUFFICES ASSUME NEW n \in Machine, agent[n].reply = 200 \/ agent[n].registered
               PROVE  Current(n)'
    BY DEF IInv, AgentsOK
  <2>1. Current(n)
    BY DEF IInv, AgentsOK
  <2>2. CASE n # m
    BY <1>1, <2>1, <2>2 DEF Writes, Current
  <2>3. CASE n = m
    <3>1. outlived[m]
      <4>1. ASSUME ~outlived[m] PROVE agent[m].reply = 0 /\ ~agent[m].registered
        BY <1>1, <4>1, WaitsFor
      <4>2. QED  BY <2>3, <4>1
    <3>2. QED  BY <2>1, <2>3, <3>1, RowsStay DEF Current
  <2>4. QED  BY <2>2, <2>3
<1>10. QED  BY <1>6, <1>7, <1>8, <1>9 DEF IInv

LEMMA NoWrite ==
  ASSUME IInv, NEW h \in Handler, machines' = machines
  PROVE  Writes(h)
BY DEF IInv, TypeOK, Writes

LEMMA InsertedWrites ==
  ASSUME IInv, NEW h \in Handler, handler[h].pc # "idle",
         Inserted(handler[h].mach, handler[h].ip)
  PROVE  /\ Writes(h) /\ machines'[handler[h].mach] # None
         /\ machines[handler[h].mach] = None => machines'[handler[h].mach] = handler[h].ip
<1>1. handler[h].mach \in Machine /\ handler[h].ip \in 0..MaxRestarts /\ handler[h].ip # None
  BY IsRequest, RegistryAssumption DEF IInv
<1>2. QED  BY <1>1 DEF IInv, TypeOK, Writes, Inserted

LEMMA UpdatedWrites ==
  ASSUME IInv, NEW h \in Handler, handler[h].pc # "idle", Updated(handler[h].mach, handler[h].ip)
  PROVE  Writes(h) /\ machines'[handler[h].mach] = handler[h].ip /\ handler[h].ip # None
<1>1. handler[h].mach \in Machine /\ handler[h].ip \in 0..MaxRestarts /\ handler[h].ip # None
  BY IsRequest, RegistryAssumption DEF IInv
<1>2. QED  BY <1>1 DEF IInv, TypeOK, Writes, Updated

LEMMA FaultsTyped ==
  ASSUME TypeOK
  PROVE  /\ faults \in 0..MaxFaults
         /\ \A kind : Fault(kind) => faults' \in 0..MaxFaults
BY RegistryAssumption DEF TypeOK, Fault

LEMMA HandlerStepInv ==
  ASSUME IInv, NEW h \in Handler, HandlerStep(h)
  PROVE  IInv'
<1>1. handler[h].pc # "idle" /\ outlived' = outlived
  BY DEF HandlerStep, FirstMachine, CreateMachine, UpdateMachine, ReadMachine
<1>2. TypeOK
  BY DEF IInv
<1>3. ASSUME MySQLFailed(h), Writes(h)
      PROVE  IInv'
  <2>1. AnswerWith(h, 500) /\ faults' \in 0..MaxFaults
    BY <1>2, <1>3, FaultsTyped DEF MySQLFailed
  <2>2. 500 \in {200, 500} /\ 500 # 200
    OBVIOUS
  <2>3. QED  BY <1>1, <1>3, <2>1, <2>2, AnswerInv
<1>4. ASSUME NEW status \in {200, 500}, Answer(h, status), Writes(h),
             status = 200 =>
               /\ machines'[handler[h].mach] # None
               /\ ~outlived[handler[h].mach] => machines'[handler[h].mach] = handler[h].ip
      PROVE  IInv'
  <2>1. AnswerWith(h, status) /\ faults' \in 0..MaxFaults
    BY <1>2, <1>4, FaultsTyped DEF Answer
  <2>2. QED  BY <1>1, <1>4, <2>1, AnswerInv
<1>5. CASE FirstMachine(h)
  <2>1. Writes(h)
    BY <1>5, NoWrite DEF FirstMachine
  <2>2. CASE Continue(h, NextStatement(machines[handler[h].mach]))
    <3>1. PICK pc \in {"create", "update", "read"} :
            /\ pc = NextStatement(machines[handler[h].mach]) /\ pc # "read"
            /\ pc = "update" => machines[handler[h].mach] # None
      BY DEF NextStatement
    <3>2. handler' = [handler EXCEPT ![h].pc = pc] /\ UNCHANGED <<agent, answers, faults, outlived>>
          /\ machines' = machines
      BY <1>5, <2>2, <3>1 DEF Continue, FirstMachine
    <3>3. QED  BY <1>1, <2>1, <3>1, <3>2, ContinueInv
  <2>3. QED  BY <1>3, <1>5, <2>1, <2>2 DEF FirstMachine
<1>6. CASE CreateMachine(h)
  <2>1. CASE /\ Inserted(handler[h].mach, handler[h].ip)
             /\ Answer(h, IF machines[handler[h].mach] = None THEN 200 ELSE 500)
    <3>1. PICK status \in {200, 500} :
            /\ status = IF machines[handler[h].mach] = None THEN 200 ELSE 500
            /\ status = 200 => machines[handler[h].mach] = None
      OBVIOUS
    <3>2. Answer(h, status)
      BY <2>1, <3>1
    <3>3. QED  BY <1>1, <1>4, <2>1, <3>1, <3>2, InsertedWrites
  <2>2. CASE /\ Inserted(handler[h].mach, handler[h].ip) \/ UNCHANGED machines
             /\ MySQLFailed(h)
    BY <1>1, <1>3, <2>2, InsertedWrites, NoWrite
  <2>3. QED  BY <1>6, <2>1, <2>2 DEF CreateMachine
<1>7. CASE UpdateMachine(h)
  <2>1. CASE Updated(handler[h].mach, handler[h].ip) /\ Continue(h, "read")
    <3>1. handler' = [handler EXCEPT ![h].pc = "read"]
          /\ UNCHANGED <<agent, answers, faults, outlived>>
      BY <1>1, <2>1 DEF Continue
    <3>2. Writes(h) /\ machines'[handler[h].mach] = handler[h].ip /\ handler[h].ip # None
      BY <1>1, <2>1, UpdatedWrites
    <3>3. machines'[handler[h].mach] # None
      BY <3>2
    <3>4. QED  BY <1>1, <3>1, <3>2, <3>3, ContinueInv
  <2>2. CASE /\ Updated(handler[h].mach, handler[h].ip) \/ UNCHANGED machines
             /\ MySQLFailed(h)
    BY <1>1, <1>3, <2>2, UpdatedWrites, NoWrite
  <2>3. QED  BY <1>7, <2>1, <2>2 DEF UpdateMachine
<1>8. CASE ReadMachine(h)
  <2>1. Writes(h) /\ machines' = machines
    BY <1>8, NoWrite DEF ReadMachine
  <2>2. CASE Answer(h, 200)
    <3>1. handler[h].mach \in Machine /\ machines[handler[h].mach] # None
      BY <1>1, <1>2, <1>8, IsRequest DEF ReadMachine, TypeOK
    <3>2. ~outlived[handler[h].mach] => machines[handler[h].mach] = handler[h].ip
      <4>1. ASSUME ~outlived[handler[h].mach]
            PROVE  machines[handler[h].mach] = handler[h].ip
        <5>1. agent[handler[h].mach].ip = handler[h].ip
          BY <3>1, <4>1, WaitsFor
        <5>2. machines[handler[h].mach] = agent[handler[h].mach].ip
          BY <1>8, <3>1, <4>1 DEF IInv, AloneOK, ReadMachine
        <5>3. QED  BY <5>1, <5>2
      <4>2. QED  BY <4>1
    <3>3. QED  BY <1>4, <2>1, <2>2, <3>1, <3>2
  <2>3. QED  BY <1>3, <1>8, <2>1, <2>2 DEF ReadMachine
<1>9. QED  BY <1>5, <1>6, <1>7, <1>8 DEF HandlerStep

-----------------------------------------------------------------------------
(* The agent. *)

(* A client that gives up, or restarts, leaves its request behind. *)
LEMMA TimeOutInv ==
  ASSUME IInv, NEW h \in Handler, TimeOut(h)
  PROVE  IInv'
<1>1. /\ handler[h].client /\ faults' \in 0..MaxFaults
      /\ handler' = [handler EXCEPT ![h].client = FALSE]
      /\ agent' = [agent EXCEPT ![handler[h].mach].reply = -1]
      /\ outlived' = [outlived EXCEPT ![handler[h].mach] = TRUE]
      /\ UNCHANGED <<machines, answers>>
  BY FaultsTyped DEF TimeOut, IInv
<1>2. PICK m \in Machine : m = handler[h].mach
  BY <1>1, IsRequest DEF IInv
<1>3. /\ outlived' \in [Machine -> BOOLEAN] /\ outlived'[m]
      /\ \A n \in Machine : n # m => outlived'[n] = outlived[n]
  BY <1>1, <1>2 DEF IInv, TypeOK
<1>4. /\ handler' \in [Handler -> Request \cup {NoRequest}]
      /\ \A k \in Handler : k # h => handler'[k] = handler[k]
      /\ ~handler'[h].client /\ handler'[h].mach = m /\ handler'[h].pc = handler[h].pc
  <2>1. handler[h] \in Request
    BY <1>1, IsRequest DEF IInv
  <2> DEFINE q == [handler[h] EXCEPT !.client = FALSE]
  <2>2. q \in Request /\ q.pc = handler[h].pc /\ q.mach = m /\ ~q.client
    BY <1>2, <2>1, LeftAlone
  <2>3. handler' = [handler EXCEPT ![h] = q]
    BY <1>1 DEF IInv, TypeOK
  <2> HIDE DEF q
  <2>4. QED  BY <2>2, <2>3 DEF IInv, TypeOK
<1>5. /\ agent' \in [Machine -> Agent] /\ agent'[m].reply = -1
      /\ agent'[m].pc = agent[m].pc /\ agent'[m].registered = agent[m].registered
      /\ \A n \in Machine : n # m => agent'[n] = agent[n]
  <2>1. agent[m] \in Agent /\ -1 \in Reply
    BY DEF IInv, TypeOK, Reply
  <2> DEFINE r == [agent[m] EXCEPT !.reply = -1]
  <2>2. r \in Agent /\ r.reply = -1 /\ r.pc = agent[m].pc /\ r.registered = agent[m].registered
    BY <2>1, WithReply
  <2>3. agent' = [agent EXCEPT ![m] = r]
    BY <1>1, <1>2 DEF IInv, TypeOK
  <2> HIDE DEF r
  <2>4. QED  BY <2>2, <2>3 DEF IInv, TypeOK
<1>6. agent[m].pc = "wait" /\ ~agent[m].registered
      /\ \A k \in Handler : handler[k].client /\ handler[k].mach = m => k = h
  BY <1>1, <1>2 DEF IInv, ClientsOK, AgentsOK
<1>7. TypeOK'
  <2>1. \A k \in Handler : handler'[k].pc \in {"update", "read"} => machines[handler'[k].mach] # None
    BY <1>2, <1>4 DEF IInv, TypeOK
  <2>2. QED  BY <1>1, <1>3, <1>4, <1>5, <2>1 DEF IInv, TypeOK
<1>8. ClientsOK'
  <2>1. ASSUME NEW k \in Handler, handler'[k].client
        PROVE  /\ handler'[k] = handler[k] /\ handler[k].client
               /\ agent'[handler[k].mach] = agent[handler[k].mach]
    <3>1. k # h /\ handler'[k] = handler[k] /\ handler[k].client
      BY <1>4, <2>1
    <3>2. handler[k].mach \in Machine /\ handler[k].mach # m
      BY <1>6, <3>1, IsRequest DEF IInv
    <3>3. QED  BY <1>5, <3>1, <3>2
  <2>2. \A k \in Handler : handler'[k].client =>
          /\ agent'[handler'[k].mach].pc = "wait" /\ agent'[handler'[k].mach].reply = 0
          /\ agent'[handler'[k].mach].ip = handler'[k].ip
    BY <2>1 DEF IInv, ClientsOK
  <2>3. \A k, j \in Handler :
          handler'[k].client /\ handler'[j].client /\ handler'[k].mach = handler'[j].mach => k = j
    BY <2>1 DEF IInv, ClientsOK
  <2>4. QED  BY <2>2, <2>3 DEF ClientsOK
<1>9. AloneOK'
  <2> SUFFICES ASSUME NEW k \in Handler, NEW n \in Machine, handler'[k].mach = n, ~outlived'[n]
               PROVE  /\ handler'[k].client
                      /\ handler'[k].pc = "read" => machines[n] = agent'[n].ip
    BY <1>1 DEF AloneOK
  <2>1. n # m /\ ~outlived[n]
    BY <1>3
  <2>2. k # h /\ handler'[k] = handler[k] /\ agent'[n] = agent[n]
    BY <1>4, <1>5, <2>1
  <2>3. QED  BY <2>1, <2>2 DEF IInv, AloneOK
<1>10. AgentsOK'
  <2> SUFFICES ASSUME NEW n \in Machine
               PROVE  /\ agent'[n].reply # 0 => agent'[n].pc = "wait"
                      /\ agent'[n].reply = 200 => Current(n)'
                      /\ agent'[n].registered => agent'[n].pc \in {"collect", "check"} /\ Current(n)'
    BY DEF AgentsOK
  <2>1. CASE n = m
    <3>1. agent'[n].pc = "wait" /\ agent'[n].reply # 200 /\ ~agent'[n].registered
      BY <1>5, <1>6, <2>1
    <3>2. QED  BY <3>1
  <2>2. CASE n # m
    <3>1. agent'[n] = agent[n] /\ outlived'[n] = outlived[n] /\ machines' = machines
      BY <1>1, <1>3, <1>5, <2>2
    <3>2. Current(n) => Current(n)'
      BY <3>1 DEF Current
    <3>3. QED  BY <3>1, <3>2 DEF IInv, AgentsOK
  <2>3. QED  BY <2>1, <2>2
<1>11. QED  BY <1>7, <1>8, <1>9, <1>10 DEF IInv

LEMMA RestartAgentInv ==
  ASSUME IInv, NEW m \in Machine, RestartAgent(m)
  PROVE  IInv'
<1>1. /\ handler' = [h \in Handler |-> IF handler[h].mach = m
                                       THEN [handler[h] EXCEPT !.client = FALSE]
                                       ELSE handler[h]]
      /\ outlived' = [outlived EXCEPT ![m] = @ \/ \E h \in Handler : handler[h].mach = m]
      /\ UNCHANGED <<machines, answers, faults>>
      /\ agent[m].ip < MaxRestarts
  BY DEF RestartAgent
<1>2. PICK sampled \in BOOLEAN : agent' = [agent EXCEPT ![m] = Started(agent[m].ip + 1, sampled)]
  BY DEF RestartAgent
<1> DEFINE r == Started(agent[m].ip + 1, sampled)
<1>3. r \in Agent /\ r.pc = "post" /\ r.reply = 0 /\ ~r.registered
  <2>1. agent[m].ip \in 0..MaxRestarts
    BY DEF IInv, TypeOK, Agent
  <2>2. PICK n \in 0..MaxRestarts : n = agent[m].ip + 1
    BY <1>1, <2>1, RegistryAssumption
  <2>3. Started(n, sampled) \in Agent /\ Started(n, sampled).pc = "post"
        /\ Started(n, sampled).reply = 0 /\ ~Started(n, sampled).registered
    BY RegistryAssumption DEF Started, Agent
  <2>4. QED  BY <2>2, <2>3
<1> HIDE DEF r
<1>4. /\ agent' \in [Machine -> Agent] /\ agent'[m] = r
      /\ \A n \in Machine : n # m => agent'[n] = agent[n]
  BY <1>2, <1>3 DEF IInv, TypeOK, r
<1>5. /\ outlived' \in [Machine -> BOOLEAN]
      /\ \A n \in Machine : n # m => outlived'[n] = outlived[n]
      /\ \A h \in Handler : handler[h].mach = m => outlived'[m]
      /\ outlived[m] => outlived'[m]
  <2> DEFINE behind == outlived[m] \/ \E h \in Handler : handler[h].mach = m
  <2>1. /\ behind \in BOOLEAN
        /\ \A h \in Handler : handler[h].mach = m => behind
        /\ outlived[m] => behind
    OBVIOUS
  <2>2. outlived' = [outlived EXCEPT ![m] = behind] /\ outlived \in [Machine -> BOOLEAN]
    BY <1>1, Zenon DEF IInv, TypeOK
  <2> HIDE DEF behind
  <2>3. /\ outlived' \in [Machine -> BOOLEAN] /\ (outlived'[m] <=> behind)
        /\ \A n \in Machine : n # m => outlived'[n] = outlived[n]
    BY <2>1, <2>2
  <2>4. QED  BY <2>1, <2>3
<1>6. ASSUME NEW h \in Handler
      PROVE  /\ handler'[h] \in Request \cup {NoRequest}
             /\ handler[h].mach # m => handler'[h] = handler[h]
             /\ handler[h].mach = m => ~handler'[h].client
             /\ handler'[h].pc = handler[h].pc /\ handler'[h].mach = handler[h].mach
  <2>1. CASE handler[h].mach = m
    <3>1. handler[h] \in Request
      BY <2>1, IsRequest DEF IInv
    <3>2. handler'[h] = [handler[h] EXCEPT !.client = FALSE]
      BY <1>1, <2>1
    <3>3. QED  BY <2>1, <3>1, <3>2, LeftAlone
  <2>2. CASE handler[h].mach # m
    <3>1. handler'[h] = handler[h] /\ handler[h] \in Request \cup {NoRequest}
      BY <1>1, <2>2 DEF IInv, TypeOK
    <3>2. QED  BY <2>2, <3>1
  <2>3. QED  BY <2>1, <2>2
<1>7. TypeOK'
  <2>1. handler' \in [Handler -> Request \cup {NoRequest}]
    <3>1. handler' = [h \in Handler |-> handler'[h]]
      BY <1>1
    <3>2. QED  BY <1>6, <3>1
  <2>2. \A k \in Handler : handler'[k].pc \in {"update", "read"} => machines[handler'[k].mach] # None
    BY <1>6 DEF IInv, TypeOK
  <2>3. QED  BY <1>1, <1>4, <1>5, <2>1, <2>2 DEF IInv, TypeOK
<1>8. ClientsOK'
  <2>1. ASSUME NEW k \in Handler, handler'[k].client
        PROVE  /\ handler'[k] = handler[k] /\ handler[k].client
               /\ agent'[handler[k].mach] = agent[handler[k].mach]
    <3>1. handler[k].mach # m /\ handler'[k] = handler[k] /\ handler[k].client
      BY <1>6, <2>1
    <3>2. handler[k].mach \in Machine
      BY <3>1, IsRequest DEF IInv
    <3>3. QED  BY <1>4, <3>1, <3>2
  <2>2. \A k \in Handler : handler'[k].client =>
          /\ agent'[handler'[k].mach].pc = "wait" /\ agent'[handler'[k].mach].reply = 0
          /\ agent'[handler'[k].mach].ip = handler'[k].ip
    BY <2>1 DEF IInv, ClientsOK
  <2>3. \A k, j \in Handler :
          handler'[k].client /\ handler'[j].client /\ handler'[k].mach = handler'[j].mach => k = j
    BY <2>1 DEF IInv, ClientsOK
  <2>4. QED  BY <2>2, <2>3 DEF ClientsOK
<1>9. AloneOK'
  <2> SUFFICES ASSUME NEW k \in Handler, NEW n \in Machine, handler'[k].mach = n, ~outlived'[n]
               PROVE  /\ handler'[k].client
                      /\ handler'[k].pc = "read" => machines[n] = agent'[n].ip
    BY <1>1 DEF AloneOK
  <2>1. handler[k].mach = n /\ n # m
    BY <1>5, <1>6
  <2>2. handler'[k] = handler[k] /\ agent'[n] = agent[n] /\ ~outlived[n]
    BY <1>4, <1>5, <1>6, <2>1
  <2>3. QED  BY <2>1, <2>2 DEF IInv, AloneOK
<1>10. AgentsOK'
  <2> SUFFICES ASSUME NEW n \in Machine
               PROVE  /\ agent'[n].reply # 0 => agent'[n].pc = "wait"
                      /\ agent'[n].reply = 200 => Current(n)'
                      /\ agent'[n].registered => agent'[n].pc \in {"collect", "check"} /\ Current(n)'
    BY DEF AgentsOK
  <2>1. CASE n = m
    <3>1. agent'[n].reply = 0 /\ ~agent'[n].registered
      BY <1>3, <1>4, <2>1
    <3>2. QED  BY <3>1
  <2>2. CASE n # m
    <3>1. agent'[n] = agent[n] /\ outlived'[n] = outlived[n] /\ machines' = machines
      BY <1>1, <1>4, <1>5, <2>2
    <3>2. Current(n) => Current(n)'
      BY <3>1 DEF Current
    <3>3. QED  BY <3>1, <3>2 DEF IInv, AgentsOK
  <2>3. QED  BY <2>1, <2>2
<1>11. QED  BY <1>7, <1>8, <1>9, <1>10 DEF IInv

(* A step of the agent that sends nothing. *)
LEMMA AgentInv ==
  ASSUME IInv, NEW m \in Machine, NEW r \in Agent,
         agent' = [agent EXCEPT ![m] = r],
         r.ip = agent[m].ip,
         agent[m].pc # "wait" \/ agent[m].reply # 0,
         r.reply # 0 => r.pc = "wait" /\ r.reply # 200,
         r.registered => /\ r.pc \in {"collect", "check"}
                         /\ agent[m].registered \/ agent[m].reply = 200,
         UNCHANGED <<handler, machines, outlived, answers, faults>>
  PROVE  IInv'
<1>1. /\ agent' \in [Machine -> Agent] /\ agent'[m] = r
      /\ \A n \in Machine : n # m => agent'[n] = agent[n]
      /\ \A n \in Machine : agent'[n].ip = agent[n].ip
  BY DEF IInv, TypeOK
<1>2. TypeOK'
  BY <1>1 DEF IInv, TypeOK
<1>3. ClientsOK'
  <2>1. ASSUME NEW k \in Handler, handler[k].client
        PROVE  agent'[handler[k].mach] = agent[handler[k].mach]
    <3>1. handler[k].mach \in Machine
      BY <2>1, IsRequest DEF IInv
    <3>2. handler[k].mach # m
      BY <2>1 DEF IInv, ClientsOK
    <3>3. QED  BY <1>1, <3>1, <3>2
  <2>2. QED  BY <2>1 DEF IInv, ClientsOK
<1>4. AloneOK'
  BY <1>1 DEF IInv, AloneOK
<1>5. AgentsOK'
  <2>1. \A n \in Machine : Current(n) => Current(n)'
    BY <1>1 DEF Current
  <2>2. ASSUME NEW n \in Machine
        PROVE  /\ agent'[n].reply # 0 => agent'[n].pc = "wait"
               /\ agent'[n].reply = 200 => Current(n)'
               /\ agent'[n].registered => agent'[n].pc \in {"collect", "check"} /\ Current(n)'
    <3>1. CASE n = m
      BY <1>1, <2>1, <3>1 DEF IInv, AgentsOK
    <3>2. CASE n # m
      BY <1>1, <2>1, <3>2 DEF IInv, AgentsOK
    <3>3. QED  BY <3>1, <3>2
  <2>3. QED  BY <2>2 DEF AgentsOK
<1>6. QED  BY <1>2, <1>3, <1>4, <1>5 DEF IInv

LEMMA RegisterReturnedSets ==
  ASSUME IInv, NEW m \in Machine, RegisterReturned(m)
  PROVE  /\ agent[m].pc = "wait" /\ agent[m].reply # 0 /\ ~agent[m].registered
         /\ UNCHANGED <<handler, machines, outlived, answers, faults>>
         /\ \E r \in Agent :
              /\ agent' = [agent EXCEPT ![m] = r] /\ r.ip = agent[m].ip /\ r.reply = 0
              /\ r.pc \in {"post", "collect"}
              /\ r.registered => r.pc = "collect" /\ agent[m].reply = 200
<1> DEFINE a == agent[m]
           retry == [a EXCEPT !.pc = "post", !.reply = 0,
                              !.attempt = IF @ < FirstAttempts THEN @ + 1 ELSE @]
           back == [a EXCEPT !.pc = "collect", !.reply = 0, !.due = FALSE,
                             !.registered = a.reply = 200]
<1>1. /\ a \in Agent /\ a.pc = "wait" /\ a.reply # 0 /\ ~a.registered
      /\ UNCHANGED <<handler, machines, outlived, answers, faults>>
  BY DEF IInv, TypeOK, AgentsOK, RegisterReturned
<1>2. /\ retry \in Agent /\ retry.ip = a.ip /\ retry.pc = "post" /\ retry.reply = 0
      /\ retry.registered = a.registered
  <2>1. a.attempt \in 1..FirstAttempts /\ FirstAttempts \in Nat
    BY <1>1, RegistryAssumption DEF Agent
  <2>2. (IF a.attempt < FirstAttempts THEN a.attempt + 1 ELSE a.attempt) \in Attempt
    BY <2>1 DEF Attempt
  <2>3. PICK n \in Attempt :
               n = (IF a.attempt < FirstAttempts THEN a.attempt + 1 ELSE a.attempt)
    BY <2>2
  <2>4. retry = SetAttempt(SetReply(SetPc(a, "post"), 0), n)
    BY <2>3 DEF SetPc, SetReply, SetAttempt
  <2>5. a \in Agent /\ "post" \in AgentPc /\ 0 \in Reply
    BY <1>1, AgentPcs
  <2> HIDE DEF retry, a
  <2>6. PICK p \in Agent : /\ p = SetPc(a, "post") /\ p.pc = "post" /\ p.ip = a.ip
                            /\ p.registered = a.registered
    BY <2>5, SetPcFields
  <2>7. PICK q \in Agent : /\ q = SetReply(p, 0) /\ q.pc = "post" /\ q.ip = a.ip
                            /\ q.registered = a.registered /\ q.reply = 0
    BY <2>5, <2>6, SetReplyFields
  <2>8. retry = SetAttempt(q, n)
    BY <2>4, <2>6, <2>7
  <2>9. QED  BY <2>7, <2>8, SetAttemptFields
<1>3. /\ back \in Agent /\ back.ip = a.ip /\ back.pc = "collect" /\ back.reply = 0
      /\ back.registered => a.reply = 200
  BY <1>1, ZenonT(60) DEF Agent
<1>4. agent' = [agent EXCEPT ![m] = retry] \/ agent' = [agent EXCEPT ![m] = back]
  BY DEF RegisterReturned
<1> HIDE DEF retry, back
<1>5. QED  BY <1>1, <1>2, <1>3, <1>4

LEMMA RegisterReturnedInv ==
  ASSUME IInv, NEW m \in Machine, RegisterReturned(m)
  PROVE  IInv'
<1>1. /\ agent[m].reply # 0
      /\ UNCHANGED <<handler, machines, outlived, answers, faults>>
  BY RegisterReturnedSets
<1>2. PICK r \in Agent :
        /\ agent' = [agent EXCEPT ![m] = r] /\ r.ip = agent[m].ip /\ r.reply = 0
        /\ r.pc \in {"post", "collect"}
        /\ r.registered => r.pc = "collect" /\ agent[m].reply = 200
  BY RegisterReturnedSets
<1>3. QED  BY <1>1, <1>2, AgentInv

LEMMA ReportLoopSets ==
  ASSUME IInv, NEW m \in Machine, Collect(m) \/ CheckRegistered(m) \/ RetryDue(m)
  PROVE  /\ agent[m].pc \in {"collect", "check"} /\ agent[m].reply = 0
         /\ UNCHANGED <<handler, machines, outlived, answers, faults>>
         /\ \E r \in Agent :
              /\ agent' = [agent EXCEPT ![m] = r] /\ r.ip = agent[m].ip
              /\ r.reply = agent[m].reply
              /\ r.registered => r.pc \in {"collect", "check"} /\ agent[m].registered
<1> DEFINE a == agent[m]
<1>1. /\ a \in Agent /\ a.pc \in {"collect", "check"} /\ a.reply = 0
      /\ UNCHANGED <<handler, machines, outlived, answers, faults>>
  BY DEF IInv, TypeOK, AgentsOK, Collect, CheckRegistered, RetryDue
<1>2. \E r \in Agent :
        /\ agent' = [agent EXCEPT ![m] = r] /\ r.ip = a.ip /\ r.reply = a.reply
        /\ r.registered => r.pc \in {"collect", "check"} /\ a.registered
  <2>1. CASE Collect(m)
    <3> DEFINE r == [SetPc(a, "check") EXCEPT !.started = TRUE]
    <3>1. r \in Agent /\ r.ip = a.ip /\ r.reply = a.reply /\ r.pc = "check"
          /\ r.registered = a.registered
      BY <1>1, WithStarted
    <3>2. agent' = [agent EXCEPT ![m] = r]
      BY <2>1, SetsStarted
    <3> HIDE DEF r
    <3>3. QED  BY <3>1, <3>2
  <2>2. CASE CheckRegistered(m)
    <3> DEFINE r == SetMax(SetAttempt(SetPc(a, "post"), 1), 1)
               s == [a EXCEPT !.pc = "collect"]
    <3>1. r \in Agent /\ r.ip = a.ip /\ r.reply = a.reply /\ r.registered = a.registered
      <4>1. a \in Agent /\ "post" \in AgentPc /\ 1 \in Attempt /\ 1 \in Attempts
        BY <1>1, AgentPcs
      <4> HIDE DEF a
      <4>2. PICK p \in Agent : /\ p = SetPc(a, "post") /\ p.reply = a.reply /\ p.ip = a.ip
                                /\ p.registered = a.registered
        BY <4>1, SetPcFields
      <4>3. PICK q \in Agent : /\ q = SetAttempt(p, 1) /\ q.reply = a.reply /\ q.ip = a.ip
                                /\ q.registered = a.registered
        BY <4>1, <4>2, SetAttemptFields
      <4>4. r = SetMax(q, 1)
        BY <4>2, <4>3
      <4> HIDE DEF r
      <4>5. QED  BY <4>1, <4>3, <4>4, SetMaxFields
    <3>2. s \in Agent /\ s.ip = a.ip /\ s.reply = a.reply /\ s.pc = "collect"
          /\ s.registered = a.registered
      BY <1>1 DEF Agent
    <3>3. \/ agent' = [agent EXCEPT ![m] = r] /\ ~a.registered
          \/ agent' = [agent EXCEPT ![m] = s]
      BY <2>2 DEF CheckRegistered, RetryRegister, SetPc, SetAttempt, SetMax
    <3> HIDE DEF r, s
    <3>4. QED  BY <3>1, <3>2, <3>3
  <2>3. CASE RetryDue(m)
    <3> DEFINE r == [a EXCEPT !.due = TRUE]
    <3>1. r \in Agent /\ r.ip = a.ip /\ r.reply = a.reply /\ r.pc = a.pc
          /\ r.registered = a.registered
      BY <1>1, AgentPcs, WithDue
    <3>2. agent' = [agent EXCEPT ![m] = r]
      BY <2>3 DEF RetryDue
    <3> HIDE DEF r
    <3>3. QED  BY <1>1, <3>1, <3>2
  <2>4. QED  BY <2>1, <2>2, <2>3
<1>3. QED  BY <1>1, <1>2

LEMMA ReportLoopInv ==
  ASSUME IInv, NEW m \in Machine, Collect(m) \/ CheckRegistered(m) \/ RetryDue(m)
  PROVE  IInv'
<1>1. /\ agent[m].pc \in {"collect", "check"} /\ agent[m].reply = 0
      /\ UNCHANGED <<handler, machines, outlived, answers, faults>>
  BY ReportLoopSets
<1>2. PICK r \in Agent :
        /\ agent' = [agent EXCEPT ![m] = r] /\ r.ip = agent[m].ip /\ r.reply = agent[m].reply
        /\ r.registered => r.pc \in {"collect", "check"} /\ agent[m].registered
  BY ReportLoopSets
<1>3. agent[m].pc # "wait" /\ r.reply = 0
  BY <1>1, <1>2
<1>4. QED  BY <1>1, <1>2, <1>3, AgentInv

LEMMA PostRegisterInv ==
  ASSUME IInv, NEW m \in Machine, PostRegister(m)
  PROVE  IInv'
<1>1. /\ agent[m] \in Agent /\ agent[m].pc = "post" /\ agent[m].reply = 0 /\ ~agent[m].registered
      /\ UNCHANGED <<machines, outlived, answers, faults>>
  BY DEF IInv, TypeOK, AgentsOK, PostRegister
<1>2. CASE agent' = [agent EXCEPT ![m].pc = "wait", ![m].reply = -1] /\ UNCHANGED handler
  <2>1. PICK v \in Reply : v = -1
    BY AgentPcs
  <2>2. PICK p \in Agent : /\ p = SetPc(agent[m], "wait") /\ p.pc = "wait" /\ p.ip = agent[m].ip
                            /\ p.registered = agent[m].registered
    <3>1. PICK a \in Agent : a = agent[m]
      BY <1>1
    <3>2. SetPc(a, "wait") \in Agent /\ SetPc(a, "wait").ip = a.ip
          /\ SetPc(a, "wait").registered = a.registered /\ SetPc(a, "wait").pc = "wait"
      BY AgentPcs, SetPcFields
    <3>3. QED  BY <3>1, <3>2
  <2>3. PICK r \in Agent : /\ r = SetReply(p, v) /\ r.pc = "wait" /\ r.ip = agent[m].ip
                            /\ r.reply = v /\ ~r.registered
    BY <1>1, <2>2, SetReplyFields
  <2>4. agent' = [agent EXCEPT ![m] = r]
    <3>1. agent' = [agent EXCEPT ![m].pc = "wait", ![m].reply = v]
      BY <1>2, <2>1
    <3>2. agent' = [agent EXCEPT ![m] = SetReply(SetPc(agent[m], "wait"), v)]
      BY <3>1, SetsFields
    <3>3. QED  BY <2>2, <2>3, <3>2
  <2>5. r.reply # 200
    BY <2>1, <2>3
  <2>6. QED  BY <1>1, <1>2, <2>3, <2>4, <2>5, AgentInv
<1>3. ASSUME NEW h \in Handler, handler[h] = NoRequest,
             handler' = [handler EXCEPT ![h] =
               [pc |-> "first", mach |-> m, ip |-> agent[m].ip, client |-> TRUE]],
             agent' = [agent EXCEPT ![m].pc = "wait", ![m].reply = 0]
      PROVE  IInv'
  <2> DEFINE q == [pc |-> "first", mach |-> m, ip |-> agent[m].ip, client |-> TRUE]
  <2>1. PICK r \in Agent :
          /\ r = SetReply(SetPc(agent[m], "wait"), 0)
          /\ r.pc = "wait" /\ r.reply = 0 /\ r.ip = agent[m].ip /\ ~r.registered
    <3>1. PICK p \in Agent : /\ p = SetPc(agent[m], "wait") /\ p.pc = "wait" /\ p.ip = agent[m].ip
                              /\ p.registered = agent[m].registered
      <4>1. PICK a \in Agent : a = agent[m]
        BY <1>1
      <4>2. SetPc(a, "wait") \in Agent /\ SetPc(a, "wait").ip = a.ip
            /\ SetPc(a, "wait").registered = a.registered /\ SetPc(a, "wait").pc = "wait"
        BY AgentPcs, SetPcFields
      <4>3. QED  BY <4>1, <4>2
    <3>2. QED  BY <1>1, <3>1, AgentPcs, SetReplyFields
  <2>2. agent' = [agent EXCEPT ![m] = r] /\ handler' = [handler EXCEPT ![h] = q]
    <3>1. agent' = [agent EXCEPT ![m] = SetReply(SetPc(agent[m], "wait"), 0)]
      BY <1>3, SetsFields
    <3>2. QED  BY <1>3, <2>1, <3>1
  <2>3. q \in Request /\ q.pc = "first" /\ q.mach = m /\ q.ip = agent[m].ip /\ q.client
    BY <1>1 DEF Agent, Request
  <2> HIDE DEF q
  <2>4. /\ agent' \in [Machine -> Agent] /\ agent'[m] = r
        /\ \A n \in Machine : n # m => agent'[n] = agent[n]
        /\ \A n \in Machine : agent'[n].ip = agent[n].ip
    BY <2>1, <2>2 DEF IInv, TypeOK
  <2>5. /\ handler' \in [Handler -> Request \cup {NoRequest}] /\ handler'[h] = q
        /\ \A k \in Handler : k # h => handler'[k] = handler[k]
    BY <2>2, <2>3 DEF IInv, TypeOK
  <2>6. \A k \in Handler : handler[k].client => handler[k].mach # m
    BY <1>1 DEF IInv, ClientsOK
  <2>7. TypeOK'
    <3>1. \A k \in Handler : handler'[k].pc \in {"update", "read"} => machines[handler'[k].mach] # None
      BY <2>3, <2>5 DEF IInv, TypeOK
    <3>2. QED  BY <1>1, <2>4, <2>5, <3>1 DEF IInv, TypeOK
  <2>8. ClientsOK'
    <3>1. ASSUME NEW k \in Handler, handler'[k].client
          PROVE  /\ agent'[handler'[k].mach].pc = "wait" /\ agent'[handler'[k].mach].reply = 0
                 /\ agent'[handler'[k].mach].ip = handler'[k].ip
                 /\ handler'[k].mach = m => k = h
      <4>1. CASE k = h
        BY <2>1, <2>3, <2>4, <2>5, <4>1
      <4>2. CASE k # h
        <5>1. handler'[k] = handler[k] /\ handler[k].client /\ handler[k].mach # m
          BY <2>5, <2>6, <3>1, <4>2
        <5>2. handler[k].mach \in Machine
          BY <5>1, IsRequest DEF IInv
        <5>3. agent'[handler[k].mach] = agent[handler[k].mach]
          BY <2>4, <5>1, <5>2
        <5>4. QED  BY <5>1, <5>3 DEF IInv, ClientsOK
      <4>3. QED  BY <4>1, <4>2
    <3>2. ASSUME NEW k \in Handler, NEW j \in Handler, handler'[k].client, handler'[j].client,
                 handler'[k].mach = handler'[j].mach
          PROVE  k = j
      <4>1. CASE handler'[k].mach = m
        BY <3>1, <3>2, <4>1
      <4>2. CASE handler'[k].mach # m
        <5>1. k # h /\ j # h
          BY <2>3, <2>5, <3>2, <4>2
        <5>2. handler'[k] = handler[k] /\ handler'[j] = handler[j]
          BY <2>5, <5>1
        <5>3. QED  BY <3>2, <5>2 DEF IInv, ClientsOK
      <4>3. QED  BY <4>1, <4>2
    <3>3. QED  BY <3>1, <3>2 DEF ClientsOK
  <2>9. AloneOK'
    <3> SUFFICES ASSUME NEW k \in Handler, NEW n \in Machine, handler'[k].mach = n, ~outlived[n]
                 PROVE  /\ handler'[k].client
                        /\ handler'[k].pc = "read" => machines[n] = agent'[n].ip
      BY <1>1 DEF AloneOK
    <3>1. CASE k = h
      BY <2>3, <2>5, <3>1
    <3>2. CASE k # h
      BY <2>4, <2>5, <3>2 DEF IInv, AloneOK
    <3>3. QED  BY <3>1, <3>2
  <2>10. AgentsOK'
    <3>1. \A n \in Machine : Current(n) => Current(n)'
      BY <1>1, <2>4 DEF Current
    <3>2. ASSUME NEW n \in Machine
          PROVE  /\ agent'[n].reply # 0 => agent'[n].pc = "wait"
                 /\ agent'[n].reply = 200 => Current(n)'
                 /\ agent'[n].registered => agent'[n].pc \in {"collect", "check"} /\ Current(n)'
      <4>1. CASE n = m
        BY <2>1, <2>4, <4>1
      <4>2. CASE n # m
        BY <2>4, <3>1, <4>2 DEF IInv, AgentsOK
      <4>3. QED  BY <4>1, <4>2
    <3>3. QED  BY <3>2 DEF AgentsOK
  <2>11. QED  BY <2>7, <2>8, <2>9, <2>10 DEF IInv
<1>4. QED  BY <1>2, <1>3 DEF PostRegister

-----------------------------------------------------------------------------
(* The theorems. *)

LEMMA InitInv == Init => IInv
<1> SUFFICES ASSUME Init PROVE IInv
  OBVIOUS
<1>1. /\ \A sampled \in BOOLEAN :
           /\ Started(0, sampled) \in Agent /\ Started(0, sampled).reply = 0
           /\ ~Started(0, sampled).registered
  BY RegistryAssumption DEF Started, Agent
<1>2. /\ agent \in [Machine -> Agent]
      /\ \A m \in Machine : agent[m].reply = 0 /\ ~agent[m].registered
  BY <1>1 DEF Init
<1>3. \A h \in Handler : handler[h] = NoRequest
  BY DEF Init
<1>4. TypeOK
  <2>1. handler \in [Handler -> Request \cup {NoRequest}]
    BY DEF Init
  <2>2. faults \in 0..MaxFaults
    BY RegistryAssumption DEF Init
  <2>3. QED  BY <1>2, <1>3, <2>1, <2>2, NoRequestFields DEF Init, TypeOK
<1>5. ClientsOK /\ AloneOK /\ AgentsOK
  BY <1>2, <1>3, NoRequestFields DEF ClientsOK, AloneOK, AgentsOK
<1>6. QED  BY <1>4, <1>5 DEF IInv

LEMMA StepInv == IInv /\ [Next]_vars => IInv'
<1> SUFFICES ASSUME IInv, [Next]_vars PROVE IInv'
  OBVIOUS
<1>1. ASSUME NEW h \in Handler, HandlerStep(h) PROVE IInv'
  BY <1>1, HandlerStepInv
<1>2. ASSUME NEW h \in Handler, TimeOut(h) PROVE IInv'
  BY <1>2, TimeOutInv
<1>3. ASSUME NEW m \in Machine, PostRegister(m) PROVE IInv'
  BY <1>3, PostRegisterInv
<1>4. ASSUME NEW m \in Machine, RegisterReturned(m) PROVE IInv'
  BY <1>4, RegisterReturnedInv
<1>5. ASSUME NEW m \in Machine, Collect(m) \/ CheckRegistered(m) \/ RetryDue(m) PROVE IInv'
  BY <1>5, ReportLoopInv
<1>6. ASSUME NEW m \in Machine, RestartAgent(m) PROVE IInv'
  BY <1>6, RestartAgentInv
<1>7. CASE UNCHANGED vars
  BY <1>7 DEF vars, IInv, TypeOK, ClientsOK, AloneOK, AgentsOK, Current
<1>8. ASSUME NEW m \in Machine, SkipReport(m) PROVE UNCHANGED vars
  BY <1>8 DEF SkipReport
<1>9. QED  BY <1>1, <1>2, <1>3, <1>4, <1>5, <1>6, <1>7, <1>8 DEF Next, AgentStep

(* The register handler and the agent (main.go 86-139, agent/main.go 47-108,    *)
(* 197-243) keep the invariant, whatever the requests, timeouts and restarts.  *)
THEOREM Invariance == Spec => []IInv
BY InitInv, StepInv, PTL DEF Spec

(* Registrations stay well formed: a handler that updates or reads a row found *)
(* one and it is still there (main.go 124-138). *)
THEOREM TypeCorrect == Spec => []TypeOK
<1>1. IInv => TypeOK
  BY DEF IInv
<1>2. QED  BY <1>1, Invariance, PTL

(* A registered agent has a row, which shows its address unless a request was  *)
(* left behind (main.go 101-138, agent/main.go 54, 101-103). *)
THEOREM RowCurrent == Spec => []RowIsCurrent
<1>1. IInv => RowIsCurrent
  BY DEF IInv, AgentsOK, Current, RowIsCurrent
<1>2. QED  BY <1>1, Invariance, PTL

-----------------------------------------------------------------------------
(* The refinement of MachineRegister.  The requests and replies as the register *)
(* sees them, and what each of its actions is in terms of them.                 *)
ReqOf(q) == [mach |-> q.mach, ip |-> q.ip, client |-> q.client,
             stage |-> Stage(q.pc)]
Reqs == [h \in Handler |-> ReqOf(handler[h])]
Heard == [m \in Machine |-> agent[m].reply]

\* The answer of a request, and the instant of its write.
Replied(h, status) ==
  /\ Reqs' = [Reqs EXCEPT ![h] = ReqOf(NoRequest)]
  /\ Heard' = IF handler[h].client THEN [Heard EXCEPT ![handler[h].mach] = status] ELSE Heard
SetBy(h) ==
  /\ handler[h].pc \notin {"idle", "read"}
  /\ machines' = [machines EXCEPT ![handler[h].mach] = handler[h].ip]

LEMMA Fields ==
  ASSUME NEW h \in Handler
  PROVE  /\ Reqs[h] = ReqOf(handler[h]) /\ Reqs[h].mach = handler[h].mach
         /\ Reqs[h].ip = handler[h].ip /\ Reqs[h].client = handler[h].client
         /\ Reqs[h].stage = Stage(handler[h].pc)
BY DEF Reqs, ReqOf

LEMMA NoReq == ReqOf(NoRequest) = Register!NoRequest
BY DEF ReqOf, Stage, NoRequest, Register!NoRequest

LEMMA SetIs ==
  ASSUME TypeOK, NEW h \in Handler, SetBy(h)
  PROVE  Register!Set(h)
<1>1. Reqs[h].stage = "asked"
  BY Fields DEF SetBy, Stage
<1>2. machines' = [machines EXCEPT ![Reqs[h].mach] = Reqs[h].ip]
  BY Fields DEF SetBy
<1>3. QED  BY <1>1, <1>2 DEF Register!Set, Reqs, ReqOf

LEMMA ReplyIs ==
  ASSUME NEW h \in Handler, NEW status, Replied(h, status)
  PROVE  Register!Reply(h, status)
<1>1. Reqs' = [Reqs EXCEPT ![h] = Register!NoRequest]
  BY NoReq DEF Replied
<1>2. Heard' = IF Reqs[h].client THEN [Heard EXCEPT ![Reqs[h].mach] = status] ELSE Heard
  BY Fields DEF Replied
<1>3. QED  BY <1>1, <1>2 DEF Register!Reply, Reqs, Heard, ReqOf

LEMMA Succeeds ==
  ASSUME TypeOK, NEW h \in Handler, Replied(h, 200),
         SetBy(h) \/ (handler[h].pc = "read" /\ machines' = machines)
  PROVE  Register!Next
<1>1. Register!Reply(h, 200)
  BY ReplyIs
<1>2. Register!Set(h) \/ (Reqs[h].stage = "written" /\ UNCHANGED machines)
  BY SetIs, Fields DEF Stage
<1>3. Register!Succeed(h)
  BY <1>1, <1>2 DEF Register!Succeed, Reqs, ReqOf
<1>4. QED  BY <1>3 DEF Register!Next

LEMMA Fails ==
  ASSUME TypeOK, NEW h \in Handler, handler[h].pc # "idle", Replied(h, 500),
         SetBy(h) \/ machines' = machines
  PROVE  Register!Next
<1>1. Register!Reply(h, 500)
  BY ReplyIs
<1>2. Register!Set(h) \/ UNCHANGED machines
  BY SetIs
<1>3. Reqs[h].stage # "none"
  BY Fields DEF Stage
<1>4. Register!Fail(h)
  BY <1>1, <1>2, <1>3 DEF Register!Fail, Reqs, ReqOf
<1>5. QED  BY <1>4 DEF Register!Next

LEMMA WithStage ==
  ASSUME NEW r, NEW a, NEW b, NEW c, NEW d, NEW w,
         r = [mach |-> a, ip |-> b, client |-> c, stage |-> d]
  PROVE  [r EXCEPT !.stage = w] = [mach |-> a, ip |-> b, client |-> c, stage |-> w]
OBVIOUS

LEMMA WritesRow ==
  ASSUME TypeOK, NEW h \in Handler, SetBy(h),
         Reqs' = [Reqs EXCEPT ![h].stage = "written"], Heard' = Heard
  PROVE  Register!Next
<1>1. Register!Write(h)
  BY SetIs DEF Register!Write, Reqs, Heard, ReqOf
<1>2. QED  BY <1>1 DEF Register!Next

LEMMA Asks ==
  ASSUME TypeOK, NEW h \in Handler, NEW m \in Machine, NEW ip \in 0..MaxRestarts,
         handler[h] = NoRequest, machines' = machines,
         Reqs' = [Reqs EXCEPT ![h] = [mach |-> m, ip |-> ip, client |-> TRUE,
                                      stage |-> "asked"]],
         Heard' = [Heard EXCEPT ![m] = 0]
  PROVE  Register!Next
<1>1. Reqs[h] = Register!NoRequest
  BY NoReq, Fields
<1>2. Register!Ask(h, m, ip)
  BY <1>1 DEF Register!Ask, Reqs, Heard, ReqOf
<1>3. QED  BY <1>2 DEF Register!Next

LEMMA Abandons ==
  ASSUME NEW m \in Machine, NEW H \in SUBSET Handler, NEW status \in {0, -1},
         machines' = machines,
         Reqs' = [h \in Handler |-> IF h \in H /\ handler[h].mach = m
                                    THEN [Reqs[h] EXCEPT !.client = FALSE] ELSE Reqs[h]],
         Heard' = [Heard EXCEPT ![m] = status]
  PROVE  Register!Next
<1>1. Reqs' = [h \in Handler |-> IF h \in H /\ Reqs[h].mach = m
                                 THEN [Reqs[h] EXCEPT !.client = FALSE] ELSE Reqs[h]]
  BY Fields
<1>2. Register!Abandon(m, H, status)
  BY <1>1 DEF Register!Abandon, Reqs, Heard, ReqOf
<1>3. QED  BY <1>2 DEF Register!Next

LEMMA Stutters ==
  ASSUME Reqs' = Reqs, Heard' = Heard, machines' = machines
  PROVE  UNCHANGED Register!vars
BY DEF Register!vars, Reqs, Heard, ReqOf

(* What the steps of the handler and of the agent do to the requests and replies. *)

GivesAgent(m, r) == agent' = [agent EXCEPT ![m] = r]
GivesReply(m, v) == agent' = [agent EXCEPT ![m].reply = v]
GivesHandler(h, q) == handler' = [handler EXCEPT ![h] = q]

LEMMA HeardSets ==
  ASSUME TypeOK, NEW m \in Machine, NEW r, GivesAgent(m, r)
  PROVE  Heard' = [Heard EXCEPT ![m] = r.reply]
<1>1. agent \in [Machine -> Agent]
  BY DEF TypeOK
<1>2. \A n \in Machine : agent'[n] = IF n = m THEN r ELSE agent[n]
  BY <1>1 DEF GivesAgent
<1>3. Heard' = [n \in Machine |-> agent'[n].reply]
  BY DEF Heard
<1>4. [Heard EXCEPT ![m] = r.reply] = [n \in Machine |-> IF n = m THEN r.reply ELSE agent[n].reply]
  BY DEF Heard
<1>5. QED  BY <1>2, <1>3, <1>4

LEMMA HeardReply ==
  ASSUME TypeOK, NEW m \in Machine, NEW v \in Reply, GivesReply(m, v)
  PROVE  Heard' = [Heard EXCEPT ![m] = v]
<1>1. agent[m] \in Agent
  BY DEF TypeOK
<1>2. SetReply(agent[m], v).reply = v
  BY <1>1, SetReplyFields
<1>3. GivesAgent(m, SetReply(agent[m], v))
  BY DEF SetReply, GivesAgent, GivesReply
<1>4. PICK r : r.reply = v /\ GivesAgent(m, r)
  BY <1>2, <1>3
<1>5. QED  BY <1>4, HeardSets

LEMMA ReqsSet ==
  ASSUME TypeOK, NEW h \in Handler, NEW q, GivesHandler(h, q)
  PROVE  Reqs' = [Reqs EXCEPT ![h] = ReqOf(q)]
<1>1. \A k \in Handler : handler'[k] = IF k = h THEN q ELSE handler[k]
  BY DEF TypeOK, GivesHandler
<1>2. \A k \in Handler : Reqs'[k] = IF k = h THEN ReqOf(q) ELSE Reqs[k]
  <2>1. Reqs' = [k \in Handler |-> ReqOf(handler'[k])]
    BY DEF Reqs
  <2>2. QED  BY <1>1, <2>1, Fields
<1>3. Reqs' = [k \in Handler |-> Reqs'[k]] /\ Reqs = [k \in Handler |-> Reqs[k]]
  BY DEF Reqs
<1>4. QED  BY <1>2, <1>3

LEMMA Answered ==
  ASSUME TypeOK, NEW h \in Handler, handler[h].pc # "idle", NEW status \in {200, 500},
         AnswerWith(h, status)
  PROVE  Replied(h, status)
<1>1. PICK m \in Machine : m = handler[h].mach
  BY IsRequest
<1>2. Reqs' = [Reqs EXCEPT ![h] = ReqOf(NoRequest)]
  <2>1. GivesHandler(h, NoRequest)
    BY DEF AnswerWith, GivesHandler
  <2>2. QED  BY <2>1, ReqsSet
<1>3. CASE handler[h].client
  <2>1. GivesReply(m, status) /\ status \in Reply
    BY <1>1, <1>3 DEF AnswerWith, GivesReply, Reply
  <2>2. Heard' = [Heard EXCEPT ![m] = status]
    BY <2>1, HeardReply
  <2>3. QED  BY <1>1, <1>2, <1>3, <2>2 DEF Replied
<1>4. CASE ~handler[h].client
  <2>1. Heard' = Heard
    BY <1>4 DEF AnswerWith, Heard
  <2>2. QED  BY <1>2, <1>4, <2>1 DEF Replied
<1>5. QED  BY <1>3, <1>4

LEMMA WithPcReq ==
  ASSUME NEW q \in Request, NEW pc \in Statement
  PROVE  ReqOf([q EXCEPT !.pc = pc]) = [ReqOf(q) EXCEPT !.stage = Stage(pc)]
<1> DEFINE r == [q EXCEPT !.pc = pc]
<1>1. r.pc = pc /\ r.mach = q.mach /\ r.ip = q.ip /\ r.client = q.client
  BY WithPc
<1>2. ReqOf(r) = [mach |-> q.mach, ip |-> q.ip, client |-> q.client, stage |-> Stage(pc)]
  BY <1>1 DEF ReqOf
<1>3. [ReqOf(q) EXCEPT !.stage = Stage(pc)]
        = [mach |-> q.mach, ip |-> q.ip, client |-> q.client, stage |-> Stage(pc)]
  <2>1. ReqOf(q) = [mach |-> q.mach, ip |-> q.ip, client |-> q.client, stage |-> Stage(q.pc)]
    BY DEF ReqOf
  <2>2. QED  BY <2>1, WithStage
<1>4. QED  BY <1>1, <1>2, <1>3

LEMMA Continued ==
  ASSUME TypeOK, NEW h \in Handler, handler[h].pc # "idle", NEW pc \in Statement,
         Continue(h, pc)
  PROVE  Reqs' = [Reqs EXCEPT ![h].stage = Stage(pc)] /\ Heard' = Heard
<1>1. handler[h] \in Request
  BY IsRequest
<1>2. Reqs' = [Reqs EXCEPT ![h] = ReqOf([handler[h] EXCEPT !.pc = pc])]
  <2>1. GivesHandler(h, [handler[h] EXCEPT !.pc = pc])
    BY DEF Continue, GivesHandler
  <2>2. QED  BY <2>1, ReqsSet
<1>3. ReqOf([handler[h] EXCEPT !.pc = pc]) = [Reqs[h] EXCEPT !.stage = Stage(pc)]
  BY <1>1, WithPcReq, Fields
<1>4. Heard' = Heard
  BY DEF Continue, Heard
<1>5. QED  BY <1>2, <1>3, <1>4

(* The steps. *)

LEMMA HandlerMapped ==
  ASSUME TypeOK, NEW h \in Handler, HandlerStep(h)
  PROVE  Register!Next \/ UNCHANGED Register!vars
<1>1. handler[h].pc # "idle" /\ handler[h].mach \in Machine
  <2>1. handler[h].pc # "idle"
    BY DEF HandlerStep, FirstMachine, CreateMachine, UpdateMachine, ReadMachine
  <2>2. QED  BY <2>1, IsRequest
<1>2. ASSUME MySQLFailed(h), SetBy(h) \/ machines' = machines
      PROVE  Register!Next
  <2>1. AnswerWith(h, 500) /\ 500 \in {200, 500}
    BY <1>2 DEF MySQLFailed
  <2>2. Replied(h, 500)
    BY <1>1, <2>1, Answered
  <2>3. QED  BY <1>1, <1>2, <2>2, Fails
<1>3. ASSUME Answer(h, 200), SetBy(h) \/ (handler[h].pc = "read" /\ machines' = machines)
      PROVE  Register!Next
  <2>1. AnswerWith(h, 200) /\ 200 \in {200, 500}
    BY <1>3 DEF Answer
  <2>2. Replied(h, 200)
    BY <1>1, <2>1, Answered
  <2>3. QED  BY <1>3, <2>2, Succeeds
<1>4. CASE FirstMachine(h)
  <2>1. machines' = machines /\ handler[h].pc = "first"
    BY <1>4 DEF FirstMachine
  <2>2. CASE Continue(h, NextStatement(machines[handler[h].mach]))
    <3>1. PICK pc \in Statement : pc \notin {"idle", "read"} /\ Continue(h, pc)
      BY <2>2 DEF NextStatement, Statement
    <3>2. Reqs' = [Reqs EXCEPT ![h].stage = "asked"] /\ Heard' = Heard
      <4>1. Stage(pc) = "asked"
        BY <3>1 DEF Stage
      <4>2. QED  BY <1>1, <3>1, <4>1, Continued
    <3>3. Reqs[h] = ReqOf(handler[h]) /\ Stage(handler[h].pc) = "asked"
      BY <2>1, Fields DEF Stage
    <3>4. Reqs' = Reqs
      <4>1. [Reqs[h] EXCEPT !.stage = "asked"] = Reqs[h]
        BY <3>3, WithStage DEF ReqOf
      <4>2. QED  BY <3>2, <4>1 DEF Reqs
    <3>5. QED  BY <2>1, <3>2, <3>4, Stutters
  <2>3. CASE MySQLFailed(h)
    BY <1>2, <2>1, <2>3
  <2>4. QED  BY <1>4, <2>2, <2>3 DEF FirstMachine
<1>5. CASE CreateMachine(h)
  <2>1. handler[h].pc = "create"
    BY <1>5 DEF CreateMachine
  <2>2. ASSUME Inserted(handler[h].mach, handler[h].ip)
        PROVE  /\ SetBy(h) \/ machines' = machines
               /\ machines[handler[h].mach] = None => SetBy(h)
               /\ machines[handler[h].mach] # None => machines' = machines
    <3>1. CASE machines[handler[h].mach] = None
      BY <2>1, <2>2, <3>1 DEF Inserted, SetBy
    <3>2. CASE machines[handler[h].mach] # None
      <4>1. machines' = [machines EXCEPT ![handler[h].mach] = machines[handler[h].mach]]
        BY <2>2, <3>2 DEF Inserted
      <4>2. machines' = machines
        BY <1>1, <4>1 DEF TypeOK
      <4>3. QED  BY <3>2, <4>2
    <3>3. QED  BY <3>1, <3>2
  <2>3. CASE /\ Inserted(handler[h].mach, handler[h].ip)
             /\ Answer(h, IF machines[handler[h].mach] = None THEN 200 ELSE 500)
    <3>1. CASE machines[handler[h].mach] = None
      BY <1>3, <2>2, <2>3, <3>1
    <3>2. CASE machines[handler[h].mach] # None
      <4>1. AnswerWith(h, 500) /\ 500 \in {200, 500}
        BY <2>3, <3>2 DEF Answer
      <4>2. Replied(h, 500)
        BY <1>1, <4>1, Answered
      <4>3. machines' = machines
        BY <2>2, <2>3, <3>2
      <4>4. QED  BY <1>1, <4>2, <4>3, Fails
    <3>3. QED  BY <3>1, <3>2
  <2>4. CASE /\ Inserted(handler[h].mach, handler[h].ip) \/ UNCHANGED machines
             /\ MySQLFailed(h)
    BY <1>2, <2>2, <2>4
  <2>5. QED  BY <1>5, <2>3, <2>4 DEF CreateMachine
<1>6. CASE UpdateMachine(h)
  <2>1. handler[h].pc = "update"
    BY <1>6 DEF UpdateMachine
  <2>2. Updated(handler[h].mach, handler[h].ip) => SetBy(h)
    BY <2>1 DEF Updated, SetBy
  <2>3. CASE Updated(handler[h].mach, handler[h].ip) /\ Continue(h, "read")
    <3>1. Stage("read") = "written" /\ "read" \in Statement
      BY DEF Stage, Statement
    <3>2. Reqs' = [Reqs EXCEPT ![h].stage = "written"] /\ Heard' = Heard
      BY <1>1, <2>3, <3>1, Continued
    <3>3. QED  BY <2>2, <2>3, <3>2, WritesRow
  <2>4. CASE /\ Updated(handler[h].mach, handler[h].ip) \/ UNCHANGED machines
             /\ MySQLFailed(h)
    BY <1>2, <2>2, <2>4
  <2>5. QED  BY <1>6, <2>3, <2>4 DEF UpdateMachine
<1>7. CASE ReadMachine(h)
  BY <1>2, <1>3, <1>7 DEF ReadMachine
<1>8. QED  BY <1>4, <1>5, <1>6, <1>7 DEF HandlerStep

LEMMA AbandonedNone ==
  ASSUME TypeOK, NEW m \in Machine, NEW r, GivesAgent(m, r), r.reply \in {0, -1},
         handler' = handler, machines' = machines
  PROVE  Register!Next
<1>1. PICK v \in {0, -1} : v = r.reply
  OBVIOUS
<1>2. Heard' = [Heard EXCEPT ![m] = v]
  BY <1>1, HeardSets
<1>3. Reqs' = Reqs
  BY DEF Reqs
<1>4. Reqs' = [h \in Handler |-> IF h \in {} /\ handler[h].mach = m
                                 THEN [Reqs[h] EXCEPT !.client = FALSE] ELSE Reqs[h]]
  BY <1>3 DEF Reqs
<1>5. {} \in SUBSET Handler
  OBVIOUS
<1>6. QED  BY <1>2, <1>4, <1>5, Abandons

LEMMA Unheard ==
  ASSUME TypeOK, NEW m \in Machine, NEW r, GivesAgent(m, r), r.reply = agent[m].reply,
         handler' = handler, machines' = machines
  PROVE  UNCHANGED Register!vars
<1>1. Heard' = [Heard EXCEPT ![m] = agent[m].reply]
  BY HeardSets
<1>2. Heard' = Heard
  BY <1>1 DEF Heard
<1>3. Reqs' = Reqs
  BY DEF Reqs
<1>4. QED  BY <1>2, <1>3, Stutters

Stages == {"none", "asked", "written"}
Entry == [mach : Machine, ip : Address, client : BOOLEAN, stage : Stages]

LEMMA SameEntry ==
  ASSUME NEW r \in Entry, NEW s \in Entry, r.mach = s.mach, r.ip = s.ip,
         r.client = s.client, r.stage = s.stage
  PROVE  r = s
BY DEF Entry

Left(r) == [r EXCEPT !.client = FALSE]

LEMMA LeftEntry ==
  ASSUME NEW r \in Entry
  PROVE  /\ Left(r) \in Entry /\ Left(r).mach = r.mach /\ Left(r).ip = r.ip
         /\ ~Left(r).client /\ Left(r).stage = r.stage
BY DEF Entry, Left

LEMMA LeftRequest ==
  ASSUME NEW q \in Request
  PROVE  /\ Left(q) \in Request /\ Left(q).pc = q.pc /\ Left(q).mach = q.mach
         /\ Left(q).ip = q.ip /\ ~Left(q).client
BY DEF Request, Left

LEMMA EntryOf ==
  ASSUME NEW q \in Request
  PROVE  /\ ReqOf(q) \in Entry /\ ReqOf(q).mach = q.mach /\ ReqOf(q).ip = q.ip
         /\ ReqOf(q).client = q.client /\ ReqOf(q).stage = Stage(q.pc)
<1>1. /\ q.mach \in Machine /\ q.ip \in Address /\ q.client \in BOOLEAN
      /\ Stage(q.pc) \in Stages
  BY DEF Request, Address, Stage, Stages
<1>2. QED  BY <1>1 DEF ReqOf, Entry

LEMMA WithoutClient ==
  ASSUME NEW q \in Request
  PROVE  ReqOf(Left(q)) = Left(ReqOf(q))
<1>1. /\ ReqOf(Left(q)) \in Entry /\ ReqOf(Left(q)).mach = q.mach
      /\ ReqOf(Left(q)).ip = q.ip /\ ReqOf(Left(q)).stage = Stage(q.pc)
      /\ ~ReqOf(Left(q)).client
  BY LeftRequest, EntryOf
<1>2. /\ Left(ReqOf(q)) \in Entry /\ Left(ReqOf(q)).mach = q.mach
      /\ Left(ReqOf(q)).ip = q.ip /\ Left(ReqOf(q)).stage = Stage(q.pc)
      /\ ~Left(ReqOf(q)).client
  BY EntryOf, LeftEntry
<1>3. \A e \in Entry : e.client \in BOOLEAN
  BY DEF Entry
<1>4. QED  BY <1>1, <1>2, <1>3, SameEntry

LEMMA TimeOutMapped ==
  ASSUME TypeOK, NEW h \in Handler, TimeOut(h)
  PROVE  Register!Next
<1>1. handler[h] \in Request /\ handler[h].mach \in Machine
  BY IsRequest DEF TimeOut
<1>2. PICK m \in Machine : m = handler[h].mach
  BY <1>1
<1>3. Heard' = [Heard EXCEPT ![m] = -1]
  <2>1. GivesReply(m, -1) /\ -1 \in Reply
    BY <1>2 DEF TimeOut, GivesReply, Reply
  <2>2. QED  BY <2>1, HeardReply
<1>4. Reqs' = [Reqs EXCEPT ![h] = Left(Reqs[h])]
  <2>1. GivesHandler(h, Left(handler[h]))
    BY DEF TimeOut, GivesHandler, Left
  <2>2. ReqOf(Left(handler[h])) = Left(Reqs[h])
    BY <1>1, WithoutClient, Fields
  <2>3. QED  BY <2>1, <2>2, ReqsSet
<1>5. Reqs' = [k \in Handler |-> IF k \in {h} /\ handler[k].mach = m
                                 THEN [Reqs[k] EXCEPT !.client = FALSE] ELSE Reqs[k]]
  <2>1. Reqs' = [k \in Handler |-> IF k \in {h} /\ handler[k].mach = m
                                   THEN Left(Reqs[k]) ELSE Reqs[k]]
    BY <1>2, <1>4 DEF Reqs
  <2>2. QED  BY <2>1 DEF Left
<1>6. machines' = machines /\ {h} \in SUBSET Handler
  BY DEF TimeOut
<1>7. QED  BY <1>3, <1>5, <1>6, Abandons

LEMMA RestartMapped ==
  ASSUME TypeOK, NEW m \in Machine, RestartAgent(m)
  PROVE  Register!Next
<1>1. PICK sampled \in BOOLEAN : GivesAgent(m, Started(agent[m].ip + 1, sampled))
  BY DEF RestartAgent, GivesAgent
<1>2. Heard' = [Heard EXCEPT ![m] = 0]
  <2>1. Started(agent[m].ip + 1, sampled).reply = 0
    BY DEF Started
  <2>2. QED  BY <1>1, <2>1, HeardSets
<1>3. Reqs' = [k \in Handler |-> IF k \in Handler /\ handler[k].mach = m
                                 THEN [Reqs[k] EXCEPT !.client = FALSE] ELSE Reqs[k]]
  <2>1. \A k \in Handler : handler'[k] = IF handler[k].mach = m THEN Left(handler[k])
                                         ELSE handler[k]
    BY DEF RestartAgent, Left
  <2>2. \A k \in Handler : handler[k].mach = m => ReqOf(Left(handler[k])) = Left(Reqs[k])
    BY IsRequest, WithoutClient, Fields
  <2>3. \A k \in Handler : ReqOf(handler'[k]) = IF handler[k].mach = m THEN Left(Reqs[k])
                                                ELSE Reqs[k]
    BY <2>1, <2>2, Fields
  <2>4. Reqs' = [k \in Handler |-> ReqOf(handler'[k])]
    BY DEF Reqs
  <2>5. Reqs' = [k \in Handler |-> IF k \in Handler /\ handler[k].mach = m
                                   THEN Left(Reqs[k]) ELSE Reqs[k]]
    BY <2>3, <2>4
  <2>6. QED  BY <2>5 DEF Left
<1>4. machines' = machines /\ Handler \in SUBSET Handler
  BY DEF RestartAgent
<1>5. QED  BY <1>2, <1>3, <1>4, Abandons

\* The agent with its request posted and the reply v.
Posted(m, v) == SetReply(SetPc(agent[m], "wait"), v)

LEMMA PostedReply ==
  ASSUME TypeOK, NEW m \in Machine, NEW v \in Reply
  PROVE  Posted(m, v).reply = v
<1>1. agent[m] \in Agent /\ "wait" \in AgentPc
  BY AgentPcs DEF TypeOK
<1>2. SetPc(agent[m], "wait") \in Agent
  BY <1>1, SetPcFields
<1>3. QED  BY <1>2, SetReplyFields DEF Posted

LEMMA PostMapped ==
  ASSUME IInv, NEW m \in Machine, PostRegister(m)
  PROVE  Register!Next
<1>1. TypeOK /\ machines' = machines
  BY DEF IInv, PostRegister
<1>2. CASE agent' = [agent EXCEPT ![m].pc = "wait", ![m].reply = -1] /\ UNCHANGED handler
  <2>1. PICK v \in Reply : v = -1
    BY AgentPcs
  <2>2. GivesAgent(m, Posted(m, v))
    <3>1. agent' = [agent EXCEPT ![m].pc = "wait", ![m].reply = v]
      BY <1>2, <2>1
    <3>2. QED  BY <3>1, SetsFields DEF GivesAgent, Posted
  <2>3. Posted(m, v).reply \in {0, -1}
    BY <1>1, <2>1, PostedReply
  <2>4. QED  BY <1>1, <1>2, <2>2, <2>3, AbandonedNone
<1>3. ASSUME NEW h \in Handler, handler[h] = NoRequest,
             handler' = [handler EXCEPT ![h] =
               [pc |-> "first", mach |-> m, ip |-> agent[m].ip, client |-> TRUE]],
             agent' = [agent EXCEPT ![m].pc = "wait", ![m].reply = 0]
      PROVE  Register!Next
  <2>1. GivesAgent(m, Posted(m, 0)) /\ Posted(m, 0).reply = 0
    BY <1>1, <1>3, SetsFields, PostedReply, AgentPcs DEF GivesAgent, Posted
  <2>2. Heard' = [Heard EXCEPT ![m] = 0]
    BY <1>1, <2>1, HeardSets
  <2> DEFINE q == [pc |-> "first", mach |-> m, ip |-> agent[m].ip, client |-> TRUE]
  <2>3. GivesHandler(h, q)
    BY <1>3 DEF GivesHandler
  <2>4. ReqOf(q) = [mach |-> m, ip |-> agent[m].ip, client |-> TRUE, stage |-> "asked"]
    BY DEF ReqOf, Stage
  <2> HIDE DEF q
  <2>5. Reqs' = [Reqs EXCEPT ![h] = [mach |-> m, ip |-> agent[m].ip, client |-> TRUE,
                                     stage |-> "asked"]]
    BY <1>1, <2>3, <2>4, ReqsSet
  <2>6. agent[m].ip \in 0..MaxRestarts
    BY <1>1 DEF TypeOK, Agent
  <2>7. QED  BY <1>1, <1>3, <2>2, <2>5, <2>6, Asks
<1>4. QED  BY <1>2, <1>3 DEF PostRegister

LEMMA ReturnedMapped ==
  ASSUME IInv, NEW m \in Machine, RegisterReturned(m)
  PROVE  Register!Next
<1>1. TypeOK /\ UNCHANGED <<handler, machines>>
  BY DEF IInv, RegisterReturned
<1>2. PICK r : GivesAgent(m, r) /\ r.reply = 0
  BY RegisterReturnedSets DEF GivesAgent
<1>3. QED  BY <1>1, <1>2, AbandonedNone

LEMMA ReportLoopMapped ==
  ASSUME IInv, NEW m \in Machine, Collect(m) \/ CheckRegistered(m) \/ RetryDue(m)
  PROVE  UNCHANGED Register!vars
<1>1. TypeOK /\ UNCHANGED <<handler, machines>>
  BY ReportLoopSets DEF IInv
<1>2. PICK r : GivesAgent(m, r) /\ r.reply = agent[m].reply
  BY ReportLoopSets DEF GivesAgent
<1>3. QED  BY <1>1, <1>2, Unheard

LEMMA InitMapped == Init => Register!Init
<1> SUFFICES ASSUME Init PROVE Register!Init
  OBVIOUS
<1>1. Reqs = [h \in Handler |-> Register!NoRequest]
  BY NoReq DEF Init, Reqs
<1>2. Heard = [m \in Machine |-> 0]
  BY DEF Init, Heard, Started
<1>3. QED  BY <1>1, <1>2 DEF Init, Register!Init, Reqs, Heard, ReqOf

LEMMA StepMapped == IInv /\ [Next]_vars => [Register!Next]_(Register!vars)
<1> SUFFICES ASSUME IInv, [Next]_vars PROVE Register!Next \/ UNCHANGED Register!vars
  OBVIOUS
<1>1. TypeOK
  BY DEF IInv
<1>2. ASSUME NEW h \in Handler, HandlerStep(h)
      PROVE  Register!Next \/ UNCHANGED Register!vars
  BY <1>1, <1>2, HandlerMapped
<1>3. ASSUME NEW h \in Handler, TimeOut(h) PROVE Register!Next
  BY <1>1, <1>3, TimeOutMapped
<1>4. ASSUME NEW m \in Machine, PostRegister(m) PROVE Register!Next
  BY <1>4, PostMapped
<1>5. ASSUME NEW m \in Machine, RegisterReturned(m) PROVE Register!Next
  BY <1>5, ReturnedMapped
<1>6. ASSUME NEW m \in Machine, Collect(m) \/ CheckRegistered(m) \/ RetryDue(m)
      PROVE  UNCHANGED Register!vars
  BY <1>6, ReportLoopMapped
<1>7. ASSUME NEW m \in Machine, RestartAgent(m) PROVE Register!Next
  BY <1>1, <1>7, RestartMapped
<1>8. CASE UNCHANGED vars
  <2>1. Reqs' = Reqs /\ Heard' = Heard /\ machines' = machines
    BY <1>8 DEF vars, Reqs, Heard
  <2>2. QED  BY <2>1, Stutters
<1>9. ASSUME NEW m \in Machine, SkipReport(m) PROVE UNCHANGED vars
  BY <1>9 DEF SkipReport
<1>10. QED  BY <1>2, <1>3, <1>4, <1>5, <1>6, <1>7, <1>8, <1>9 DEF Next, AgentStep

(* main.go 86-139: the lookup, the insert or update and the read of the         *)
(* register handler are together one write of the row, at one instant between   *)
(* the request and its answer, although they run in no transaction, at the same *)
(* time as those of other requests, and on after the agent has gone.            *)
THEOREM HandlerIsRegister == Spec => ImplementsRegister
<1>1. Spec => Register!Init /\ [][Register!Next]_(Register!vars)
  BY InitMapped, StepMapped, Invariance, PTL DEF Spec
<1>2. QED  BY <1>1 DEF ImplementsRegister, Register!Spec
=============================================================================
