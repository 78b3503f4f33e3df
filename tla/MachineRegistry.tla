--------------------------- MODULE MachineRegistry ---------------------------
(***************************************************************************)
(* Registration of machines: the agent (agent/main.go) registers when it    *)
(* starts and, if that failed, from its report loop; the register handler   *)
(* of the server (main.go) looks the machine up and creates or updates its  *)
(* row in MySQL, one statement at a time and without a transaction.         *)
(***************************************************************************)
EXTENDS Integers, FiniteSets

CONSTANTS
  Machine,     \* machine ids, the unique index of the table
  Handler,     \* goroutines in which the server can be handling a registration
  None,        \* no row, no client
  Faults,      \* what may go wrong: a subset of FaultKind
  FirstAttempts, \* maxAttempts of the first registration, 5 in the code
  MaxRestarts, \* restarts of one agent, a bound
  MaxFaults    \* errors of MySQL and timeouts, a bound

FaultKind == {"db", "timeout", "server"}

ASSUME RegistryAssumption ==
  /\ None \notin Machine \cup Nat
  /\ Faults \subseteq FaultKind
  /\ FirstAttempts \in Nat \ {0}
  /\ MaxRestarts \in Nat /\ MaxFaults \in Nat

VARIABLES
  agent,     \* agent[m]: the agent process of m
  handler,   \* handler[h]: the request in goroutine h
  machines,  \* machines[m]: the address in the row of m, or None
  outlived,  \* history: a request of m was left behind by its client
  answers,   \* history: the statuses the handler has answered
  faults     \* how many there were: a bound
vars == <<agent, handler, machines, outlived, answers, faults>>

\* ip stands for what the agent registers: a restarted agent has another one.
\* attempt and max are the locals of registerMachineWithRetry, started says that
\* the report loop has reported, due that nextRegisterRetryAt is over; sampled that
\* cpu.Percent returns something to this process.
Agent == [pc : {"post", "wait", "collect", "check"}, ip : 0..MaxRestarts,
          attempt : 1..FirstAttempts, max : {1, FirstAttempts},
          registered : BOOLEAN, started : BOOLEAN, due : BOOLEAN, sampled : BOOLEAN,
          reply : {0, 200, 500, -1}]
Started(ip, sampled) == [pc |-> "post", ip |-> ip, attempt |-> 1, max |-> FirstAttempts,
                         registered |-> FALSE, started |-> FALSE, due |-> FALSE,
                         sampled |-> sampled, reply |-> 0]

NoRequest == [pc |-> "idle", mach |-> None, ip |-> 0, client |-> FALSE]
Request == [pc : {"first", "create", "update", "read"}, mach : Machine,
            ip : 0..MaxRestarts, client : BOOLEAN]

\* What the lookup found is still there when the handler updates it.
TypeOK ==
  /\ agent \in [Machine -> Agent]
  /\ handler \in [Handler -> Request \cup {NoRequest}]
  /\ machines \in [Machine -> 0..MaxRestarts \cup {None}]
  /\ \A h \in Handler : handler[h].pc \in {"update", "read"} => machines[handler[h].mach] # None
  /\ outlived \in [Machine -> BOOLEAN]
  /\ answers \subseteq {200, 500}
  /\ faults \in 0..MaxFaults

Init ==
  /\ agent \in [Machine -> {Started(0, sampled) : sampled \in BOOLEAN}]
  /\ handler = [h \in Handler |-> NoRequest]
  /\ machines = [m \in Machine |-> None]
  /\ outlived = [m \in Machine |-> FALSE]
  /\ answers = {}
  /\ faults = 0

Fault(kind) ==
  /\ kind \in Faults
  /\ faults < MaxFaults
  /\ faults' = faults + 1

-----------------------------------------------------------------------------
(* The register handler.                                                      *)

AnswerWith(h, status) ==
  LET m == handler[h].mach IN
  /\ handler' = [handler EXCEPT ![h] = NoRequest]
  /\ answers' = answers \cup {status}
  /\ agent' = IF handler[h].client THEN [agent EXCEPT ![m].reply = status] ELSE agent

Answer(h, status) == AnswerWith(h, status) /\ UNCHANGED faults
ErrorIgnored(h) == AnswerWith(h, 200) /\ Fault("db")           \* mutant
MySQLFailed(h) == AnswerWith(h, 500) /\ Fault("db")

Continue(h, pc) ==
  /\ handler' = [handler EXCEPT ![h].pc = pc]
  /\ UNCHANGED <<agent, answers, faults>>

\* db.Where("machine_id = ?").First, and ErrRecordNotFound.
AlwaysUpdate(row) == "update"                                  \* mutant
NextStatement(row) == IF row = None THEN "create" ELSE "update"

FirstMachine(h) ==
  /\ handler[h].pc = "first"
  /\ \/ Continue(h, NextStatement(machines[handler[h].mach]))
     \/ MySQLFailed(h)
  /\ UNCHANGED <<machines, outlived>>

\* A row is inserted once per machine_id: the index refuses a second one.  A
\* statement that reports an error may have been executed.
Inserted(m, ip) == machines' = [machines EXCEPT ![m] = IF @ = None THEN ip ELSE @]

CreateMachine(h) ==
  LET m == handler[h].mach IN
  /\ handler[h].pc = "create"
  /\ \/ /\ Inserted(m, handler[h].ip)
        /\ Answer(h, IF machines[m] = None THEN 200 ELSE 500)
     \/ /\ Inserted(m, handler[h].ip) \/ UNCHANGED machines
        /\ MySQLFailed(h)
  /\ UNCHANGED outlived

\* db.Model(&machine).Updates
KeptRow(m, ip) == UNCHANGED machines                           \* mutant
Updated(m, ip) == machines' = [machines EXCEPT ![m] = ip]

UpdateMachine(h) ==
  LET m == handler[h].mach IN
  /\ handler[h].pc = "update"
  /\ \/ Updated(m, handler[h].ip) /\ Continue(h, "read")
     \/ /\ Updated(m, handler[h].ip) \/ UNCHANGED machines
        /\ MySQLFailed(h)
  /\ UNCHANGED outlived

\* db.First(&machine, machine.ID), the row that the answer shows.
ReadMachine(h) ==
  /\ handler[h].pc = "read"
  /\ \/ Answer(h, 200)
     \/ MySQLFailed(h)
  /\ UNCHANGED <<machines, outlived>>

-----------------------------------------------------------------------------
(* The agent.                                                                 *)

\* registerOnce
PostRegister(m) ==
  /\ agent[m].pc = "post"
  /\ \/ \E h \in Handler :
          /\ handler[h] = NoRequest
          /\ handler' = [handler EXCEPT ![h] =
               [pc |-> "first", mach |-> m, ip |-> agent[m].ip, client |-> TRUE]]
          /\ agent' = [agent EXCEPT ![m].pc = "wait", ![m].reply = 0]
     \/ /\ "server" \in Faults        \* the server is not there
        /\ agent' = [agent EXCEPT ![m].pc = "wait", ![m].reply = -1]
        /\ UNCHANGED handler
  /\ UNCHANGED <<machines, outlived, answers, faults>>

\* client.Timeout: the handler, which has no context, works on.
TimeOut(h) ==
  /\ Fault("timeout")
  /\ handler[h].client
  /\ handler' = [handler EXCEPT ![h].client = FALSE]
  /\ agent' = [agent EXCEPT ![handler[h].mach].reply = -1]
  /\ outlived' = [outlived EXCEPT ![handler[h].mach] = TRUE]
  /\ UNCHANGED <<machines, answers>>

\* The loop of registerMachineWithRetry: the next attempt, or its result.  The
\* report loop comes next, and the next retry is due in 30 seconds.
RetryForever(a) == TRUE                                        \* mutant
RetryNow(a) == a.attempt < a.max

RegisterReturned(m) ==
  LET a == agent[m] IN
  /\ a.pc = "wait" /\ a.reply # 0
  /\ agent' = [agent EXCEPT ![m] =
       IF a.reply # 200 /\ RetryNow(a)
       THEN [a EXCEPT !.pc = "post", !.reply = 0,
                      !.attempt = IF @ < FirstAttempts THEN @ + 1 ELSE @]
       ELSE [a EXCEPT !.pc = "collect", !.reply = 0, !.due = FALSE,
                      !.registered = a.reply = 200]]
  /\ UNCHANGED <<handler, machines, outlived, answers, faults>>

\* A turn of the report loop with a CPU sample, up to the log line.
Collect(m) ==
  /\ agent[m].pc = "collect"
  /\ agent[m].sampled
  /\ agent' = [agent EXCEPT ![m].pc = "check", ![m].started = TRUE]
  /\ UNCHANGED <<handler, machines, outlived, answers, faults>>

\* A turn without a CPU sample sleeps and starts over.
SkipReport(m) ==
  /\ agent[m].pc = "collect"
  /\ ~agent[m].sampled
  /\ UNCHANGED vars

\* !registered && time.Now().After(nextRegisterRetryAt)
NeverRetry(a) == FALSE                                         \* mutant
RetryRegister(a) == ~a.registered /\ a.due

CheckRegistered(m) ==
  LET a == agent[m] IN
  /\ a.pc = "check"
  /\ agent' = [agent EXCEPT ![m] =
       IF RetryRegister(a) THEN [a EXCEPT !.pc = "post", !.attempt = 1, !.max = 1]
                           ELSE [a EXCEPT !.pc = "collect"]]
  /\ UNCHANGED <<handler, machines, outlived, answers, faults>>

RetryDue(m) ==
  /\ agent[m].pc \in {"collect", "check"} /\ ~agent[m].due
  /\ agent' = [agent EXCEPT ![m].due = TRUE]
  /\ UNCHANGED <<handler, machines, outlived, answers, faults>>

\* The host restarts, with a new address.
RestartAgent(m) ==
  /\ agent[m].ip < MaxRestarts
  /\ \E sampled \in BOOLEAN :
       agent' = [agent EXCEPT ![m] = Started(agent[m].ip + 1, sampled)]
  /\ handler' = [h \in Handler |-> IF handler[h].mach = m
                                   THEN [handler[h] EXCEPT !.client = FALSE]
                                   ELSE handler[h]]
  /\ outlived' = [outlived EXCEPT ![m] = @ \/ \E h \in Handler : handler[h].mach = m]
  /\ UNCHANGED <<machines, answers, faults>>

-----------------------------------------------------------------------------
HandlerStep(h) ==
  FirstMachine(h) \/ CreateMachine(h) \/ UpdateMachine(h) \/ ReadMachine(h)
AgentStep(m) ==
  PostRegister(m) \/ RegisterReturned(m) \/ Collect(m) \/ SkipReport(m) \/ CheckRegistered(m)

Next ==
  \/ \E h \in Handler : HandlerStep(h) \/ TimeOut(h)
  \/ \E m \in Machine : AgentStep(m) \/ RetryDue(m) \/ RestartAgent(m)

Spec == Init /\ [][Next]_vars

\* Every call returns or times out, the agent sleeps for a bounded time, and the
\* 30 seconds pass.
FairSpec ==
  /\ Spec
  /\ \A h \in Handler : WF_vars(HandlerStep(h))
  /\ \A m \in Machine : WF_vars(AgentStep(m)) /\ WF_vars(RetryDue(m))

-----------------------------------------------------------------------------
(* Properties.                                                                *)

\* A registered agent has a row; and the row shows what it registered, unless a
\* request that an earlier client left behind was still being handled: only
\* then can the lookup and the update of two requests interleave.
RowIsCurrent ==
  \A m \in Machine :
    agent[m].registered =>
      /\ machines[m] # None
      /\ ~outlived[m] => machines[m] = agent[m].ip

\* agent/main.go:56: a failed first registration "does not affect reporting":
\* whatever the server answers, or if it never does, the agent comes to its report
\* loop and reports, if it has a CPU sample to report.
ReportsRegardless ==
  \A m \in Machine : ~agent[m].started ~> agent[m].started \/ ~agent[m].sampled

\* agent/main.go:56: "it will go on retrying": an agent that is not turned away for
\* ever gets registered, also when its first attempts failed or raced with one
\* another.  One without CPU samples does not: the retry is skipped (67-71).
TurnedAway(m) == agent[m].reply = -1
EventuallyRegistered ==
  \A m \in Machine :
    \/ []<>TurnedAway(m)
    \/ ~agent[m].registered ~> agent[m].registered \/ ~agent[m].sampled

\* test.http:18: "registering the same machine again reports no error", while
\* MySQL works.
RegisteringAgainSucceeds == 500 \notin answers

\* The lookup, the insert or update and the read are statements of their own,
\* without a transaction, and requests of one machine, also abandoned ones, are
\* handled at the same time: still each writes its row at one instant, once at
\* most, and whoever hears 200 has been written.
Stage(pc) == CASE pc = "idle" -> "none" [] pc = "read" -> "written" [] OTHER -> "asked"
Register == INSTANCE MachineRegister WITH
  Address <- 0..MaxRestarts,
  rows    <- machines,
  request <- [h \in Handler |->
               [mach |-> handler[h].mach, ip |-> handler[h].ip,
                client |-> handler[h].client, stage |-> Stage(handler[h].pc)]],
  heard   <- [m \in Machine |-> agent[m].reply]
ImplementsRegister == Register!Spec
=============================================================================
