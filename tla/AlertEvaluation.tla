--------------------------- MODULE AlertEvaluation ---------------------------
(***************************************************************************)
(* CPU alerting of the server: evaluateCPUAlert (main.go) on top of the     *)
(* alert state store (alert_store.go), the notifier (notifier.go) and the   *)
(* audit table of alert events (alert_event.go).                            *)
(*                                                                          *)
(* Every accepted sample is evaluated by one goroutine, a Handler, of one   *)
(* server process, a Replica.  A goroutine makes one call on the store, the *)
(* webhook or MySQL at a time, and any other goroutine may run between two  *)
(* calls: each call is one action.  Replicas share Redis, or each counts in *)
(* its own memory when ALERT_STORE=memory or Redis did not answer at start. *)
(***************************************************************************)
EXTENDS Integers, FiniteSets, Functions

CONSTANTS
  Machine,            \* machine ids
  Replica,            \* server processes
  Handler,            \* goroutines that can be evaluating at the same time
  Redis,              \* the shared store; the store in r's memory is r itself
  None,               \* no process, no machine
  AlertTriggerCount,  \* ALERT_TRIGGER_COUNT
  Cooldown,           \* ALERT_COOLDOWN_SECONDS, in ticks
  CountTTL,           \* the hour of alert_store.go:46, in ticks
  AlertStoreType,     \* ALERT_STORE
  Faults,             \* what may fail: a subset of FaultKind
  Overlap,            \* may two samples of one machine be in evaluation at once?
  MaxSamples, MaxTime, MaxCrashes  \* bounds of a finite run

FaultKind == {"redis", "webhook", "db", "crash"}

ASSUME ConstantsAssumption ==
  /\ IsFiniteSet(Handler)
  /\ None \notin Machine \cup Replica
  /\ Redis \notin Replica \cup {None}
  /\ AlertTriggerCount \in Nat
  /\ Cooldown \in Nat
  /\ CountTTL \in Nat \ {0}
  /\ AlertStoreType \in {"redis", "memory"}
  /\ Faults \subseteq FaultKind
  /\ Overlap \in BOOLEAN
  /\ MaxSamples \in Nat /\ MaxTime \in Nat /\ MaxCrashes \in Nat

Store == Replica \cup {Redis}
Level == {"P0", "RECOVERY"}
Outcome == {"sent", "failed"}        \* AlertEventRecord.NotifyStatus
Forever == MaxTime + CountTTL + Cooldown + 1   \* a key without a TTL

VARIABLES
  now,         \* the clock, in ticks
  store,       \* store[r]: the alertStore of process r, None while it is down
  count,       \* count[s][m]: the consecutive breaches store s holds for m
  countUntil,  \* countUntil[s][m]: when that key expires
  coolUntil,   \* coolUntil[s][m]: when the cooldown of m ends
  task,        \* task[h]: the evaluation goroutine h is running
  rows,        \* rows[m][level][status]: rows of the alert event table
  serverAlertNotificationsTotal, \* [r][status]: the Prometheus counter of
               \* process r, of level P0; it starts at 0 in every process
  samples, crashes,   \* how many there were: bounds
  \* History, read by properties only:
  notified,    \* notified[m][level][status]: notifications that really ended so
  won,         \* won[s][m]: cooldowns taken from store s since it was created
  attempts,    \* attempts[s][m]: P0 notifications tried under those cooldowns
  streak,      \* streak[m]: breaching samples since the last normal one
  ended,       \* ended[m]: the streak that the last normal sample ended
  alerted      \* alerted[m]: a P0 was tried since the last RECOVERY

keys == <<count, countUntil, coolUntil>>
audit == <<rows, serverAlertNotificationsTotal, notified>>
cooldownHistory == <<won, attempts>>
sampleHistory == <<streak, ended>>
environment == <<now, store, samples, crashes>>
vars == <<keys, task, audit, cooldownHistory, sampleHistory, alerted, environment>>

Stage == {"increment", "expire", "acquire", "notifyAlert", "countAlert",
          "saveAlert", "get", "reset", "notifyRecovery", "saveRecovery"}

\* n holds the local count (or prevCount), status the local notifyStatus.
Task == [pc : Stage, rep : Replica, mach : Machine, n : Nat,
         status : Outcome \cup {"none"}]
Idle == [pc |-> "idle", rep |-> None, mach |-> None, n |-> 0, status |-> "none"]

\* A running evaluation belongs to a live process, and knows the outcome of its
\* notification by the time it counts and saves it.
TaskOK ==
  /\ task \in [Handler -> Task \cup {Idle}]
  /\ \A h \in Handler :
       /\ task[h].pc # "idle" => store[task[h].rep] # None
       /\ task[h].pc \in {"countAlert", "saveAlert", "saveRecovery"}
            => task[h].status \in Outcome

KeysOK ==
  /\ count \in [Store -> [Machine -> Nat]]
  /\ countUntil \in [Store -> [Machine -> Nat]]
  /\ coolUntil \in [Store -> [Machine -> Nat]]

AuditOK ==
  /\ rows \in [Machine -> [Level -> [Outcome -> Nat]]]
  /\ serverAlertNotificationsTotal \in [Replica -> [Outcome -> Nat]]
  /\ notified \in [Machine -> [Level -> [Outcome -> Nat]]]

HistoryOK ==
  /\ won \in [Store -> [Machine -> Nat]]
  /\ attempts \in [Store -> [Machine -> Nat]]
  /\ streak \in [Machine -> Nat]
  /\ ended \in [Machine -> Nat]
  /\ alerted \in [Machine -> BOOLEAN]

EnvironmentOK ==
  /\ now \in 0..MaxTime
  /\ \A r \in Replica : store[r] \in {r, Redis, None}
  /\ store \in [Replica -> Store \cup {None}]
  /\ samples \in 0..MaxSamples
  /\ crashes \in 0..MaxCrashes

TypeOK == TaskOK /\ KeysOK /\ AuditOK /\ HistoryOK /\ EnvironmentOK

NoneYet == [o \in Outcome |-> 0]
Zero == [lv \in Level |-> NoneYet]

Init ==
  /\ now = 0
  /\ store = [r \in Replica |-> None]
  /\ count = [s \in Store |-> [m \in Machine |-> 0]]
  /\ countUntil = [s \in Store |-> [m \in Machine |-> Forever]]
  /\ coolUntil = [s \in Store |-> [m \in Machine |-> 0]]
  /\ task = [h \in Handler |-> Idle]
  /\ rows = [m \in Machine |-> Zero]
  /\ serverAlertNotificationsTotal = [r \in Replica |-> NoneYet]
  /\ notified = [m \in Machine |-> Zero]
  /\ samples = 0
  /\ crashes = 0
  /\ won = [s \in Store |-> [m \in Machine |-> 0]]
  /\ attempts = [s \in Store |-> [m \in Machine |-> 0]]
  /\ streak = [m \in Machine |-> 0]
  /\ ended = [m \in Machine |-> 0]
  /\ alerted = [m \in Machine |-> FALSE]

-----------------------------------------------------------------------------
(* The store.  A Redis call may fail before it takes effect, or take effect  *)
(* and lose its answer (a timeout, a request context that the client's       *)
(* disconnection cancels); memory calls ignore the context and never fail.   *)

StoreOf(h) == store[task[h].rep]

CallResult(s) == IF s = Redis /\ "redis" \in Faults
                 THEN {"ok", "failed", "lost"} ELSE {"ok"}

\* What GET and INCR see: an expired key is a missing key, and counts 0.
Count(s, m) == IF now < countUntil[s][m] THEN count[s][m] ELSE 0

\* SETNX finds no live key; for the map, ~(exists && now.Before(expireAt)).
CooldownFreeEarly(s, m) == now + 1 >= coolUntil[s][m]      \* mutant
CooldownFree(s, m) == now >= coolUntil[s][m]

\* Redis keeps a key set with ttl 0 forever; in memory it expires at once.
CooldownEnd(s) == IF s = Redis /\ Cooldown = 0 THEN Forever ELSE now + Cooldown

\* INCR keeps the TTL of a live key and creates a key without one.
Incremented(s, m) ==
  /\ count' = [count EXCEPT ![s][m] = Count(s, m) + 1]
  /\ countUntil' = IF Count(s, m) = 0
                   THEN [countUntil EXCEPT ![s][m] = Forever]
                   ELSE countUntil

\* DEL of the count key.
KeptOnReset(s, m) == UNCHANGED <<count, countUntil>>       \* mutant
Cleared(s, m) ==
  /\ count' = [count EXCEPT ![s][m] = 0]
  /\ countUntil' = [countUntil EXCEPT ![s][m] = Forever]

-----------------------------------------------------------------------------
(* Evaluation.                                                               *)

Goto(h, stage) == task' = [task EXCEPT ![h].pc = stage]
Return(h) == task' = [task EXCEPT ![h] = Idle]

\* count >= cfg.AlertTriggerCount
ReachedLate(n) == n > AlertTriggerCount                    \* mutant
Reached(n) == n >= AlertTriggerCount

\* prevCount > 0
RecoveredAlways(n) == n >= 0                               \* mutant
RecoveredAboveTrigger(n) == n > AlertTriggerCount          \* mutant
Recovered(n) == n > 0

\* processMetricsPayload calls evaluateCPUAlert for a sample written to
\* VictoriaMetrics; breach is m.CPUUsage > cfg.CPUAlertThreshold.
StartEvaluation(h, r, m, breach) ==
  /\ task[h] = Idle
  /\ store[r] # None
  /\ samples < MaxSamples
  /\ Overlap \/ \A g \in Handler : task[g].mach # m
  /\ samples' = samples + 1
  /\ task' = [task EXCEPT ![h] =
               [Idle EXCEPT !.pc = IF breach THEN "increment" ELSE "get",
                            !.rep = r, !.mach = m]]
  /\ streak' = [streak EXCEPT ![m] = IF breach THEN @ + 1 ELSE 0]
  /\ ended' = [ended EXCEPT ![m] = IF breach THEN @ ELSE streak[m]]
  /\ UNCHANGED <<keys, audit, cooldownHistory, alerted, now, store, crashes>>

IncrementCPUBreach(h) ==
  LET s == StoreOf(h)  m == task[h].mach  n == Count(s, m) + 1 IN
  /\ task[h].pc = "increment"
  /\ \E res \in CallResult(s) :
       /\ IF res = "failed" THEN UNCHANGED <<count, countUntil>>
                            ELSE Incremented(s, m)
       /\ IF res # "ok" \/ (s # Redis /\ ~Reached(n))
          THEN Return(h)
          ELSE task' = [task EXCEPT ![h].n = n,
                                    ![h].pc = IF s = Redis THEN "expire"
                                                           ELSE "acquire"]
  /\ UNCHANGED <<coolUntil, audit, cooldownHistory, sampleHistory, alerted, environment>>

\* The second half of the Redis IncrementCPUBreach: EXPIRE, error ignored.
ExpireCount(h) ==
  LET s == StoreOf(h)  m == task[h].mach IN
  /\ task[h].pc = "expire"
  /\ \E res \in CallResult(s) :
       countUntil' = IF res # "failed" /\ Count(s, m) > 0
                     THEN [countUntil EXCEPT ![s][m] = now + CountTTL]
                     ELSE countUntil
  /\ IF Reached(task[h].n) THEN Goto(h, "acquire") ELSE Return(h)
  /\ UNCHANGED <<count, coolUntil, audit, cooldownHistory, sampleHistory, alerted, environment>>

\* TryAcquireCooldown on a free cooldown: it is taken, and the goroutine goes
\* on to notify if it learns so.
TryAcquireCooldown(h) ==
  LET s == StoreOf(h)  m == task[h].mach IN
  /\ task[h].pc = "acquire"
  /\ CooldownFree(s, m)
  /\ \E res \in CallResult(s) :
       /\ IF res = "failed"
          THEN UNCHANGED <<coolUntil, won>>
          ELSE /\ coolUntil' = [coolUntil EXCEPT ![s][m] = CooldownEnd(s)]
               /\ won' = [won EXCEPT ![s][m] = @ + 1]
       /\ IF res = "ok" THEN Goto(h, "notifyAlert") ELSE Return(h)
  /\ UNCHANGED <<count, countUntil, audit, attempts, sampleHistory, alerted, environment>>

\* TryAcquireCooldown during a cooldown: refused (or an error), no P0.
SuppressAlert(h) ==
  /\ task[h].pc = "acquire"
  /\ ~CooldownFree(StoreOf(h), task[h].mach)
  /\ Return(h)
  /\ UNCHANGED <<keys, audit, cooldownHistory, sampleHistory, alerted, environment>>

\* An HTTP error, a non-2xx answer or an unusable provider is "failed"; the
\* noop notifier never fails.
NotifyOutcome == IF "webhook" \in Faults THEN Outcome ELSE {"sent"}

\* The notify_status that the row of a notification gets.
AlwaysSent(level, o) == "sent"                             \* mutant
NeverSet(level, o) == "none"                               \* mutant
NotifyStatus(level, o) == IF level = "P0" THEN o ELSE "sent"

\* The webhook has answered, or not; what follows is in the process still.
Notify(h, level, next) ==
  \E o \in NotifyOutcome :
    /\ notified' = [notified EXCEPT ![task[h].mach][level][o] = @ + 1]
    /\ task' = [task EXCEPT ![h].pc = next, ![h].status = NotifyStatus(level, o)]

NotifyCPUAlert(h) ==
  /\ task[h].pc = "notifyAlert"
  /\ Notify(h, "P0", "countAlert")
  /\ attempts' = [attempts EXCEPT ![StoreOf(h)][task[h].mach] = @ + 1]
  /\ alerted' = [alerted EXCEPT ![task[h].mach] = TRUE]
  /\ UNCHANGED <<keys, rows, serverAlertNotificationsTotal, won, sampleHistory,
                 environment>>

\* Only the P0 branch increments the counter, once it knows the outcome.
CountedAsSent(r, o) ==                                     \* mutant
  [serverAlertNotificationsTotal EXCEPT ![r]["sent"] = @ + 1]
Observed(r, o) == [serverAlertNotificationsTotal EXCEPT ![r][o] = @ + 1]

CountNotification(h) ==
  /\ task[h].pc = "countAlert"
  /\ serverAlertNotificationsTotal' = Observed(task[h].rep, task[h].status)
  /\ Goto(h, "saveAlert")
  /\ UNCHANGED <<keys, rows, notified, cooldownHistory, sampleHistory, alerted,
                 environment>>

GetCPUBreachCount(h) ==
  LET s == StoreOf(h) IN
  /\ task[h].pc = "get"
  /\ \E res \in CallResult(s) :
       IF res = "ok"
       THEN task' = [task EXCEPT ![h].pc = "reset", ![h].n = Count(s, task[h].mach)]
       ELSE Return(h)
  /\ UNCHANGED <<keys, audit, cooldownHistory, sampleHistory, alerted, environment>>

ResetCPUBreach(h) ==
  LET s == StoreOf(h) IN
  /\ task[h].pc = "reset"
  /\ \E res \in CallResult(s) :
       /\ IF res = "failed" THEN UNCHANGED <<count, countUntil>>
                            ELSE Cleared(s, task[h].mach)
       /\ IF res = "ok" /\ Recovered(task[h].n) THEN Goto(h, "notifyRecovery") ELSE Return(h)
  /\ UNCHANGED <<coolUntil, audit, cooldownHistory, sampleHistory, alerted, environment>>

NotifyCPURecovery(h) ==
  /\ task[h].pc = "notifyRecovery"
  /\ Notify(h, "RECOVERY", "saveRecovery")
  /\ alerted' = [alerted EXCEPT ![task[h].mach] = FALSE]
  /\ UNCHANGED <<keys, rows, serverAlertNotificationsTotal, cooldownHistory,
                 sampleHistory, environment>>

\* saveAlertEventObserved: one row, or a logged error and no row.
SaveAlertEvent(h, level) ==
  LET m == task[h].mach IN
  /\ task[h].pc = IF level = "P0" THEN "saveAlert" ELSE "saveRecovery"
  /\ \/ rows' = [rows EXCEPT ![m][level][task[h].status] = @ + 1]
     \/ "db" \in Faults /\ UNCHANGED rows
  /\ Return(h)
  /\ UNCHANGED <<keys, serverAlertNotificationsTotal, notified, cooldownHistory,
                 sampleHistory, alerted, environment>>

-----------------------------------------------------------------------------
(* Processes and time.                                                       *)

\* initAlertStore: memory if configured, else Redis, else memory again.
StartServer(r) ==
  /\ store[r] = None
  /\ \E s \in {r, Redis} :
       /\ s = Redis => AlertStoreType = "redis"
       /\ s = r => AlertStoreType = "memory" \/ "redis" \in Faults
       /\ store' = [store EXCEPT ![r] = s]
  /\ UNCHANGED <<keys, task, audit, cooldownHistory, sampleHistory, alerted,
                 now, samples, crashes>>

\* The process dies: its goroutines and its memory, the metrics counters with it,
\* are gone, Redis is not.
Crash(r) ==
  LET none == [m \in Machine |-> 0] IN
  /\ "crash" \in Faults
  /\ store[r] # None
  /\ crashes < MaxCrashes
  /\ crashes' = crashes + 1
  /\ store' = [store EXCEPT ![r] = None]
  /\ task' = [h \in Handler |-> IF task[h].rep = r THEN Idle ELSE task[h]]
  /\ count' = [count EXCEPT ![r] = none]
  /\ countUntil' = [countUntil EXCEPT ![r] = [m \in Machine |-> Forever]]
  /\ coolUntil' = [coolUntil EXCEPT ![r] = none]
  /\ won' = [won EXCEPT ![r] = none]
  /\ attempts' = [attempts EXCEPT ![r] = none]
  /\ serverAlertNotificationsTotal' = [serverAlertNotificationsTotal EXCEPT ![r] = NoneYet]
  /\ UNCHANGED <<rows, notified, sampleHistory, alerted, now, samples>>

Tick ==
  /\ now < MaxTime
  /\ now' = now + 1
  /\ UNCHANGED <<keys, task, audit, cooldownHistory, sampleHistory, alerted,
                 store, samples, crashes>>

\* The bounds are used up and nothing is in flight.
Quiesce ==
  /\ now = MaxTime /\ samples = MaxSamples
  /\ \A h \in Handler : task[h] = Idle
  /\ UNCHANGED vars

Step(h) ==
  \/ IncrementCPUBreach(h) \/ ExpireCount(h)
  \/ TryAcquireCooldown(h) \/ SuppressAlert(h)
  \/ NotifyCPUAlert(h) \/ CountNotification(h)
  \/ GetCPUBreachCount(h) \/ ResetCPUBreach(h) \/ NotifyCPURecovery(h)
  \/ \E level \in Level : SaveAlertEvent(h, level)

Next ==
  \/ \E h \in Handler, r \in Replica, m \in Machine, breach \in BOOLEAN :
       StartEvaluation(h, r, m, breach)
  \/ \E h \in Handler : Step(h)
  \/ \E r \in Replica : StartServer(r) \/ Crash(r)
  \/ Tick
  \/ Quiesce

Spec == Init /\ [][Next]_vars

\* Every call a goroutine makes has a timeout (3 s for VictoriaMetrics, 5 s for
\* the webhook, the client defaults of Redis and MySQL), so a goroutine whose
\* process lives takes its next step; and the orchestrator starts the servers.
FairSpec ==
  /\ Spec
  /\ \A h \in Handler : WF_vars(Step(h))
  /\ \A r \in Replica : WF_vars(StartServer(r))

-----------------------------------------------------------------------------
(* Properties.                                                               *)

\* evaluateCPUAlert takes the cooldown before it notifies: through one store,
\* however the goroutines of all replicas interleave, whatever fails and
\* wherever they crash, a machine gets at most one P0 notification per cooldown
\* period that has begun (README.md:54).
P0RateBounded ==
  \A s \in Store, m \in Machine : attempts[s][m] * Cooldown <= now + Cooldown

\* Why: a P0 attempt is paid for by a cooldown that was taken for it alone, and
\* taking k cooldowns takes k cooldown periods.
Notifying(s, m) ==
  {h \in Handler : task[h].pc = "notifyAlert" /\ task[h].mach = m /\ StoreOf(h) = s}
Accounts(s, m) ==
  /\ attempts[s][m] + Cardinality(Notifying(s, m)) <= won[s][m]
  /\ won[s][m] * Cooldown <= coolUntil[s][m]
  /\ Cooldown > 0 => coolUntil[s][m] <= now + Cooldown
CooldownAccounts == \A s \in Store, m \in Machine : Accounts(s, m)

Quiet(m) == \A h \in Handler : task[h].mach # m

\* The audit trail of P0 alerts (main.go:415-449) never says "sent" or "failed"
\* of a notification that ended otherwise; when neither MySQL nor a process fails
\* every notification has its row, or is about to.
Saving(m, level, o) ==
  Cardinality({h \in Handler : /\ task[h].mach = m
                               /\ task[h].pc \in IF level = "P0"
                                                 THEN {"countAlert", "saveAlert"}
                                                 ELSE {"saveRecovery"}
                               /\ task[h].status = o})
AuditAgrees(level) ==
  \A m \in Machine, o \in Outcome :
    /\ rows[m][level][o] + Saving(m, level, o) <= notified[m][level][o]
    /\ Faults \cap {"db", "crash"} = {}
         => rows[m][level][o] + Saving(m, level, o) = notified[m][level][o]
P0AuditAgrees == AuditAgrees("P0")

\* The counter that the CloudOpsAlertNotificationFailures alert reads
\* (main.go:425, 430) never claims an outcome that no P0 notification had: summed
\* over the processes, and with the goroutines that are about to count, it is at
\* most what really happened, whatever dies between the webhook and the counter,
\* and exactly that as long as no process, and no counter with it, has died.
Counting(o) == Cardinality({h \in Handler : task[h].pc = "countAlert" /\ task[h].status = o})
P0CounterAgrees ==
  \A o \in Outcome :
    LET counted == SumFunction([r \in Replica |-> serverAlertNotificationsTotal[r][o]])
                     + Counting(o)
        told == SumFunction([m \in Machine |-> notified[m]["P0"][o]]) IN
    /\ counted <= told
    /\ crashes = 0 => counted = told

\* The log and the message of a P0 say "CPU exceeded the threshold N times in a
\* row" (main.go:408): the machine's last N samples all breached.
AlertMeansConsecutive ==
  \A h \in Handler : task[h].pc = "notifyAlert"
                       => streak[task[h].mach] >= AlertTriggerCount

\* A RECOVERY is sent for a streak that the evaluated sample ended, and the
\* count of breaches it reports (notifier.go:104) is one that streak had.
RecoveryReportsStreak ==
  \A h \in Handler : task[h].pc = "notifyRecovery"
                       => task[h].n \in 1..ended[task[h].mach]

\* Once the evaluation of a normal sample is over, the machine's alert is not
\* left open: a P0 is followed by its RECOVERY (main.go:472-508).
AlertClosedByRecovery ==
  \A m \in Machine : Quiet(m) /\ streak[m] = 0 => ~alerted[m]

\* A machine that breaches AlertTriggerCount times in a row is notified, at
\* least once, whatever the webhook and MySQL do.
Attempted(m, level) == notified[m][level]["sent"] + notified[m][level]["failed"]
SustainedBreachNotified ==
  \A m \in Machine : streak[m] >= AlertTriggerCount ~> Attempted(m, "P0") > 0

-----------------------------------------------------------------------------
(* What the code's own comments and logs say, and the code does not do.      *)

\* alert_event.go:9: the table is kept for audit.  notify_status of a RECOVERY
\* row says how its notification ended.
RecoveryAuditAgrees == AuditAgrees("RECOVERY")
=============================================================================
