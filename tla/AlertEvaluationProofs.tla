------------------------ MODULE AlertEvaluationProofs ------------------------
(* Proofs about AlertEvaluation, for every number of machines, replicas and    *)
(* goroutines, every trigger count, cooldown and set of faults.                *)
EXTENDS AlertEvaluation, SumTheorems, FiniteSetTheorems, TLAPS

LEMMA IdleFields ==
  /\ Idle.pc = "idle" /\ Idle.rep = None /\ Idle.mach = None
  /\ \A t \in Task : t.pc # "idle"
BY DEF Idle, Task, Stage

(* A goroutine that is not idle runs an evaluation on a live process. *)
LEMMA ActiveTask ==
  ASSUME TypeOK, NEW h \in Handler, task[h].pc # "idle"
  PROVE  /\ task[h] \in Task
         /\ task[h].rep \in Replica
         /\ task[h].mach \in Machine
         /\ task[h].n \in Nat
         /\ StoreOf(h) \in Store
<1>1. task[h] \in Task
  BY IdleFields DEF TypeOK, TaskOK
<1>2. task[h].rep \in Replica /\ task[h].mach \in Machine /\ task[h].n \in Nat
  BY <1>1 DEF Task
<1>3. store[task[h].rep] # None /\ store[task[h].rep] \in Store \cup {None}
  BY <1>2 DEF TypeOK, TaskOK, EnvironmentOK
<1>4. QED  BY <1>1, <1>2, <1>3 DEF StoreOf

\* The stages in which a goroutine knows how its notification ended.
Told == {"countAlert", "saveAlert", "saveRecovery"}

(* What a step of an evaluation may do to its own task: end it, or move it to
   another stage of the same evaluation. *)
Moved(h, t) ==
  /\ task' = [task EXCEPT ![h] = t]
  /\ \/ t = Idle
     \/ /\ t \in Task
        /\ t.rep = task[h].rep /\ t.mach = task[h].mach
        /\ t.pc \in Told => t.status \in Outcome

LEMMA TaskMoves ==
  ASSUME TypeOK, NEW h \in Handler, task[h].pc # "idle"
  PROVE  /\ task' = [task EXCEPT ![h] = Idle] => Moved(h, Idle)
         /\ \A pc \in Stage \ Told, n \in Nat :
              /\ task' = [task EXCEPT ![h].pc = pc] => \E t : Moved(h, t)
              /\ task' = [task EXCEPT ![h].n = n, ![h].pc = pc] => \E t : Moved(h, t)
              /\ task' = [task EXCEPT ![h].pc = pc, ![h].n = n] => \E t : Moved(h, t)
         /\ \A pc \in Stage, o \in Outcome :
              task' = [task EXCEPT ![h].pc = pc, ![h].status = o] => \E t : Moved(h, t)
         /\ task[h].status \in Outcome
              => \A pc \in Stage : task' = [task EXCEPT ![h].pc = pc] => \E t : Moved(h, t)
<1>1. task[h] \in Task /\ task \in [Handler -> Task \cup {Idle}]
  BY ActiveTask DEF TypeOK, TaskOK
<1>2. task' = [task EXCEPT ![h] = Idle] => Moved(h, Idle)
  BY DEF Moved
<1>3. ASSUME NEW pc \in Stage \ Told, NEW n \in Nat
      PROVE  /\ task' = [task EXCEPT ![h].pc = pc] => \E t : Moved(h, t)
             /\ task' = [task EXCEPT ![h].n = n, ![h].pc = pc] => \E t : Moved(h, t)
             /\ task' = [task EXCEPT ![h].pc = pc, ![h].n = n] => \E t : Moved(h, t)
  <2>1. task' = [task EXCEPT ![h].pc = pc] => Moved(h, [task[h] EXCEPT !.pc = pc])
    BY <1>1, <1>3 DEF Moved, Task
  <2>2. task' = [task EXCEPT ![h].n = n, ![h].pc = pc]
          => Moved(h, [task[h] EXCEPT !.n = n, !.pc = pc])
    BY <1>1, <1>3 DEF Moved, Task
  <2>3. task' = [task EXCEPT ![h].pc = pc, ![h].n = n]
          => Moved(h, [task[h] EXCEPT !.pc = pc, !.n = n])
    BY <1>1, <1>3 DEF Moved, Task
  <2>4. QED  BY <2>1, <2>2, <2>3
<1>4. ASSUME NEW pc \in Stage, NEW o \in Outcome,
             task' = [task EXCEPT ![h].pc = pc, ![h].status = o]
      PROVE  Moved(h, [task[h] EXCEPT !.pc = pc, !.status = o])
  BY <1>1, <1>4 DEF Moved, Task
<1>5. ASSUME task[h].status \in Outcome, NEW pc \in Stage, task' = [task EXCEPT ![h].pc = pc]
      PROVE  Moved(h, [task[h] EXCEPT !.pc = pc])
  BY <1>1, <1>5 DEF Moved, Task
<1>6. QED  BY <1>2, <1>3, <1>4, <1>5

LEMMA StepMoves ==
  ASSUME TypeOK, NEW h \in Handler, Step(h)
  PROVE  /\ task[h].pc # "idle"
         /\ \E t : Moved(h, t)
         /\ UNCHANGED environment
<1>1. CASE IncrementCPUBreach(h)
  <2>1. task[h].pc # "idle" /\ UNCHANGED environment
    BY <1>1 DEF IncrementCPUBreach
  <2>2. Count(StoreOf(h), task[h].mach) + 1 \in Nat
    BY <2>1, ActiveTask DEF Count, TypeOK, KeysOK
  <2>3. QED  BY <1>1, <2>1, <2>2, TaskMoves DEF Told, IncrementCPUBreach, Return, Stage
<1>2. CASE ExpireCount(h)
  BY <1>2, TaskMoves DEF Told, ExpireCount, Goto, Return, Stage
<1>3. CASE TryAcquireCooldown(h)
  BY <1>3, TaskMoves DEF Told, TryAcquireCooldown, Goto, Return, Stage
<1>4. CASE SuppressAlert(h)
  BY <1>4, TaskMoves DEF Told, SuppressAlert, Return
<1>5. CASE NotifyCPUAlert(h)
  BY <1>5, TaskMoves DEF Told, NotifyCPUAlert, Notify, NotifyOutcome, NotifyStatus, Outcome, Stage
<1>6. CASE GetCPUBreachCount(h)
  <2>1. task[h].pc # "idle" /\ UNCHANGED environment
    BY <1>6 DEF GetCPUBreachCount
  <2>2. Count(StoreOf(h), task[h].mach) \in Nat
    BY <2>1, ActiveTask DEF Count, TypeOK, KeysOK
  <2>3. QED  BY <1>6, <2>1, <2>2, TaskMoves DEF Told, GetCPUBreachCount, Return, Stage
<1>7. CASE ResetCPUBreach(h)
  BY <1>7, TaskMoves DEF Told, ResetCPUBreach, Goto, Return, Stage
<1>8. CASE NotifyCPURecovery(h)
  BY <1>8, TaskMoves DEF Told, NotifyCPURecovery, Notify, NotifyOutcome, NotifyStatus, Outcome, Stage
<1>9. ASSUME NEW level \in Level, SaveAlertEvent(h, level)
      PROVE  task[h].pc # "idle" /\ (\E t : Moved(h, t)) /\ UNCHANGED environment
  BY <1>9, TaskMoves DEF Told, SaveAlertEvent, Return
<1>10. CASE CountNotification(h)
  <2>1. task[h].pc # "idle" /\ UNCHANGED environment /\ task[h].status \in Outcome
    BY <1>10 DEF CountNotification, TypeOK, TaskOK
  <2>2. task' = [task EXCEPT ![h].pc = "saveAlert"] /\ "saveAlert" \in Stage
    BY <1>10 DEF CountNotification, Goto, Stage
  <2>3. QED  BY <2>1, <2>2, TaskMoves
<1>11. QED
  BY <1>1, <1>2, <1>3, <1>4, <1>5, <1>6, <1>7, <1>8, <1>9, <1>10 DEF Step

LEMMA MovedTaskOK ==
  ASSUME TypeOK, NEW h \in Handler, NEW t, Moved(h, t), task[h].pc # "idle",
         UNCHANGED environment
  PROVE  TaskOK'
<1>1. t \in Task \cup {Idle}  BY DEF Moved
<1>2. task' = [task EXCEPT ![h] = t] /\ task \in [Handler -> Task \cup {Idle}]
  BY DEF Moved, TypeOK, TaskOK
<1>3. task' \in [Handler -> Task \cup {Idle}]  BY <1>1, <1>2
<1>4. ASSUME NEW g \in Handler
      PROVE  /\ task'[g].pc # "idle" => store'[task'[g].rep] # None
             /\ task'[g].pc \in Told => task'[g].status \in Outcome
  <2>1. CASE g = h
    <3>1. task'[g] = t  BY <1>2, <2>1
    <3>2. CASE t = Idle  BY <3>1, <3>2, IdleFields DEF Told
    <3>3. CASE t # Idle
      <4>1. t.rep = task[h].rep
        BY <3>3 DEF Moved
      <4>2. t.pc \in Told => t.status \in Outcome
        BY <3>3 DEF Moved
      <4>3. store[task[h].rep] # None
        BY DEF TypeOK, TaskOK
      <4>4. QED  BY <3>1, <4>1, <4>2, <4>3 DEF environment
    <3>4. QED  BY <3>2, <3>3
  <2>2. CASE g # h
    BY <1>2, <2>2 DEF TypeOK, TaskOK, Told, environment
  <2>3. QED  BY <2>1, <2>2
<1>5. QED  BY <1>3, <1>4 DEF TaskOK, Told

(* Updating one entry of a table keeps its type. *)
LEMMA TableUpdate ==
  ASSUME NEW f \in [Store -> [Machine -> Nat]], NEW s \in Store, NEW m \in Machine, NEW v \in Nat
  PROVE  [f EXCEPT ![s][m] = v] \in [Store -> [Machine -> Nat]]
OBVIOUS

LEMMA StepKeysOK ==
  ASSUME TypeOK, NEW h \in Handler, Step(h)
  PROVE  KeysOK'
<1> DEFINE s == StoreOf(h)
           m == task[h].mach
<1> USE ConstantsAssumption
<1>0. KeysOK  BY DEF TypeOK
<1>1. s \in Store /\ m \in Machine  BY StepMoves, ActiveTask
<1>2. now \in Nat /\ Forever \in Nat /\ CooldownEnd(s) \in Nat /\ Count(s, m) \in Nat
  BY <1>1 DEF TypeOK, EnvironmentOK, KeysOK, Forever, CooldownEnd, Count
<1> HIDE DEF s, m
<1>3. CASE IncrementCPUBreach(h)
  <2>1. /\ count' = count \/ count' = [count EXCEPT ![s][m] = Count(s, m) + 1]
        /\ countUntil' = countUntil \/ countUntil' = [countUntil EXCEPT ![s][m] = Forever]
        /\ UNCHANGED coolUntil
    BY <1>3 DEF IncrementCPUBreach, Incremented, s, m
  <2>2. count' \in [Store -> [Machine -> Nat]]
    <3>1. count' = count \/ \E n \in Nat : count' = [count EXCEPT ![s][m] = n]
      BY <1>2, <2>1
    <3>2. QED  BY <1>0, <1>1, <3>1, TableUpdate, SMTT(20) DEF KeysOK
  <2>3. countUntil' \in [Store -> [Machine -> Nat]]
    BY <1>0, <1>1, <1>2, <2>1, TableUpdate DEF KeysOK
  <2>4. QED  BY <1>0, <2>1, <2>2, <2>3 DEF KeysOK
<1>4. CASE ExpireCount(h)
  BY <1>1, <1>2, <1>4 DEF ExpireCount, TypeOK, KeysOK, s, m
<1>5. CASE TryAcquireCooldown(h)
  <2>1. /\ coolUntil' = coolUntil \/ coolUntil' = [coolUntil EXCEPT ![s][m] = CooldownEnd(s)]
        /\ UNCHANGED <<count, countUntil>>
    BY <1>5 DEF TryAcquireCooldown, s, m
  <2>2. coolUntil' \in [Store -> [Machine -> Nat]]
    <3>1. \A t \in Nat : [coolUntil EXCEPT ![s][m] = t] \in [Store -> [Machine -> Nat]]
      BY <1>0, <1>1, TableUpdate DEF KeysOK
    <3>2. QED  BY <1>0, <1>2, <2>1, <3>1 DEF KeysOK
  <2>3. QED  BY <1>0, <2>1, <2>2 DEF KeysOK
<1>6. CASE ResetCPUBreach(h)
  <2>1. /\ count' = count \/ count' = [count EXCEPT ![s][m] = 0]
        /\ countUntil' = countUntil \/ countUntil' = [countUntil EXCEPT ![s][m] = Forever]
        /\ UNCHANGED coolUntil
    BY <1>6 DEF ResetCPUBreach, Cleared, s, m
  <2>2. count' \in [Store -> [Machine -> Nat]]
    BY <1>0, <1>1, <2>1, TableUpdate DEF KeysOK
  <2>3. countUntil' \in [Store -> [Machine -> Nat]]
    BY <1>0, <1>1, <1>2, <2>1, TableUpdate DEF KeysOK
  <2>4. QED  BY <1>0, <2>1, <2>2, <2>3 DEF KeysOK
<1>7. CASE UNCHANGED keys
  BY <1>7 DEF keys, TypeOK, KeysOK
<1>8. QED
  BY <1>3, <1>4, <1>5, <1>6, <1>7
  DEF Step, SuppressAlert, NotifyCPUAlert, CountNotification, GetCPUBreachCount,
      NotifyCPURecovery, SaveAlertEvent

LEMMA StepAuditOK ==
  ASSUME TypeOK, NEW h \in Handler, Step(h)
  PROVE  AuditOK'
<1> DEFINE m == task[h].mach
<1>1. m \in Machine  BY StepMoves, ActiveTask
<1>2. ASSUME NEW level \in Level, NEW next, Notify(h, level, next),
             UNCHANGED <<rows, serverAlertNotificationsTotal>>
      PROVE  AuditOK'
  BY <1>1, <1>2 DEF Notify, NotifyOutcome, Outcome, Level, TypeOK, AuditOK
<1>3. CASE NotifyCPUAlert(h)
  BY <1>2, <1>3 DEF NotifyCPUAlert, Level
<1>4. CASE NotifyCPURecovery(h)
  BY <1>2, <1>4 DEF NotifyCPURecovery, Level
<1>5. ASSUME NEW level \in Level, SaveAlertEvent(h, level)
      PROVE  AuditOK'
  <2>1. task[h].status \in Outcome
    BY <1>5 DEF SaveAlertEvent, TypeOK, TaskOK
  <2>2. CASE rows' = [rows EXCEPT ![m][level][task[h].status] = @ + 1]
    <3>1. [rows[m] EXCEPT ![level][task[h].status] = @ + 1] \in [Level -> [Outcome -> Nat]]
      BY <1>1, <2>1 DEF TypeOK, AuditOK
    <3>2. rows' \in [Machine -> [Level -> [Outcome -> Nat]]]
      BY <1>1, <2>2, <3>1 DEF TypeOK, AuditOK
    <3>3. QED  BY <1>5, <3>2 DEF SaveAlertEvent, TypeOK, AuditOK
  <2>3. CASE UNCHANGED rows
    BY <1>5, <2>3 DEF SaveAlertEvent, TypeOK, AuditOK
  <2>4. QED  BY <1>5, <2>2, <2>3 DEF SaveAlertEvent
<1>6. CASE UNCHANGED audit
  BY <1>6 DEF audit, TypeOK, AuditOK
<1>7. CASE CountNotification(h)
  <2>1. task[h].rep \in Replica /\ task[h].status \in Outcome
    BY <1>7, StepMoves, ActiveTask DEF CountNotification, TypeOK, TaskOK
  <2>2. Observed(task[h].rep, task[h].status) \in [Replica -> [Outcome -> Nat]]
    BY <2>1 DEF Observed, TypeOK, AuditOK
  <2>3. QED  BY <1>7, <2>2 DEF CountNotification, TypeOK, AuditOK
<1>8. QED
  BY <1>3, <1>4, <1>5, <1>6, <1>7
  DEF Step, IncrementCPUBreach, ExpireCount, TryAcquireCooldown, SuppressAlert,
      GetCPUBreachCount, ResetCPUBreach

LEMMA StepHistoryOK ==
  ASSUME TypeOK, NEW h \in Handler, Step(h)
  PROVE  HistoryOK'
<1> DEFINE m == task[h].mach
<1>1. StoreOf(h) \in Store /\ m \in Machine  BY StepMoves, ActiveTask
<1>2. CASE TryAcquireCooldown(h)
  BY <1>1, <1>2 DEF TryAcquireCooldown, sampleHistory, TypeOK, HistoryOK
<1>3. CASE NotifyCPUAlert(h)
  BY <1>1, <1>3 DEF NotifyCPUAlert, sampleHistory, TypeOK, HistoryOK
<1>4. CASE NotifyCPURecovery(h)
  BY <1>1, <1>4 DEF NotifyCPURecovery, cooldownHistory, sampleHistory, TypeOK, HistoryOK
<1>5. CASE UNCHANGED <<cooldownHistory, sampleHistory, alerted>>
  BY <1>5 DEF cooldownHistory, sampleHistory, TypeOK, HistoryOK
<1>6. QED
  BY <1>2, <1>3, <1>4, <1>5
  DEF Step, IncrementCPUBreach, ExpireCount, SuppressAlert, CountNotification,
      GetCPUBreachCount, ResetCPUBreach, SaveAlertEvent

LEMMA StartTypeOK ==
  ASSUME TypeOK, NEW h \in Handler, NEW r \in Replica, NEW m \in Machine,
         NEW breach \in BOOLEAN, StartEvaluation(h, r, m, breach)
  PROVE  TypeOK'
<1> DEFINE t == [Idle EXCEPT !.pc = IF breach THEN "increment" ELSE "get",
                             !.rep = r, !.mach = m]
<1>1. t \in Task /\ t.rep = r /\ t.pc \in {"increment", "get"}
  BY DEF Idle, Task, Stage
<1>2. task' = [task EXCEPT ![h] = t] /\ store[r] # None /\ store' = store
  BY DEF StartEvaluation
<1>3. TaskOK'
  BY <1>1, <1>2 DEF TypeOK, TaskOK
<1>4. KeysOK' /\ AuditOK'
  BY DEF StartEvaluation, TypeOK, KeysOK, AuditOK, keys, audit
<1>5. HistoryOK' /\ EnvironmentOK'
  BY ConstantsAssumption
  DEF StartEvaluation, TypeOK, HistoryOK, EnvironmentOK, cooldownHistory
<1>6. QED  BY <1>3, <1>4, <1>5 DEF TypeOK

LEMMA CrashTypeOK ==
  ASSUME TypeOK, NEW r \in Replica, Crash(r)
  PROVE  TypeOK'
<1>1. TaskOK'
  <2>1. task' = [g \in Handler |-> IF task[g].rep = r THEN Idle ELSE task[g]]
    BY DEF Crash
  <2>2. ASSUME NEW g \in Handler, task'[g].pc # "idle"
        PROVE  /\ task'[g] = task[g]
               /\ task[g].rep \in Replica \ {r}
    BY <2>1, <2>2, IdleFields, ActiveTask
  <2>3. ASSUME NEW g \in Handler, task'[g].pc # "idle"
        PROVE  /\ store'[task'[g].rep] # None
               /\ task'[g].pc \in Told => task'[g].status \in Outcome
    BY <2>2, <2>3 DEF Crash, TypeOK, TaskOK, EnvironmentOK, Told
  <2>4. task' \in [Handler -> Task \cup {Idle}]
    BY <2>1 DEF TypeOK, TaskOK
  <2>5. QED  BY <2>3, <2>4 DEF TaskOK, Told
<1>2. KeysOK'
  BY ConstantsAssumption DEF Crash, TypeOK, KeysOK, Forever, Store
<1>3. AuditOK' /\ HistoryOK'
  BY DEF Crash, NoneYet, TypeOK, AuditOK, HistoryOK, sampleHistory, Store
<1>4. EnvironmentOK'
  BY ConstantsAssumption DEF Crash, TypeOK, EnvironmentOK
<1>5. QED  BY <1>1, <1>2, <1>3, <1>4 DEF TypeOK

LEMMA StepTypeOK == TypeOK /\ [Next]_vars => TypeOK'
<1> SUFFICES ASSUME TypeOK, [Next]_vars PROVE TypeOK'
  OBVIOUS
<1>1. ASSUME NEW h \in Handler, Step(h) PROVE TypeOK'
  <2>1. TaskOK'  BY <1>1, StepMoves, MovedTaskOK
  <2>2. EnvironmentOK'  BY <1>1, StepMoves DEF environment, TypeOK, EnvironmentOK
  <2>3. QED  BY <1>1, <2>1, <2>2, StepKeysOK, StepAuditOK, StepHistoryOK DEF TypeOK
<1>2. ASSUME NEW r \in Replica, StartServer(r) PROVE TypeOK'
  <2>1. TaskOK'
    <3>1. \A g \in Handler : task[g].pc # "idle" => task[g].rep \in Replica \ {r}
      BY <1>2, ActiveTask DEF StartServer, TypeOK, TaskOK
    <3>2. task' = task /\ \A q \in Replica \ {r} : store'[q] = store[q]
      BY <1>2 DEF StartServer, TypeOK, EnvironmentOK
    <3>3. \A g \in Handler : task[g].pc # "idle" => store'[task[g].rep] # None
      BY <3>1, <3>2 DEF TypeOK, TaskOK
    <3>4. QED  BY <3>2, <3>3 DEF TypeOK, TaskOK
  <2>2. EnvironmentOK'
    BY <1>2 DEF StartServer, Store, TypeOK, EnvironmentOK
  <2>3. QED
    BY <1>2, <2>1, <2>2
    DEF StartServer, TypeOK, KeysOK, AuditOK, HistoryOK, keys, audit, cooldownHistory, sampleHistory
<1>3. CASE Tick
  BY <1>3, ConstantsAssumption
  DEF Tick, TypeOK, TaskOK, KeysOK, AuditOK, HistoryOK, EnvironmentOK,
      keys, audit, cooldownHistory, sampleHistory
<1>4. CASE UNCHANGED vars
  BY <1>4
  DEF vars, TypeOK, TaskOK, KeysOK, AuditOK, HistoryOK, EnvironmentOK,
      keys, audit, cooldownHistory, sampleHistory, environment
<1>5. QED
  BY <1>1, <1>2, <1>3, <1>4, StartTypeOK, CrashTypeOK DEF Next, Quiesce

LEMMA InitTypeOK == Init => TypeOK
<1> SUFFICES ASSUME Init PROVE TypeOK
  OBVIOUS
<1>1. TaskOK  BY IdleFields DEF Init, TaskOK
<1>2. KeysOK  BY ConstantsAssumption DEF Init, KeysOK, Forever
<1>3. AuditOK  BY DEF Init, AuditOK, Zero, NoneYet
<1>4. HistoryOK /\ EnvironmentOK
  BY ConstantsAssumption DEF Init, HistoryOK, EnvironmentOK, Store
<1>5. QED  BY <1>1, <1>2, <1>3, <1>4 DEF TypeOK

(* Type correctness of the alerting path of the server: every variable keeps
   its type, no evaluation outlives its process, and a goroutine that saves an
   event knows how its notification ended. *)
THEOREM TypeCorrect == Spec => []TypeOK
BY InitTypeOK, StepTypeOK, PTL DEF Spec

-----------------------------------------------------------------------------
(* The rate of P0 notifications. *)

LEMMA NotifyingFinite ==
  ASSUME NEW s, NEW m
  PROVE  IsFiniteSet(Notifying(s, m)) /\ Cardinality(Notifying(s, m)) \in Nat
BY ConstantsAssumption, FS_Subset, FS_CardinalityType DEF Notifying

LEMMA HistoryTypes ==
  ASSUME TypeOK, NEW s \in Store, NEW m \in Machine
  PROVE  /\ attempts[s][m] \in Nat /\ won[s][m] \in Nat /\ coolUntil[s][m] \in Nat
         /\ now \in Nat /\ Cooldown \in Nat
BY ConstantsAssumption DEF TypeOK, HistoryOK, KeysOK, EnvironmentOK

(* A step of a goroutine that neither is about to notify a P0 nor gets there
   leaves every set Notifying alone. *)
LEMMA NotifyingKept ==
  ASSUME TypeOK, NEW h \in Handler, NEW t, Moved(h, t), UNCHANGED store,
         task[h].pc # "notifyAlert", t.pc # "notifyAlert",
         NEW s, NEW m
  PROVE  Notifying(s, m)' = Notifying(s, m)
<1>1. task' = [task EXCEPT ![h] = t] /\ task \in [Handler -> Task \cup {Idle}]
  BY DEF Moved, TypeOK, TaskOK
<1>2. \A g \in Handler : g # h => task'[g] = task[g]
  BY <1>1
<1>3. task'[h].pc # "notifyAlert"
  BY <1>1
<1>4. QED  BY <1>2, <1>3 DEF Notifying, StoreOf

LEMMA AccountsKept ==
  ASSUME NEW s, NEW m, Accounts(s, m), Notifying(s, m)' = Notifying(s, m),
         UNCHANGED <<attempts, won, coolUntil, now>>
  PROVE  Accounts(s, m)'
BY DEF Accounts

LEMMA SubsetCounts ==
  ASSUME NEW s, NEW m, Notifying(s, m)' \subseteq Notifying(s, m)
  PROVE  Cardinality(Notifying(s, m)') <= Cardinality(Notifying(s, m))
BY NotifyingFinite, FS_Subset

LEMMA AddedCounts ==
  ASSUME NEW s, NEW m, NEW h, Notifying(s, m)' \subseteq Notifying(s, m) \cup {h}
  PROVE  Cardinality(Notifying(s, m)') <= Cardinality(Notifying(s, m)) + 1
<1>1. IsFiniteSet(Notifying(s, m)) /\ Cardinality(Notifying(s, m)) \in Nat
  BY NotifyingFinite
<1>2. /\ IsFiniteSet(Notifying(s, m) \cup {h})
      /\ Cardinality(Notifying(s, m) \cup {h}) \in Nat
      /\ Cardinality(Notifying(s, m) \cup {h}) <= Cardinality(Notifying(s, m)) + 1
  BY <1>1, FS_AddElement
<1>3. /\ Cardinality(Notifying(s, m)') \in Nat
      /\ Cardinality(Notifying(s, m)') <= Cardinality(Notifying(s, m) \cup {h})
  BY <1>2, FS_Subset, FS_CardinalityType
<1>4. QED  BY <1>1, <1>2, <1>3

(* Taking a free cooldown adds one to won and at least Cooldown to coolUntil. *)
LEMMA AcquireAccounts ==
  ASSUME TypeOK, CooldownAccounts, NEW h \in Handler, TryAcquireCooldown(h),
         NEW s \in Store, NEW m \in Machine
  PROVE  Accounts(s, m)'
<1>1. /\ task[h].pc = "acquire" /\ StoreOf(h) \in Store /\ task[h].mach \in Machine
      /\ task \in [Handler -> Task \cup {Idle}] /\ task[h] \in Task
  BY ActiveTask DEF TryAcquireCooldown, TypeOK, TaskOK
<1>2. Accounts(s, m) /\ UNCHANGED <<now, store, attempts>>
  BY DEF CooldownAccounts, TryAcquireCooldown, environment
<1>3. \A g \in Handler : g # h => task'[g] = task[g]
  BY <1>1 DEF TryAcquireCooldown, Goto, Return
<1>4. /\ attempts[s][m] \in Nat /\ won[s][m] \in Nat /\ coolUntil[s][m] \in Nat
      /\ now \in Nat /\ Cooldown \in Nat
      /\ Cardinality(Notifying(s, m)) \in Nat /\ Cardinality(Notifying(s, m)') \in Nat
  <2>1. IsFiniteSet(Notifying(s, m)')
    <3>1. Notifying(s, m)' \subseteq Handler  BY DEF Notifying
    <3>2. QED  BY <3>1, ConstantsAssumption, FS_Subset
  <2>2. QED  BY <2>1, HistoryTypes, NotifyingFinite, FS_CardinalityType
<1>5. Notifying(s, m)' \subseteq Notifying(s, m) \cup {h}
  BY <1>2, <1>3 DEF Notifying, StoreOf
<1>6. CASE /\ coolUntil' = [coolUntil EXCEPT ![StoreOf(h)][task[h].mach] = CooldownEnd(StoreOf(h))]
           /\ won' = [won EXCEPT ![StoreOf(h)][task[h].mach] = @ + 1]
           /\ s = StoreOf(h) /\ m = task[h].mach
  <2>1. coolUntil'[s][m] = CooldownEnd(s) /\ won'[s][m] = won[s][m] + 1
    BY <1>6, <1>1 DEF TypeOK, KeysOK, HistoryOK
  <2>2. coolUntil[s][m] <= now
    BY <1>6, <1>4 DEF TryAcquireCooldown, CooldownFree
  <2>3. (won[s][m] + 1) * Cooldown <= now + Cooldown
    <3>1. (won[s][m] + 1) * Cooldown = won[s][m] * Cooldown + Cooldown  BY <1>4
    <3>2. won[s][m] * Cooldown <= coolUntil[s][m]  BY <1>2 DEF Accounts
    <3>3. won[s][m] * Cooldown \in Nat  BY <1>4
    <3>4. QED  BY <3>1, <3>2, <3>3, <2>2, <1>4
  <2>4. Cooldown > 0 => CooldownEnd(s) = now + Cooldown
    BY <1>4 DEF CooldownEnd
  <2>5. Cooldown = 0 => (won[s][m] + 1) * Cooldown <= CooldownEnd(s)
    <3>1. CooldownEnd(s) \in Nat
      BY <1>4, ConstantsAssumption DEF CooldownEnd, Forever
    <3>2. Cooldown = 0 => (won[s][m] + 1) * Cooldown = 0  BY <1>4
    <3>3. QED  BY <3>1, <3>2
  <2>6. attempts[s][m] + Cardinality(Notifying(s, m)') <= won[s][m] + 1
    BY <1>2, <1>4, <1>5, AddedCounts DEF Accounts
  <2>7. QED
    BY <1>2, <1>4, <2>1, <2>3, <2>4, <2>5, <2>6 DEF Accounts
<1>7. CASE /\ UNCHANGED <<coolUntil[s][m], won[s][m]>>
           /\ Notifying(s, m)' \subseteq Notifying(s, m)
  BY <1>2, <1>4, <1>7, SubsetCounts DEF Accounts
<1>8. CASE ~(s = StoreOf(h) /\ m = task[h].mach)
  <2>1. UNCHANGED <<coolUntil[s][m], won[s][m]>>
    BY <1>8, <1>1 DEF TryAcquireCooldown, TypeOK, KeysOK, HistoryOK
  <2>2. h \notin Notifying(s, m)'
    BY <1>1, <1>2, <1>8, IdleFields DEF TryAcquireCooldown, Goto, Return, Notifying, StoreOf, Task
  <2>3. QED  BY <1>5, <1>7, <2>1, <2>2
<1>9. CASE UNCHANGED <<coolUntil, won>> /\ task' = [task EXCEPT ![h] = Idle]
  <2>1. h \notin Notifying(s, m)'
    BY <1>1, <1>9, IdleFields DEF Notifying
  <2>2. QED  BY <1>5, <1>7, <1>9, <2>1
<1>10. QED
  BY <1>6, <1>8, <1>9 DEF TryAcquireCooldown, Return

(* A P0 attempt is counted as its goroutine leaves Notifying. *)
LEMMA NotifyAccounts ==
  ASSUME TypeOK, CooldownAccounts, NEW h \in Handler, NotifyCPUAlert(h),
         NEW s \in Store, NEW m \in Machine
  PROVE  Accounts(s, m)'
<1>1. /\ task[h].pc = "notifyAlert" /\ StoreOf(h) \in Store /\ task[h].mach \in Machine
      /\ task \in [Handler -> Task \cup {Idle}] /\ task[h] \in Task
  BY ActiveTask DEF NotifyCPUAlert, TypeOK, TaskOK
<1>2. /\ Accounts(s, m) /\ UNCHANGED <<now, store, won, coolUntil>>
      /\ attempts' = [attempts EXCEPT ![StoreOf(h)][task[h].mach] = @ + 1]
  BY DEF CooldownAccounts, NotifyCPUAlert, environment, keys
<1>3. /\ \A g \in Handler : g # h => task'[g] = task[g]
      /\ task'[h].pc = "countAlert"
  BY <1>1 DEF NotifyCPUAlert, Notify, Task
<1>4. Notifying(s, m)' = Notifying(s, m) \ {h}
  BY <1>2, <1>3 DEF Notifying, StoreOf
<1>5. /\ attempts[s][m] \in Nat /\ won[s][m] \in Nat
      /\ IsFiniteSet(Notifying(s, m)) /\ Cardinality(Notifying(s, m)) \in Nat
  BY HistoryTypes, NotifyingFinite
<1>6. Cardinality(Notifying(s, m)')
        = IF h \in Notifying(s, m) THEN Cardinality(Notifying(s, m)) - 1
                                   ELSE Cardinality(Notifying(s, m))
  BY <1>4, <1>5, FS_RemoveElement
<1>7. h \in Notifying(s, m) <=> s = StoreOf(h) /\ m = task[h].mach
  BY <1>1 DEF Notifying
<1>8. attempts'[s][m] = IF s = StoreOf(h) /\ m = task[h].mach THEN attempts[s][m] + 1
                                                              ELSE attempts[s][m]
  BY <1>1, <1>2 DEF TypeOK, HistoryOK
<1>9. attempts'[s][m] + Cardinality(Notifying(s, m)') <= won'[s][m]
  BY <1>2, <1>5, <1>6, <1>7, <1>8 DEF Accounts
<1>10. QED  BY <1>2, <1>9 DEF Accounts

LEMMA CrashAccounts ==
  ASSUME TypeOK, CooldownAccounts, NEW r \in Replica, Crash(r),
         NEW s \in Store, NEW m \in Machine
  PROVE  Accounts(s, m)'
<1>1. /\ Accounts(s, m) /\ now' = now
      /\ task' = [g \in Handler |-> IF task[g].rep = r THEN Idle ELSE task[g]]
      /\ \A q \in Replica : q # r => store'[q] = store[q]
  BY DEF CooldownAccounts, Crash, TypeOK, EnvironmentOK
<1>2. \A g \in Handler :
        task'[g].pc = "notifyAlert" => /\ task'[g] = task[g]
                                       /\ task[g].rep \in Replica \ {r}
                                       /\ StoreOf(g)' = StoreOf(g)
    BY <1>1, IdleFields, ActiveTask DEF StoreOf
<1>3. CASE s = r
  <2>1. \A g \in Handler : task'[g].pc = "notifyAlert" => StoreOf(g) # r
    BY <1>2, ConstantsAssumption DEF TypeOK, EnvironmentOK, StoreOf
  <2>2. Notifying(s, m)' = {}
    BY <1>2, <1>3, <2>1 DEF Notifying
  <2>3. attempts'[s][m] = 0 /\ won'[s][m] = 0 /\ coolUntil'[s][m] = 0
    BY <1>3 DEF Crash, TypeOK, HistoryOK, KeysOK
  <2>4. now \in Nat /\ Cooldown \in Nat  BY HistoryTypes
  <2>5. QED  BY <1>1, <2>2, <2>3, <2>4, FS_EmptySet DEF Accounts
<1>4. CASE s # r
  <2>1. Notifying(s, m)' \subseteq Notifying(s, m)
    BY <1>2 DEF Notifying
  <2>2. UNCHANGED <<attempts[s][m], won[s][m], coolUntil[s][m]>>
    BY <1>4 DEF Crash, TypeOK, HistoryOK, KeysOK
  <2>3. Cardinality(Notifying(s, m)') \in Nat
    <3>1. Notifying(s, m)' \subseteq Handler  BY DEF Notifying
    <3>2. QED  BY <3>1, ConstantsAssumption, FS_Subset, FS_CardinalityType
  <2>4. QED
    BY <1>1, <2>1, <2>2, <2>3, SubsetCounts, HistoryTypes, NotifyingFinite DEF Accounts
<1>5. QED  BY <1>3, <1>4

LEMMA OtherStepAccounts ==
  ASSUME TypeOK, CooldownAccounts, NEW h \in Handler, Step(h),
         ~TryAcquireCooldown(h), ~NotifyCPUAlert(h), NEW s \in Store, NEW m \in Machine
  PROVE  Accounts(s, m)'
<1>1. /\ UNCHANGED <<attempts, won, coolUntil, now, store>>
      /\ task[h].pc # "notifyAlert"
  BY StepMoves
  DEF Step, IncrementCPUBreach, ExpireCount, SuppressAlert, CountNotification,
      GetCPUBreachCount, ResetCPUBreach, NotifyCPURecovery, SaveAlertEvent, keys, cooldownHistory, environment
<1>2. task \in [Handler -> Task \cup {Idle}] /\ task[h].pc # "idle" /\ task[h] \in Task
  BY StepMoves, ActiveTask DEF TypeOK, TaskOK
<1>3. task'[h].pc # "notifyAlert"
  BY <1>2, IdleFields
  DEF Step, IncrementCPUBreach, ExpireCount, SuppressAlert, CountNotification,
      GetCPUBreachCount, ResetCPUBreach, NotifyCPURecovery, SaveAlertEvent, Goto, Return, Notify, Task
<1>4. \E t : Moved(h, t) /\ t.pc # "notifyAlert"
  BY <1>2, <1>3, StepMoves DEF Moved
<1>5. Notifying(s, m)' = Notifying(s, m)
  BY <1>1, <1>4, NotifyingKept
<1>6. QED  BY <1>1, <1>5, AccountsKept DEF CooldownAccounts

LEMMA StepAccounts == TypeOK /\ CooldownAccounts /\ [Next]_vars => CooldownAccounts'
<1> SUFFICES ASSUME TypeOK, CooldownAccounts, [Next]_vars,
                    NEW s \in Store, NEW m \in Machine
             PROVE  Accounts(s, m)'
  BY DEF CooldownAccounts
<1>0. Accounts(s, m)  BY DEF CooldownAccounts
<1>1. ASSUME NEW h \in Handler, NEW r \in Replica, NEW mm \in Machine, NEW breach \in BOOLEAN,
             StartEvaluation(h, r, mm, breach)
      PROVE  Accounts(s, m)'
  <2>1. /\ UNCHANGED <<attempts, won, coolUntil, now, store>>
        /\ task[h] = Idle /\ task'[h].pc # "notifyAlert"
        /\ \A g \in Handler : g # h => task'[g] = task[g]
    BY <1>1 DEF StartEvaluation, keys, cooldownHistory, TypeOK, TaskOK, Idle
  <2>2. Notifying(s, m)' = Notifying(s, m)
    BY <2>1, IdleFields DEF Notifying, StoreOf
  <2>3. QED  BY <1>0, <2>1, <2>2, AccountsKept
<1>2. ASSUME NEW h \in Handler, Step(h) PROVE Accounts(s, m)'
  BY <1>2, AcquireAccounts, NotifyAccounts, OtherStepAccounts
<1>3. ASSUME NEW r \in Replica, StartServer(r) PROVE Accounts(s, m)'
  <2>1. \A g \in Handler : task[g].pc = "notifyAlert" => task[g].rep \in Replica \ {r}
    BY <1>3, ActiveTask DEF StartServer, TypeOK, TaskOK
  <2>2. /\ UNCHANGED <<attempts, won, coolUntil, now, task>>
        /\ \A q \in Replica \ {r} : store'[q] = store[q]
    BY <1>3 DEF StartServer, keys, cooldownHistory, TypeOK, EnvironmentOK
  <2>3. Notifying(s, m)' = Notifying(s, m)
    BY <2>1, <2>2 DEF Notifying, StoreOf
  <2>4. QED  BY <1>0, <2>2, <2>3, AccountsKept
<1>4. CASE Tick
  <2>1. UNCHANGED <<attempts, won, coolUntil, store, task>> /\ now' = now + 1
    BY <1>4 DEF Tick, keys, cooldownHistory
  <2>2. Notifying(s, m)' = Notifying(s, m)
    BY <2>1 DEF Notifying, StoreOf
  <2>3. QED  BY <1>0, <2>1, <2>2, HistoryTypes DEF Accounts
<1>5. CASE UNCHANGED vars
  <2>1. UNCHANGED <<attempts, won, coolUntil, store, task, now>>
    BY <1>5 DEF vars, keys, cooldownHistory, environment
  <2>2. Notifying(s, m)' = Notifying(s, m)
    BY <2>1 DEF Notifying, StoreOf
  <2>3. QED  BY <1>0, <2>1, <2>2, AccountsKept
<1>6. QED  BY <1>1, <1>2, <1>3, <1>4, <1>5, CrashAccounts DEF Next, Quiesce

LEMMA InitAccounts == Init => CooldownAccounts
<1> SUFFICES ASSUME Init, NEW s \in Store, NEW m \in Machine PROVE Accounts(s, m)
  BY DEF CooldownAccounts
<1>1. Notifying(s, m) = {}  BY IdleFields DEF Init, Notifying
<1>2. attempts[s][m] = 0 /\ won[s][m] = 0 /\ coolUntil[s][m] = 0 /\ now = 0
  BY DEF Init
<1>3. QED  BY <1>1, <1>2, FS_EmptySet, ConstantsAssumption DEF Accounts

(* Every P0 attempt used up one cooldown that was taken for it, in every
   interleaving of any number of goroutines and replicas and under every fault. *)
THEOREM EveryP0HasItsCooldown == Spec => []CooldownAccounts
<1>1. Init => TypeOK /\ CooldownAccounts
  BY InitTypeOK, InitAccounts
<1>2. TypeOK /\ CooldownAccounts /\ [Next]_vars => (TypeOK /\ CooldownAccounts)'
  BY StepTypeOK, StepAccounts
<1>3. QED  BY <1>1, <1>2, PTL DEF Spec

LEMMA AccountsBoundRate == TypeOK /\ CooldownAccounts => P0RateBounded
<1> SUFFICES ASSUME TypeOK, CooldownAccounts, NEW s \in Store, NEW m \in Machine
             PROVE  attempts[s][m] * Cooldown <= now + Cooldown
  BY DEF P0RateBounded
<1>1. Accounts(s, m)  BY DEF CooldownAccounts
<1>2. /\ attempts[s][m] \in Nat /\ won[s][m] \in Nat /\ coolUntil[s][m] \in Nat
      /\ now \in Nat /\ Cooldown \in Nat
  BY HistoryTypes
<1>3. attempts[s][m] <= won[s][m]
  BY <1>1, <1>2, NotifyingFinite DEF Accounts
<1>4. CASE Cooldown = 0
  BY <1>2, <1>4
<1>5. CASE Cooldown > 0
  <2>1. attempts[s][m] * Cooldown <= won[s][m] * Cooldown
    BY <1>2, <1>3
  <2>2. attempts[s][m] * Cooldown \in Nat /\ won[s][m] * Cooldown \in Nat
    BY <1>2
  <2>3. QED  BY <1>1, <1>2, <1>5, <2>1, <2>2 DEF Accounts
<1>6. QED  BY <1>2, <1>4, <1>5

(* README.md:54: the cooldown bounds how often a machine's P0 is notified. *)
THEOREM P0RateIsBounded == Spec => []P0RateBounded
BY TypeCorrect, EveryP0HasItsCooldown, AccountsBoundRate, PTL

-----------------------------------------------------------------------------
(* The audit rows of P0 notifications. *)

Untold == {"countAlert", "saveAlert"}   \* the stages before the row is written
SavingOf(m, o) ==
  {h \in Handler : task[h].mach = m /\ task[h].pc \in Untold /\ task[h].status = o}

RowsAgree(m, o) ==
  /\ rows[m]["P0"][o] + Cardinality(SavingOf(m, o)) <= notified[m]["P0"][o]
  /\ Faults \cap {"db", "crash"} = {}
       => rows[m]["P0"][o] + Cardinality(SavingOf(m, o)) = notified[m]["P0"][o]

AllRowsAgree == \A m \in Machine, o \in Outcome : RowsAgree(m, o)

(* Two finite sets that differ in one element at most. *)
LEMMA OneElementDiffers ==
  ASSUME NEW S, NEW T, NEW x, IsFiniteSet(S), T \ {x} = S \ {x}
  PROVE  /\ Cardinality(S) \in Nat /\ Cardinality(T) \in Nat
         /\ x \in S /\ x \notin T => Cardinality(T) = Cardinality(S) - 1
         /\ x \notin S /\ x \in T => Cardinality(T) = Cardinality(S) + 1
         /\ (x \in S <=> x \in T) => T = S
<1>1. Cardinality(S) \in Nat
  BY FS_CardinalityType
<1>2. CASE x \in S /\ x \notin T
  <2>1. T = S \ {x}  BY <1>2
  <2>2. QED  BY <1>1, <1>2, <2>1, FS_RemoveElement, FS_CardinalityType
<1>3. CASE x \notin S /\ x \in T
  <2>1. T = S \cup {x}  BY <1>3
  <2>2. QED  BY <1>1, <1>3, <2>1, FS_AddElement, FS_CardinalityType
<1>4. CASE x \in S <=> x \in T
  <2>1. T = S  BY <1>4
  <2>2. QED  BY <1>1, <1>4, <2>1
<1>5. QED  BY <1>2, <1>3, <1>4

LEMMA SavingFinite ==
  ASSUME NEW m, NEW o
  PROVE  IsFiniteSet(SavingOf(m, o)) /\ Cardinality(SavingOf(m, o)) \in Nat
<1>1. SavingOf(m, o) \subseteq Handler
  BY DEF SavingOf
<1>2. QED  BY <1>1, ConstantsAssumption, FS_Subset, FS_CardinalityType

LEMMA AuditTypes ==
  ASSUME TypeOK, NEW m \in Machine, NEW o \in Outcome
  PROVE  rows[m]["P0"][o] \in Nat /\ notified[m]["P0"][o] \in Nat
BY DEF TypeOK, AuditOK, Level

(* Whoever moves, the other goroutines stay in SavingOf or out of it. *)
LEMMA SavingMoves ==
  ASSUME NEW h \in Handler, \A g \in Handler : g # h => task'[g] = task[g], NEW m, NEW o
  PROVE  /\ SavingOf(m, o)' \ {h} = SavingOf(m, o) \ {h}
         /\ h \in SavingOf(m, o) <=>
              task[h].mach = m /\ task[h].pc \in Untold /\ task[h].status = o
         /\ h \in SavingOf(m, o)' <=>
              task'[h].mach = m /\ task'[h].pc \in Untold /\ task'[h].status = o
BY DEF SavingOf

LEMMA RowsKept ==
  ASSUME NEW m, NEW o, RowsAgree(m, o), SavingOf(m, o)' = SavingOf(m, o),
         rows'[m]["P0"][o] = rows[m]["P0"][o], notified'[m]["P0"][o] = notified[m]["P0"][o]
  PROVE  RowsAgree(m, o)'
BY DEF RowsAgree

(* The goroutine that notified with outcome o is about to save it. *)
LEMMA NotifyRows ==
  ASSUME TypeOK, AllRowsAgree, NEW h \in Handler, NotifyCPUAlert(h),
         NEW m \in Machine, NEW o \in Outcome
  PROVE  RowsAgree(m, o)'
<1>1. /\ task[h].pc = "notifyAlert" /\ task[h] \in Task /\ task[h].mach \in Machine
      /\ task \in [Handler -> Task \cup {Idle}] /\ rows' = rows
  BY ActiveTask DEF NotifyCPUAlert, TypeOK, TaskOK
<1>2. PICK q \in Outcome :
        /\ notified' = [notified EXCEPT ![task[h].mach]["P0"][q] = @ + 1]
        /\ task' = [task EXCEPT ![h].pc = "countAlert", ![h].status = q]
  BY DEF NotifyCPUAlert, Notify, NotifyOutcome, NotifyStatus, Outcome
<1>3. /\ task'[h].pc = "countAlert" /\ task'[h].status = q /\ task'[h].mach = task[h].mach
      /\ \A g \in Handler : g # h => task'[g] = task[g]
  BY <1>1, <1>2 DEF Task
<1>4. h \notin SavingOf(m, o)
  BY <1>1 DEF SavingOf, Untold
<1>5. h \in SavingOf(m, o)' <=> m = task[h].mach /\ o = q
  BY <1>3, SavingMoves DEF Untold
<1>6. SavingOf(m, o)' \ {h} = SavingOf(m, o) \ {h}
  BY <1>3, SavingMoves
<1>7. notified'[m]["P0"][o] = IF m = task[h].mach /\ o = q THEN notified[m]["P0"][o] + 1
                                                           ELSE notified[m]["P0"][o]
  BY <1>1, <1>2 DEF TypeOK, AuditOK, Level
<1>8. Cardinality(SavingOf(m, o)') = IF m = task[h].mach /\ o = q
                                     THEN Cardinality(SavingOf(m, o)) + 1
                                     ELSE Cardinality(SavingOf(m, o))
  BY <1>4, <1>5, <1>6, SavingFinite, OneElementDiffers
<1>9. RowsAgree(m, o) /\ Cardinality(SavingOf(m, o)) \in Nat
  BY SavingFinite DEF AllRowsAgree
<1>10. QED  BY <1>1, <1>7, <1>8, <1>9, AuditTypes DEF RowsAgree

(* A save ends in one row, or in none if MySQL failed. *)
LEMMA SaveRows ==
  ASSUME TypeOK, AllRowsAgree, NEW h \in Handler, NEW level \in Level,
         SaveAlertEvent(h, level), NEW m \in Machine, NEW o \in Outcome
  PROVE  RowsAgree(m, o)'
<1>1. /\ task[h].pc = (IF level = "P0" THEN "saveAlert" ELSE "saveRecovery")
      /\ task[h] \in Task /\ task[h].mach \in Machine /\ task[h].status \in Outcome
      /\ task \in [Handler -> Task \cup {Idle}] /\ notified' = notified
      /\ task' = [task EXCEPT ![h] = Idle]
  BY ActiveTask DEF SaveAlertEvent, Return, TypeOK, TaskOK
<1>2. task'[h] = Idle /\ \A g \in Handler : g # h => task'[g] = task[g]
  BY <1>1
<1>3. h \notin SavingOf(m, o)'
  BY <1>2, IdleFields, SavingMoves DEF Untold
<1>4. h \in SavingOf(m, o) <=> m = task[h].mach /\ level = "P0" /\ o = task[h].status
  BY <1>1, <1>2, SavingMoves DEF Level, Untold
<1>5. SavingOf(m, o)' \ {h} = SavingOf(m, o) \ {h}
  BY <1>2, SavingMoves
<1>6. /\ RowsAgree(m, o) /\ Cardinality(SavingOf(m, o)) \in Nat
      /\ rows[m]["P0"][o] \in Nat /\ notified[m]["P0"][o] \in Nat
  BY SavingFinite, AuditTypes DEF AllRowsAgree
<1>7. CASE h \in SavingOf(m, o)
  <2>1. Cardinality(SavingOf(m, o)') = Cardinality(SavingOf(m, o)) - 1
    BY <1>3, <1>5, <1>7, SavingFinite, OneElementDiffers
  <2>2. CASE rows' = [rows EXCEPT ![task[h].mach][level][task[h].status] = @ + 1]
    <3>1. rows'[m]["P0"][o] = rows[m]["P0"][o] + 1
      BY <1>1, <1>4, <1>7, <2>2 DEF TypeOK, AuditOK, Level
    <3>2. QED  BY <1>1, <1>6, <2>1, <3>1 DEF RowsAgree
  <2>3. CASE "db" \in Faults /\ UNCHANGED rows
    BY <1>1, <1>6, <2>1, <2>3 DEF RowsAgree
  <2>4. QED  BY <2>2, <2>3 DEF SaveAlertEvent
<1>8. CASE h \notin SavingOf(m, o)
  <2>1. SavingOf(m, o)' = SavingOf(m, o)
    BY <1>3, <1>5, <1>8, SavingFinite, OneElementDiffers
  <2>2. rows'[m]["P0"][o] = rows[m]["P0"][o]
    <3>1. ~(m = task[h].mach /\ level = "P0" /\ o = task[h].status)
      BY <1>4, <1>8
    <3>2. QED  BY <1>1, <3>1 DEF SaveAlertEvent, TypeOK, AuditOK, Level
  <2>3. QED  BY <1>1, <1>6, <2>1, <2>2, RowsKept
<1>9. QED  BY <1>7, <1>8

LEMMA OtherStepRows ==
  ASSUME TypeOK, AllRowsAgree, NEW h \in Handler, Step(h), ~NotifyCPUAlert(h),
         ~CountNotification(h), \A level \in Level : ~SaveAlertEvent(h, level),
         NEW m \in Machine, NEW o \in Outcome
  PROVE  RowsAgree(m, o)'
<1>1. /\ rows' = rows /\ task[h].pc \notin Untold /\ task[h] \in Task
      /\ task \in [Handler -> Task \cup {Idle}]
  BY StepMoves, ActiveTask
  DEF Step, IncrementCPUBreach, ExpireCount, TryAcquireCooldown, SuppressAlert,
      GetCPUBreachCount, ResetCPUBreach, NotifyCPURecovery, Untold, audit, TypeOK, TaskOK
<1>2. notified'[m]["P0"] = notified[m]["P0"]
  <2>1. CASE NotifyCPURecovery(h)
    BY <2>1 DEF NotifyCPURecovery, Notify, TypeOK, AuditOK, Level
  <2>2. CASE UNCHANGED notified
    BY <2>2
  <2>3. QED
    BY <2>1, <2>2
    DEF Step, IncrementCPUBreach, ExpireCount, TryAcquireCooldown, SuppressAlert,
        GetCPUBreachCount, ResetCPUBreach, audit
<1>3. task'[h].pc \notin Untold
  BY <1>1, IdleFields
  DEF Step, IncrementCPUBreach, ExpireCount, TryAcquireCooldown, SuppressAlert,
      GetCPUBreachCount, ResetCPUBreach, NotifyCPURecovery, Goto, Return, Notify, Untold, Task
<1>4. \A g \in Handler : g # h => task'[g] = task[g]
  <2>1. PICK t : Moved(h, t)  BY StepMoves
  <2>2. QED  BY <1>1, <2>1 DEF Moved
<1>5. SavingOf(m, o)' = SavingOf(m, o)
  <2>1. h \notin SavingOf(m, o) /\ h \notin SavingOf(m, o)'
    BY <1>1, <1>3 DEF SavingOf
  <2>2. SavingOf(m, o)' \ {h} = SavingOf(m, o) \ {h}
    BY <1>4, SavingMoves
  <2>3. QED  BY <2>1, <2>2
<1>6. QED  BY <1>1, <1>2, <1>5, RowsKept DEF AllRowsAgree

(* The goroutine that has counted its notification saves it next. *)
LEMMA CountRows ==
  ASSUME TypeOK, AllRowsAgree, NEW h \in Handler, CountNotification(h),
         NEW m \in Machine, NEW o \in Outcome
  PROVE  RowsAgree(m, o)'
<1>1. /\ task[h].pc = "countAlert" /\ task[h] \in Task /\ UNCHANGED <<rows, notified>>
      /\ task \in [Handler -> Task \cup {Idle}]
      /\ task' = [task EXCEPT ![h].pc = "saveAlert"]
  BY ActiveTask DEF CountNotification, Goto, TypeOK, TaskOK
<1>2. /\ task'[h].pc = "saveAlert" /\ task'[h].mach = task[h].mach
      /\ task'[h].status = task[h].status
      /\ \A g \in Handler : g # h => task'[g] = task[g]
  BY <1>1 DEF Task
<1>3. SavingOf(m, o)' = SavingOf(m, o)
  BY <1>1, <1>2 DEF SavingOf, Untold
<1>4. QED  BY <1>1, <1>3, RowsKept DEF AllRowsAgree

(* A crash loses rows that were about to be saved, and adds none. *)
LEMMA CrashRows ==
  ASSUME TypeOK, AllRowsAgree, NEW r \in Replica, Crash(r),
         NEW m \in Machine, NEW o \in Outcome
  PROVE  RowsAgree(m, o)'
<1>1. /\ rows' = rows /\ notified' = notified /\ "crash" \in Faults
      /\ task' = [g \in Handler |-> IF task[g].rep = r THEN Idle ELSE task[g]]
  BY DEF Crash
<1>2. SavingOf(m, o)' \subseteq SavingOf(m, o)
  BY <1>1, IdleFields DEF SavingOf, Untold
<1>3. /\ Cardinality(SavingOf(m, o)') <= Cardinality(SavingOf(m, o))
      /\ Cardinality(SavingOf(m, o)') \in Nat /\ Cardinality(SavingOf(m, o)) \in Nat
  BY <1>2, SavingFinite, FS_Subset, FS_CardinalityType
<1>4. RowsAgree(m, o)  BY DEF AllRowsAgree
<1>5. QED  BY <1>1, <1>3, <1>4, AuditTypes DEF RowsAgree

LEMMA StepRows == TypeOK /\ AllRowsAgree /\ [Next]_vars => AllRowsAgree'
<1> SUFFICES ASSUME TypeOK, AllRowsAgree, [Next]_vars,
                    NEW m \in Machine, NEW o \in Outcome
             PROVE  RowsAgree(m, o)'
  BY DEF AllRowsAgree
<1>1. ASSUME NEW h \in Handler, Step(h) PROVE RowsAgree(m, o)'
  BY <1>1, NotifyRows, CountRows, SaveRows, OtherStepRows
<1>2. ASSUME NEW h \in Handler, NEW r \in Replica, NEW mm \in Machine, NEW breach \in BOOLEAN,
             StartEvaluation(h, r, mm, breach)
      PROVE  RowsAgree(m, o)'
  <2>1. /\ UNCHANGED <<rows, notified>> /\ task[h] = Idle /\ task'[h].pc \notin Untold
        /\ \A g \in Handler : g # h => task'[g] = task[g]
    BY <1>2 DEF StartEvaluation, audit, TypeOK, TaskOK, Idle, Untold
  <2>2. SavingOf(m, o)' = SavingOf(m, o)
    BY <2>1, IdleFields DEF SavingOf, Untold
  <2>3. QED  BY <2>1, <2>2, RowsKept DEF AllRowsAgree
<1>3. CASE UNCHANGED <<rows, notified, task>>
  <2>1. SavingOf(m, o)' = SavingOf(m, o)
    BY <1>3 DEF SavingOf
  <2>2. QED  BY <1>3, <2>1, RowsKept DEF AllRowsAgree
<1>4. CASE UNCHANGED vars \/ Tick \/ \E r \in Replica : StartServer(r)
  BY <1>3, <1>4 DEF vars, audit, Tick, StartServer
<1>5. QED  BY <1>1, <1>2, <1>4, CrashRows DEF Next, Quiesce

LEMMA InitRows == Init => AllRowsAgree
<1> SUFFICES ASSUME Init, NEW m \in Machine, NEW o \in Outcome PROVE RowsAgree(m, o)
  BY DEF AllRowsAgree
<1>1. SavingOf(m, o) = {}
  BY IdleFields DEF Init, SavingOf, Untold
<1>2. rows[m]["P0"][o] = 0 /\ notified[m]["P0"][o] = 0
  BY DEF Init, Zero, NoneYet, Level
<1>3. QED  BY <1>1, <1>2, FS_EmptySet DEF RowsAgree

(* main.go 415-449: no P0 row says "sent" or "failed" of a notification that      *)
(* ended otherwise, and none is missing unless MySQL or its process failed,      *)
(* however the evaluations of all replicas interleave.                           *)
THEOREM P0AuditIsTruthful == Spec => []P0AuditAgrees
<1>1. Init => TypeOK /\ AllRowsAgree
  BY InitTypeOK, InitRows
<1>2. TypeOK /\ AllRowsAgree /\ [Next]_vars => (TypeOK /\ AllRowsAgree)'
  BY StepTypeOK, StepRows
<1>3. AllRowsAgree => P0AuditAgrees
  <2>1. \A m, o : Saving(m, "P0", o) = Cardinality(SavingOf(m, o))
    BY DEF Saving, SavingOf, Untold
  <2>2. QED  BY <2>1 DEF AllRowsAgree, RowsAgree, P0AuditAgrees, AuditAgrees
<1>4. QED  BY <1>1, <1>2, <1>3, PTL DEF Spec

-----------------------------------------------------------------------------
(* The counter of P0 notifications: of what was told, what was counted, and     *)
(* what the goroutines that are between the two are about to count.             *)

ToldBy(o) == [m \in Machine |-> notified[m]["P0"][o]]
CountedBy(o) == [r \in Replica |-> serverAlertNotificationsTotal[r][o]]
CountingOf(o) == {h \in Handler : task[h].pc = "countAlert" /\ task[h].status = o}

CountsAgree(o) ==
  /\ SumFunction(CountedBy(o)) + Cardinality(CountingOf(o)) <= SumFunction(ToldBy(o))
  /\ crashes = 0
       => SumFunction(CountedBy(o)) + Cardinality(CountingOf(o)) = SumFunction(ToldBy(o))

AllCountsAgree == \A o \in Outcome : CountsAgree(o)

FiniteSystem == IsFiniteSet(Machine) /\ IsFiniteSet(Replica)

LEMMA CountTypes ==
  ASSUME TypeOK, FiniteSystem, NEW o \in Outcome
  PROVE  /\ ToldBy(o) \in [Machine -> Nat] /\ CountedBy(o) \in [Replica -> Nat]
         /\ SumFunction(ToldBy(o)) \in Nat /\ SumFunction(CountedBy(o)) \in Nat
         /\ IsFiniteSet(CountingOf(o)) /\ Cardinality(CountingOf(o)) \in Nat
<1>1. ToldBy(o) \in [Machine -> Nat] /\ CountedBy(o) \in [Replica -> Nat]
  BY DEF ToldBy, CountedBy, TypeOK, AuditOK, Level
<1>2. SumFunction(ToldBy(o)) \in Nat /\ SumFunction(CountedBy(o)) \in Nat
  BY <1>1, SumType DEF FiniteSystem
<1>3. CountingOf(o) \subseteq Handler
  BY DEF CountingOf
<1>4. IsFiniteSet(CountingOf(o)) /\ Cardinality(CountingOf(o)) \in Nat
  BY <1>3, ConstantsAssumption, FS_Subset, FS_CardinalityType
<1>5. QED  BY <1>1, <1>2, <1>4

LEMMA CountingMoves ==
  ASSUME NEW h \in Handler, \A g \in Handler : g # h => task'[g] = task[g], NEW o
  PROVE  /\ CountingOf(o)' \ {h} = CountingOf(o) \ {h}
         /\ h \in CountingOf(o) <=> task[h].pc = "countAlert" /\ task[h].status = o
         /\ h \in CountingOf(o)' <=> task'[h].pc = "countAlert" /\ task'[h].status = o
BY DEF CountingOf

LEMMA CountsKept ==
  ASSUME NEW o \in Outcome, CountsAgree(o), ToldBy(o)' = ToldBy(o),
         CountedBy(o)' = CountedBy(o), CountingOf(o)' = CountingOf(o), crashes' = crashes
  PROVE  CountsAgree(o)'
BY DEF CountsAgree

(* The webhook has answered: one more is told, and one goroutine is to count it. *)
LEMMA NotifyCounts ==
  ASSUME TypeOK, TypeOK', FiniteSystem, AllCountsAgree, NEW h \in Handler, NotifyCPUAlert(h),
         NEW o \in Outcome
  PROVE  CountsAgree(o)'
<1>1. /\ task[h].pc = "notifyAlert" /\ task[h] \in Task /\ task[h].mach \in Machine
      /\ task \in [Handler -> Task \cup {Idle}]
      /\ UNCHANGED <<serverAlertNotificationsTotal, crashes>>
  BY ActiveTask DEF NotifyCPUAlert, environment, TypeOK, TaskOK
<1>2. PICK q \in Outcome :
        /\ notified' = [notified EXCEPT ![task[h].mach]["P0"][q] = @ + 1]
        /\ task' = [task EXCEPT ![h].pc = "countAlert", ![h].status = q]
  BY DEF NotifyCPUAlert, Notify, NotifyOutcome, NotifyStatus, Outcome
<1>3. /\ task'[h].pc = "countAlert" /\ task'[h].status = q
      /\ \A g \in Handler : g # h => task'[g] = task[g]
  BY <1>1, <1>2 DEF Task
<1>4. PICK d \in {0, 1} : d = IF o = q THEN 1 ELSE 0
  OBVIOUS
<1>5. Cardinality(CountingOf(o)') = Cardinality(CountingOf(o)) + d
  <2>1. /\ CountingOf(o)' \ {h} = CountingOf(o) \ {h} /\ h \notin CountingOf(o)
        /\ h \in CountingOf(o)' <=> o = q
    BY <1>1, <1>3, CountingMoves
  <2>2. QED  BY <1>4, <2>1, CountTypes, OneElementDiffers
<1>6. SumFunction(ToldBy(o)') = SumFunction(ToldBy(o)) + d
  <2> DEFINE m == task[h].mach
  <2>1. /\ ToldBy(o) \in [Machine -> Nat] /\ ToldBy(o)' \in [Machine -> Nat]
        /\ SumFunction(ToldBy(o)) \in Nat
    <3>1. ToldBy(o)' \in [Machine -> Nat]
      BY DEF ToldBy, TypeOK, AuditOK, Level
    <3>2. QED  BY <3>1, CountTypes
  <2>2. /\ \A x \in Machine : x # m => ToldBy(o)'[x] = ToldBy(o)[x]
        /\ ToldBy(o)'[m] = ToldBy(o)[m] + d
    BY <1>1, <1>2, <1>4 DEF ToldBy, TypeOK, AuditOK, Level
  <2>3. /\ SumFunction(ToldBy(o)') \in Nat
        /\ SumFunction(ToldBy(o)') + ToldBy(o)[m] = SumFunction(ToldBy(o)) + ToldBy(o)'[m]
    BY <1>1, <2>1, <2>2, SumChanges DEF FiniteSystem
  <2>4. ToldBy(o)[m] \in Nat
    BY <1>1, <2>1
  <2>5. QED  BY <2>1, <2>2, <2>3, <2>4
<1>7. SumFunction(CountedBy(o)') = SumFunction(CountedBy(o))
  BY <1>1 DEF CountedBy
<1>8. QED
  BY <1>1, <1>4, <1>5, <1>6, <1>7, CountTypes DEF AllCountsAgree, CountsAgree

(* It counts it in its process. *)
LEMMA CountCounts ==
  ASSUME TypeOK, TypeOK', FiniteSystem, AllCountsAgree, NEW h \in Handler,
         CountNotification(h), NEW o \in Outcome
  PROVE  CountsAgree(o)'
<1> DEFINE r == task[h].rep
<1>1. /\ task[h].pc = "countAlert" /\ task[h] \in Task /\ r \in Replica
      /\ task[h].status \in Outcome /\ task \in [Handler -> Task \cup {Idle}]
      /\ UNCHANGED <<notified, crashes>>
      /\ serverAlertNotificationsTotal' = Observed(r, task[h].status)
  BY ActiveTask DEF CountNotification, environment, TypeOK, TaskOK
<1>2. /\ task'[h].pc = "saveAlert"
      /\ \A g \in Handler : g # h => task'[g] = task[g]
  BY <1>1 DEF CountNotification, Goto, Task
<1>3. PICK d \in {0, 1} : d = IF o = task[h].status THEN 1 ELSE 0
  OBVIOUS
<1>4. Cardinality(CountingOf(o)) = Cardinality(CountingOf(o)') + d
  <2>1. /\ CountingOf(o)' \ {h} = CountingOf(o) \ {h} /\ h \notin CountingOf(o)'
        /\ h \in CountingOf(o) <=> o = task[h].status
    BY <1>1, <1>2, CountingMoves
  <2>2. IsFiniteSet(CountingOf(o)) /\ Cardinality(CountingOf(o)) \in Nat
    BY CountTypes
  <2>3. QED  BY <1>3, <2>1, <2>2, OneElementDiffers
<1>5. SumFunction(CountedBy(o)') = SumFunction(CountedBy(o)) + d
  <2>1. /\ CountedBy(o) \in [Replica -> Nat] /\ CountedBy(o)' \in [Replica -> Nat]
        /\ SumFunction(CountedBy(o)) \in Nat
    BY CountTypes DEF CountedBy, TypeOK, AuditOK
  <2>2. /\ \A x \in Replica : x # r => CountedBy(o)'[x] = CountedBy(o)[x]
        /\ CountedBy(o)'[r] = CountedBy(o)[r] + d
    BY <1>1, <1>3 DEF Observed, CountedBy, TypeOK, AuditOK
  <2>3. /\ SumFunction(CountedBy(o)') \in Nat
        /\ SumFunction(CountedBy(o)') + CountedBy(o)[r]
             = SumFunction(CountedBy(o)) + CountedBy(o)'[r]
    BY <1>1, <2>1, <2>2, SumChanges DEF FiniteSystem
  <2>4. CountedBy(o)[r] \in Nat
    BY <1>1, <2>1
  <2>5. QED  BY <2>1, <2>2, <2>3, <2>4
<1>6. SumFunction(ToldBy(o)') = SumFunction(ToldBy(o))
  BY <1>1 DEF ToldBy
<1>7. Cardinality(CountingOf(o)') \in Nat
  <2>1. CountingOf(o)' \subseteq Handler
    BY DEF CountingOf
  <2>2. QED  BY <2>1, ConstantsAssumption, FS_Subset, FS_CardinalityType
<1>8. QED
  BY <1>1, <1>3, <1>4, <1>5, <1>6, <1>7, CountTypes DEF AllCountsAgree, CountsAgree

LEMMA OtherStepCounts ==
  ASSUME TypeOK, AllCountsAgree, NEW h \in Handler, Step(h), ~NotifyCPUAlert(h),
         ~CountNotification(h), NEW o \in Outcome
  PROVE  CountsAgree(o)'
<1>1. /\ UNCHANGED <<serverAlertNotificationsTotal, crashes>> /\ task[h].pc # "countAlert"
      /\ task[h] \in Task /\ task \in [Handler -> Task \cup {Idle}]
  BY StepMoves, ActiveTask
  DEF Step, IncrementCPUBreach, ExpireCount, TryAcquireCooldown, SuppressAlert,
      GetCPUBreachCount, ResetCPUBreach, NotifyCPURecovery, SaveAlertEvent, environment,
      audit, TypeOK, TaskOK
<1>2. ToldBy(o)' = ToldBy(o)
  <2>1. CASE NotifyCPURecovery(h)
    <3>1. \A m \in Machine : notified'[m]["P0"] = notified[m]["P0"]
      BY <2>1 DEF NotifyCPURecovery, Notify, TypeOK, AuditOK, Level
    <3>2. QED  BY <3>1 DEF ToldBy
  <2>2. CASE UNCHANGED notified
    BY <2>2 DEF ToldBy
  <2>3. QED
    BY <2>1, <2>2
    DEF Step, IncrementCPUBreach, ExpireCount, TryAcquireCooldown, SuppressAlert,
        GetCPUBreachCount, ResetCPUBreach, SaveAlertEvent, audit
<1>3. task'[h].pc # "countAlert"
  BY <1>1, IdleFields
  DEF Step, IncrementCPUBreach, ExpireCount, TryAcquireCooldown, SuppressAlert,
      GetCPUBreachCount, ResetCPUBreach, NotifyCPURecovery, SaveAlertEvent, Goto, Return,
      Notify, Task
<1>4. \A g \in Handler : g # h => task'[g] = task[g]
  <2>1. PICK t : Moved(h, t)  BY StepMoves
  <2>2. QED  BY <1>1, <2>1 DEF Moved
<1>5. CountingOf(o)' = CountingOf(o)
  <2>1. h \notin CountingOf(o) /\ h \notin CountingOf(o)'
    BY <1>1, <1>3 DEF CountingOf
  <2>2. CountingOf(o)' \ {h} = CountingOf(o) \ {h}
    BY <1>4, CountingMoves
  <2>3. QED  BY <2>1, <2>2
<1>6. CountedBy(o)' = CountedBy(o)
  BY <1>1 DEF CountedBy
<1>7. QED  BY <1>1, <1>2, <1>5, <1>6, CountsKept DEF AllCountsAgree

(* The process that dies takes its counter with it, and what it was about to     *)
(* count.                                                                        *)
LEMMA CrashCounts ==
  ASSUME TypeOK, TypeOK', FiniteSystem, AllCountsAgree, NEW r \in Replica, Crash(r),
         NEW o \in Outcome
  PROVE  CountsAgree(o)'
<1>1. /\ notified' = notified /\ crashes' = crashes + 1 /\ crashes \in Nat
      /\ serverAlertNotificationsTotal' = [serverAlertNotificationsTotal EXCEPT ![r] = NoneYet]
      /\ task' = [g \in Handler |-> IF task[g].rep = r THEN Idle ELSE task[g]]
  BY DEF Crash, TypeOK, EnvironmentOK
<1>2. CountingOf(o)' \subseteq CountingOf(o)
  BY <1>1, IdleFields DEF CountingOf
<1>3. /\ Cardinality(CountingOf(o)') <= Cardinality(CountingOf(o))
      /\ Cardinality(CountingOf(o)') \in Nat
  BY <1>2, CountTypes, FS_Subset, FS_CardinalityType
<1>4. /\ SumFunction(CountedBy(o)') <= SumFunction(CountedBy(o))
      /\ SumFunction(CountedBy(o)') \in Nat
  <2>1. /\ CountedBy(o) \in [Replica -> Nat] /\ CountedBy(o)' \in [Replica -> Nat]
        /\ SumFunction(CountedBy(o)) \in Nat
    BY CountTypes DEF CountedBy, TypeOK, AuditOK
  <2>2. /\ \A x \in Replica : x # r => CountedBy(o)'[x] = CountedBy(o)[x]
        /\ CountedBy(o)'[r] = 0
    BY <1>1 DEF NoneYet, CountedBy, TypeOK, AuditOK
  <2>3. /\ SumFunction(CountedBy(o)') \in Nat
        /\ SumFunction(CountedBy(o)') + CountedBy(o)[r]
             = SumFunction(CountedBy(o)) + CountedBy(o)'[r]
    BY <2>1, <2>2, SumChanges DEF FiniteSystem
  <2>4. CountedBy(o)[r] \in Nat
    BY <2>1
  <2>5. QED  BY <2>1, <2>2, <2>3, <2>4
<1>5. SumFunction(ToldBy(o)') = SumFunction(ToldBy(o))
  BY <1>1 DEF ToldBy
<1>6. QED
  BY <1>1, <1>3, <1>4, <1>5, CountTypes DEF AllCountsAgree, CountsAgree

LEMMA StepCounts ==
  TypeOK /\ FiniteSystem /\ AllCountsAgree /\ [Next]_vars => AllCountsAgree'
<1> SUFFICES ASSUME TypeOK, FiniteSystem, AllCountsAgree, [Next]_vars, NEW o \in Outcome
             PROVE  CountsAgree(o)'
  BY DEF AllCountsAgree
<1>0. TypeOK'  BY StepTypeOK
<1>1. ASSUME NEW h \in Handler, Step(h) PROVE CountsAgree(o)'
  BY <1>0, <1>1, NotifyCounts, CountCounts, OtherStepCounts
<1>2. ASSUME UNCHANGED <<notified, serverAlertNotificationsTotal, crashes>>,
             CountingOf(o)' = CountingOf(o)
      PROVE  CountsAgree(o)'
  <2>1. ToldBy(o)' = ToldBy(o) /\ CountedBy(o)' = CountedBy(o)
    BY <1>2 DEF ToldBy, CountedBy
  <2>2. QED  BY <1>2, <2>1, CountsKept DEF AllCountsAgree
<1>3. ASSUME NEW h \in Handler, NEW r \in Replica, NEW m \in Machine, NEW breach \in BOOLEAN,
             StartEvaluation(h, r, m, breach)
      PROVE  CountsAgree(o)'
  <2>1. /\ UNCHANGED <<notified, serverAlertNotificationsTotal, crashes>>
        /\ task[h] = Idle /\ task'[h].pc # "countAlert"
        /\ \A g \in Handler : g # h => task'[g] = task[g]
    BY <1>3 DEF StartEvaluation, audit, TypeOK, TaskOK, Idle
  <2>2. CountingOf(o)' = CountingOf(o)
    BY <2>1, IdleFields DEF CountingOf
  <2>3. QED  BY <1>2, <2>1, <2>2
<1>4. CASE UNCHANGED vars \/ Tick \/ \E r \in Replica : StartServer(r)
  <2>1. UNCHANGED <<notified, serverAlertNotificationsTotal, crashes, task>>
    BY <1>4 DEF vars, audit, environment, Tick, StartServer
  <2>2. CountingOf(o)' = CountingOf(o)
    BY <2>1 DEF CountingOf
  <2>3. QED  BY <1>2, <2>1, <2>2
<1>5. QED  BY <1>0, <1>1, <1>3, <1>4, CrashCounts DEF Next, Quiesce

LEMMA InitCounts == FiniteSystem /\ Init => AllCountsAgree
<1> SUFFICES ASSUME FiniteSystem, Init, NEW o \in Outcome PROVE CountsAgree(o)
  BY DEF AllCountsAgree
<1>1. CountingOf(o) = {}
  BY IdleFields DEF Init, CountingOf
<1>2. SumFunction(ToldBy(o)) = 0 /\ SumFunction(CountedBy(o)) = 0
  <2>1. /\ \A m \in Machine : ToldBy(o)[m] = 0
        /\ \A r \in Replica : CountedBy(o)[r] = 0
        /\ DOMAIN ToldBy(o) = Machine /\ DOMAIN CountedBy(o) = Replica
    BY DEF Init, Zero, NoneYet, Level, ToldBy, CountedBy
  <2>2. QED  BY <2>1, SumOfZeros DEF FiniteSystem
<1>3. QED  BY <1>1, <1>2, FS_EmptySet DEF CountsAgree

(* main.go 423-430: the counters behind the CloudOpsAlertNotificationFailures     *)
(* alert never claim an outcome that no P0 notification had, whatever process     *)
(* dies between the webhook and its counter or loses the counter with its memory, *)
(* and miss none as long as no process has died.  (For finitely many machines and *)
(* processes: there is no sum over others.)                                       *)
THEOREM P0CounterIsTruthful ==
  IsFiniteSet(Machine) /\ IsFiniteSet(Replica) => (Spec => []P0CounterAgrees)
<1> SUFFICES ASSUME FiniteSystem PROVE Spec => []P0CounterAgrees
  BY DEF FiniteSystem
<1>1. Init => TypeOK /\ AllCountsAgree
  BY InitTypeOK, InitCounts
<1>2. TypeOK /\ AllCountsAgree /\ [Next]_vars => (TypeOK /\ AllCountsAgree)'
  BY StepTypeOK, StepCounts
<1>3. AllCountsAgree => P0CounterAgrees
  BY DEF AllCountsAgree, CountsAgree, P0CounterAgrees, ToldBy, CountedBy, Counting, CountingOf
<1>4. QED  BY <1>1, <1>2, <1>3, PTL DEF Spec

-----------------------------------------------------------------------------
(* What the alerts say: the streak that a P0 and a RECOVERY report, and whether *)
(* every P0 is followed by its RECOVERY.                                        *)
(* They hold when the samples of a machine are evaluated one at a time and one  *)
(* store that answers keeps the counts: a Redis that does not fail, shared by   *)
(* processes that do not die in the middle of an evaluation, or the memory of   *)
(* a single server, which forgets the counts with the evaluations it had begun. *)

OneRedis == AlertStoreType = "redis" /\ Faults \cap {"redis", "crash"} = {}
OneMemory == AlertStoreType = "memory" /\ \E r \in Replica : Replica = {r}
OneStore == Overlap = FALSE /\ (OneRedis \/ OneMemory)

InUse == IF AlertStoreType = "redis" THEN Redis ELSE CHOOSE r \in Replica : TRUE

-----------------------------------------------------------------------------
(* The invariant.  A goroutine's place in evaluateCPUAlert bounds the count of  *)
(* the store, and its own copy of it, by the streak of its machine.             *)

Breaches(m) == Count(InUse, m)

\* t is an evaluation of a machine with k breaches in the store, a streak of s,
\* and a streak of e before its last normal sample.
Placed(t, k, s, e) ==
  /\ t.pc = "increment" => k < s
  /\ t.pc \in {"expire", "acquire", "notifyAlert", "countAlert", "saveAlert"}
       => k <= s
  /\ t.pc \in {"expire", "acquire", "notifyAlert"} => t.n <= s
  /\ t.pc \in {"acquire", "notifyAlert"} => Reached(t.n)
  /\ t.pc \in {"get", "reset"} => k <= e
  /\ t.pc = "reset" => t.n <= e
  /\ t.pc = "notifyRecovery" => t.n \in 1..e
  /\ t.pc \in {"notifyRecovery", "saveRecovery"} => k = 0

SharedStore == \A r \in Replica : store[r] \in {InUse, None}

MachineOK(m) ==
  /\ \A g, h \in Handler : task[g].mach = m /\ task[h].mach = m => g = h
  /\ \A h \in Handler :
       task[h].mach = m => Placed(task[h], Breaches(m), streak[m], ended[m])
  /\ Quiet(m) => Breaches(m) <= streak[m]

StreakInv == SharedStore /\ \A m \in Machine : MachineOK(m)

LEMMA InUseIsStore ==
  ASSUME OneStore
  PROVE  InUse \in Store /\ InUse # None /\ CallResult(InUse) = {"ok"}
<1>1. CASE OneRedis
  BY <1>1, ConstantsAssumption DEF OneRedis, InUse, Store, CallResult
<1>2. CASE OneMemory
  <2>1. InUse \in Replica
    BY <1>2 DEF OneMemory, InUse
  <2>2. QED  BY <2>1, ConstantsAssumption DEF Store, CallResult
<1>3. QED  BY <1>1, <1>2 DEF OneStore

LEMMA BreachesNat ==
  ASSUME TypeOK, OneStore, NEW m \in Machine
  PROVE  /\ Breaches(m) \in Nat
         /\ streak[m] \in Nat
         /\ ended[m] \in Nat
BY InUseIsStore DEF Breaches, Count, TypeOK, KeysOK, HistoryOK

(* A machine is not disturbed by what happens to the evaluations of others, nor *)
(* by its count running out.                                                    *)
LEMMA MachineKept ==
  ASSUME TypeOK, OneStore, NEW m \in Machine, MachineOK(m),
         streak'[m] = streak[m], ended'[m] = ended[m],
         Breaches(m)' \in Nat, Breaches(m)' <= Breaches(m),
         \A h \in Handler : task'[h] = task[h] \/ (task[h].mach # m /\ task'[h].mach # m)
  PROVE  MachineOK(m)'
<1>1. Breaches(m) \in Nat /\ streak[m] \in Nat /\ ended[m] \in Nat
  BY BreachesNat
<1>2. \A h \in Handler : task'[h].mach = m => task'[h] = task[h] /\ task[h].mach = m
  OBVIOUS
<1>3. \A g, h \in Handler : task'[g].mach = m /\ task'[h].mach = m => g = h
  BY <1>2 DEF MachineOK
<1>4. ASSUME NEW h \in Handler, task'[h].mach = m
      PROVE  Placed(task'[h], Breaches(m)', streak'[m], ended'[m])
  <2>1. task'[h] = task[h] /\ Placed(task[h], Breaches(m), streak[m], ended[m])
    BY <1>2, <1>4 DEF MachineOK
  <2>2. Placed(task[h], Breaches(m)', streak[m], ended[m])
    BY <2>1, <1>1 DEF Placed
  <2>3. QED  BY <2>1, <2>2
<1>5. Quiet(m)' => Breaches(m)' <= streak'[m]
  <2>1. Quiet(m)' => Quiet(m)
    BY DEF Quiet
  <2>2. QED  BY <2>1, <1>1 DEF MachineOK
<1>6. QED  BY <1>3, <1>4, <1>5 DEF MachineOK

(* What is left to show of the step of a goroutine: that its own task fits its  *)
(* machine again.                                                               *)
LEMMA MachineMoved ==
  ASSUME TypeOK, OneStore, NEW m \in Machine, MachineOK(m),
         NEW h \in Handler, task[h].mach = m, NEW t, Moved(h, t),
         t # Idle => Placed(t, Breaches(m)', streak'[m], ended'[m]),
         t = Idle => Breaches(m)' <= streak'[m]
  PROVE  MachineOK(m)'
<1>1. task' = [task EXCEPT ![h] = t] /\ task \in [Handler -> Task \cup {Idle}]
  BY DEF Moved, TypeOK, TaskOK
<1>2. /\ task'[h] = t
      /\ \A g \in Handler : g # h => task'[g] = task[g] /\ task'[g].mach # m
  BY <1>1 DEF MachineOK
<1>3. \A g \in Handler : task'[g].mach = m => g = h
  BY <1>2
<1>4. t = Idle => t.mach # m
  BY IdleFields, ConstantsAssumption
<1>5. t # Idle => ~Quiet(m)'
  BY <1>2 DEF Moved, Quiet
<1>6. QED  BY <1>2, <1>3, <1>4, <1>5 DEF MachineOK

-----------------------------------------------------------------------------
(* The steps of a goroutine.                                                    *)

(* How the task of a goroutine that moves to the stage p looks. *)
LEMMA MovedFields ==
  ASSUME TypeOK, NEW h \in Handler, task[h].pc # "idle", NEW p \in Stage
  PROVE  /\ task' = [task EXCEPT ![h].pc = p]
              => task'[h].pc = p /\ task'[h].n = task[h].n
         /\ \A n \in Nat :
              /\ task' = [task EXCEPT ![h].n = n, ![h].pc = p]
                   => task'[h].pc = p /\ task'[h].n = n
              /\ task' = [task EXCEPT ![h].pc = p, ![h].n = n]
                   => task'[h].pc = p /\ task'[h].n = n
         /\ \A o \in Outcome :
              task' = [task EXCEPT ![h].pc = p, ![h].status = o] => task'[h].pc = p
<1>1. task[h] \in Task /\ task \in [Handler -> Task \cup {Idle}]
  BY ActiveTask DEF TypeOK, TaskOK
<1>2. QED  BY <1>1 DEF Task

(* The setting of a step: h evaluates a sample of m with the store in use. *)
LEMMA StepSetting ==
  ASSUME TypeOK, OneStore, StreakInv, NEW h \in Handler, Step(h)
  PROVE  /\ task[h].pc # "idle" /\ task[h] \in Task /\ task[h].n \in Nat
         /\ task[h].mach \in Machine
         /\ StoreOf(h) = InUse /\ CallResult(StoreOf(h)) = {"ok"}
         /\ MachineOK(task[h].mach)
         /\ Placed(task[h], Breaches(task[h].mach), streak[task[h].mach], ended[task[h].mach])
         /\ task'[h] # Idle => task'[h].mach = task[h].mach
         /\ \A g \in Handler : g # h => task'[g] = task[g]
         /\ now' = now /\ store' = store
<1>1. /\ task[h].pc # "idle" /\ task[h] \in Task /\ task[h].n \in Nat
      /\ task[h].mach \in Machine /\ task[h].rep \in Replica
      /\ StoreOf(h) \in Store
  BY StepMoves, ActiveTask
<1>2. StoreOf(h) = InUse
  BY <1>1 DEF StreakInv, SharedStore, StoreOf, TypeOK, TaskOK
<1>3. CallResult(StoreOf(h)) = {"ok"}
  BY <1>2, InUseIsStore
<1>4. MachineOK(task[h].mach)
  BY <1>1 DEF StreakInv
<1>5. PICK t : Moved(h, t)
  BY StepMoves
<1>6. task' = [task EXCEPT ![h] = t] /\ task \in [Handler -> Task \cup {Idle}]
  BY <1>5 DEF Moved, TypeOK, TaskOK
<1>7. /\ task'[h] # Idle => task'[h].mach = task[h].mach
      /\ \A g \in Handler : g # h => task'[g] = task[g]
  BY <1>5, <1>6 DEF Moved
<1>8. now' = now /\ store' = store
  BY StepMoves DEF environment
<1>9. Placed(task[h], Breaches(task[h].mach), streak[task[h].mach], ended[task[h].mach])
  BY <1>4 DEF MachineOK
<1>10. QED  BY <1>1, <1>2, <1>3, <1>4, <1>7, <1>8, <1>9

(* A step changes the count of its own machine only. *)
LEMMA CountElsewhere ==
  ASSUME TypeOK, OneStore, StreakInv, NEW h \in Handler, Step(h),
         NEW m \in Machine, task[h].mach # m
  PROVE  count'[InUse][m] = count[InUse][m] /\ countUntil'[InUse][m] = countUntil[InUse][m]
<1> DEFINE mm == task[h].mach
<1>1. InUse \in Store /\ mm \in Machine /\ mm # m /\ StoreOf(h) = InUse
  BY InUseIsStore, StepSetting
<1>2. /\ count' = count \/ \E c : count' = [count EXCEPT ![InUse][mm] = c]
      /\ countUntil' = countUntil \/ \E c : countUntil' = [countUntil EXCEPT ![InUse][mm] = c]
  <2>1. CASE IncrementCPUBreach(h)
    BY <1>1, <2>1 DEF IncrementCPUBreach, Incremented
  <2>2. CASE ExpireCount(h)
    BY <1>1, <2>2 DEF ExpireCount
  <2>3. CASE ResetCPUBreach(h)
    BY <1>1, <2>3 DEF ResetCPUBreach, Cleared
  <2>4. CASE UNCHANGED <<count, countUntil>>
    BY <2>4
  <2>5. QED
    BY <2>1, <2>2, <2>3, <2>4
    DEF Step, TryAcquireCooldown, SuppressAlert, NotifyCPUAlert, CountNotification,
        GetCPUBreachCount, NotifyCPURecovery, SaveAlertEvent, keys
<1>3. QED
  BY <1>1, <1>2 DEF TypeOK, KeysOK

LEMMA HistoryKept ==
  ASSUME NEW h \in Handler, Step(h)
  PROVE  streak' = streak /\ ended' = ended
BY DEF Step, IncrementCPUBreach, ExpireCount, TryAcquireCooldown, SuppressAlert,
       NotifyCPUAlert, CountNotification, GetCPUBreachCount, ResetCPUBreach,
       NotifyCPURecovery, SaveAlertEvent, sampleHistory

LEMMA StepElsewhere ==
  ASSUME TypeOK, OneStore, StreakInv, NEW h \in Handler, Step(h),
         NEW m \in Machine, task[h].mach # m
  PROVE  MachineOK(m)'
<1>1. streak' = streak /\ ended' = ended
  BY HistoryKept
<1>2. count'[InUse][m] = count[InUse][m] /\ countUntil'[InUse][m] = countUntil[InUse][m]
  BY CountElsewhere
<1>3. now' = now
  BY StepSetting
<1>4. Breaches(m)' = Breaches(m)
  BY <1>2, <1>3, InUseIsStore DEF Breaches, Count, InUse
<1>5. \A g \in Handler : task'[g] = task[g] \/ (task[g].mach # m /\ task'[g].mach # m)
  BY StepSetting, IdleFields, ConstantsAssumption
<1>6. Breaches(m) \in Nat /\ MachineOK(m)
  BY BreachesNat DEF StreakInv
<1>7. QED  BY <1>1, <1>4, <1>5, <1>6, MachineKept

(* A step of h that leaves MachineOK of its machine to be shown from how its task *)
(* fits afterwards.                                                              *)
LEMMA StepHere ==
  ASSUME TypeOK, OneStore, StreakInv, NEW h \in Handler, Step(h),
         NEW m, m = task[h].mach,
         task'[h] # Idle => Placed(task'[h], Breaches(m)', streak'[m], ended'[m]),
         task'[h] = Idle => Breaches(m)' <= streak'[m]
  PROVE  MachineOK(m)'
<1>1. PICK t : Moved(h, t)
  BY StepMoves
<1>2. task'[h] = t
  BY <1>1 DEF Moved, TypeOK, TaskOK
<1>3. m \in Machine /\ MachineOK(m)
  BY StepSetting
<1>4. QED  BY <1>1, <1>2, <1>3, MachineMoved

(* The count grows by one, to a value that its goroutine remembers: the breach   *)
(* that the streak had counted already.                                          *)
LEMMA IncrementHere ==
  ASSUME TypeOK, OneStore, StreakInv, NEW h \in Handler, IncrementCPUBreach(h),
         NEW m, m = task[h].mach
  PROVE  MachineOK(m)'
<1>k. PICK k : k = Breaches(m)
  OBVIOUS
<1>0. Step(h)  BY DEF Step
<1>1. /\ task[h].pc = "increment" /\ m \in Machine /\ StoreOf(h) = InUse /\ InUse \in Store
      /\ k \in Nat /\ streak[m] \in Nat /\ now' = now /\ k < streak[m]
  BY <1>k, <1>0, StepSetting, BreachesNat, InUseIsStore DEF IncrementCPUBreach, Placed
<1>2. /\ Incremented(InUse, m)
      /\ \/ task' = [task EXCEPT ![h] = Idle]
         \/ task' = [task EXCEPT ![h].n = k + 1, ![h].pc = "expire"]
         \/ /\ task' = [task EXCEPT ![h].n = k + 1, ![h].pc = "acquire"]
            /\ Reached(k + 1)
  <2>1. CallResult(InUse) = {"ok"}  BY InUseIsStore
  <2>2. /\ Incremented(InUse, m)
        /\ IF InUse # Redis /\ ~Reached(k + 1)
           THEN Return(h)
           ELSE task' = [task EXCEPT ![h].n = k + 1,
                                     ![h].pc = IF InUse = Redis THEN "expire" ELSE "acquire"]
    BY <1>k, <1>1, <2>1 DEF IncrementCPUBreach, Breaches
  <2>3. QED  BY <2>2 DEF Return
<1>3. Breaches(m)' \in Nat /\ Breaches(m)' <= k + 1
  <2>1. count'[InUse][m] = k + 1
    BY <1>k, <1>1, <1>2 DEF Incremented, Breaches, TypeOK, KeysOK
  <2>2. Breaches(m)' = IF now' < countUntil'[InUse][m] THEN count'[InUse][m] ELSE 0
    BY DEF Breaches, Count, InUse
  <2>3. QED  BY <1>1, <2>1, <2>2
<1>4. streak'[m] = streak[m] /\ ended'[m] = ended[m]
  BY <1>0, HistoryKept
<1>5. CASE task' = [task EXCEPT ![h] = Idle]
  <2>1. task'[h] = Idle
    BY <1>5 DEF TypeOK, TaskOK
  <2>2. Breaches(m)' <= streak'[m]
    BY <1>1, <1>3, <1>4
  <2>3. QED  BY <1>0, <2>1, <2>2, StepHere
<1>6. ASSUME NEW p \in {"expire", "acquire"},
             task' = [task EXCEPT ![h].n = k + 1, ![h].pc = p],
             p = "acquire" => Reached(k + 1)
      PROVE  MachineOK(m)'
  <2>1. task'[h].pc = p /\ task'[h].n = k + 1
    <3>1. task[h].pc # "idle" /\ p \in Stage /\ k + 1 \in Nat
      BY <1>1, <1>6 DEF Stage
    <3>2. QED  BY <3>1, <1>6, MovedFields
  <2>2. Placed(task'[h], Breaches(m)', streak'[m], ended'[m])
    BY <1>1, <1>3, <1>4, <1>6, <2>1 DEF Placed
  <2>3. task'[h] # Idle
    BY <2>1, IdleFields
  <2>4. QED  BY <1>0, <2>2, <2>3, StepHere
<1>7. QED
  BY <1>2, <1>5, <1>6

(* EXPIRE shortens or lengthens the life of the count, no more. *)
LEMMA ExpireHere ==
  ASSUME TypeOK, OneStore, StreakInv, NEW h \in Handler, ExpireCount(h),
         NEW m, m = task[h].mach
  PROVE  MachineOK(m)'
<1>k. PICK k : k = Breaches(m)
  OBVIOUS
<1>0. Step(h)  BY DEF Step
<1>1. /\ task[h].pc = "expire" /\ m \in Machine /\ StoreOf(h) = InUse /\ InUse \in Store
      /\ k \in Nat /\ streak[m] \in Nat /\ now' = now /\ now \in Nat
      /\ k <= streak[m] /\ task[h].n <= streak[m] /\ task[h] \in Task
  BY <1>k, <1>0, StepSetting, BreachesNat, InUseIsStore
  DEF ExpireCount, Placed, TypeOK, EnvironmentOK
<1>2. /\ count' = count
      /\ countUntil' = IF Count(InUse, m) > 0
                       THEN [countUntil EXCEPT ![InUse][m] = now + CountTTL]
                       ELSE countUntil
      /\ IF Reached(task[h].n) THEN Goto(h, "acquire") ELSE Return(h)
  <2>1. CallResult(InUse) = {"ok"}  BY InUseIsStore
  <2>2. QED  BY <1>1, <2>1 DEF ExpireCount
<1>3. Breaches(m)' = k
  <2>1. Breaches(m)' = IF now' < countUntil'[InUse][m] THEN count'[InUse][m] ELSE 0
    BY DEF Breaches, Count, InUse
  <2>2. k = IF now < countUntil[InUse][m] THEN count[InUse][m] ELSE 0
    BY <1>k DEF Breaches, Count
  <2>3. CASE Count(InUse, m) > 0
    <3>1. countUntil'[InUse][m] = now + CountTTL
      BY <1>1, <1>2, <2>3 DEF TypeOK, KeysOK
    <3>2. now < countUntil[InUse][m]
      BY <2>3 DEF Count
    <3>3. now < now + CountTTL
      BY <1>1, ConstantsAssumption
    <3>4. QED  BY <1>1, <1>2, <2>1, <2>2, <3>1, <3>2, <3>3
  <2>4. CASE ~(Count(InUse, m) > 0)
    BY <1>1, <1>2, <2>1, <2>2, <2>4
  <2>5. QED  BY <2>3, <2>4
<1>4. streak'[m] = streak[m] /\ ended'[m] = ended[m]
  BY <1>0, HistoryKept
<1>5. CASE Return(h)
  <2>1. task'[h] = Idle
    BY <1>5 DEF Return, TypeOK, TaskOK
  <2>2. Breaches(m)' <= streak'[m]
    BY <1>1, <1>3, <1>4
  <2>3. QED  BY <1>0, <2>1, <2>2, StepHere
<1>6. CASE Reached(task[h].n) /\ Goto(h, "acquire")
  <2>1. task'[h].pc = "acquire" /\ task'[h].n = task[h].n
    BY <1>1, <1>6, MovedFields DEF Stage, Goto
  <2>2. Placed(task'[h], Breaches(m)', streak'[m], ended'[m])
    BY <1>1, <1>3, <1>4, <1>6, <2>1 DEF Placed
  <2>3. task'[h] # Idle
    BY <2>1, IdleFields
  <2>4. QED  BY <1>0, <2>2, <2>3, StepHere
<1>7. QED
  BY <1>2, <1>5, <1>6

(* A step that leaves the counts alone and ends the evaluation, or moves it to   *)
(* a stage that asks no more than the one it leaves.                             *)
LEMMA CountKept ==
  ASSUME NEW m, UNCHANGED <<count, countUntil, now>>
  PROVE  Breaches(m)' = Breaches(m)
BY DEF Breaches, Count, InUse

LEMMA ReturnHere ==
  ASSUME TypeOK, OneStore, StreakInv, NEW h \in Handler, Step(h), Return(h),
         NEW m, m = task[h].mach, Breaches(m)' <= streak[m]
  PROVE  MachineOK(m)'
<1>1. task'[h] = Idle
  BY DEF Return, TypeOK, TaskOK
<1>2. streak' = streak
  BY HistoryKept
<1>3. QED  BY <1>1, <1>2, StepHere

LEMMA AcquireHere ==
  ASSUME TypeOK, OneStore, StreakInv, NEW h \in Handler,
         TryAcquireCooldown(h) \/ SuppressAlert(h), NEW m, m = task[h].mach
  PROVE  MachineOK(m)'
<1>0. Step(h)  BY DEF Step
<1>1. /\ task[h].pc = "acquire" /\ m \in Machine
      /\ Placed(task[h], Breaches(m), streak[m], ended[m])
  BY <1>0, StepSetting DEF TryAcquireCooldown, SuppressAlert
<1>2. Breaches(m)' = Breaches(m)
  <2>1. UNCHANGED <<count, countUntil, now>>
    BY DEF TryAcquireCooldown, SuppressAlert, environment, keys
  <2>2. QED  BY <2>1, CountKept
<1>3. streak' = streak /\ ended' = ended
  BY <1>0, HistoryKept
<1>4. CASE Return(h)
  BY <1>0, <1>1, <1>2, <1>4, ReturnHere DEF Placed
<1>5. CASE Goto(h, "notifyAlert")
  <2>1. task'[h].pc = "notifyAlert" /\ task'[h].n = task[h].n
    BY <1>1, <1>5, MovedFields DEF Stage, Goto
  <2>2. Placed(task'[h], Breaches(m)', streak'[m], ended'[m])
    BY <1>1, <1>2, <1>3, <2>1 DEF Placed
  <2>3. QED  BY <1>0, <2>1, <2>2, IdleFields, StepHere
<1>6. QED
  BY <1>4, <1>5 DEF TryAcquireCooldown, SuppressAlert

LEMMA NotifyMoves ==
  ASSUME TypeOK, NEW h \in Handler, NotifyCPUAlert(h) \/ NotifyCPURecovery(h)
  PROVE  task'[h].pc = IF task[h].pc = "notifyAlert" THEN "countAlert" ELSE "saveRecovery"
<1>1. task[h].pc \in {"notifyAlert", "notifyRecovery"}
  BY DEF NotifyCPUAlert, NotifyCPURecovery
<1>2. PICK o \in Outcome, level \in Level :
        task' = [task EXCEPT ![h].pc = IF task[h].pc = "notifyAlert" THEN "countAlert"
                                                                   ELSE "saveRecovery",
                             ![h].status = NotifyStatus(level, o)]
  BY DEF NotifyCPUAlert, NotifyCPURecovery, Notify, NotifyOutcome, Outcome, Level
<1>3. NotifyStatus(level, o) \in Outcome
  BY DEF NotifyStatus, Outcome
<1>4. QED  BY <1>1, <1>2, <1>3, MovedFields DEF Stage

LEMMA NotifyHere ==
  ASSUME TypeOK, OneStore, StreakInv, NEW h \in Handler,
         NotifyCPUAlert(h) \/ NotifyCPURecovery(h), NEW m, m = task[h].mach
  PROVE  MachineOK(m)'
<1>0. Step(h)  BY DEF Step
<1>1. /\ task[h].pc \in {"notifyAlert", "notifyRecovery"} /\ m \in Machine
      /\ Placed(task[h], Breaches(m), streak[m], ended[m])
  BY <1>0, StepSetting DEF NotifyCPUAlert, NotifyCPURecovery
<1>2. Breaches(m)' = Breaches(m)
  <2>1. UNCHANGED <<count, countUntil, now>>
    BY DEF NotifyCPUAlert, NotifyCPURecovery, environment, keys
  <2>2. QED  BY <2>1, CountKept
<1>3. streak' = streak /\ ended' = ended
  BY <1>0, HistoryKept
<1>4. task'[h].pc = IF task[h].pc = "notifyAlert" THEN "countAlert" ELSE "saveRecovery"
  BY NotifyMoves
<1>5. Placed(task'[h], Breaches(m)', streak'[m], ended'[m])
  BY <1>1, <1>2, <1>3, <1>4 DEF Placed
<1>6. task'[h] # Idle
  BY <1>4, IdleFields
<1>7. QED  BY <1>0, <1>5, <1>6, StepHere

LEMMA CountHere ==
  ASSUME TypeOK, OneStore, StreakInv, NEW h \in Handler, CountNotification(h),
         NEW m, m = task[h].mach
  PROVE  MachineOK(m)'
<1>0. Step(h)  BY DEF Step
<1>1. /\ task[h].pc = "countAlert" /\ m \in Machine
      /\ Placed(task[h], Breaches(m), streak[m], ended[m])
  BY <1>0, StepSetting DEF CountNotification
<1>2. Breaches(m)' = Breaches(m)
  <2>1. UNCHANGED <<count, countUntil, now>>
    BY DEF CountNotification, environment, keys
  <2>2. QED  BY <2>1, CountKept
<1>3. streak' = streak /\ ended' = ended
  BY <1>0, HistoryKept
<1>4. task'[h].pc = "saveAlert"
  BY <1>1, MovedFields DEF CountNotification, Goto, Stage
<1>5. Placed(task'[h], Breaches(m)', streak'[m], ended'[m])
  BY <1>1, <1>2, <1>3, <1>4 DEF Placed
<1>6. QED  BY <1>0, <1>4, <1>5, IdleFields, StepHere

LEMMA GetHere ==
  ASSUME TypeOK, OneStore, StreakInv, NEW h \in Handler, GetCPUBreachCount(h),
         NEW m, m = task[h].mach
  PROVE  MachineOK(m)'
<1>0. Step(h)  BY DEF Step
<1>1. /\ task[h].pc = "get" /\ m \in Machine /\ StoreOf(h) = InUse
      /\ Placed(task[h], Breaches(m), streak[m], ended[m])
  BY <1>0, StepSetting DEF GetCPUBreachCount
<1>2. Breaches(m)' = Breaches(m) /\ Breaches(m) \in Nat
  <2>1. UNCHANGED <<count, countUntil, now>>
    BY DEF GetCPUBreachCount, environment, keys
  <2>2. QED  BY <2>1, <1>1, CountKept, BreachesNat
<1>3. streak' = streak /\ ended' = ended
  BY <1>0, HistoryKept
<1>4. task' = [task EXCEPT ![h].pc = "reset", ![h].n = Breaches(m)]
  <2>1. CallResult(InUse) = {"ok"}  BY InUseIsStore
  <2>2. QED  BY <1>1, <2>1 DEF GetCPUBreachCount, Breaches
<1>5. task'[h].pc = "reset" /\ task'[h].n = Breaches(m)
  BY <1>1, <1>2, <1>4, MovedFields DEF Stage
<1>6. Placed(task'[h], Breaches(m)', streak'[m], ended'[m])
  BY <1>1, <1>2, <1>3, <1>5 DEF Placed
<1>7. QED  BY <1>0, <1>5, <1>6, IdleFields, StepHere

(* A normal sample clears the count, and what was read of it before was a count  *)
(* of the streak it ended.                                                       *)
LEMMA ResetHere ==
  ASSUME TypeOK, OneStore, StreakInv, NEW h \in Handler, ResetCPUBreach(h),
         NEW m, m = task[h].mach
  PROVE  MachineOK(m)'
<1>0. Step(h)  BY DEF Step
<1>1. /\ task[h].pc = "reset" /\ m \in Machine /\ StoreOf(h) = InUse /\ InUse \in Store
      /\ task[h].n \in Nat /\ ended[m] \in Nat /\ streak[m] \in Nat
      /\ Placed(task[h], Breaches(m), streak[m], ended[m])
  BY <1>0, StepSetting, BreachesNat, InUseIsStore DEF ResetCPUBreach
<1>2. /\ Cleared(InUse, m)
      /\ Return(h) \/ (Recovered(task[h].n) /\ Goto(h, "notifyRecovery"))
  <2>1. CallResult(InUse) = {"ok"}  BY InUseIsStore
  <2>2. QED  BY <1>1, <2>1 DEF ResetCPUBreach
<1>3. Breaches(m)' = 0
  <2>1. count'[InUse][m] = 0
    BY <1>1, <1>2 DEF Cleared, TypeOK, KeysOK
  <2>2. Breaches(m)' = IF now' < countUntil'[InUse][m] THEN count'[InUse][m] ELSE 0
    BY DEF Breaches, Count, InUse
  <2>3. QED  BY <2>1, <2>2
<1>4. streak' = streak /\ ended' = ended
  BY <1>0, HistoryKept
<1>5. CASE Return(h)
  BY <1>0, <1>1, <1>3, <1>5, ReturnHere
<1>6. CASE Recovered(task[h].n) /\ Goto(h, "notifyRecovery")
  <2>1. task'[h].pc = "notifyRecovery" /\ task'[h].n = task[h].n
    BY <1>1, <1>6, MovedFields DEF Stage, Goto
  <2>2. task[h].n \in 1..ended[m]
    BY <1>1, <1>6 DEF Placed, Recovered
  <2>3. Placed(task'[h], Breaches(m)', streak'[m], ended'[m])
    BY <1>3, <1>4, <2>1, <2>2 DEF Placed
  <2>4. QED  BY <1>0, <2>1, <2>3, IdleFields, StepHere
<1>7. QED  BY <1>2, <1>5, <1>6

LEMMA SaveHere ==
  ASSUME TypeOK, OneStore, StreakInv, NEW h \in Handler, NEW level \in Level,
         SaveAlertEvent(h, level), NEW m, m = task[h].mach
  PROVE  MachineOK(m)'
<1>0. Step(h)  BY DEF Step
<1>1. /\ task[h].pc \in {"saveAlert", "saveRecovery"} /\ m \in Machine /\ streak[m] \in Nat
      /\ Placed(task[h], Breaches(m), streak[m], ended[m])
  BY <1>0, StepSetting, BreachesNat DEF SaveAlertEvent
<1>2. Breaches(m)' = Breaches(m)
  <2>1. UNCHANGED <<count, countUntil, now>>
    BY DEF SaveAlertEvent, environment, keys
  <2>2. QED  BY <2>1, CountKept
<1>3. Breaches(m)' <= streak[m]
  BY <1>1, <1>2 DEF Placed
<1>4. Return(h)
  BY DEF SaveAlertEvent
<1>5. QED  BY <1>0, <1>3, <1>4, ReturnHere

LEMMA StepStreak ==
  ASSUME TypeOK, OneStore, StreakInv, NEW h \in Handler, Step(h)
  PROVE  StreakInv'
<1>1. SharedStore'
  <2>1. store' = store  BY StepSetting
  <2>2. QED  BY <2>1 DEF StreakInv, SharedStore, InUse
<1>2. ASSUME NEW m \in Machine PROVE MachineOK(m)'
  <2>1. CASE m = task[h].mach
    BY <2>1, IncrementHere, ExpireHere, AcquireHere, NotifyHere, CountHere, GetHere,
       ResetHere, SaveHere
    DEF Step
  <2>2. CASE m # task[h].mach
    BY <2>2, StepElsewhere
  <2>3. QED  BY <2>1, <2>2
<1>3. QED  BY <1>1, <1>2 DEF StreakInv

-----------------------------------------------------------------------------
(* The other actions, and the theorems.                                         *)

(* A sample of a machine that nothing evaluates: a breach lengthens the streak,  *)
(* a normal sample ends one no shorter than the count.                           *)
LEMMA StartStreak ==
  ASSUME TypeOK, OneStore, StreakInv, NEW h \in Handler, NEW r \in Replica,
         NEW m \in Machine, NEW breach \in BOOLEAN, StartEvaluation(h, r, m, breach)
  PROVE  StreakInv'
<1>1. PICK t : t = [Idle EXCEPT !.pc = IF breach THEN "increment" ELSE "get",
                                !.rep = r, !.mach = m]
  OBVIOUS
<1>2. t.mach = m /\ t.pc = IF breach THEN "increment" ELSE "get"
  BY <1>1 DEF Idle
<1>3. /\ task[h] = Idle /\ Quiet(m)
      /\ task' = [task EXCEPT ![h] = t]
      /\ streak' = [streak EXCEPT ![m] = IF breach THEN @ + 1 ELSE 0]
      /\ ended' = [ended EXCEPT ![m] = IF breach THEN @ ELSE streak[m]]
      /\ UNCHANGED <<count, countUntil, now, store>>
  BY <1>1 DEF StartEvaluation, OneStore, Quiet, keys
<1>4. /\ task'[h] = t
      /\ \A g \in Handler : g # h => task'[g] = task[g]
  BY <1>3 DEF TypeOK, TaskOK
<1>5. \A mm \in Machine : Breaches(mm)' = Breaches(mm)
  BY <1>3, CountKept
<1>6. SharedStore'
  BY <1>3 DEF StreakInv, SharedStore, InUse
<1>7. ASSUME NEW mm \in Machine PROVE MachineOK(mm)'
  <2>1. CASE mm = m
    <3>1. \A g \in Handler : task'[g].mach = m => g = h
      BY <1>3, <1>4 DEF Quiet
    <3>2. Breaches(m) <= streak[m] /\ Breaches(m) \in Nat /\ streak[m] \in Nat
      BY <1>3, BreachesNat DEF StreakInv, MachineOK
    <3>3. /\ streak'[m] = IF breach THEN streak[m] + 1 ELSE 0
          /\ ended'[m] = IF breach THEN ended[m] ELSE streak[m]
      BY <1>3 DEF TypeOK, HistoryOK
    <3>4. Placed(t, Breaches(m), streak'[m], ended'[m])
      BY <1>2, <3>2, <3>3 DEF Placed
    <3>5. ~Quiet(m)'
      BY <1>2, <1>4 DEF Quiet
    <3>6. QED  BY <1>4, <1>5, <2>1, <3>1, <3>4, <3>5 DEF MachineOK
  <2>2. CASE mm # m
    <3>1. streak'[mm] = streak[mm] /\ ended'[mm] = ended[mm]
      BY <1>3, <2>2 DEF TypeOK, HistoryOK
    <3>2. \A g \in Handler :
            task'[g] = task[g] \/ (task[g].mach # mm /\ task'[g].mach # mm)
      BY <1>2, <1>3, <1>4, <2>2, IdleFields, ConstantsAssumption
    <3>3. Breaches(mm)' \in Nat /\ Breaches(mm)' <= Breaches(mm) /\ MachineOK(mm)
      BY <1>5, BreachesNat DEF StreakInv
    <3>4. QED  BY <3>1, <3>2, <3>3, MachineKept
  <2>3. QED  BY <2>1, <2>2
<1>8. QED  BY <1>6, <1>7 DEF StreakInv

(* Processes use the one store there is. *)
LEMMA StartServerStreak ==
  ASSUME TypeOK, OneStore, StreakInv, NEW r \in Replica, StartServer(r)
  PROVE  StreakInv'
<1>1. SharedStore'
  <2>1. PICK s \in {r, Redis} :
          /\ s = Redis => AlertStoreType = "redis"
          /\ s = r => AlertStoreType = "memory" \/ "redis" \in Faults
          /\ store' = [store EXCEPT ![r] = s]
    BY DEF StartServer
  <2>2. s = InUse
    <3>1. CASE OneRedis
      BY <2>1, <3>1 DEF OneRedis, InUse
    <3>2. CASE OneMemory
      BY <2>1, <3>2 DEF OneMemory, InUse
    <3>3. QED  BY <3>1, <3>2 DEF OneStore
  <2>3. \A q \in Replica : store'[q] \in {InUse, None}
    BY <2>1, <2>2 DEF StreakInv, SharedStore, TypeOK, EnvironmentOK
  <2>4. QED  BY <2>3 DEF SharedStore, InUse
<1>2. ASSUME NEW m \in Machine PROVE MachineOK(m)'
  <2>1. UNCHANGED <<count, countUntil, now, task, streak, ended>>
    BY DEF StartServer, keys, sampleHistory
  <2>2. Breaches(m)' = Breaches(m) /\ Breaches(m) \in Nat /\ MachineOK(m)
    BY <2>1, CountKept, BreachesNat DEF StreakInv
  <2>3. QED  BY <2>1, <2>2, MachineKept
<1>3. QED  BY <1>1, <1>2 DEF StreakInv

(* The memory of the only server dies with all its evaluations. *)
LEMMA CrashStreak ==
  ASSUME TypeOK, TypeOK', OneStore, StreakInv, NEW r \in Replica, Crash(r)
  PROVE  StreakInv'
<1>1. OneMemory /\ InUse = r /\ Replica = {r}
  BY DEF Crash, OneStore, OneRedis, OneMemory, InUse
<1>2. SharedStore'
  <2>1. \A q \in Replica : store'[q] \in {InUse, None}
    BY <1>1 DEF Crash, StreakInv, SharedStore, TypeOK, EnvironmentOK
  <2>2. QED  BY <2>1 DEF SharedStore, InUse
<1>3. \A h \in Handler : task'[h] = Idle
  <2>1. \A h \in Handler : task[h] # Idle => task[h].rep = r
    BY <1>1 DEF TypeOK, TaskOK, Task
  <2>2. QED  BY <2>1 DEF Crash
<1>4. ASSUME NEW m \in Machine PROVE MachineOK(m)'
  <2>1. count'[r][m] = 0
    BY <1>1 DEF Crash, TypeOK, KeysOK, Store
  <2>2. Breaches(m)' = IF now' < countUntil'[InUse][m] THEN count'[InUse][m] ELSE 0
    BY DEF Breaches, Count, InUse
  <2>3. Breaches(m)' = 0 /\ streak'[m] \in Nat
    BY <1>1, <2>1, <2>2 DEF TypeOK, HistoryOK
  <2>4. \A h \in Handler : task'[h].mach # m
    BY <1>3, IdleFields, ConstantsAssumption
  <2>5. QED  BY <2>3, <2>4 DEF MachineOK
<1>5. QED  BY <1>2, <1>4 DEF StreakInv

LEMMA TickStreak ==
  ASSUME TypeOK, TypeOK', OneStore, StreakInv, Tick
  PROVE  StreakInv'
<1>1. UNCHANGED <<count, countUntil, task, streak, ended, store>> /\ now' = now + 1
  BY DEF Tick, keys, sampleHistory
<1>2. SharedStore'
  BY <1>1 DEF StreakInv, SharedStore, InUse
<1>3. ASSUME NEW m \in Machine PROVE MachineOK(m)'
  <2>1. /\ Breaches(m)' = IF now' < countUntil'[InUse][m] THEN count'[InUse][m] ELSE 0
        /\ Breaches(m) = IF now < countUntil[InUse][m] THEN count[InUse][m] ELSE 0
    BY DEF Breaches, Count, InUse
  <2>2. /\ now \in Nat /\ countUntil[InUse][m] \in Nat /\ count[InUse][m] \in Nat
    BY InUseIsStore DEF TypeOK, EnvironmentOK, KeysOK
  <2>3. Breaches(m)' \in Nat /\ Breaches(m)' <= Breaches(m)
    BY <1>1, <2>1, <2>2
  <2>4. MachineOK(m)
    BY DEF StreakInv
  <2>5. QED  BY <1>1, <2>3, <2>4, MachineKept
<1>4. QED  BY <1>2, <1>3 DEF StreakInv

LEMMA InvStreak == OneStore /\ TypeOK /\ StreakInv /\ [Next]_vars => StreakInv'
<1> SUFFICES ASSUME OneStore, TypeOK, StreakInv, [Next]_vars
             PROVE  StreakInv'
  OBVIOUS
<1>1. TypeOK'
  BY StepTypeOK
<1>2. CASE UNCHANGED vars
  <2>1. UNCHANGED <<count, countUntil, now, task, streak, ended, store>>
    BY <1>2 DEF vars, keys, sampleHistory, environment
  <2>2. SharedStore'
    BY <2>1 DEF StreakInv, SharedStore, InUse
  <2>3. ASSUME NEW m \in Machine PROVE MachineOK(m)'
    <3>1. Breaches(m)' = Breaches(m) /\ Breaches(m) \in Nat /\ MachineOK(m)
      BY <2>1, CountKept, BreachesNat DEF StreakInv
    <3>2. QED  BY <2>1, <3>1, MachineKept
  <2>4. QED  BY <2>2, <2>3 DEF StreakInv
<1>3. QED
  BY <1>1, <1>2, StartStreak, StepStreak, StartServerStreak, CrashStreak, TickStreak
  DEF Next, Quiesce

LEMMA InitStreak == OneStore /\ Init => StreakInv
<1> SUFFICES ASSUME OneStore, Init PROVE StreakInv
  OBVIOUS
<1>1. SharedStore
  BY DEF Init, SharedStore
<1>2. ASSUME NEW m \in Machine PROVE MachineOK(m)
  <2>1. Breaches(m) = 0 /\ streak[m] = 0
    BY InUseIsStore DEF Init, Breaches, Count
  <2>2. \A h \in Handler : task[h].mach # m
    BY IdleFields, ConstantsAssumption DEF Init
  <2>3. QED  BY <2>1, <2>2 DEF MachineOK
<1>3. QED  BY <1>1, <1>2 DEF StreakInv

LEMMA StreakInvariance == OneStore => (Spec => [](TypeOK /\ StreakInv))
<1> SUFFICES ASSUME OneStore PROVE Spec => [](TypeOK /\ StreakInv)
  OBVIOUS
<1>1. Init => TypeOK /\ StreakInv
  BY InitTypeOK, InitStreak
<1>2. TypeOK /\ StreakInv /\ [Next]_vars => (TypeOK /\ StreakInv)'
  BY StepTypeOK, InvStreak
<1>3. QED  BY <1>1, <1>2, PTL DEF Spec

LEMMA StreakFacts ==
  ASSUME TypeOK, StreakInv
  PROVE  AlertMeansConsecutive /\ RecoveryReportsStreak
<1>1. \A h \in Handler : task[h].pc # "idle" =>
        /\ task[h].mach \in Machine /\ task[h].n \in Nat
        /\ streak[task[h].mach] \in Nat
        /\ Placed(task[h], Breaches(task[h].mach), streak[task[h].mach], ended[task[h].mach])
  BY ActiveTask DEF StreakInv, MachineOK, TypeOK, HistoryOK
<1>2. ASSUME NEW h \in Handler, task[h].pc = "notifyAlert"
      PROVE  streak[task[h].mach] >= AlertTriggerCount
  BY <1>1, <1>2, ConstantsAssumption DEF Placed, Reached
<1>3. ASSUME NEW h \in Handler, task[h].pc = "notifyRecovery"
      PROVE  task[h].n \in 1..ended[task[h].mach]
  BY <1>1, <1>3 DEF Placed
<1>4. QED  BY <1>2, <1>3 DEF AlertMeansConsecutive, RecoveryReportsStreak

(* main.go:408: whoever is about to send "CPU exceeded the threshold N times in  *)
(* a row" has seen that many breaches since the last normal sample, for every    *)
(* trigger count, when samples of a machine do not overlap and one store keeps   *)
(* the counts.                                                                   *)
THEOREM AlertsAreConsecutive == OneStore => (Spec => []AlertMeansConsecutive)
<1>1. TypeOK /\ StreakInv => AlertMeansConsecutive
  BY StreakFacts
<1>2. QED  BY <1>1, StreakInvariance, PTL

(* main.go 472-494: a RECOVERY is sent for a streak that the normal sample ended, *)
(* and reports a count that this streak had, although the counter is read and    *)
(* cleared in two calls and may run out between them.                            *)
THEOREM RecoveriesReportStreaks == OneStore => (Spec => []RecoveryReportsStreak)
<1>1. TypeOK /\ StreakInv => RecoveryReportsStreak
  BY StreakFacts
<1>2. QED  BY <1>1, StreakInvariance, PTL

-----------------------------------------------------------------------------
(* Every alert is closed.  Here no process dies, and no count expires: memory   *)
(* has no expiry, and with Redis the run is shorter than the hour it keeps one. *)

Closing ==
  /\ OneStore
  /\ "crash" \notin Faults
  /\ AlertStoreType = "redis" => MaxTime < CountTTL

\* t is an evaluation of a machine with k breaches in the store and, if a, an
\* alert that is open.
Settling(t, k, a) ==
  /\ t.pc \in {"expire", "acquire", "notifyAlert", "countAlert", "saveAlert"} => k > 0
  /\ t.pc = "expire" => InUse = Redis
  /\ t.pc = "reset" => t.n = k
  /\ t.pc = "saveRecovery" => ~a

\* An open alert has breaches in the store, or its RECOVERY is about to be sent.
ClosingOK(m) ==
  /\ countUntil[InUse][m] > MaxTime
  /\ \A h \in Handler : task[h].mach = m => Settling(task[h], Breaches(m), alerted[m])
  /\ alerted[m] => \/ Breaches(m) > 0
                   \/ \E h \in Handler : task[h].mach = m /\ task[h].pc = "notifyRecovery"

ClosingInv == \A m \in Machine : ClosingOK(m)

(* Without expiry what the store holds is what it answers, before a step and    *)
(* after it.                                                                    *)
LEMMA BreachesAre ==
  ASSUME TypeOK, OneStore, NEW m \in Machine, countUntil[InUse][m] > MaxTime
  PROVE  Breaches(m) = count[InUse][m]
<1>1. now \in 0..MaxTime /\ MaxTime \in Nat /\ countUntil[InUse][m] \in Nat
  BY ConstantsAssumption, InUseIsStore DEF TypeOK, EnvironmentOK, KeysOK
<1>2. now < countUntil[InUse][m]
  BY <1>1
<1>3. QED  BY <1>2 DEF Breaches, Count

LEMMA BreachesThen ==
  ASSUME TypeOK', OneStore, NEW m \in Machine, countUntil'[InUse][m] > MaxTime
  PROVE  Breaches(m)' = count'[InUse][m]
<1>1. now' \in 0..MaxTime /\ MaxTime \in Nat /\ countUntil'[InUse][m] \in Nat
  BY ConstantsAssumption, InUseIsStore DEF TypeOK, EnvironmentOK, KeysOK
<1>2. now' < countUntil'[InUse][m]
  BY <1>1
<1>3. Breaches(m)' = IF now' < countUntil'[InUse][m] THEN count'[InUse][m] ELSE 0
  BY DEF Breaches, Count, InUse
<1>4. QED  BY <1>2, <1>3

LEMMA ClosingKept ==
  ASSUME TypeOK, TypeOK', OneStore, NEW m \in Machine, ClosingOK(m),
         count'[InUse][m] = count[InUse][m], countUntil'[InUse][m] = countUntil[InUse][m],
         alerted'[m] = alerted[m],
         \A h \in Handler : task'[h] = task[h] \/ (task[h].mach # m /\ task'[h].mach # m)
  PROVE  ClosingOK(m)'
<1>2. countUntil'[InUse][m] > MaxTime
  BY DEF ClosingOK
<1>4. Breaches(m)' = Breaches(m)
  BY <1>2, BreachesAre, BreachesThen
<1>5. \A h \in Handler : task'[h].mach = m => Settling(task'[h], Breaches(m)', alerted'[m])
  <2>1. \A h \in Handler : task'[h].mach = m => task'[h] = task[h]
    OBVIOUS
  <2>2. QED  BY <1>4, <2>1 DEF ClosingOK
<1>6. alerted'[m] => \/ Breaches(m)' > 0
                    \/ \E h \in Handler : task'[h].mach = m /\ task'[h].pc = "notifyRecovery"
  BY <1>4 DEF ClosingOK
<1>7. countUntil'[InUse'][m] > MaxTime
  BY <1>2 DEF InUse
<1>8. QED  BY <1>5, <1>6, <1>7 DEF ClosingOK

(* The step of a goroutine: what is left to show of its own machine. *)
LEMMA ClosingHere ==
  ASSUME TypeOK, OneStore, StreakInv, NEW h \in Handler, Step(h), NEW m, m = task[h].mach,
         countUntil'[InUse][m] > MaxTime,
         task'[h] # Idle => Settling(task'[h], Breaches(m)', alerted'[m]),
         alerted'[m] => Breaches(m)' > 0 \/ task'[h].pc = "notifyRecovery"
  PROVE  ClosingOK(m)'
<1>1. m \in Machine /\ \A g \in Handler : g # h => task'[g].mach # m
  BY StepSetting DEF MachineOK
<1>2. task'[h].mach = m => task'[h] # Idle
  BY <1>1, IdleFields, ConstantsAssumption
<1>3. task'[h].pc = "notifyRecovery" => task'[h].mach = m
  BY IdleFields, StepSetting
<1>4. countUntil'[InUse'][m] > MaxTime
  BY DEF InUse
<1>5. QED  BY <1>1, <1>2, <1>3, <1>4 DEF ClosingOK

LEMMA ClosingElsewhere ==
  ASSUME TypeOK, TypeOK', OneStore, StreakInv, ClosingInv, NEW h \in Handler, Step(h),
         NEW m \in Machine, task[h].mach # m
  PROVE  ClosingOK(m)'
<1>1. alerted'[m] = alerted[m]
  BY DEF Step, IncrementCPUBreach, ExpireCount, TryAcquireCooldown, SuppressAlert,
         NotifyCPUAlert, CountNotification, GetCPUBreachCount, ResetCPUBreach,
         NotifyCPURecovery, SaveAlertEvent, TypeOK, HistoryOK
<1>2. count'[InUse][m] = count[InUse][m] /\ countUntil'[InUse][m] = countUntil[InUse][m]
  BY CountElsewhere
<1>3. \A g \in Handler : task'[g] = task[g] \/ (task[g].mach # m /\ task'[g].mach # m)
  BY StepSetting, IdleFields, ConstantsAssumption
<1>4. QED  BY <1>1, <1>2, <1>3, ClosingKept DEF ClosingInv

LEMMA ClosingIncrement ==
  ASSUME TypeOK, TypeOK', OneStore, StreakInv, ClosingInv, NEW h \in Handler,
         IncrementCPUBreach(h), NEW m, m = task[h].mach
  PROVE  ClosingOK(m)'
<1>0. Step(h)  BY DEF Step
<1>1. /\ task[h].pc = "increment" /\ m \in Machine /\ StoreOf(h) = InUse /\ InUse \in Store
      /\ Breaches(m) \in Nat /\ ClosingOK(m)
  BY <1>0, StepSetting, BreachesNat, InUseIsStore DEF IncrementCPUBreach, ClosingInv
<1>2. /\ Incremented(InUse, m)
      /\ \/ Return(h)
         \/ task' = [task EXCEPT ![h].n = Breaches(m) + 1,
                                 ![h].pc = IF InUse = Redis THEN "expire" ELSE "acquire"]
  <2>1. CallResult(InUse) = {"ok"}  BY InUseIsStore
  <2>2. QED  BY <1>1, <2>1 DEF IncrementCPUBreach, Breaches
<1>3. count'[InUse][m] = Breaches(m) + 1
  BY <1>1, <1>2 DEF Incremented, Breaches, TypeOK, KeysOK
<1>4. countUntil'[InUse][m] > MaxTime
  <2>1. countUntil'[InUse][m] = Forever \/ countUntil'[InUse][m] = countUntil[InUse][m]
    BY <1>1, <1>2 DEF Incremented, TypeOK, KeysOK
  <2>2. Forever > MaxTime
    BY ConstantsAssumption DEF Forever
  <2>3. QED  BY <1>1, <2>1, <2>2 DEF ClosingOK
<1>5. Breaches(m)' > 0
  BY <1>1, <1>3, <1>4, BreachesThen
<1>6. task'[h] # Idle => Settling(task'[h], Breaches(m)', alerted'[m])
  <2>1. CASE Return(h)
    BY <2>1 DEF Return, TypeOK, TaskOK
  <2>2. ASSUME NEW p \in {"expire", "acquire"}, p = "expire" => InUse = Redis,
               task' = [task EXCEPT ![h].n = Breaches(m) + 1, ![h].pc = p]
        PROVE  Settling(task'[h], Breaches(m)', alerted'[m])
    <3>1. task'[h].pc = p
      <4>1. task[h].pc # "idle" /\ p \in Stage /\ Breaches(m) + 1 \in Nat
        BY <1>1, <2>2 DEF Stage
      <4>2. QED  BY <4>1, <2>2, MovedFields
    <3>2. QED  BY <1>5, <2>2, <3>1 DEF Settling
  <2>3. QED  BY <1>2, <2>1, <2>2
<1>7. QED  BY <1>0, <1>4, <1>5, <1>6, ClosingHere

LEMMA ClosingExpire ==
  ASSUME TypeOK, TypeOK', Closing, StreakInv, ClosingInv, NEW h \in Handler,
         ExpireCount(h), NEW m, m = task[h].mach
  PROVE  ClosingOK(m)'
<1>0. Step(h) /\ OneStore  BY DEF Step, Closing
<1>1. /\ task[h].pc = "expire" /\ m \in Machine /\ StoreOf(h) = InUse /\ InUse \in Store
      /\ Breaches(m) \in Nat /\ ClosingOK(m) /\ Settling(task[h], Breaches(m), alerted[m])
  BY <1>0, StepSetting, BreachesNat, InUseIsStore DEF ExpireCount, ClosingInv, ClosingOK
<1>2. /\ count' = count /\ alerted' = alerted
      /\ countUntil' = IF Breaches(m) > 0
                       THEN [countUntil EXCEPT ![InUse][m] = now + CountTTL]
                       ELSE countUntil
      /\ Return(h) \/ Goto(h, "acquire")
  <2>1. CallResult(InUse) = {"ok"}  BY <1>0, InUseIsStore
  <2>2. QED  BY <1>1, <2>1 DEF ExpireCount, Breaches
<1>3. countUntil'[InUse][m] > MaxTime
  <2>1. Breaches(m) > 0 /\ InUse = Redis
    BY <1>1 DEF Settling
  <2>2. AlertStoreType = "redis"
    BY <2>1, <1>0, ConstantsAssumption DEF InUse, OneStore, OneRedis, OneMemory
  <2>3. now \in Nat /\ MaxTime \in Nat /\ CountTTL \in Nat /\ MaxTime < CountTTL
    BY <2>2, ConstantsAssumption DEF Closing, TypeOK, EnvironmentOK
  <2>4. countUntil'[InUse][m] = now + CountTTL
    BY <1>1, <1>2, <2>1 DEF TypeOK, KeysOK
  <2>5. QED  BY <2>3, <2>4
<1>4. Breaches(m)' = Breaches(m)
  BY <1>0, <1>1, <1>2, <1>3, BreachesAre, BreachesThen DEF ClosingOK
<1>5. task'[h] # Idle => Settling(task'[h], Breaches(m)', alerted'[m])
  <2>1. CASE Return(h)
    BY <2>1 DEF Return, TypeOK, TaskOK
  <2>2. CASE Goto(h, "acquire")
    <3>1. task'[h].pc = "acquire"
      BY <1>1, <2>2, MovedFields DEF Goto, Stage
    <3>2. QED  BY <1>1, <1>4, <3>1 DEF Settling
  <2>3. QED  BY <1>2, <2>1, <2>2
<1>6. Breaches(m)' > 0
  BY <1>1, <1>4 DEF Settling
<1>7. QED  BY <1>0, <1>3, <1>5, <1>6, ClosingHere

(* A step that leaves the counts of the store alone. *)
LEMMA ClosingSame ==
  ASSUME TypeOK, TypeOK', OneStore, StreakInv, ClosingInv, NEW h \in Handler, Step(h),
         NEW m, m = task[h].mach, UNCHANGED <<count, countUntil>>
  PROVE  /\ m \in Machine /\ ClosingOK(m)
         /\ countUntil'[InUse][m] > MaxTime /\ Breaches(m)' = Breaches(m)
         /\ Breaches(m) \in Nat
         /\ Settling(task[h], Breaches(m), alerted[m])
<1>1. m \in Machine /\ ClosingOK(m)
  BY StepSetting DEF ClosingInv
<1>2. countUntil'[InUse][m] > MaxTime
  BY <1>1 DEF ClosingOK
<1>3. Breaches(m)' = Breaches(m)
  BY <1>1, <1>2, BreachesAre, BreachesThen DEF ClosingOK
<1>4. QED  BY <1>1, <1>2, <1>3, BreachesNat DEF ClosingOK

LEMMA ClosingAcquire ==
  ASSUME TypeOK, TypeOK', OneStore, StreakInv, ClosingInv, NEW h \in Handler,
         TryAcquireCooldown(h) \/ SuppressAlert(h), NEW m, m = task[h].mach
  PROVE  ClosingOK(m)'
<1>0. Step(h) /\ UNCHANGED <<count, countUntil, alerted>> /\ task[h].pc = "acquire"
  BY DEF Step, TryAcquireCooldown, SuppressAlert, keys
<1>1. /\ countUntil'[InUse][m] > MaxTime /\ Breaches(m)' = Breaches(m)
      /\ Breaches(m) > 0
  BY <1>0, ClosingSame DEF Settling
<1>2. task'[h] = Idle \/ task'[h].pc = "notifyAlert"
  <2>1. CASE Return(h)
    BY <2>1 DEF Return, TypeOK, TaskOK
  <2>2. CASE Goto(h, "notifyAlert")
    BY <1>0, <2>2, MovedFields DEF Goto, Stage
  <2>3. QED  BY <2>1, <2>2 DEF TryAcquireCooldown, SuppressAlert
<1>3. task'[h] # Idle => Settling(task'[h], Breaches(m)', alerted'[m])
  BY <1>1, <1>2 DEF Settling
<1>4. QED  BY <1>0, <1>1, <1>3, ClosingHere

(* The P0 opens an alert while its breaches are in the store; the RECOVERY       *)
(* closes it.                                                                    *)
LEMMA ClosingNotify ==
  ASSUME TypeOK, TypeOK', OneStore, StreakInv, ClosingInv, NEW h \in Handler,
         NotifyCPUAlert(h) \/ NotifyCPURecovery(h), NEW m, m = task[h].mach
  PROVE  ClosingOK(m)'
<1>0. /\ Step(h) /\ UNCHANGED <<count, countUntil>>
      /\ task[h].pc \in {"notifyAlert", "notifyRecovery"}
      /\ alerted' = [alerted EXCEPT ![m] = (task[h].pc = "notifyAlert")]
  BY DEF Step, NotifyCPUAlert, NotifyCPURecovery, keys
<1>1. /\ m \in Machine /\ countUntil'[InUse][m] > MaxTime /\ Breaches(m)' = Breaches(m)
      /\ task[h].pc = "notifyAlert" => Breaches(m) > 0
  BY <1>0, ClosingSame DEF Settling
<1>2. alerted'[m] <=> task[h].pc = "notifyAlert"
  BY <1>0, <1>1 DEF TypeOK, HistoryOK
<1>3. task'[h].pc = IF task[h].pc = "notifyAlert" THEN "countAlert" ELSE "saveRecovery"
  BY NotifyMoves
<1>4. Settling(task'[h], Breaches(m)', alerted'[m])
  BY <1>0, <1>1, <1>2, <1>3 DEF Settling
<1>5. QED  BY <1>0, <1>1, <1>2, <1>4, ClosingHere

LEMMA ClosingCount ==
  ASSUME TypeOK, TypeOK', OneStore, StreakInv, ClosingInv, NEW h \in Handler,
         CountNotification(h), NEW m, m = task[h].mach
  PROVE  ClosingOK(m)'
<1>0. Step(h) /\ UNCHANGED <<count, countUntil, alerted>> /\ task[h].pc = "countAlert"
  BY DEF Step, CountNotification, keys
<1>1. countUntil'[InUse][m] > MaxTime /\ Breaches(m)' = Breaches(m) /\ Breaches(m) > 0
  BY <1>0, ClosingSame DEF Settling
<1>2. task'[h].pc = "saveAlert"
  BY <1>0, MovedFields DEF CountNotification, Goto, Stage
<1>3. Settling(task'[h], Breaches(m)', alerted'[m])
  BY <1>1, <1>2 DEF Settling
<1>4. QED  BY <1>0, <1>1, <1>3, ClosingHere

LEMMA ClosingGet ==
  ASSUME TypeOK, TypeOK', OneStore, StreakInv, ClosingInv, NEW h \in Handler,
         GetCPUBreachCount(h), NEW m, m = task[h].mach
  PROVE  ClosingOK(m)'
<1>0. Step(h) /\ UNCHANGED <<count, countUntil, alerted>> /\ task[h].pc = "get"
  BY DEF Step, GetCPUBreachCount, keys
<1>1. /\ countUntil'[InUse][m] > MaxTime /\ Breaches(m)' = Breaches(m) /\ ClosingOK(m)
      /\ Breaches(m) \in Nat
  BY <1>0, ClosingSame
<1>2. alerted'[m] => Breaches(m)' > 0
  <2>1. \A g \in Handler : task[g].mach = m => g = h
    BY <1>0, StepSetting DEF MachineOK
  <2>2. QED  BY <1>0, <1>1, <2>1 DEF ClosingOK
<1>3. task' = [task EXCEPT ![h].pc = "reset", ![h].n = Breaches(m)]
  <2>1. CallResult(InUse) = {"ok"} /\ StoreOf(h) = InUse
    BY <1>0, InUseIsStore, StepSetting
  <2>2. QED  BY <2>1 DEF GetCPUBreachCount, Breaches
<1>4. task'[h].pc = "reset" /\ task'[h].n = Breaches(m)
  BY <1>0, <1>1, <1>3, MovedFields DEF Stage
<1>5. Settling(task'[h], Breaches(m)', alerted'[m])
  BY <1>1, <1>4 DEF Settling
<1>6. QED  BY <1>0, <1>1, <1>2, <1>5, ClosingHere

(* The count is cleared only by the goroutine that will send the RECOVERY for it. *)
LEMMA ClosingReset ==
  ASSUME TypeOK, TypeOK', OneStore, StreakInv, ClosingInv, NEW h \in Handler,
         ResetCPUBreach(h), NEW m, m = task[h].mach
  PROVE  ClosingOK(m)'
<1>0. Step(h) /\ alerted' = alerted /\ task[h].pc = "reset"
  BY DEF Step, ResetCPUBreach
<1>1. /\ m \in Machine /\ InUse \in Store /\ task[h].n \in Nat
      /\ ClosingOK(m) /\ Settling(task[h], Breaches(m), alerted[m])
      /\ \A g \in Handler : task[g].mach = m => g = h
  BY <1>0, StepSetting, InUseIsStore DEF ClosingInv, ClosingOK, MachineOK
<1>2. /\ Cleared(InUse, m)
      /\ IF Recovered(task[h].n) THEN Goto(h, "notifyRecovery") ELSE Return(h)
  <2>1. CallResult(InUse) = {"ok"} /\ StoreOf(h) = InUse
    BY <1>0, InUseIsStore, StepSetting
  <2>2. QED  BY <2>1 DEF ResetCPUBreach
<1>3. countUntil'[InUse][m] > MaxTime
  <2>1. countUntil'[InUse][m] = Forever
    BY <1>1, <1>2 DEF Cleared, TypeOK, KeysOK
  <2>2. QED  BY <2>1, ConstantsAssumption DEF Forever
<1>4. CASE Recovered(task[h].n) /\ Goto(h, "notifyRecovery")
  <2>1. task'[h].pc = "notifyRecovery"
    BY <1>0, <1>4, MovedFields DEF Goto, Stage
  <2>2. Settling(task'[h], Breaches(m)', alerted'[m])
    BY <2>1 DEF Settling
  <2>3. QED  BY <1>0, <1>3, <2>1, <2>2, ClosingHere
<1>5. CASE ~Recovered(task[h].n) /\ Return(h)
  <2>1. task'[h] = Idle
    BY <1>5 DEF Return, TypeOK, TaskOK
  <2>2. ~alerted[m]
    BY <1>0, <1>1, <1>5 DEF Recovered, Settling, ClosingOK
  <2>3. QED  BY <1>0, <1>3, <2>1, <2>2, ClosingHere
<1>6. QED  BY <1>2, <1>4, <1>5

LEMMA ClosingSave ==
  ASSUME TypeOK, TypeOK', OneStore, StreakInv, ClosingInv, NEW h \in Handler,
         NEW level \in Level, SaveAlertEvent(h, level), NEW m, m = task[h].mach
  PROVE  ClosingOK(m)'
<1>0. /\ Step(h) /\ UNCHANGED <<count, countUntil, alerted>>
      /\ task[h].pc \in {"saveAlert", "saveRecovery"}
  BY DEF Step, SaveAlertEvent, keys
<1>1. /\ countUntil'[InUse][m] > MaxTime /\ Breaches(m)' = Breaches(m)
      /\ Breaches(m) > 0 \/ ~alerted[m]
  BY <1>0, ClosingSame DEF Settling
<1>2. task'[h] = Idle
  BY DEF SaveAlertEvent, Return, TypeOK, TaskOK
<1>3. QED  BY <1>0, <1>1, <1>2, ClosingHere

LEMMA ClosingStart ==
  ASSUME TypeOK, TypeOK', OneStore, StreakInv, ClosingInv, NEW h \in Handler,
         NEW r \in Replica, NEW mm \in Machine, NEW breach \in BOOLEAN,
         StartEvaluation(h, r, mm, breach), NEW m \in Machine
  PROVE  ClosingOK(m)'
<1>1. /\ UNCHANGED <<count, countUntil, alerted>> /\ task[h] = Idle /\ ClosingOK(m)
      /\ \A g \in Handler : g # h => task'[g] = task[g]
  BY DEF StartEvaluation, keys, ClosingInv, TypeOK, TaskOK
<1>2. task'[h].mach = mm /\ task'[h].pc \in {"increment", "get"}
  <2>1. PICK t : t = [Idle EXCEPT !.pc = IF breach THEN "increment" ELSE "get",
                                  !.rep = r, !.mach = mm]
    OBVIOUS
  <2>2. t.mach = mm /\ t.pc \in {"increment", "get"}
    BY <2>1 DEF Idle
  <2>3. task'[h] = t
    BY <2>1 DEF StartEvaluation, TypeOK, TaskOK
  <2>4. QED  BY <2>2, <2>3
<1>3. CASE mm # m
  <2>1. \A g \in Handler : task'[g] = task[g] \/ (task[g].mach # m /\ task'[g].mach # m)
    BY <1>1, <1>2, <1>3, IdleFields, ConstantsAssumption
  <2>2. QED  BY <1>1, <2>1, ClosingKept
<1>4. CASE mm = m
  <2>1. countUntil'[InUse'][m] > MaxTime /\ countUntil'[InUse][m] > MaxTime
    BY <1>1 DEF ClosingOK, InUse
  <2>2. Breaches(m)' = Breaches(m)
    BY <1>1, <2>1, BreachesAre, BreachesThen DEF ClosingOK
  <2>3. \A g \in Handler : task[g].mach # m
    BY <1>4 DEF StartEvaluation, OneStore
  <2>4. alerted'[m] => Breaches(m)' > 0
    BY <1>1, <2>2, <2>3 DEF ClosingOK
  <2>5. \A g \in Handler : task'[g].mach = m => Settling(task'[g], Breaches(m)', alerted'[m])
    BY <1>1, <1>2, <2>3 DEF Settling
  <2>6. QED  BY <2>1, <2>4, <2>5 DEF ClosingOK
<1>5. QED  BY <1>3, <1>4

LEMMA InvClosing ==
  ASSUME TypeOK, Closing, StreakInv, ClosingInv, [Next]_vars
  PROVE  ClosingInv'
<1> SUFFICES ASSUME NEW m \in Machine PROVE ClosingOK(m)'
  BY DEF ClosingInv
<1>1. TypeOK' /\ OneStore /\ "crash" \notin Faults
  BY StepTypeOK DEF Closing
<1>2. ASSUME NEW h \in Handler, Step(h) PROVE ClosingOK(m)'
  <2>1. CASE m = task[h].mach
    BY <1>1, <1>2, <2>1, ClosingIncrement, ClosingExpire, ClosingAcquire, ClosingNotify,
       ClosingCount, ClosingGet, ClosingReset, ClosingSave
    DEF Step
  <2>2. CASE m # task[h].mach
    BY <1>1, <1>2, <2>2, ClosingElsewhere
  <2>3. QED  BY <2>1, <2>2
<1>3. CASE UNCHANGED <<count, countUntil, alerted, task>>
  BY <1>1, <1>3, ClosingKept DEF ClosingInv
<1>4. CASE UNCHANGED vars
  BY <1>3, <1>4 DEF vars, keys
<1>5. CASE Tick \/ \E r \in Replica : StartServer(r)
  BY <1>3, <1>5 DEF Tick, StartServer, keys
<1>6. QED
  BY <1>1, <1>2, <1>4, <1>5, ClosingStart DEF Next, Quiesce, Crash

LEMMA InitClosing ==
  ASSUME Closing, Init
  PROVE  ClosingInv
<1>1. InUse \in Store
  BY InUseIsStore DEF Closing
<1>2. \A m \in Machine : countUntil[InUse][m] > MaxTime /\ ~alerted[m]
  BY <1>1, ConstantsAssumption DEF Init, Forever
<1>3. \A h \in Handler, m \in Machine : task[h].mach # m
  BY IdleFields, ConstantsAssumption DEF Init
<1>4. QED  BY <1>2, <1>3 DEF ClosingInv, ClosingOK

(* main.go 472-508: once a normal sample has been evaluated no P0 of the machine  *)
(* is left without its RECOVERY, for any number of machines, replicas and         *)
(* goroutines, in a run during which no count runs out.                           *)
THEOREM AlertsAreClosed == Closing => (Spec => []AlertClosedByRecovery)
<1> SUFFICES ASSUME Closing PROVE Spec => []AlertClosedByRecovery
  OBVIOUS
<1>1. Spec => [](TypeOK /\ StreakInv)
  BY StreakInvariance DEF Closing
<1>2. Init => ClosingInv
  BY InitClosing
<1>3. TypeOK /\ StreakInv /\ ClosingInv /\ [Next]_vars => ClosingInv'
  BY InvClosing
<1>4. TypeOK /\ StreakInv /\ ClosingInv => AlertClosedByRecovery
  <2> SUFFICES ASSUME TypeOK, StreakInv, ClosingInv, NEW m \in Machine,
                      Quiet(m), streak[m] = 0
               PROVE  ~alerted[m]
    BY DEF AlertClosedByRecovery
  <2>1. Breaches(m) <= 0 /\ Breaches(m) \in Nat
    BY BreachesNat DEF Closing, StreakInv, MachineOK
  <2>2. QED  BY <2>1 DEF ClosingInv, ClosingOK, Quiet
<1>5. QED  BY <1>1, <1>2, <1>3, <1>4, PTL DEF Spec
=============================================================================
