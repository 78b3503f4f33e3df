---------------------------- MODULE ServerLifecycle ----------------------------
(***************************************************************************)
(* The server process from its start to its death: loadConfig (config.go),  *)
(* openMySQLWithRetry (db.go), the rest of main (main.go), and the          *)
(* /healthz/deps handler (health.go).  MySQL, Redis and VictoriaMetrics     *)
(* come and go at any time; Kubernetes starts an exited server again.       *)
(***************************************************************************)
EXTENDS Integers, Sequences, FiniteSets, FiniteSetsExt

CONSTANTS
  Settings,    \* what MYSQL_CONNECT_RETRIES may be: integers, or
  Unset,       \* no integer
  DefaultRetries,  \* the default of getEnvAsInt for it
  StoreTypes,  \* what ALERT_STORE may be
  Budget,      \* the 2 seconds of one /healthz/deps request, in ticks
  Slow,        \* the ticks a slow dependency takes to answer
  Scenarios    \* what the environment may do: bounds

\* The order of the checks.
Checks == <<"mysql", "redis", "vm">>
Dependency == {Checks[i] : i \in DOMAIN Checks}

\* The dependencies that are ever other than "up", how often one of them changes
\* or the server dies, and how many requests there are of each kind.
Scenario == [varying : SUBSET Dependency, changes : Nat,
             checks : Nat, P0 : Nat, RECOVERY : Nat, triages : Nat]

ASSUME LifecycleAssumption ==
  /\ Settings \subseteq Int \cup {Unset} /\ Settings # {}
  /\ DefaultRetries \in Nat \ {0}
  /\ StoreTypes \subseteq {"redis", "memory"} /\ StoreTypes # {}
  /\ Budget \in Nat \ {0} /\ Slow \in 1..Budget
  /\ Scenarios \subseteq Scenario

\* One that is down refuses at once, one that hangs never answers.
Condition == {"up", "slow", "down", "hung"}
Answering == {"up", "slow"}

VARIABLES
  dep,      \* dep[d]: the condition of dependency d
  cfg,      \* the AppConfig of the server
  server,   \* where main is, the attempt to connect, the alert store it chose
  tables,   \* the tables exist
  health,   \* the request of /healthz/deps
  bound     \* what the environment may still do
serverVars == <<dep, cfg, server, tables, health, bound>>

Report == {"unknown", "up", "down"}
\* at is the check the handler has come to, left what is left of its budget,
\* seen the condition in which each check met its dependency.
NoCheck == [at |-> 0, left |-> Budget, status |-> 0,
            deps |-> [d \in Dependency |-> "unknown"],
            seen |-> [d \in Dependency |-> "up"]]

ServerTypeOK ==
  /\ dep \in [Dependency -> Condition]
  /\ cfg \in [retries : Nat, store : StoreTypes]
  /\ server \in [pc : {"open", "migrate", "initStore", "serving", "exited"},
                 attempt : 1..cfg.retries, store : {"none", "redis", "memory"}]
  /\ server.pc = "serving" => server.store # "none"
  /\ tables \in BOOLEAN
  /\ health \in [at : 0..Len(Checks) + 1, left : 0..Budget, status : {0, 200, 503},
                 deps : [Dependency -> Report], seen : [Dependency -> Condition]]
  /\ health.at > 0 => server.pc = "serving"
  /\ bound \in Scenario

\* getEnvAsInt, and the least value openMySQLWithRetry takes.
UncheckedRetries(value) == IF value = Unset THEN DefaultRetries ELSE value  \* mutant
ConnectRetries(value) == IF value = Unset THEN DefaultRetries ELSE Max({value, 1})

Starting == [pc |-> "open", attempt |-> 1, store |-> "none"]

ServerInit ==
  /\ bound \in Scenarios
  /\ dep \in [Dependency -> Condition]
  /\ \A d \in Dependency \ bound.varying : dep[d] = "up"
  /\ \E value \in Settings, store \in StoreTypes :
       cfg = [retries |-> ConnectRetries(value), store |-> store]
  /\ server = Starting
  /\ tables \in BOOLEAN
  /\ health = NoCheck

Serving == server.pc = "serving"

\* The environment does one thing of this kind, if it still may.
Spend(kind) == bound[kind] > 0 /\ bound' = [bound EXCEPT ![kind] = @ - 1]

-----------------------------------------------------------------------------
(* main.                                                                      *)

\* An attempt of openMySQLWithRetry; after the last one log.Fatal.
OpenMySQL ==
  /\ server.pc = "open"
  /\ IF dep["mysql"] \in Answering /\ server.attempt <= cfg.retries
     THEN server' = [server EXCEPT !.pc = "migrate"]
     ELSE IF server.attempt < cfg.retries
     THEN server' = [server EXCEPT !.attempt = @ + 1]
     ELSE server' = [server EXCEPT !.pc = "exited"]
  /\ UNCHANGED <<dep, cfg, tables, health, bound>>

\* The error of AutoMigrate is dropped.
AutoMigrate ==
  /\ server.pc = "migrate"
  /\ tables' = (tables \/ dep["mysql"] \in Answering)
  /\ server' = [server EXCEPT !.pc = "initStore"]
  /\ UNCHANGED <<dep, cfg, health, bound>>

\* initAlertStore: the store is chosen once, for the life of the process.
InitAlertStore ==
  /\ server.pc = "initStore"
  /\ server' = [server EXCEPT !.pc = "serving",
       !.store = IF cfg.store = "redis" /\ dep["redis"] \in Answering
                 THEN "redis" ELSE "memory"]
  /\ UNCHANGED <<dep, cfg, tables, health, bound>>

\* Kubernetes starts the container again.
Restart ==
  /\ server.pc = "exited"
  /\ server' = Starting
  /\ UNCHANGED <<dep, cfg, tables, health, bound>>

-----------------------------------------------------------------------------
(* /healthz/deps.                                                             *)

HealthRequest ==
  /\ Serving /\ health.at = 0
  /\ Spend("checks")
  /\ health' = [NoCheck EXCEPT !.at = 1]
  /\ UNCHANGED <<dep, cfg, server, tables>>

\* What a check costs of the budget that all three share, and whether it ends
\* well: not when the budget is used up before it or by it.
Cost(d) ==
  IF dep[d] = "hung" THEN health.left
  ELSE IF dep[d] = "slow" THEN Min({Slow, health.left}) ELSE 0
NoErrorCheck(d) == health.left > 0                             \* mutant
Healthy(d) ==
  /\ dep[d] \in Answering
  /\ health.left > 0 /\ (dep[d] = "slow" => Slow <= health.left)

\* With ALERT_STORE=memory Redis is not asked.
CheckSkipped(d) == d = "redis" /\ cfg.store = "memory"

CheckDependency ==
  LET d == Checks[health.at] IN
  /\ health.at \in DOMAIN Checks
  /\ health' = [health EXCEPT
       !.at = @ + 1,
       !.left = IF CheckSkipped(d) THEN @ ELSE @ - Cost(d),
       !.seen[d] = IF CheckSkipped(d) THEN @ ELSE dep[d],
       !.deps[d] = IF CheckSkipped(d) \/ Healthy(d) THEN "up" ELSE "down"]
  /\ UNCHANGED <<dep, cfg, server, tables, bound>>

HealthAnswer ==
  /\ health.at = Len(Checks) + 1
  /\ health' = [health EXCEPT !.at = 0, !.status =
       IF \A d \in Dependency : health.deps[d] = "up" THEN 200 ELSE 503]
  /\ UNCHANGED <<dep, cfg, server, tables, bound>>

-----------------------------------------------------------------------------
(* The environment.                                                           *)

DependencyChanges(d, condition) ==
  /\ d \in bound.varying /\ dep[d] # condition
  /\ Spend("changes")
  /\ dep' = [dep EXCEPT ![d] = condition]
  /\ UNCHANGED <<cfg, server, tables, health>>

\* The process is killed, with the requests it handles; while MySQL hangs the
\* startup probe may do it.
ServerDies ==
  /\ server.pc # "exited"
  /\ Spend("changes")
  /\ server' = [server EXCEPT !.pc = "exited"]
  /\ health' = NoCheck
  /\ UNCHANGED <<dep, cfg, tables>>

Start == OpenMySQL \/ AutoMigrate \/ InitAlertStore \/ Restart
Health == CheckDependency \/ HealthAnswer
ServerNext ==
  \/ Start \/ Health \/ HealthRequest
  \/ \E d \in Dependency, condition \in Condition : DependencyChanges(d, condition)
  \/ ServerDies

-----------------------------------------------------------------------------
(* Properties.                                                                *)

\* The three checks of a request run one after the other on one budget of 2 s, and
\* a dependency may change in between.  "up" still means that each answered its
\* check.  A slow MySQL can make VictoriaMetrics look down, but the one a degraded
\* answer names first is no such victim: it failed, or it and those before it
\* were slow enough together to use up the budget.
FirstDown(i) ==
  health.deps[Checks[i]] = "down" /\ \A j \in 1 .. i - 1 : health.deps[Checks[j]] = "up"
SlowUpTo(i) == Cardinality({j \in 1..i : health.seen[Checks[j]] = "slow"})
HealthTruthful ==
  /\ health.status = 200 => \A d \in Dependency : health.seen[d] \in Answering
  /\ health.status = 503 =>
       \E i \in DOMAIN Checks :
         FirstDown(i) /\ (health.seen[Checks[i]] \in Answering => Slow * SlowUpTo(i) >= Budget)

\* The retries are bounded and the process gives up (db.go:22-36), yet a server
\* whose MySQL stays up comes to serve, whatever MYSQL_CONNECT_RETRIES says.
EventuallyServes == <>[](dep["mysql"] \in Answering) => <>[]Serving
=============================================================================
