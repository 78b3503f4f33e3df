-------------------------- MODULE MCAssistantTriage --------------------------
(* Instances of AssistantTriage and ServerLifecycle for TLC.  One request is   *)
(* enough for what is checked of it: of the health of any dependencies, of an  *)
(* alert while MySQL and the server come and go, of a P0 and its RECOVERY, or  *)
(* of alerts enough to push one out of the window the assistant asks for.      *)
EXTENDS AssistantTriage

CONSTANTS m1, m2

HealthScenario ==
  [varying |-> Dependency, changes |-> 1, checks |-> 1, P0 |-> 0, RECOVERY |-> 0, triages |-> 0]
TriageScenario(varying, changes, alertCount, recoveryCount) ==
  [varying |-> varying, changes |-> changes, checks |-> 0, P0 |-> alertCount,
   RECOVERY |-> recoveryCount, triages |-> 1]

SmallScenarios ==
  {HealthScenario, TriageScenario({"mysql"}, 1, 1, 0),
   TriageScenario({}, 0, 1, 1), TriageScenario({}, 0, 3, 0)}
=============================================================================
