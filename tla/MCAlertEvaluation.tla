-------------------------- MODULE MCAlertEvaluation --------------------------
(* Instances of AlertEvaluation for TLC.  Handlers are interchangeable, and so *)
(* are machines and replicas, in the runs that check no liveness.              *)
EXTENDS AlertEvaluation, TLC

Symmetry == Permutations(Handler) \cup Permutations(Machine) \cup Permutations(Replica)
=============================================================================
