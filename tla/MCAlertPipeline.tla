---------------------------- MODULE MCAlertPipeline ----------------------------
(* Instances of AlertPipeline for TLC.                                         *)
EXTENDS AlertPipeline, TLC

CONSTANTS m1, p1, w1, h1, h2

Symmetry == Permutations(Handler)

\* States are told apart but for what no guard and no property of the composition
\* reads: the counters, of which the worker's errors and the attempts are kept, the
\* audit rows, and the history of AlertEvaluation's own properties.
Attempts == [m \in Machine |-> <<Alert!Attempted(m, "P0"), Alert!Attempted(m, "RECOVERY")>>]
View ==
  <<agent, worker, handler, log, committed, position, owner, members, evaluated,
    crashes, ingestMode, accepted, finished, Pipeline!ErrorsCounted, now, store,
    count, countUntil, coolUntil, task, samples, serverCrashes, Attempts, won,
    attempts, breach, breaches>>
=============================================================================
