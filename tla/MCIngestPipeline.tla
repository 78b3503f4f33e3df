-------------------------- MODULE MCIngestPipeline --------------------------
(* Instances of IngestPipeline for TLC.                                        *)
EXTENDS IngestPipeline, TLC

Symmetry == Permutations(Handler) \cup Permutations(Worker) \cup Permutations(Partition)
                \cup Permutations(Machine)
=============================================================================
