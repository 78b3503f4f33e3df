-------------------------- MODULE MCMemoryAlertStore --------------------------
(* An instance of MemoryAlertStore for TLC: three goroutines, one key.         *)
EXTENDS MemoryAlertStore, TLC

Symmetry == Permutations(Client)
=============================================================================
