-------------------------- MODULE MCMachineRegistry --------------------------
(* Instances of MachineRegistry for TLC: one machine, for the rows of two do    *)
(* not depend on one another.                                                   *)
EXTENDS MachineRegistry

CONSTANT m1
OneMachine == {m1}
AnyFault == FaultKind
=============================================================================
