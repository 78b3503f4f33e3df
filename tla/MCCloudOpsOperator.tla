-------------------------- MODULE MCCloudOpsOperator --------------------------
(* Instances of CloudOpsOperator for TLC: a spec that leaves every image blank  *)
(* and asks for fewer replicas than parseSpec allows, one that gives all images *)
(* and scales up, and one that does not parse.                                  *)
EXTENDS CloudOpsOperator

CONSTANTS i1, i2, op1, op2

All(always, given) == [o \in Object |->
  [always |-> IF o \in {"cloudops-server", "cloudops-worker"} THEN always ELSE 0,
   given |-> given]]
SmallSpecs == {[valid |-> TRUE, field |-> All(-1, Blank)],
               [valid |-> TRUE, field |-> All(2, i2)],
               [valid |-> FALSE, field |-> All(0, Blank)]}
=============================================================================
