----------------------- MODULE CloudOpsOperatorProofs -----------------------
(* Proofs about CloudOpsOperator, for every number of operators, every set of  *)
(* specs and images, and any number of edits and faults.                       *)
(*                                                                             *)
(* ReadyMeansApplied is not inductive: that the status may say Ready rests on  *)
(* what the operator that says it has done (Progress), that on its updates     *)
(* being of what it read (Fresh), and both on an operator with an older spec   *)
(* being overtaken by one with the current generation.                         *)
EXTENDS CloudOpsOperator, TLAPS

(* A spec after parseSpec. *)
NormalSpec == [valid : BOOLEAN, field : [Object -> [always : 0..2, given : Image \cup {Blank}]]]

OpRecord == [pc : {"wait", "get", "update", "patch"}, at : 1..4, gen : Nat,
             spec : NormalSpec \cup {Blank}, old : Stored \cup {Absent}, read : Nat,
             phase : {Blank, "Error", "Ready"}]

(* An operator that is about to update an object holds what was stored under   *)
(* the version it read; if that is still current, it is what is stored now.    *)
Fresh(p) ==
  LET o == Objects[op[p].at] IN
  op[p].pc = "update" =>
    /\ op[p].old # Absent
    /\ op[p].read <= version[o]
    /\ op[p].read = version[o] => op[p].old = object[o]

(* What TypeOK asks of the operators. *)
OpOK(p) ==
  /\ op[p].pc # "wait" => op[p].gen \in 1..resource.gen
  /\ op[p].pc \in {"get", "update"} => op[p].spec.valid /\ op[p].spec \in NormalSpec

(* The part of the invariant that is not about the operators. *)
ClusterOK ==
  /\ resource \in [gen : 1..MaxEdits + 1, spec : Specs]
  /\ status \in [phase : {Blank, "Error", "Ready"}, observed : 0..resource.gen]
  /\ object \in [Object -> Stored \cup {Absent}]
  /\ version \in [Object -> Nat]
  /\ edits \in 0..MaxEdits
  /\ resource.gen <= edits + 1
  /\ faults \in 0..MaxFaults
  /\ drifted \in [Object -> BOOLEAN]
  /\ intended \in [Object -> Image]

TypeInv ==
  /\ ClusterOK
  /\ op \in [Operator -> OpRecord]
  /\ \A p \in Operator : OpOK(p)
FreshInv == \A p \in Operator : Fresh(p)

(* What Ready must mean of one object, and what an operator that works on the  *)
(* current generation has achieved so far.                                     *)
Fine(o) == drifted[o] \/ (object[o] # Absent /\ Matches(o))
Progress(p) ==
  op[p].gen = resource.gen =>
    /\ op[p].pc \in {"get", "update"} =>
         /\ op[p].spec = Normalised(resource.spec)
         /\ \A i \in 1 .. op[p].at - 1 : Fine(Objects[i])
    /\ op[p].pc = "patch" /\ op[p].phase = "Ready" => \A o \in Object : Fine(o)
ProgressInv == \A p \in Operator : Progress(p)

IInv == TypeInv /\ FreshInv /\ NoLostUpdate /\ ProgressInv /\ ReadyMeansApplied

-----------------------------------------------------------------------------
(* The objects, and the operators of the model.                               *)

LEMMA ObjectsList ==
  /\ DOMAIN Objects = 1..4 /\ Len(Objects) = 4
  /\ \A i \in 1..4 : Objects[i] \in Object
  /\ \A o \in Object : \E i \in 1..4 : o = Objects[i]
BY DEF Objects, Object

LEMMA NormalisedType ==
  ASSUME NEW spec \in Spec0
  PROVE  /\ Normalised(spec) \in NormalSpec
         /\ Normalised(spec).valid = spec.valid
<1>1. \A o \in Object : LeastReplicas[o] \in 0..1
  BY DEF LeastReplicas
<1>2. \A o \in Object : spec.field[o] \in Field
  BY DEF Spec0
<1> DEFINE f == [o \in Object |->
      IF spec.field[o].always < LeastReplicas[o]
      THEN [spec.field[o] EXCEPT !.always = LeastReplicas[o]] ELSE spec.field[o]]
<1>3. f \in [Object -> [always : 0..2, given : Image \cup {Blank}]]
  <2>1. ASSUME NEW o \in Object
        PROVE  f[o] \in [always : 0..2, given : Image \cup {Blank}]
    <3>1. LeastReplicas[o] \in 0..1 /\ spec.field[o] \in Field
      BY <1>1, <1>2
    <3>2. CASE spec.field[o].always < LeastReplicas[o]
      BY <3>1, <3>2 DEF Field
    <3>3. CASE ~(spec.field[o].always < LeastReplicas[o])
      <4>1. spec.field[o].always \in 0..2
        <5>1. LeastReplicas[o] = 0 \/ LeastReplicas[o] = 1
          BY <3>1
        <5>2. spec.field[o].always \in -1..2
          BY <3>1 DEF Field
        <5>3. QED  BY <5>1, <5>2, <3>3
      <4>2. QED  BY <3>1, <3>3, <4>1 DEF Field
    <3>4. QED  BY <3>2, <3>3
  <2>2. QED  BY <2>1
<1>4. Normalised(spec) = [spec EXCEPT !.field = f]
  BY DEF Normalised
<1>5. spec = [valid |-> spec.valid, field |-> spec.field] /\ (spec.valid \in BOOLEAN)
  BY DEF Spec0
<1> HIDE DEF f
<1>6. Normalised(spec) = [valid |-> spec.valid, field |-> f]
  BY <1>4, <1>5, Zenon
<1>7. QED  BY <1>3, <1>5, <1>6 DEF NormalSpec

LEMMA MergedType ==
  ASSUME NEW field \in [always : 0..2, given : Image \cup {Blank}], NEW old \in Stored
  PROVE  Merged(field, old) \in Stored /\ Merged(field, old) # Absent
BY OperatorAssumption DEF Merged, Stored

LEMMA IdleType ==
  Idle \in OpRecord /\ Idle.pc = "wait" /\ Idle.gen = 0
BY DEF Idle, OpRecord

LEMMA ToPatchType ==
  ASSUME NEW p \in Operator, op \in [Operator -> OpRecord], NEW phase \in {"Error", "Ready"}
  PROVE  /\ ToPatch(p, phase) \in OpRecord
         /\ ToPatch(p, phase).pc = "patch"
         /\ ToPatch(p, phase).gen = op[p].gen
         /\ ToPatch(p, phase).phase = phase
<1>1. op[p].gen \in Nat
  BY DEF OpRecord
<1>2. QED  BY <1>1, IdleType DEF ToPatch, OpRecord

-----------------------------------------------------------------------------
(* Type correctness.                                                          *)

LEMMA TypeParts ==
  ASSUME TypeInv
  PROVE  /\ ClusterOK
         /\ op \in [Operator -> OpRecord]
         /\ \A p \in Operator : OpOK(p) /\ op[p] \in OpRecord
         /\ \A p \in Operator : Objects[op[p].at] \in Object
         /\ resource.gen \in Nat \ {0} /\ resource.spec \in Spec0
<1>1. ClusterOK /\ op \in [Operator -> OpRecord]
  BY DEF TypeInv
<1>2. \A p \in Operator : op[p] \in OpRecord /\ OpOK(p)
  BY <1>1 DEF TypeInv
<1>3. \A p \in Operator : Objects[op[p].at] \in Object
  BY <1>2, ObjectsList DEF OpRecord
<1>4. resource.gen \in Nat \ {0} /\ resource.spec \in Spec0
  BY <1>1, OperatorAssumption DEF ClusterOK
<1>5. QED  BY <1>1, <1>2, <1>3, <1>4

LEMMA InitType ==
  ASSUME Init
  PROVE  TypeInv
<1>1. ClusterOK
  BY OperatorAssumption DEF Init, ClusterOK, Stored
<1>2. op = [p \in Operator |-> Idle]
  BY DEF Init
<1>3. op \in [Operator -> OpRecord] /\ \A p \in Operator : OpOK(p)
  BY <1>2, IdleType DEF OpOK
<1>4. QED  BY <1>1, <1>3 DEF TypeInv

(* One operator moves to a record of the right type, and the resource does not *)
(* change. *)
LEMMA BecomeType ==
  ASSUME TypeInv, NEW p \in Operator, NEW new \in OpRecord, Become(p, new), ClusterOK',
         UNCHANGED resource,
         new.pc # "wait" => new.gen \in 1..resource.gen,
         new.pc \in {"get", "update"} => new.spec.valid /\ new.spec \in NormalSpec
  PROVE  TypeInv'
<1>1. op' = [op EXCEPT ![p] = new] /\ op \in [Operator -> OpRecord]
  BY TypeParts DEF Become
<1>2. op' \in [Operator -> OpRecord]
  BY <1>1
<1>3. ASSUME NEW q \in Operator
      PROVE  OpOK(q)'
  <2>1. CASE q = p
    BY <1>1, <2>1, Zenon DEF OpOK
  <2>2. CASE q # p
    <3>1. op'[q] = op[q]  BY <1>1, <2>2
    <3>2. OpOK(q)  BY TypeParts
    <3>3. QED  BY <3>1, <3>2, Zenon DEF OpOK
  <2>3. QED  BY <2>1, <2>2
<1>4. QED  BY <1>2, <1>3 DEF TypeInv

LEMMA TypeOKHolds ==
  ASSUME TypeInv
  PROVE  TypeOK
<1>1. ASSUME NEW p \in Operator
      PROVE  op[p].pc \in {"wait", "get", "update", "patch"} /\ op[p].at \in DOMAIN Objects
  BY ObjectsList DEF OpRecord, TypeInv
<1>2. DOMAIN op = Operator
  BY DEF TypeInv
<1>3. QED  BY <1>1, <1>2, Zenon DEF TypeInv, TypeOK, ClusterOK, OpOK


LEMMA FaultType ==
  ASSUME TypeInv, Fault \/ NoFault
  PROVE  faults' \in 0..MaxFaults
BY OperatorAssumption DEF TypeInv, ClusterOK, Fault, NoFault

LEMMA GetResourceMoves ==
  ASSUME TypeInv, NEW p \in Operator, GetResource(p), op' # op
  PROVE  \E new \in OpRecord :
           /\ Become(p, new)
           /\ new.gen = resource.gen
           /\ new.pc \in {"get", "patch"} /\ new.at = 1 /\ new.phase # "Ready"
           /\ new.pc = "get" => /\ new.spec = Normalised(resource.spec)
                                /\ new.spec.valid /\ new.spec \in NormalSpec
<1> DEFINE new == [Idle EXCEPT !.pc = IF resource.spec.valid THEN "get" ELSE "patch",
                               !.gen = resource.gen,
                               !.spec = Normalised(resource.spec),
                               !.phase = IF resource.spec.valid THEN Blank ELSE "Error"]
<1>1. Become(p, new)
  BY DEF GetResource
<1>2. resource.gen \in Nat /\ Normalised(resource.spec) \in NormalSpec
      /\ Normalised(resource.spec).valid = resource.spec.valid
  BY TypeParts, NormalisedType
<1>3. CASE resource.spec.valid
  <2>1. new = [Idle EXCEPT !.pc = "get", !.gen = resource.gen,
                           !.spec = Normalised(resource.spec), !.phase = Blank]
    BY <1>3
  <2>2. /\ new \in OpRecord /\ new.gen = resource.gen /\ new.pc = "get" /\ new.at = 1
        /\ new.phase = Blank /\ new.spec = Normalised(resource.spec)
    <3> HIDE DEF new
    <3> QED  BY <1>2, <2>1, IdleType DEF Idle, OpRecord
  <2>3. new.spec.valid
    <3> HIDE DEF new
    <3> QED  BY <1>2, <1>3, <2>2
  <2> HIDE DEF new
  <2>4. QED  BY <1>1, <1>2, <2>2, <2>3, OperatorAssumption
<1>4. CASE ~resource.spec.valid
  <2>1. new = [Idle EXCEPT !.pc = "patch", !.gen = resource.gen,
                           !.spec = Normalised(resource.spec), !.phase = "Error"]
    BY <1>4
  <2> HIDE DEF new
  <2>2. /\ new \in OpRecord /\ new.gen = resource.gen /\ new.pc = "patch" /\ new.at = 1
        /\ new.phase = "Error"
    BY <1>2, <2>1, IdleType DEF Idle, OpRecord
  <2>3. QED  BY <1>1, <2>2
<1>5. QED  BY <1>3, <1>4

LEMMA GetObjectMoves ==
  ASSUME TypeInv, NEW p \in Operator, GetObject(p)
  PROVE  /\ op[p].pc = "get"
         /\ \/ Become(p, ToPatch(p, "Error"))
            \/ LET o == Objects[op[p].at] IN
               \E new \in OpRecord :
                 /\ Become(p, new)
                 /\ new.pc = "update" /\ new.at = op[p].at /\ new.gen = op[p].gen
                 /\ new.spec = op[p].spec
                 /\ object[o] # Absent /\ new.old = object[o] /\ new.read = version[o]
<1> DEFINE o == Objects[op[p].at]
           new == [op[p] EXCEPT !.pc = "update", !.old = object[o], !.read = version[o]]
<1>1. op[p] \in OpRecord /\ o \in Object
  BY TypeParts
<1>2. object[o] \in Stored \cup {Absent} /\ version[o] \in Nat
  BY <1>1, TypeParts DEF ClusterOK
<1>3. /\ new \in OpRecord /\ new.pc = "update" /\ new.at = op[p].at /\ new.gen = op[p].gen
      /\ new.spec = op[p].spec /\ new.old = object[o] /\ new.read = version[o]
  <2> HIDE DEF o
  <2> QED  BY <1>1, <1>2 DEF OpRecord
<1>4. op[p].pc = "get"
  BY DEF GetObject
<1>5. Become(p, ToPatch(p, "Error")) \/ (object[o] # Absent /\ Become(p, new))
  BY DEF GetObject, PatchNext
<1> HIDE DEF o, new
<1>6. QED  BY <1>3, <1>4, <1>5 DEF o

(* The operator after an object was updated. *)
Updated(p) ==
  IF op[p].at < Len(Objects)
  THEN [op[p] EXCEPT !.pc = "get", !.at = @ + 1, !.old = Absent, !.read = 0]
  ELSE ToPatch(p, "Ready")

LEMMA UpdatedType ==
  ASSUME TypeInv, NEW p \in Operator
  PROVE  /\ Updated(p) \in OpRecord
         /\ Updated(p).gen = op[p].gen
         /\ \/ /\ Updated(p).pc = "get" /\ Updated(p).spec = op[p].spec
               /\ op[p].at < 4 /\ Updated(p).at = op[p].at + 1
            \/ Updated(p).pc = "patch" /\ op[p].at = 4
<1>1. op[p] \in OpRecord /\ op \in [Operator -> OpRecord]
  BY TypeParts
<1>2. op[p].at \in 1..4
  BY <1>1 DEF OpRecord
<1>3. CASE op[p].at < 4
  <2>1. Updated(p) = [op[p] EXCEPT !.pc = "get", !.at = op[p].at + 1, !.old = Absent, !.read = 0]
    BY <1>1, <1>3, ObjectsList DEF Updated, OpRecord
  <2>2. op[p].at + 1 \in 1..4
    BY <1>2, <1>3
  <2>3. Updated(p) \in OpRecord
    <3>1. ASSUME NEW r \in OpRecord, NEW n \in 1..4
          PROVE  [r EXCEPT !.pc = "get", !.at = n, !.old = Absent, !.read = 0] \in OpRecord
      BY DEF OpRecord
    <3>2. QED  BY <1>1, <2>1, <2>2, <3>1
  <2>4. /\ Updated(p).gen = op[p].gen /\ Updated(p).pc = "get"
        /\ Updated(p).spec = op[p].spec /\ Updated(p).at = op[p].at + 1
    BY <1>1, <2>1 DEF OpRecord
  <2>5. QED  BY <1>3, <2>3, <2>4
<1>4. CASE op[p].at = 4
  <2>1. Updated(p) = ToPatch(p, "Ready")
    BY <1>4, ObjectsList DEF Updated
  <2>2. QED  BY <1>1, <1>4, <2>1, ToPatchType
<1>5. QED  BY <1>2, <1>3, <1>4

LEMMA UpdateObjectMoves ==
  ASSUME TypeInv, NEW p \in Operator, UpdateObject(p)
  PROVE  LET o == Objects[op[p].at] IN
         /\ op[p].pc = "update"
         /\ Fault \/ NoFault
         /\ UNCHANGED <<resource, status, edits>>
         /\ \/ CurrentVersion(p, o) /\ Written(p, o) /\ Become(p, Updated(p))
            \/ NotWritten /\ Become(p, ToPatch(p, "Error"))
            \/ CurrentVersion(p, o) /\ Written(p, o) /\ Become(p, ToPatch(p, "Error"))
BY DEF UpdateObject, Updated, PatchNext

(* The object as an update leaves it. *)
New(p) == Merged(op[p].spec.field[Objects[op[p].at]], op[p].old)

LEMMA WrittenType ==
  ASSUME TypeInv, FreshInv, NEW p \in Operator, op[p].pc = "update",
         CurrentVersion(p, Objects[op[p].at]), Written(p, Objects[op[p].at])
  PROVE  LET o == Objects[op[p].at] IN
         /\ New(p) \in Stored /\ New(p) # Absent
         /\ op[p].old \in Stored /\ op[p].old = object[o]
         /\ object' = [object EXCEPT ![o] = New(p)]
         /\ object' \in [Object -> Stored \cup {Absent}]
         /\ version' \in [Object -> Nat]
         /\ \A q \in Object : version[q] <= version'[q]
         /\ \A q \in Object : version[q] = version'[q] => object[q] = object'[q]
<1> DEFINE o == Objects[op[p].at]
<1>1. o \in Object /\ op[p] \in OpRecord /\ OpOK(p)
  BY TypeParts
<1>2. op[p].old # Absent /\ op[p].old = object[o]
  BY <1>1 DEF FreshInv, Fresh, CurrentVersion
<1>3. op[p].old \in Stored
  BY <1>1, <1>2 DEF OpRecord
<1>4. op[p].spec \in NormalSpec
  BY <1>1 DEF OpOK
<1>5. op[p].spec.field[o] \in [always : 0..2, given : Image \cup {Blank}]
  BY <1>1, <1>4 DEF NormalSpec
<1>6. New(p) \in Stored /\ New(p) # Absent
  BY <1>3, <1>5, MergedType DEF New
<1>7. /\ object' = [object EXCEPT ![o] = New(p)]
      /\ version' = IF New(p) = object[o] THEN version ELSE [version EXCEPT ![o] = @ + 1]
  BY DEF Written, New
<1>8. object \in [Object -> Stored \cup {Absent}] /\ version \in [Object -> Nat]
  BY DEF TypeInv, ClusterOK
<1> HIDE DEF o
<1>9. /\ object' \in [Object -> Stored \cup {Absent}]
      /\ version' \in [Object -> Nat]
  BY <1>1, <1>6, <1>7, <1>8
<1>10. \A q \in Object : version[q] <= version'[q]
  BY <1>1, <1>7, <1>8
<1>11. \A q \in Object : version[q] = version'[q] => object[q] = object'[q]
  BY <1>1, <1>7, <1>8
<1>12. QED  BY <1>2, <1>3, <1>6, <1>7, <1>9, <1>10, <1>11 DEF o

(* A step of an operator that touches no object and no status. *)
LEMMA QuietCluster ==
  ASSUME TypeInv, Fault \/ NoFault, UNCHANGED <<resource, status, object, version, edits, history>>
  PROVE  ClusterOK'
BY FaultType DEF TypeInv, ClusterOK, history

LEMMA WrittenCluster ==
  ASSUME TypeInv, FreshInv, NEW p \in Operator, op[p].pc = "update", Fault \/ NoFault,
         CurrentVersion(p, Objects[op[p].at]), Written(p, Objects[op[p].at]),
         UNCHANGED <<resource, status, edits>>
  PROVE  ClusterOK'
<1> DEFINE o == Objects[op[p].at]
<1>1. o \in Object /\ OpOK(p)
  BY TypeParts
<1>2. op[p].spec.field[o].given \in Image \cup {Blank}
  BY <1>1 DEF OpOK, NormalSpec
<1>3. /\ drifted' = [drifted EXCEPT ![o] = Overtaken(p)]
      /\ intended' = [intended EXCEPT ![o] = IF op[p].spec.field[o].given = Blank THEN @
                                            ELSE op[p].spec.field[o].given]
  BY DEF Written
<1>4. drifted \in [Object -> BOOLEAN] /\ intended \in [Object -> Image]
  BY DEF TypeInv, ClusterOK
<1>5. Overtaken(p) \in BOOLEAN
  BY DEF Overtaken
<1> HIDE DEF o
<1>6. drifted' \in [Object -> BOOLEAN]
  BY <1>3, <1>4, <1>5, Zenon
<1>7. intended' \in [Object -> Image]
  BY <1>1, <1>2, <1>3, <1>4
<1>8. /\ object' \in [Object -> Stored \cup {Absent}]
      /\ version' \in [Object -> Nat]
  BY WrittenType
<1>9. QED  BY <1>6, <1>7, <1>8, FaultType DEF TypeInv, ClusterOK

LEMMA TypeStep ==
  ASSUME TypeInv, FreshInv, [Next]_vars
  PROVE  TypeInv'
<1>1. ASSUME NEW p \in Operator, GetResource(p)
      PROVE  TypeInv'
  <2>1. ClusterOK' /\ UNCHANGED resource
    BY <1>1, QuietCluster DEF GetResource
  <2>2. CASE op' = op
    BY <2>1, <2>2 DEF TypeInv, OpOK
  <2>3. CASE op' # op
    <3>1. PICK new \in OpRecord :
            /\ Become(p, new) /\ new.gen = resource.gen /\ new.pc \in {"get", "patch"}
            /\ new.pc = "get" => new.spec.valid /\ new.spec \in NormalSpec
      BY <1>1, <2>3, GetResourceMoves
    <3>2. new.gen \in 1..resource.gen
      BY <3>1, TypeParts
    <3>3. new.pc \in {"get", "update"} => new.spec.valid /\ new.spec \in NormalSpec
      BY <3>1
    <3>4. QED  BY <2>1, <3>1, <3>2, <3>3, BecomeType
  <2>4. QED  BY <2>2, <2>3
<1>2. ASSUME NEW p \in Operator, NEW phase \in {"Error", "Ready"}, ClusterOK',
             op[p].pc # "wait", Become(p, ToPatch(p, phase)), UNCHANGED resource
      PROVE  TypeInv'
  <2>1. ToPatch(p, phase) \in OpRecord /\ ToPatch(p, phase).pc = "patch"
        /\ ToPatch(p, phase).gen = op[p].gen
    BY ToPatchType, TypeParts
  <2>2. op[p].gen \in 1..resource.gen
    BY <1>2, TypeParts DEF OpOK
  <2>3. QED  BY <1>2, <2>1, <2>2, BecomeType
<1>3. ASSUME NEW p \in Operator, GetObject(p)
      PROVE  TypeInv'
  <2>1. ClusterOK' /\ UNCHANGED resource
    BY <1>3, QuietCluster DEF GetObject
  <2>2. op[p].pc = "get" /\ OpOK(p)
    BY <1>3, GetObjectMoves, TypeParts
  <2>3. CASE Become(p, ToPatch(p, "Error"))
    BY <1>2, <2>1, <2>2, <2>3
  <2>4. ASSUME NEW new \in OpRecord, Become(p, new), new.pc = "update",
               new.gen = op[p].gen, new.spec = op[p].spec
        PROVE  TypeInv'
    <3>1. new.gen \in 1..resource.gen /\ new.spec.valid /\ new.spec \in NormalSpec
      BY <2>2, <2>4 DEF OpOK
    <3>2. QED  BY <2>1, <2>4, <3>1, BecomeType
  <2>5. QED  BY <1>3, <2>3, <2>4, GetObjectMoves
<1>4. ASSUME NEW p \in Operator, UpdateObject(p)
      PROVE  TypeInv'
  <2> DEFINE o == Objects[op[p].at]
  <2>1. op[p].pc = "update" /\ (Fault \/ NoFault) /\ UNCHANGED <<resource, status, edits>>
    BY <1>4, UpdateObjectMoves
  <2>2. NotWritten \/ (CurrentVersion(p, o) /\ Written(p, o))
    BY <1>4, UpdateObjectMoves
  <2>3. ClusterOK'
    <3>1. NotWritten => ClusterOK'
      BY <2>1, QuietCluster DEF NotWritten
    <3>2. CurrentVersion(p, o) /\ Written(p, o) => ClusterOK'
      BY <2>1, WrittenCluster
    <3>3. QED  BY <2>2, <3>1, <3>2
  <2>4. CASE Become(p, ToPatch(p, "Error"))
    BY <1>2, <2>1, <2>3, <2>4
  <2>5. CASE Become(p, Updated(p))
    <3>1. Updated(p) \in OpRecord /\ Updated(p).gen = op[p].gen
          /\ (Updated(p).pc = "get" => Updated(p).spec = op[p].spec)
          /\ Updated(p).pc \in {"get", "patch"}
      BY UpdatedType
    <3>2. OpOK(p)
      BY TypeParts
    <3>3. Updated(p).gen \in 1..resource.gen
      BY <2>1, <3>1, <3>2 DEF OpOK
    <3>4. Updated(p).pc \in {"get", "update"}
            => Updated(p).spec.valid /\ Updated(p).spec \in NormalSpec
      BY <2>1, <3>1, <3>2 DEF OpOK
    <3>5. QED  BY <2>1, <2>3, <2>5, <3>1, <3>3, <3>4, BecomeType
  <2>6. QED  BY <1>4, <2>4, <2>5, UpdateObjectMoves
<1>5. ASSUME NEW p \in Operator, ClusterOK', Become(p, Idle), UNCHANGED resource
      PROVE  TypeInv'
  BY <1>5, IdleType, BecomeType
<1>6. ASSUME NEW p \in Operator, PatchStatus(p)
      PROVE  TypeInv'
  <2>1. op[p] \in OpRecord /\ OpOK(p) /\ op[p].pc = "patch"
    BY <1>6, TypeParts DEF PatchStatus
  <2>2. [phase |-> op[p].phase, observed |-> ReadGeneration(p)]
          \in [phase : {Blank, "Error", "Ready"}, observed : 0..resource.gen]
    BY <2>1, TypeParts DEF OpRecord, OpOK, ReadGeneration
  <2>3. status' \in [phase : {Blank, "Error", "Ready"}, observed : 0..resource.gen]
    BY <1>6, <2>2 DEF PatchStatus, TypeInv, ClusterOK
  <2>4. ClusterOK'
    BY <1>6, <2>3, FaultType DEF PatchStatus, TypeInv, ClusterOK, history
  <2>5. QED  BY <1>5, <1>6, <2>4 DEF PatchStatus
<1>7. ASSUME NEW p \in Operator, Crash(p)
      PROVE  TypeInv'
  BY <1>5, <1>7, QuietCluster DEF Crash
<1>8. ASSUME NEW spec \in Specs, EditSpec(spec)
      PROVE  TypeInv'
  <2>1. resource' = [gen |-> resource.gen + 1, spec |-> spec]
        /\ edits < MaxEdits /\ edits' = edits + 1
        /\ UNCHANGED <<status, object, version, op, faults, drifted, intended>>
    BY <1>8 DEF EditSpec, Edit, history
  <2>2. ClusterOK'
    <3>1. ClusterOK /\ resource.gen \in Nat
      BY TypeParts
    <3>2. resource' \in [gen : 1..MaxEdits + 1, spec : Specs]
      <4>1. resource.gen + 1 \in 1..MaxEdits + 1
        BY <2>1, <3>1, OperatorAssumption DEF ClusterOK
      <4>2. QED  BY <2>1, <4>1
    <3>3. status' \in [phase : {Blank, "Error", "Ready"}, observed : 0..resource'.gen]
      BY <2>1, <3>1 DEF ClusterOK
    <3>4. QED  BY <2>1, <3>1, <3>2, <3>3, OperatorAssumption DEF ClusterOK
  <2>3. \A p \in Operator : OpOK(p)'
    BY <2>1, TypeParts DEF OpOK
  <2>4. QED  BY <2>1, <2>2, <2>3 DEF TypeInv
<1>9. ASSUME NEW o \in Object, NEW always \in 0..2, NEW given \in Image,
             EditObject(o, always, given)
      PROVE  TypeInv'
  <2>1. [always |-> always, given |-> given] \in Stored
    BY DEF Stored
  <2>2. /\ object' = [object EXCEPT ![o] = [always |-> always, given |-> given]]
        /\ version' = [version EXCEPT ![o] = @ + 1]
        /\ drifted' = [drifted EXCEPT ![o] = @ \/ object'[o] # object[o]]
        /\ intended' = [intended EXCEPT ![o] = given]
        /\ edits < MaxEdits /\ edits' = edits + 1
        /\ UNCHANGED <<resource, status, op, faults>>
    BY <1>9 DEF EditObject, Edit
  <2>3. ClusterOK
    BY DEF TypeInv
  <2>4. drifted' \in [Object -> BOOLEAN]
    <3>1. (drifted[o] \/ object'[o] # object[o]) \in BOOLEAN
      OBVIOUS
    <3>2. QED  BY <2>2, <2>3, <3>1, Zenon DEF ClusterOK
  <2>5. ClusterOK'
    BY <2>1, <2>2, <2>3, <2>4, OperatorAssumption DEF ClusterOK
  <2>6. QED  BY <2>2, <2>5 DEF TypeInv, OpOK
<1>10. ASSUME NEW o \in Object, DeleteObject(o)
       PROVE  TypeInv'
  <2>1. /\ object' = [object EXCEPT ![o] = Absent]
        /\ version' = [version EXCEPT ![o] = @ + 1]
        /\ drifted' = [drifted EXCEPT ![o] = TRUE]
        /\ edits < MaxEdits /\ edits' = edits + 1
        /\ UNCHANGED <<resource, status, op, faults, intended>>
    BY <1>10 DEF DeleteObject, Edit
  <2>2. ClusterOK
    BY DEF TypeInv
  <2>3. drifted' \in [Object -> BOOLEAN]
    BY <2>1, <2>2, Zenon DEF ClusterOK
  <2>4. ClusterOK'
    BY <2>1, <2>2, <2>3, OperatorAssumption DEF ClusterOK
  <2>5. QED  BY <2>1, <2>4 DEF TypeInv, OpOK
<1>11. CASE UNCHANGED vars
  BY <1>11 DEF vars, history, TypeInv, ClusterOK, OpOK
<1>12. QED
  BY <1>1, <1>3, <1>4, <1>6, <1>7, <1>8, <1>9, <1>10, <1>11 DEF Next, Reconcile

-----------------------------------------------------------------------------
(* The read of an object is current when its update is accepted.              *)

(* Every change of an object gives it a new version. *)
LEMMA StoreMoves ==
  ASSUME TypeInv, FreshInv, [Next]_vars, NEW o \in Object
  PROVE  /\ version[o] \in Nat /\ version'[o] \in Nat
         /\ version[o] <= version'[o]
         /\ version[o] = version'[o] => object[o] = object'[o]
<1>1. version[o] \in Nat /\ version'[o] \in Nat
  BY TypeStep DEF TypeInv, ClusterOK
<1>2. CASE UNCHANGED <<object, version>>
  BY <1>1, <1>2
<1>3. ASSUME NEW p \in Operator, UpdateObject(p)
      PROVE  version[o] <= version'[o] /\ (version[o] = version'[o] => object[o] = object'[o])
  <2>1. op[p].pc = "update"
        /\ (NotWritten \/ (CurrentVersion(p, Objects[op[p].at]) /\ Written(p, Objects[op[p].at])))
    BY <1>3, UpdateObjectMoves
  <2>2. CASE NotWritten
    BY <1>1, <2>2 DEF NotWritten
  <2>3. CASE CurrentVersion(p, Objects[op[p].at]) /\ Written(p, Objects[op[p].at])
    BY <2>1, <2>3, WrittenType
  <2>4. QED  BY <2>1, <2>2, <2>3
<1>4. ASSUME NEW q \in Object, NEW always \in 0..2, NEW given \in Image,
             EditObject(q, always, given)
      PROVE  version[o] <= version'[o] /\ (version[o] = version'[o] => object[o] = object'[o])
  <2>1. /\ object' = [object EXCEPT ![q] = [always |-> always, given |-> given]]
        /\ version' = [version EXCEPT ![q] = @ + 1]
    BY <1>4 DEF EditObject
  <2>2. object \in [Object -> Stored \cup {Absent}] /\ version \in [Object -> Nat]
    BY DEF TypeInv, ClusterOK
  <2>3. QED  BY <2>1, <2>2
<1>5. ASSUME NEW p \in Operator, GetResource(p) \/ GetObject(p) \/ PatchStatus(p) \/ Crash(p)
      PROVE  UNCHANGED <<object, version>>
  BY <1>5 DEF GetResource, GetObject, PatchStatus, Crash
<1>6. ASSUME NEW spec \in Specs, EditSpec(spec)
      PROVE  UNCHANGED <<object, version>>
  BY <1>6 DEF EditSpec
<1>7. ASSUME NEW q \in Object, DeleteObject(q)
      PROVE  version[o] <= version'[o] /\ (version[o] = version'[o] => object[o] = object'[o])
  <2>1. /\ object' = [object EXCEPT ![q] = Absent]
        /\ version' = [version EXCEPT ![q] = @ + 1]
    BY <1>7 DEF DeleteObject
  <2>2. object \in [Object -> Stored \cup {Absent}] /\ version \in [Object -> Nat]
    BY DEF TypeInv, ClusterOK
  <2>3. QED  BY <2>1, <2>2
<1>8. UNCHANGED vars => UNCHANGED <<object, version>>
  BY DEF vars
<1>9. QED
  BY <1>1, <1>2, <1>3, <1>4, <1>5, <1>6, <1>7, <1>8 DEF Next, Reconcile

(* What a step leaves of an operator. *)
LEMMA OthersStay ==
  ASSUME NEW p \in Operator, NEW new, op \in [Operator -> OpRecord], Become(p, new)
  PROVE  /\ op'[p] = new
         /\ \A q \in Operator : q # p => op'[q] = op[q]
BY DEF Become

LEMMA FreshStays ==
  ASSUME TypeInv, FreshInv, [Next]_vars, NEW p \in Operator, op'[p] = op[p]
  PROVE  Fresh(p)'
<1>1. op[p] \in OpRecord /\ Objects[op[p].at] \in Object /\ Fresh(p)
  BY TypeParts DEF FreshInv
<1>2. op[p].read \in Nat
  BY <1>1 DEF OpRecord
<1>3. QED  BY <1>1, <1>2, StoreMoves DEF Fresh

(* Only GetObject brings an operator to an update. *)
LEMMA FreshMoves ==
  ASSUME TypeInv, FreshInv, [Next]_vars, NEW p \in Operator, NEW new, Become(p, new),
         new.pc # "update"
  PROVE  FreshInv'
<1>1. op'[p] = new /\ \A q \in Operator : q # p => op'[q] = op[q]
  BY OthersStay DEF TypeInv
<1>2. Fresh(p)'
  BY <1>1 DEF Fresh
<1>3. QED  BY <1>1, <1>2, FreshStays DEF FreshInv

LEMMA FreshStep ==
  ASSUME TypeInv, FreshInv, [Next]_vars
  PROVE  FreshInv'
<1>1. CASE UNCHANGED op
  BY <1>1, FreshStays DEF FreshInv
<1>2. ASSUME NEW p \in Operator, GetResource(p), op' # op
      PROVE  FreshInv'
  BY <1>2, GetResourceMoves, FreshMoves
<1>3. ASSUME NEW p \in Operator, NEW phase \in {"Error", "Ready"}, Become(p, ToPatch(p, phase))
      PROVE  FreshInv'
  <2>1. ToPatch(p, phase).pc = "patch"
    BY ToPatchType DEF TypeInv
  <2>2. QED  BY <1>3, <2>1, FreshMoves
<1>4. ASSUME NEW p \in Operator, GetObject(p)
      PROVE  FreshInv'
  <2> DEFINE o == Objects[op[p].at]
  <2>1. ASSUME NEW new \in OpRecord, Become(p, new), new.at = op[p].at,
               object[o] # Absent, new.old = object[o], new.read = version[o]
        PROVE  FreshInv'
    <3>1. op'[p] = new /\ \A q \in Operator : q # p => op'[q] = op[q]
      BY <2>1, OthersStay DEF TypeInv
    <3>2. UNCHANGED <<object, version>>
      BY <1>4 DEF GetObject
    <3>3. o \in Object /\ version[o] \in Nat
      BY TypeParts, StoreMoves
    <3>4. Fresh(p)'
      BY <2>1, <3>1, <3>2, <3>3 DEF Fresh
    <3>5. QED  BY <3>1, <3>4, FreshStays DEF FreshInv
  <2>2. QED  BY <1>3, <1>4, <2>1, GetObjectMoves
<1>5. ASSUME NEW p \in Operator, UpdateObject(p)
      PROVE  FreshInv'
  <2>1. CASE Become(p, Updated(p))
    BY <2>1, UpdatedType, FreshMoves
  <2>2. QED  BY <1>3, <1>5, <2>1, UpdateObjectMoves
<1>6. ASSUME NEW p \in Operator, PatchStatus(p) \/ Crash(p)
      PROVE  FreshInv'
  <2>1. Become(p, Idle)
    BY <1>6 DEF PatchStatus, Crash
  <2>2. QED  BY <2>1, IdleType, FreshMoves
<1>7. ASSUME NEW spec \in Specs, EditSpec(spec)
      PROVE  UNCHANGED op
  BY <1>7 DEF EditSpec
<1>8. ASSUME NEW o \in Object, NEW always \in 0..2, NEW given \in Image,
             EditObject(o, always, given)
      PROVE  UNCHANGED op
  BY <1>8 DEF EditObject
<1>9. ASSUME NEW o \in Object, DeleteObject(o)
      PROVE  UNCHANGED op
  BY <1>9 DEF DeleteObject
<1>10. UNCHANGED vars => UNCHANGED op
  BY DEF vars
<1>11. QED
  BY <1>1, <1>2, <1>4, <1>5, <1>6, <1>7, <1>8, <1>9, <1>10 DEF Next, Reconcile

LEMMA NoLostUpdateStep ==
  ASSUME TypeInv, FreshInv, NoLostUpdate, [Next]_vars
  PROVE  NoLostUpdate'
<1>1. CASE UNCHANGED <<object, intended>>
  BY <1>1 DEF NoLostUpdate
<1>2. ASSUME NEW p \in Operator, UpdateObject(p)
      PROVE  NoLostUpdate'
  <2> DEFINE o == Objects[op[p].at]
  <2>1. op[p].pc = "update" /\ (NotWritten \/ (CurrentVersion(p, o) /\ Written(p, o)))
    BY <1>2, UpdateObjectMoves
  <2>2. CASE NotWritten
    BY <1>1, <2>2 DEF NotWritten, history
  <2>3. CASE CurrentVersion(p, o) /\ Written(p, o)
    <3>1. /\ object' = [object EXCEPT ![o] = New(p)]
          /\ New(p) \in Stored /\ op[p].old = object[o] /\ op[p].old # Absent
      BY <2>1, <2>3, WrittenType, OperatorAssumption
    <3>2. /\ object \in [Object -> Stored \cup {Absent}] /\ intended \in [Object -> Image]
          /\ o \in Object
      BY TypeParts DEF ClusterOK
    <3>3. New(p).given = IF op[p].spec.field[o].given = Blank THEN op[p].old.given
                         ELSE op[p].spec.field[o].given
      BY DEF New, Merged
    <3>4. intended' = [intended EXCEPT ![o] =
            IF op[p].spec.field[o].given = Blank THEN @ ELSE op[p].spec.field[o].given]
      BY <2>3 DEF Written
    <3> HIDE DEF o
    <3>5. object[o].given = intended[o]
      BY <3>1, <3>2 DEF NoLostUpdate
    <3>6. New(p).given = intended'[o]
      BY <3>1, <3>2, <3>3, <3>4, <3>5
    <3>7. QED  BY <3>1, <3>2, <3>4, <3>6 DEF NoLostUpdate
  <2>4. QED  BY <2>1, <2>2, <2>3
<1>3. ASSUME NEW q \in Object, NEW always \in 0..2, NEW given \in Image,
             EditObject(q, always, given)
      PROVE  NoLostUpdate'
  <2>1. /\ object' = [object EXCEPT ![q] = [always |-> always, given |-> given]]
        /\ intended' = [intended EXCEPT ![q] = given]
    BY <1>3 DEF EditObject
  <2>2. object \in [Object -> Stored \cup {Absent}] /\ intended \in [Object -> Image]
    BY DEF TypeInv, ClusterOK
  <2>3. QED  BY <2>1, <2>2 DEF NoLostUpdate
<1>4. ASSUME NEW p \in Operator, GetResource(p) \/ GetObject(p) \/ PatchStatus(p) \/ Crash(p)
      PROVE  UNCHANGED <<object, intended>>
  BY <1>4 DEF GetResource, GetObject, PatchStatus, Crash, history
<1>5. ASSUME NEW spec \in Specs, EditSpec(spec)
      PROVE  UNCHANGED <<object, intended>>
  BY <1>5 DEF EditSpec, history
<1>6. ASSUME NEW q \in Object, DeleteObject(q)
      PROVE  NoLostUpdate'
  <2>1. object' = [object EXCEPT ![q] = Absent] /\ UNCHANGED intended
    BY <1>6 DEF DeleteObject
  <2>2. object \in [Object -> Stored \cup {Absent}]
    BY DEF TypeInv, ClusterOK
  <2>3. QED  BY <2>1, <2>2 DEF NoLostUpdate
<1>7. UNCHANGED vars => UNCHANGED <<object, intended>>
  BY DEF vars, history
<1>8. QED
  BY <1>1, <1>2, <1>3, <1>4, <1>5, <1>6, <1>7 DEF Next, Reconcile

-----------------------------------------------------------------------------
(* An operator that works on the current generation leaves every object it has *)
(* passed as that generation says, until somebody changes it.                  *)

(* An update for the current generation makes its object fine, and one for an  *)
(* older generation marks it as drifted. *)
LEMMA WrittenFine ==
  ASSUME TypeInv, FreshInv, ProgressInv, NEW p \in Operator, op[p].pc = "update",
         NEW o \in Object, o = Objects[op[p].at],
         CurrentVersion(p, o), Written(p, o), UNCHANGED resource
  PROVE  /\ op[p].gen = resource.gen \/ Overtaken(p) => Fine(o)'
         /\ \A q \in Object : q # o /\ Fine(q) => Fine(q)'
<1> DEFINE field == op[p].spec.field[o]
<1>1. object \in [Object -> Stored \cup {Absent}] /\ drifted \in [Object -> BOOLEAN]
  BY DEF TypeInv, ClusterOK
<1>2. object' = [object EXCEPT ![o] = New(p)] /\ New(p) # Absent
  BY WrittenType
<1>3. drifted' = [drifted EXCEPT ![o] = Overtaken(p)]
  BY DEF Written
<1>4. New(p).always = field.always
      /\ New(p).given = IF field.given = Blank THEN op[p].old.given ELSE field.given
  BY DEF New, Merged
<1>5. object'[o] = New(p) /\ drifted'[o] = Overtaken(p)
  BY <1>1, <1>2, <1>3, Zenon
<1>6. ASSUME op[p].gen = resource.gen
      PROVE  Matches(o)'
  <2>1. field = Normalised(resource.spec).field[o]
    BY <1>6 DEF ProgressInv, Progress
  <2> HIDE DEF field
  <2>2. field = Normalised(resource'.spec).field[o]
    BY <2>1
  <2>3. QED  BY <1>4, <1>5, <2>2 DEF Matches
<1>7. op[p].gen = resource.gen => Fine(o)'
  BY <1>2, <1>5, <1>6, Zenon DEF Fine
<1>8. Overtaken(p) => Fine(o)'
  BY <1>2, <1>5, Zenon DEF Fine
<1>9. ASSUME NEW q \in Object, q # o, Fine(q)
      PROVE  Fine(q)'
  <2>1. object'[q] = object[q]
    BY <1>1, <1>2, <1>9
  <2>2. drifted'[q] = drifted[q]
    BY <1>1, <1>3, <1>9, Zenon
  <2>3. Matches(q) => Matches(q)'
    BY <2>1 DEF Matches
  <2>4. QED  BY <1>9, <2>1, <2>2, <2>3, Zenon DEF Fine
<1>10. QED  BY <1>7, <1>8, <1>9

(* Nothing else makes an object that is fine otherwise, while the spec stays.  *)
LEMMA FineStays ==
  ASSUME TypeInv, FreshInv, ProgressInv, [Next]_vars, UNCHANGED resource,
         NEW o \in Object, Fine(o),
         \A p \in Operator : UpdateObject(p) /\ o = Objects[op[p].at]
                               => op[p].gen = resource.gen \/ Overtaken(p)
  PROVE  Fine(o)'
<1>1. CASE UNCHANGED <<object, drifted>>
  BY <1>1 DEF Fine, Matches
<1>2. ASSUME NEW p \in Operator, UpdateObject(p)
      PROVE  Fine(o)'
  <2>1. /\ op[p].pc = "update"
        /\ NotWritten \/ (CurrentVersion(p, Objects[op[p].at]) /\ Written(p, Objects[op[p].at]))
    BY <1>2, UpdateObjectMoves
  <2>2. CASE NotWritten
    BY <1>1, <2>2 DEF NotWritten, history
  <2>3. CASE CurrentVersion(p, Objects[op[p].at]) /\ Written(p, Objects[op[p].at])
    <3>1. Objects[op[p].at] \in Object
      BY TypeParts
    <3>2. CASE o = Objects[op[p].at]
      BY <1>2, <2>1, <2>3, <3>2, WrittenFine
    <3>3. CASE o # Objects[op[p].at]
      BY <2>1, <2>3, <3>1, <3>3, WrittenFine
    <3>4. QED  BY <3>2, <3>3
  <2>4. QED  BY <2>1, <2>2, <2>3
<1>3. ASSUME NEW q \in Object, NEW always \in 0..2, NEW given \in Image,
             EditObject(q, always, given)
      PROVE  Fine(o)'
  <2>1. /\ object' = [object EXCEPT ![q] = [always |-> always, given |-> given]]
        /\ drifted' = [drifted EXCEPT ![q] = @ \/ object'[q] # object[q]]
    BY <1>3 DEF EditObject
  <2>2. object \in [Object -> Stored \cup {Absent}] /\ drifted \in [Object -> BOOLEAN]
    BY DEF TypeInv, ClusterOK
  <2>3. CASE o # q
    <3>1. object'[o] = object[o]
      BY <2>1, <2>2, <2>3
    <3>2. drifted'[o] = drifted[o]
      BY <2>1, <2>2, <2>3, Zenon
    <3>3. QED  BY <3>1, <3>2, Zenon DEF Fine, Matches
  <2>4. CASE o = q
    <3>1. drifted'[o] = (drifted[o] \/ object'[o] # object[o])
      BY <2>1, <2>2, <2>4, Zenon
    <3>2. CASE object'[o] = object[o]
      BY <3>1, <3>2, Zenon DEF Fine, Matches
    <3>3. CASE object'[o] # object[o]
      BY <3>1, <3>3, Zenon DEF Fine
    <3>4. QED  BY <3>2, <3>3
  <2>5. QED  BY <2>3, <2>4
<1>4. ASSUME NEW p \in Operator, GetResource(p) \/ GetObject(p) \/ PatchStatus(p) \/ Crash(p)
      PROVE  UNCHANGED <<object, drifted>>
  BY <1>4 DEF GetResource, GetObject, PatchStatus, Crash, history
<1>5. ASSUME NEW spec \in Specs, EditSpec(spec)
      PROVE  UNCHANGED <<object, drifted>>
  BY <1>5 DEF EditSpec, history
<1>6. ASSUME NEW q \in Object, DeleteObject(q)
      PROVE  Fine(o)'
  <2>1. /\ object' = [object EXCEPT ![q] = Absent]
        /\ drifted' = [drifted EXCEPT ![q] = TRUE]
    BY <1>6 DEF DeleteObject
  <2>2. object \in [Object -> Stored \cup {Absent}] /\ drifted \in [Object -> BOOLEAN]
    BY DEF TypeInv, ClusterOK
  <2>3. CASE o # q
    <3>1. object'[o] = object[o]
      BY <2>1, <2>2, <2>3
    <3>2. drifted'[o] = drifted[o]
      BY <2>1, <2>2, <2>3, Zenon
    <3>3. QED  BY <3>1, <3>2, Zenon DEF Fine, Matches
  <2>4. CASE o = q
    BY <2>1, <2>2, <2>4, Zenon DEF Fine
  <2>5. QED  BY <2>3, <2>4
<1>7. UNCHANGED vars => UNCHANGED <<object, drifted>>
  BY DEF vars, history
<1>8. QED
  BY <1>1, <1>2, <1>3, <1>4, <1>5, <1>6, <1>7 DEF Next, Reconcile

(* An operator with an older spec is overtaken once another one, or the status, *)
(* has come to the current generation; so what is fine then stays fine.         *)
LEMMA FineKept ==
  ASSUME TypeInv, FreshInv, ProgressInv, [Next]_vars, UNCHANGED resource,
         NEW o \in Object, Fine(o),
         (\E p \in Operator : op[p].gen = resource.gen) \/ status.observed = resource.gen
  PROVE  Fine(o)'
<1>1. ASSUME NEW q \in Operator, UpdateObject(q)
      PROVE  op[q].gen = resource.gen \/ Overtaken(q)
  <2>1. op[q].pc = "update" /\ OpOK(q)
    BY <1>1, UpdateObjectMoves, TypeParts
  <2>2. op[q].gen \in 1..resource.gen /\ resource.gen \in Nat
    BY <2>1, TypeParts DEF OpOK
  <2>3. CASE op[q].gen # resource.gen
    BY <2>2, <2>3 DEF Overtaken
  <2>4. QED  BY <2>3
<1>2. QED  BY <1>1, FineStays

LEMMA ProgressStays ==
  ASSUME TypeInv, FreshInv, ProgressInv, [Next]_vars, UNCHANGED resource,
         NEW p \in Operator, op'[p] = op[p]
  PROVE  Progress(p)'
<1> SUFFICES ASSUME op[p].gen = resource.gen  PROVE Progress(p)'
  BY DEF Progress
<1>1. op[p] \in OpRecord /\ Progress(p)
  BY TypeParts DEF ProgressInv
<1>2. CASE op[p].pc \in {"get", "update"}
  <2>1. op[p].spec = Normalised(resource'.spec)
    BY <1>1, <1>2 DEF Progress
  <2>2. \A i \in 1 .. op[p].at - 1 : Objects[i] \in Object
    BY <1>1, ObjectsList DEF OpRecord
  <2>3. \A i \in 1 .. op[p].at - 1 : Fine(Objects[i])'
    BY <1>1, <1>2, <2>2, FineKept DEF Progress
  <2>4. QED  BY <1>2, <2>1, <2>3 DEF Progress
<1>3. CASE op[p].pc = "patch" /\ op[p].phase = "Ready"
  <2>1. \A o \in Object : Fine(o)'
    BY <1>1, <1>3, FineKept DEF Progress
  <2>2. QED  BY <1>3, <2>1 DEF Progress
<1>4. QED  BY <1>2, <1>3 DEF Progress

(* An operator that moves, and what it may then claim. *)
LEMMA ProgressMoves ==
  ASSUME TypeInv, FreshInv, ProgressInv, [Next]_vars, UNCHANGED resource,
         NEW p \in Operator, NEW new, Become(p, new),
         new.gen = resource.gen =>
           /\ new.pc \in {"get", "update"} =>
                /\ new.spec = Normalised(resource.spec)
                /\ \A i \in 1 .. new.at - 1 : Fine(Objects[i])'
           /\ new.pc = "patch" /\ new.phase = "Ready" => \A o \in Object : Fine(o)'
  PROVE  ProgressInv'
<1>1. op'[p] = new /\ \A q \in Operator : q # p => op'[q] = op[q]
  BY OthersStay DEF TypeInv
<1>2. new.spec = Normalised(resource.spec) => new.spec = Normalised(resource'.spec)
  OBVIOUS
<1>3. Progress(p)'
  BY <1>1, <1>2 DEF Progress
<1>4. QED  BY <1>1, <1>3, ProgressStays DEF ProgressInv

LEMMA ProgressStep ==
  ASSUME TypeInv, FreshInv, ProgressInv, [Next]_vars
  PROVE  ProgressInv'
<1>1. CASE UNCHANGED <<resource, op>>
  BY <1>1, ProgressStays DEF ProgressInv
<1>2. ASSUME NEW p \in Operator, GetResource(p), op' # op
      PROVE  ProgressInv'
  <2>1. UNCHANGED resource
    BY <1>2 DEF GetResource
  <2>2. PICK new \in OpRecord :
          /\ Become(p, new) /\ new.pc \in {"get", "patch"} /\ new.at = 1
          /\ new.phase # "Ready"
          /\ new.pc = "get" => new.spec = Normalised(resource.spec)
    BY <1>2, GetResourceMoves
  <2>3. new.pc \in {"get", "update"} =>
          /\ new.spec = Normalised(resource.spec)
          /\ \A i \in 1 .. new.at - 1 : Fine(Objects[i])'
    BY <2>2
  <2>4. QED  BY <2>1, <2>2, <2>3, ProgressMoves
<1>3. ASSUME NEW p \in Operator, Become(p, ToPatch(p, "Error")), UNCHANGED resource
      PROVE  ProgressInv'
  <2>1. ToPatch(p, "Error").pc = "patch" /\ ToPatch(p, "Error").phase = "Error"
    BY ToPatchType DEF TypeInv
  <2>2. QED  BY <1>3, <2>1, ProgressMoves
<1>4. ASSUME NEW p \in Operator, op[p].gen = resource.gen, op[p].pc \in {"get", "update"},
             UNCHANGED resource
      PROVE  /\ op[p].spec = Normalised(resource.spec)
             /\ \A i \in 1 .. op[p].at - 1 : Objects[i] \in Object /\ Fine(Objects[i])'
  <2>1. op[p] \in OpRecord /\ Progress(p)
    BY TypeParts DEF ProgressInv
  <2>2. \A i \in 1 .. op[p].at - 1 : Objects[i] \in Object
    BY <2>1, ObjectsList DEF OpRecord
  <2>3. QED  BY <1>4, <2>1, <2>2, FineKept DEF Progress
<1>5. ASSUME NEW p \in Operator, GetObject(p)
      PROVE  ProgressInv'
  <2>1. UNCHANGED resource /\ op[p].pc = "get"
    BY <1>5 DEF GetObject
  <2>2. ASSUME NEW new \in OpRecord, Become(p, new), new.pc = "update",
               new.at = op[p].at, new.gen = op[p].gen, new.spec = op[p].spec
        PROVE  ProgressInv'
    BY <1>4, <2>1, <2>2, ProgressMoves
  <2>3. QED  BY <1>3, <1>5, <2>1, <2>2, GetObjectMoves
<1>6. ASSUME NEW p \in Operator, UpdateObject(p)
      PROVE  ProgressInv'
  <2>1. UNCHANGED resource /\ op[p].pc = "update" /\ op[p] \in OpRecord
    BY <1>6, UpdateObjectMoves, TypeParts
  <2>2. ASSUME CurrentVersion(p, Objects[op[p].at]), Written(p, Objects[op[p].at]),
               Become(p, Updated(p))
        PROVE  ProgressInv'
    <3>1. Updated(p).gen = op[p].gen /\ op[p].at \in 1..4
      BY <2>1, UpdatedType DEF OpRecord
    <3>2. ASSUME op[p].gen = resource.gen
          PROVE  op[p].spec = Normalised(resource.spec)
                 /\ \A i \in 1 .. op[p].at : Fine(Objects[i])'
      <4>1. PICK o \in Object : o = Objects[op[p].at]
        BY TypeParts
      <4>2. Fine(o)'
        BY <2>1, <2>2, <3>2, <4>1, WrittenFine
      <4>3. ASSUME NEW i \in 1 .. op[p].at
            PROVE  Fine(Objects[i])'
        <5>1. CASE i = op[p].at
          <6>1. Objects[i] = o
            BY <4>1, <5>1
          <6>2. QED  BY <4>2, <6>1
        <5>2. CASE i # op[p].at
          <6>1. i \in 1 .. op[p].at - 1
            BY <3>1, <5>2
          <6>2. QED  BY <1>4, <2>1, <3>2, <6>1
        <5>3. QED  BY <5>1, <5>2
      <4>4. QED  BY <1>4, <2>1, <3>2, <4>3
    <3>3. CASE Updated(p).pc = "get"
      <4>1. Updated(p).at - 1 = op[p].at /\ Updated(p).spec = op[p].spec
        BY <3>1, <3>3, UpdatedType
      <4>2. QED  BY <2>1, <2>2, <3>1, <3>2, <3>3, <4>1, ProgressMoves
    <3>4. CASE Updated(p).pc = "patch" /\ op[p].at = 4
      <4>1. op[p].gen = resource.gen => \A o \in Object : Fine(o)'
        BY <3>2, <3>4, ObjectsList
      <4>2. QED  BY <2>1, <2>2, <3>1, <3>4, <4>1, ProgressMoves
    <3>5. QED  BY <3>3, <3>4, UpdatedType
  <2>3. QED  BY <1>3, <1>6, <2>1, <2>2, UpdateObjectMoves
<1>7. ASSUME NEW p \in Operator, PatchStatus(p) \/ Crash(p)
      PROVE  ProgressInv'
  <2>1. Become(p, Idle) /\ UNCHANGED resource
    BY <1>7 DEF PatchStatus, Crash
  <2>2. QED  BY <2>1, IdleType, ProgressMoves
<1>8. ASSUME NEW spec \in Specs, EditSpec(spec)
      PROVE  ProgressInv'
  <2>1. resource'.gen = resource.gen + 1 /\ UNCHANGED op
    BY <1>8 DEF EditSpec
  <2>2. ASSUME NEW p \in Operator
        PROVE  Progress(p)'
    <3>1. op[p].pc # "wait" => op[p].gen \in 1..resource.gen
      BY TypeParts DEF OpOK
    <3>2. resource.gen \in Nat
      BY TypeParts
    <3>3. op[p].pc # "wait" => op[p].gen # resource.gen + 1
      BY <3>1, <3>2
    <3>4. QED  BY <2>1, <3>3 DEF Progress
  <2>3. QED  BY <2>2 DEF ProgressInv
<1>9. ASSUME NEW o \in Object, NEW always \in 0..2, NEW given \in Image,
             EditObject(o, always, given)
      PROVE  UNCHANGED <<resource, op>>
  BY <1>9 DEF EditObject
<1>10. UNCHANGED vars => UNCHANGED <<resource, op>>
  BY DEF vars
<1>11. ASSUME NEW p \in Operator, GetResource(p), op' = op
       PROVE  UNCHANGED <<resource, op>>
  BY <1>11 DEF GetResource
<1>12. ASSUME NEW o \in Object, DeleteObject(o)
       PROVE  UNCHANGED <<resource, op>>
  BY <1>12 DEF DeleteObject
<1>13. QED
  BY <1>1, <1>2, <1>5, <1>6, <1>7, <1>8, <1>9, <1>10, <1>11, <1>12 DEF Next, Reconcile

LEMMA ReadyStep ==
  ASSUME TypeInv, FreshInv, ProgressInv, ReadyMeansApplied, [Next]_vars
  PROVE  ReadyMeansApplied'
<1>1. \A o \in Object : Applied => Fine(o)
  BY DEF ReadyMeansApplied, Fine
<1>2. CASE UNCHANGED <<resource, status>>
  <2>1. ASSUME Applied, NEW o \in Object
        PROVE  Fine(o)'
    BY <1>1, <1>2, <2>1, FineKept DEF Applied
  <2>2. Applied' = Applied
    BY <1>2 DEF Applied
  <2>3. QED  BY <2>1, <2>2 DEF ReadyMeansApplied, Fine
<1>3. ASSUME NEW p \in Operator, PatchStatus(p)
      PROVE  ReadyMeansApplied'
  <2>1. /\ op[p].pc = "patch" /\ UNCHANGED <<resource, object, drifted>>
        /\ status' \in {status, [phase |-> op[p].phase, observed |-> op[p].gen]}
    BY <1>3 DEF PatchStatus, ReadGeneration, history
  <2>2. CASE status' = [phase |-> op[p].phase, observed |-> op[p].gen]
    <3>1. ASSUME Applied', NEW o \in Object
          PROVE  Fine(o)'
      <4>1. op[p].phase = "Ready" /\ op[p].gen = resource.gen
        BY <2>1, <2>2, <3>1 DEF Applied
      <4>2. Fine(o)
        BY <2>1, <3>1, <4>1 DEF ProgressInv, Progress
      <4>3. QED  BY <2>1, <4>1, <4>2, FineKept
    <3>2. QED  BY <3>1 DEF ReadyMeansApplied, Fine
  <2>3. QED  BY <1>2, <2>1, <2>2
<1>4. ASSUME NEW spec \in Specs, EditSpec(spec)
      PROVE  ReadyMeansApplied'
  <2>1. resource'.gen = resource.gen + 1 /\ UNCHANGED status
    BY <1>4 DEF EditSpec
  <2>2. status.observed \in 0..resource.gen /\ resource.gen \in Nat
    BY TypeParts DEF ClusterOK
  <2>3. ~Applied'
    BY <2>1, <2>2 DEF Applied
  <2>4. QED  BY <2>3 DEF ReadyMeansApplied
<1>5. ASSUME NEW p \in Operator, GetResource(p) \/ GetObject(p) \/ Crash(p)
      PROVE  UNCHANGED <<resource, status>>
  BY <1>5 DEF GetResource, GetObject, Crash
<1>6. ASSUME NEW p \in Operator, UpdateObject(p)
      PROVE  UNCHANGED <<resource, status>>
  BY <1>6 DEF UpdateObject
<1>7. ASSUME NEW o \in Object, NEW always \in 0..2, NEW given \in Image,
             EditObject(o, always, given)
      PROVE  UNCHANGED <<resource, status>>
  BY <1>7 DEF EditObject
<1>8. ASSUME NEW o \in Object, DeleteObject(o)
      PROVE  UNCHANGED <<resource, status>>
  BY <1>8 DEF DeleteObject
<1>9. UNCHANGED vars => UNCHANGED <<resource, status>>
  BY DEF vars
<1>10. QED
  BY <1>2, <1>3, <1>4, <1>5, <1>6, <1>7, <1>8, <1>9 DEF Next, Reconcile

-----------------------------------------------------------------------------
(* The invariant, and the theorems.                                           *)

LEMMA InitInv ==
  ASSUME Init
  PROVE  IInv
<1>1. op = [p \in Operator |-> Idle] /\ status.observed = 0 /\ resource.gen = 1
  BY DEF Init
<1>2. \A p \in Operator : op[p].pc = "wait"
  BY <1>1, IdleType
<1>3. FreshInv /\ ProgressInv
  BY <1>2 DEF FreshInv, Fresh, ProgressInv, Progress
<1>4. NoLostUpdate
  BY DEF Init, NoLostUpdate
<1>5. ReadyMeansApplied
  BY <1>1 DEF ReadyMeansApplied, Applied
<1>6. QED  BY <1>3, <1>4, <1>5, InitType DEF IInv

LEMMA InvStep ==
  ASSUME IInv, [Next]_vars
  PROVE  IInv'
BY TypeStep, FreshStep, NoLostUpdateStep, ProgressStep, ReadyStep DEF IInv

(* The inductive invariant holds in every state of every behaviour. *)
THEOREM Invariance == Spec => []IInv
BY InitInv, InvStep, PTL DEF Spec

(* Every variable has its type, whatever the operators, the users and the API  *)
(* server do: the generation an operator reports is one the resource has had,   *)
(* and it works only with a spec that parsed. *)
THEOREM TypeCorrect == Spec => []TypeOK
<1>1. IInv => TypeOK
  BY TypeOKHolds DEF IInv
<1>2. QED  BY <1>1, Invariance, PTL

(* However many operators run at once and whatever calls fail, an image that    *)
(* somebody gave an object is not overwritten by a reconcile that read the       *)
(* object before (reconcileConfigMap, reconcileDeployment, reconcileDaemonSet).  *)
THEOREM UpdatesKept == Spec => []NoLostUpdate
<1>1. IInv => NoLostUpdate
  BY DEF IInv
<1>2. QED  BY <1>1, Invariance, PTL

(* However many operators run at once, without leader election, and whatever     *)
(* calls of reconcile fail, "Ready" for the current generation is true of every  *)
(* object that nobody has changed or deleted since.                             *)
THEOREM ReadyHolds == Spec => []ReadyMeansApplied
<1>1. IInv => ReadyMeansApplied
  BY DEF IInv
<1>2. QED  BY <1>1, Invariance, PTL
=============================================================================
