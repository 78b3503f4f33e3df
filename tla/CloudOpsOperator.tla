--------------------------- MODULE CloudOpsOperator ---------------------------
(***************************************************************************)
(* The operator (cmd/operator/main.go): every RECONCILE_INTERVAL_SECONDS it *)
(* reads the CloudOpsMonitor resource, then reads and updates the ConfigMap, *)
(* two Deployments and the DaemonSet one after the other, and patches the    *)
(* status.  Users edit the resource, and users and controllers change the    *)
(* workloads, between any two of these calls.  A rolling update of the       *)
(* operator's own Deployment (replicas 1, no Recreate strategy) runs the old *)
(* pod and the new one at once, and there is no leader election.             *)
(***************************************************************************)
EXTENDS Integers, Sequences

CONSTANTS
  Operator,  \* the operator's pods
  Specs,     \* the specs a user may apply: a set of Spec
  Image,     \* images and endpoints
  Blank,     \* an empty string
  Absent,    \* an object that does not exist
  Missing,   \* workloads that may not have been created at first
  MaxEdits,  \* changes by users and controllers, a bound
  MaxFaults  \* API errors and deaths of the operator, a bound

\* The order of reconcile.
Objects == <<"cloudops-config", "cloudops-server", "cloudops-worker", "cloudops-agent">>
Object == {Objects[i] : i \in DOMAIN Objects}

\* Of every object reconcile sets one part always (the addresses and the ingest
\* mode, the replicas; nothing of the DaemonSet), the other only when the spec
\* has it (the OTel endpoint, the image).
Field == [always : -1..2, given : Image \cup {Blank}]
Spec0 == [valid : BOOLEAN, field : [Object -> Field]]

\* What the API server stores of an object.
Stored == [always : 0..2, given : Image]

ASSUME OperatorAssumption ==
  /\ Operator # {}
  /\ Specs \subseteq Spec0 /\ Specs # {}
  /\ Blank \notin Image \cup {"Error", "Ready"} /\ Image # {}
  /\ Absent \notin Stored
  /\ Missing \subseteq Object
  /\ MaxEdits \in Nat /\ MaxFaults \in Nat

VARIABLES
  resource,  \* the CloudOpsMonitor resource
  status,    \* its status
  object,    \* object[o]: what the API server stores, or Absent
  version,   \* version[o]: its resourceVersion
  op,        \* op[p]: where reconcile of operator p is, and its locals
  edits, faults,  \* how many there were: bounds
  \* History:
  drifted,   \* drifted[o]: changed by somebody else, or by an operator that was
             \* overtaken, since an operator last updated it
  intended   \* intended[o]: the image somebody last gave o
history == <<drifted, intended>>
vars == <<resource, status, object, version, op, edits, faults, history>>

\* at is the object reconcile has come to, old and read what it read of it.
Idle == [pc |-> "wait", at |-> 1, gen |-> 0, spec |-> Blank,
         old |-> Absent, read |-> 0, phase |-> Blank]
TypeOK ==
  /\ resource \in [gen : 1..MaxEdits + 1, spec : Specs]
  /\ status \in [phase : {Blank, "Error", "Ready"}, observed : 0..resource.gen]
  /\ object \in [Object -> Stored \cup {Absent}]
  /\ version \in [Object -> Nat]
  /\ DOMAIN op = Operator
  /\ \A p \in Operator :
       /\ op[p].pc \in {"wait", "get", "update", "patch"}
       /\ op[p].pc # "wait" => op[p].at \in DOMAIN Objects /\ op[p].gen \in 1..resource.gen
       /\ op[p].pc \in {"get", "update"} => op[p].spec.valid
  /\ edits \in 0..MaxEdits
  /\ faults \in 0..MaxFaults

Init ==
  \E image \in Image, s \in Specs, missing \in SUBSET Missing :
    LET created == [o \in Object |-> IF o \in missing THEN Absent
                                     ELSE [always |-> 0, given |-> image]] IN
    /\ resource = [gen |-> 1, spec |-> s]
    /\ status = [phase |-> Blank, observed |-> 0]
    /\ object = created
    /\ version = [o \in Object |-> 0]
    /\ op = [p \in Operator |-> Idle]
    /\ edits = 0
    /\ faults = 0
    /\ drifted = [o \in Object |-> TRUE]
    /\ intended = [o \in Object |-> image]

Fault == faults < MaxFaults /\ faults' = faults + 1
NoFault == UNCHANGED faults

-----------------------------------------------------------------------------
(* reconcile.                                                                 *)

\* parseSpec: at least one server, no negative number of workers.
NotNormalised(spec) == spec                                    \* mutant
LeastReplicas == [o \in Object |-> IF o = "cloudops-server" THEN 1 ELSE 0]
Normalised(spec) ==
  LET field(o) == spec.field[o]  least(o) == LeastReplicas[o] IN
  [spec EXCEPT !.field = [o \in Object |->
    IF field(o).always < least(o) THEN [field(o) EXCEPT !.always = least(o)] ELSE field(o)]]

\* What an update makes of the object that was read.
OnlyGiven(field, old) ==                                       \* mutant
  [always |-> old.always, given |-> IF field.given = Blank THEN old.given ELSE field.given]
Merged(field, old) ==
  [always |-> field.always, given |-> IF field.given = Blank THEN old.given ELSE field.given]

Become(p, new) == op' = [op EXCEPT ![p] = new]
ToPatch(p, phase) == [Idle EXCEPT !.pc = "patch", !.gen = op[p].gen, !.phase = phase]
PatchNext(p, phase) == Become(p, ToPatch(p, phase))

\* Get of the resource, and parseSpec.
GetResource(p) ==
  /\ op[p].pc = "wait"
  /\ \/ /\ NoFault
        /\ Become(p, [Idle EXCEPT !.pc = IF resource.spec.valid THEN "get" ELSE "patch",
                                  !.gen = resource.gen,
                                  !.spec = Normalised(resource.spec),
                                  !.phase = IF resource.spec.valid THEN Blank ELSE "Error"])
     \/ Fault /\ UNCHANGED op
  /\ UNCHANGED <<resource, status, object, version, edits, history>>

GetObject(p) ==
  LET o == Objects[op[p].at] IN
  /\ op[p].pc = "get"
  /\ \/ /\ object[o] # Absent
        /\ Become(p, [op[p] EXCEPT !.pc = "update", !.old = object[o], !.read = version[o]])
        /\ NoFault
     \/ PatchNext(p, "Error") /\ IF object[o] = Absent THEN NoFault ELSE Fault
  /\ UNCHANGED <<resource, status, object, version, edits, history>>

\* The API server refuses an update of another version than the current one.
AnyVersion(p, o) == TRUE                                       \* mutant
CurrentVersion(p, o) == op[p].read = version[o]

\* Another operator has read, or reported, a newer spec than p is applying.
Overtaken(p) ==
  \/ status.observed > op[p].gen
  \/ \E q \in Operator : op[q].gen > op[p].gen

\* An update that changes nothing gives no new version.
Written(p, o) ==
  LET field == op[p].spec.field[o]  new == Merged(field, op[p].old) IN
  /\ object' = [object EXCEPT ![o] = new]
  /\ version' = IF new = object[o] THEN version ELSE [version EXCEPT ![o] = @ + 1]
  /\ drifted' = [drifted EXCEPT ![o] = Overtaken(p)]
  /\ intended' = [intended EXCEPT ![o] = IF field.given = Blank THEN @ ELSE field.given]
NotWritten == UNCHANGED <<object, version, history>>

UpdateObject(p) ==
  LET o == Objects[op[p].at]
      next == IF op[p].at < Len(Objects)
              THEN [op[p] EXCEPT !.pc = "get", !.at = @ + 1, !.old = Absent, !.read = 0]
              ELSE ToPatch(p, "Ready") IN
  /\ op[p].pc = "update"
  /\ \/ CurrentVersion(p, o) /\ Written(p, o) /\ Become(p, next) /\ NoFault
     \/ ~CurrentVersion(p, o) /\ NotWritten /\ PatchNext(p, "Error") /\ NoFault
     \/ /\ Fault /\ PatchNext(p, "Error")
        /\ NotWritten \/ (CurrentVersion(p, o) /\ Written(p, o))
  /\ UNCHANGED <<resource, status, edits>>

\* patchStatus, with the generation that reconcile read at its start; an error
\* is dropped or logged.  Then the operator waits for its ticker.
LatestGeneration(p) == resource.gen                            \* mutant
ReadGeneration(p) == op[p].gen

PatchStatus(p) ==
  LET patched == [phase |-> op[p].phase, observed |-> ReadGeneration(p)] IN
  /\ op[p].pc = "patch"
  /\ Become(p, Idle)
  /\ \/ status' = patched /\ NoFault
     \/ Fault /\ status' \in {status, patched}
  /\ UNCHANGED <<resource, object, version, edits, history>>

\* An operator dies; the next one starts with a reconcile.
Crash(p) ==
  /\ op[p].pc # "wait" /\ Fault
  /\ Become(p, Idle)
  /\ UNCHANGED <<resource, status, object, version, edits, history>>

-----------------------------------------------------------------------------
(* Everybody else.                                                            *)

Edit == edits < MaxEdits /\ edits' = edits + 1

\* The API server gives an edited spec a new generation.
EditSpec(spec) ==
  /\ spec # resource.spec /\ Edit
  /\ resource' = [gen |-> resource.gen + 1, spec |-> spec]
  /\ UNCHANGED <<status, object, version, op, faults, history>>

\* kubectl apply, which creates what is not there, kubectl scale, kubectl set image,
\* or a status update by a controller.
EditObject(o, always, given) ==
  /\ Edit
  /\ object' = [object EXCEPT ![o] = [always |-> always, given |-> given]]
  /\ version' = [version EXCEPT ![o] = @ + 1]
  /\ drifted' = [drifted EXCEPT ![o] = @ \/ object'[o] # object[o]]
  /\ intended' = [intended EXCEPT ![o] = given]
  /\ UNCHANGED <<resource, status, op, faults>>

\* kubectl delete.  An object created again has another version than the old one.
DeleteObject(o) ==
  /\ object[o] # Absent /\ Edit
  /\ object' = [object EXCEPT ![o] = Absent]
  /\ version' = [version EXCEPT ![o] = @ + 1]
  /\ drifted' = [drifted EXCEPT ![o] = TRUE]
  /\ UNCHANGED <<resource, status, op, faults, intended>>

Reconcile(p) == GetResource(p) \/ GetObject(p) \/ UpdateObject(p) \/ PatchStatus(p)

Next ==
  \/ \E p \in Operator : Reconcile(p) \/ Crash(p)
  \/ \E spec \in Specs : EditSpec(spec)
  \/ \E o \in Object, always \in 0..2, given \in Image :
       /\ o = "cloudops-agent" => always = 0   \* a DaemonSet has no replicas
       /\ EditObject(o, always, given)
  \/ \E o \in Object : DeleteObject(o)

Spec == Init /\ [][Next]_vars

\* The ticker fires again and again, and every call returns.
FairSpec == Spec /\ \A p \in Operator : WF_vars(Reconcile(p))

-----------------------------------------------------------------------------
(* Properties.                                                                *)

Matches(o) ==
  LET field == Normalised(resource.spec).field[o] IN
  /\ object[o].always = field.always
  /\ field.given # Blank => object[o].given = field.given

\* A Ready status for the resource's current generation can be believed: every
\* object is there and as the spec says, or was changed or deleted after the operator
\* had updated it, by somebody else or by a second operator with an older spec in
\* hand.  It holds although a reconcile reads the spec once and takes eight more
\* calls, any of which may fail or be the operator's last.
Applied == status.phase = "Ready" /\ status.observed = resource.gen
ReadyMeansApplied ==
  Applied => \A o \in Object : drifted[o] \/ (object[o] # Absent /\ Matches(o))

\* reconcileDeployment and its siblings write back a whole object they read
\* before: what somebody else set in between is not lost, for the update is then
\* refused.  An image the spec leaves blank stays the one last given.
NoLostUpdate ==
  \A o \in Object : object[o] # Absent => object[o].given = intended[o]

\* Once users and failures are quiet, the operators bring every object to the
\* spec, report so, and change nothing any more: not even two of them keep
\* refusing each other's updates, or undoing them.  It does not create objects
\* (main.go:156,173,186): they must be there.
AllExist == \A o \in Object : object[o] # Absent
Converges ==
  <>[](resource.spec.valid /\ AllExist => Applied /\ \A o \in Object : Matches(o))
=============================================================================
